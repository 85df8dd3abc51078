SPECIFICATION Spec
CONSTANTS
  Malformed = Malformed
  NoFile = NoFile
  Unload = Unload
  None = None
  Watcher = Watcher
  Worker = Worker
  NoThread = NoThread
  Scripts = {s1}
  GameThreads = {g1}
  Unloaders = {}
  Addrs = {}
  MaxHooks = 2
  MaxFuel = 3
  WaitTicks = 1
  MaxId = 3
  MaxStamp = 2
  MaxDepth = 2
INVARIANTS
  NoSelfDeadlock
CHECK_DEADLOCK FALSE
