SPECIFICATION FairSpec
CONSTANTS
  Malformed = Malformed
  NoFile = NoFile
  Unload = Unload
  None = None
  Watcher = Watcher
  Worker = Worker
  NoThread = NoThread
  Scripts = {s1, s2}
  GameThreads = {}
  Unloaders = {}
  Addrs = {a1}
  MaxHooks = 2
  MaxFuel = 3
  WaitTicks = 1
  MaxId = 3
  MaxStamp = 2
  MaxDepth = 3
INVARIANTS
  DroppedLeavesNoHook
  DroppedLeavesNoWrite
PROPERTIES
  LatestScriptWins
  PendingIsConsumed
CHECK_DEADLOCK FALSE
