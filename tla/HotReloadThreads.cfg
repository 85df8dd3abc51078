SPECIFICATION Spec
CONSTANTS
  Malformed = Malformed
  NoFile = NoFile
  Unload = Unload
  None = None
  Watcher = Watcher
  Worker = Worker
  NoThread = NoThread
  Scripts = {s1}
  GameThreads = {g1}
  Unloaders = {d1}
  Addrs = {}
  MaxHooks = 1
  MaxFuel = 2
  WaitTicks = 1
  MaxId = 3
  MaxStamp = 1
  MaxDepth = 2
INVARIANTS
  TypeOK
  StoreExclusive
  PendingIsAwaited
  RegistryHoldsOneFreshRuntime
  AppliedAtMostTwice
  InstallGuardNeverWaits
CHECK_DEADLOCK FALSE
