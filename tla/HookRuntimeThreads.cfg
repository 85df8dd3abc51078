SPECIFICATION Spec
CONSTANTS
  Methods = {m1}
  GameThreads = {g1}
  Agents = {a1}
  NoOne = NoOne
  MaxHooks = 2
  MaxDepth = 1
  AgentDepth = 1
  HookTwice = TRUE
  RemoveOwn = TRUE
  ProtectFails = TRUE
INVARIANTS
  HookInv
  SlotsMatchThunks
  ReentryNotStuck
SYMMETRY Symmetry
CHECK_DEADLOCK FALSE
