SPECIFICATION Spec
CONSTANTS
  Methods = {m1}
  GameThreads = {g1}
  Agents = {a1}
  NoOne = NoOne
  MaxHooks = 2
  MaxDepth = 2
  AgentDepth = 2
  HookTwice = TRUE
  RemoveOwn = FALSE
  ProtectFails = FALSE
INVARIANTS
  NoPatchSurvives
CHECK_DEADLOCK FALSE
