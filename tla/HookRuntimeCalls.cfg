SPECIFICATION Spec
CONSTANTS
  Methods = {m1, m2}
  GameThreads = {g1}
  Agents = {a1}
  NoOne = NoOne
  MaxHooks = 2
  MaxDepth = 2
  AgentDepth = 0
  HookTwice = FALSE
  RemoveOwn = FALSE
  ProtectFails = FALSE
INVARIANTS
  EntryFollowsSlots
  GameKeepsRunning
  NoCallSwallowed
  CtxOutlivesDispatch
SYMMETRY Symmetry
CHECK_DEADLOCK FALSE
