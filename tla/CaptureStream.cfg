SPECIFICATION FairSpec
CONSTANTS
  Threads = {g1, g2}
  Server = Server
  NoOne = NoOne
  Sockets = {k1}
  Overlaps = {}
  Addrs = {x1}
  Arrays <- Split
  MaxFrames = 2
  MaxBytes = 2
  MaxPending = 1
  Header = 1
  Serve = TRUE
  Installable = {"send"}
  PortOnly = FALSE
  MaxCalls = 2
INVARIANTS
  RingWithinCaps
PROPERTIES
  FramesAreSent
CHECK_DEADLOCK FALSE
