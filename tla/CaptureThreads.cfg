SPECIFICATION Spec
CONSTANTS
  Threads = {g1, g2}
  Server = Server
  NoOne = NoOne
  Sockets = {k1}
  Overlaps = {o1, o2}
  Addrs = {x1}
  Arrays <- Single
  MaxFrames = 2
  MaxBytes = 2
  MaxPending = 1
  Header = 1
  Serve = FALSE
  Installable = {"WSARecv", "closesocket", "GQCS"}
  PortOnly = FALSE
  MaxCalls = 3
INVARIANTS
  TypeOK
  EntriesAreAwaited
  CapturedOnce
  GameHoldsNothing
SYMMETRY Symmetry
CHECK_DEADLOCK FALSE
