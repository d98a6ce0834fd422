\* Two sessions, four ports (the main port, the second port and two to move to).
CONSTANTS
  Sessions = {c1, c2}
  Ports = {3009, 4001, 4002, 4003}
  MainPort = 3009
  FirstPort = 4001
  NoPort = 0
  NoOne = NoOne
  MaxDebt = 3
SPECIFICATION Spec
\* A lock that a handler released without holding stops the server for good.
CHECK_DEADLOCK FALSE
SYMMETRY SessionSymmetry
CONSTRAINT CntBound
INVARIANTS
  TypeOK
  LockRightUntilBusy
  AnnouncedPortListensUntilBusy
  PeerConnExclusive
  UsedConnHasUser
