\* The readers of update_lock, under fair scheduling.
CONSTANTS
  Sessions = {c1, c2}
  Ports = {3009, 4001, 4002}
  MainPort = 3009
  FirstPort = 4001
  NoPort = 0
  NoOne = NoOne
  MaxDebt = 3
SPECIFICATION FairSpec
CHECK_DEADLOCK FALSE
CONSTRAINT CntBound
PROPERTY MainPortAnswers
