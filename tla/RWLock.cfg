\* Three threads, every function of the lock, weak exchanges.
CONSTANTS
  Threads = {a, b, c}
  WeakCAS = TRUE
SPECIFICATION FairSpec
INVARIANTS
  TypeOK
  CntCountsHolders
  Exclusion
PROPERTIES
  RefinesSharedLock
  SomeoneGetsIn
