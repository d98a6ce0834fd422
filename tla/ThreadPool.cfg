\* Two workers, three launches, tasks that may run for ever. The creation of
\* the last worker may fail, and a launch on the worker that does not exist
\* waits for ever: the system may stop.
CONSTANTS
  Size = 2
  Tasks = {t1, t2, t3}
  CreateFault <- LastFault
  NULL = NULL
SPECIFICATION FairSpec
CHECK_DEADLOCK FALSE
INVARIANTS
  TypeOK
  CallMatchesLaunch
  AcceptedNotLost
  WaitReturnsResult
PROPERTIES
  CancelOnlyIdleWorkers
  RefinesTaskPool
  LaunchReturns
  DestroyEnds
