\* Three requests, a pool that is full with one job.
CONSTANTS
  Requests = {r1, r2, r3}
  QueueSize = 1
SPECIFICATION FairSpec
INVARIANTS TypeOK NothingLost
PROPERTIES RefusedOnlyLate ShutdownTerminates
CHECK_DEADLOCK FALSE
