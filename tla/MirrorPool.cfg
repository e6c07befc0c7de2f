\* Three submitters, two racing calls of Stop, two workers, a channel of one.
CONSTANTS
  j1 = j1  j2 = j2  j3 = j3
  Jobs = {j1, j2, j3}
  Stoppers = {s1, s2}
  Workers = {w1, w2}
  QueueSize = 1
  Ratios <- MixedRatios
  None = None
SPECIFICATION FairSpec
INVARIANTS TypeOK NoPanic ExactlyOnce FanOut StopDrains NeverBlocks
PROPERTIES StopReturns KeepsPromise
CHECK_DEADLOCK FALSE
