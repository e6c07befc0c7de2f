\* One request, two upstreams that fail over to each other and one without a
\* fallback, and a policy layer that may refuse an attempt.
CONSTANTS
  a = a  b = b  c = c
  Requests = {r1}
  Upstreams = {a, b, c}
  None = None
  Methods = {"GET", "POST"}
  Timeout <- PairTimeout
  Fallback <- PairFallback
  Ceiling = 3
  PolicyInstalled = TRUE
SPECIFICATION FairSpec
INVARIANTS TypeOK OneHop NoDuplicateWork GateLedger MirrorOnce
PROPERTIES MirrorBeforeAttempts ResponseFinal WorkRunsOut EndsUnlessUnread
CHECK_DEADLOCK FALSE
