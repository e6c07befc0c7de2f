\* Requests missing from the metrics.
CONSTANTS
  a = a  b = b  c = c
  Requests = {r1}
  Upstreams = {a}
  None = None
  Methods = {"GET"}
  Timeout <- LoneTimeout
  Fallback <- LoneFallback
  Ceiling = 3
  PolicyInstalled = FALSE
SPECIFICATION Spec
INVARIANTS EveryRequestCounted
CHECK_DEADLOCK FALSE
