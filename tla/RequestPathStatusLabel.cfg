\* The status label of the metrics against the status sent.
CONSTANTS
  a = a  b = b  c = c
  Requests = {r1}
  Upstreams = {a}
  None = None
  Methods = {"GET"}
  Timeout <- LoneTimeout
  Fallback <- LoneFallback
  Ceiling = 3
  PolicyInstalled = FALSE
SPECIFICATION Spec
INVARIANTS ObservedStatusIsSent
CHECK_DEADLOCK FALSE
