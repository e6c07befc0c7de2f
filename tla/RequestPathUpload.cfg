\* A stalled upload against the ceiling.
CONSTANTS
  a = a  b = b  c = c
  Requests = {r1}
  Upstreams = {a}
  None = None
  Methods = {"GET"}
  Timeout <- LoneTimeout
  Fallback <- LoneFallback
  Ceiling = 3
  PolicyInstalled = FALSE
SPECIFICATION FairSpec
PROPERTIES CeilingBoundsUpload
CHECK_DEADLOCK FALSE
