\* Every graph over three upstreams, in every order of the search.
CONSTANTS
  a = a  b = b  c = c  x = x
  Upstreams = {a, b, c}
  Strangers = {x}
  None = None
  Configs <- AllConfigs
SPECIFICATION FairSpec
INVARIANTS TypeOK CycleIsReal AcceptedIsAcyclic
PROPERTIES VisitedOnce Terminates
CHECK_DEADLOCK FALSE
