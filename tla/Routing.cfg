\* Every pair of competing routes and of differing rules, with a reload at
\* every moment of a decision.
CONSTANTS
  u1 = u1  u2 = u2
  Requests = {r1}
  Symbols <- AllStrings
  Folded <- Capitals
  Width <- TwoBits
  Names = {u1, u2}
  Worlds <- AllWorlds
  MaxReloads = 1
  None = None
SPECIFICATION Spec
INVARIANTS TypeOK MatchesReference DuplicatesAreEqual OneSnapshot EveryMatchServed
PROPERTIES KeepsRoutingPromise
CHECK_DEADLOCK FALSE
