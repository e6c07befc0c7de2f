\* A mirror entry without an upstream.
CONSTANTS
  u1 = u1  u2 = u2
  Requests = {r1}
  Symbols <- AllStrings
  Folded <- Capitals
  Width <- TwoBits
  Names = {u1, u2}
  Worlds <- EmptyMirrorWorlds
  MaxReloads = 0
  None = None
SPECIFICATION Spec
INVARIANTS AcceptedIsServed
CHECK_DEADLOCK FALSE
