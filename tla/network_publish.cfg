SPECIFICATION Spec
CONSTANTS
  r1 = r1
  r2 = r2
  p1 = p1
  p2 = p2
  p3 = p3
  Live = Live
  Requests = {r1}
  Keepers = {p1, p2, p3}
  MaxPublishes = 2
  MaxSubscriptions = 2
  MaxKnown = 4
SYMMETRY KeeperSymmetry
INVARIANTS
  TypeOK
  OncePerPublication
  AcceptedIsStored
  AllKnownDialed
CHECK_DEADLOCK FALSE
