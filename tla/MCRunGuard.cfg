SPECIFICATION Spec
CONSTANTS
  p1 = p1
  p2 = p2
  p3 = p3
  Proc = {p1, p2, p3}
  Nobody = Nobody
  Lost = Lost
  MaxStarts = 2
INVARIANTS
  OneInstance
  RefusedBesideOwner
PROPERTIES
  StartIsDecided
\* Every process may have used up its starts.
CHECK_DEADLOCK FALSE
