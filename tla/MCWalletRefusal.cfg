SPECIFICATION Spec
CONSTANTS
  w1 = w1
  w2 = w2
  w3 = w3
  n1 = n1
  n2 = n2
  n3 = n3
  k1 = k1
  k2 = k2
  Random = Random
  None = None
  Wallet = {w1, w2, w3}
  Name = {n1, n2, n3}
  Key = {k1, k2}
  Phrase = {k1}
  MaxRows = 2
SYMMETRY Symmetry
INVARIANTS
  RefusalIsHarmless
