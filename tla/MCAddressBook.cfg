SPECIFICATION BookSpec
CONSTANTS
  n1 = n1
  n2 = n2
  n3 = n3
  Value = {0, 1, 2}
  Label = {n1, n2, n3}
  Default = n1
  MaxAddresses = 3
  MaxId = 4
INVARIANTS
  IndicesAreUnique
  StoredIsShown
  ShownIsStored
