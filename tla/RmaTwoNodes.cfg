SPECIFICATION Spec
CONSTANTS
  n1 = n1
  n2 = n2
  k1 = k1
  k2 = k2
  i1 = i1
  i2 = i2
  Nodes = {n1, n2}
  Keys = {k1, k2}
  IntIds = {i1, i2}
  Lens = {3}
  Iovs <- MCIovs
  Width = 6
  None = None
SYMMETRY MCSymmetry
INVARIANTS TypeOK HandlesOwned AccessHitsTarget AccessIsClipped
