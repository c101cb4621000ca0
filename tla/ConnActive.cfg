SPECIFICATION Spec
CONSTANTS
  n1 = n1
  n2 = n2
  n3 = n3
  a12 = a12
  a13 = a13
  a23 = a23
  p2 = p2
  p3 = p3
  q3 = q3
  None = None
  Nodes = {n1, n2, n3}
  Actives = {a12, a13, a23}
  Passives = {p2, p3, q3}
  Home <- MCHome
  Target <- MCTarget
  MaxBuffers = 2
  Leavers = {a12, p2, p3}
  Failing = {}
INVARIANTS ActiveMapsItsPartner
CHECK_DEADLOCK FALSE
