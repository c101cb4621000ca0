SPECIFICATION MCSpec
CONSTANTS
  d1 = d1
  d2 = d2
  e1 = e1
  e2 = e2
  q1 = q1
  q2 = q2
  n1 = n1
  t1 = t1
  t2 = t2
  Domains = {d1, d2}
  Eps = {e1, e2}
  Cqs = {q1, q2}
  Cntrs = {n1}
  Plans <- MCPlans
  Addrs = {x, y}
  AvCounts = {0, 2}
  RowBytes = 8
  SizeBytes = 8
  MaxInserted = 3
  Registrars = {t1, t2}
  RequestedKeys = {1, 3, 4}
  KeySpace = 4
  MapSize = 2
  MaxRegions = 4
INVARIANTS TypeOK EverythingAsAnnounced SafeMeansLocked MessagesHaveBuffer ReadDrivesItsSides WaiterHasInterrupt HandlesResolve RegionsAgree
CHECK_DEADLOCK FALSE
