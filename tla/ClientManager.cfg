SPECIFICATION Spec
CONSTANTS
  c1 = c1
  c2 = c2
  A = A
  B = B
  Clients <- MCClients
  Key <- MCKey
  Threads = {t1, t2}
  Types = {A, B}
  Ids = {1, 2}
  None = None
INVARIANTS BroadcastReachesAll DeadAreForgotten
SYMMETRY MCSymmetry
CHECK_DEADLOCK FALSE
