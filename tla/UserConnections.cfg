SPECIFICATION Spec
CONSTANTS
  Conns <- MCConns
  Address <- MCAddress
  Uids = {0, 1}
  DevIds = {0, 1}
  None = 0
INVARIANTS OthersDoNotRemove GoneIsForgotten
CHECK_DEADLOCK FALSE
