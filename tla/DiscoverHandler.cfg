SPECIFICATION Spec
CONSTANTS
  Servers <- MCServers
  Targets <- MCServers
  MaxSession = 2
  MaxConns = 3
  MaxAsks = 1
  Overlapping <- MCOverlapping
INVARIANTS TypeOK LookupFindsServer RegistryFollowsSessions
PROPERTIES OnlyOwnUnregisterRemoves
CHECK_DEADLOCK FALSE
