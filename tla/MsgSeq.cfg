SPECIFICATION Spec
CONSTANTS
  TimeBits = 2
  IdShift = 2
  TypeShift = 5
  IntBits = 7
  Servers <- MCServers
  MaxClock = 5
  MaxIssued = 2
INVARIANTS NoCrossServerCollision CollisionOnlySameTick
