SPECIFICATION AutoIdSpec
CONSTANTS
  Procs = {p1, p2, p3}
  MaxCalls = 2
  MaxValue = 5
  Null = Null
  Junk = Junk
INVARIANT LaterIsGreater
CHECK_DEADLOCK FALSE
