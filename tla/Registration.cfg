SPECIFICATION FairRSpec
CONSTANTS
  MaxChannels = 3
  MaxFaults = 2
  None = 0
  Server <- MCServer
INVARIANTS TypeOK OneAttempt NotForgotten LinkedIsKnown ResidueOnlyEarly StaysDown LinkedIsRegistered LastWordCounts
PROPERTIES EventuallyClosed EventuallyRegistered
CHECK_DEADLOCK FALSE
