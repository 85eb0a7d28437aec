SPECIFICATION FairSpec
CONSTANTS
  c1 = c1
  c2 = c2
  p1 = p1
  chA = chA
  chB = chB
  NoCall = null
  Calls = {c1, c2}
  Pushes = {}
  SeqOf <- DistinctSeqs
  Channels = {chA}
  ChannelOf <- OneChannel
  PoolSize = 1
  SpuriousWakeups = TRUE
PROPERTIES EveryCallReturns ParkedThreadFreed ContractSpec
CHECK_DEADLOCK FALSE
