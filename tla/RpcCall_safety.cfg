SPECIFICATION Spec
CONSTANTS
  c1 = c1
  c2 = c2
  p1 = p1
  chA = chA
  chB = chB
  NoCall = null
  Calls = {c1, c2, p1}
  Pushes = {p1}
  SeqOf <- DistinctSeqs
  Channels = {chA, chB}
  ChannelOf <- TwoChannels
  PoolSize = 2
  SpuriousWakeups = FALSE
INVARIANTS TypeOK AnswersOwnRequest NoEmptyAnswer ResidueOnlyOfUnanswered Delivery
PROPERTIES KeepsAwaitedResponse ContractSafety
CHECK_DEADLOCK FALSE
