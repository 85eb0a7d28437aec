SPECIFICATION Spec
CONSTANTS
  c1 = c1
  c2 = c2
  p1 = p1
  chA = chA
  chB = chB
  NoCall = null
  Calls = {c1, c2}
  Pushes = {}
  SeqOf <- SharedSeq
  Channels = {chA}
  ChannelOf <- OneChannel
  PoolSize = 2
  SpuriousWakeups = FALSE
INVARIANTS AnswersOwnRequest
CHECK_DEADLOCK FALSE
