SPECIFICATION FairSpec
CONSTANTS
  Null = Null
  IntMax = 4
  Texts = {"", "ask", "login", "x", "y"}
  Charset <- MCCharset
  Objects <- MCObjects
  MaxMessages = 3
  MaxFrames = 2
INVARIANTS OnceInOrder OwnFields NoneLost
PROPERTIES SilentIsClosed
CHECK_DEADLOCK FALSE
