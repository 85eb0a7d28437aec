SPECIFICATION ExchangeSpec
CONSTANTS
  Null = Null
  IntMax = 4
  Texts = {"", "login", "move", "new", "x", "y"}
  Numbers <- MCNumbers
  Names <- MCNames
  Contents <- MCContents
  Arrays <- MCArrays
  PeerMessages <- MCPeerMessages
  MaxWire = 2
INVARIANTS RoundTrip LastOccurrenceWins
PROPERTIES ReadIntoOverlays
