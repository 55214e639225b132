SPECIFICATION Spec
CONSTANTS
  Words <- MCWords
  Terminator <- MCTerminator
  TokenCapacity = 1
  BufferCapacity = 3
  Modulus = 8
  Pieces <- MCPieces
  HeaderSize = 4
  MaxLead <- MCMaxLead
  MaxField = 2
  MaxHeaders = 2
INVARIANTS
  TypeOK
  TableIsGraph
  HeaderRecognized
  TokensAreFields
  SplitsAtHeader
  MessagesAreExact
CHECK_DEADLOCK FALSE
