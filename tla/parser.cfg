SPECIFICATION ParserSpec
CONSTANTS
  Pieces <- MCPieces
  Requests <- MCRequests
  Known <- MCKnown
  Lower <- MCLower
  Cuts = {"url", "field", "value"}
  Malformed = TRUE
  MaxMsgs = 2
INVARIANTS
  ParsedAsSent
  
