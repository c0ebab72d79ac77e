SPECIFICATION ParserSpec
CONSTANTS
  Pieces <- MCPieces
  Requests <- MCRequests
  Known <- MCKnown
  Lower <- MCLower
  Cuts = {"value"}
  Malformed = FALSE
  MaxMsgs = 1
INVARIANTS
  ValueFollowsField
