SPECIFICATION FairSpec
CONSTANTS
  Lengths = {1, 2, 3}
  Batch = 2
  MaxReads = 2
  Faults = {"eof", "reset", "nostat", "noopen", "brim", "dirty", "again", "ioerror", "failed", "refused"}
INVARIANTS
  ResponseIsWhole
  WritesAccounted
PROPERTIES
  RequestEnds
