SPECIFICATION FairSpec
CONSTANTS
  Conns = {c1}
  Programs = {"tcp", "pipe"}
  BufSize = 2
  MaxBytes = 3
  Faults = {"empty", "refused", "badconn", "early", "reset", "sigint"}
INVARIANTS
  BuffersAccounted
  WritesSucceed
PROPERTIES
  ImplementsEcho
  EveryByteEchoed
