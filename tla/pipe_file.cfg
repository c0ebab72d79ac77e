SPECIFICATION FairSpec
CONSTANTS
  c1 = c1
  c2 = c2
  Conns = {c1, c2}
  Lengths = {1, 2, 3}
  Batch = 2
  Faults = {"ioerror", "reset", "gone", "brim"}
INVARIANTS
  CompletionIsWhole
  MemorySafe
  OnlyLongFilesFail
PROPERTIES
  ImplementsFileTransfer
  EveryTransferFinishes
