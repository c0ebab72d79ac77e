SPECIFICATION FairSpec
CONSTANTS
  w1 = w1
  w2 = w2
  FIB_UNTIL = 4
  Workers = {w1, w2}
  Programs = {"11-queue-work", "12-queue-cancel"}
  MaxSignals = 2
INVARIANTS
  FrameOutlivesRequests
PROPERTIES
  NothingStartsAfterCancel
  ImplementsWorkRequests
  Terminates
