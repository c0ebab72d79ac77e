SPECIFICATION ServerFairSpec
CONSTANTS
  c1 = c1
  c2 = c2
  Conns = {c1, c2}
  Missing = Missing
  NotFound = 2
  Chatty = c1
  MaxReqs <- MCMaxReqs
  Lengths = {2, 3}
  Batch = 2
  Faults = {"ioerror", "reset", "gone"}
  ClientActs = {"second", "eof", "malformed", "headless", "cut", "refused", "failed"}
INVARIANTS
  ReleasedWhenIdle
  OneStageAtATime
  StopsAreDeliberate
PROPERTIES
  EveryRequestAnswered
