SPECIFICATION FairSpec
CONSTANTS
  Programs = {"progress", "uvcat", "uvtee", "uvtee-all-async", "uvtee-reuse-buf", "spawn", "detach", "proc-streams", "cgi", "signal", "idle-basic", "uvstop", "ref-timer", "idle-compute", "tty-gravity", "udp-dhcp"}
  Faults = {"noopen", "readerror", "emptyread", "sink", "short", "noclose", "spawn", "badconn", "refused", "setup", "full", "send", "recv", "spurious"}
  Size = 10
  Steps = {0, 1, 3}
  CopyBufSize = 2
  InputSize = 3
  MaxKids = 3
  MaxSignals = 2
  IdleUntil = 3
  JobDue = 5
  Height = 2
  MaxInputs = 2
  MaxOffers = 2
INVARIANTS
  DataIsReadable
  CopiesInOrder
  StopsOnlyBehind
  ClosedAfterOwnChild
  StaysUntilAllCalled
  OneComputationPerInput
  RequestNotReused
  OneOfferRead
PROPERTIES
  NeverRegresses
  EverySendShown
  EveryProgramEnds
