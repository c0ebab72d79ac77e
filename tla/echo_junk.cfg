SPECIFICATION Spec
CONSTANTS
  Conns = {c1}
  Programs = {"pipe"}
  BufSize = 2
  MaxBytes = 2
  Faults = {}
INVARIANTS
  OnlyDataEchoed
