SPECIFICATION FairSpec
CONSTANTS
  Readers = {r1, r2}
  Writers = {w1, w2}
  ROUNDS = 2
  Try = TRUE
  CreateFails = TRUE
INVARIANTS
  NoLostUpdate
  LockOutlivesUse
PROPERTIES
  Terminates
