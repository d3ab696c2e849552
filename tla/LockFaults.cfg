SPECIFICATION Spec
CONSTANTS
  A = A  B = B  C = C  NoRun = NoRun  NoLock = NoLock
  Runs = {A, B, C}
  Breakers = {C}
  Careful = TRUE
  Droppers = {A}
  Killed = {A}
  Mortal = {A, C}
INVARIANT OneAtATime
PROPERTY OnlyOwnLockRemoved
CHECK_DEADLOCK FALSE
