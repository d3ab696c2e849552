SPECIFICATION FairSpec
CONSTANTS
  A = A  B = B  C = C  NoRun = NoRun  NoLock = NoLock
  Runs = {A, B}
  Breakers = {}
  Careful = TRUE
  Droppers = {}
  Killed = {A}
  Mortal = {}
INVARIANTS IncomingIsHolders NothingLeft
PROPERTY LockFreed
CHECK_DEADLOCK FALSE
