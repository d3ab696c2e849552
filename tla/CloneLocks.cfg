SPECIFICATION LockSpec
CONSTANTS
  A = A  B = B  C = C  NoRun = NoRun
  Runs = {A, B, C}
  Probing = {A, B, C}
  Killed = {A, C}
  Full = {C}
INVARIANTS OneWriter NothingLeft
CHECK_DEADLOCK FALSE
