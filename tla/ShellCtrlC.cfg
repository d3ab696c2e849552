SPECIFICATION FairSpec
CONSTANTS
  MaxCommands = 3
  MaxPresses = 3
  Stubborn = {2}
  NoTemp = {3}
  Lossy = {3}
  Drops = TRUE
INVARIANTS PayloadNeverCut InterruptsOwnCommand InterruptIsReported
PROPERTIES InterruptEnds CallAnswered
CHECK_DEADLOCK FALSE
