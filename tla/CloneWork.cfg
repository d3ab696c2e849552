SPECIFICATION Spec
CONSTANTS
  a = a  b = b  NoRecord = NoRecord
  Repos = {a, b}
  Helped = {b}
  Jobs = 2
  Slots = 2
  Retries = 1
  PressAt = {"collecting", "interrupted"}
  MaxPresses = 2
INVARIANTS WholeClones RecordTells LockCoversWork
PROPERTY FoldersKept
