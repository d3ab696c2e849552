SPECIFICATION Spec
CONSTANTS
  v1 = v1  v2 = v2  shared = shared  early = early  other = other
  NoSkill = NoSkill  NoCommand = NoCommand
  Rules = {shared, early, other}
  Versions = {v1, v2}
  RULES <- TwoVersions
  MaxEdits = 3
INVARIANT OnlyWantedLeft
PROPERTIES DevelopersWorkKept LostIsInBackup
CHECK_DEADLOCK FALSE
