SPECIFICATION Spec
CONSTANTS
  Kinds = {"local", "ssh", "ssm", "ssm-ssh"}
  Archives = {"public", "private"}
  Stamps = {1, 2, 3}
  Bucket <- ThreeBackups
  MaxOthers = 2
  Absent = Absent
INVARIANTS TellsTruth NothingLeft
PROPERTIES ReplacedIsSaved CommandEnds
CHECK_DEADLOCK FALSE
