SPECIFICATION Spec
CONSTANTS
  MaxRuns = 4
  None = None
  Absent = Absent
  Empty = Empty
  Corrupt = Corrupt
INVARIANTS TypeOK DeploymentIsRecorded FailuresAreCleanedUp
CHECK_DEADLOCK FALSE
