SPECIFICATION CommandsSpec
CONSTANTS
  MaxLines = 2
  PipeSize = 1
  LongLines = TRUE
  TfRetries = 1
  Workspaces = {"default", "abc", "a.c"}
  MatchedBy <- MCMatchedBy
  Artifacts = {web, db, cache}
  MaxRemoteFiles = 3
  Tree <- MCTree
  Volatile <- MCVolatile
  HiddenNames = {".terraform"}
  StateNames = {"state"}
  VarsName = "vars"
INVARIANTS TerraformIsDone BuildsAreAnswered SshCallsEndWell CopyIsClean
PROPERTIES KeepsContract ReturnsUnlessTooLong
CHECK_DEADLOCK FALSE
