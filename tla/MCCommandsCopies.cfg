SPECIFICATION CommandsSpec
CONSTANTS
  MaxLines = 2
  PipeSize = 1
  LongLines = TRUE
  TfRetries = 1
  Workspaces = {"default", "abc", "a.c"}
  MatchedBy <- MCMatchedBy
  Artifacts = {web, db, cache}
  MaxRemoteFiles = 3
  Tree <- MCTree
  Volatile <- MCVolatile
  HiddenNames = {".terraform"}
  StateNames = {"state"}
  VarsName = "vars"
INVARIANT CopyErrorsAreReturned
CHECK_DEADLOCK FALSE
