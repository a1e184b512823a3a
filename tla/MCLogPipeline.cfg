SPECIFICATION PipelineSpec
CONSTANTS
  Tests = {a, b}
  Summary = Summary
  None = None
  Indents = {0, 4, 8}
  Unwritable = {b}
  MaxLines = 3
  MaxChunk = 2
INVARIANTS MarkersAreOpenBlocks Routing NoLineLost
PROPERTY Returns
CHECK_DEADLOCK FALSE
