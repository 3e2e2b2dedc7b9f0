\* A HIGH and a MEDIUM tool of BOB's and a HIGH one from MCP, wrapped once or
\* twice; two confirmations and two approvals, of one call or of two.  The third
\* equal call within a window of one tick is a repeat, and a history of three
\* forgets: a second run needs other calls, or time, in between.  No cycle fits
\* into so short a history.
SPECIFICATION Spec
CONSTANTS
  Tools        = {high, mcp, low}
  HighTools    = {high, mcp}
  McpTools     = {mcp}
  Args         = {a, bad}
  Suspicious   = {bad}
  Ids          = {i1, i2}
  None         = None
  Graphs       = 1
  Timeout      = 1
  Window       = 1
  Threshold    = 3
  CycleLengths = {2}
  Repetitions  = 2
  HistorySize  = 3
  MaxLayers    = 2
  MaxClicks    = 2
  MaxClock     = 2
SYMMETRY Symmetry
INVARIANTS
  RunsAreApproved
  ApprovalsSpentOnRuns
  RepeatsBounded
