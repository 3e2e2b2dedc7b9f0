\* The thresholds of loop_detector.py, three tiers, one MCP tool.
SPECIFICATION Spec
CONSTANTS
  Tools        = {mcp}
  HighTools    = {}
  McpTools     = {mcp}
  Args         = {a, b}
  Suspicious   = {}
  Ids          = {}
  None         = None
  Graphs       = 3
  Timeout      = 120
  Window       = 60
  Threshold    = 5
  CycleLengths = {2, 3, 4, 5}
  Repetitions  = 3
  HistorySize  = 50
  MaxLayers    = 3
  MaxClicks    = 1
  MaxClock     = 1
PROPERTY LoopsAreTheAgents
