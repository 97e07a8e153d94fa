SPECIFICATION Spec
CONSTANTS
  Dirs = {A}
  NoDir = NoDir
  Adopters = {}
  LiveReplacement = FALSE
  MaxNodes = 1
  MaxStops = 1
  MaxCordons = 1
INVARIANTS OperatorCordonKept
CHECK_DEADLOCK FALSE
