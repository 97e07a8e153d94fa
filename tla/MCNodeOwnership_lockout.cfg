SPECIFICATION Spec
CONSTANTS
  Dirs = {A}
  NoDir = NoDir
  Adopters = {}
  LiveReplacement = FALSE
  MaxNodes = 2
  MaxStops = 2
  MaxCordons = 0
INVARIANTS OwnerAdmitted
CHECK_DEADLOCK FALSE
