SPECIFICATION FairSpec
CONSTANTS
  Dirs = {A, B}
  NoDir = NoDir
  Adopters = {A}
  LiveReplacement = FALSE
  MaxNodes = 2
  MaxStops = 2
  MaxCordons = 1
INVARIANTS NodeTypeOK SessionOwnsNode WrittenByOwner CordonsMarked
PROPERTIES MarkerStable CordonLifted
CHECK_DEADLOCK FALSE
