SPECIFICATION FairSpec
CONSTANTS
  Servers = {1, 2}
  Fallback = 1
  Attempts = {1, 2}
  Procs = {1, 2, 3}
  Scrapes = {1}
  MaxCPU = 2
  MaxSessions = 2
  MaxChanges = 1
  MaxFailures = 2
CONSTRAINT OneAtATime
INVARIANTS KubeletTypeOK TunnelsHeld NeverOvercounted
PROPERTIES EveryServerReached
CHECK_DEADLOCK FALSE
