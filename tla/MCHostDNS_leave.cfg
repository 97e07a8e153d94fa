SPECIFICATION Spec
CONSTANTS
  lan = lan
  own = own
  custom = custom
  ts = ts
  Services = {lan}
  NoService = NoService
  Foreign = {ts}
  Joins <- TwoJoins
  Assumed <- DefaultJoin
  Nameservers = {n1}
  Fallback = n1
  NoAddress = NoAddress
  Races = FALSE
  MaxEdits = 1
  MaxFaults = 1
  MaxStops = 1
  MaxKills = 0
INVARIANTS LeaveUndoes
