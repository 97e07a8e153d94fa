SPECIFICATION FairSpec
CONSTANTS
  lan = lan
  own = own
  custom = custom
  ts = ts
  Services = {lan}
  NoService = NoService
  Foreign = {ts}
  Joins <- TwoJoins
  Assumed <- DefaultJoin
  Nameservers = {n1, n2}
  Fallback = n1
  NoAddress = NoAddress
  Races = FALSE
  MaxEdits = 2
  MaxFaults = 1
  MaxStops = 1
  MaxKills = 1
INVARIANTS DNSTypeOK ResolverRemoved
PROPERTIES RecordHonoured ForeignKept ForeignFileKept HandedBack Published ResolverCurrent
