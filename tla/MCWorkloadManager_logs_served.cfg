SPECIFICATION Spec
CONSTANTS
  Pods = {1}
  Policy <- AllJobs
  HostNetwork = {}
  Foreign = {}
  Unsupported = {}
  Nfs = {}
  Addresses = {3, 4}
  FaultKinds = {}
  MaxFaults = 0
  MaxStops = 0
  MaxExits = 1
INVARIANTS LogsServed
