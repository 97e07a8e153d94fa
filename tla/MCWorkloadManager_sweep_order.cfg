SPECIFICATION Spec
CONSTANTS
  Pods = {1, 2}
  Policy <- AllServices
  HostNetwork = {}
  Foreign = {}
  Unsupported = {}
  Nfs = {}
  Addresses = {3, 4}
  FaultKinds = {}
  MaxFaults = 0
  MaxStops = 0
  MaxExits = 0
INVARIANTS AddressServed
