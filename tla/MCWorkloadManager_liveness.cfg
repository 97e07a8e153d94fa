SPECIFICATION FairSpec
CONSTANTS
  Pods = {1, 2}
  Policy <- AllServices
  HostNetwork = {}
  Foreign = {}
  Unsupported = {}
  Nfs = {}
  Addresses = {3}
  FaultKinds = {"crash", "stop", "alias", "run", "renumber"}
  MaxFaults = 1
  MaxStops = 1
  MaxExits = 0
PROPERTIES DeletedStops NativeSettles AddressRestored
