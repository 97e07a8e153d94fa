SPECIFICATION Spec
CONSTANTS
  Pods = {1, 2, 3, 4}
  Policy <- AllServices
  HostNetwork = {}
  Foreign = {4}
  Unsupported = {3}
  Nfs = {1}
  Addresses = {3}
  FaultKinds = {"decode", "args", "mount", "persist", "logs", "inspect", "alias", "ps", "run",
                "renumber"}
  MaxFaults = 1
  MaxStops = 1
  MaxExits = 1
CONSTRAINT InertPodsFirst
INVARIANTS RunningMounted MountsTracked UniqueAddresses AddressReported
