SPECIFICATION Spec
CONSTANTS
  Pods = {1, 2}
  Policy <- ServiceAndJob
  HostNetwork = {1}
  Foreign = {}
  Unsupported = {}
  Nfs = {}
  Addresses = {3, 4}
  FaultKinds = {"crash", "stop", "put", "renumber"}
  MaxFaults = 1
  MaxStops = 1
  MaxExits = 1
INVARIANTS TypeOK RunningJournaled DeletionAcknowledged OwnershipInv
PROPERTIES LifecycleKept
