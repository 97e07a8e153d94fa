SPECIFICATION FairSpec
CONSTANTS
  Size = 8
  Tunnels = {1, 2, 3, 4}
  Others = {4}
  OtherCIDR = 9
  CIDRs = {1, 2}
  Macs = {1, 2}
  MaxPeers = 2
  MaxPods = 1
  FaultKinds = {"api", "inspect", "address", "start", "bridge", "arp", "route", "journal", "kubelet", "alias", "unalias", "unroute", "unarp"}
  MaxFaults = 1
  MaxStops = 1
  MaxEvents = 1
CONSTRAINT FirstNames
INVARIANTS NetTypeOK RoutedThroughOwnBridge AnnotationCurrent NothingLeft OthersUntouched OneHolder AliasesTracked
PROPERTIES NetworkReturns GatewayFresh
