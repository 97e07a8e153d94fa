--------------------------- MODULE PodAddresses ----------------------------
(***************************************************************************)
(* How maclet divides the addresses of its PodCIDR among the bridge, the   *)
(* gateways of the Flannel peers and the workloads.  An address is its     *)
(* offset from the network address; every PodCIDR has Size addresses.      *)
(***************************************************************************)
EXTENDS Integers

CONSTANT Size   \* addresses of a PodCIDR: 2 to 16 host bits, as workloadIPForOffset demands

ASSUME SizeAssumption ==
  Size \in {4, 8, 16, 32, 64, 128, 256, 512, 1024, 2048, 4096, 8192, 16384, 32768, 65536}

NetworkOffset == 0
BridgeOffset  == 1
GatewayOffset == 2
Broadcast     == Size - 1
Offsets       == 0..Broadcast

\* peerGatewayAddressForCIDR: the remote peer, listed first, has the second host address,
\* the others count down from the broadcast address.
HasGateway(index)  == index = 0 \/ index < Broadcast - 2
PeerGateway(index) == IF index = 0 THEN GatewayOffset ELSE Broadcast - index

\* setupDarwinNetwork needs a gateway for every one of n peers.
GatewaysFit(n) == \A index \in 0..n-1 : HasGateway(index)
Gateways(n)    == {PeerGateway(index) : index \in 0..n-1}

\* isReservedWorkloadIP of a handle with n peers
Reserved(n) == {NetworkOffset, BridgeOffset, GatewayOffset} \cup Gateways(n)

\* The offsets workloadIPForOffset converts: never the first three or the last.
WorkloadOffsets == 3..Broadcast-1

\* The addresses firstAvailableWorkloadIP looks through.
Assignable(n) == WorkloadOffsets \ Reserved(n)

\* firstAvailableWorkloadIP: the lowest one not used; there may be none.
FirstAvailable(used, n) ==
  CHOOSE o \in Assignable(n) \ used : \A other \in Assignable(n) \ used : o <= other

\* What addWorkloadIP refuses before it looks at the host: an address outside the
\* PodCIDR, a reserved one, the broadcast address.
Refused(o, n) == o \notin Offsets \/ o \in Reserved(n) \/ o = Broadcast
=============================================================================
