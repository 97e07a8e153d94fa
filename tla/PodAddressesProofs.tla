------------------------ MODULE PodAddressesProofs -------------------------
(* What PodAddresses promises for every PodCIDR and every number of peers. *)
EXTENDS PodAddresses, WellFoundedInduction, TLAPS

LEMMA SizeType == Size \in Nat /\ Size >= 4
  BY SizeAssumption

\* Two peers never share a gateway (setupDarwinNetwork's duplicate check cannot fail on
\* the gateways).
THEOREM GatewaysDistinct ==
  ASSUME NEW i \in Nat, NEW j \in Nat, i # j, HasGateway(i), HasGateway(j)
  PROVE  PeerGateway(i) # PeerGateway(j)
<1>1. Size \in Nat /\ Size >= 4
  BY SizeType
<1> QED
  BY <1>1 DEF HasGateway, PeerGateway, GatewayOffset, Broadcast

\* A peer's gateway is a host address of the PodCIDR and not the bridge's.
THEOREM GatewaysAreHosts ==
  ASSUME NEW i \in Nat, HasGateway(i)
  PROVE  PeerGateway(i) \in Offsets \ {NetworkOffset, BridgeOffset, Broadcast}
<1>1. Size \in Nat /\ Size >= 4
  BY SizeType
<1> QED
  BY <1>1 DEF HasGateway, PeerGateway, GatewayOffset, Broadcast, Offsets, NetworkOffset,
              BridgeOffset

\* The allocator never assigns what addWorkloadIP refuses, nor an address in use, nor one
\* above another free one: firstAvailableWorkloadIP and addWorkloadIP agree as long as the
\* peers stay the same.
THEOREM AllocationAccepted ==
  ASSUME NEW n \in Nat, NEW used, Assignable(n) \ used # {}
  PROVE  LET o == FirstAvailable(used, n)
         IN /\ o \in WorkloadOffsets \ used /\ ~Refused(o, n)
            /\ \A other \in WorkloadOffsets \ used : ~Refused(other, n) => o <= other
<1> DEFINE free == Assignable(n) \ used
           o    == FirstAvailable(used, n)
<1>1. Size \in Nat /\ Size >= 4
  BY SizeType
<1>2. free \subseteq Nat
  BY <1>1 DEF Assignable, WorkloadOffsets, Broadcast
<1>3. PICK least \in free : \A other \in free : <<other, least>> \notin OpToRel(<, Nat)
  BY <1>2, NatLessThanWellFounded, WFMin
<1>4. \A other \in free : ~(other < least)
  BY <1>2, <1>3, Zenon DEF OpToRel
<1>5. \A other \in free : least <= other
  BY <1>2, <1>4
<1>6. o \in free /\ \A other \in free : o <= other
  BY <1>5 DEF FirstAvailable
<1>7. \A a \in WorkloadOffsets : Refused(a, n) <=> a \in Reserved(n)
  BY <1>1 DEF Refused, WorkloadOffsets, Offsets, Broadcast
<1>8. free = {a \in WorkloadOffsets \ used : ~Refused(a, n)}
  BY <1>7 DEF Assignable
<1> QED
  BY <1>6, <1>8

\* The workload addresses that n peers leave are exactly those below the lowest gateway.
THEOREM AssignableRange ==
  ASSUME NEW n \in Nat \ {0}, GatewaysFit(n)
  PROVE  Assignable(n) = 3..Broadcast-n
<1>1. Size \in Nat /\ Size >= 4
  BY SizeType
<1>2. ASSUME NEW a \in WorkloadOffsets, a > Broadcast - n
      PROVE  a \in Gateways(n)
  <2> DEFINE i == Broadcast - a
  <2>1. i \in 1..n-1
    BY <1>1, <1>2 DEF WorkloadOffsets, Broadcast
  <2>2. PeerGateway(i) = a
    BY <1>1, <2>1 DEF PeerGateway, Broadcast, WorkloadOffsets
  <2> QED
    BY <2>1, <2>2 DEF Gateways
<1>3. ASSUME NEW a \in WorkloadOffsets, a <= Broadcast - n
      PROVE  a \notin Reserved(n)
  <2>1. ASSUME NEW i \in 0..n-1
        PROVE  a # PeerGateway(i)
    BY <1>1, <1>3, <2>1 DEF PeerGateway, GatewayOffset, Broadcast, WorkloadOffsets
  <2> QED
    BY <1>1, <2>1 DEF Reserved, Gateways, NetworkOffset, BridgeOffset, GatewayOffset,
                      WorkloadOffsets, Broadcast
<1>4. Assignable(n) = {a \in WorkloadOffsets : a <= Broadcast - n}
  BY <1>1, <1>2, <1>3 DEF Assignable, Reserved, WorkloadOffsets, Broadcast
<1>5. Broadcast - n <= Broadcast - 1 /\ Broadcast \in Nat
  BY <1>1 DEF Broadcast
<1> QED
  BY <1>4, <1>5 DEF WorkloadOffsets

\* A peer that joins between two sessions takes the highest workload address away: the
\* new session refuses the address, whoever reports it.
THEOREM NewPeerTakesAddress ==
  ASSUME NEW n \in Nat \ {0}, GatewaysFit(n + 1)
  PROVE  /\ Broadcast - n \in Assignable(n)
         /\ Refused(Broadcast - n, n + 1)
<1>1. Size \in Nat /\ Size >= 4
  BY SizeType
<1>2. GatewaysFit(n) /\ HasGateway(n)
  BY DEF GatewaysFit
<1>3. Broadcast - n \in 3..Broadcast-n
  BY <1>1, <1>2 DEF HasGateway, Broadcast
<1>4. PeerGateway(n) = Broadcast - n
  BY DEF PeerGateway
<1>5. Broadcast - n \in Gateways(n + 1)
  BY <1>4 DEF Gateways
<1> QED
  BY <1>2, <1>3, <1>5, AssignableRange DEF Refused, Reserved
=============================================================================
