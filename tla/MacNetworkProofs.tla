-------------------------- MODULE MacNetworkProofs --------------------------
(***************************************************************************)
(* The Mac's network, for any number of tunnels, peers, Pods, faults,      *)
(* kills and events: the types, that the tunnels of others are left alone, *)
(* that a session that serves is published and routed through its own      *)
(* bridge, that its bridge has exactly the addresses it will remove, that  *)
(* a session without failures leaves nothing behind, and that an address   *)
(* is on one interface.                                                    *)
(* The types come in four parts, one for each group of variables; only the *)
(* steps that touch a part need an argument.                               *)
(***************************************************************************)
EXTENDS MacNetwork, PodAddressesProofs

ApiTypes ==
  /\ podCIDR \in CIDRs \cup {None} /\ peers \in Seq(Macs) /\ Len(peers) \in 1..MaxPeers
  /\ flannel \in Tunnels \cup {None} /\ assigned \subseteq CIDRs \X Offsets

HostTypes ==
  /\ proc \in [Tunnels -> {"gone", "running", "stopping"}]
  /\ cidr \in [Tunnels -> CIDRs \cup {OtherCIDR, None}]
  /\ bridges \subseteq Tunnels
  /\ addrs \in [Tunnels -> SUBSET Offsets]
  /\ routes \in [Destinations -> Tunnels \cup {None}]
  /\ arps \in [Tunnels -> [Peers -> Macs \cup {None}]]

ControlTypes ==
  /\ pc \in Stages /\ cancelled \in BOOLEAN /\ outcome \in {"ok", "retry", "fatal"}
  /\ child \in Tunnels \cup {None} /\ iface \in Tunnels \cup {None}
  /\ stale \subseteq Tunnels /\ retried \in BOOLEAN /\ clean \in BOOLEAN
  /\ faults \in Nat /\ stops \in Nat /\ events \in Nat

\* A session that has begun has a PodCIDR and at least the remote peer; the addresses it
\* assigns are otherwise not of a PodCIDR.
HandleTypes ==
  /\ handle \in Handle /\ Len(handle.known) \in 0..MaxPeers
  /\ pc \notin {"down", "begin", "retry"} => handle.cidr # None /\ Len(handle.known) # 0

Types == ApiTypes /\ HostTypes /\ ControlTypes /\ HandleTypes

-----------------------------------------------------------------------------
\* Handles

LEMMA HandleFields ==
  ASSUME NEW h \in Handle
  PROVE  /\ h.cidr \in CIDRs \cup {None} /\ h.known \in Seq(Macs)
         /\ h.mac \in Macs \cup {None} /\ h.aliases \subseteq Offsets
         /\ h.routes \subseteq Destinations /\ h.arps \subseteq Peers
  BY DEF Handle

LEMMA BlankHandle == NoHandle \in Handle /\ Len(NoHandle.known) \in 0..MaxPeers
  BY NetworkBounds DEF Handle, NoHandle

\* What the session changes in a handle leaves the rest of it alone.
LEMMA HandleChanges ==
  ASSUME NEW h \in Handle
  PROVE  /\ \A A \in SUBSET Offsets : LET g == [h EXCEPT !.aliases = A]
               IN g \in Handle /\ g.cidr = h.cidr /\ g.known = h.known /\ g.aliases = A
         /\ \A R \in SUBSET Destinations : LET g == [h EXCEPT !.routes = R]
               IN g \in Handle /\ g.cidr = h.cidr /\ g.known = h.known /\ g.aliases = h.aliases
         /\ \A m \in Macs \cup {None} : LET g == [h EXCEPT !.mac = m]
               IN g \in Handle /\ g.cidr = h.cidr /\ g.known = h.known /\ g.aliases = h.aliases
         /\ LET g == [h EXCEPT !.aliases = {}, !.routes = {}, !.arps = {}]
            IN g \in Handle /\ g.cidr = h.cidr /\ g.known = h.known
  BY DEF Handle

LEMMA HandleARPs ==
  ASSUME NEW h \in Handle, NEW m \in Macs \cup {None}, NEW A \in SUBSET Peers
  PROVE  LET g == [h EXCEPT !.mac = m, !.arps = A]
         IN g \in Handle /\ g.cidr = h.cidr /\ g.known = h.known /\ g.aliases = h.aliases
  BY DEF Handle

LEMMA HandleBegins ==
  ASSUME NEW c \in CIDRs, NEW k \in Seq(Macs)
  PROVE  LET g == [NoHandle EXCEPT !.cidr = c, !.known = k]
         IN g \in Handle /\ g.cidr = c /\ g.known = k /\ g.aliases = {}
  BY DEF Handle, NoHandle

LEMMA AliasesRemoved ==
  ASSUME HostTypes, HandleTypes, NEW kept \in SUBSET handle.aliases, RemoveAliases(kept)
  PROVE  /\ addrs' \in [Tunnels -> SUBSET Offsets]
         /\ handle' \in Handle /\ handle'.cidr = handle.cidr /\ handle'.known = handle.known
<1>1. addrs' \in [Tunnels -> SUBSET Offsets]
  BY DEF RemoveAliases, HostTypes
<1>2. kept \in SUBSET Offsets
  BY HandleFields DEF HandleTypes
<1>3. handle' = [handle EXCEPT !.aliases = kept]
  BY DEF RemoveAliases
<1> QED BY <1>1, <1>2, <1>3, HandleChanges DEF HandleTypes

-----------------------------------------------------------------------------
\* Types

\* A step that may fail keeps the types of what it counts.
LEMMA TryTypes ==
  ASSUME ControlTypes
  PROVE  /\ \A kind, fails : Try(kind, fails) => faults' \in Nat /\ clean' \in BOOLEAN
         /\ NoFault => faults' \in Nat /\ clean' \in BOOLEAN
<1>1. ASSUME NEW kind, NEW fails, Try(kind, fails) PROVE faults' \in Nat
  BY <1>1 DEF Try, ControlTypes
<1>2. ASSUME NEW kind, NEW fails, Try(kind, fails) PROVE clean' \in BOOLEAN
  BY <1>2, Zenon DEF Try, ControlTypes
<1>3. NoFault => faults' \in Nat /\ clean' \in BOOLEAN
  BY DEF NoFault, ControlTypes
<1> QED BY <1>1, <1>2, <1>3

\* The steps that change more than a point of control, one lemma each.

LEMMA PublishTypes == ASSUME Types, Publish PROVE ApiTypes'
<1>1. flannel' \in Tunnels \cup {None}
  BY DEF Publish, Published, Types, ApiTypes, ControlTypes
<1> QED BY <1>1 DEF Publish, Types, ApiTypes

LEMMA AssignAddressTypes == ASSUME Types, AssignAddress PROVE ApiTypes'
<1> DEFINE n == Len(handle.known)
<1>1. n \in Nat /\ handle.cidr \in CIDRs
  <2>1. pc = "up"
    BY DEF AssignAddress
  <2>2. handle.cidr \in CIDRs \cup {None}
    BY HandleFields DEF Types, HandleTypes
  <2>3. handle.cidr # None /\ n \in 0..MaxPeers
    BY <2>1 DEF Types, HandleTypes
  <2> QED BY <2>2, <2>3, NetworkBounds
<1>2. Assignable(n) \ Used # {}
  BY DEF AssignAddress, Available
<1>3. FirstAvailable(Used, n) \in Offsets
  BY <1>1, <1>2, AllocationAccepted, SizeType DEF WorkloadOffsets, Offsets, Broadcast
<1>4. assigned' \subseteq CIDRs \X Offsets
  BY <1>1, <1>3 DEF AssignAddress, Types, ApiTypes
<1> QED BY <1>4 DEF AssignAddress, Types, ApiTypes

LEMMA BeginTypes == ASSUME Types, Begin PROVE HandleTypes' /\ ControlTypes'
<1>1. CASE /\ HasPodCIDR /\ handle' = [NoHandle EXCEPT !.cidr = podCIDR, !.known = peers]
           /\ Goto("inspect") /\ UNCHANGED <<child, iface, stale, retried>> /\ NoFault
  <2>1. podCIDR \in CIDRs /\ peers \in Seq(Macs) /\ Len(peers) \in 1..MaxPeers
    BY <1>1 DEF HasPodCIDR, Types, ApiTypes
  <2>2. handle' \in Handle /\ handle'.cidr = podCIDR /\ handle'.known = peers
    BY <1>1, <2>1, HandleBegins
  <2>3. HandleTypes'
    BY <2>1, <2>2, CIDRsAssumption, NetworkBounds DEF HandleTypes
  <2>4. ControlTypes'
    BY <1>1, TryTypes DEF Begin, Types, ControlTypes, Goto, Stages, Setup
  <2> QED BY <2>3, <2>4
<1>2. CASE (\E o \in Either : Return(o)) /\ (NoFault \/ Try("api", TRUE))
  <2>1. ControlTypes'
    BY <1>2, TryTypes, TunnelsAssumption DEF Begin, Types, ControlTypes, Return, Forget,
        Either, Stages, Setup
  <2>2. HandleTypes'
    BY <1>2, BlankHandle DEF HandleTypes, Return, Forget
  <2> QED BY <2>1, <2>2
<1> QED BY <1>1, <1>2 DEF Begin, Either

LEMMA StartTypes == ASSUME Types, Start PROVE HostTypes'
<1>1. UNCHANGED <<bridges, addrs, tables>>
  BY DEF Start
<1>2. handle.cidr \in CIDRs \cup {None}
  BY HandleFields DEF Types, HandleTypes
<1>3. /\ proc' \in [Tunnels -> {"gone", "running", "stopping"}]
      /\ cidr' \in [Tunnels -> CIDRs \cup {OtherCIDR, None}]
  BY <1>2 DEF Start, Types, HostTypes
<1> QED BY <1>1, <1>3 DEF Types, HostTypes, tables

LEMMA UnaddressTypes == ASSUME Types, Unaddress PROVE HostTypes'
<1>1. addrs' \in [Tunnels -> SUBSET Offsets]
  BY DEF Unaddress, Types, HostTypes
<1> QED BY <1>1 DEF Unaddress, Types, HostTypes, tables

LEMMA WaitForBridgeTypes == ASSUME Types, WaitForBridge PROVE ControlTypes'
<1>1. faults' \in Nat /\ clean' \in BOOLEAN
  BY TryTypes DEF WaitForBridge, Types
<1>2. iface' \in Tunnels \cup {None}
  BY DEF WaitForBridge, Holders, Types, HostTypes, ControlTypes
<1> QED BY <1>1, <1>2 DEF WaitForBridge, Goto, TearDown, Types, ControlTypes, Stages, Setup, Finish

LEMMA InstallARPsTypes == ASSUME Types, InstallARPs PROVE HostTypes' /\ HandleTypes'
<1> DEFINE n == Len(handle.known)
<1>1. pc = "arps" /\ UNCHANGED <<proc, cidr, bridges, addrs, routes>>
  BY DEF InstallARPs
<1>2. handle.known \in Seq(Macs) /\ n \in 0..MaxPeers /\ n # 0 /\ handle \in Handle
  BY <1>1, HandleFields DEF Types, HandleTypes
<1>3. CASE UNCHANGED <<arps, handle>>
  BY <1>1, <1>3 DEF Types, HostTypes, HandleTypes
<1>4. CASE ~ UNCHANGED <<arps, handle>>
  <2>1. PICK k \in 0..n : arps' = [arps EXCEPT ![iface] =
                     [i \in Peers |-> IF i < k THEN handle.known[i + 1] ELSE @[i]]]
    BY <1>4 DEF InstallARPs
  <2>2. handle' = [handle EXCEPT !.mac = handle.known[1], !.arps = 0..n-1]
    BY <1>4 DEF InstallARPs
  <2>3. \A i \in Peers : i < k => handle.known[i + 1] \in Macs
    BY <1>2, <2>1, NetworkBounds DEF Peers
  <2>4. arps' \in [Tunnels -> [Peers -> Macs \cup {None}]]
    BY <2>1, <2>3 DEF Types, HostTypes
  <2>5. handle.known[1] \in Macs /\ 0..n-1 \in SUBSET Peers
    BY <1>2, NetworkBounds DEF Peers
  <2>6. handle' \in Handle /\ handle'.cidr = handle.cidr /\ handle'.known = handle.known
    BY <1>2, <2>2, <2>5, HandleARPs
  <2> QED BY <1>1, <2>4, <2>6 DEF Types, HostTypes, HandleTypes
<1> QED BY <1>3, <1>4

LEMMA InstallRoutesTypes == ASSUME Types, InstallRoutes PROVE HostTypes' /\ HandleTypes'
<1> DEFINE n == Len(handle.known)
<1>1. pc = "routes" /\ UNCHANGED <<proc, cidr, bridges, addrs, arps>>
  BY DEF InstallRoutes
<1>2. n \in 0..MaxPeers /\ handle \in Handle /\ iface \in Tunnels \cup {None}
  BY DEF Types, HandleTypes, ControlTypes
<1>3. PICK k \in 0..n+1 :
        /\ routes' = [d \in Destinations |->
                          IF d < k /\ routes[d] = None THEN iface ELSE routes[d]]
        /\ handle' = [handle EXCEPT !.routes = 0..k-1]
  BY DEF InstallRoutes
<1>4. routes' \in [Destinations -> Tunnels \cup {None}]
  BY <1>2, <1>3 DEF Types, HostTypes
<1>5. 0..k-1 \in SUBSET Destinations
  BY <1>2, NetworkBounds DEF Destinations
<1>6. handle' \in Handle /\ handle'.cidr = handle.cidr /\ handle'.known = handle.known
  BY <1>2, <1>3, <1>5, HandleChanges
<1> QED BY <1>1, <1>4, <1>6 DEF Types, HostTypes, HandleTypes

LEMMA HeartbeatTypes == ASSUME Types, Heartbeat PROVE HostTypes' /\ HandleTypes'
<1>1. pc = "up" /\ UNCHANGED <<proc, cidr, bridges, addrs, routes, pc>>
  BY DEF Heartbeat, control
<1>2. peers[1] \in Macs
  BY NetworkBounds DEF Types, ApiTypes
<1>3. CASE handle.mac = peers[1]
  BY <1>1, <1>3 DEF Heartbeat, Types, HostTypes, HandleTypes
<1>4. CASE handle.mac # peers[1]
  <2>1. PICK done \in BOOLEAN :
          /\ arps' = IF done THEN [arps EXCEPT ![iface][0] = peers[1]] ELSE arps
          /\ handle' = [handle EXCEPT !.mac = Remembered(peers[1], done)]
    BY <1>4 DEF Heartbeat
  <2>2. arps' \in [Tunnels -> [Peers -> Macs \cup {None}]]
    BY <1>2, <2>1 DEF Types, HostTypes
  <2>3. Remembered(peers[1], done) \in Macs \cup {None}
    BY <1>2, HandleFields DEF Types, HandleTypes, Remembered
  <2>4. handle' \in Handle /\ handle'.cidr = handle.cidr /\ handle'.known = handle.known
    BY <2>1, <2>3, HandleChanges DEF Types, HandleTypes
  <2> QED BY <1>1, <2>2, <2>4 DEF Types, HostTypes, HandleTypes
<1> QED BY <1>3, <1>4

LEMMA AddWorkloadIPTypes == ASSUME Types, AddWorkloadIP PROVE HostTypes' /\ HandleTypes'
<1>1. PICK a \in assigned, done \in BOOLEAN :
        /\ addrs' = IF done THEN [addrs EXCEPT ![iface] = @ \cup {a[2]}] ELSE addrs
        /\ handle' = IF done THEN [handle EXCEPT !.aliases = @ \cup {a[2]}] ELSE handle
  BY DEF AddWorkloadIP
<1>2. a[2] \in Offsets
  BY DEF Types, ApiTypes
<1>3. addrs' \in [Tunnels -> SUBSET Offsets]
  BY <1>1, <1>2 DEF Types, HostTypes
<1>4. handle.aliases \cup {a[2]} \in SUBSET Offsets
  BY <1>2, HandleFields DEF Types, HandleTypes
<1>5. handle' \in Handle /\ handle'.cidr = handle.cidr /\ handle'.known = handle.known
  BY <1>1, <1>4, HandleChanges DEF Types, HandleTypes
<1>6. pc = "up" /\ UNCHANGED <<proc, cidr, bridges, tables, pc>>
  BY DEF AddWorkloadIP, control
<1> QED BY <1>3, <1>5, <1>6 DEF Types, HostTypes, HandleTypes, tables

LEMMA RemoveWorkloadIPTypes == ASSUME Types, RemoveWorkloadIP PROVE HostTypes' /\ HandleTypes'
<1>1. PICK a \in assigned, done \in BOOLEAN :
        LET ours == a[1] = handle.cidr /\ a[2] \in handle.aliases
        IN /\ addrs' = IF ours /\ done THEN [addrs EXCEPT ![iface] = @ \ {a[2]}] ELSE addrs
           /\ handle' = IF ours THEN [handle EXCEPT !.aliases = Unaliased(a[2], done)] ELSE handle
  BY DEF RemoveWorkloadIP
<1>2. addrs' \in [Tunnels -> SUBSET Offsets]
  BY <1>1 DEF Types, HostTypes
<1>3. Unaliased(a[2], done) \in SUBSET Offsets
  BY HandleFields DEF Types, HandleTypes, Unaliased
<1>4. handle' \in Handle /\ handle'.cidr = handle.cidr /\ handle'.known = handle.known
  BY <1>1, <1>3, HandleChanges DEF Types, HandleTypes
<1>5. pc = "up" /\ UNCHANGED <<proc, cidr, bridges, tables, pc>>
  BY DEF RemoveWorkloadIP, control
<1> QED BY <1>2, <1>4, <1>5 DEF Types, HostTypes, HandleTypes, tables

LEMMA DrainTypes == ASSUME Types, Drain PROVE HostTypes' /\ HandleTypes'
<1>1. PICK kept \in SUBSET handle.aliases : RemoveAliases(kept)
  BY DEF Drain
<1>2. /\ addrs' \in [Tunnels -> SUBSET Offsets]
      /\ handle' \in Handle /\ handle'.cidr = handle.cidr /\ handle'.known = handle.known
  BY <1>1, AliasesRemoved DEF Types
<1>3. pc = "drain" /\ UNCHANGED <<proc, cidr, bridges, tables>>
  BY DEF Drain
<1> QED BY <1>2, <1>3 DEF Types, HostTypes, HandleTypes, tables

LEMMA CleanAliasesTypes == ASSUME Types, CleanAliases PROVE HostTypes' /\ HandleTypes'
<1>1. pc = "unalias" /\ UNCHANGED <<proc, cidr, bridges, tables>>
  BY DEF CleanAliases
<1>2. CASE iface \in bridges
  <2>1. PICK kept \in SUBSET handle.aliases : RemoveAliases(kept)
    BY <1>2 DEF CleanAliases
  <2>2. /\ addrs' \in [Tunnels -> SUBSET Offsets]
        /\ handle' \in Handle /\ handle'.cidr = handle.cidr /\ handle'.known = handle.known
    BY <2>1, AliasesRemoved DEF Types
  <2> QED BY <1>1, <2>2 DEF Types, HostTypes, HandleTypes, tables
<1>3. CASE iface \notin bridges
  <2>1. handle' = [handle EXCEPT !.aliases = {}, !.routes = {}, !.arps = {}] /\ UNCHANGED addrs
    BY <1>3 DEF CleanAliases
  <2>2. handle' \in Handle /\ handle'.cidr = handle.cidr /\ handle'.known = handle.known
    BY <2>1, HandleChanges DEF Types, HandleTypes
  <2> QED BY <1>1, <2>1, <2>2 DEF Types, HostTypes, HandleTypes, tables
<1> QED BY <1>2, <1>3

LEMMA CleanARPsTypes == ASSUME Types, CleanARPs PROVE HostTypes'
<1>1. PICK kept \in SUBSET handle.arps :
        arps' = [arps EXCEPT ![iface] =
                   [i \in Peers |-> IF i \in handle.arps \ kept THEN None ELSE @[i]]]
  BY DEF CleanARPs
<1>2. arps' \in [Tunnels -> [Peers -> Macs \cup {None}]]
  BY <1>1 DEF Types, HostTypes
<1> QED BY <1>2 DEF CleanARPs, Types, HostTypes

LEMMA KillTypes == ASSUME Types, Kill PROVE ControlTypes'
<1>1. faults' \in Nat /\ clean' \in BOOLEAN
  BY TryTypes DEF Kill, Types
<1>2. stops' \in Nat /\ events' \in Nat
  BY DEF Kill, Types, ControlTypes
<1>3. child' = None /\ iface' = None /\ stale' = {} /\ retried' = FALSE
  BY DEF Kill, Forget
<1>4. pc' = "down" /\ cancelled' = FALSE /\ outcome' = "ok"
  BY DEF Kill
<1> QED BY <1>1, <1>2, <1>3, <1>4 DEF Kill, Forget, Types, ControlTypes, Stages

LEMMA BridgeUpTypes == ASSUME Types, NEW t \in Tunnels, BridgeUp(t) PROVE HostTypes'
<1>1. BridgeOffset \in Offsets
  BY SizeType DEF BridgeOffset, Offsets, Broadcast
<1> QED BY <1>1 DEF BridgeUp, Types, HostTypes, tables

LEMMA IntruderTypes == ASSUME Types, NEW t \in Tunnels, Intruder(t) PROVE HostTypes'
<1>1. UNCHANGED <<bridges, addrs, tables>>
  BY DEF Intruder
<1>2. handle.cidr \in CIDRs \cup {None}
  BY HandleFields DEF Types, HandleTypes
<1>3. /\ proc' \in [Tunnels -> {"gone", "running", "stopping"}]
      /\ cidr' \in [Tunnels -> CIDRs \cup {OtherCIDR, None}]
  BY <1>2 DEF Intruder, Types, HostTypes
<1> QED BY <1>1, <1>3 DEF Types, HostTypes, tables

\* What the API server holds keeps its types.
LEMMA ApiKept == ASSUME Types, Next PROVE ApiTypes'
<1>1. CASE Publish
  BY <1>1, PublishTypes
<1>2. CASE AssignAddress
  BY <1>2, AssignAddressTypes
<1>3. CASE Unpublish \/ RemoveWorkloadIP \/ AssignPodCIDR \/ Renumber
  BY <1>3 DEF Unpublish, RemoveWorkloadIP, AssignPodCIDR, Renumber, Types, ApiTypes
<1>4. CASE ChangePeers
  <2>1. PICK n \in 1..MaxPeers : peers' \in [1..n -> Macs]
    BY <1>4 DEF ChangePeers
  <2>2. peers' \in Seq(Macs) /\ Len(peers') = n
    BY <2>1
  <2> QED BY <1>4, <2>2 DEF ChangePeers, Types, ApiTypes
<1>5. CASE Join \/ Begin \/ Inspect \/ Terminate \/ TerminateFails \/ Unaddress \/ Start \/
      WaitForBridge \/ InstallARPs \/ InstallRoutes \/ LoadJournal \/ StartKubelet \/
      Shutdown \/ Drain \/ CleanAliases \/ CleanRoutes \/ CleanARPs \/ StopChild \/ Reap \/
      Retry \/ Heartbeat \/ AddWorkloadIP \/ Signal \/ Kill \/ \E t \in Tunnels :
      BridgeUp(t) \/ CannotBind(t) \/ TunnelStops(t) \/ Teardown(t) \/ TunnelDies(t) \/
      Intruder(t)
  <2>1. UNCHANGED api
    BY <1>5 DEF Join, Begin, Inspect, Terminate, TerminateFails, Unaddress, Start,
        WaitForBridge, InstallARPs, InstallRoutes, LoadJournal, StartKubelet, Shutdown,
        Drain, CleanAliases, CleanRoutes, CleanARPs, StopChild, Reap, Retry, Heartbeat,
        AddWorkloadIP, Signal, Kill, BridgeUp, CannotBind, TunnelStops, Teardown,
        TunnelDies, Intruder
  <2> QED BY <2>1 DEF Types, ApiTypes, api, host, tables
<1> QED
  BY <1>1, <1>2, <1>3, <1>4, <1>5 DEF Next, SessionStep, Pass, Environment, TunnelStep

\* What the Mac shows keeps its types.
LEMMA HostKept == ASSUME Types, Next PROVE HostTypes'
<1>1. CASE Start
  BY <1>1, StartTypes
<1>2. CASE Unaddress
  BY <1>2, UnaddressTypes
<1>3. CASE InstallARPs
  BY <1>3, InstallARPsTypes
<1>4. CASE InstallRoutes
  BY <1>4, InstallRoutesTypes
<1>5. CASE Heartbeat
  BY <1>5, HeartbeatTypes
<1>6. CASE AddWorkloadIP
  BY <1>6, AddWorkloadIPTypes
<1>7. CASE RemoveWorkloadIP
  BY <1>7, RemoveWorkloadIPTypes
<1>8. CASE Drain
  BY <1>8, DrainTypes
<1>9. CASE CleanAliases
  BY <1>9, CleanAliasesTypes
<1>10. CASE CleanARPs
  BY <1>10, CleanARPsTypes
<1>11. CASE \E t \in Tunnels : BridgeUp(t)
  BY <1>11, BridgeUpTypes
<1>12. CASE \E t \in Tunnels : Intruder(t)
  BY <1>12, IntruderTypes
<1>13. CASE Inspect
  BY <1>13 DEF Inspect, Types, HostTypes, tables, Matching, Live
<1>14. CASE TerminateFails
  BY <1>14 DEF TerminateFails, Types, HostTypes, tables, Matching, Live
<1>15. CASE CleanRoutes
  BY <1>15 DEF CleanRoutes, Types, HostTypes, tables
<1>16. CASE StopChild
  BY <1>16 DEF StopChild, Types, HostTypes, tables, Live
<1>17. CASE Reap
  BY <1>17 DEF Reap, Types, HostTypes, tables
<1>18. CASE \E t \in Tunnels : CannotBind(t)
  BY <1>18 DEF CannotBind, Types, HostTypes, tables, Matching, Live
<1>19. CASE \E t \in Tunnels : TunnelStops(t)
  BY <1>19 DEF TunnelStops, Types, HostTypes, tables
<1>20. CASE \E t \in Tunnels : TunnelDies(t)
  BY <1>20 DEF TunnelDies, Types, HostTypes, tables, Event
<1>21. CASE \E t \in Tunnels : Teardown(t)
  BY <1>21 DEF Teardown, Types, HostTypes, tables, Live
<1>22. CASE Join \/ Begin \/ Terminate \/ WaitForBridge \/ Publish \/ LoadJournal \/ StartKubelet
      \/ Shutdown \/ Unpublish \/ Retry \/ AssignAddress \/ Signal \/ Kill \/ AssignPodCIDR
      \/ Renumber \/ ChangePeers
  <2>1. UNCHANGED host
    BY <1>22 DEF Join, Begin, Terminate, WaitForBridge, Publish, LoadJournal,
        StartKubelet, Shutdown, Unpublish, Retry, AssignAddress, Signal, Kill,
        AssignPodCIDR, Renumber, ChangePeers
  <2> QED BY <2>1 DEF Types, HostTypes, api, host, tables
<1> QED
  BY <1>1, <1>2, <1>3, <1>4, <1>5, <1>6, <1>7, <1>8, <1>9, <1>10, <1>11, <1>12, <1>13,
      <1>14, <1>15, <1>16, <1>17, <1>18, <1>19, <1>20, <1>21, <1>22 DEF Next, SessionStep,
      Pass, Environment, TunnelStep

\* Control and bookkeeping keep their types.
LEMMA ControlKept == ASSUME Types, Next PROVE ControlTypes'
<1>1. CASE Begin
  BY <1>1, BeginTypes
<1>2. CASE WaitForBridge
  BY <1>2, WaitForBridgeTypes
<1>3. CASE Kill
  BY <1>3, KillTypes
<1>4. CASE Join
  BY <1>4, TryTypes, TunnelsAssumption DEF Join, Types, ControlTypes, Stages, Setup,
      Finish, session
<1>5. CASE Inspect
  BY <1>5, TryTypes, TunnelsAssumption DEF Inspect, Types, ControlTypes, Stages, Setup,
      Finish, Either, Return, Goto, session, Forget
<1>6. CASE Terminate
  BY <1>6, TryTypes, TunnelsAssumption DEF Terminate, Types, ControlTypes, Stages,
      Setup, Finish, Goto, session
<1>7. CASE TerminateFails
  BY <1>7, TryTypes, TunnelsAssumption DEF TerminateFails, Types, ControlTypes,
      Stages, Setup, Finish, Return, Forget
<1>8. CASE Unaddress
  BY <1>8, TryTypes, TunnelsAssumption DEF Unaddress, Types, ControlTypes, Stages,
      Setup, Finish, Return, Goto, session, Forget
<1>9. CASE Start
  BY <1>9, TryTypes, TunnelsAssumption DEF Start, Types, ControlTypes, Stages, Setup,
      Finish, Goto, Either, Return, Forget
<1>10. CASE InstallARPs
  BY <1>10, TryTypes, TunnelsAssumption DEF InstallARPs, Types, ControlTypes, Stages,
      Setup, Finish, TearDown, Goto
<1>11. CASE InstallRoutes
  BY <1>11, TryTypes, TunnelsAssumption DEF InstallRoutes, Types, ControlTypes, Stages,
      Setup, Finish, Goto, TearDown
<1>12. CASE Publish
  BY <1>12, TryTypes, TunnelsAssumption DEF Publish, Types, ControlTypes, Stages, Setup,
      Finish, Goto, Either, TearDown, session
<1>13. CASE LoadJournal
  BY <1>13, TryTypes, TunnelsAssumption DEF LoadJournal, Types, ControlTypes, Stages,
      Setup, Finish, Goto, Either, TearDown, session
<1>14. CASE StartKubelet
  BY <1>14, TryTypes, TunnelsAssumption DEF StartKubelet, Types, ControlTypes, Stages,
      Setup, Finish, Goto, Either, TearDown, session
<1>15. CASE Shutdown
  BY <1>15, TryTypes, TunnelsAssumption DEF Shutdown, Types, ControlTypes, Stages,
      Setup, Finish, TearDown, session
<1>16. CASE Drain
  BY <1>16, TryTypes, TunnelsAssumption DEF Drain, Types, ControlTypes, Stages, Setup,
      Finish, Goto
<1>17. CASE Unpublish
  BY <1>17, TryTypes, TunnelsAssumption DEF Unpublish, Types, ControlTypes, Stages,
      Setup, Finish, Goto, session
<1>18. CASE CleanAliases
  BY <1>18, TryTypes, TunnelsAssumption DEF CleanAliases, Types, ControlTypes, Stages,
      Setup, Finish, Goto
<1>19. CASE CleanRoutes
  BY <1>19, TryTypes, TunnelsAssumption DEF CleanRoutes, Types, ControlTypes, Stages,
      Setup, Finish, Goto, session
<1>20. CASE CleanARPs
  BY <1>20, TryTypes, TunnelsAssumption DEF CleanARPs, Types, ControlTypes, Stages,
      Setup, Finish, Goto, session
<1>21. CASE StopChild
  BY <1>21, TryTypes, TunnelsAssumption DEF StopChild, Types, ControlTypes, Stages,
      Setup, Finish, Goto, session
<1>22. CASE Reap
  BY <1>22, TryTypes, TunnelsAssumption DEF Reap, Types, ControlTypes, Stages, Setup,
      Finish, Return, Forget
<1>23. CASE Retry
  BY <1>23, TryTypes, TunnelsAssumption DEF Retry, Types, ControlTypes, Stages, Setup,
      Finish, session
<1>24. CASE Heartbeat
  BY <1>24, TryTypes, TunnelsAssumption DEF Heartbeat, Types, ControlTypes, Stages,
      Setup, Finish, control
<1>25. CASE AssignAddress
  BY <1>25, TryTypes, TunnelsAssumption DEF AssignAddress, Types, ControlTypes, Stages,
      Setup, Finish, session, control
<1>26. CASE AddWorkloadIP
  BY <1>26, TryTypes, TunnelsAssumption DEF AddWorkloadIP, Types, ControlTypes, Stages,
      Setup, Finish, control
<1>27. CASE RemoveWorkloadIP
  BY <1>27, TryTypes, TunnelsAssumption DEF RemoveWorkloadIP, Types, ControlTypes,
      Stages, Setup, Finish, control
<1>28. CASE Signal
  BY <1>28, TryTypes, TunnelsAssumption DEF Signal, Types, ControlTypes, Stages, Setup,
      Finish, session
<1>29. CASE AssignPodCIDR
  BY <1>29, TryTypes, TunnelsAssumption DEF AssignPodCIDR, Types, ControlTypes, Stages,
      Setup, Finish, session, control
<1>30. CASE Renumber
  BY <1>30, TryTypes, TunnelsAssumption DEF Renumber, Types, ControlTypes, Stages,
      Setup, Finish, Event, session, control
<1>31. CASE ChangePeers
  BY <1>31, TryTypes, TunnelsAssumption DEF ChangePeers, Types, ControlTypes, Stages,
      Setup, Finish, Event, session, control
<1>32. CASE \E t \in Tunnels : BridgeUp(t)
  BY <1>32, TryTypes, TunnelsAssumption DEF BridgeUp, Types, ControlTypes, Stages,
      Setup, Finish, session, control
<1>33. CASE \E t \in Tunnels : CannotBind(t)
  BY <1>33, TryTypes, TunnelsAssumption DEF CannotBind, Types, ControlTypes, Stages,
      Setup, Finish, session, control
<1>34. CASE \E t \in Tunnels : TunnelStops(t)
  BY <1>34, TryTypes, TunnelsAssumption DEF TunnelStops, Types, ControlTypes, Stages,
      Setup, Finish, session, control
<1>35. CASE \E t \in Tunnels : Teardown(t)
  BY <1>35, TryTypes, TunnelsAssumption DEF Teardown, Types, ControlTypes, Stages,
      Setup, Finish, session, control
<1>36. CASE \E t \in Tunnels : TunnelDies(t)
  BY <1>36, TryTypes, TunnelsAssumption DEF TunnelDies, Types, ControlTypes, Stages,
      Setup, Finish, Event, session, control
<1>37. CASE \E t \in Tunnels : Intruder(t)
  BY <1>37, TryTypes, TunnelsAssumption DEF Intruder, Types, ControlTypes, Stages,
      Setup, Finish, Event, session, control
<1> QED
  BY <1>1, <1>2, <1>3, <1>4, <1>5, <1>6, <1>7, <1>8, <1>9, <1>10, <1>11, <1>12, <1>13,
      <1>14, <1>15, <1>16, <1>17, <1>18, <1>19, <1>20, <1>21, <1>22, <1>23, <1>24, <1>25,
      <1>26, <1>27, <1>28, <1>29, <1>30, <1>31, <1>32, <1>33, <1>34, <1>35, <1>36, <1>37 DEF
      Next, SessionStep, Pass, Environment, TunnelStep

\* The handle keeps its type, and the PodCIDR it began with.
LEMMA HandleKept == ASSUME Types, Next PROVE HandleTypes'
<1>1. CASE Begin
  BY <1>1, BeginTypes
<1>2. CASE InstallARPs
  BY <1>2, InstallARPsTypes
<1>3. CASE InstallRoutes
  BY <1>3, InstallRoutesTypes
<1>4. CASE Heartbeat
  BY <1>4, HeartbeatTypes
<1>5. CASE AddWorkloadIP
  BY <1>5, AddWorkloadIPTypes
<1>6. CASE RemoveWorkloadIP
  BY <1>6, RemoveWorkloadIPTypes
<1>7. CASE Drain
  BY <1>7, DrainTypes
<1>8. CASE CleanAliases
  BY <1>8, CleanAliasesTypes
<1>9. CASE Join
  BY <1>9, BlankHandle DEF Join, Types, HandleTypes, session
<1>10. CASE Inspect
  BY <1>10, BlankHandle DEF Inspect, Types, HandleTypes, Return, Goto, session, Forget
<1>11. CASE Terminate
  BY <1>11, BlankHandle DEF Terminate, Types, HandleTypes, Goto, session
<1>12. CASE TerminateFails
  BY <1>12, BlankHandle DEF TerminateFails, Types, HandleTypes, Return, Forget
<1>13. CASE Unaddress
  BY <1>13, BlankHandle DEF Unaddress, Types, HandleTypes, Return, Goto, session, Forget
<1>14. CASE Start
  BY <1>14, BlankHandle DEF Start, Types, HandleTypes, Goto, Return, Forget
<1>15. CASE WaitForBridge
  BY <1>15, BlankHandle DEF WaitForBridge, Types, HandleTypes, Goto, TearDown
<1>16. CASE Publish
  BY <1>16, BlankHandle DEF Publish, Types, HandleTypes, Goto, TearDown, session
<1>17. CASE LoadJournal
  BY <1>17, BlankHandle DEF LoadJournal, Types, HandleTypes, Goto, TearDown, session
<1>18. CASE StartKubelet
  BY <1>18, BlankHandle DEF StartKubelet, Types, HandleTypes, Goto, TearDown, session
<1>19. CASE Shutdown
  BY <1>19, BlankHandle DEF Shutdown, Types, HandleTypes, TearDown, session
<1>20. CASE Unpublish
  BY <1>20, BlankHandle DEF Unpublish, Types, HandleTypes, Goto, session
<1>21. CASE CleanRoutes
  BY <1>21, BlankHandle DEF CleanRoutes, Types, HandleTypes, Goto, session
<1>22. CASE CleanARPs
  BY <1>22, BlankHandle DEF CleanARPs, Types, HandleTypes, Goto, session
<1>23. CASE StopChild
  BY <1>23, BlankHandle DEF StopChild, Types, HandleTypes, Goto, session
<1>24. CASE Reap
  BY <1>24, BlankHandle DEF Reap, Types, HandleTypes, Return, Forget
<1>25. CASE Retry
  BY <1>25, BlankHandle DEF Retry, Types, HandleTypes, session
<1>26. CASE AssignAddress
  BY <1>26, BlankHandle DEF AssignAddress, Types, HandleTypes, session, control
<1>27. CASE Signal
  BY <1>27, BlankHandle DEF Signal, Types, HandleTypes, session
<1>28. CASE Kill
  BY <1>28, BlankHandle DEF Kill, Types, HandleTypes, Forget
<1>29. CASE AssignPodCIDR
  BY <1>29, BlankHandle DEF AssignPodCIDR, Types, HandleTypes, session, control
<1>30. CASE Renumber
  BY <1>30, BlankHandle DEF Renumber, Types, HandleTypes, Event, session, control
<1>31. CASE ChangePeers
  BY <1>31, BlankHandle DEF ChangePeers, Types, HandleTypes, Event, session, control
<1>32. CASE \E t \in Tunnels : BridgeUp(t)
  BY <1>32, BlankHandle DEF BridgeUp, Types, HandleTypes, session, control
<1>33. CASE \E t \in Tunnels : CannotBind(t)
  BY <1>33, BlankHandle DEF CannotBind, Types, HandleTypes, session, control
<1>34. CASE \E t \in Tunnels : TunnelStops(t)
  BY <1>34, BlankHandle DEF TunnelStops, Types, HandleTypes, session, control
<1>35. CASE \E t \in Tunnels : Teardown(t)
  BY <1>35, BlankHandle DEF Teardown, Types, HandleTypes, session, control
<1>36. CASE \E t \in Tunnels : TunnelDies(t)
  BY <1>36, BlankHandle DEF TunnelDies, Types, HandleTypes, Event, session, control
<1>37. CASE \E t \in Tunnels : Intruder(t)
  BY <1>37, BlankHandle DEF Intruder, Types, HandleTypes, Event, session, control
<1> QED
  BY <1>1, <1>2, <1>3, <1>4, <1>5, <1>6, <1>7, <1>8, <1>9, <1>10, <1>11, <1>12, <1>13,
      <1>14, <1>15, <1>16, <1>17, <1>18, <1>19, <1>20, <1>21, <1>22, <1>23, <1>24, <1>25,
      <1>26, <1>27, <1>28, <1>29, <1>30, <1>31, <1>32, <1>33, <1>34, <1>35, <1>36, <1>37 DEF
      Next, SessionStep, Pass, Environment, TunnelStep
LEMMA TypesInit == Init => Types
<1> SUFFICES ASSUME Init PROVE Types
  OBVIOUS
<1>1. BridgeOffset \in Offsets
  BY SizeType DEF BridgeOffset, Offsets, Broadcast
<1>2. ApiTypes
  <2>1. PICK m \in Macs : peers = <<m>>
    BY DEF Init
  <2>2. peers \in Seq(Macs) /\ Len(peers) = 1
    BY <2>1
  <2> QED BY <2>2, NetworkBounds DEF Init, ApiTypes
<1>3. HostTypes
  BY <1>1, TunnelsAssumption DEF Init, HostTypes
<1>4. ControlTypes
  BY DEF Init, ControlTypes, Stages
<1>5. HandleTypes
  BY BlankHandle DEF Init, HandleTypes
<1> QED BY <1>2, <1>3, <1>4, <1>5 DEF Types

LEMMA TypesStutter == ASSUME Types, UNCHANGED vars PROVE Types'
<1>1. ApiTypes' /\ HostTypes'
  BY DEF Types, ApiTypes, HostTypes, vars, api, host, tables
<1>2. ControlTypes' /\ HandleTypes'
  BY DEF Types, ControlTypes, HandleTypes, vars, session, control
<1> QED BY <1>1, <1>2 DEF Types

LEMMA TypesKept == ASSUME Types, [Next]_vars PROVE Types'
<1>1. CASE Next
  BY <1>1, ApiKept, HostKept, ControlKept, HandleKept DEF Types
<1> QED BY <1>1, TypesStutter

LEMMA TypesAlways == Spec => []Types
  BY TypesInit, TypesKept, PTL DEF Spec

\* Every variable of the network keeps its type, whatever fails, is killed or changes.
THEOREM NetTypesKept == Spec => []NetTypeOK
<1>1. Types => NetTypeOK
  BY DEF Types, ApiTypes, HostTypes, ControlTypes, HandleTypes, NetTypeOK
<1> QED BY <1>1, TypesAlways, PTL

-----------------------------------------------------------------------------
\* The tunnels of others

\* The daemon only ever holds tunnels of its own identity, since nothing of others has
\* the address of one of its PodCIDRs.
OthersInv ==
  /\ \A t \in Others : cidr[t] = OtherCIDR
  /\ \A t \in Tunnels \ Others : cidr[t] # OtherCIDR
  /\ child \notin Others /\ iface \notin Others /\ stale \cap Others = {}
  /\ OthersUntouched

\* A bridge that holds an address of one of our CIDRs is ours.
LEMMA HoldersOurs ==
  ASSUME HostTypes, OthersInv, NEW c \in CIDRs \cup {None}, NEW o
  PROVE  Holders(c, o) \cap Others = {}
  BY CIDRsAssumption DEF HostTypes, OthersInv, Holders

LEMMA WantedOurs ==
  ASSUME Types, OthersInv
  PROVE  \A S : StaleBridges(S) => S \cap Others = {}
<1>1. Wanted \subseteq CIDRs \cup {None}
  BY HandleFields DEF Types, HandleTypes, HostTypes, OthersInv, Wanted, Matching
<1> QED BY <1>1, HoldersOurs DEF Types, StaleBridges

LEMMA OthersInit == Init => OthersInv
  BY TunnelsAssumption, CIDRsAssumption DEF Init, OthersInv, OthersUntouched

LEMMA OthersStep == ASSUME Types, OthersInv, Next PROVE OthersInv'
<1>a. None \notin Others /\ Others \subseteq Tunnels
  BY TunnelsAssumption
<1>b. handle.cidr \in CIDRs \cup {None} /\ handle.cidr # OtherCIDR
  BY HandleFields, CIDRsAssumption DEF Types, HandleTypes
<1>1. CASE Begin \/ Kill
  BY <1>1, <1>a DEF Begin, Kill, Return, Forget, OthersInv, OthersUntouched, host, tables
<1>2. CASE Inspect
  <2>1. stale' \cap Others = {} /\ child' \notin Others /\ iface' \notin Others
    BY <1>2, <1>a, WantedOurs DEF Inspect, Return, Forget, session, OthersInv
  <2>2. \A t \in Others : proc'[t] = proc[t]
    BY <1>2, <1>a DEF Inspect, Matching, Types, HostTypes
  <2>3. UNCHANGED <<cidr, bridges, addrs>>
    BY <1>2 DEF Inspect
  <2> QED BY <2>1, <2>2, <2>3 DEF OthersInv, OthersUntouched
<1>3. CASE TerminateFails
  BY <1>3, <1>a DEF TerminateFails, Return, Forget, Matching, Types, HostTypes, OthersInv,
      OthersUntouched
<1>4. CASE Unaddress
  BY <1>4, <1>a DEF Unaddress, Return, Forget, session, Types, HostTypes, OthersInv,
      OthersUntouched
<1>5. CASE Start
  BY <1>5, <1>a, <1>b DEF Start, New, Free, Return, Forget, Types, HostTypes, OthersInv,
      OthersUntouched
<1>6. CASE WaitForBridge
  BY <1>6, <1>b, HoldersOurs DEF WaitForBridge, host, Types, OthersInv, OthersUntouched
<1>7. CASE AddWorkloadIP \/ RemoveWorkloadIP
  BY <1>7, <1>a DEF AddWorkloadIP, RemoveWorkloadIP, Types, HostTypes, OthersInv,
      OthersUntouched
<1>8. CASE Drain \/ CleanAliases
  BY <1>8, <1>a DEF Drain, CleanAliases, RemoveAliases, Types, HostTypes, OthersInv,
      OthersUntouched
<1>9. CASE StopChild \/ Reap
  BY <1>9, <1>a DEF StopChild, Reap, Return, Forget, session, Types, HostTypes, OthersInv,
      OthersUntouched
<1>10. ASSUME NEW t \in Tunnels, BridgeUp(t) \/ Teardown(t)
       PROVE  OthersInv'
  BY <1>10, <1>a DEF BridgeUp, Teardown, Live, session, Types, HostTypes, OthersInv,
      OthersUntouched
<1>11. ASSUME NEW t \in Tunnels, CannotBind(t) \/ TunnelStops(t) \/ TunnelDies(t)
       PROVE  OthersInv'
  BY <1>11, <1>a DEF CannotBind, TunnelStops, TunnelDies, Matching, session, Types, HostTypes,
      OthersInv, OthersUntouched
<1>12. ASSUME NEW t \in Tunnels, Intruder(t)
       PROVE  OthersInv'
  BY <1>12, <1>a, <1>b DEF Intruder, New, Free, session, Types, HostTypes, OthersInv,
      OthersUntouched
<1>13. CASE Join \/ Terminate \/ InstallARPs \/ InstallRoutes \/ Publish \/ LoadJournal
            \/ StartKubelet \/ Shutdown \/ Unpublish \/ CleanRoutes \/ CleanARPs \/ Retry
            \/ Heartbeat \/ AssignAddress \/ Signal \/ AssignPodCIDR \/ Renumber
            \/ ChangePeers
  <2>1. UNCHANGED <<proc, cidr, bridges, addrs, child, iface, stale>>
    BY <1>13 DEF Join, Terminate, InstallARPs, InstallRoutes, Publish, LoadJournal,
        StartKubelet, Shutdown, Unpublish, CleanRoutes, CleanARPs, Retry, Heartbeat,
        AssignAddress, Signal, AssignPodCIDR, Renumber, ChangePeers, host, session
  <2> QED BY <2>1 DEF OthersInv, OthersUntouched
<1> QED
  BY <1>1, <1>2, <1>3, <1>4, <1>5, <1>6, <1>7, <1>8, <1>9, <1>10, <1>11, <1>12, <1>13
  DEF Next, SessionStep, Pass, Environment, TunnelStep

LEMMA OthersStutter == ASSUME OthersInv, UNCHANGED vars PROVE OthersInv'
  BY DEF OthersInv, OthersUntouched, vars, host, session

LEMMA OthersInvAlways == Spec => []OthersInv
  BY TypesAlways, OthersInit, OthersStep, OthersStutter, PTL DEF Spec

\* Recovery, address changes and take-down leave the tunnels of other identities running,
\* with their bridges and addresses.
THEOREM OthersNeverTouched == Spec => []OthersUntouched
<1>1. OthersInv => OthersUntouched
  BY DEF OthersInv
<1> QED BY <1>1, OthersInvAlways, PTL

-----------------------------------------------------------------------------
\* The published bridge

LEMMA AnnotationStep == ASSUME AnnotationCurrent, Next PROVE AnnotationCurrent'
<1>1. CASE Publish
  BY <1>1 DEF Publish, Published, TearDown, Goto, session, AnnotationCurrent
<1>2. CASE Begin \/ Inspect \/ TerminateFails \/ Unaddress \/ Start \/ WaitForBridge \/ Reap
  BY <1>2 DEF Begin, Inspect, TerminateFails, Unaddress, Start, WaitForBridge, Reap, Return,
      Goto, TearDown, AnnotationCurrent
<1>3. CASE Join \/ Terminate \/ InstallARPs \/ InstallRoutes \/ Shutdown \/ Drain \/ Unpublish
           \/ CleanAliases \/ CleanRoutes \/ CleanARPs \/ StopChild \/ Retry \/ Kill
  BY <1>3 DEF Join, Terminate, InstallARPs, InstallRoutes, Shutdown, Drain, Unpublish,
      CleanAliases, CleanRoutes, CleanARPs, StopChild, Retry, Kill, Goto, TearDown,
      AnnotationCurrent
<1>4. CASE LoadJournal \/ StartKubelet
  BY <1>4 DEF LoadJournal, StartKubelet, Goto, TearDown, api, session, AnnotationCurrent
<1>5. CASE Pass \/ Signal \/ AssignPodCIDR \/ Renumber \/ ChangePeers
  BY <1>5 DEF Pass, Heartbeat, AssignAddress, AddWorkloadIP, RemoveWorkloadIP, Signal,
      AssignPodCIDR, Renumber, ChangePeers, api, session, control, AnnotationCurrent
<1>6. CASE \E t \in Tunnels : TunnelStep(t) \/ TunnelDies(t) \/ Intruder(t)
  BY <1>6 DEF TunnelStep, BridgeUp, CannotBind, TunnelStops, Teardown, TunnelDies, Intruder,
      api, session, control, AnnotationCurrent
<1> QED BY <1>1, <1>2, <1>3, <1>4, <1>5, <1>6 DEF Next, SessionStep, Environment

\* A session that serves Pods publishes the MAC of the bridge it found.
THEOREM AnnotationAlwaysCurrent == Spec => []AnnotationCurrent
<1>1. Init => AnnotationCurrent
  BY DEF Init, AnnotationCurrent
<1>2. AnnotationCurrent /\ UNCHANGED vars => AnnotationCurrent'
  BY DEF AnnotationCurrent, vars, api, session, control
<1> QED BY <1>1, <1>2, AnnotationStep, PTL DEF Spec

-----------------------------------------------------------------------------
\* Routes and ARP entries

HasBridge == {"arps", "routes", "publish", "journal", "kubelet", "up"}
HasARPs   == HasBridge \ {"arps"}

\* Once the session's bridge is lost it does not come back under the same number, since
\* only a start makes a tunnel run; then the entries are those the session made.
RouteInv ==
  /\ pc \in HasBridge => iface \in Tunnels /\ (iface \notin bridges => proc[iface] # "running")
  /\ pc \in HasARPs /\ iface \in bridges =>
       \A i \in 0..Len(handle.known)-1 : arps[iface][i] # None
  /\ RoutedThroughOwnBridge

\* A step that leaves the stage, the bridge and what it carries, or leaves it all behind.
LEMMA RouteFrame ==
  ASSUME RouteInv, pc' \notin HasBridge \/ UNCHANGED <<pc, iface, bridges, proc, arps, routes>>,
         pc' \in HasBridge => handle'.known = handle.known
  PROVE  RouteInv'
  BY DEF RouteInv, RoutedThroughOwnBridge, HasBridge, HasARPs

LEMMA InstallARPsRoutes == ASSUME Types, RouteInv, InstallARPs PROVE RouteInv'
<1> DEFINE n == Len(handle.known)
<1>1. /\ pc = "arps" /\ UNCHANGED <<iface, bridges, proc, routes>>
      /\ handle.known \in Seq(Macs) /\ n \in 0..MaxPeers /\ handle \in Handle /\ n # 0
  BY HandleFields DEF InstallARPs, Types, HandleTypes
<1>2. CASE pc' \notin HasBridge
  BY <1>2, RouteFrame
<1>3. CASE pc' \in HasBridge
  <2>1. pc' = "routes" /\ arps' = [arps EXCEPT ![iface] =
            [i \in Peers |-> IF i < n THEN handle.known[i + 1] ELSE @[i]]]
    BY <1>1, <1>3 DEF InstallARPs, Goto, TearDown, HasBridge
  <2>2. handle' = [handle EXCEPT !.mac = handle.known[1], !.arps = 0..n-1]
    BY <1>1, <1>3 DEF InstallARPs, Goto, TearDown, HasBridge
  <2>3. handle.known[1] \in Macs /\ 0..n-1 \in SUBSET Peers
    BY <1>1, NetworkBounds DEF Peers
  <2>4. handle'.known = handle.known
    <3>1. handle.known[1] \in Macs \cup {None} /\ handle \in Handle
      BY <1>1, <2>3
    <3> QED BY <3>1, <2>2, <2>3, HandleARPs
  <2>5. iface \in Tunnels
    BY <1>1 DEF RouteInv, HasBridge
  <2>6. ASSUME NEW i \in 0..n-1 PROVE arps'[iface][i] # None
    <3>1. handle.known[i + 1] \in Macs /\ i \in Peers /\ i < n
      BY <1>1, <2>3, NetworkBounds
    <3>2. arps'[iface][i] = handle.known[i + 1]
      BY <2>1, <2>5, <3>1 DEF Types, HostTypes
    <3> QED BY <3>1, <3>2, MacsAssumption
  <2> QED
    BY <1>1, <2>1, <2>4, <2>6 DEF RouteInv, RoutedThroughOwnBridge, HasBridge, HasARPs
<1> QED BY <1>2, <1>3

LEMMA InstallRoutesRoutes == ASSUME Types, RouteInv, InstallRoutes PROVE RouteInv'
<1> DEFINE n == Len(handle.known)
<1>1. pc = "routes" /\ UNCHANGED <<iface, bridges, proc, arps>> /\ n \in 0..MaxPeers
      /\ handle \in Handle
  BY DEF InstallRoutes, Types, HandleTypes
<1>2. CASE pc' \notin HasBridge
  BY <1>2, RouteFrame
<1>3. CASE pc' \in HasBridge
  <2>1. /\ \A d \in 0..n : Routable(d)
        /\ routes' = [d \in Destinations |->
                        IF d < n + 1 /\ routes[d] = None THEN iface ELSE routes[d]]
        /\ pc' = "publish" /\ handle' = [handle EXCEPT !.routes = 0..n]
    <3>1. PICK k \in 0..n+1 :
            /\ \A d \in 0..k-1 : Routable(d)
            /\ routes' = [d \in Destinations |->
                            IF d < k /\ routes[d] = None THEN iface ELSE routes[d]]
            /\ handle' = [handle EXCEPT !.routes = 0..k-1]
            /\ k = n + 1 /\ Goto("publish")
      BY <1>3 DEF InstallRoutes, TearDown, HasBridge
    <3>2. k = n + 1 /\ k - 1 = n
      BY <3>1, <1>1
    <3> QED BY <3>1, <3>2 DEF Goto
  <2>2. 0..n \in SUBSET Destinations
    BY <1>1, NetworkBounds DEF Destinations
  <2>3. handle'.known = handle.known
    BY <1>1, <2>1, <2>2, HandleChanges
  <2>4. \A d \in 0..n : routes'[d] = iface
    BY <1>1, <2>1, <2>2 DEF Routable
  <2> QED
    BY <1>1, <2>1, <2>3, <2>4 DEF RouteInv, RoutedThroughOwnBridge, HasBridge, HasARPs
<1> QED BY <1>2, <1>3

LEMMA HeartbeatRoutes == ASSUME Types, RouteInv, Heartbeat PROVE RouteInv'
<1>1. /\ pc = "up" /\ UNCHANGED <<pc, iface, bridges, proc, routes>> /\ iface \in Tunnels
      /\ handle \in Handle /\ Len(handle.known) \in 0..MaxPeers
  BY DEF Heartbeat, control, RouteInv, HasBridge, Types, HandleTypes
<1>2. peers[1] \in Macs
  BY NetworkBounds DEF Types, ApiTypes
<1>3. CASE UNCHANGED <<arps, handle>>
  BY <1>1, <1>3, RouteFrame
<1>4. CASE ~ UNCHANGED <<arps, handle>>
  <2>1. PICK done \in BOOLEAN :
          /\ arps' = IF done THEN [arps EXCEPT ![iface][0] = peers[1]] ELSE arps
          /\ handle' = [handle EXCEPT !.mac = Remembered(peers[1], done)]
    BY <1>4 DEF Heartbeat
  <2>2. Remembered(peers[1], done) \in Macs \cup {None}
    BY <1>2, HandleFields DEF Types, HandleTypes, Remembered
  <2>3. handle'.known = handle.known
    BY <1>1, <2>1, <2>2, HandleChanges
  <2>4. \A i \in Peers : arps[iface][i] # None => arps'[iface][i] # None
    BY <1>1, <1>2, <2>1, MacsAssumption DEF Types, HostTypes
  <2>5. 0..Len(handle.known)-1 \subseteq Peers
    BY <1>1, NetworkBounds DEF Peers
  <2> QED
    BY <1>1, <2>3, <2>4, <2>5 DEF RouteInv, RoutedThroughOwnBridge, HasBridge, HasARPs
<1> QED BY <1>3, <1>4

LEMMA WaitForBridgeRoutes == ASSUME Types, RouteInv, WaitForBridge PROVE RouteInv'
<1>1. pc' = "arps" \/ pc' \notin HasBridge
  BY DEF WaitForBridge, Goto, TearDown, HasBridge
<1>2. CASE pc' = "arps"
  <2>1. iface' \in bridges /\ bridges' = bridges /\ bridges \subseteq Tunnels
    BY <1>2 DEF WaitForBridge, TearDown, Holders, host, Types, HostTypes
  <2> QED
    BY <1>2, <2>1 DEF RouteInv, RoutedThroughOwnBridge, HasBridge, HasARPs
<1>3. CASE pc' \notin HasBridge
  BY <1>3, RouteFrame
<1> QED BY <1>1, <1>2, <1>3

LEMMA TunnelRoutes ==
  ASSUME Types, RouteInv, NEW t \in Tunnels, TunnelStep(t) \/ TunnelDies(t)
  PROVE  RouteInv'
<1>1. UNCHANGED <<pc, iface, handle>>
  BY DEF TunnelStep, BridgeUp, CannotBind, TunnelStops, Teardown, TunnelDies, session, control
<1>a. handle \in Handle /\ Len(handle.known) \in 0..MaxPeers
  BY DEF Types, HandleTypes
<1>2. CASE BridgeUp(t)
  <2>1. pc \in HasBridge => t # iface
    BY <1>2 DEF BridgeUp, RouteInv
  <2>2. UNCHANGED <<proc, routes, arps>> /\ bridges' = bridges \cup {t}
    BY <1>2 DEF BridgeUp, tables
  <2> QED
    BY <1>1, <2>1, <2>2 DEF RouteInv, RoutedThroughOwnBridge, HasBridge, HasARPs
<1>3. CASE Teardown(t)
  <2>1. /\ UNCHANGED proc /\ bridges' = bridges \ {t} /\ proc[t] = "gone"
        /\ routes' = [d \in Destinations |-> IF routes[d] = t THEN None ELSE routes[d]]
        /\ arps' = [arps EXCEPT ![t] = [i \in Peers |-> None]]
    BY <1>3 DEF Teardown, Live
  <2>2. iface # t => arps'[iface] = arps[iface]
    BY <2>1 DEF Types, HostTypes
  <2>3. \A d \in 0..Len(handle.known) : routes[d] = iface /\ iface # t => routes'[d] = iface
    BY <1>a, <2>1, NetworkBounds DEF Destinations
  <2> QED
    BY <1>1, <2>1, <2>2, <2>3 DEF RouteInv, RoutedThroughOwnBridge, HasBridge, HasARPs
<1>4. CASE CannotBind(t) \/ TunnelStops(t) \/ TunnelDies(t)
  <2>1. UNCHANGED <<bridges, routes, arps>> /\ proc' = [proc EXCEPT ![t] = "gone"]
    BY <1>4 DEF CannotBind, TunnelStops, TunnelDies, tables
  <2>2. iface \in Tunnels /\ proc[iface] # "running" => proc'[iface] # "running"
    BY <2>1 DEF Types, HostTypes
  <2> QED
    BY <1>1, <2>1, <2>2 DEF RouteInv, RoutedThroughOwnBridge, HasBridge, HasARPs
<1> QED BY <1>2, <1>3, <1>4 DEF TunnelStep

LEMMA RouteStep == ASSUME Types, RouteInv, Next PROVE RouteInv'
<1>1. CASE InstallARPs \/ InstallRoutes \/ Heartbeat \/ WaitForBridge
  BY <1>1, InstallARPsRoutes, InstallRoutesRoutes, HeartbeatRoutes, WaitForBridgeRoutes
<1>2. CASE \E t \in Tunnels : TunnelStep(t) \/ TunnelDies(t)
  BY <1>2, TunnelRoutes
<1>3. CASE AddWorkloadIP \/ RemoveWorkloadIP
  <2>1. handle'.known = handle.known
    BY <1>3, HandleFields DEF AddWorkloadIP, RemoveWorkloadIP, Types, HandleTypes, Handle
  <2> QED
    BY <1>3, <2>1, RouteFrame DEF AddWorkloadIP, RemoveWorkloadIP, control, tables
<1>4. CASE Publish \/ LoadJournal \/ StartKubelet
  <2>1. UNCHANGED <<iface, bridges, proc, arps, routes, handle>>
    BY <1>4 DEF Publish, LoadJournal, StartKubelet, host, session, tables
  <2>2. pc \in {"publish", "journal", "kubelet"}
        /\ (pc' \in {"journal", "kubelet", "up"} \/ pc' \notin HasBridge)
    BY <1>4 DEF Publish, LoadJournal, StartKubelet, Goto, TearDown, HasBridge
  <2> QED BY <2>1, <2>2 DEF RouteInv, RoutedThroughOwnBridge, HasBridge, HasARPs
<1>5. CASE AssignAddress \/ Signal \/ AssignPodCIDR \/ Renumber \/ ChangePeers
  BY <1>5, RouteFrame DEF AssignAddress, Signal, AssignPodCIDR, Renumber, ChangePeers, host,
      session, control, tables
<1>6. CASE \E t \in Tunnels : Intruder(t)
  BY <1>6, RouteFrame DEF Intruder, control, HasBridge
<1>7. CASE Join \/ Begin \/ Inspect \/ Terminate \/ TerminateFails \/ Unaddress \/ Start
           \/ Reap \/ Retry \/ Kill
  BY <1>7, RouteFrame DEF Join, Begin, Inspect, Terminate, TerminateFails, Unaddress, Start,
      Reap, Retry, Kill, Return, Goto, HasBridge
<1>8. CASE Shutdown \/ Drain \/ Unpublish \/ CleanAliases \/ CleanRoutes \/ CleanARPs
           \/ StopChild
  BY <1>8, RouteFrame DEF Shutdown, Drain, Unpublish, CleanAliases, CleanRoutes, CleanARPs,
      StopChild, TearDown, Goto, HasBridge
<1> QED
  BY <1>1, <1>2, <1>3, <1>4, <1>5, <1>6, <1>7, <1>8 DEF Next, SessionStep, Pass, Environment

LEMMA RouteStutter == ASSUME RouteInv, UNCHANGED vars PROVE RouteInv'
  BY RouteFrame DEF vars, host, session, control, tables

LEMMA RouteInvAlways == Spec => []RouteInv
<1>1. Init => RouteInv
  BY DEF Init, RouteInv, RoutedThroughOwnBridge, HasBridge, HasARPs
<1> QED BY <1>1, TypesAlways, RouteStep, RouteStutter, PTL DEF Spec

\* From its publication to its end a session's destinations go through its own bridge, as
\* long as that exists.
THEOREM AlwaysRoutedThroughOwnBridge == Spec => []RoutedThroughOwnBridge
<1>1. RouteInv => RoutedThroughOwnBridge
  BY DEF RouteInv
<1> QED BY <1>1, RouteInvAlways, PTL

-----------------------------------------------------------------------------
\* Aliases

BeforeUp == Setup \ {"begin"}

\* A session begins without aliases and on a bridge without workload addresses: recovery
\* has emptied every one that has the bridge address, and the others are new.
AliasInv ==
  /\ pc \in BeforeUp => handle.aliases = {}
  /\ pc \in {"start", "wait"} =>
       \A t \in bridges : cidr[t] = handle.cidr /\ BridgeOffset \in addrs[t]
                         => addrs[t] = {BridgeOffset}
  /\ pc \in HasBridge /\ iface \in bridges => addrs[iface] \ {BridgeOffset} = handle.aliases

LEMMA AliasEnded ==
  ASSUME pc' \notin BeforeUp \cup {"up"}
  PROVE  AliasInv'
  BY DEF AliasInv, BeforeUp, HasBridge, Setup

LEMMA InspectAliases == ASSUME Types, AliasInv, Inspect PROVE AliasInv'
<1>1. CASE pc' \notin BeforeUp \cup {"up"}
  BY <1>1, AliasEnded
<1>2. CASE pc' \in BeforeUp \cup {"up"}
  <2>1. PICK S \in SUBSET Tunnels : StaleBridges(S) /\
          IF Matching = {} /\ S = {} THEN pc' = "start" ELSE pc' = "terminate"
    BY <1>2 DEF Inspect, Return, Goto, BeforeUp, Setup
  <2>2. pc = "inspect" /\ UNCHANGED <<iface, bridges, addrs, cidr, handle>>
    BY <1>2 DEF Inspect, Return, Goto, session, BeforeUp, Setup
  <2>3. CASE pc' = "terminate"
    BY <2>2, <2>3 DEF AliasInv, BeforeUp, Setup, HasBridge
  <2>4. CASE pc' = "start"
    <3>1. S = {}
      BY <2>1, <2>4
    <3>2. Holders(handle.cidr, BridgeOffset) = {}
      BY <2>1, <3>1 DEF StaleBridges, Wanted
    <3> QED
      BY <2>2, <2>4, <3>2 DEF AliasInv, Holders, BeforeUp, Setup, HasBridge
  <2> QED BY <2>1, <2>3, <2>4
<1> QED BY <1>1, <1>2

LEMMA UnaddressAliases == ASSUME Types, AliasInv, Unaddress PROVE AliasInv'
<1>1. CASE pc' \notin BeforeUp \cup {"up"}
  BY <1>1, AliasEnded
<1>2. CASE pc' \in BeforeUp \cup {"up"}
  <2>1. /\ pc = "unaddress" /\ pc' = "start" /\ UNCHANGED <<iface, bridges, cidr, handle>>
        /\ addrs' = [t \in Tunnels |-> IF t \in stale THEN {} ELSE addrs[t]]
        /\ \A t \in bridges \ stale : t \notin Holders(handle.cidr, BridgeOffset)
    BY <1>2 DEF Unaddress, Return, Goto, session, BeforeUp, Setup
  <2>2. \A t \in bridges : ~(cidr[t] = handle.cidr /\ BridgeOffset \in addrs'[t])
    BY <2>1 DEF Types, HostTypes, Holders
  <2> QED BY <2>1, <2>2 DEF AliasInv, BeforeUp, Setup, HasBridge
<1> QED BY <1>1, <1>2

LEMMA StartAliases == ASSUME Types, AliasInv, Start PROVE AliasInv'
<1>1. CASE pc' \notin BeforeUp \cup {"up"}
  BY <1>1, AliasEnded
<1>2. CASE pc' = "inspect"
  <2>1. pc = "start" /\ UNCHANGED <<iface, bridges, addrs, handle>>
    BY <1>2 DEF Start, Goto, Return
  <2> QED BY <1>2, <2>1 DEF AliasInv, BeforeUp, Setup, HasBridge
<1>3. CASE pc' = "wait"
  <2>1. PICK t \in Tunnels : New(t) /\ cidr' = [cidr EXCEPT ![t] = handle.cidr]
    BY <1>3 DEF Start, Goto, Return
  <2>2. \A u \in bridges : cidr'[u] = cidr[u]
    BY <2>1 DEF New, Free, Types, HostTypes
  <2>3. pc = "start" /\ UNCHANGED <<iface, bridges, addrs, handle>>
    BY <1>3 DEF Start, Goto, Return
  <2> QED BY <1>3, <2>2, <2>3 DEF AliasInv, BeforeUp, Setup, HasBridge
<1> QED BY <1>1, <1>2, <1>3 DEF Start, Goto, Return, BeforeUp, Setup

LEMMA WaitForBridgeAliases == ASSUME Types, AliasInv, WaitForBridge PROVE AliasInv'
<1>1. CASE pc' \notin BeforeUp \cup {"up"}
  BY <1>1, AliasEnded
<1>2. CASE pc' \in BeforeUp \cup {"up"}
  <2>1. /\ pc = "wait" /\ pc' = "arps" /\ UNCHANGED <<bridges, addrs, cidr, handle>>
        /\ iface' \in Holders(handle.cidr, BridgeOffset)
    BY <1>2 DEF WaitForBridge, Goto, TearDown, host, BeforeUp, Setup
  <2> QED BY <2>1 DEF AliasInv, Holders, BeforeUp, Setup, HasBridge
<1> QED BY <1>1, <1>2

LEMMA PassAliases ==
  ASSUME Types, RouteInv, AliasInv, AddWorkloadIP \/ RemoveWorkloadIP
  PROVE  AliasInv'
<1>1. /\ pc = "up" /\ UNCHANGED <<pc, iface, bridges, cidr>> /\ handle \in Handle
      /\ iface \in Tunnels
  BY DEF AddWorkloadIP, RemoveWorkloadIP, control, RouteInv, HasBridge, Types, HandleTypes
<1>2. CASE AddWorkloadIP
  <2>1. PICK a \in assigned, done \in BOOLEAN :
          /\ ~Refused(a[2], Len(handle.known))
          /\ addrs' = IF done THEN [addrs EXCEPT ![iface] = @ \cup {a[2]}] ELSE addrs
          /\ handle' = IF done THEN [handle EXCEPT !.aliases = @ \cup {a[2]}] ELSE handle
    BY <1>2 DEF AddWorkloadIP
  <2>2. a[2] # BridgeOffset
    BY <2>1 DEF Refused, Reserved
  <2>3. handle'.aliases = IF done THEN handle.aliases \cup {a[2]} ELSE handle.aliases
    BY <1>1, <2>1 DEF Handle
  <2>4. addrs'[iface] = IF done THEN addrs[iface] \cup {a[2]} ELSE addrs[iface]
    BY <1>1, <2>1 DEF Types, HostTypes
  <2> QED
    BY <1>1, <2>2, <2>3, <2>4 DEF AliasInv, BeforeUp, Setup, HasBridge
<1>3. CASE RemoveWorkloadIP
  <2>1. PICK a \in assigned, done \in BOOLEAN :
          LET ours == a[1] = handle.cidr /\ a[2] \in handle.aliases
          IN /\ ours /\ done => iface \in bridges
             /\ addrs' = IF ours /\ done THEN [addrs EXCEPT ![iface] = @ \ {a[2]}] ELSE addrs
             /\ handle' = IF ours THEN [handle EXCEPT !.aliases = Unaliased(a[2], done)]
                          ELSE handle
    BY <1>3 DEF RemoveWorkloadIP
  <2> DEFINE gone == a[1] = handle.cidr /\ a[2] \in handle.aliases /\ done
  <2>2. handle'.aliases = IF gone THEN handle.aliases \ {a[2]} ELSE handle.aliases
    BY <1>1, <2>1 DEF Handle, Unaliased
  <2>3. addrs'[iface] = IF gone THEN addrs[iface] \ {a[2]} ELSE addrs[iface]
    BY <1>1, <2>1 DEF Types, HostTypes
  <2> QED
    BY <1>1, <2>2, <2>3 DEF AliasInv, BeforeUp, Setup, HasBridge
<1> QED BY <1>2, <1>3

LEMMA TunnelAliases ==
  ASSUME Types, RouteInv, AliasInv, NEW t \in Tunnels,
         TunnelStep(t) \/ TunnelDies(t) \/ Intruder(t)
  PROVE  AliasInv'
<1>1. UNCHANGED <<pc, iface, handle>>
  BY DEF TunnelStep, BridgeUp, CannotBind, TunnelStops, Teardown, TunnelDies, Intruder,
      session, control
<1>2. CASE BridgeUp(t)
  <2>1. UNCHANGED cidr /\ bridges' = bridges \cup {t}
        /\ addrs' = [addrs EXCEPT ![t] = {BridgeOffset}]
    BY <1>2 DEF BridgeUp
  <2>2. pc \in HasBridge => t # iface
    BY <1>2 DEF BridgeUp, RouteInv
  <2> QED BY <1>1, <2>1, <2>2 DEF AliasInv, Types, HostTypes
<1>3. CASE Teardown(t)
  BY <1>1, <1>3 DEF Teardown, AliasInv, Types, HostTypes
<1>4. CASE CannotBind(t) \/ TunnelStops(t) \/ TunnelDies(t)
  <2>1. UNCHANGED <<cidr, bridges, addrs>>
    BY <1>4 DEF CannotBind, TunnelStops, TunnelDies
  <2> QED BY <1>1, <2>1 DEF AliasInv
<1>5. CASE Intruder(t)
  <2>1. \A u \in bridges : cidr'[u] = cidr[u]
    BY <1>5 DEF Intruder, New, Free, Types, HostTypes
  <2>2. UNCHANGED <<bridges, addrs>>
    BY <1>5 DEF Intruder
  <2> QED BY <1>1, <2>1, <2>2 DEF AliasInv
<1> QED BY <1>2, <1>3, <1>4, <1>5 DEF TunnelStep

LEMMA SetupAliases ==
  ASSUME Types, AliasInv, InstallARPs \/ InstallRoutes \/ Heartbeat
  PROVE  AliasInv'
<1>1. UNCHANGED <<iface, bridges, addrs, cidr>>
  BY DEF InstallARPs, InstallRoutes, Heartbeat
<1>2. handle'.aliases = handle.aliases
  BY HandleFields DEF InstallARPs, InstallRoutes, Heartbeat, Types, HandleTypes, Handle
<1>3. \/ pc \in {"arps", "routes"} /\ pc' \in {"routes", "publish"}
      \/ pc = "up" /\ pc' = "up"
      \/ pc' \notin BeforeUp \cup {"up"}
  BY DEF InstallARPs, InstallRoutes, Heartbeat, Goto, TearDown, control, BeforeUp, Setup
<1> QED BY <1>1, <1>2, <1>3, AliasEnded DEF AliasInv, BeforeUp, Setup, HasBridge

LEMMA AliasStep == ASSUME Types, RouteInv, AliasInv, Next PROVE AliasInv'
<1>1. CASE Inspect \/ Unaddress \/ Start \/ WaitForBridge
  BY <1>1, InspectAliases, UnaddressAliases, StartAliases, WaitForBridgeAliases
<1>2. CASE InstallARPs \/ InstallRoutes \/ Heartbeat
  BY <1>2, SetupAliases
<1>3. CASE AddWorkloadIP \/ RemoveWorkloadIP
  BY <1>3, PassAliases
<1>4. CASE \E t \in Tunnels : TunnelStep(t) \/ TunnelDies(t) \/ Intruder(t)
  BY <1>4, TunnelAliases
<1>5. CASE Begin
  <2>1. pc' = "inspect" => handle'.aliases = {}
    <3> SUFFICES ASSUME pc' = "inspect" PROVE handle'.aliases = {}
      OBVIOUS
    <3>1. HasPodCIDR /\ handle' = [NoHandle EXCEPT !.cidr = podCIDR, !.known = peers]
      BY <1>5 DEF Begin, Return
    <3>2. podCIDR \in CIDRs /\ peers \in Seq(Macs)
      BY <3>1 DEF HasPodCIDR, Types, ApiTypes
    <3> QED BY <3>1, <3>2, HandleBegins
  <2>2. pc' = "inspect" \/ pc' \notin BeforeUp \cup {"up"}
    BY <1>5 DEF Begin, Return, Goto, BeforeUp, Setup
  <2> QED BY <2>1, <2>2, AliasEnded DEF AliasInv, HasBridge
<1>6. CASE Terminate \/ Publish \/ LoadJournal \/ StartKubelet
  <2>1. UNCHANGED <<iface, bridges, addrs, cidr, handle>>
    BY <1>6 DEF Terminate, Publish, LoadJournal, StartKubelet, host, session
  <2>2. \/ pc = "terminate" /\ pc' = "unaddress"
        \/ pc \in {"publish", "journal", "kubelet"} /\ pc' \in {"journal", "kubelet", "up"}
        \/ pc' \notin BeforeUp \cup {"up"}
    BY <1>6 DEF Terminate, Publish, LoadJournal, StartKubelet, Goto, TearDown, BeforeUp, Setup
  <2> QED BY <2>1, <2>2 DEF AliasInv, BeforeUp, Setup, HasBridge
<1>7. CASE AssignAddress \/ Signal \/ AssignPodCIDR \/ Renumber \/ ChangePeers
  <2>1. UNCHANGED <<pc, iface, bridges, addrs, cidr, handle>>
    BY <1>7 DEF AssignAddress, Signal, AssignPodCIDR, Renumber, ChangePeers, host, session,
        control
  <2> QED BY <2>1 DEF AliasInv
<1>8. CASE Join \/ TerminateFails \/ Reap \/ Retry \/ Kill
  BY <1>8, AliasEnded DEF Join, TerminateFails, Reap, Retry, Kill, Return, BeforeUp, Setup
<1>9. CASE Shutdown \/ Drain \/ Unpublish \/ CleanAliases \/ CleanRoutes \/ CleanARPs
           \/ StopChild
  BY <1>9, AliasEnded DEF Shutdown, Drain, Unpublish, CleanAliases, CleanRoutes, CleanARPs,
      StopChild, TearDown, Goto, BeforeUp, Setup
<1> QED
  BY <1>1, <1>2, <1>3, <1>4, <1>5, <1>6, <1>7, <1>8, <1>9
  DEF Next, SessionStep, Pass, Environment

LEMMA AliasStutter == ASSUME AliasInv, UNCHANGED vars PROVE AliasInv'
  BY DEF AliasInv, vars, host, session, control

LEMMA AliasInvAlways == Spec => []AliasInv
<1>1. Init => AliasInv
  BY DEF Init, AliasInv, BeforeUp, Setup, HasBridge
<1> QED BY <1>1, TypesAlways, RouteInvAlways, AliasStep, AliasStutter, PTL DEF Spec

\* The workload addresses on the bridge of a session that lasts are the aliases it will
\* remove again, on whatever bridge it found.
THEOREM AliasesAlwaysTracked == Spec => []AliasesTracked
<1>1. AliasInv => AliasesTracked
  BY DEF AliasInv, AliasesTracked, HasBridge
<1> QED BY <1>1, AliasInvAlways, PTL

-----------------------------------------------------------------------------
\* What a session leaves behind

Alone  == {"down", "begin", "inspect", "terminate", "unaddress", "start", "retry"}
Ending == {"drain", "unpublish", "unalias", "unroute", "unarp"}

\* The child of a session has a number of its own, which nothing publishes until the
\* session does, and nothing once it has withdrawn it.
ChildInv ==
  /\ pc \notin Alone => child \in Tunnels
  /\ pc \in {"wait", "arps", "routes", "publish"} => flannel # child
  /\ pc \in {"unalias", "unroute", "unarp", "stop"} /\ clean => flannel # child

\* A session has no bridge until it has found one, and one it has lost does not come back
\* under the same number.
LostInv ==
  /\ pc \in Alone \cup {"wait"} => iface = None
  /\ pc \in HasBridge \cup Ending => iface \in Tunnels
  /\ iface \in Tunnels \ bridges => proc[iface] # "running"

\* Nothing is routed through tunnel t, and its bridge has no ARP entry.
Blank(t) == /\ \A d \in Destinations : routes[d] # t
            /\ \A i \in Peers : arps[t][i] = None

\* Every trace the session has left in the tables of the host is in its handle, and the
\* bridge it finds, though it may be another tunnel's, has none of anybody else.
TrailInv ==
  /\ \A t \in Tunnels \ bridges : Blank(t)
  /\ pc \in {"start", "wait"} => \A t \in Holders(handle.cidr, BridgeOffset) : Blank(t)
  /\ pc = "arps" => Blank(iface)
  /\ pc = "routes" => \A d \in Destinations : routes[d] # iface
  /\ pc \in (HasBridge \cup Ending) \ {"unarp"} =>
       \A d \in Destinations : routes[d] = iface => d \in handle.routes
  /\ pc \in HasBridge \cup Ending => \A i \in Peers : arps[iface][i] # None => i \in handle.arps
  /\ pc \in HasARPs => 0 \in handle.arps

\* So is every address, until the handle is taken down; what has been taken down without
\* a failure is gone.
TakenInv ==
  /\ pc \in {"drain", "unpublish", "unalias"} /\ iface \in bridges =>
       addrs[iface] \ {BridgeOffset} = handle.aliases
  /\ clean /\ iface \in bridges =>
       /\ pc \in {"unroute", "unarp", "stop"} => addrs[iface] \subseteq {BridgeOffset}
       /\ pc \in {"unarp", "stop"} => \A d \in Destinations : routes[d] # iface
       /\ pc = "stop" => \A i \in Peers : arps[iface][i] = None

\* A failure is not forgotten before the session ends.
LEMMA CleanStays ==
  ASSUME \/ SessionStep /\ ~Join /\ ~Retry
         \/ Pass \/ Environment \/ \E t \in Tunnels : TunnelStep(t)
  PROVE  clean' => clean
<1>1. /\ \A kind, fails : Try(kind, fails) => (clean' => clean)
      /\ NoFault => (clean' => clean)
  BY Zenon DEF Try, NoFault
<1>2. ASSUME (\E kind, fails : Try(kind, fails)) \/ NoFault PROVE clean' => clean
  BY <1>1, <1>2, Zenon
<1>3. CASE SessionStep /\ ~Join /\ ~Retry
  <2>1. (\E kind, fails : Try(kind, fails)) \/ NoFault
    BY <1>3 DEF SessionStep, Begin, Inspect, Terminate, TerminateFails, Unaddress, Start,
        WaitForBridge, InstallARPs, InstallRoutes, Publish, LoadJournal, StartKubelet, Shutdown,
        Drain, Unpublish, CleanAliases, CleanRoutes, CleanARPs, StopChild, Reap
  <2> QED BY <1>2, <2>1
<1>4. CASE Pass
  <2>1. (\E kind, fails : Try(kind, fails)) \/ NoFault \/ clean' = clean
    BY <1>4 DEF Pass, Heartbeat, AssignAddress, AddWorkloadIP, RemoveWorkloadIP
  <2> QED BY <1>2, <2>1, Zenon
<1>5. CASE Environment \/ \E t \in Tunnels : TunnelStep(t)
  <2>1. NoFault \/ \E t \in Tunnels : TunnelDies(t)
    BY <1>5 DEF Environment, TunnelStep, Signal, Kill, AssignPodCIDR, Renumber, ChangePeers,
        BridgeUp, CannotBind, TunnelStops, Teardown, Intruder
  <2>2. (\E t \in Tunnels : TunnelDies(t)) => (clean' => clean)
    BY Zenon DEF TunnelDies
  <2> QED BY <1>2, <2>1, <2>2, Zenon
<1> QED BY <1>3, <1>4, <1>5

LEMMA ChildStep == ASSUME Types, ChildInv, Next PROVE ChildInv'
<1> USE DEF Alone
<1>1. CASE Join \/ Begin \/ Inspect \/ Terminate \/ TerminateFails \/ Unaddress \/ Reap
           \/ Retry \/ Kill
  BY <1>1 DEF Join, Begin, Inspect, Terminate, TerminateFails, Unaddress, Reap, Retry, Kill,
      Return, Goto, ChildInv
<1>2. CASE Start
  BY <1>2 DEF Start, New, Free, Return, Goto, api, ChildInv
<1>3. CASE WaitForBridge \/ InstallARPs \/ InstallRoutes
  <2>1. /\ UNCHANGED <<child, flannel>> /\ pc \in {"wait", "arps", "routes"}
        /\ pc' \in {"arps", "routes", "publish", "unalias", "stop"}
    BY <1>3 DEF WaitForBridge, InstallARPs, InstallRoutes, Goto, TearDown, api
  <2> QED BY <2>1 DEF ChildInv
<1>4. CASE Publish
  BY <1>4 DEF Publish, Goto, TearDown, session, ChildInv
<1>5. CASE LoadJournal \/ StartKubelet
  BY <1>5 DEF LoadJournal, StartKubelet, Goto, TearDown, Try, session, ChildInv
<1>6. CASE Shutdown \/ Drain
  BY <1>6 DEF Shutdown, Drain, Goto, TearDown, session, ChildInv
<1>7. CASE Unpublish
  BY <1>7, TunnelsAssumption DEF Unpublish, Goto, Try, session, ChildInv
<1>8. CASE CleanAliases \/ CleanRoutes \/ CleanARPs \/ StopChild
  <2>1. /\ UNCHANGED <<child, flannel>> /\ pc \in {"unalias", "unroute", "unarp", "stop"}
        /\ pc' \in {"unroute", "unarp", "stop", "reap"} /\ ~Join /\ ~Retry
    BY <1>8 DEF CleanAliases, CleanRoutes, CleanARPs, StopChild, Join, Retry, Goto, api, session
  <2>2. clean' => clean
    BY <1>8, <2>1, CleanStays DEF SessionStep
  <2> QED BY <2>1, <2>2 DEF ChildInv
<1>9. CASE Pass \/ Signal \/ AssignPodCIDR \/ Renumber \/ ChangePeers
           \/ \E t \in Tunnels : TunnelStep(t) \/ TunnelDies(t) \/ Intruder(t)
  <2>1. UNCHANGED <<pc, child, flannel>>
    BY <1>9 DEF Pass, Heartbeat, AssignAddress, AddWorkloadIP, RemoveWorkloadIP, Signal,
        AssignPodCIDR, Renumber, ChangePeers, TunnelStep, BridgeUp, CannotBind, TunnelStops,
        Teardown, TunnelDies, Intruder, api, session, control
  <2>2. clean' => clean
    BY <1>9, CleanStays DEF Environment
  <2> QED BY <2>1, <2>2 DEF ChildInv
<1> QED
  BY <1>1, <1>2, <1>3, <1>4, <1>5, <1>6, <1>7, <1>8, <1>9 DEF Next, SessionStep, Environment

LEMMA LostStep == ASSUME Types, LostInv, Next PROVE LostInv'
<1> USE DEF Alone, Ending, HasBridge
<1>a. None \notin Tunnels /\ bridges \subseteq Tunnels
  BY TunnelsAssumption DEF Types, HostTypes
<1>1. CASE Join \/ Begin \/ Inspect \/ Terminate \/ TerminateFails \/ Unaddress \/ Reap
           \/ Retry \/ Kill
  <2>1. iface' = None /\ pc' \in Alone
    BY <1>1 DEF Join, Begin, Inspect, Terminate, TerminateFails, Unaddress, Reap, Retry,
        Kill, Return, Goto, Forget, session, LostInv
  <2> QED BY <1>a, <2>1 DEF LostInv
<1>2. CASE Start
  <2>1. iface' = None /\ pc' \in Alone \cup {"wait"}
    BY <1>2 DEF Start, Return, Goto, Forget, LostInv
  <2> QED BY <1>a, <2>1 DEF LostInv
<1>3. CASE WaitForBridge
  <2>1. /\ UNCHANGED <<bridges, proc>>
        /\ \/ pc' = "arps" /\ iface' \in bridges
           \/ pc' = "stop" /\ iface' = None
    BY <1>3 DEF WaitForBridge, Goto, TearDown, Holders, host, LostInv
  <2> QED BY <1>a, <2>1 DEF LostInv
<1>4. CASE InstallARPs \/ InstallRoutes \/ Publish \/ LoadJournal \/ StartKubelet \/ Shutdown
           \/ Drain \/ Unpublish \/ CleanAliases \/ CleanRoutes \/ CleanARPs
  <2>1. UNCHANGED <<iface, bridges, proc>>
    BY <1>4 DEF InstallARPs, InstallRoutes, Publish, LoadJournal, StartKubelet, Shutdown, Drain,
        Unpublish, CleanAliases, CleanRoutes, CleanARPs, host, session
  <2>2. /\ pc \in HasBridge \cup Ending
        /\ pc' \in HasBridge \cup Ending \cup {"stop"}
    BY <1>4 DEF InstallARPs, InstallRoutes, Publish, LoadJournal, StartKubelet, Shutdown, Drain,
        Unpublish, CleanAliases, CleanRoutes, CleanARPs, Goto, TearDown
  <2> QED BY <2>1, <2>2 DEF LostInv
<1>5. CASE StopChild
  BY <1>5 DEF StopChild, Goto, session, Types, HostTypes, LostInv
<1>6. CASE Pass \/ Signal \/ AssignPodCIDR \/ Renumber \/ ChangePeers
  <2>1. UNCHANGED <<pc, iface, bridges, proc>>
    BY <1>6 DEF Pass, Heartbeat, AssignAddress, AddWorkloadIP, RemoveWorkloadIP, Signal,
        AssignPodCIDR, Renumber, ChangePeers, host, session, control
  <2> QED BY <2>1 DEF LostInv
<1>7. ASSUME NEW t \in Tunnels, TunnelStep(t) \/ TunnelDies(t) PROVE LostInv'
  <2>1. UNCHANGED <<pc, iface>>
    BY <1>7 DEF TunnelStep, BridgeUp, CannotBind, TunnelStops, Teardown, TunnelDies, session,
        control
  <2>2. CASE BridgeUp(t)
    BY <2>1, <2>2 DEF BridgeUp, LostInv
  <2>3. CASE Teardown(t)
    BY <2>1, <2>3 DEF Teardown, Live, LostInv
  <2>4. CASE CannotBind(t) \/ TunnelStops(t) \/ TunnelDies(t)
    BY <2>1, <2>4 DEF CannotBind, TunnelStops, TunnelDies, Types, HostTypes, LostInv
  <2> QED BY <1>7, <2>2, <2>3, <2>4 DEF TunnelStep
<1>8. ASSUME NEW t \in Tunnels, Intruder(t) PROVE LostInv'
  BY <1>8, <1>a DEF Intruder, session, control, LostInv
<1> QED
  BY <1>1, <1>2, <1>3, <1>4, <1>5, <1>6, <1>7, <1>8 DEF Next, SessionStep, Environment

LEMMA LostInvAlways == Spec => []LostInv
<1>1. Init => LostInv
  BY TunnelsAssumption DEF Init, LostInv, Alone, HasBridge, Ending
<1>2. LostInv /\ UNCHANGED vars => LostInv'
  BY DEF LostInv, vars, host, session, control
<1> QED BY <1>1, <1>2, TypesAlways, LostStep, PTL DEF Spec

LEMMA HandleTraces ==
  ASSUME NEW h \in Handle
  PROVE  /\ \A A \in SUBSET Offsets : LET g == [h EXCEPT !.aliases = A]
               IN g.routes = h.routes /\ g.arps = h.arps
         /\ \A R \in SUBSET Destinations : LET g == [h EXCEPT !.routes = R]
               IN g.routes = R /\ g.arps = h.arps
         /\ \A m \in Macs \cup {None} : LET g == [h EXCEPT !.mac = m]
               IN g.routes = h.routes /\ g.arps = h.arps
         /\ \A m \in Macs \cup {None}, A \in SUBSET Peers :
               LET g == [h EXCEPT !.mac = m, !.arps = A] IN g.routes = h.routes /\ g.arps = A
  BY DEF Handle

\* Entries are only taken out of the tables.
Fewer == /\ \A t \in Tunnels : \A d \in Destinations : routes'[d] = t => routes[d] = t
         /\ \A t \in Tunnels : \A i \in Peers : arps'[t][i] # None => arps[t][i] # None

LEMMA FewerBlank == ASSUME Fewer, NEW t \in Tunnels, Blank(t) PROVE Blank(t)'
  BY DEF Fewer, Blank

\* Stages in which nothing is claimed of the session's traces
Traceless == Stages \ (HasBridge \cup Ending \cup {"start", "wait"})

LEMMA TrailQuiet ==
  ASSUME Types, LostInv, TrailInv, Fewer, bridges' = bridges,
         \/ pc' \in Traceless
         \/ /\ UNCHANGED iface /\ pc \in HasBridge \cup Ending
            /\ handle'.routes = handle.routes /\ handle'.arps = handle.arps
            /\ \/ pc' = pc
               \/ /\ pc \in (HasARPs \cup Ending) \ {"unarp"}
                  /\ pc' \in (HasARPs \cup Ending) \ {"routes"}
                  /\ pc' \in HasARPs => pc \in HasARPs
  PROVE  TrailInv'
<1>1. \A t \in Tunnels \ bridges' : Blank(t)'
  BY FewerBlank DEF TrailInv
<1>2. CASE pc' \in Traceless
  BY <1>1, <1>2 DEF TrailInv, Traceless, HasARPs, HasBridge, Ending
<1>3. CASE pc' \notin Traceless
  <2>1. iface \in Tunnels /\ iface' = iface
    BY <1>3 DEF LostInv
  <2>2. Blank(iface) => Blank(iface)'
    BY <2>1, FewerBlank DEF Blank
  <2> QED
    BY <1>1, <1>3, <2>1, <2>2 DEF TrailInv, Fewer, HasARPs, HasBridge, Ending
<1> QED BY <1>2, <1>3

LEMMA SameFewer == UNCHANGED <<routes, arps>> => Fewer
  BY DEF Fewer

\* Up to the moment the session waits for its bridge.
LEMMA SetupTrail ==
  ASSUME Types, TrailInv, Inspect \/ Unaddress \/ Start PROVE TrailInv'
<1>1. UNCHANGED <<bridges, routes, arps>>
  BY DEF Inspect, Unaddress, Start, tables
<1>2. pc' \in Alone \cup {"wait"}
  BY DEF Inspect, Unaddress, Start, Return, Goto, Alone
<1>3. SUFFICES pc' \in {"start", "wait"} =>
        \A t \in Holders(handle.cidr, BridgeOffset)' : Blank(t)'
  BY <1>1, <1>2 DEF TrailInv, Blank, HasARPs, HasBridge, Ending, Alone
<1>4. CASE Inspect
  <2> SUFFICES ASSUME pc' = "start"
               PROVE Holders(handle.cidr, BridgeOffset)' = {}
    BY <1>2, <1>4 DEF Inspect, Return, Goto
  <2>1. PICK S \in SUBSET Tunnels : StaleBridges(S) /\ S = {} /\ UNCHANGED handle
    BY <1>4 DEF Inspect, Return, Goto, session
  <2>2. Holders(handle.cidr, BridgeOffset) = {}
    BY <2>1 DEF StaleBridges, Wanted
  <2> QED BY <1>4, <2>1, <2>2 DEF Inspect, Holders
<1>5. CASE Unaddress
  <2> SUFFICES ASSUME pc' = "start"
               PROVE Holders(handle.cidr, BridgeOffset)' = {}
    BY <1>2, <1>5 DEF Unaddress, Return, Goto
  <2>1. /\ UNCHANGED <<cidr, handle>>
        /\ addrs' = [t \in Tunnels |-> IF t \in stale THEN {} ELSE addrs[t]]
        /\ \A t \in bridges \ stale : t \notin Holders(handle.cidr, BridgeOffset)
    BY <1>5 DEF Unaddress, Return, Goto, session
  <2> QED BY <1>1, <2>1 DEF Types, HostTypes, Holders
<1>6. CASE Start
  <2> SUFFICES ASSUME pc' = "wait"
               PROVE \A t \in Holders(handle.cidr, BridgeOffset)' : Blank(t)'
    BY <1>2, <1>6 DEF Start, Return, Goto
  <2>1. PICK t \in Tunnels : New(t) /\ cidr' = [cidr EXCEPT ![t] = handle.cidr]
    BY <1>6 DEF Start, Goto, Return
  <2>2. \A u \in bridges : cidr'[u] = cidr[u]
    BY <2>1 DEF New, Free, Types, HostTypes
  <2>3. pc = "start" /\ UNCHANGED <<addrs, handle>>
    BY <1>6 DEF Start, Goto, Return
  <2> QED BY <1>1, <2>2, <2>3 DEF TrailInv, Holders, Blank
<1> QED BY <1>4, <1>5, <1>6

LEMMA WaitForBridgeTrail == ASSUME Types, TrailInv, WaitForBridge PROVE TrailInv'
<1>1. UNCHANGED <<bridges, routes, arps, handle>> /\ pc = "wait"
  BY DEF WaitForBridge, host, tables
<1>2. \/ pc' = "arps" /\ iface' \in Holders(handle.cidr, BridgeOffset)
      \/ pc' = "stop"
  BY DEF WaitForBridge, Goto, TearDown
<1>3. pc' = "arps" => Blank(iface')
  BY <1>1, <1>2 DEF TrailInv
<1> QED BY <1>1, <1>2, <1>3 DEF TrailInv, Blank, HasARPs, HasBridge, Ending

LEMMA InstallARPsTrail == ASSUME Types, LostInv, TrailInv, InstallARPs PROVE TrailInv'
<1> DEFINE n == Len(handle.known)
<1>1. /\ pc = "arps" /\ UNCHANGED <<iface, bridges, routes>> /\ iface \in Tunnels /\ Blank(iface)
      /\ handle.known \in Seq(Macs) /\ n \in 0..MaxPeers /\ handle \in Handle /\ n # 0
  BY HandleFields DEF InstallARPs, Types, HandleTypes, LostInv, TrailInv, HasBridge
<1>2. CASE pc' = "stop" /\ UNCHANGED arps
  BY <1>1, <1>2 DEF TrailInv, Blank, HasARPs, HasBridge, Ending
<1>3. CASE ~(pc' = "stop" /\ UNCHANGED arps)
  <2>1. PICK k \in 0..n :
          /\ k > 0 => iface \in bridges
          /\ arps' = [arps EXCEPT ![iface] =
               [i \in Peers |-> IF i < k THEN handle.known[i + 1] ELSE @[i]]]
          /\ pc' = "routes" \/ pc' = "unalias"
    BY <1>3 DEF InstallARPs, Goto, TearDown
  <2>2. handle' = [handle EXCEPT !.mac = handle.known[1], !.arps = 0..n-1]
    BY <1>3 DEF InstallARPs, Goto, TearDown
  <2>3. handle.known[1] \in Macs \cup {None} /\ 0..n-1 \in SUBSET Peers
    BY <1>1, NetworkBounds DEF Peers
  <2>4. handle'.routes = handle.routes /\ handle'.arps = 0..n-1
    BY <1>1, <2>2, <2>3, HandleTraces
  <2>5. /\ \A t \in Tunnels \ {iface} : arps'[t] = arps[t]
        /\ \A i \in Peers : arps'[iface][i] # None => i < k
    BY <1>1, <2>1 DEF Types, HostTypes, Blank
  <2>6. \A t \in Tunnels \ bridges' : Blank(t)'
    <3> SUFFICES ASSUME NEW t \in Tunnels \ bridges PROVE Blank(t)'
      BY <1>1
    <3>1. CASE t = iface
      <4>1. \A i \in Peers : arps'[iface][i] = None
        BY <1>1, <2>1, <2>5, <3>1 DEF Peers
      <4> QED BY <1>1, <3>1, <4>1 DEF Blank
    <3>2. CASE t # iface
      BY <1>1, <2>5, <3>2 DEF TrailInv, Blank
    <3> QED BY <3>1, <3>2
  <2>7. \A i \in Peers : arps'[iface][i] # None => i \in handle'.arps
    BY <1>1, <2>1, <2>4, <2>5 DEF Peers
  <2>8. 0 \in handle'.arps /\ \A d \in Destinations : routes'[d] # iface
    BY <1>1, <2>4 DEF Blank
  <2> QED
    BY <1>1, <2>1, <2>6, <2>7, <2>8 DEF TrailInv, HasARPs, HasBridge, Ending
<1> QED BY <1>2, <1>3

LEMMA InstallRoutesTrail == ASSUME Types, LostInv, TrailInv, InstallRoutes PROVE TrailInv'
<1> DEFINE n == Len(handle.known)
<1>1. /\ pc = "routes" /\ UNCHANGED <<iface, bridges, arps>> /\ iface \in Tunnels
      /\ n \in 0..MaxPeers /\ handle \in Handle /\ pc' \in {"publish", "unalias"}
      /\ \A d \in Destinations : routes[d] # iface
  BY DEF InstallRoutes, Goto, TearDown, Types, HandleTypes, LostInv, TrailInv, HasBridge
<1>2. PICK k \in 0..n+1 :
        /\ \A d \in 0..k-1 : Routable(d)
        /\ routes' = [d \in Destinations |->
                        IF d < k /\ routes[d] = None THEN iface ELSE routes[d]]
        /\ handle' = [handle EXCEPT !.routes = 0..k-1]
  BY DEF InstallRoutes
<1>3. 0..k-1 \in SUBSET Destinations
  BY <1>1, <1>2, NetworkBounds DEF Destinations
<1>4. handle'.routes = 0..k-1 /\ handle'.arps = handle.arps
  BY <1>1, <1>2, <1>3, HandleTraces
<1>5. \A d \in Destinations : routes'[d] = iface => d \in 0..k-1
  BY <1>1, <1>2 DEF Destinations
<1>6. ASSUME NEW t \in Tunnels \ bridges, NEW d \in Destinations PROVE routes'[d] # t
  <2>1. CASE t = iface
    <3>1. ~Routable(0)
      BY <1>6, <2>1 DEF Routable
    <3>2. 0 \notin 0..k-1
      BY <1>2, <3>1
    <3>3. 0..k-1 = {}
      BY <1>1, <1>2, <3>2
    <3> QED BY <1>5, <2>1, <3>3
  <2>2. CASE t # iface
    BY <1>2, <1>6, <2>2 DEF TrailInv, Blank
  <2> QED BY <2>1, <2>2
<1>7. \A t \in Tunnels \ bridges' : Blank(t)'
  BY <1>1, <1>6 DEF TrailInv, Blank
<1> QED BY <1>1, <1>4, <1>5, <1>7 DEF TrailInv, HasARPs, HasBridge, Ending

LEMMA HeartbeatTrail == ASSUME Types, LostInv, TrailInv, Heartbeat PROVE TrailInv'
<1>1. /\ pc = "up" /\ UNCHANGED <<pc, iface, bridges, routes>> /\ iface \in Tunnels
      /\ handle \in Handle /\ 0 \in handle.arps
  BY DEF Heartbeat, control, Types, HandleTypes, LostInv, TrailInv, HasARPs, HasBridge
<1>2. CASE UNCHANGED <<arps, handle>>
  BY <1>1, <1>2, TrailQuiet, SameFewer DEF HasARPs, HasBridge, Ending
<1>3. CASE ~ UNCHANGED <<arps, handle>>
  <2>1. PICK done \in BOOLEAN :
          /\ done => iface \in bridges
          /\ arps' = IF done THEN [arps EXCEPT ![iface][0] = peers[1]] ELSE arps
          /\ handle' = [handle EXCEPT !.mac = Remembered(peers[1], done)]
    BY <1>3 DEF Heartbeat
  <2>2. Remembered(peers[1], done) \in Macs \cup {None}
    BY NetworkBounds, HandleFields DEF Types, ApiTypes, HandleTypes, Remembered
  <2>3. handle'.routes = handle.routes /\ handle'.arps = handle.arps
    BY <1>1, <2>1, <2>2, HandleTraces
  <2>4. /\ \A t \in Tunnels \ {iface} : arps'[t] = arps[t]
        /\ iface \notin bridges => arps'[iface] = arps[iface]
        /\ \A i \in Peers \ {0} : arps'[iface][i] = arps[iface][i]
    BY <1>1, <2>1 DEF Types, HostTypes
  <2>5. \A t \in Tunnels \ bridges' : Blank(t)'
    BY <1>1, <2>4 DEF TrailInv, Blank
  <2>6. \A i \in Peers : arps'[iface][i] # None => i \in handle'.arps
    BY <1>1, <2>3, <2>4 DEF TrailInv, HasBridge
  <2> QED
    BY <1>1, <2>3, <2>5, <2>6 DEF TrailInv, HasARPs, HasBridge, Ending
<1> QED BY <1>2, <1>3

LEMMA AliasesTrail ==
  ASSUME Types, LostInv, TrailInv,
         AddWorkloadIP \/ RemoveWorkloadIP \/ Drain \/ CleanAliases
  PROVE  TrailInv'
<1>1. UNCHANGED <<iface, bridges, routes, arps>> /\ Fewer
  BY SameFewer DEF AddWorkloadIP, RemoveWorkloadIP, Drain, CleanAliases, tables
<1>2. handle \in Handle /\ handle.aliases \subseteq Offsets
  BY HandleFields DEF Types, HandleTypes
<1>3. CASE AddWorkloadIP
  <2>1. \E A \in SUBSET Offsets : handle' = [handle EXCEPT !.aliases = A] \/ handle' = handle
    <3>1. PICK a \in assigned, done \in BOOLEAN :
            handle' = IF done THEN [handle EXCEPT !.aliases = @ \cup {a[2]}] ELSE handle
      BY <1>3 DEF AddWorkloadIP
    <3>2. handle.aliases \cup {a[2]} \in SUBSET Offsets
      BY <1>2 DEF Types, ApiTypes
    <3> QED BY <3>1, <3>2
  <2>2. handle'.routes = handle.routes /\ handle'.arps = handle.arps
    <3>1. PICK A \in SUBSET Offsets : handle' = [handle EXCEPT !.aliases = A] \/ handle' = handle
      BY <2>1
    <3>2. CASE handle' = [handle EXCEPT !.aliases = A]
      BY <1>2, <3>2, HandleTraces
    <3> QED BY <3>1, <3>2
  <2>3. pc = "up" /\ pc' = "up"
    BY <1>3 DEF AddWorkloadIP, control
  <2> QED BY <1>1, <2>2, <2>3, TrailQuiet DEF HasBridge
<1>4. CASE RemoveWorkloadIP
  <2>1. \E A \in SUBSET Offsets : handle' = [handle EXCEPT !.aliases = A] \/ handle' = handle
    <3>1. PICK a \in assigned, done \in BOOLEAN :
            \/ handle' = [handle EXCEPT !.aliases = Unaliased(a[2], done)] \/ handle' = handle
      BY <1>4 DEF RemoveWorkloadIP
    <3>2. Unaliased(a[2], done) \in SUBSET Offsets
      BY <1>2 DEF Unaliased
    <3> QED BY <3>1, <3>2
  <2>2. handle'.routes = handle.routes /\ handle'.arps = handle.arps
    <3>1. PICK A \in SUBSET Offsets : handle' = [handle EXCEPT !.aliases = A] \/ handle' = handle
      BY <2>1
    <3>2. CASE handle' = [handle EXCEPT !.aliases = A]
      BY <1>2, <3>2, HandleTraces
    <3> QED BY <3>1, <3>2
  <2>3. pc = "up" /\ pc' = "up"
    BY <1>4 DEF RemoveWorkloadIP, control
  <2> QED BY <1>1, <2>2, <2>3, TrailQuiet DEF HasBridge
<1>5. CASE Drain
  <2>1. PICK kept \in SUBSET handle.aliases : handle' = [handle EXCEPT !.aliases = kept]
    BY <1>5 DEF Drain, RemoveAliases
  <2>2. handle'.routes = handle.routes /\ handle'.arps = handle.arps
    <3>1. kept \in SUBSET Offsets
      BY <1>2
    <3> QED BY <1>2, <2>1, <3>1, HandleTraces
  <2>3. pc = "drain" /\ pc' = "unpublish"
    BY <1>5 DEF Drain, Goto
  <2> QED BY <1>1, <2>2, <2>3, TrailQuiet DEF HasARPs, HasBridge, Ending
<1>6. CASE CleanAliases
  <2>1. pc = "unalias" /\ pc' \in {"unroute", "stop"}
    BY <1>6 DEF CleanAliases, Goto
  <2>2. CASE pc' = "unroute"
    <3>1. PICK kept \in SUBSET handle.aliases : handle' = [handle EXCEPT !.aliases = kept]
      BY <1>6, <2>2 DEF CleanAliases, RemoveAliases, Goto
    <3>2. handle'.routes = handle.routes /\ handle'.arps = handle.arps
      <4>1. kept \in SUBSET Offsets
        BY <1>2
      <4> QED BY <1>2, <3>1, <4>1, HandleTraces
    <3> QED BY <1>1, <2>1, <2>2, <3>2, TrailQuiet DEF HasARPs, HasBridge, Ending
  <2>3. CASE pc' = "stop"
    BY <1>1, <2>3, TrailQuiet DEF Traceless, Stages, Setup, Finish, HasBridge, Ending
  <2> QED BY <2>1, <2>2, <2>3
<1> QED BY <1>3, <1>4, <1>5, <1>6

LEMMA CleanRoutesTrail == ASSUME Types, LostInv, TrailInv, CleanRoutes PROVE TrailInv'
<1>1. /\ pc = "unroute" /\ pc' = "unarp" /\ UNCHANGED <<iface, bridges, arps, handle>>
      /\ iface \in Tunnels
  BY DEF CleanRoutes, Goto, session, LostInv, Ending
<1>2. \A d \in Destinations : routes'[d] = routes[d] \/ routes'[d] = None
  BY DEF CleanRoutes
<1>3. Fewer
  BY <1>1, <1>2, TunnelsAssumption DEF Fewer
<1>4. \A t \in Tunnels \ bridges' : Blank(t)'
  BY <1>1, <1>3, FewerBlank DEF TrailInv
<1> QED BY <1>1, <1>4 DEF TrailInv, HasARPs, HasBridge, Ending

LEMMA CleanARPsTrail == ASSUME Types, LostInv, TrailInv, CleanARPs PROVE TrailInv'
<1>1. /\ pc = "unarp" /\ pc' = "stop" /\ UNCHANGED <<bridges, routes>> /\ iface \in Tunnels
  BY DEF CleanARPs, Goto, LostInv, Ending
<1>2. PICK kept \in SUBSET handle.arps :
        arps' = [arps EXCEPT ![iface] =
          [i \in Peers |-> IF i \in handle.arps \ kept THEN None ELSE @[i]]]
  BY DEF CleanARPs
<1>3. \A t \in Tunnels : \A i \in Peers : arps'[t][i] = arps[t][i] \/ arps'[t][i] = None
  BY <1>1, <1>2 DEF Types, HostTypes
<1>4. Fewer
  BY <1>1, <1>3 DEF Fewer
<1> QED
  BY <1>1, <1>4, TrailQuiet DEF Traceless, Stages, Setup, Finish, HasBridge, Ending

LEMMA TunnelTrail ==
  ASSUME Types, LostInv, TrailInv, NEW t \in Tunnels, TunnelStep(t) \/ TunnelDies(t) \/ Intruder(t)
  PROVE  TrailInv'
<1>1. UNCHANGED <<pc, iface, handle>>
  BY DEF TunnelStep, BridgeUp, CannotBind, TunnelStops, Teardown, TunnelDies, Intruder,
      session, control
<1>2. CASE BridgeUp(t)
  <2>1. /\ UNCHANGED <<cidr, routes, arps>> /\ bridges' = bridges \cup {t} /\ t \notin bridges
        /\ addrs' = [addrs EXCEPT ![t] = {BridgeOffset}]
    BY <1>2 DEF BridgeUp, tables
  <2>2. \A u \in Holders(handle.cidr, BridgeOffset)' :
           u = t \/ u \in Holders(handle.cidr, BridgeOffset)
    BY <1>1, <2>1 DEF Holders, Types, HostTypes
  <2>3. Blank(t)
    BY <2>1 DEF TrailInv
  <2> QED BY <1>1, <2>1, <2>2, <2>3 DEF TrailInv, Blank
<1>3. CASE Teardown(t)
  <2>1. /\ UNCHANGED cidr /\ bridges' = bridges \ {t}
        /\ addrs' = [addrs EXCEPT ![t] = {}]
        /\ routes' = [d \in Destinations |-> IF routes[d] = t THEN None ELSE routes[d]]
        /\ arps' = [arps EXCEPT ![t] = [i \in Peers |-> None]]
    BY <1>3 DEF Teardown
  <2>2. Fewer
    BY <2>1, TunnelsAssumption DEF Fewer, Types, HostTypes
  <2>3. Blank(t)'
    BY <2>1, TunnelsAssumption DEF Blank, Types, HostTypes
  <2>4. \A u \in Tunnels \ bridges' : Blank(u)'
    BY <2>1, <2>2, <2>3, FewerBlank DEF TrailInv
  <2>5. Holders(handle.cidr, BridgeOffset)' \subseteq Holders(handle.cidr, BridgeOffset)
    BY <1>1, <2>1 DEF Holders, Types, HostTypes
  <2>6. pc \in {"start", "wait"} => \A u \in Holders(handle.cidr, BridgeOffset)' : Blank(u)'
    BY <2>2, <2>5, FewerBlank DEF TrailInv, Holders, Types, HostTypes
  <2>7. pc \in HasBridge \cup Ending => iface \in Tunnels
    BY DEF LostInv
  <2>8. Blank(iface) /\ pc = "arps" => Blank(iface)'
    BY <1>1, <2>2, <2>7 DEF Fewer, Blank, HasBridge
  <2> QED
    BY <1>1, <2>2, <2>4, <2>6, <2>7, <2>8 DEF TrailInv, Fewer, HasARPs, HasBridge, Ending
<1>4. CASE CannotBind(t) \/ TunnelStops(t) \/ TunnelDies(t)
  <2>1. UNCHANGED <<cidr, bridges, addrs, routes, arps>>
    BY <1>4 DEF CannotBind, TunnelStops, TunnelDies, tables
  <2> QED BY <1>1, <2>1 DEF TrailInv, Holders, Blank
<1>5. CASE Intruder(t)
  <2>1. \A u \in bridges : cidr'[u] = cidr[u]
    BY <1>5 DEF Intruder, New, Free, Types, HostTypes
  <2>2. UNCHANGED <<bridges, addrs, routes, arps>>
    BY <1>5 DEF Intruder, tables
  <2>3. Holders(handle.cidr, BridgeOffset)' = Holders(handle.cidr, BridgeOffset)
    BY <1>1, <2>1, <2>2 DEF Holders
  <2> QED BY <1>1, <2>2, <2>3 DEF TrailInv, Blank
<1> QED BY <1>2, <1>3, <1>4, <1>5 DEF TunnelStep

LEMMA TrailStep == ASSUME Types, LostInv, TrailInv, Next PROVE TrailInv'
<1>1. CASE Inspect \/ Unaddress \/ Start \/ WaitForBridge
  BY <1>1, SetupTrail, WaitForBridgeTrail
<1>2. CASE InstallARPs \/ InstallRoutes \/ Heartbeat \/ CleanRoutes \/ CleanARPs
  BY <1>2, InstallARPsTrail, InstallRoutesTrail, HeartbeatTrail, CleanRoutesTrail, CleanARPsTrail
<1>3. CASE AddWorkloadIP \/ RemoveWorkloadIP \/ Drain \/ CleanAliases
  BY <1>3, AliasesTrail
<1>4. CASE \E t \in Tunnels : TunnelStep(t) \/ TunnelDies(t) \/ Intruder(t)
  BY <1>4, TunnelTrail
<1>5. CASE Join \/ Begin \/ Terminate \/ TerminateFails \/ StopChild \/ Reap \/ Retry \/ Kill
  <2>1. UNCHANGED <<bridges, routes, arps>>
    BY <1>5 DEF Join, Begin, Terminate, TerminateFails, StopChild, Reap, Retry, Kill, host,
        tables
  <2>2. pc' \in Traceless
    BY <1>5 DEF Join, Begin, Terminate, TerminateFails, StopChild, Reap, Retry, Kill, Return,
        Goto, Traceless, Stages, Setup, Finish, HasBridge, Ending
  <2> QED BY <2>1, <2>2, SameFewer, TrailQuiet
<1>6. CASE Publish \/ LoadJournal \/ StartKubelet \/ Shutdown \/ Unpublish
  <2>1. UNCHANGED <<iface, handle, bridges, routes, arps>>
    BY <1>6 DEF Publish, LoadJournal, StartKubelet, Shutdown, Unpublish, host, tables, session
  <2>2. \/ /\ pc \in {"publish", "journal", "kubelet", "up"}
           /\ pc' \in {"journal", "kubelet", "up", "unalias", "drain"}
        \/ pc = "unpublish" /\ pc' = "unalias"
    BY <1>6 DEF Publish, LoadJournal, StartKubelet, Shutdown, Unpublish, Goto, TearDown
  <2> QED BY <2>1, <2>2, SameFewer, TrailQuiet DEF HasARPs, HasBridge, Ending
<1>7. CASE AssignAddress \/ Signal \/ AssignPodCIDR \/ Renumber \/ ChangePeers
  <2>1. UNCHANGED <<pc, iface, handle, cidr, addrs, bridges, routes, arps>>
    BY <1>7 DEF AssignAddress, Signal, AssignPodCIDR, Renumber, ChangePeers, host, tables,
        session, control
  <2> QED BY <2>1 DEF TrailInv, Holders, Blank
<1> QED
  BY <1>1, <1>2, <1>3, <1>4, <1>5, <1>6, <1>7 DEF Next, SessionStep, Pass, Environment

LEMMA TrailStutter == ASSUME TrailInv, UNCHANGED vars PROVE TrailInv'
  BY DEF TrailInv, Holders, Blank, vars, host, session, control, tables


LEMMA TakenSetup ==
  ASSUME Types, AliasInv, LostInv, TrailInv,
         WaitForBridge \/ InstallARPs \/ InstallRoutes \/ Publish \/ LoadJournal \/ StartKubelet
         \/ Shutdown
  PROVE  TakenInv'
<1>1. UNCHANGED <<bridges, addrs>>
  BY DEF WaitForBridge, InstallARPs, InstallRoutes, Publish, LoadJournal, StartKubelet,
      Shutdown, host
<1>2. CASE WaitForBridge
  <2>1. pc' = "arps" \/ (pc' = "stop" /\ iface' = None)
    BY <1>2 DEF WaitForBridge, Goto, TearDown, LostInv, Alone
  <2>2. None \notin bridges'
    BY <1>1, TunnelsAssumption DEF Types, HostTypes
  <2> QED BY <2>1, <2>2 DEF TakenInv, HasBridge
<1>3. CASE ~WaitForBridge
  <2>1. /\ pc \in HasBridge /\ UNCHANGED iface
        /\ iface \in bridges => addrs[iface] \ {BridgeOffset} = handle.aliases
    BY <1>3 DEF InstallARPs, InstallRoutes, Publish, LoadJournal, StartKubelet, Shutdown,
        session, HasBridge, AliasInv
  <2>2. CASE pc' = "stop"
    <3>1. InstallARPs /\ pc = "arps" /\ UNCHANGED <<arps, routes>>
      BY <1>3, <2>2 DEF InstallARPs, InstallRoutes, Publish, LoadJournal, StartKubelet,
          Shutdown, Goto, TearDown
    <3>2. Blank(iface) /\ handle.aliases = {}
      BY <3>1 DEF TrailInv, AliasInv, BeforeUp, Setup
    <3> QED BY <1>1, <2>1, <2>2, <3>1, <3>2 DEF TakenInv, Blank
  <2>3. CASE pc' # "stop"
    <3>1. pc' \in HasBridge \cup {"drain", "unalias"}
      BY <1>3, <2>3 DEF InstallARPs, InstallRoutes, Publish, LoadJournal, StartKubelet,
          Shutdown, Goto, TearDown, HasBridge
    <3>2. handle'.aliases = handle.aliases
      <4>1. CASE InstallARPs \/ InstallRoutes
        BY <4>1, HandleFields DEF InstallARPs, InstallRoutes, Types, HandleTypes, Handle
      <4> QED
        BY <1>3, <4>1 DEF Publish, LoadJournal, StartKubelet, Shutdown, session
    <3> QED BY <1>1, <2>1, <3>1, <3>2 DEF TakenInv, HasBridge
  <2> QED BY <2>2, <2>3
<1> QED BY <1>2, <1>3

LEMMA TakenAliases ==
  ASSUME Types, LostInv, TakenInv, Drain \/ CleanAliases PROVE TakenInv'
<1>1. /\ UNCHANGED <<iface, bridges, routes, arps>> /\ iface \in Tunnels
      /\ iface \in bridges => addrs[iface] \ {BridgeOffset} = handle.aliases
  BY DEF Drain, CleanAliases, tables, LostInv, TakenInv, Ending
<1>2. handle \in Handle /\ handle.aliases \subseteq Offsets
  BY HandleFields DEF Types, HandleTypes
<1>3. ASSUME NEW kept \in SUBSET handle.aliases, RemoveAliases(kept), iface \in bridges
      PROVE  addrs'[iface] \ {BridgeOffset} = kept /\ handle'.aliases = kept
  <2>1. addrs'[iface] = addrs[iface] \ (handle.aliases \ kept)
    BY <1>1, <1>3 DEF RemoveAliases, Types, HostTypes
  <2>2. handle'.aliases = kept
    BY <1>2, <1>3 DEF RemoveAliases, Handle
  <2> QED BY <1>1, <1>3, <2>1, <2>2
<1>4. CASE Drain
  <2>1. pc' = "unpublish" /\ \E kept \in SUBSET handle.aliases : RemoveAliases(kept)
    BY <1>4 DEF Drain, Goto
  <2> QED BY <1>1, <1>3, <2>1 DEF TakenInv
<1>5. CASE CleanAliases
  <2>1. CASE iface \in bridges
    <3>1. PICK kept \in SUBSET handle.aliases : RemoveAliases(kept) /\ Try("unalias", kept # {})
      BY <1>5, <2>1 DEF CleanAliases
    <3>2. clean' => kept = {}
      BY <3>1 DEF Try
    <3>3. pc' = "unroute"
      BY <1>5, <2>1 DEF CleanAliases, Goto
    <3> QED BY <1>1, <1>3, <2>1, <3>1, <3>2, <3>3 DEF TakenInv
  <2>2. CASE iface \notin bridges
    <3>1. pc' = "stop"
      BY <1>5, <2>2 DEF CleanAliases, Goto
    <3> QED BY <1>1, <2>2, <3>1 DEF TakenInv
  <2> QED BY <2>1, <2>2
<1> QED BY <1>4, <1>5

LEMMA TakenTables ==
  ASSUME Types, LostInv, TrailInv, TakenInv, CleanRoutes \/ CleanARPs PROVE TakenInv'
<1>1. UNCHANGED <<iface, bridges, addrs>> /\ iface \in Tunnels
  BY DEF CleanRoutes, CleanARPs, session, LostInv, Ending
<1>2. clean' => clean
  BY DEF CleanRoutes, CleanARPs, Try
<1>3. CASE CleanRoutes
  <2>1. PICK kept \in SUBSET handle.routes :
          /\ routes' = [d \in Destinations |->
               IF d \in handle.routes \ kept /\ routes[d] = iface THEN None ELSE routes[d]]
          /\ Try("unroute", kept # {})
    BY <1>3 DEF CleanRoutes
  <2>2. pc = "unroute" /\ pc' = "unarp"
    BY <1>3 DEF CleanRoutes, Goto
  <2>3. clean' => kept = {}
    BY <2>1 DEF Try
  <2>4. \A d \in Destinations : routes[d] = iface => d \in handle.routes
    BY <2>2 DEF TrailInv, Ending
  <2>5. clean' => \A d \in Destinations : routes'[d] # iface
    BY <1>1, <2>1, <2>3, <2>4, TunnelsAssumption
  <2> QED BY <1>1, <1>2, <2>2, <2>5 DEF TakenInv
<1>4. CASE CleanARPs
  <2>1. PICK kept \in SUBSET handle.arps :
          /\ arps' = [arps EXCEPT ![iface] =
               [i \in Peers |-> IF i \in handle.arps \ kept THEN None ELSE @[i]]]
          /\ Try("unarp", kept # {})
    BY <1>4 DEF CleanARPs
  <2>2. pc = "unarp" /\ pc' = "stop" /\ UNCHANGED routes
    BY <1>4 DEF CleanARPs, Goto
  <2>3. clean' => kept = {}
    BY <2>1 DEF Try
  <2>4. \A i \in Peers : arps[iface][i] # None => i \in handle.arps
    BY <2>2 DEF TrailInv, Ending
  <2>5. clean' => \A i \in Peers : arps'[iface][i] = None
    BY <1>1, <2>1, <2>3, <2>4 DEF Types, HostTypes
  <2> QED BY <1>1, <1>2, <2>2, <2>5 DEF TakenInv
<1> QED BY <1>3, <1>4

LEMMA TakenTunnel ==
  ASSUME Types, LostInv, TakenInv, NEW t \in Tunnels, TunnelStep(t) \/ TunnelDies(t)
  PROVE  TakenInv'
<1>1. UNCHANGED <<pc, iface, handle>>
  BY DEF TunnelStep, BridgeUp, CannotBind, TunnelStops, Teardown, TunnelDies, session, control
<1>2. clean' => clean
  BY CleanStays DEF Environment
<1>3. CASE BridgeUp(t)
  <2>1. iface # t
    BY <1>3 DEF BridgeUp, LostInv
  <2>2. /\ UNCHANGED <<routes, arps>> /\ bridges' = bridges \cup {t}
        /\ addrs' = [addrs EXCEPT ![t] = {BridgeOffset}]
    BY <1>3 DEF BridgeUp, tables
  <2>3. iface \in bridges => addrs'[iface] = addrs[iface]
    BY <2>1, <2>2 DEF Types, HostTypes
  <2> QED BY <1>1, <1>2, <2>1, <2>2, <2>3 DEF TakenInv
<1>4. CASE Teardown(t)
  <2>1. /\ bridges' = bridges \ {t}
        /\ addrs' = [addrs EXCEPT ![t] = {}]
        /\ routes' = [d \in Destinations |-> IF routes[d] = t THEN None ELSE routes[d]]
        /\ arps' = [arps EXCEPT ![t] = [i \in Peers |-> None]]
    BY <1>4 DEF Teardown
  <2>2. iface \in bridges' => addrs'[iface] = addrs[iface] /\ arps'[iface] = arps[iface]
    BY <2>1 DEF Types, HostTypes
  <2>3. iface \in bridges' => \A d \in Destinations : routes[d] # iface => routes'[d] # iface
    BY <2>1, TunnelsAssumption DEF Types, HostTypes
  <2> QED BY <1>1, <1>2, <2>1, <2>2, <2>3 DEF TakenInv
<1>5. CASE CannotBind(t) \/ TunnelStops(t) \/ TunnelDies(t)
  <2>1. UNCHANGED <<bridges, addrs, routes, arps>>
    BY <1>5 DEF CannotBind, TunnelStops, TunnelDies, tables
  <2> QED BY <1>1, <1>2, <2>1 DEF TakenInv
<1> QED BY <1>3, <1>4, <1>5 DEF TunnelStep

LEMMA TakenStep ==
  ASSUME Types, AliasInv, LostInv, TrailInv, TakenInv, Next PROVE TakenInv'
<1>1. CASE WaitForBridge \/ InstallARPs \/ InstallRoutes \/ Publish \/ LoadJournal
           \/ StartKubelet \/ Shutdown
  BY <1>1, TakenSetup
<1>2. CASE Drain \/ CleanAliases \/ CleanRoutes \/ CleanARPs
  BY <1>2, TakenAliases, TakenTables
<1>3. CASE \E t \in Tunnels : TunnelStep(t) \/ TunnelDies(t)
  BY <1>3, TakenTunnel
<1>4. CASE Unpublish
  <2>1. UNCHANGED <<iface, handle, bridges, addrs, routes, arps>>
    BY <1>4 DEF Unpublish, host, tables, session
  <2>2. pc = "unpublish" /\ pc' = "unalias"
    BY <1>4 DEF Unpublish, Goto
  <2> QED BY <2>1, <2>2 DEF TakenInv
<1>5. CASE Join \/ Begin \/ Inspect \/ Terminate \/ TerminateFails \/ Unaddress \/ Start
           \/ StopChild \/ Reap \/ Retry \/ Kill
  BY <1>5 DEF Join, Begin, Inspect, Terminate, TerminateFails, Unaddress, Start, StopChild,
      Reap, Retry, Kill, Return, Goto, TakenInv
<1>6. CASE Pass \/ \E t \in Tunnels : Intruder(t)
  <2>1. pc \in {"up", "start"} /\ pc' = pc
    BY <1>6 DEF Pass, Heartbeat, AssignAddress, AddWorkloadIP, RemoveWorkloadIP, Intruder, control
  <2> QED BY <2>1 DEF TakenInv
<1>7. CASE Signal \/ AssignPodCIDR \/ Renumber \/ ChangePeers
  <2>1. UNCHANGED <<pc, clean, iface, handle, bridges, addrs, routes, arps>>
    BY <1>7 DEF Signal, AssignPodCIDR, Renumber, ChangePeers, NoFault, host, tables, session,
        control
  <2> QED BY <2>1 DEF TakenInv
<1> QED
  BY <1>1, <1>2, <1>3, <1>4, <1>5, <1>6, <1>7 DEF Next, SessionStep, Environment

LEMMA LeftStutter ==
  ASSUME ChildInv, TakenInv, UNCHANGED vars PROVE ChildInv' /\ TakenInv'
  BY DEF ChildInv, TakenInv, vars, api, host, session, control, tables

\* "Clean shutdown removes the annotations, per-peer routes, ARP entries, and aliases before
\* stopping the child": a session in which no command failed, however it was ended, in
\* set-up or while it served, has left nothing when it stops its tunnel.
THEOREM NothingEverLeft == Spec => []NothingLeft
<1>1. Init => ChildInv /\ TrailInv /\ TakenInv
  <2>1. Init => ChildInv /\ TakenInv
    BY TunnelsAssumption DEF Init, ChildInv, TakenInv, Alone, HasBridge, Ending
  <2>2. Init => TrailInv
    BY TunnelsAssumption DEF Init, TrailInv, Blank, HasARPs, HasBridge, Ending
  <2> QED BY <2>1, <2>2
<1>2. ChildInv /\ TakenInv => NothingLeft
  BY DEF ChildInv, TakenInv, NothingLeft
<1> QED
  BY <1>1, <1>2, TypesAlways, AliasInvAlways, LostInvAlways, ChildStep, TrailStep,
     TrailStutter, TakenStep, LeftStutter, PTL DEF Spec

-----------------------------------------------------------------------------
\* One interface for an address

\* A tunnel that has yet to make its bridge finds no other bridge with the address: one is
\* started only when no process of this identity is left and nothing holds the address.
HolderInv ==
  /\ pc \in {"unaddress", "start"} => Matching = {}
  /\ pc = "start" => Holders(handle.cidr, BridgeOffset) = {}
  /\ \A t \in Tunnels \ Others :
       proc[t] = "running" /\ t \notin bridges => Holders(cidr[t], BridgeOffset) = {}
  /\ pc \in HasBridge /\ iface \in bridges => cidr[iface] = handle.cidr
  /\ OneHolder

\* Addresses are only taken from bridges, and no tunnel begins to run.
FewerAddresses ==
  /\ UNCHANGED cidr /\ bridges' \subseteq bridges
  /\ \A t \in bridges' : addrs'[t] \subseteq addrs[t]
  /\ \A t \in Tunnels : proc'[t] = proc[t] \/ proc'[t] # "running"
  /\ \A t \in Tunnels : proc[t] = "gone" => proc'[t] = "gone"
  /\ \A t \in bridges \ bridges' : proc[t] # "running"

\* Steps that only take addresses, and do not go on to the start or to a bridge.
LEMMA HolderQuiet ==
  ASSUME HolderInv, FewerAddresses,
         \/ UNCHANGED <<pc, iface>> /\ handle'.cidr = handle.cidr
         \/ pc \in HasBridge /\ pc' \in HasBridge /\ UNCHANGED iface /\ handle'.cidr = handle.cidr
         \/ pc' \notin HasBridge \cup {"unaddress", "start"}
  PROVE  HolderInv'
<1>1. \A t \in Tunnels : Live(t)' => Live(t)
  BY DEF FewerAddresses, Live
<1>2. Matching' \subseteq Matching
  BY <1>1 DEF Matching
<1>3. \A t \in Tunnels \ Others :
        proc'[t] = "running" /\ t \notin bridges' => Holders(cidr[t], BridgeOffset)' = {}
  <2> SUFFICES ASSUME NEW t \in Tunnels \ Others, proc'[t] = "running", t \notin bridges'
               PROVE  Holders(cidr[t], BridgeOffset)' = {}
    OBVIOUS
  <2>1. proc[t] = "running" /\ t \notin bridges
    BY DEF FewerAddresses
  <2>2. Holders(cidr[t], BridgeOffset) = {}
    BY <2>1 DEF HolderInv
  <2> QED BY <2>2 DEF FewerAddresses, Holders
<1>4. OneHolder'
  BY DEF HolderInv, OneHolder, FewerAddresses
<1>5. pc' = "start" => Holders(handle.cidr, BridgeOffset)' = {}
  <2> SUFFICES ASSUME pc' = "start" PROVE Holders(handle.cidr, BridgeOffset)' = {}
    OBVIOUS
  <2>1. pc = "start" /\ handle'.cidr = handle.cidr
    BY DEF HasBridge
  <2>2. Holders(handle.cidr, BridgeOffset) = {}
    BY <2>1 DEF HolderInv
  <2> QED BY <2>1, <2>2 DEF Holders, FewerAddresses
<1>6. pc' \in HasBridge /\ iface' \in bridges' => cidr'[iface'] = handle'.cidr
  BY DEF HolderInv, FewerAddresses, HasBridge
<1>7. pc' \in {"unaddress", "start"} => Matching' = {}
  BY <1>2 DEF HolderInv, HasBridge
<1>8. cidr' = cidr
  BY DEF FewerAddresses
<1> QED
  BY <1>3, <1>4, <1>5, <1>6, <1>7, <1>8 DEF HolderInv

LEMMA InspectHolders == ASSUME Types, HolderInv, Inspect PROVE HolderInv'
<1>1. FewerAddresses
  BY DEF Inspect, FewerAddresses, Matching, Live, Types, HostTypes
<1>2. CASE pc' = "start"
  <2>1. PICK S \in SUBSET Tunnels : StaleBridges(S) /\ S = {} /\ Matching = {}
    BY <1>2 DEF Inspect, Return, Goto
  <2>2. UNCHANGED <<proc, cidr, bridges, addrs, handle>>
    BY <1>2 DEF Inspect, Return, Goto, session
  <2>3. Holders(handle.cidr, BridgeOffset) = {}
    BY <2>1 DEF StaleBridges, Wanted
  <2> QED
    BY <1>2, <2>1, <2>2, <2>3 DEF HolderInv, OneHolder, Holders, Matching, Live, HasBridge
<1>3. CASE pc' # "start"
  <2>1. pc' \notin HasBridge \cup {"unaddress", "start"}
    BY <1>3 DEF Inspect, Return, Goto, HasBridge
  <2> QED BY <1>1, <2>1, HolderQuiet
<1> QED BY <1>2, <1>3

LEMMA UnaddressHolders == ASSUME Types, HolderInv, Unaddress PROVE HolderInv'
<1>1. UNCHANGED <<proc, cidr, bridges>> /\ pc = "unaddress"
  BY DEF Unaddress
<1>2. \A t \in bridges : addrs'[t] \subseteq addrs[t]
  BY DEF Unaddress, Types, HostTypes
<1>3. FewerAddresses
  BY <1>1, <1>2 DEF FewerAddresses
<1>4. CASE pc' = "start"
  <2>1. /\ UNCHANGED handle
        /\ addrs' = [t \in Tunnels |-> IF t \in stale THEN {} ELSE addrs[t]]
        /\ \A t \in bridges \ stale : t \notin Holders(handle.cidr, BridgeOffset)
    BY <1>4 DEF Unaddress, Return, Goto, session
  <2>2. Holders(handle.cidr, BridgeOffset)' = {}
    BY <1>1, <2>1 DEF Types, HostTypes, Holders
  <2>3. \A c : Holders(c, BridgeOffset) = {} =>
          {u \in bridges' : cidr'[u] = c /\ BridgeOffset \in addrs'[u]} = {}
    BY <1>1, <1>2 DEF Holders
  <2>4. \A t \in Tunnels \ Others :
          proc'[t] = "running" /\ t \notin bridges' => Holders(cidr[t], BridgeOffset)' = {}
    BY <1>1, <2>3 DEF HolderInv, Holders
  <2>5. OneHolder'
    BY <1>1, <1>2 DEF HolderInv, OneHolder
  <2> QED
    BY <1>1, <1>4, <2>2, <2>4, <2>5 DEF HolderInv, Matching, Live, HasBridge
<1>5. CASE pc' # "start"
  <2>1. pc' \notin HasBridge \cup {"unaddress", "start"}
    BY <1>5 DEF Unaddress, Return, Goto, HasBridge
  <2> QED BY <1>3, <2>1, HolderQuiet
<1> QED BY <1>4, <1>5

LEMMA StartHolders == ASSUME Types, HolderInv, Start PROVE HolderInv'
<1>1. UNCHANGED <<bridges, addrs>> /\ pc = "start"
  BY DEF Start
<1>2. CASE pc' = "wait"
  <2>1. PICK t \in Tunnels : /\ New(t)
                             /\ proc' = [proc EXCEPT ![t] = "running"]
                             /\ cidr' = [cidr EXCEPT ![t] = handle.cidr]
    BY <1>2 DEF Start, Goto, Return
  <2>2. t \notin bridges /\ bridges \subseteq Tunnels
    BY <2>1 DEF New, Free, Types, HostTypes
  <2>3. \A u \in bridges : cidr'[u] = cidr[u]
    BY <2>1, <2>2 DEF Types, HostTypes
  <2>4. \A c : {u \in bridges' : cidr'[u] = c /\ BridgeOffset \in addrs'[u]}
                 = Holders(c, BridgeOffset)
    BY <1>1, <2>3 DEF Holders
  <2>5. Holders(handle.cidr, BridgeOffset) = {} /\ Matching = {}
    BY <1>1 DEF HolderInv
  <2>6. \A u \in Tunnels \ Others : proc'[u] = "running" => u = t
    BY <2>1, <2>5 DEF Matching, Live, Types, HostTypes
  <2>7. cidr'[t] = handle.cidr
    BY <2>1 DEF Types, HostTypes
  <2>8. \A u \in Tunnels \ Others :
          proc'[u] = "running" /\ u \notin bridges' => Holders(cidr[u], BridgeOffset)' = {}
    BY <2>4, <2>5, <2>6, <2>7 DEF Holders
  <2>9. OneHolder'
    BY <1>1, <2>3 DEF HolderInv, OneHolder
  <2> QED BY <1>2, <2>8, <2>9 DEF HolderInv, HasBridge
<1>3. CASE pc' # "wait"
  <2>1. UNCHANGED <<proc, cidr>> /\ pc' \notin HasBridge \cup {"unaddress", "start"}
    BY <1>3 DEF Start, Return, Goto, HasBridge
  <2>2. FewerAddresses
    BY <1>1, <2>1 DEF FewerAddresses
  <2> QED BY <2>1, <2>2, HolderQuiet
<1> QED BY <1>2, <1>3

LEMMA FoundHolders ==
  ASSUME HolderInv, Terminate \/ WaitForBridge PROVE HolderInv'
<1>1. UNCHANGED <<proc, cidr, bridges, addrs, handle>>
  BY DEF Terminate, WaitForBridge, host, session
<1>2. \/ pc' = "unaddress" /\ Matching = {}
      \/ pc' = "arps" /\ iface' \in Holders(handle.cidr, BridgeOffset)
      \/ pc' = "stop"
  BY DEF Terminate, WaitForBridge, Goto, TearDown
<1>3. iface' \in Holders(handle.cidr, BridgeOffset) => cidr[iface'] = handle.cidr
  BY DEF Holders
<1>4. Matching' = Matching
  BY <1>1 DEF Matching, Live
<1> QED
  BY <1>1, <1>2, <1>3, <1>4 DEF HolderInv, OneHolder, Holders, HasBridge

LEMMA AddWorkloadIPHolders ==
  ASSUME Types, LostInv, HolderInv, AddWorkloadIP PROVE HolderInv'
<1>1. /\ pc = "up" /\ UNCHANGED <<pc, iface, proc, cidr, bridges>>
      /\ iface \in Tunnels /\ iface \in bridges /\ handle \in Handle
  BY DEF AddWorkloadIP, control, LostInv, HasBridge, Types, HandleTypes
<1>2. PICK a \in assigned, done \in BOOLEAN :
        /\ ~Refused(a[2], Len(handle.known)) /\ Elsewhere(a[2]) = {}
        /\ addrs' = IF done THEN [addrs EXCEPT ![iface] = @ \cup {a[2]}] ELSE addrs
        /\ handle' = IF done THEN [handle EXCEPT !.aliases = @ \cup {a[2]}] ELSE handle
  BY DEF AddWorkloadIP
<1>3. a[2] # BridgeOffset
  BY <1>2 DEF Refused, Reserved
<1>4. handle'.cidr = handle.cidr
  BY <1>1, <1>2 DEF Handle
<1>5. cidr[iface] = handle.cidr
  BY <1>1 DEF HolderInv, HasBridge
<1>6. \A t \in bridges \ {iface} : addrs'[t] = addrs[t]
                                  /\ (cidr[t] = cidr[iface] => a[2] \notin addrs[t])
  BY <1>1, <1>2, <1>5 DEF Elsewhere, Holders, Types, HostTypes
<1>7. /\ addrs[iface] \subseteq addrs'[iface]
      /\ addrs'[iface] \subseteq addrs[iface] \cup {a[2]}
  BY <1>1, <1>2 DEF Types, HostTypes
<1>8. \A t \in bridges : BridgeOffset \in addrs'[t] <=> BridgeOffset \in addrs[t]
  BY <1>3, <1>6, <1>7
<1>9. OneHolder'
  <2> SUFFICES ASSUME NEW t \in bridges, NEW u \in bridges, t # u, cidr[t] = cidr[u],
                      cidr[t] \in CIDRs
               PROVE  addrs'[t] \cap addrs'[u] = {}
    BY <1>1 DEF OneHolder
  <2>1. addrs[t] \cap addrs[u] = {}
    BY DEF HolderInv, OneHolder
  <2>2. CASE t = iface
    BY <1>6, <1>7, <2>1, <2>2
  <2>3. CASE u = iface
    BY <1>6, <1>7, <2>1, <2>3
  <2>4. CASE t # iface /\ u # iface
    BY <1>6, <2>1, <2>4
  <2> QED BY <2>2, <2>3, <2>4
<1> QED
  BY <1>1, <1>4, <1>8, <1>9 DEF HolderInv, Holders, Matching, Live

LEMMA TunnelHolders ==
  ASSUME Types, LostInv, HolderInv, NEW t \in Tunnels, TunnelStep(t) \/ TunnelDies(t)
  PROVE  HolderInv'
<1>1. UNCHANGED <<pc, iface, handle, cidr>>
  BY DEF TunnelStep, BridgeUp, CannotBind, TunnelStops, Teardown, TunnelDies, session, control
<1>2. CASE BridgeUp(t)
  <2>1. /\ UNCHANGED proc /\ proc[t] = "running" /\ t \notin bridges /\ Matching = {t}
        /\ bridges' = bridges \cup {t} /\ addrs' = [addrs EXCEPT ![t] = {BridgeOffset}]
    BY <1>2 DEF BridgeUp
  <2>2. t \in Tunnels \ Others /\ Matching # {}
    BY <2>1 DEF Matching
  <2>3. Holders(cidr[t], BridgeOffset) = {}
    BY <2>1, <2>2 DEF HolderInv
  <2>4. /\ addrs'[t] = {BridgeOffset} /\ bridges \subseteq Tunnels
        /\ \A u \in bridges : addrs'[u] = addrs[u]
    BY <2>1 DEF Types, HostTypes
  <2>5. OneHolder'
    BY <1>1, <2>1, <2>3, <2>4 DEF HolderInv, OneHolder, Holders
  <2>6. pc \notin {"unaddress", "start"}
    BY <2>2 DEF HolderInv
  <2>7. \A u \in Tunnels \ Others : proc[u] = "running" => u = t
    BY <2>1 DEF Matching, Live
  <2>8. pc \in HasBridge => iface # t
    BY <2>1 DEF LostInv
  <2> QED BY <1>1, <2>1, <2>5, <2>6, <2>7, <2>8 DEF HolderInv
<1>3. CASE ~BridgeUp(t)
  <2>1. FewerAddresses
    BY <1>3 DEF TunnelStep, CannotBind, TunnelStops, Teardown, TunnelDies, Live, FewerAddresses,
        Types, HostTypes
  <2> QED BY <1>1, <2>1, HolderQuiet
<1> QED BY <1>2, <1>3

LEMMA TakeDownHolders ==
  ASSUME Types, HolderInv, RemoveWorkloadIP \/ Drain \/ CleanAliases PROVE HolderInv'
<1>1. UNCHANGED <<proc, cidr, bridges, iface>>
  BY DEF RemoveWorkloadIP, Drain, CleanAliases
<1>2. \A t \in Tunnels : addrs'[t] \subseteq addrs[t]
  BY DEF RemoveWorkloadIP, Drain, CleanAliases, RemoveAliases, Types, HostTypes
<1>3. FewerAddresses
  BY <1>1, <1>2 DEF FewerAddresses, Types, HostTypes
<1>4. CASE RemoveWorkloadIP
  <2>1. handle \in Handle /\ UNCHANGED pc
    BY <1>4 DEF RemoveWorkloadIP, control, Types, HandleTypes
  <2>2. handle'.cidr = handle.cidr
    BY <1>4, <2>1 DEF RemoveWorkloadIP, Handle
  <2> QED BY <1>1, <1>3, <2>1, <2>2, HolderQuiet
<1>5. CASE Drain \/ CleanAliases
  <2>1. pc' \notin HasBridge \cup {"unaddress", "start"}
    BY <1>5 DEF Drain, CleanAliases, Goto, HasBridge
  <2> QED BY <1>3, <2>1, HolderQuiet
<1> QED BY <1>4, <1>5

LEMMA HolderStep ==
  ASSUME Types, LostInv, HolderInv, Next, ~ \E t \in Tunnels : Intruder(t)
  PROVE  HolderInv'
<1>1. CASE Inspect \/ Unaddress \/ Start \/ Terminate \/ WaitForBridge \/ AddWorkloadIP
  BY <1>1, InspectHolders, UnaddressHolders, StartHolders, FoundHolders, AddWorkloadIPHolders
<1>2. CASE RemoveWorkloadIP \/ Drain \/ CleanAliases
  BY <1>2, TakeDownHolders
<1>3. CASE \E t \in Tunnels : TunnelStep(t) \/ TunnelDies(t)
  BY <1>3, TunnelHolders
<1>4. CASE InstallARPs \/ InstallRoutes \/ Heartbeat
  <2>1. UNCHANGED <<proc, cidr, bridges, addrs, iface>> /\ pc \in HasBridge
    BY <1>4 DEF InstallARPs, InstallRoutes, Heartbeat, HasBridge
  <2>2. handle'.cidr = handle.cidr
    BY <1>4, HandleFields
    DEF InstallARPs, InstallRoutes, Heartbeat, Types, HandleTypes, Handle
  <2>3. pc' \in HasBridge \/ pc' \notin HasBridge \cup {"unaddress", "start"}
    BY <1>4 DEF InstallARPs, InstallRoutes, Heartbeat, Goto, TearDown, control, HasBridge
  <2>4. FewerAddresses
    BY <2>1 DEF FewerAddresses
  <2> QED BY <2>1, <2>2, <2>3, <2>4, HolderQuiet
<1>5. CASE Publish \/ LoadJournal \/ StartKubelet
  <2>1. UNCHANGED <<proc, cidr, bridges, addrs, iface, handle>> /\ pc \in HasBridge
    BY <1>5 DEF Publish, LoadJournal, StartKubelet, host, session, HasBridge
  <2>2. pc' \in HasBridge \/ pc' \notin HasBridge \cup {"unaddress", "start"}
    BY <1>5 DEF Publish, LoadJournal, StartKubelet, Goto, TearDown, HasBridge
  <2>3. FewerAddresses
    BY <2>1 DEF FewerAddresses
  <2> QED BY <2>1, <2>2, <2>3, HolderQuiet
<1>6. CASE AssignAddress \/ Signal \/ AssignPodCIDR \/ Renumber \/ ChangePeers
  <2>1. UNCHANGED <<proc, cidr, bridges, addrs, pc, iface, handle>>
    BY <1>6 DEF AssignAddress, Signal, AssignPodCIDR, Renumber, ChangePeers, host, session,
        control
  <2>2. FewerAddresses
    BY <2>1 DEF FewerAddresses
  <2> QED BY <2>1, <2>2, HolderQuiet
<1>7. CASE Join \/ Begin \/ TerminateFails \/ Shutdown \/ Unpublish \/ CleanRoutes
           \/ CleanARPs \/ StopChild \/ Reap \/ Retry \/ Kill
  <2>1. UNCHANGED <<cidr, bridges, addrs>>
    BY <1>7 DEF Join, Begin, TerminateFails, Shutdown, Unpublish, CleanRoutes, CleanARPs,
        StopChild, Reap, Retry, Kill, host
  <2>2. \A t \in Tunnels : \/ proc'[t] = proc[t] \/ proc'[t] = "gone"
                           \/ proc[t] # "gone" /\ proc'[t] = "stopping"
    BY <1>7 DEF Join, Begin, TerminateFails, Shutdown, Unpublish, CleanRoutes, CleanARPs,
        StopChild, Reap, Retry, Kill, host, Live, Types, HostTypes
  <2>3. FewerAddresses
    BY <2>1, <2>2 DEF FewerAddresses
  <2>4. pc' \notin HasBridge \cup {"unaddress", "start"}
    BY <1>7 DEF Join, Begin, TerminateFails, Shutdown, Unpublish, CleanRoutes, CleanARPs,
        StopChild, Reap, Retry, Kill, Return, Goto, TearDown, HasBridge
  <2> QED BY <2>3, <2>4, HolderQuiet
<1> QED
  BY <1>1, <1>2, <1>3, <1>4, <1>5, <1>6, <1>7 DEF Next, SessionStep, Pass, Environment

LEMMA HolderStutter == ASSUME HolderInv, UNCHANGED vars PROVE HolderInv'
  BY DEF HolderInv, OneHolder, Holders, Matching, Live, vars, host, session, control

\* No process of this identity appears in the window before the start.
Undisturbed == [][~ \E t \in Tunnels : Intruder(t)]_vars

\* However many kills, dying tunnels and changes of the PodCIDR there are, an address of a
\* PodCIDR is on one interface at most, as long as no process of this Node's identity
\* appears between recovery's last look and the start of the child; nothing in the code
\* excludes that.
THEOREM AlwaysOneHolder == Spec /\ Undisturbed => []OneHolder
<1>1. ASSUME Init PROVE HolderInv
  <2>1. pc = "down" /\ bridges = Others /\ \A t \in Tunnels \ Others : proc[t] = "gone"
    BY <1>1 DEF Init
  <2>2. \A t \in bridges : cidr[t] \notin CIDRs
    BY <1>1, TunnelsAssumption, CIDRsAssumption DEF Init
  <2> QED BY <2>1, <2>2 DEF HolderInv, OneHolder, HasBridge
<1>2. HolderInv => OneHolder
  BY DEF HolderInv
<1>3. ASSUME Types, LostInv, HolderInv, [Next]_vars, [~ \E t \in Tunnels : Intruder(t)]_vars
      PROVE  HolderInv'
  BY <1>3, HolderStep, HolderStutter
<1> QED BY <1>1, <1>2, <1>3, TypesAlways, LostInvAlways, PTL DEF Spec, Undisturbed
=============================================================================
