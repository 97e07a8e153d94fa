---------------------------- MODULE MacNetwork -----------------------------
(***************************************************************************)
(* The network of the Mac under the sessions of `maclet join`: the         *)
(* darwin-vxlan child and its vmnet bridge, the routes and ARP entries of  *)
(* the Flannel peers, the Pods' addresses on the bridge and the Flannel    *)
(* annotations of the Node.  A session recovers what an earlier one left,  *)
(* builds its network, keeps it and takes it down; any command may fail,   *)
(* the daemon may be killed at any step, tunnels die, PodCIDR and peers    *)
(* change.                                                                 *)
(*                                                                         *)
(* A tunnel is a darwin-vxlan process together with the bridge it makes;   *)
(* its number stands for the process ID, the interface and the MAC of the  *)
(* interface, and is used again when nothing is left of it.                *)
(*                                                                         *)
(* Left out: the other steps of a session (NodeOwnership, HostDNS,         *)
(* WorkloadManager) except where they end it, and the length of waits.     *)
(***************************************************************************)
EXTENDS PodAddresses, Sequences, FiniteSets

CONSTANTS
  Tunnels,      \* numbers of tunnels
  Others,       \* those of other identities: somebody else's tunnels
  OtherCIDR,    \* the CIDR their bridges carry
  CIDRs,        \* PodCIDRs the Node may be given
  Macs,         \* VTEP MACs of the peers
  MaxPeers,     \* bound: Flannel peers
  MaxPods,      \* bound: Pods with an address
  FaultKinds,   \* commands and requests that may fail
  MaxFaults,    \* bound: failures of a command or a request
  MaxStops,     \* bound: kills and signals
  MaxEvents     \* bound: deaths of tunnels, changes of peers and PodCIDR, intruders

None == 0       \* no tunnel, no PodCIDR, no MAC

ASSUME TunnelsAssumption == Tunnels \subseteq Nat \ {None} /\ Others \subseteq Tunnels
ASSUME CIDRsAssumption == None \notin CIDRs /\ OtherCIDR \notin CIDRs /\ OtherCIDR # None
ASSUME MacsAssumption == None \notin Macs
ASSUME NetworkBounds ==
  /\ MaxPeers \in Nat \ {0} /\ MaxPods \in Nat /\ MaxFaults \in Nat
  /\ MaxStops \in Nat /\ MaxEvents \in Nat

VARIABLES
  podCIDR,      \* API: spec.podCIDR of the Node
  peers,        \* API: VTEP MACs of the Flannel peers, the remote first
  flannel,      \* API: the tunnel whose MAC the Node's annotations publish
  assigned,     \* API: addresses of Pods, <<PodCIDR, offset>>
  proc,         \* host: state of each darwin-vxlan process
  cidr,         \* host: the CIDR of its command line
  bridges,      \* host: tunnels whose bridge interface exists
  addrs,        \* host: offsets configured on each bridge
  routes,       \* host: the bridge each destination is routed through
  arps,         \* host: the MAC each bridge has for a gateway
  pc,           \* stage of the daemon
  cancelled,    \* whether SIGINT or SIGTERM has arrived
  outcome,      \* what the session will return
  child,        \* session: the darwin-vxlan process it started
  iface,        \* session: the bridge it found (DarwinNetworkHandle.Interface)
  handle,       \* session: the rest of the handle
  stale,        \* session: bridges whose addresses recovery removes
  retried,      \* session: whether the start of the child has failed once
  clean,        \* history: no command of this session failed and its tunnel lives
  faults, stops, events

api     == <<podCIDR, peers, flannel, assigned>>
tables  == <<routes, arps>>
host    == <<proc, cidr, bridges, addrs, tables>>
session == <<child, iface, handle, stale, retried>>
control == <<pc, cancelled, outcome>>
vars    == <<api, host, session, control, clean, faults, stops, events>>

-----------------------------------------------------------------------------
\* Types

Peers   == 0..MaxPeers-1
\* Destination 0 stands for the ClusterCIDR and the ServiceCIDR, i for the i-th peer's
\* PodCIDR.
Destinations == 0..MaxPeers
Setup  == {"begin", "inspect", "terminate", "unaddress", "start", "wait", "arps", "routes",
           "publish", "journal", "kubelet"}
Finish == {"drain", "unpublish", "unalias", "unroute", "unarp", "stop", "reap"}
Stages == Setup \cup Finish \cup {"down", "up", "retry"}

Handle   == [cidr : CIDRs \cup {None}, known : Seq(Macs), mac : Macs \cup {None},
             aliases : SUBSET Offsets, routes : SUBSET Destinations, arps : SUBSET Peers]
NoHandle == [cidr |-> None, known |-> <<>>, mac |-> None,
             aliases |-> {}, routes |-> {}, arps |-> {}]

NetTypeOK ==
  /\ podCIDR \in CIDRs \cup {None} /\ peers \in Seq(Macs) /\ Len(peers) \in 1..MaxPeers
  /\ flannel \in Tunnels \cup {None} /\ assigned \subseteq CIDRs \X Offsets
  /\ proc \in [Tunnels -> {"gone", "running", "stopping"}]
  /\ cidr \in [Tunnels -> CIDRs \cup {OtherCIDR, None}]
  /\ bridges \subseteq Tunnels
  /\ addrs \in [Tunnels -> SUBSET Offsets]
  /\ routes \in [Destinations -> Tunnels \cup {None}]
  /\ arps \in [Tunnels -> [Peers -> Macs \cup {None}]]
  /\ pc \in Stages /\ cancelled \in BOOLEAN /\ outcome \in {"ok", "retry", "fatal"}
  /\ child \in Tunnels \cup {None} /\ iface \in Tunnels \cup {None}
  /\ handle \in Handle /\ Len(handle.known) \in 0..MaxPeers
  /\ stale \subseteq Tunnels /\ retried \in BOOLEAN /\ clean \in BOOLEAN
  /\ faults \in Nat /\ stops \in Nat /\ events \in Nat

-----------------------------------------------------------------------------
\* Faults, and how a session ends

\* A step in which something of this kind may fail; fails says whether it does.
Try(kind, fails) ==
  /\ fails => kind \in FaultKinds /\ faults < MaxFaults
  /\ faults' = IF fails THEN faults + 1 ELSE faults
  /\ clean' = (clean /\ ~fails)

NoFault == UNCHANGED <<faults, clean>>

Goto(s) == pc' = s /\ UNCHANGED <<cancelled, outcome>>

Forget == /\ child' = None /\ iface' = None /\ handle' = NoHandle
          /\ stale' = {} /\ retried' = FALSE

\* The session returns o to superviseJoin: a retryable error waits and tries again, any
\* other one, and the end of the context, ends the daemon.
Return(o) ==
  /\ pc' = IF o = "retry" /\ ~cancelled THEN "retry" ELSE "down"
  /\ outcome' = "ok" /\ UNCHANGED cancelled
  /\ Forget

\* The session takes down what it has built, beginning at stage s, and returns o.
TearDown(s, o) == pc' = s /\ outcome' = o /\ UNCHANGED cancelled

\* retryableJoinError: a request to the API server or a system call may fail either way.
Either == {"retry", "fatal"}

-----------------------------------------------------------------------------
\* What the host shows

Live(t) == proc[t] # "gone"

\* Mutants of Matching: every tunnel of the host; the bridge CIDR as part of the identity.
MatchingAny  == {t \in Tunnels : Live(t)}
MatchingCIDR == {t \in Tunnels \ Others : Live(t) /\ cidr[t] = handle.cidr}

\* findMatchingVXLANProcesses: the tunnels with this Node's transport identity, whatever
\* their bridge CIDR.
Matching == {t \in Tunnels \ Others : Live(t)}

\* The bridges that hold address o of CIDR c (interfaceForAddress finds one of them).
Holders(c, o) == {t \in bridges : cidr[t] = c /\ o \in addrs[t]}

\* The number of the next tunnel: the first one nothing is left of.
Free(t) == t \notin Others /\ ~Live(t) /\ t \notin bridges /\ flannel # t
New(t)  == Free(t) /\ \A u \in Tunnels : Free(u) => t <= u

Init ==
  /\ podCIDR = None /\ peers \in {<<m>> : m \in Macs} /\ flannel = None /\ assigned = {}
  /\ proc = [t \in Tunnels |-> IF t \in Others THEN "running" ELSE "gone"]
  /\ cidr = [t \in Tunnels |-> IF t \in Others THEN OtherCIDR ELSE None]
  /\ bridges = Others
  /\ addrs = [t \in Tunnels |-> IF t \in Others THEN {BridgeOffset} ELSE {}]
  /\ routes = [d \in Destinations |-> None]
  /\ arps = [t \in Tunnels |-> [i \in Peers |-> None]]
  /\ pc = "down" /\ cancelled = FALSE /\ outcome = "ok"
  /\ child = None /\ iface = None /\ handle = NoHandle /\ stale = {} /\ retried = FALSE
  /\ clean = FALSE /\ faults = 0 /\ stops = 0 /\ events = 0

-----------------------------------------------------------------------------
\* Setting up

Join ==
  /\ pc = "down"
  /\ pc' = "begin" /\ cancelled' = FALSE /\ clean' = TRUE
  /\ UNCHANGED <<api, host, session, outcome, faults, stops, events>>

\* Mutant of HasPodCIDR: an empty PodCIDR is not noticed.
AnyPodCIDR == TRUE

\* startVXLAN needs a PodCIDR.
HasPodCIDR == podCIDR # None

\* waitForPodCIDR and discoverFlannelPeers: the session works with what they return.
Begin ==
  /\ pc = "begin"
  /\ \/ /\ HasPodCIDR /\ ~cancelled
        /\ handle' = [NoHandle EXCEPT !.cidr = podCIDR, !.known = peers]
        /\ Goto("inspect") /\ UNCHANGED <<child, iface, stale, retried>> /\ NoFault
     \/ ~HasPodCIDR /\ Return("retry") /\ NoFault
     \/ cancelled /\ Return("fatal") /\ NoFault
     \/ Try("api", TRUE) /\ \E o \in Either : Return(o)
  /\ UNCHANGED <<api, host, stops, events>>

\* Mutant of Wanted: only the addresses of the matching processes.
WantedOfProcesses == {cidr[t] : t \in Matching}

\* The PodCIDRs whose bridge address is looked for: the requested one and those of the
\* matching processes.
Wanted == {handle.cidr} \cup {cidr[t] : t \in Matching}

\* One bridge for each of them, if there is one.
StaleBridges(S) ==
  /\ S \subseteq UNION {Holders(c, BridgeOffset) : c \in Wanted}
  /\ \A c \in Wanted : Holders(c, BridgeOffset) # {} => \E t \in S : cidr[t] = c
  /\ \A t, u \in S : cidr[t] = cidr[u] => t = u

\* recoverStaleVXLAN up to the signals.  Nothing to recover lets the first start go on
\* and makes a failed start final.  An error of the interface table can be retried, one of
\* ps not.
Inspect ==
  /\ pc = "inspect"
  /\ \/ \E S \in SUBSET Tunnels :
          /\ StaleBridges(S) /\ NoFault
          /\ IF Matching = {} /\ S = {}
             THEN /\ IF retried THEN \E o \in Either : Return(o)
                     ELSE Goto("start") /\ UNCHANGED session
                  /\ UNCHANGED proc
             ELSE /\ proc' = [t \in Tunnels |-> IF t \in Matching THEN "stopping" ELSE proc[t]]
                  /\ stale' = S
                  /\ Goto("terminate") /\ UNCHANGED <<child, iface, handle, retried>>
     \/ Try("inspect", TRUE) /\ (\E o \in Either : Return(o)) /\ UNCHANGED proc
  /\ UNCHANGED <<api, cidr, bridges, addrs, tables, stops, events>>

\* terminateMatchingVXLANProcesses: wait until there is none, for five seconds.
Terminate ==
  /\ pc = "terminate" /\ Matching = {}
  /\ Goto("unaddress")
  /\ NoFault /\ UNCHANGED <<api, host, session, stops, events>>

\* The five seconds are over, or ps fails meanwhile.
TerminateFails ==
  /\ pc = "terminate"
  /\ \/ /\ Matching # {} /\ NoFault
        /\ proc' = [t \in Tunnels |-> IF t \in Matching THEN "gone" ELSE proc[t]]
     \/ Try("inspect", TRUE) /\ UNCHANGED proc
  /\ Return("fatal")
  /\ UNCHANGED <<api, cidr, bridges, addrs, tables, stops, events>>

\* removeIPv4AddressesInCIDRs: every address of the stale bridges goes, one command each,
\* and nothing may hold the requested one afterwards.
Unaddress ==
  /\ pc = "unaddress"
  /\ \/ /\ addrs' = [t \in Tunnels |-> IF t \in stale THEN {} ELSE addrs[t]]
        /\ IF \E t \in bridges \ stale : t \in Holders(handle.cidr, BridgeOffset)
           THEN Return("fatal")
           ELSE Goto("start") /\ UNCHANGED session
        /\ NoFault
     \/ /\ \E t \in stale \cap bridges, left \in SUBSET Offsets :
             /\ left \subseteq addrs[t] /\ left # {}
             /\ addrs' = [addrs EXCEPT ![t] = left]
        /\ Try("address", TRUE) /\ \E o \in Either : Return(o)
  /\ UNCHANGED <<api, proc, cidr, bridges, tables, stops, events>>

\* command.Start; its first failure is followed by another look for stale state.
Start ==
  /\ pc = "start"
  /\ \/ /\ \E t \in Tunnels :
             /\ New(t)
             /\ proc' = [proc EXCEPT ![t] = "running"]
             /\ cidr' = [cidr EXCEPT ![t] = handle.cidr]
             /\ child' = t
        /\ Goto("wait") /\ UNCHANGED <<iface, handle, stale, retried>> /\ NoFault
     \/ /\ Try("start", TRUE)
        /\ IF retried THEN \E o \in Either : Return(o)
           ELSE retried' = TRUE /\ Goto("inspect") /\ UNCHANGED <<child, iface, handle, stale>>
        /\ UNCHANGED <<proc, cidr>>
  /\ UNCHANGED <<api, bridges, addrs, tables, stops, events>>

\* waitForBridge takes whatever interface has the bridge address; the child must still
\* run by then.  It fails when the child is gone, on a signal, and after 30 seconds.
WaitForBridge ==
  /\ pc = "wait"
  /\ \/ /\ Live(child)
        /\ \E t \in Holders(handle.cidr, BridgeOffset) : iface' = t
        /\ Goto("arps") /\ NoFault
     \/ /\ ~Live(child) \/ cancelled
        /\ TearDown("stop", "fatal") /\ UNCHANGED iface /\ NoFault
     \/ Try("bridge", TRUE) /\ TearDown("stop", "fatal") /\ UNCHANGED iface
  /\ UNCHANGED <<api, host, child, handle, stale, retried, stops, events>>

\* setupDarwinNetwork, first loop: an ARP entry for the gateway of every peer, of which
\* the first k are made.  The handle has them all from the start.
InstallARPs ==
  LET n == Len(handle.known)
  IN /\ pc = "arps"
     /\ \/ ~GatewaysFit(n) /\ TearDown("stop", "fatal") /\ NoFault /\ UNCHANGED <<arps, handle>>
        \/ /\ GatewaysFit(n)
           /\ \E k \in 0..n :
                /\ k > 0 => iface \in bridges
                /\ arps' = [arps EXCEPT ![iface] =
                     [i \in Peers |-> IF i < k THEN handle.known[i + 1] ELSE @[i]]]
                /\ \/ k = n /\ Goto("routes") /\ NoFault
                   \/ /\ k < n /\ TearDown("unalias", "fatal")
                      /\ IF iface \in bridges THEN Try("arp", TRUE) ELSE NoFault
           /\ handle' = [handle EXCEPT !.mac = handle.known[1], !.arps = 0..n-1]
     /\ UNCHANGED <<api, proc, cidr, bridges, addrs, routes, child, iface, stale, retried,
                    stops, events>>

\* Mutant of Routable: a route that is there already counts as added.
RoutableAnyway(d) == iface \in bridges

\* `route add` works while the bridge is there and the destination has no route.
Routable(d) == iface \in bridges /\ routes[d] = None

\* Second loop: the routes, of which the first k are added.
InstallRoutes ==
  LET n == Len(handle.known)
  IN /\ pc = "routes"
     /\ \E k \in 0..n+1 :
          /\ \A d \in 0..k-1 : Routable(d)
          /\ routes' = [d \in Destinations |->
                          IF d < k /\ routes[d] = None THEN iface ELSE routes[d]]
          /\ handle' = [handle EXCEPT !.routes = 0..k-1]
          /\ \/ k = n + 1 /\ Goto("publish") /\ NoFault
             \/ /\ k < n + 1 /\ TearDown("unalias", "fatal")
                /\ IF Routable(k) THEN Try("route", TRUE) ELSE NoFault
     /\ UNCHANGED <<api, proc, cidr, bridges, addrs, arps, child, iface, stale, retried,
                    stops, events>>

\* Mutant of Published: annotations that are there are left alone.
PublishedOnce == IF flannel = None THEN iface ELSE flannel

\* flannelAnnotations: the MAC of the bridge.
Published == iface

\* configureFlannel; a signal makes the request fail.
Publish ==
  /\ pc = "publish"
  /\ \/ ~cancelled /\ flannel' = Published /\ Goto("journal") /\ NoFault
     \/ /\ UNCHANGED flannel
        /\ \E o \in Either : TearDown("unalias", o)
        /\ IF cancelled THEN NoFault ELSE Try("api", TRUE)
  /\ UNCHANGED <<podCIDR, peers, assigned, host, session, stops, events>>

\* loadJournal: when it fails, bridge and routes go but the annotations stay.
LoadJournal ==
  /\ pc = "journal"
  /\ \/ Goto("kubelet") /\ NoFault
     \/ Try("journal", TRUE) /\ \E o \in Either : TearDown("unalias", o)
  /\ UNCHANGED <<api, host, session, stops, events>>

\* startKubeletServer; from here on everything is taken down by the deferred clean-up.
StartKubelet ==
  /\ pc = "kubelet"
  /\ \/ Goto("up") /\ NoFault
     \/ Try("kubelet", TRUE) /\ \E o \in Either : TearDown("drain", o)
  /\ UNCHANGED <<api, host, session, stops, events>>

-----------------------------------------------------------------------------
\* While the session lasts

\* Mutant of Remembered: the handle takes the new MAC before the command has set it.
RememberedFirst(mac, done) == mac

\* setGatewayMAC records the MAC only when the command has succeeded.
Remembered(mac, done) == IF done THEN mac ELSE handle.mac

\* The heartbeat's refresh of the remote peer's MAC (remoteVtepMAC, setGatewayMAC).  The
\* other peers keep what the session began with.
Heartbeat ==
  /\ pc = "up"
  /\ IF handle.mac = peers[1] THEN NoFault /\ UNCHANGED <<arps, handle>>
     ELSE \E done \in BOOLEAN :
       /\ done => iface \in bridges
       /\ arps' = IF done THEN [arps EXCEPT ![iface][0] = peers[1]] ELSE arps
       /\ handle' = [handle EXCEPT !.mac = Remembered(peers[1], done)]
       /\ IF done \/ iface \notin bridges THEN NoFault ELSE Try("arp", TRUE)
  /\ UNCHANGED <<api, proc, cidr, bridges, addrs, routes, child, iface, stale, retried,
                 control, stops, events>>

\* reconcile gives a Pod the first address no listed Pod reports.
Used == {a[2] : a \in {b \in assigned : b[1] = handle.cidr}}
Available == Assignable(Len(handle.known)) \ Used

AssignAddress ==
  /\ pc = "up" /\ Cardinality(assigned) < MaxPods /\ Available # {}
  /\ assigned' = assigned \cup {<<handle.cidr, FirstAvailable(Used, Len(handle.known))>>}
  /\ UNCHANGED <<podCIDR, peers, flannel, host, session, control, clean, faults, stops, events>>

\* The other bridges that have the address.
Elsewhere(o) == Holders(handle.cidr, o) \ {iface}

\* addWorkloadIP: an address of this PodCIDR that is not reserved; one already on the
\* bridge is adopted, one on another interface refused.
AddWorkloadIP ==
  /\ pc = "up"
  /\ \E a \in assigned :
       LET o == a[2]
       IN /\ a[1] = handle.cidr /\ ~Refused(o, Len(handle.known)) /\ o \notin handle.aliases
          /\ iface \in bridges /\ Elsewhere(o) = {}
          /\ \E done \in BOOLEAN :
               /\ addrs' = IF done THEN [addrs EXCEPT ![iface] = @ \cup {o}] ELSE addrs
               /\ handle' = IF done THEN [handle EXCEPT !.aliases = @ \cup {o}] ELSE handle
               /\ Try("alias", ~done)
  /\ UNCHANGED <<api, proc, cidr, bridges, tables, child, iface, stale, retried, control,
                 stops, events>>

\* Mutant of Unaliased: a failed command forgets the alias.
UnaliasedAnyway(o, done) == handle.aliases \ {o}

\* removeWorkloadIP keeps the alias when the command failed.
Unaliased(o, done) == IF done THEN handle.aliases \ {o} ELSE handle.aliases

\* A Pod goes: removeWorkloadIP, and the Pod with it when that succeeded.  On a bridge
\* that is gone the command fails for ever.
RemoveWorkloadIP ==
  /\ pc = "up"
  /\ \E a \in assigned :
       LET ours == a[1] = handle.cidr /\ a[2] \in handle.aliases
       IN \E done \in BOOLEAN :
            /\ ours /\ done => iface \in bridges
            /\ addrs' = IF ours /\ done THEN [addrs EXCEPT ![iface] = @ \ {a[2]}] ELSE addrs
            /\ handle' = IF ours THEN [handle EXCEPT !.aliases = Unaliased(a[2], done)] ELSE handle
            /\ assigned' = IF done THEN assigned \ {a} ELSE assigned
            /\ IF done \/ iface \notin bridges THEN NoFault ELSE Try("unalias", TRUE)
  /\ UNCHANGED <<podCIDR, peers, flannel, proc, cidr, bridges, tables, child, iface, stale,
                 retried, control, stops, events>>

-----------------------------------------------------------------------------
\* Taking down

\* Mutant of Shutdown: the annotations are not withdrawn.
ShutdownQuietly ==
  /\ pc = "up" /\ cancelled
  /\ TearDown("unalias", "ok")
  /\ NoFault /\ UNCHANGED <<api, host, session, stops, events>>

\* ctx.Done, after the running heartbeat
Shutdown ==
  /\ pc = "up" /\ cancelled
  /\ TearDown("drain", "ok")
  /\ NoFault /\ UNCHANGED <<api, host, session, stops, events>>

\* Aliases of the handle are removed, all but those in kept.
RemoveAliases(kept) ==
  /\ addrs' = IF iface \in bridges
              THEN [addrs EXCEPT ![iface] = @ \ (handle.aliases \ kept)] ELSE addrs
  /\ handle' = [handle EXCEPT !.aliases = kept]

\* workloads.cleanup removes every workload with its address; the Pods stay.
Drain ==
  /\ pc = "drain"
  /\ \E kept \in SUBSET handle.aliases :
       /\ RemoveAliases(kept)
       /\ IF iface \in bridges THEN Try("unalias", kept # {})
          ELSE kept = handle.aliases /\ NoFault
  /\ Goto("unpublish")
  /\ UNCHANGED <<api, proc, cidr, bridges, tables, child, iface, stale, retried, stops, events>>

\* clearFlannel: by the Node's name, whoever's MAC is published.
Unpublish ==
  /\ pc = "unpublish"
  /\ \E fails \in BOOLEAN :
       Try("api", fails) /\ flannel' = IF fails THEN flannel ELSE None
  /\ Goto("unalias")
  /\ UNCHANGED <<podCIDR, peers, assigned, host, session, stops, events>>

\* DarwinNetworkHandle.cleanup: with the bridge everything on it is gone.
CleanAliases ==
  /\ pc = "unalias"
  /\ IF iface \in bridges
     THEN /\ \E kept \in SUBSET handle.aliases :
               RemoveAliases(kept) /\ Try("unalias", kept # {})
          /\ Goto("unroute")
     ELSE /\ handle' = [handle EXCEPT !.aliases = {}, !.routes = {}, !.arps = {}]
          /\ Goto("stop") /\ NoFault /\ UNCHANGED addrs
  /\ UNCHANGED <<api, proc, cidr, bridges, tables, child, iface, stale, retried, stops, events>>

CleanRoutes ==
  /\ pc = "unroute"
  /\ \E kept \in SUBSET handle.routes :
       /\ routes' = [d \in Destinations |->
            IF d \in handle.routes \ kept /\ routes[d] = iface THEN None ELSE routes[d]]
       /\ Try("unroute", kept # {})
  /\ Goto("unarp")
  /\ UNCHANGED <<api, proc, cidr, bridges, addrs, arps, session, stops, events>>

CleanARPs ==
  /\ pc = "unarp"
  /\ \E kept \in SUBSET handle.arps :
       /\ arps' = [arps EXCEPT ![iface] =
            [i \in Peers |-> IF i \in handle.arps \ kept THEN None ELSE @[i]]]
       /\ Try("unarp", kept # {})
  /\ Goto("stop")
  /\ UNCHANGED <<api, proc, cidr, bridges, addrs, routes, session, stops, events>>

\* vxlan.cleanup: SIGINT, and SIGKILL when the child has not ended after five seconds.
StopChild ==
  /\ pc = "stop"
  /\ proc' = IF Live(child) THEN [proc EXCEPT ![child] = "stopping"] ELSE proc
  /\ Goto("reap")
  /\ NoFault /\ UNCHANGED <<api, cidr, bridges, addrs, tables, session, stops, events>>

Reap ==
  /\ pc = "reap"
  /\ proc' = [proc EXCEPT ![child] = "gone"]
  /\ Return(outcome)
  /\ NoFault /\ UNCHANGED <<api, cidr, bridges, addrs, tables, stops, events>>

\* waitForJoinRetry, over or cut short by a signal
Retry ==
  /\ pc = "retry"
  /\ pc' = IF cancelled THEN "down" ELSE "begin"
  /\ clean' = TRUE
  /\ UNCHANGED <<api, host, session, cancelled, outcome, faults, stops, events>>

-----------------------------------------------------------------------------
\* Signals, kills, tunnels and the cluster

Signal ==
  /\ pc # "down" /\ ~cancelled /\ stops < MaxStops
  /\ cancelled' = TRUE /\ stops' = stops + 1
  /\ NoFault /\ UNCHANGED <<api, host, session, pc, outcome, events>>

Kill ==
  /\ pc # "down" /\ stops < MaxStops
  /\ pc' = "down" /\ cancelled' = FALSE /\ outcome' = "ok" /\ stops' = stops + 1
  /\ Forget /\ NoFault /\ UNCHANGED <<api, host, events>>

\* A tunnel can use the UDP port when no other one of this identity is alive.
BridgeUp(t) ==
  /\ proc[t] = "running" /\ t \notin bridges /\ Matching = {t}
  /\ bridges' = bridges \cup {t}
  /\ addrs' = [addrs EXCEPT ![t] = {BridgeOffset}]
  /\ NoFault /\ UNCHANGED <<api, proc, cidr, tables, session, control, stops, events>>

\* One that cannot exits.
CannotBind(t) ==
  /\ t \in Matching /\ t \notin bridges /\ Matching # {t}
  /\ proc' = [proc EXCEPT ![t] = "gone"]
  /\ NoFault /\ UNCHANGED <<api, cidr, bridges, addrs, tables, session, control, stops, events>>

TunnelStops(t) ==
  /\ proc[t] = "stopping"
  /\ proc' = [proc EXCEPT ![t] = "gone"]
  /\ NoFault /\ UNCHANGED <<api, cidr, bridges, addrs, tables, session, control, stops, events>>

Event == events < MaxEvents /\ events' = events + 1

TunnelDies(t) ==
  /\ t \notin Others /\ proc[t] = "running" /\ Event
  /\ proc' = [proc EXCEPT ![t] = "gone"]
  /\ clean' = (clean /\ t # child)
  /\ UNCHANGED <<api, cidr, bridges, addrs, tables, session, control, faults, stops>>

\* vmnet takes the bridge of a tunnel that is gone away, and with it everything on it.
Teardown(t) ==
  /\ t \in bridges /\ ~Live(t)
  /\ bridges' = bridges \ {t}
  /\ addrs' = [addrs EXCEPT ![t] = {}]
  /\ routes' = [d \in Destinations |-> IF routes[d] = t THEN None ELSE routes[d]]
  /\ arps' = [arps EXCEPT ![t] = [i \in Peers |-> None]]
  /\ NoFault /\ UNCHANGED <<api, proc, cidr, session, control, stops, events>>

\* A process of this identity appears between the inspection and the start.
Intruder(t) ==
  /\ pc = "start" /\ New(t) /\ Event
  /\ proc' = [proc EXCEPT ![t] = "running"]
  /\ cidr' = [cidr EXCEPT ![t] = handle.cidr]
  /\ NoFault /\ UNCHANGED <<api, bridges, addrs, tables, session, control, stops>>

\* The Node gets its PodCIDR, at first and when it is registered anew.
AssignPodCIDR ==
  /\ podCIDR = None /\ podCIDR' \in CIDRs
  /\ NoFault /\ UNCHANGED <<peers, flannel, assigned, host, session, control, stops, events>>

Renumber ==
  /\ podCIDR # None /\ Event
  /\ podCIDR' \in CIDRs \ {podCIDR}
  /\ NoFault /\ UNCHANGED <<peers, flannel, assigned, host, session, control, stops>>

\* A peer joins, leaves or gets a new MAC; the remote stays.
ChangePeers ==
  /\ Event
  /\ peers' \in UNION {[1..n -> Macs] : n \in 1..MaxPeers} \ {peers}
  /\ NoFault /\ UNCHANGED <<podCIDR, flannel, assigned, host, session, control, stops>>

-----------------------------------------------------------------------------

SessionStep ==
  \/ Join \/ Begin \/ Inspect \/ Terminate \/ TerminateFails \/ Unaddress \/ Start
  \/ WaitForBridge \/ InstallARPs \/ InstallRoutes \/ Publish \/ LoadJournal \/ StartKubelet
  \/ Shutdown \/ Drain \/ Unpublish \/ CleanAliases \/ CleanRoutes \/ CleanARPs
  \/ StopChild \/ Reap \/ Retry

Pass == Heartbeat \/ AssignAddress \/ AddWorkloadIP \/ RemoveWorkloadIP

TunnelStep(t) == BridgeUp(t) \/ CannotBind(t) \/ TunnelStops(t) \/ Teardown(t)

Environment ==
  \/ Signal \/ Kill \/ AssignPodCIDR \/ Renumber \/ ChangePeers
  \/ \E t \in Tunnels : TunnelDies(t) \/ Intruder(t)

Next == SessionStep \/ Pass \/ Environment \/ \E t \in Tunnels : TunnelStep(t)

Spec == Init /\ [][Next]_vars

\* The daemon goes on and is started again when it has ended; a heartbeat comes every
\* ten seconds; darwin-vxlan and vmnet do what they were asked to; the cluster assigns a
\* PodCIDR.
Fairness ==
  /\ WF_vars(SessionStep) /\ WF_vars(Heartbeat) /\ WF_vars(AssignPodCIDR)
  /\ \A t \in Tunnels \ Others : WF_vars(TunnelStep(t))

FairSpec == Spec /\ Fairness

-----------------------------------------------------------------------------
\* Properties

\* From the moment a session publishes itself to its end every destination is routed
\* through the session's own bridge, which has an ARP entry for every peer's gateway, for
\* as long as the bridge exists; routes a killed session left never count
\* (setupDarwinNetwork fails on them).
RoutedThroughOwnBridge ==
  pc \in {"publish", "journal", "kubelet", "up"} /\ iface \in bridges =>
    /\ \A d \in 0..Len(handle.known) : routes[d] = iface
    /\ \A i \in 0..Len(handle.known)-1 : arps[iface][i] # None

\* A session that serves Pods has published the MAC of its own bridge, never that of a
\* tunnel an earlier session was killed with (configureFlannel).
AnnotationCurrent == pc \in {"journal", "kubelet", "up"} => flannel = iface

\* "Clean shutdown removes the annotations, per-peer routes, ARP entries, and aliases
\* before stopping the child" (README.md:558-560): when the child of a session without
\* failures is stopped, nothing of the session is left on its bridge or published.
NothingLeft ==
  pc = "stop" /\ clean =>
    /\ flannel # child
    /\ iface \in bridges =>
         /\ addrs[iface] \subseteq {BridgeOffset}
         /\ \A d \in Destinations : routes[d] # iface
         /\ \A i \in Peers : arps[iface][i] = None

\* Recovery takes down tunnels of this Node's identity alone: those of others keep
\* running and keep their addresses (matchingVXLANInvocation, removeIPv4AddressesInCIDRs).
OthersUntouched ==
  \A t \in Others : proc[t] = "running" /\ t \in bridges /\ BridgeOffset \in addrs[t]

\* An address of a PodCIDR is on one interface at most, also while the bridge of a
\* killed session has not gone yet (recoverStaleVXLAN, addWorkloadIP).
OneHolder ==
  \A t, u \in bridges :
    t # u /\ cidr[t] = cidr[u] /\ cidr[t] \in CIDRs => addrs[t] \cap addrs[u] = {}

\* The workload addresses on the session's bridge are those its handle will take away
\* again (addWorkloadIP, removeWorkloadIP).
AliasesTracked ==
  pc = "up" /\ iface \in bridges => addrs[iface] \ {BridgeOffset} = handle.aliases

\* Whatever was left behind by kills, failed set-ups and dead tunnels, in whichever
\* PodCIDR, a daemon that is started again gets its network back.
NetworkReturns == []<>(pc = "up")

\* The remote peer's new MAC reaches the bridge of a session that lasts, even when the
\* command fails at first (remoteVtepMAC, setGatewayMAC).
GatewayFresh ==
  LET connected == pc = "up" /\ iface \in bridges
  IN connected ~> (~connected \/ arps[iface][0] = peers[1])
=============================================================================
