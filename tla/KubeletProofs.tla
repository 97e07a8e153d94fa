--------------------------- MODULE KubeletProofs ----------------------------
(***************************************************************************)
(* The tunnels and the CPU counters of the kubelet, for any servers,       *)
(* processes, numbers of goroutines and bounds.                            *)
(*                                                                         *)
(* That every goroutine which runs is the supervisor's is not inductive: a *)
(* goroutine about to be started must not be one that still runs, the      *)
(* server it is for must have none, and a cancelled context must have      *)
(* cancelled them all.  HeldInv adds that.                                 *)
(*                                                                         *)
(* That no counter exceeds what was consumed is not inductive either: a    *)
(* reading below the last one forgets what ended processes had consumed.   *)
(* NodeInv and ContainerInv say which processes account for what a counter *)
(* has beyond its last reading: none that is to be read again.             *)
(***************************************************************************)
EXTENDS Kubelet, FiniteSetTheorems, TLAPS

\* Goroutines that run exist; a cancelled supervisor has none; the server that is being
\* connected has no tunnel yet; a supervisor that has ended is cancelled or never ran.
HeldInv ==
  /\ \A a \in live : link[a] # "free"
  /\ closing => live = {}
  /\ sup = "off" => live = {}
  /\ sup = "connect" => tunnels[dest[current]] = None
  /\ TunnelsHeld

\* The variables the tunnels do not share with the counters.
Shared == <<listed, answering, tunnelVars>>

\* At first there is no tunnel and the types are right.
LEMMA HeldInit == Init => TunnelTypeOK /\ HeldInv
  BY ServersAssumption, NamesAssumption DEF Init, TunnelTypeOK, HeldInv, TunnelsHeld

\* Nothing the tunnels consist of changes.
LEMMA HeldStutters ==
  ASSUME TunnelTypeOK, HeldInv, UNCHANGED Shared
  PROVE  TunnelTypeOK' /\ HeldInv'
  BY DEF TunnelTypeOK, HeldInv, TunnelsHeld, Shared, tunnelVars

\* The supervisor's own steps (startKubeletTunnelSupervisorWithConnector).
LEMMA SupervisorHolds ==
  ASSUME TunnelTypeOK, HeldInv, Supervisor \/ Cancel
  PROVE  TunnelTypeOK' /\ HeldInv'
<1> USE ServersAssumption, NamesAssumption DEF TunnelTypeOK
<1>1. CASE StartServices
  BY <1>1 DEF StartServices, HeldInv, TunnelsHeld
<1>2. CASE Tick
  BY <1>2 DEF Tick, Discover, HeldInv, TunnelsHeld
<1>3. CASE NextServer
  <2>1. PICK s \in queue : NextServer!2!(s)
    BY <1>3 DEF NextServer
  <2>2. CASE tunnels[s] # None \/ closing
    BY <1>3, <2>1, <2>2 DEF NextServer, HeldInv, TunnelsHeld
  <2>3. CASE ~(tunnels[s] # None \/ closing)
    <3>1. PICK a \in Free :
            /\ current' = a /\ sup' = "connect"
            /\ link' = [link EXCEPT ![a] = "dialing"]
            /\ dest' = [dest EXCEPT ![a] = s]
            /\ live' = live \cup {a} /\ connected' = connected \ {a}
      BY <2>1, <2>3
    <3>2. a \in Attempts /\ a \notin live
      BY <3>1 DEF Free, HeldInv
    <3>3. UNCHANGED <<listed, answering, tunnels, closing>> /\ queue' = queue \ {s} /\ sup = "next"
      BY <1>3, <2>1 DEF NextServer
    <3>4. TunnelTypeOK'
      BY <3>1, <3>2, <3>3
    <3>5. HeldInv'
      BY <2>3, <3>1, <3>2, <3>3 DEF HeldInv, TunnelsHeld
    <3> QED BY <3>4, <3>5
  <2> QED BY <2>2, <2>3
<1>4. CASE PassDone
  BY <1>4 DEF PassDone, HeldInv, TunnelsHeld
<1>5. CASE TunnelConnected
  <2>1. TunnelTypeOK'
    BY <1>5 DEF TunnelConnected
  <2>2. ASSUME NEW a \in live, dest[a] = dest[current] PROVE a = current
    BY <1>5, <2>2 DEF TunnelConnected, HeldInv, TunnelsHeld
  <2>3. HeldInv'
    BY <1>5, <2>1, <2>2 DEF TunnelConnected, HeldInv, TunnelsHeld
  <2> QED BY <2>1, <2>3
<1>6. CASE TunnelTimeout
  BY <1>6 DEF TunnelTimeout, GivenUp, Refused, HeldInv, TunnelsHeld
<1>7. CASE SupervisorDone
  BY <1>7 DEF SupervisorDone, HeldInv, TunnelsHeld
<1>8. CASE Cancel
  BY <1>8 DEF Cancel, HeldInv, TunnelsHeld
<1> QED BY <1>1, <1>2, <1>3, <1>4, <1>5, <1>6, <1>7, <1>8 DEF Supervisor

\* The steps of a tunnel's goroutine (startKubeletTunnel).
LEMMA GoroutineHolds ==
  ASSUME TunnelTypeOK, HeldInv, NEW a \in Attempts, Goroutine(a)
  PROVE  TunnelTypeOK' /\ HeldInv'
<1> USE ServersAssumption, NamesAssumption DEF TunnelTypeOK, Link
<1>1. CASE Dial(a)
  <2>1. /\ a \in live /\ link' \in [Attempts -> {"free", "dialing", "connected", "pausing"}]
        /\ link' = [link EXCEPT ![a] = link'[a]] /\ link'[a] # "free"
        /\ connected' \subseteq Attempts
    BY <1>1 DEF Dial
  <2>2. UNCHANGED <<listed, answering, sup, queue, tunnels, current, dest, live, closing>>
    BY <1>1 DEF Dial
  <2> QED BY <2>1, <2>2 DEF HeldInv, TunnelsHeld
<1>2. CASE ConnectionLost(a)
  BY <1>2 DEF ConnectionLost, HeldInv, TunnelsHeld
<1>3. CASE Redial(a)
  BY <1>3 DEF Redial, HeldInv, TunnelsHeld
<1>4. CASE GoroutineEnds(a)
  BY <1>4 DEF GoroutineEnds, HeldInv, TunnelsHeld
<1> QED BY <1>1, <1>2, <1>3, <1>4 DEF Goroutine

\* Every step keeps the types and the invariant.
LEMMA HeldNext ==
  ASSUME TunnelTypeOK, HeldInv, [Next]_vars
  PROVE  TunnelTypeOK' /\ HeldInv'
<1>1. CASE Supervisor \/ Cancel
  BY <1>1, SupervisorHolds
<1>2. CASE \E a \in Attempts : Goroutine(a)
  BY <1>2, GoroutineHolds
<1>3. CASE ChangeServers
  BY <1>3 DEF ChangeServers, TunnelTypeOK, HeldInv, TunnelsHeld, tunnelVars
<1>4. CASE Processes
  <2>1. UNCHANGED Shared
    BY <1>4 DEF Processes, RunWorkload, Fork, Burn, Exit, Tables, Shared
  <2> QED BY <2>1, HeldStutters
<1>5. CASE \E i \in Scrapes : Handle(i)
  <2>1. UNCHANGED Shared
    BY <1>5 DEF Handle, ReadProcesses, CountNode, InspectWorkload, CountContainer, Handler, Shared
  <2> QED BY <2>1, HeldStutters
<1>6. CASE UNCHANGED vars
  BY <1>6, HeldStutters DEF vars, Shared
<1> QED BY <1>1, <1>2, <1>3, <1>4, <1>5, <1>6 DEF Next

\* Every goroutine of a tunnel that runs is the one the supervisor has for its server or
\* is waiting for, and none outlives the supervisor, in every session and whenever an
\* attempt times out or the session ends (startKubeletTunnel, Close).
THEOREM TunnelsAlwaysHeld == Spec => []TunnelsHeld
<1>1. TunnelTypeOK /\ HeldInv /\ [Next]_vars => (TunnelTypeOK /\ HeldInv)'
  BY HeldNext
<1>2. TunnelTypeOK /\ HeldInv => TunnelsHeld
  BY DEF HeldInv
<1> QED BY HeldInit, <1>1, <1>2, PTL DEF Spec

-----------------------------------------------------------------------------
\* CPU time

Units(S, time) == {u \in S \X (1..MaxCPU) : u[2] <= time[u[1]]}

LEMMA UnitsFinite ==
  ASSUME NEW S \in SUBSET Procs, NEW time
  PROVE  IsFiniteSet(Units(S, time)) /\ Cardinality(Units(S, time)) = Total(S, time)
<1>1. IsFiniteSet(S) /\ IsFiniteSet(1..MaxCPU)
  BY ProcsAssumption, KubeletBounds, FS_Subset, FS_Interval
<1>2. IsFiniteSet(S \X (1..MaxCPU))
  BY <1>1, FS_Product
<1>3. Units(S, time) \in SUBSET (S \X (1..MaxCPU))
  BY DEF Units
<1> QED BY <1>2, <1>3, FS_Subset DEF Units, Total

LEMMA TotalType ==
  ASSUME NEW S \in SUBSET Procs, NEW time
  PROVE  Total(S, time) \in Nat
  BY UnitsFinite, FS_CardinalityType

\* A total grows with the CPU times, and with the set but for processes that used none.
LEMMA TotalGrows ==
  ASSUME NEW S \in SUBSET Procs, NEW T \in SUBSET Procs,
         NEW time \in [Procs -> Nat], NEW later \in [Procs -> Nat],
         \A p \in S : time[p] = 0 \/ (p \in T /\ time[p] <= later[p])
  PROVE  Total(S, time) <= Total(T, later)
<1>1. Units(S, time) \in SUBSET Units(T, later)
  BY KubeletBounds DEF Units
<1> QED BY <1>1, UnitsFinite, FS_Subset

LEMMA TotalSplits ==
  ASSUME NEW S \in SUBSET Procs, NEW T \in SUBSET Procs, NEW time, S \cap T = {}
  PROVE  Total(S \cup T, time) = Total(S, time) + Total(T, time)
<1>1. /\ Units(S \cup T, time) = Units(S, time) \cup Units(T, time)
      /\ Units(S, time) \cap Units(T, time) = {}
  BY DEF Units
<1>2. /\ IsFiniteSet(Units(S, time)) /\ Cardinality(Units(S, time)) = Total(S, time)
      /\ IsFiniteSet(Units(T, time)) /\ Cardinality(Units(T, time)) = Total(T, time)
  BY UnitsFinite
<1>3. Cardinality(Units(S, time) \cup Units(T, time)) = Total(S, time) + Total(T, time)
  <2>1. Cardinality(Units(S, time) \cup Units(T, time))
          = Cardinality(Units(S, time)) + Cardinality(Units(T, time))
              - Cardinality(Units(S, time) \cap Units(T, time))
    BY <1>2, FS_Union
  <2>2. Cardinality(Units(S, time) \cap Units(T, time)) = 0
    BY <1>1, FS_EmptySet
  <2>3. Total(S, time) \in Nat /\ Total(T, time) \in Nat
    BY TotalType
  <2> QED BY <1>2, <2>1, <2>2, <2>3
<1>4. S \cup T \in SUBSET Procs
  OBVIOUS
<1> QED BY <1>1, <1>3, <1>4, UnitsFinite

-----------------------------------------------------------------------------
\* Trees of processes

\* The processes that count for the workload: what its root has started, as long as it runs.
RunningTree == IF root \in alive THEN Descendants(alive, parent, root) ELSE {}

LEMMA TreeWithin ==
  ASSUME NEW seen, NEW up, NEW p PROVE Descendants(seen, up, p) \subseteq seen
  BY DEF Descendants

\* A child that is forked joins the tree at most; nobody else does.
LEMMA TreeOfFork ==
  ASSUME NEW seen \in SUBSET Procs, NEW up \in [Procs -> Procs \cup {None}],
         NEW p \in seen, NEW q \in seen, NEW child \in Procs \ seen,
         \A c \in Procs : up[c] # child
  PROVE  Descendants(seen \cup {child}, [up EXCEPT ![child] = q], p)
           \subseteq Descendants(seen, up, p) \cup {child}
<1> DEFINE up2 == [up EXCEPT ![child] = q]
<1> SUFFICES ASSUME NEW d \in Descendants(seen \cup {child}, up2, p), d # child
             PROVE  d \in Descendants(seen, up, p)
  OBVIOUS
<1>1. d \in seen
  BY DEF Descendants
<1>2. ASSUME NEW T \in SUBSET seen, p \in T, \A c \in seen : up[c] \in T => c \in T
      PROVE  d \in T
  <2>1. T \cup {child} \in SUBSET (seen \cup {child}) /\ p \in T \cup {child}
    BY <1>2
  <2>2. \A c \in seen \cup {child} : up2[c] \in T \cup {child} => c \in T \cup {child}
    BY <1>2
  <2>3. d \in T \cup {child}
    BY <2>1, <2>2 DEF Descendants
  <2> QED BY <2>3
<1> QED BY <1>1, <1>2 DEF Descendants

\* Nobody joins a tree when a process ends.
LEMMA TreeOfExit ==
  ASSUME NEW seen \in SUBSET Procs, NEW up \in [Procs -> Procs \cup {None}],
         NEW p \in seen, NEW gone \in seen \ {p}
  PROVE  Descendants(seen \ {gone}, [c \in Procs |-> IF up[c] = gone THEN None ELSE up[c]], p)
           \subseteq Descendants(seen, up, p)
<1> DEFINE up2 == [c \in Procs |-> IF up[c] = gone THEN None ELSE up[c]]
<1> SUFFICES ASSUME NEW d \in Descendants(seen \ {gone}, up2, p)
             PROVE  d \in Descendants(seen, up, p)
  OBVIOUS
<1>1. d \in seen
  BY DEF Descendants
<1>2. ASSUME NEW T \in SUBSET seen, p \in T, \A c \in seen : up[c] \in T => c \in T
      PROVE  d \in T
  <2>1. T \ {gone} \in SUBSET (seen \ {gone}) /\ p \in T \ {gone}
    BY <1>2
  <2>2. \A c \in seen \ {gone} : up2[c] \in T \ {gone} => c \in T \ {gone}
    BY <1>2, NamesAssumption
  <2>3. d \in T \ {gone}
    BY <2>1, <2>2 DEF Descendants
  <2> QED BY <2>3
<1> QED BY <1>1, <1>2 DEF Descendants

\* A new root is alone in its tree.
LEMMA TreeOfRun ==
  ASSUME NEW seen, NEW up, NEW p \in seen, \A c \in seen : up[c] # p
  PROVE  Descendants(seen, up, p) \subseteq {p}
<1>1. {p} \in SUBSET seen /\ \A c \in seen : up[c] \in {p} => c \in {p}
  OBVIOUS
<1> QED BY <1>1 DEF Descendants

-----------------------------------------------------------------------------
\* The counters' types

LEMMA ScrapeTypes ==
  ASSUME NEW t \in Scrape
  PROVE  /\ t.at \in {"idle", "node", "inspect", "container"} /\ t.seen \subseteq Procs
         /\ t.cpu \in [Procs -> 0..MaxCPU] /\ t.parent \in [Procs -> Procs \cup {None}]
         /\ t.root \in Procs \cup {None}
         /\ [t EXCEPT !.at = "inspect"] \in Scrape
         /\ \A p \in Procs : [t EXCEPT !.at = "container", !.root = p] \in Scrape
  BY DEF Scrape

LEMMA IdleScrape == Idle \in Scrape
  BY KubeletBounds DEF Idle, Scrape

LEMMA ProcessTreeTotal ==
  ASSUME NEW t \in Scrape
  PROVE  /\ ProcessTree(t) \in SUBSET t.seen /\ ProcessTree(t) \in SUBSET Procs
         /\ Total(t.seen, t.cpu) \in Nat /\ Total(ProcessTree(t), t.cpu) \in Nat
<1>1. t.seen \in SUBSET Procs /\ ProcessTree(t) \in SUBSET t.seen
  BY ScrapeTypes, TreeWithin DEF ProcessTree
<1>2. ProcessTree(t) \in SUBSET Procs
  BY <1>1
<1> QED BY <1>1, <1>2, TotalType

LEMMA UpdateCounterTypes ==
  ASSUME NEW counter \in Counter, NEW now \in Nat, NEW rootPID \in Procs \cup {None}
  PROVE  UpdateCounter(counter, now, rootPID) \in Counter
<1>1. /\ counter.value \in Nat /\ counter.observed \in Nat
      /\ counter.rootPID \in Procs \cup {None} /\ counter.initialized \in BOOLEAN
  BY DEF Counter
<1>2. /\ UpdateCounter(counter, now, rootPID).value \in Nat
      /\ UpdateCounter(counter, now, rootPID).rootPID \in Procs \cup {None}
  BY <1>1 DEF UpdateCounter
<1> QED BY <1>2 DEF UpdateCounter, Counter

LEMMA ServiceTypes ==
  ASSUME MetricTypeOK, TunnelTypeOK, Supervisor \/ Cancel \/ ChangeServers
                                     \/ \E a \in Attempts : Goroutine(a)
  PROVE  MetricTypeOK'
<1> USE KubeletBounds DEF MetricTypeOK
<1>1. CASE StartServices
  <2>1. Fresh \in Counter
    BY DEF Fresh, Counter
  <2> QED BY <1>1, <2>1, IdleScrape DEF StartServices, processVars, Fail
<1>2. CASE Tick \/ NextServer \/ PassDone \/ TunnelConnected \/ TunnelTimeout \/ SupervisorDone
           \/ Cancel \/ ChangeServers \/ \E a \in Attempts : Goroutine(a)
  <2>1. UNCHANGED <<processVars, metricVars>>
    BY <1>2 DEF Tick, NextServer, PassDone, TunnelConnected, TunnelTimeout, SupervisorDone,
        Cancel, ChangeServers, Goroutine, Dial, ConnectionLost, Redial, GoroutineEnds, Link
  <2>2. sessions' \in Nat /\ changes' \in Nat /\ failures' \in Nat
    BY <1>2 DEF Tick, NextServer, PassDone, TunnelConnected, TunnelTimeout, SupervisorDone,
        Cancel, ChangeServers, Goroutine, Dial, ConnectionLost, Redial, GoroutineEnds, Link,
        Discover, Fail, bounds
  <2> QED BY <2>1, <2>2 DEF processVars, metricVars
<1> QED BY <1>1, <1>2 DEF Supervisor

LEMMA ProcessTypes == ASSUME MetricTypeOK, Processes PROVE MetricTypeOK'
<1>1. UNCHANGED <<metricVars, bounds>>
  BY DEF Processes, RunWorkload, Fork, Burn, Exit, Tables
<1>2. /\ cpu' \in [Procs -> 0..MaxCPU] /\ alive' \subseteq Procs
      /\ parent' \in [Procs -> Procs \cup {None}] /\ root' \in Procs \cup {None}
  <2> USE KubeletBounds DEF MetricTypeOK
  <2>1. CASE RunWorkload
    BY <2>1 DEF RunWorkload
  <2>2. CASE Fork
    BY <2>2 DEF Fork
  <2>3. CASE Burn
    BY <2>3 DEF Burn
  <2>4. CASE Exit
    BY <2>4 DEF Exit
  <2> QED BY <2>1, <2>2, <2>3, <2>4 DEF Processes
<1> QED BY <1>1, <1>2 DEF MetricTypeOK, metricVars, bounds

\* What a step of a scrape leaves behind: its locals, and at most one counter.
LEMMA HandleTypes ==
  ASSUME MetricTypeOK, NEW i \in Scrapes, Handle(i) PROVE MetricTypeOK'
<1>1. UNCHANGED <<processVars, bounds>> /\ scrape[i] \in Scrape
  BY DEF Handle, ReadProcesses, CountNode, InspectWorkload, CountContainer, Handler, MetricTypeOK
<1>2. SUFFICES /\ \E t \in Scrape : scrape' = [scrape EXCEPT ![i] = t]
               /\ nodeCPU' \in Counter /\ containerCPU' \in Counter
  BY <1>1 DEF MetricTypeOK, processVars, bounds
<1>3. CASE ReadProcesses(i)
  <2>1. [at |-> "node", seen |-> alive, root |-> None, parent |-> parent,
         cpu |-> [p \in Procs |-> IF p \in alive THEN cpu[p] ELSE 0]] \in Scrape
    BY KubeletBounds DEF MetricTypeOK, Scrape
  <2> QED BY <1>3, <2>1 DEF ReadProcesses, Handler, MetricTypeOK
<1>4. CASE CountNode(i)
  <2>1. [scrape[i] EXCEPT !.at = "inspect"] \in Scrape
    BY <1>1, ScrapeTypes
  <2>2. UpdateCounter(nodeCPU, Total(scrape[i].seen, scrape[i].cpu), None) \in Counter
    BY <1>1, ProcessTreeTotal, UpdateCounterTypes DEF MetricTypeOK
  <2> QED BY <1>4, <2>1, <2>2 DEF CountNode, Handler, MetricTypeOK
<1>5. CASE InspectWorkload(i)
  <2>1. root \in Procs => [scrape[i] EXCEPT !.at = "container", !.root = root] \in Scrape
    BY <1>1, ScrapeTypes
  <2>2. root \in alive \cap scrape[i].seen => root \in Procs
    BY DEF MetricTypeOK
  <2> QED BY <1>5, <2>1, <2>2, IdleScrape DEF InspectWorkload, Handler, MetricTypeOK
<1>6. CASE CountContainer(i)
  <2>1. UpdateCounter(containerCPU, Total(ProcessTree(scrape[i]), scrape[i].cpu),
                      scrape[i].root) \in Counter
    BY <1>1, ProcessTreeTotal, UpdateCounterTypes, ScrapeTypes DEF MetricTypeOK
  <2> QED BY <1>6, <2>1, IdleScrape DEF CountContainer, Handler, MetricTypeOK
<1> QED BY <1>3, <1>4, <1>5, <1>6 DEF Handle

LEMMA MetricNext ==
  ASSUME TunnelTypeOK, MetricTypeOK, [Next]_vars PROVE MetricTypeOK'
<1>1. CASE UNCHANGED vars
  BY <1>1 DEF vars, processVars, metricVars, bounds, MetricTypeOK
<1> QED BY <1>1, ServiceTypes, ProcessTypes, HandleTypes DEF Next

LEMMA KubeletTypesAlways == Spec => [](KubeletTypeOK /\ HeldInv)
<1>1. Init => MetricTypeOK
  BY KubeletBounds, IdleScrape DEF Init, MetricTypeOK, Fresh, Counter
<1> QED BY <1>1, HeldInit, HeldNext, MetricNext, PTL DEF Spec, KubeletTypeOK

\* The tunnels, the processes, the counters and what the scrapes hold are always of their
\* types; the totals a scrape counts are natural numbers whatever table it has read.
THEOREM KubeletTypesKept == Spec => []KubeletTypeOK
  BY KubeletTypesAlways, PTL

-----------------------------------------------------------------------------
\* What the counters count

\* Processes that run or have run
Born == {p \in Procs : cpu[p] > 0}

\* What the processes and the scrapes refer to has been born, and a root that took the
\* place of the one a scrape was given has nobody in the table of that scrape.
BornInv ==
  /\ alive \subseteq Born
  /\ \A p \in Procs : parent[p] \in Born \cup {None}
  /\ root \in Born \cup {None} /\ containerCPU.rootPID \in Born \cup {None}
  /\ \A i \in Scrapes : /\ scrape[i].seen \subseteq Born
                        /\ \A p \in Procs : scrape[i].cpu[p] <= cpu[p]
  /\ \A i \in Scrapes : scrape[i].at = "container" =>
       /\ scrape[i].root \in scrape[i].seen
       /\ scrape[i].root # root => RunningTree \cap scrape[i].seen = {}

\* A process consumes more or nothing; those that begin to run or join the tree of the
\* workload have consumed nothing yet.
ProcessesGrow ==
  /\ \A p \in Procs : cpu[p] <= cpu'[p]
  /\ \A p \in (alive' \ alive) \cup (RunningTree' \ RunningTree) : p \in Procs /\ cpu[p] = 0
  /\ root' = root \/ (root' \in Procs /\ cpu[root'] = 0 /\ root \notin alive)
  /\ alive' \subseteq Born'
  /\ \A p \in Procs : parent'[p] \in Born' \cup {None}
  /\ root' \in Born' \cup {None}

LEMMA ProcessStep ==
  ASSUME KubeletTypeOK, BornInv, Processes PROVE ProcessesGrow
<1> USE DEF KubeletTypeOK, MetricTypeOK, Born
<1>a. cpu \in [Procs -> Nat] /\ alive \in SUBSET Procs
  BY KubeletBounds
<1>b. \A p \in Procs : cpu[p] = 0 => p \notin alive /\ \A c \in Procs : parent[c] # p
  BY NamesAssumption DEF BornInv
<1>1. CASE RunWorkload
  <2>1. PICK p \in Procs : /\ cpu[p] = 0 /\ root' = p /\ alive' = alive \cup {p}
                           /\ cpu' = [cpu EXCEPT ![p] = 1]
    BY <1>1 DEF RunWorkload, New
  <2>2. UNCHANGED parent /\ root \notin alive
    BY <1>1 DEF RunWorkload
  <2>3. RunningTree' \subseteq {p}
    <3>1. Descendants(alive', parent, p) \subseteq {p}
      BY <1>a, <1>b, <2>1, TreeOfRun
    <3> QED BY <2>1, <2>2, <3>1 DEF RunningTree
  <2> QED BY <1>a, <2>1, <2>2, <2>3 DEF ProcessesGrow, BornInv
<1>2. CASE Fork
  <2>1. PICK p \in alive, child \in Procs :
          /\ cpu[child] = 0 /\ parent' = [parent EXCEPT ![child] = p]
          /\ alive' = alive \cup {child} /\ cpu' = [cpu EXCEPT ![child] = 1]
    BY <1>2 DEF Fork, New
  <2>2. UNCHANGED root /\ child \notin alive /\ root # child
    BY <1>2, <1>b, <2>1, NamesAssumption DEF Fork, BornInv
  <2>3. RunningTree' \subseteq RunningTree \cup {child}
    <3> SUFFICES ASSUME root \in alive PROVE RunningTree' \subseteq RunningTree \cup {child}
      BY <2>1, <2>2 DEF RunningTree
    <3>1. Descendants(alive \cup {child}, [parent EXCEPT ![child] = p], root)
            \subseteq Descendants(alive, parent, root) \cup {child}
      BY <1>a, <1>b, <2>1, <2>2, TreeOfFork
    <3> QED BY <2>1, <2>2, <3>1 DEF RunningTree
  <2> QED BY <1>a, <2>1, <2>2, <2>3 DEF ProcessesGrow, BornInv
<1>3. CASE Burn
  <2>1. PICK p \in alive : cpu' = [cpu EXCEPT ![p] = @ + 1]
    BY <1>3 DEF Burn
  <2>2. UNCHANGED <<alive, parent, root>> /\ UNCHANGED RunningTree
    BY <1>3 DEF Burn, RunningTree
  <2> QED BY <1>a, <2>1, <2>2 DEF ProcessesGrow, BornInv
<1>4. CASE Exit
  <2>1. PICK p \in alive :
          /\ alive' = alive \ {p}
          /\ parent' = [c \in Procs |-> IF parent[c] = p THEN None ELSE parent[c]]
    BY <1>4 DEF Exit
  <2>2. UNCHANGED <<cpu, root>>
    BY <1>4 DEF Exit
  <2>3. RunningTree' \subseteq RunningTree
    <3> SUFFICES ASSUME root \in alive \ {p} PROVE RunningTree' \subseteq RunningTree
      BY <2>1, <2>2 DEF RunningTree
    <3>1. Descendants(alive \ {p},
                      [c \in Procs |-> IF parent[c] = p THEN None ELSE parent[c]], root)
            \subseteq Descendants(alive, parent, root)
      BY <1>a, <2>1, TreeOfExit
    <3> QED BY <2>1, <2>2, <3>1 DEF RunningTree
  <2> QED BY <1>a, <2>1, <2>2, <2>3 DEF ProcessesGrow, BornInv
<1> QED BY <1>1, <1>2, <1>3, <1>4 DEF Processes

LEMMA BornProcesses ==
  ASSUME KubeletTypeOK, KubeletTypeOK', BornInv, ProcessesGrow, UNCHANGED metricVars
  PROVE  BornInv'
<1>1. scrape' = scrape /\ containerCPU' = containerCPU
  BY DEF metricVars
<1>2. /\ \A p \in Procs : cpu[p] \in Nat /\ cpu'[p] \in Nat
      /\ \A i \in Scrapes : scrape[i].cpu \in [Procs -> Nat]
  BY KubeletBounds DEF KubeletTypeOK, MetricTypeOK, Scrape
<1>3. Born \subseteq Born'
  BY <1>2 DEF Born, ProcessesGrow
<1>4. ASSUME NEW i \in Scrapes PROVE \A p \in Procs : scrape'[i].cpu[p] <= cpu'[p]
  <2> SUFFICES ASSUME NEW p \in Procs PROVE scrape[i].cpu[p] <= cpu'[p]
    BY <1>1
  <2>1. scrape[i].cpu[p] \in Nat /\ scrape[i].cpu[p] <= cpu[p] /\ cpu[p] <= cpu'[p]
    BY <1>2 DEF BornInv, ProcessesGrow
  <2> QED BY <1>2, <2>1
<1>5. ASSUME NEW i \in Scrapes, scrape[i].at = "container", scrape[i].root # root'
      PROVE  RunningTree' \cap scrape[i].seen = {}
  <2>1. \A p \in scrape[i].seen : p \in Procs /\ cpu[p] # 0
    BY <1>2 DEF BornInv, Born
  <2>2. CASE root' = root
    BY <1>5, <2>1, <2>2 DEF BornInv, ProcessesGrow
  <2>3. CASE root' # root
    <3>1. RunningTree = {}
      BY <2>3 DEF ProcessesGrow, RunningTree
    <3> QED BY <2>1, <3>1 DEF ProcessesGrow
  <2> QED BY <2>2, <2>3
<1>6. /\ alive' \subseteq Born' /\ root' \in Born' \cup {None}
      /\ \A p \in Procs : parent'[p] \in Born' \cup {None}
  BY DEF ProcessesGrow
<1> QED BY <1>1, <1>3, <1>4, <1>5, <1>6 DEF BornInv

\* A scrape takes only living processes from the table and a root that is among them.
LEMMA BornHandle ==
  ASSUME KubeletTypeOK, BornInv, NEW i \in Scrapes, Handle(i) PROVE BornInv'
<1>1. UNCHANGED <<cpu, alive, parent, root>>
  BY DEF Handle, ReadProcesses, CountNode, InspectWorkload, CountContainer, Handler, processVars
<1>2. Born' = Born /\ RunningTree' = RunningTree
  BY <1>1 DEF Born, RunningTree
<1>3. scrape \in [Scrapes -> Scrape] /\ cpu \in [Procs -> 0..MaxCPU] /\ scrape[i] \in Scrape
  BY DEF KubeletTypeOK, MetricTypeOK
<1>4. PICK t : scrape' = [scrape EXCEPT ![i] = t] /\ Handler(i, t)
  BY DEF Handle, ReadProcesses, CountNode, InspectWorkload, CountContainer, Handler
<1>5. SUFFICES /\ t.seen \subseteq Born /\ \A p \in Procs : t.cpu[p] <= cpu[p]
               /\ t.at = "container" => /\ t.root \in t.seen
                                        /\ t.root # root => RunningTree \cap t.seen = {}
               /\ containerCPU'.rootPID \in Born \cup {None}
  BY <1>1, <1>2, <1>3, <1>4 DEF BornInv
<1>6. t = scrape'[i]
  BY <1>3, <1>4
<1>7. CASE ReadProcesses(i)
  BY <1>3, <1>6, <1>7, KubeletBounds DEF ReadProcesses, Handler, BornInv
<1>8. CASE CountNode(i)
  BY <1>3, <1>6, <1>8 DEF CountNode, Handler, BornInv, Scrape
<1>9. CASE InspectWorkload(i)
  <2>1. UNCHANGED containerCPU /\ scrape[i].at = "inspect"
    BY <1>9 DEF InspectWorkload
  <2>2. CASE root \in alive \cap scrape[i].seen
    <3>1. t = [scrape[i] EXCEPT !.at = "container", !.root = root]
      BY <1>3, <1>6, <1>9, <2>2 DEF InspectWorkload, Handler
    <3>2. t.seen = scrape[i].seen /\ t.cpu = scrape[i].cpu /\ t.root = root
      BY <1>3, <3>1 DEF Scrape
    <3> QED BY <2>1, <2>2, <3>2 DEF BornInv
  <2>3. CASE root \notin alive \cap scrape[i].seen
    <3>1. t = Idle
      BY <1>3, <1>6, <1>9, <2>3 DEF InspectWorkload, Handler
    <3> QED BY <1>3, <2>1, <3>1, KubeletBounds DEF Idle, BornInv
  <2> QED BY <2>2, <2>3
<1>10. CASE CountContainer(i)
  <2>1. t = Idle
    BY <1>3, <1>6, <1>10 DEF CountContainer, Handler
  <2>2. containerCPU'.rootPID \in {containerCPU.rootPID, scrape[i].root}
    BY <1>10 DEF CountContainer, UpdateCounter
  <2>3. scrape[i].root \in Born
    BY <1>10 DEF CountContainer, BornInv
  <2> QED BY <1>3, <2>1, <2>2, <2>3, KubeletBounds DEF Idle, BornInv
<1> QED BY <1>7, <1>8, <1>9, <1>10 DEF Handle

\* The CPU times of a step's state, of the next one and of the tables read are numbers.
LEMMA Times ==
  ASSUME KubeletTypeOK
  PROVE  /\ cpu \in [Procs -> Nat] /\ \A i \in Scrapes : scrape[i].cpu \in [Procs -> Nat]
         /\ \A i \in Scrapes : scrape[i] \in Scrape /\ scrape[i].seen \in SUBSET Procs
         /\ alive \in SUBSET Procs /\ RunningTree \in SUBSET Procs
<1>1. cpu \in [Procs -> Nat] /\ alive \in SUBSET Procs
  BY KubeletBounds DEF KubeletTypeOK, MetricTypeOK
<1>2. \A i \in Scrapes : /\ scrape[i] \in Scrape /\ scrape[i].cpu \in [Procs -> Nat]
                         /\ scrape[i].seen \in SUBSET Procs
  BY KubeletBounds DEF KubeletTypeOK, MetricTypeOK, Scrape
<1>3. RunningTree \in SUBSET Procs
  BY <1>1, TreeWithin DEF RunningTree
<1> QED BY <1>1, <1>2, <1>3

\* What is out of reach of the scrapes to come only grows.
LEMMA RestGrows ==
  ASSUME KubeletTypeOK, KubeletTypeOK', ProcessesGrow
  PROVE  /\ Total(Procs, cpu) <= Total(Procs, cpu')
         /\ \A S \in SUBSET Procs :
              /\ Total(Procs \ (alive \cup S), cpu) <= Total(Procs \ (alive' \cup S), cpu')
              /\ Total(Procs \ (RunningTree \cup S), cpu)
                   <= Total(Procs \ (RunningTree' \cup S), cpu')
<1>1. cpu \in [Procs -> Nat] /\ cpu' \in [Procs -> Nat] /\ \A p \in Procs : cpu[p] <= cpu'[p]
  BY Times DEF ProcessesGrow, KubeletTypeOK, MetricTypeOK
<1>2. Total(Procs, cpu) <= Total(Procs, cpu')
  BY <1>1, TotalGrows
<1>3. ASSUME NEW A \in SUBSET Procs, NEW B \in SUBSET Procs,
             \A p \in Procs : p \in A \/ cpu[p] = 0 \/ p \notin B
      PROVE  Total(Procs \ A, cpu) <= Total(Procs \ B, cpu')
  <2>1. \A p \in Procs \ A : cpu[p] = 0 \/ (p \in Procs \ B /\ cpu[p] <= cpu'[p])
    BY <1>1, <1>3
  <2>2. Procs \ A \in SUBSET Procs /\ Procs \ B \in SUBSET Procs
    OBVIOUS
  <2> QED BY <1>1, <2>1, <2>2, TotalGrows
<1>4. ASSUME NEW S \in SUBSET Procs
      PROVE  Total(Procs \ (alive \cup S), cpu) <= Total(Procs \ (alive' \cup S), cpu')
  <2>1. alive \cup S \in SUBSET Procs /\ alive' \cup S \in SUBSET Procs
    BY Times, <1>4 DEF KubeletTypeOK, MetricTypeOK
  <2> QED BY <1>3, <2>1 DEF ProcessesGrow
<1>5. ASSUME NEW S \in SUBSET Procs
      PROVE  Total(Procs \ (RunningTree \cup S), cpu) <= Total(Procs \ (RunningTree' \cup S), cpu')
  <2>1. alive' \in SUBSET Procs
    BY DEF KubeletTypeOK, MetricTypeOK
  <2>2. RunningTree' \in SUBSET Procs
    BY <2>1, TreeWithin DEF RunningTree
  <2>3. RunningTree \cup S \in SUBSET Procs /\ RunningTree' \cup S \in SUBSET Procs
    BY Times, <1>5, <2>2
  <2> QED BY <1>3, <2>3 DEF ProcessesGrow
<1> QED BY <1>2, <1>4, <1>5

-----------------------------------------------------------------------------
\* The counter of the node

\* What the counter has beyond its last reading was consumed by processes that will not be
\* read again; while a scrape holds a table, by others than those in it, and then the
\* counter is not above what those in the table and the lost ones have consumed.
NodeInv ==
  /\ ~nodeCPU.initialized => nodeCPU.value = 0
  /\ nodeCPU.value <= Total(Procs, cpu)
  /\ nodeCPU.value <= nodeCPU.observed + Total(Procs \ alive, cpu)
  /\ \A i \in Scrapes : scrape[i].at = "node" =>
       LET rest == Total(Procs \ (alive \cup scrape[i].seen), cpu)
       IN /\ nodeCPU.value <= nodeCPU.observed + rest
          /\ nodeCPU.value <= Total(scrape[i].seen, scrape[i].cpu) + rest

LEMMA NodeProcesses ==
  ASSUME KubeletTypeOK, KubeletTypeOK', NodeInv, ProcessesGrow, UNCHANGED metricVars
  PROVE  NodeInv'
<1>1. nodeCPU' = nodeCPU /\ scrape' = scrape
  BY DEF metricVars
<1>2. nodeCPU.value \in Nat /\ nodeCPU.observed \in Nat
  BY DEF KubeletTypeOK, MetricTypeOK, Counter
<1>3. ASSUME NEW m \in Nat, NEW n \in Nat, NEW k \in Nat, m <= n
      PROVE  (nodeCPU.value <= k + m => nodeCPU.value <= k + n)
  BY <1>2, <1>3
<1>4. nodeCPU'.value <= Total(Procs, cpu')
  <2>1. Total(Procs, cpu) \in Nat /\ Total(Procs, cpu') \in Nat
    BY TotalType
  <2> QED BY <1>1, <1>2, <2>1, RestGrows DEF NodeInv
<1>5. nodeCPU'.value <= nodeCPU'.observed + Total(Procs \ alive', cpu')
  <2>1. {} \in SUBSET Procs /\ alive \cup {} = alive /\ alive' \cup {} = alive'
    OBVIOUS
  <2>2. Total(Procs \ alive, cpu) <= Total(Procs \ alive', cpu')
    BY <2>1, RestGrows
  <2>3. Total(Procs \ alive, cpu) \in Nat /\ Total(Procs \ alive', cpu') \in Nat
    <3>1. Procs \ alive \in SUBSET Procs /\ Procs \ alive' \in SUBSET Procs
      OBVIOUS
    <3> QED BY <3>1, TotalType
  <2> QED BY <1>1, <1>2, <1>3, <2>2, <2>3 DEF NodeInv
<1>6. ASSUME NEW i \in Scrapes, scrape[i].at = "node"
      PROVE  LET rest == Total(Procs \ (alive' \cup scrape[i].seen), cpu')
             IN /\ nodeCPU.value <= nodeCPU.observed + rest
                /\ nodeCPU.value <= Total(scrape[i].seen, scrape[i].cpu) + rest
  <2> DEFINE before == Total(Procs \ (alive \cup scrape[i].seen), cpu)
             after  == Total(Procs \ (alive' \cup scrape[i].seen), cpu')
             now    == Total(scrape[i].seen, scrape[i].cpu)
  <2>1. scrape[i].seen \in SUBSET Procs
    BY Times
  <2>2. before <= after
    BY <2>1, RestGrows
  <2>3. before \in Nat /\ after \in Nat /\ now \in Nat
    <3>1. /\ Procs \ (alive \cup scrape[i].seen) \in SUBSET Procs
          /\ Procs \ (alive' \cup scrape[i].seen) \in SUBSET Procs
      OBVIOUS
    <3> QED BY <2>1, <3>1, TotalType
  <2>4. nodeCPU.value <= nodeCPU.observed + before /\ nodeCPU.value <= now + before
    BY <1>6 DEF NodeInv
  <2> HIDE DEF before, after, now
  <2>5. nodeCPU.value <= nodeCPU.observed + after /\ nodeCPU.value <= now + after
    BY <1>2, <2>2, <2>3, <2>4
  <2> QED BY <2>5 DEF after, now
<1>7. nodeCPU'.initialized = nodeCPU.initialized /\ nodeCPU'.value = nodeCPU.value
  BY <1>1
<1> QED BY <1>1, <1>4, <1>5, <1>6, <1>7 DEF NodeInv

\* A reading never makes a counter more than the reading and what it cannot see together.
LEMMA CounterCovered ==
  ASSUME NEW counter \in Counter, NEW now \in Nat, NEW rootPID \in Procs \cup {None},
         NEW rest \in Nat,
         counter.initialized \/ counter.value = 0,
         IF counter.rootPID # None /\ rootPID # None /\ counter.rootPID # rootPID
         THEN counter.value <= rest
         ELSE counter.value <= counter.observed + rest /\ counter.value <= now + rest
  PROVE  LET c == UpdateCounter(counter, now, rootPID)
         IN /\ c.value <= now + rest /\ c.observed = now /\ c.initialized
            /\ c.rootPID = IF rootPID # None THEN rootPID ELSE counter.rootPID
<1>1. counter.value \in Nat /\ counter.observed \in Nat
  BY DEF Counter
<1> QED BY <1>1 DEF UpdateCounter

LEMMA NodeHandle ==
  ASSUME \A i, j \in Scrapes : i = j,
         KubeletTypeOK, BornInv, NodeInv, NEW i \in Scrapes, Handle(i)
  PROVE  NodeInv'
<1>1. UNCHANGED <<cpu, alive>>
  BY DEF Handle, ReadProcesses, CountNode, InspectWorkload, CountContainer, Handler, processVars
<1>2. /\ scrape \in [Scrapes -> Scrape] /\ scrape[i] \in Scrape /\ cpu \in [Procs -> Nat]
      /\ nodeCPU.value \in Nat /\ nodeCPU.observed \in Nat /\ nodeCPU \in Counter
      /\ alive \in SUBSET Procs /\ scrape[i].seen \in SUBSET Procs
      /\ scrape[i].cpu \in [Procs -> Nat]
  BY Times DEF KubeletTypeOK, MetricTypeOK, Counter
<1>3. CASE ReadProcesses(i)
  <2>1. /\ UNCHANGED nodeCPU /\ scrape'[i].seen = alive
        /\ scrape'[i].cpu = [p \in Procs |-> IF p \in alive THEN cpu[p] ELSE 0]
    BY <1>2, <1>3 DEF ReadProcesses, Handler
  <2> DEFINE time == [p \in Procs |-> IF p \in alive THEN cpu[p] ELSE 0]
  <2>2. alive \cup alive = alive /\ alive \cup (Procs \ alive) = Procs
    BY <1>2
  <2>3. Total(Procs, cpu) = Total(alive, cpu) + Total(Procs \ alive, cpu)
    <3>1. Procs \ alive \in SUBSET Procs /\ alive \cap (Procs \ alive) = {}
      OBVIOUS
    <3> QED BY <1>2, <2>2, <3>1, TotalSplits
  <2>4. Total(alive, cpu) <= Total(alive, time)
    <3>1. time \in [Procs -> Nat] /\ \A p \in alive : p \in alive /\ cpu[p] <= time[p]
      BY <1>2
    <3> QED BY <1>2, <3>1, TotalGrows
  <2>5. /\ Total(alive, cpu) \in Nat /\ Total(alive, time) \in Nat
        /\ Total(Procs \ alive, cpu) \in Nat
    <3>1. Procs \ alive \in SUBSET Procs
      OBVIOUS
    <3> QED BY <1>2, <3>1, TotalType
  <2> HIDE DEF time
  <2>6. nodeCPU.value <= Total(alive, time) + Total(Procs \ alive, cpu)
    BY <1>2, <2>3, <2>4, <2>5 DEF NodeInv
  <2>7. \A j \in Scrapes : j = i
    OBVIOUS
  <2> QED BY <1>1, <2>1, <2>2, <2>6, <2>7 DEF NodeInv, time
<1>4. CASE CountNode(i)
  <2> DEFINE now  == Total(scrape[i].seen, scrape[i].cpu)
             rest == Total(Procs \ (alive \cup scrape[i].seen), cpu)
  <2>1. now \in Nat /\ rest \in Nat
    <3>1. Procs \ (alive \cup scrape[i].seen) \in SUBSET Procs
      OBVIOUS
    <3> QED BY <1>2, <3>1, TotalType
  <2>2. nodeCPU' = UpdateCounter(nodeCPU, now, None) /\ scrape[i].at = "node"
    BY <1>4 DEF CountNode
  <2>3. nodeCPU.value <= nodeCPU.observed + rest /\ nodeCPU.value <= now + rest
        /\ (nodeCPU.initialized \/ nodeCPU.value = 0)
    BY <2>2 DEF NodeInv
  <2>4. rest <= Total(Procs \ alive, cpu) /\ Total(Procs \ alive, cpu) \in Nat
    <3>1. /\ Procs \ (alive \cup scrape[i].seen) \in SUBSET Procs /\ Procs \ alive \in SUBSET Procs
          /\ \A p \in Procs \ (alive \cup scrape[i].seen) : p \in Procs \ alive /\ cpu[p] <= cpu[p]
      BY <1>2
    <3> QED BY <1>2, <3>1, TotalGrows, TotalType
  <2>5. now + rest <= Total(Procs, cpu) /\ Total(Procs, cpu) \in Nat
    <3> DEFINE S == scrape[i].seen
    <3>1. Total(S, scrape[i].cpu) <= Total(S, cpu)
      <4>1. \A p \in S : p \in S /\ scrape[i].cpu[p] <= cpu[p]
        BY <1>2 DEF BornInv
      <4> QED BY <1>2, <4>1, TotalGrows
    <3>2. rest <= Total(Procs \ S, cpu)
      <4>1. /\ Procs \ (alive \cup S) \in SUBSET Procs /\ Procs \ S \in SUBSET Procs
            /\ \A p \in Procs \ (alive \cup S) : p \in Procs \ S /\ cpu[p] <= cpu[p]
        BY <1>2
      <4> QED BY <1>2, <4>1, TotalGrows
    <3>3. Total(Procs, cpu) = Total(S, cpu) + Total(Procs \ S, cpu)
      <4>1. S \cup (Procs \ S) = Procs /\ S \cap (Procs \ S) = {} /\ Procs \ S \in SUBSET Procs
        BY <1>2
      <4> QED BY <1>2, <4>1, TotalSplits
    <3>4. Total(S, cpu) \in Nat /\ Total(Procs \ S, cpu) \in Nat
      <4>1. Procs \ S \in SUBSET Procs
        OBVIOUS
      <4> QED BY <1>2, <4>1, TotalType
    <3> HIDE DEF rest
    <3> QED BY <2>1, <3>1, <3>2, <3>3, <3>4
  <2> HIDE DEF now, rest
  <2>6. nodeCPU'.value <= now + rest /\ nodeCPU'.observed = now /\ nodeCPU'.initialized
    BY <1>2, <2>1, <2>2, <2>3, CounterCovered
  <2>7. nodeCPU'.value \in Nat
    BY <1>2, <2>1, <2>2, UpdateCounterTypes DEF Counter
  <2>8. \A j \in Scrapes : scrape'[j].at # "node"
    BY <1>2, <1>4 DEF CountNode, Handler, Scrape
  <2>9. nodeCPU'.value <= Total(Procs, cpu) /\ nodeCPU'.value <= now + Total(Procs \ alive, cpu)
    BY <2>1, <2>4, <2>5, <2>6, <2>7
  <2> QED BY <1>1, <2>6, <2>8, <2>9 DEF NodeInv
<1>5. CASE InspectWorkload(i) \/ CountContainer(i)
  <2>1. \/ scrape'[i] = Idle
        \/ scrape'[i] = [scrape[i] EXCEPT !.at = "container", !.root = root]
    BY <1>2, <1>5 DEF InspectWorkload, CountContainer, Handler
  <2>2. [scrape[i] EXCEPT !.at = "container", !.root = root].at = "container"
    BY <1>2 DEF Scrape
  <2>3. UNCHANGED nodeCPU
    BY <1>5 DEF InspectWorkload, CountContainer
  <2>5. scrape'[i].at # "node"
    <3>1. Idle.at = "idle"
      BY DEF Idle
    <3>2. scrape'[i].at \in {"idle", "container"}
      BY <2>1, <2>2, <3>1
    <3> QED BY <3>2
  <2>4. \A j \in Scrapes : j = i
    OBVIOUS
  <2> QED BY <1>1, <2>3, <2>4, <2>5 DEF NodeInv
<1> QED BY <1>3, <1>4, <1>5 DEF Handle

-----------------------------------------------------------------------------
\* The counter of the workload

\* The root a scrape will count from, if it has it in its table
Inspected(i) == IF scrape[i].at = "container" THEN scrape[i].root ELSE root

InspectedTree(i) == Descendants(scrape[i].seen, scrape[i].parent, Inspected(i))

\* What the counter has beyond its last reading, all of it when that was of another root,
\* was consumed outside the tree of the running workload; while a scrape holds a table,
\* outside the tree it will count as well.
ContainerInv ==
  /\ ~containerCPU.initialized => containerCPU.value = 0
  /\ containerCPU.initialized => containerCPU.rootPID # None
  /\ containerCPU.value <= Total(Procs, cpu)
  /\ LET rest == Total(Procs \ RunningTree, cpu)
     IN IF containerCPU.rootPID = root THEN containerCPU.value <= containerCPU.observed + rest
        ELSE containerCPU.value <= rest
  /\ \A i \in Scrapes : scrape[i].at # "idle" /\ Inspected(i) \in scrape[i].seen =>
       LET rest == Total(Procs \ (RunningTree \cup InspectedTree(i)), cpu)
       IN IF containerCPU.rootPID = Inspected(i)
          THEN /\ containerCPU.value <= containerCPU.observed + rest
               /\ containerCPU.value <= Total(InspectedTree(i), scrape[i].cpu) + rest
          ELSE containerCPU.value <= rest

LEMMA ContainerProcesses ==
  ASSUME KubeletTypeOK, KubeletTypeOK', BornInv, ContainerInv, ProcessesGrow,
         UNCHANGED metricVars
  PROVE  ContainerInv'
<1> DEFINE value == containerCPU.value
           observed == containerCPU.observed
<1>1. containerCPU' = containerCPU /\ scrape' = scrape
  BY DEF metricVars
<1>2. value \in Nat /\ observed \in Nat /\ root' \in Procs \cup {None} /\ alive' \in SUBSET Procs
  BY DEF KubeletTypeOK, MetricTypeOK, Counter
<1>3. RunningTree \in SUBSET Procs /\ RunningTree' \in SUBSET Procs
  <2>1. RunningTree' \subseteq alive'
    BY TreeWithin DEF RunningTree
  <2> QED BY <1>2, <2>1, Times
<1>4. cpu \in [Procs -> Nat] /\ cpu' \in [Procs -> Nat] /\ \A p \in Procs : cpu[p] <= cpu'[p]
  BY Times DEF ProcessesGrow, KubeletTypeOK, MetricTypeOK
<1>5. value <= Total(Procs, cpu) /\ Total(Procs, cpu) <= Total(Procs, cpu')
      /\ Total(Procs, cpu) \in Nat /\ Total(Procs, cpu') \in Nat
  BY TotalType, RestGrows DEF ContainerInv
<1>6. LET rest == Total(Procs \ RunningTree', cpu')
      IN IF containerCPU.rootPID = root' THEN value <= observed + rest ELSE value <= rest
  <2> DEFINE before == Total(Procs \ RunningTree, cpu)
             after  == Total(Procs \ RunningTree', cpu')
  <2>1. before \in Nat /\ after \in Nat
    <3>1. Procs \ RunningTree \in SUBSET Procs /\ Procs \ RunningTree' \in SUBSET Procs
      OBVIOUS
    <3> QED BY <3>1, TotalType
  <2>2. before <= after
    <3>1. {} \in SUBSET Procs /\ RunningTree \cup {} = RunningTree
          /\ RunningTree' \cup {} = RunningTree'
      OBVIOUS
    <3> QED BY <3>1, RestGrows
  <2>3. IF containerCPU.rootPID = root THEN value <= observed + before ELSE value <= before
    BY DEF ContainerInv
  <2>4. CASE root' = root
    <3> HIDE DEF before, after
    <3>1. IF containerCPU.rootPID = root THEN value <= observed + after ELSE value <= after
      BY <1>2, <2>1, <2>2, <2>3
    <3> QED BY <2>4, <3>1 DEF after
  <2>5. CASE root' # root
    <3>1. root' \in Procs /\ cpu[root'] = 0 /\ RunningTree = {}
      BY <2>5 DEF ProcessesGrow, RunningTree
    <3>2. containerCPU.rootPID # root'
      BY <3>1, NamesAssumption DEF BornInv, Born
    <3>3. before = Total(Procs, cpu)
      <4>1. Procs \ {} = Procs
        OBVIOUS
      <4> QED BY <3>1, <4>1
    <3> HIDE DEF before, after
    <3>4. value <= after
      BY <1>2, <1>5, <2>1, <2>2, <3>3
    <3> QED BY <3>2, <3>4 DEF after
  <2> QED BY <2>4, <2>5
<1>7. ASSUME NEW i \in Scrapes, scrape[i].at # "idle", Inspected(i)' \in scrape[i].seen
      PROVE  /\ Inspected(i)' = Inspected(i) /\ InspectedTree(i)' = InspectedTree(i)
             /\ LET rest == Total(Procs \ (RunningTree' \cup InspectedTree(i)), cpu')
                IN IF containerCPU.rootPID = Inspected(i)
                   THEN /\ value <= observed + rest
                        /\ value <= Total(InspectedTree(i), scrape[i].cpu) + rest
                   ELSE value <= rest
  <2>1. Inspected(i)' = Inspected(i)
    <3>1. root' # root => root' \notin scrape[i].seen
      BY DEF ProcessesGrow, BornInv, Born
    <3> QED BY <1>1, <1>7, <3>1 DEF Inspected
  <2>2. InspectedTree(i)' = InspectedTree(i)
    BY <1>1, <2>1 DEF InspectedTree
  <2> DEFINE S      == InspectedTree(i)
             before == Total(Procs \ (RunningTree \cup S), cpu)
             after  == Total(Procs \ (RunningTree' \cup S), cpu')
             now    == Total(S, scrape[i].cpu)
  <2>3. S \in SUBSET Procs
    BY Times, TreeWithin DEF InspectedTree
  <2>4. before <= after
    BY <2>3, RestGrows
  <2>5. before \in Nat /\ after \in Nat /\ now \in Nat
    <3>1. /\ Procs \ (RunningTree \cup S) \in SUBSET Procs
          /\ Procs \ (RunningTree' \cup S) \in SUBSET Procs
      OBVIOUS
    <3> QED BY <2>3, <3>1, TotalType
  <2>6. IF containerCPU.rootPID = Inspected(i)
        THEN value <= observed + before /\ value <= now + before ELSE value <= before
    BY <1>7, <2>1 DEF ContainerInv
  <2> HIDE DEF before, after, now
  <2>7. IF containerCPU.rootPID = Inspected(i)
        THEN value <= observed + after /\ value <= now + after ELSE value <= after
    BY <1>2, <2>4, <2>5, <2>6
  <2> QED BY <2>1, <2>2, <2>7 DEF after, now
<1>8. value <= Total(Procs, cpu')
  BY <1>2, <1>5
<1> QED BY <1>1, <1>6, <1>7, <1>8 DEF ContainerInv

\* A counter that has counted the tree of its own root, or of one that is no longer the
\* workload's, covers the readings to come.
LEMMA ContainerCounted ==
  ASSUME \A i, j \in Scrapes : i = j,
         KubeletTypeOK, BornInv, ContainerInv, NEW i \in Scrapes, CountContainer(i)
  PROVE  ContainerInv'
<1> DEFINE r    == scrape[i].root
           S    == ProcessTree(scrape[i])
           now  == Total(S, scrape[i].cpu)
           rest == Total(Procs \ (RunningTree \cup S), cpu)
<1>1. UNCHANGED <<cpu, alive, parent, root, RunningTree>>
  BY DEF CountContainer, Handler, processVars, RunningTree
<1>2. /\ scrape \in [Scrapes -> Scrape] /\ cpu \in [Procs -> Nat] /\ containerCPU \in Counter
      /\ scrape[i].cpu \in [Procs -> Nat] /\ scrape[i].seen \in SUBSET Procs
      /\ RunningTree \in SUBSET Procs
  BY Times DEF KubeletTypeOK, MetricTypeOK
<1>3. scrape[i].at = "container" /\ r \in scrape[i].seen /\ r \in Procs /\ r # None
      /\ (r # root => RunningTree \cap scrape[i].seen = {})
  BY <1>2, NamesAssumption DEF CountContainer, BornInv
<1>4. S = InspectedTree(i) /\ Inspected(i) = r /\ S \in SUBSET scrape[i].seen
      /\ S \in SUBSET Procs
  BY <1>2, <1>3, TreeWithin DEF InspectedTree, Inspected, ProcessTree
<1>5. now \in Nat /\ rest \in Nat
  <2>1. Procs \ (RunningTree \cup S) \in SUBSET Procs
    OBVIOUS
  <2> QED BY <1>4, <2>1, TotalType
<1>6. /\ containerCPU.initialized \/ containerCPU.value = 0
      /\ containerCPU.initialized => containerCPU.rootPID # None
      /\ IF containerCPU.rootPID = r
         THEN containerCPU.value <= containerCPU.observed + rest /\ containerCPU.value <= now + rest
         ELSE containerCPU.value <= rest
  BY <1>3, <1>4 DEF ContainerInv
<1>7. containerCPU' = UpdateCounter(containerCPU, now, r)
  BY DEF CountContainer
<1>8. scrape'[i] = Idle
  BY <1>2 DEF CountContainer, Handler
<1>9. rest <= Total(Procs \ RunningTree, cpu) /\ Total(Procs \ RunningTree, cpu) \in Nat
  <2>1. /\ Procs \ (RunningTree \cup S) \in SUBSET Procs /\ Procs \ RunningTree \in SUBSET Procs
        /\ \A p \in Procs \ (RunningTree \cup S) : p \in Procs \ RunningTree /\ cpu[p] <= cpu[p]
    BY <1>2
  <2> QED BY <1>2, <2>1, TotalGrows, TotalType
<1>10. now <= Total(S, cpu) /\ Total(S, cpu) \in Nat
  <2>1. \A p \in S : p \in S /\ scrape[i].cpu[p] <= cpu[p]
    BY <1>4 DEF BornInv
  <2> QED BY <1>2, <1>4, <2>1, TotalGrows, TotalType
<1>11. now + rest <= Total(Procs, cpu) /\ Total(Procs, cpu) \in Nat
  <2>1. rest <= Total(Procs \ S, cpu) /\ Total(Procs \ S, cpu) \in Nat
    <3>1. /\ Procs \ (RunningTree \cup S) \in SUBSET Procs /\ Procs \ S \in SUBSET Procs
          /\ \A p \in Procs \ (RunningTree \cup S) : p \in Procs \ S /\ cpu[p] <= cpu[p]
      BY <1>2
    <3> QED BY <1>2, <3>1, TotalGrows, TotalType
  <2>2. Total(Procs, cpu) = Total(S, cpu) + Total(Procs \ S, cpu)
    <3>1. S \cup (Procs \ S) = Procs /\ S \cap (Procs \ S) = {} /\ Procs \ S \in SUBSET Procs
      BY <1>4
    <3> QED BY <1>4, <3>1, TotalSplits
  <2> HIDE DEF now, rest, S
  <2> QED BY <1>5, <1>10, <2>1, <2>2
<1>12. r # root => now + rest <= Total(Procs \ RunningTree, cpu)
  <2> SUFFICES ASSUME r # root PROVE now + rest <= Total(Procs \ RunningTree, cpu)
    OBVIOUS
  <2>1. /\ S \cup (Procs \ (RunningTree \cup S)) = Procs \ RunningTree
        /\ S \cap (Procs \ (RunningTree \cup S)) = {}
        /\ Procs \ (RunningTree \cup S) \in SUBSET Procs
    BY <1>3, <1>4
  <2>2. Total(Procs \ RunningTree, cpu) = Total(S, cpu) + rest
    BY <1>4, <2>1, TotalSplits
  <2> HIDE DEF now, rest, S
  <2> QED BY <1>5, <1>10, <2>2
<1> HIDE DEF now, rest, S
<1>13. /\ containerCPU'.value <= now + rest /\ containerCPU'.observed = now
       /\ containerCPU'.initialized /\ containerCPU'.rootPID = r
  <2>1. containerCPU.value \in Nat /\ containerCPU.observed \in Nat
    BY <1>2 DEF Counter
  <2> QED BY <1>2, <1>3, <1>5, <1>6, <1>7, <2>1, CounterCovered
<1>14. containerCPU'.value \in Nat
  BY <1>2, <1>3, <1>5, <1>7, UpdateCounterTypes DEF Counter
<1>15. containerCPU'.value <= Total(Procs, cpu)
  BY <1>5, <1>11, <1>13, <1>14
<1>16. IF containerCPU'.rootPID = root
       THEN containerCPU'.value <= containerCPU'.observed + Total(Procs \ RunningTree, cpu)
       ELSE containerCPU'.value <= Total(Procs \ RunningTree, cpu)
  BY <1>5, <1>9, <1>12, <1>13, <1>14
<1>17. \A j \in Scrapes : scrape'[j].at = "idle"
  BY <1>8 DEF Idle
<1> QED BY <1>1, <1>3, <1>13, <1>15, <1>16, <1>17 DEF ContainerInv

LEMMA ContainerHandle ==
  ASSUME \A i, j \in Scrapes : i = j,
         KubeletTypeOK, BornInv, ContainerInv, NEW i \in Scrapes, Handle(i)
  PROVE  ContainerInv'
<1>1. UNCHANGED <<cpu, alive, parent, root, RunningTree>>
  BY DEF Handle, ReadProcesses, CountNode, InspectWorkload, CountContainer, Handler,
      processVars, RunningTree
<1>2. /\ scrape \in [Scrapes -> Scrape] /\ scrape[i] \in Scrape /\ cpu \in [Procs -> Nat]
      /\ containerCPU.value \in Nat /\ containerCPU.observed \in Nat
      /\ alive \in SUBSET Procs /\ RunningTree \in SUBSET Procs
  BY Times DEF KubeletTypeOK, MetricTypeOK, Counter
<1>3. CASE ReadProcesses(i)
  <2> DEFINE time == [p \in Procs |-> IF p \in alive THEN cpu[p] ELSE 0]
             rest == Total(Procs \ RunningTree, cpu)
  <2>1. /\ UNCHANGED containerCPU /\ scrape'[i].at = "node" /\ scrape'[i].seen = alive
        /\ scrape'[i].parent = parent /\ scrape'[i].cpu = time
    BY <1>2, <1>3 DEF ReadProcesses, Handler
  <2>2. Inspected(i)' = root
    BY <1>1, <2>1 DEF Inspected
  <2>3. root \in alive => InspectedTree(i)' = RunningTree
    BY <2>1, <2>2 DEF InspectedTree, RunningTree
  <2>4. Total(Procs, cpu) = Total(RunningTree, cpu) + rest
    <3>1. /\ RunningTree \cup (Procs \ RunningTree) = Procs
          /\ RunningTree \cap (Procs \ RunningTree) = {} /\ Procs \ RunningTree \in SUBSET Procs
      BY <1>2
    <3> QED BY <1>2, <3>1, TotalSplits
  <2>5. Total(RunningTree, cpu) <= Total(RunningTree, time)
    <3>1. RunningTree \subseteq alive
      BY TreeWithin DEF RunningTree
    <3>2. time \in [Procs -> Nat] /\ \A p \in RunningTree : p \in RunningTree /\ cpu[p] <= time[p]
      BY <1>2, <3>1
    <3> QED BY <1>2, <3>2, TotalGrows
  <2>6. rest \in Nat /\ Total(RunningTree, cpu) \in Nat /\ Total(RunningTree, time) \in Nat
    <3>1. Procs \ RunningTree \in SUBSET Procs
      OBVIOUS
    <3> QED BY <1>2, <3>1, TotalType
  <2>7. /\ containerCPU.value <= Total(Procs, cpu)
        /\ IF containerCPU.rootPID = root THEN containerCPU.value <= containerCPU.observed + rest
           ELSE containerCPU.value <= rest
    BY DEF ContainerInv
  <2> HIDE DEF time, rest
  <2>8. containerCPU.value <= Total(RunningTree, time) + rest
    BY <1>2, <2>4, <2>5, <2>6, <2>7
  <2>9. ASSUME root \in alive
        PROVE  LET left == Total(Procs \ (RunningTree \cup InspectedTree(i)'), cpu)
               IN IF containerCPU.rootPID = root
                  THEN /\ containerCPU.value <= containerCPU.observed + left
                       /\ containerCPU.value <= Total(InspectedTree(i)', scrape'[i].cpu) + left
                  ELSE containerCPU.value <= left
    <3>1. RunningTree \cup InspectedTree(i)' = RunningTree /\ InspectedTree(i)' = RunningTree
      BY <2>3, <2>9
    <3> QED BY <2>1, <2>7, <2>8, <3>1 DEF rest
  <2>10. \A j \in Scrapes : j = i
    OBVIOUS
  <2> QED BY <1>1, <2>1, <2>2, <2>9, <2>10 DEF ContainerInv
<1>4. CASE CountNode(i) \/ InspectWorkload(i)
  <2>1. UNCHANGED containerCPU /\ scrape[i].at # "idle"
    BY <1>4 DEF CountNode, InspectWorkload
  <2>2. \/ scrape'[i] = Idle
        \/ scrape'[i] = [scrape[i] EXCEPT !.at = "inspect"] /\ scrape[i].at = "node"
        \/ /\ scrape'[i] = [scrape[i] EXCEPT !.at = "container", !.root = root]
           /\ scrape[i].at = "inspect"
    BY <1>2, <1>4 DEF CountNode, InspectWorkload, Handler
  <2>3. CASE scrape'[i] = Idle
    <3>1. scrape'[i].at = "idle"
      BY <2>3 DEF Idle
    <3>2. \A j \in Scrapes : j = i
      OBVIOUS
    <3> QED BY <1>1, <2>1, <3>1, <3>2 DEF ContainerInv
  <2>4. CASE scrape'[i] # Idle
    <3>1. /\ scrape'[i].seen = scrape[i].seen /\ scrape'[i].cpu = scrape[i].cpu
          /\ scrape'[i].parent = scrape[i].parent /\ Inspected(i)' = Inspected(i)
      <4>1. CASE scrape'[i] = [scrape[i] EXCEPT !.at = "inspect"] /\ scrape[i].at = "node"
        <5>1. /\ scrape'[i].seen = scrape[i].seen /\ scrape'[i].cpu = scrape[i].cpu
              /\ scrape'[i].parent = scrape[i].parent /\ scrape'[i].at = "inspect"
          BY <1>2, <4>1 DEF Scrape
        <5> QED BY <1>1, <4>1, <5>1 DEF Inspected
      <4>2. CASE /\ scrape'[i] = [scrape[i] EXCEPT !.at = "container", !.root = root]
                 /\ scrape[i].at = "inspect"
        <5>1. /\ scrape'[i].seen = scrape[i].seen /\ scrape'[i].cpu = scrape[i].cpu
              /\ scrape'[i].parent = scrape[i].parent /\ scrape'[i].at = "container"
              /\ scrape'[i].root = root
          BY <1>2, <4>2 DEF Scrape
        <5> QED BY <1>1, <4>2, <5>1 DEF Inspected
      <4> QED BY <2>2, <2>4, <4>1, <4>2
    <3>2. InspectedTree(i)' = InspectedTree(i)
      BY <3>1 DEF InspectedTree
    <3>3. \A j \in Scrapes : j = i
      OBVIOUS
    <3> QED BY <1>1, <2>1, <3>1, <3>2, <3>3 DEF ContainerInv
  <2> QED BY <2>3, <2>4
<1>5. CASE CountContainer(i)
  BY <1>5, ContainerCounted
<1> QED BY <1>3, <1>4, <1>5 DEF Handle

-----------------------------------------------------------------------------

CountInv == BornInv /\ NodeInv /\ ContainerInv

LEMMA CountInit == Init => CountInv
<1> SUFFICES ASSUME Init PROVE CountInv
  OBVIOUS
<1>1. /\ \A p \in Procs : cpu[p] = 0 /\ parent[p] = None
      /\ alive = {} /\ root = None
  BY DEF Init
<1>2. /\ nodeCPU.value = 0 /\ nodeCPU.observed = 0 /\ containerCPU.value = 0
      /\ containerCPU.observed = 0 /\ containerCPU.rootPID = None /\ ~containerCPU.initialized
  BY DEF Init, Fresh
<1>3. \A i \in Scrapes : /\ scrape[i].at = "idle" /\ scrape[i].seen = {}
                         /\ \A p \in Procs : scrape[i].cpu[p] = 0
  BY DEF Init, Idle
<1>4. /\ Total(Procs, cpu) \in Nat /\ Total(Procs \ alive, cpu) \in Nat
      /\ Total(Procs \ RunningTree, cpu) \in Nat
  <2>1. Procs \ alive \in SUBSET Procs /\ Procs \ RunningTree \in SUBSET Procs
    OBVIOUS
  <2> QED BY <2>1, TotalType
<1>5. BornInv
  BY <1>1, <1>2, <1>3 DEF BornInv
<1>6. NodeInv
  BY <1>2, <1>3, <1>4 DEF NodeInv
<1>7. ContainerInv
  BY <1>1, <1>2, <1>3, <1>4 DEF ContainerInv
<1> QED BY <1>5, <1>6, <1>7 DEF CountInv

\* A new session begins with new counters and no scrape.
LEMMA CountStart ==
  ASSUME KubeletTypeOK, BornInv, StartServices PROVE CountInv'
<1>1. UNCHANGED <<cpu, alive, parent, root>>
  BY DEF StartServices, processVars
<1>2. /\ nodeCPU'.value = 0 /\ nodeCPU'.observed = 0 /\ containerCPU'.value = 0
      /\ containerCPU'.observed = 0 /\ containerCPU'.rootPID = None
      /\ ~containerCPU'.initialized
  BY DEF StartServices, Fresh
<1>3. \A i \in Scrapes : /\ scrape'[i].at = "idle" /\ scrape'[i].seen = {}
                         /\ \A p \in Procs : scrape'[i].cpu[p] = 0
  BY DEF StartServices, Idle
<1>4. /\ Total(Procs, cpu') \in Nat /\ Total(Procs \ alive', cpu') \in Nat
      /\ Total(Procs \ RunningTree', cpu') \in Nat
  <2>1. Procs \ alive' \in SUBSET Procs /\ Procs \ RunningTree' \in SUBSET Procs
    OBVIOUS
  <2> QED BY <2>1, TotalType
<1>5. BornInv'
  <2>1. Born' = Born /\ RunningTree' = RunningTree /\ \A p \in Procs : cpu[p] \in Nat
    BY <1>1, Times DEF Born, RunningTree
  <2> QED BY <1>1, <1>2, <1>3, <2>1 DEF BornInv
<1>6. NodeInv'
  BY <1>2, <1>3, <1>4 DEF NodeInv
<1>7. ContainerInv'
  BY <1>2, <1>3, <1>4 DEF ContainerInv
<1> QED BY <1>5, <1>6, <1>7 DEF CountInv

\* Steps of the tunnels
LEMMA CountStutters ==
  ASSUME CountInv, UNCHANGED <<processVars, metricVars>> PROVE CountInv'
<1>1. UNCHANGED <<cpu, alive, parent, root, scrape, nodeCPU, containerCPU>>
  BY DEF processVars, metricVars
<1>2. BornInv'
  BY <1>1 DEF CountInv, BornInv, Born, RunningTree
<1>3. NodeInv'
  BY <1>1 DEF CountInv, NodeInv
<1>4. ContainerInv'
  BY <1>1 DEF CountInv, ContainerInv, RunningTree, Inspected, InspectedTree
<1> QED BY <1>2, <1>3, <1>4 DEF CountInv

LEMMA CountNext ==
  ASSUME \A i, j \in Scrapes : i = j, KubeletTypeOK, KubeletTypeOK', CountInv, [Next]_vars
  PROVE  CountInv'
<1>1. CASE StartServices
  BY <1>1, CountStart DEF CountInv
<1>2. CASE Tick \/ NextServer \/ PassDone \/ TunnelConnected \/ TunnelTimeout \/ SupervisorDone
           \/ Cancel \/ ChangeServers \/ (\E a \in Attempts : Goroutine(a)) \/ UNCHANGED vars
  <2>1. UNCHANGED <<processVars, metricVars>>
    BY <1>2 DEF Tick, NextServer, PassDone, TunnelConnected, TunnelTimeout, SupervisorDone,
        Cancel, ChangeServers, Goroutine, Dial, ConnectionLost, Redial, GoroutineEnds, Link, vars
  <2> QED BY <2>1, CountStutters
<1>3. CASE Processes
  <2>1. ProcessesGrow
    BY <1>3, ProcessStep DEF CountInv
  <2>2. UNCHANGED metricVars
    BY <1>3 DEF Processes, RunWorkload, Fork, Burn, Exit, Tables
  <2> QED BY <2>1, <2>2, BornProcesses, NodeProcesses, ContainerProcesses DEF CountInv
<1>4. CASE \E i \in Scrapes : Handle(i)
  <2>1. PICK i \in Scrapes : Handle(i)
    BY <1>4
  <2>2. BornInv'
    BY <2>1, BornHandle DEF CountInv
  <2>3. NodeInv'
    BY <2>1, NodeHandle DEF CountInv
  <2>4. ContainerInv'
    BY <2>1, ContainerHandle DEF CountInv
  <2> QED BY <2>2, <2>3, <2>4 DEF CountInv
<1> QED BY <1>1, <1>2, <1>3, <1>4 DEF Next, Supervisor

\* As long as one scrape of /metrics/resource is answered after the other, neither
\* counter ever says more CPU time than the processes have consumed, however many
\* processes there are, when they fork, end, are adopted, or the workload is run again, and
\* whatever happens between the table and the inspection (updateMetricCounter).
THEOREM NeverAnOvercount ==
  ASSUME \A i, j \in Scrapes : i = j PROVE Spec => []NeverOvercounted
<1>1. KubeletTypeOK /\ KubeletTypeOK' /\ CountInv /\ [Next]_vars => CountInv'
  BY CountNext
<1>2. CountInv => NeverOvercounted
  BY DEF CountInv, NodeInv, ContainerInv, NeverOvercounted
<1> QED BY CountInit, KubeletTypesKept, <1>1, <1>2, PTL DEF Spec
=============================================================================
