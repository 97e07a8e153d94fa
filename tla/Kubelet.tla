------------------------------ MODULE Kubelet ------------------------------
(***************************************************************************)
(* The kubelet services of a join session: the supervisor that keeps one   *)
(* remotedialer tunnel to every K3s API server, and the CPU counters that  *)
(* scrapes of /metrics/resource update.  The supervisor connects one       *)
(* server after the other; every tunnel has a goroutine of its own that    *)
(* reconnects until its context is cancelled; scrapes are handled side by  *)
(* side, and processes come and go under them.                             *)
(*                                                                         *)
(* Left out: what runs through a tunnel, the memory figures, and workloads *)
(* but one.                                                                *)
(***************************************************************************)
EXTENDS Integers, FiniteSets

CONSTANTS
  Servers,      \* API servers, as numbers in the order of their URLs
  Fallback,     \* the server of state.json
  Attempts,     \* goroutines of tunnels
  Procs,        \* processes of the workload; no PID is used twice
  Scrapes,      \* scrapes that may run side by side
  MaxCPU,       \* bound: CPU time of a process
  MaxSessions,  \* bound: sessions
  MaxChanges,   \* bound: changes of the list of servers and of the servers that answer
  MaxFailures   \* bound: failed list requests, lost connections, answers that come too late

None == 0       \* no tunnel, no process

ASSUME ServersAssumption == Servers \subseteq Nat /\ Fallback \in Servers
ASSUME NamesAssumption == None \notin Attempts /\ None \notin Procs
ASSUME ProcsAssumption == IsFiniteSet(Procs)
ASSUME KubeletBounds ==
  MaxCPU \in Nat \ {0} /\ MaxSessions \in Nat /\ MaxChanges \in Nat /\ MaxFailures \in Nat

VARIABLES
  listed,       \* API servers /v1-k3s/apiservers names; empty: no answer in time
  answering,    \* servers that accept a connection
  sup,          \* the supervisor: off, next (server of a pass), connect, wait (for the ticker)
  queue,        \* servers of this pass not looked at yet
  tunnels,      \* its map: the goroutine of each server's tunnel
  current,      \* the goroutine startKubeletTunnel waits for
  link,         \* state of each goroutine
  dest,         \* the server of each goroutine
  live,         \* goroutines whose context is not cancelled
  connected,    \* goroutines that have connected once
  closing,      \* the context of the supervisor is cancelled
  cpu,          \* CPU time of each process, kept when it has ended
  alive,        \* processes that run
  parent,       \* parent of each process
  root,         \* the PID `macker inspect` reports for the workload
  scrape,       \* locals of each scrape
  nodeCPU, containerCPU,        \* resourceMetrics
  sessions, changes, failures

tunnelVars  == <<sup, queue, tunnels, current, link, dest, live, connected, closing>>
processVars == <<cpu, alive, parent, root>>
metricVars  == <<scrape, nodeCPU, containerCPU>>
bounds      == <<sessions, changes, failures>>
vars == <<listed, answering, tunnelVars, processVars, metricVars, bounds>>

Counter == [initialized : BOOLEAN, observed : Nat, value : Nat, rootPID : Procs \cup {None}]
Fresh   == [initialized |-> FALSE, observed |-> 0, value |-> 0, rootPID |-> None]

\* A scrape: the process table it read, and the root the inspection gave it.
Scrape == [at : {"idle", "node", "inspect", "container"}, seen : SUBSET Procs,
           cpu : [Procs -> 0..MaxCPU], parent : [Procs -> Procs \cup {None}],
           root : Procs \cup {None}]
Idle == [at |-> "idle", seen |-> {}, cpu |-> [p \in Procs |-> 0],
         parent |-> [p \in Procs |-> None], root |-> None]

TunnelTypeOK ==
  /\ listed \subseteq Servers /\ answering \subseteq Servers
  /\ sup \in {"off", "next", "connect", "wait"} /\ queue \subseteq Servers
  /\ tunnels \in [Servers -> Attempts \cup {None}] /\ current \in Attempts \cup {None}
  /\ link \in [Attempts -> {"free", "dialing", "connected", "pausing"}]
  /\ dest \in [Attempts -> Servers]
  /\ live \subseteq Attempts /\ connected \subseteq Attempts /\ closing \in BOOLEAN
  /\ sup = "connect" <=> current \in Attempts

MetricTypeOK ==
  /\ cpu \in [Procs -> 0..MaxCPU] /\ alive \subseteq Procs
  /\ parent \in [Procs -> Procs \cup {None}] /\ root \in Procs \cup {None}
  /\ scrape \in [Scrapes -> Scrape] /\ nodeCPU \in Counter /\ containerCPU \in Counter
  /\ sessions \in Nat /\ changes \in Nat /\ failures \in Nat

KubeletTypeOK == TunnelTypeOK /\ MetricTypeOK

Init ==
  /\ listed \in SUBSET Servers /\ answering \in SUBSET Servers
  /\ sup = "off" /\ queue = {} /\ tunnels = [s \in Servers |-> None] /\ current = None
  /\ link = [a \in Attempts |-> "free"] /\ dest = [a \in Attempts |-> Fallback]
  /\ live = {} /\ connected = {} /\ closing = FALSE
  /\ cpu = [p \in Procs |-> 0] /\ alive = {} /\ parent = [p \in Procs |-> None] /\ root = None
  /\ scrape = [i \in Scrapes |-> Idle] /\ nodeCPU = Fresh /\ containerCPU = Fresh
  /\ sessions = 0 /\ changes = 0 /\ failures = 0

-----------------------------------------------------------------------------
\* The supervisor of the tunnels

\* Something that may fail a bounded number of times
Fail == failures < MaxFailures /\ failures' = failures + 1

\* discoverKubeletTunnelServers: the servers of the list, or the fallback when the request
\* fails or names none.
Discover ==
  \/ /\ ~closing /\ listed # {}
     /\ queue' = listed /\ UNCHANGED failures
  \/ /\ queue' = {Fallback}
     /\ IF closing \/ listed = {} THEN UNCHANGED failures ELSE Fail

\* A session starts the HTTPS server, with new counters, and the supervisor; the one of
\* the session before has ended, as Close waits for it.
StartServices ==
  /\ sup = "off" /\ sessions < MaxSessions /\ sessions' = sessions + 1
  /\ closing' = FALSE /\ tunnels' = [s \in Servers |-> None]
  /\ IF listed # {} THEN \/ queue' = listed /\ UNCHANGED failures
                         \/ queue' = {Fallback} /\ Fail
     ELSE queue' = {Fallback} /\ UNCHANGED failures
  /\ sup' = "next"
  /\ nodeCPU' = Fresh /\ containerCPU' = Fresh
  /\ scrape' = [i \in Scrapes |-> Idle]
  /\ UNCHANGED <<listed, answering, current, link, dest, live, connected, processVars, changes>>

\* The ticker's next pass; select may take it although the context is cancelled.
Tick ==
  /\ sup = "wait" /\ Discover /\ sup' = "next"
  /\ UNCHANGED <<listed, answering, tunnels, current, link, dest, live, connected, closing,
                 processVars, metricVars, sessions, changes>>

\* Goroutines that do not exist
Free == {a \in Attempts : link[a] = "free" /\ current # a}

\* The first server of the queue: one with a tunnel is passed over, for the others
\* startKubeletTunnel starts a goroutine.  With a cancelled context it fails at once.
NextServer ==
  /\ sup = "next" /\ queue # {}
  /\ \E s \in queue :
       /\ \A other \in queue : s <= other
       /\ queue' = queue \ {s}
       /\ IF tunnels[s] # None \/ closing
          THEN UNCHANGED <<sup, current, link, dest, live, connected>>
          ELSE \E a \in Free :
                 /\ \A b \in Free : a <= b
                 /\ current' = a /\ sup' = "connect"
                 /\ link' = [link EXCEPT ![a] = "dialing"]
                 /\ dest' = [dest EXCEPT ![a] = s]
                 /\ live' = live \cup {a} /\ connected' = connected \ {a}
  /\ UNCHANGED <<listed, answering, tunnels, closing, processVars, metricVars, bounds>>

PassDone ==
  /\ sup = "next" /\ queue = {}
  /\ sup' = "wait"
  /\ UNCHANGED <<listed, answering, queue, tunnels, current, link, dest, live, connected,
                 closing, processVars, metricVars, bounds>>

\* Mutant of TunnelConnected: the pass does not go on.
TunnelConnectedWaiting ==
  /\ sup = "connect" /\ current \in connected
  /\ tunnels' = [tunnels EXCEPT ![dest[current]] = current]
  /\ current' = None
  /\ UNCHANGED <<listed, answering, sup, queue, link, dest, live, connected, closing,
                 processVars, metricVars, bounds>>

\* startKubeletTunnel returns the tunnel once it has connected.
TunnelConnected ==
  /\ sup = "connect" /\ current \in connected
  /\ tunnels' = [tunnels EXCEPT ![dest[current]] = current]
  /\ sup' = "next" /\ current' = None
  /\ UNCHANGED <<listed, answering, queue, link, dest, live, connected, closing, processVars,
                 metricVars, bounds>>

\* Mutant of GivenUp: the goroutine of an attempt that timed out goes on.
GivenUpRunning == live

\* The context of an attempt that failed is cancelled.
GivenUp == live \ {current}

\* Mutant of Refused: the failed attempt is kept as the server's tunnel.
RefusedKept == tunnels' = [tunnels EXCEPT ![dest[current]] = current]

\* A failed attempt leaves the map of the supervisor as it is.
Refused == UNCHANGED tunnels

\* After ten seconds, even if it connects at that moment, or when the context is
\* cancelled, the attempt is given up.
TunnelTimeout ==
  /\ sup = "connect"
  /\ IF closing \/ dest[current] \notin answering THEN UNCHANGED failures ELSE Fail
  /\ live' = GivenUp /\ Refused
  /\ sup' = "next" /\ current' = None
  /\ UNCHANGED <<listed, answering, queue, link, dest, connected, closing,
                 processVars, metricVars, sessions, changes>>

\* The session ends: the context of the supervisor and with it that of every tunnel is
\* cancelled.
Cancel ==
  /\ sup # "off" /\ ~closing
  /\ closing' = TRUE /\ live' = {}
  /\ UNCHANGED <<listed, answering, sup, queue, tunnels, current, link, dest, connected,
                 processVars, metricVars, bounds>>

SupervisorDone ==
  /\ sup = "wait" /\ closing
  /\ sup' = "off"
  /\ UNCHANGED <<listed, answering, queue, tunnels, current, link, dest, live, connected,
                 closing, processVars, metricVars, bounds>>

-----------------------------------------------------------------------------
\* The goroutine of a tunnel

Link(a, s) ==
  /\ link' = [link EXCEPT ![a] = s]
  /\ UNCHANGED <<listed, answering, sup, queue, tunnels, current, live, closing,
                 processVars, metricVars, sessions, changes>>

\* ConnectToProxyWithDialer connects, or fails and is tried again after a second.
Dial(a) ==
  /\ link[a] = "dialing" /\ a \in live
  /\ IF dest[a] \in answering
     THEN Link(a, "connected") /\ connected' = connected \cup {a}
     ELSE Link(a, "pausing") /\ UNCHANGED connected
  /\ UNCHANGED <<dest, failures>>

\* Because the server has gone, or for a moment
ConnectionLost(a) ==
  /\ link[a] = "connected"
  /\ IF dest[a] \notin answering THEN UNCHANGED failures ELSE Fail
  /\ Link(a, "pausing") /\ UNCHANGED <<dest, connected>>

Redial(a) ==
  /\ link[a] = "pausing" /\ a \in live
  /\ Link(a, "dialing") /\ UNCHANGED <<dest, connected, failures>>

\* A cancelled context ends the goroutine wherever it is.
GoroutineEnds(a) ==
  /\ link[a] # "free" /\ a \notin live /\ current # a
  /\ Link(a, "free")
  /\ dest' = [dest EXCEPT ![a] = Fallback] /\ connected' = connected \ {a}
  /\ UNCHANGED failures

\* Servers are added to the cluster, leave it, answer or not.
ChangeServers ==
  /\ changes < MaxChanges /\ changes' = changes + 1
  /\ \/ listed' \in SUBSET Servers \ {listed} /\ UNCHANGED answering
     \/ answering' \in SUBSET Servers \ {answering} /\ UNCHANGED listed
  /\ UNCHANGED <<tunnelVars, processVars, metricVars, sessions, failures>>

-----------------------------------------------------------------------------
\* The processes of the workload

Tables == UNCHANGED <<listed, answering, tunnelVars, metricVars, bounds>>

\* The next PID
New(p) == cpu[p] = 0 /\ \A other \in Procs : cpu[other] = 0 => p <= other

\* macker run, at first and after the run before has ended
RunWorkload ==
  /\ root \notin alive
  /\ \E p \in Procs :
       New(p) /\ root' = p /\ alive' = alive \cup {p} /\ cpu' = [cpu EXCEPT ![p] = 1]
  /\ UNCHANGED parent /\ Tables

Fork ==
  /\ \E p \in alive, child \in Procs :
       /\ New(child)
       /\ parent' = [parent EXCEPT ![child] = p]
       /\ alive' = alive \cup {child} /\ cpu' = [cpu EXCEPT ![child] = 1]
  /\ UNCHANGED root /\ Tables

Burn ==
  /\ \E p \in alive : cpu[p] < MaxCPU /\ cpu' = [cpu EXCEPT ![p] = @ + 1]
  /\ UNCHANGED <<alive, parent, root>> /\ Tables

\* A process ends; its children go to launchd.
Exit ==
  /\ \E p \in alive :
       /\ alive' = alive \ {p}
       /\ parent' = [c \in Procs |-> IF parent[c] = p THEN None ELSE parent[c]]
  /\ UNCHANGED <<cpu, root>> /\ Tables

-----------------------------------------------------------------------------
\* Scrapes

\* The CPU time of the processes of S, counted in units: the k-th unit of a process is
\* <<p, k>>.
Total(S, time) == Cardinality({u \in S \X (1..MaxCPU) : u[2] <= time[u[1]]})

\* Process p and its descendants among those seen: the smallest set with p that has the
\* children of its members.
Descendants(seen, up, p) ==
  {d \in seen : \A T \in SUBSET seen :
                  p \in T /\ (\A c \in seen : up[c] \in T => c \in T) => d \in T}

\* processTreeMetrics: the root and its descendants in the table the scrape has read.
ProcessTree(t) == Descendants(t.seen, t.parent, t.root)

\* Mutant of UpdateCounter: a lower reading is taken for a counter that began anew.
UpdateCounterReset(counter, now, rootPID) ==
  [initialized |-> TRUE, observed |-> now,
   value |-> IF counter.initialized /\ now >= counter.observed
             THEN counter.value + now - counter.observed ELSE counter.value + now,
   rootPID |-> IF rootPID # None THEN rootPID ELSE counter.rootPID]

\* updateMetricCounter: the first reading and one of a new root count in full, of a lower
\* one nothing.
UpdateCounter(counter, now, rootPID) ==
  LET restarted == counter.rootPID # None /\ rootPID # None /\ counter.rootPID # rootPID
      increase  == CASE ~counter.initialized \/ restarted -> now
                     [] OTHER -> IF now >= counter.observed THEN now - counter.observed ELSE 0
  IN [initialized |-> TRUE, observed |-> now, value |-> counter.value + increase,
      rootPID |-> IF rootPID # None THEN rootPID ELSE counter.rootPID]

Handler(i, locals) ==
  /\ scrape' = [scrape EXCEPT ![i] = locals]
  /\ UNCHANGED <<listed, answering, tunnelVars, processVars, bounds>>

\* readProcessMetrics, before the lock is taken
ReadProcesses(i) ==
  /\ sup # "off" /\ scrape[i].at = "idle" /\ alive # {}
  /\ Handler(i, [at |-> "node", seen |-> alive, root |-> None, parent |-> parent,
                 cpu |-> [p \in Procs |-> IF p \in alive THEN cpu[p] ELSE 0]])
  /\ UNCHANGED <<nodeCPU, containerCPU>>

CountNode(i) ==
  /\ scrape[i].at = "node"
  /\ nodeCPU' = UpdateCounter(nodeCPU, Total(scrape[i].seen, scrape[i].cpu), None)
  /\ Handler(i, [scrape[i] EXCEPT !.at = "inspect"])
  /\ UNCHANGED containerCPU

\* containerInspection: the PID of the launcher, of a workload that runs and whose root
\* is in the table.
InspectWorkload(i) ==
  /\ scrape[i].at = "inspect"
  /\ IF root \in alive \cap scrape[i].seen
     THEN Handler(i, [scrape[i] EXCEPT !.at = "container", !.root = root])
     ELSE Handler(i, Idle)
  /\ UNCHANGED <<nodeCPU, containerCPU>>

CountContainer(i) ==
  /\ scrape[i].at = "container"
  /\ containerCPU' = UpdateCounter(containerCPU, Total(ProcessTree(scrape[i]), scrape[i].cpu),
                                   scrape[i].root)
  /\ Handler(i, Idle)
  /\ UNCHANGED nodeCPU

-----------------------------------------------------------------------------

Supervisor == StartServices \/ Tick \/ NextServer \/ PassDone \/ TunnelConnected
                \/ TunnelTimeout \/ SupervisorDone
Goroutine(a) == Dial(a) \/ ConnectionLost(a) \/ Redial(a) \/ GoroutineEnds(a)
Processes == RunWorkload \/ Fork \/ Burn \/ Exit
Handle(i) == ReadProcesses(i) \/ CountNode(i) \/ InspectWorkload(i) \/ CountContainer(i)

Next ==
  \/ Supervisor \/ Cancel \/ ChangeServers \/ Processes
  \/ \E a \in Attempts : Goroutine(a)
  \/ \E i \in Scrapes : Handle(i)

Spec == Init /\ [][Next]_vars

\* The ticker fires every 15 seconds, an attempt ends after ten, a goroutine goes on.
Fairness ==
  /\ WF_vars(StartServices) /\ WF_vars(Tick) /\ WF_vars(NextServer) /\ WF_vars(PassDone)
  /\ WF_vars(TunnelConnected) /\ WF_vars(TunnelTimeout)
  /\ \A a \in Attempts : WF_vars(Goroutine(a))

FairSpec == Spec /\ Fairness

-----------------------------------------------------------------------------
\* Properties

\* Every tunnel that runs is the one the supervisor has for its server or waits for, so
\* no server ever has two and none is left when the supervisor has ended, although an
\* attempt may connect at the moment it is given up (startKubeletTunnel, Close).
TunnelsHeld ==
  \A a \in live : /\ sup # "off"
                  /\ tunnels[dest[a]] \in {a, None}
                  /\ tunnels[dest[a]] = None => sup = "connect" /\ current = a

\* A server that stays in the list and answers is connected in the end and stays so,
\* whatever the others do and however it failed before (startKubeletTunnelSupervisor).
EveryServerReached ==
  \A s \in Servers :
    <>[](s \in listed \cap answering /\ ~closing /\ sup # "off")
      => <>[](\E a \in live : dest[a] = s /\ link[a] = "connected")

\* "Cumulative cpu time consumed" (formatResourceMetrics): a counter never exceeds what
\* the processes have consumed, across processes that end, restarts of the workload and
\* processes that change between the table and the inspection (updateMetricCounter).
NeverOvercounted ==
  nodeCPU.value <= Total(Procs, cpu) /\ containerCPU.value <= Total(Procs, cpu)
=============================================================================
