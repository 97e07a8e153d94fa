-------------------------- MODULE WorkloadManager --------------------------
(***************************************************************************)
(* The native workload manager of maclet: one reconciliation pass over the *)
(* Pods assigned to the node, the workload journal it keeps on disk, and   *)
(* the graceful drain, against an API server that creates and deletes      *)
(* Pods, a Macker runtime whose workloads exit by themselves, a disk and   *)
(* host tools that can fail, and a daemon that can crash at any step.      *)
(*                                                                         *)
(* A pass holds the manager's mutex from beginning to end, so nothing else *)
(* changes the manager's memory meanwhile.  It is split into steps where   *)
(* its effects leave the process: a journal write, a Macker command, an    *)
(* address alias, a mount, a status update.  Between two steps the API     *)
(* server, a workload or a crash may intervene.                            *)
(*                                                                         *)
(* Left out: ConfigMap directories, environment and port arguments (the    *)
(* "args" fault stands for any error they cause), and conflicts of a       *)
(* status update with other writers.                                       *)
(***************************************************************************)
EXTENDS Integers, FiniteSets

CONSTANTS
  Pods,         \* Pod UIDs, numbered in the order the API server lists them
  Policy,       \* restart policy of each Pod
  HostNetwork,  \* Pods with hostNetwork: they use the Node address
  Foreign,      \* Pods assigned to the node without the native label
  Unsupported,  \* native Pods the manager rejects (network settings, sidecars)
  Nfs,          \* Pods with an NFS volume
  Addresses,    \* addresses the Node may ever have for workloads
  FaultKinds,   \* operations of the environment that may fail
  MaxFaults,    \* bound: steps that meet a fault
  MaxStops,     \* bound: crashes and shutdowns
  MaxExits      \* bound: workloads that exit by themselves

NoIP   == 0     \* the empty address
NodeIP == 1     \* the address of the Node

ASSUME PodsAssumption == Pods \subseteq Nat /\ IsFiniteSet(Pods)
ASSUME PolicyAssumption == Policy \in [Pods -> {"Always", "OnFailure", "Never"}]
ASSUME KindsAssumption ==
  /\ HostNetwork \subseteq Pods /\ Foreign \subseteq Pods
  /\ Unsupported \subseteq Pods /\ Nfs \subseteq Pods
ASSUME AddressesAssumption == Addresses \subseteq Nat \ {NoIP, NodeIP}
ASSUME BoundsAssumption == MaxFaults \in Nat /\ MaxStops \in Nat /\ MaxExits \in Nat

VARIABLES
  live,         \* API: Pods that exist
  born,         \* API: Pods that ever existed (a UID is never reused)
  deleting,     \* API: Pods whose deletionTimestamp is set
  phase,        \* API: status.phase; kept when the Pod is gone
  podIP,        \* API: status.podIP
  podRestarts,  \* API: restartCount of the container status
  assignable,   \* cluster: addresses of the PodCIDR no gateway of a peer reserves
  managed,      \* memory: domain of m.workloads
  wl,           \* memory: the record of each managed Pod
  retained,     \* memory: domain of m.retained
  retLog,       \* memory: retained records with a LogFile
  journal,      \* disk: workloads.json
  logs,         \* disk: Pods with an archived log file
  box,          \* Macker: state of the container of each Pod
  boxIP,        \* Macker: address the container was started with
  aliases,      \* bridge: workload addresses configured on it
  mounts,       \* host: Pods whose NFS export is mounted
  pc,           \* stage of the daemon
  todo,         \* Pods the current loop has not finished
  listed,       \* the Pods of the current list
  terminating,  \* those of them listed with a deletionTimestamp
  used,         \* addresses taken, as this pass knows them
  report,       \* status the current Pod is about to be given
  dirty,        \* journalChanged of the closing loop
  faults, stops, exits

api    == <<live, born, deleting, phase, podIP, podRestarts, assignable>>
memory == <<managed, wl, retained, retLog>>
disk   == <<journal, logs>>
host   == <<box, boxIP, aliases, mounts>>
pass   == <<listed, terminating, used, dirty>>
vars   == <<api, memory, disk, host, pass, pc, todo, report, faults, stops, exits>>

-----------------------------------------------------------------------------
\* Types

Phases  == {"Pending", "Running", "Succeeded", "Failed"}
Boxes   == {"none", "running", "succeeded", "failed"}
AnyIP   == Addresses \cup {NoIP, NodeIP}
Stages  == {"down", "idle", "next", "deleted", "address", "alias", "inspect", "exited",
            "completed", "restarted", "prepare", "mounted", "start", "wait", "started",
            "report", "sweep", "drain", "drain2"}
Record  == [ip : AnyIP, retry : BOOLEAN, restarts : Int, log : BOOLEAN, nfs : BOOLEAN]
Report  == [phase : Phases, ip : AnyIP, restarts : Int]

NoRecord == [ip |-> NoIP, retry |-> FALSE, restarts |-> 0, log |-> FALSE, nfs |-> FALSE]
NoReport == [phase |-> "Pending", ip |-> NoIP, restarts |-> 0]
NoWl     == [p \in Pods |-> NoRecord]

\* Mutant of JournalOf: NFSMounts is not serialised.
JournalWithoutMounts(m, w, r, l) ==
  [managed |-> m, wl |-> [p \in Pods |-> [w[p] EXCEPT !.retry = FALSE, !.nfs = FALSE]],
   retained |-> r, retLog |-> l]

\* The file persistJournalLocked writes: every field of a record but RetryAfter.
JournalOf(m, w, r, l) ==
  [managed |-> m, wl |-> [p \in Pods |-> [w[p] EXCEPT !.retry = FALSE]],
   retained |-> r, retLog |-> l]

Journals == [managed : SUBSET Pods, wl : [Pods -> Record],
             retained : SUBSET Pods, retLog : SUBSET Pods]

TypeOK ==
  /\ live \subseteq Pods /\ born \subseteq Pods /\ deleting \subseteq Pods
  /\ phase \in [Pods -> Phases]
  /\ podIP \in [Pods -> AnyIP]
  /\ podRestarts \in [Pods -> Int]
  /\ assignable \subseteq Addresses
  /\ managed \subseteq Pods /\ wl \in [Pods -> Record]
  /\ retained \subseteq Pods /\ retLog \subseteq Pods
  /\ journal \in Journals /\ logs \subseteq Pods
  /\ box \in [Pods -> Boxes] /\ boxIP \in [Pods -> AnyIP]
  /\ aliases \subseteq Addresses /\ mounts \subseteq Pods
  /\ pc \in Stages /\ todo \subseteq Pods
  /\ listed \subseteq Pods /\ terminating \subseteq Pods /\ used \subseteq AnyIP
  /\ report \in Report /\ dirty \in BOOLEAN
  /\ faults \in Int /\ stops \in Int /\ exits \in Int

-----------------------------------------------------------------------------
\* Faults of one step.  F is the set of operations that fail in it.

Faulty(kinds) == {F \in SUBSET (kinds \cap FaultKinds) : F = {} \/ faults < MaxFaults}

Meet(F) == faults' = IF F = {} THEN faults ELSE faults + 1

\* writePrivateFile replaces the file.  An error leaves the file as it was, or comes after
\* the rename, when the new file cannot be given to the invoking user.
FileAfter(F, new) == IF "persist" \in F THEN {journal, new} ELSE {new}

\* persistJournalLocked
Persist(F) == journal' \in FileAfter(F, JournalOf(managed', wl', retained', retLog'))

\* The Pod the loop is at, in stage s.
At(s, p) == pc = s /\ p \in todo /\ \A q \in todo : p <= q

\* `continue` of the Pod loop
Continue(p) == /\ pc' = "next"
               /\ todo' = todo \ {p}
               /\ UNCHANGED report

Goto(s) == pc' = s /\ UNCHANGED <<todo, report>>

ReportStatus(ph, ip, n) ==
  /\ pc' = "report"
  /\ report' = [phase |-> ph, ip |-> ip, restarts |-> n]
  /\ UNCHANGED todo

\* A record with RetryAfter set
Later(r) == [r EXCEPT !.retry = TRUE]

\* Set RetryAfter, give the Pod the Pending status with a reason, and go on.
Backoff(p, r) ==
  /\ wl' = [wl EXCEPT ![p] = Later(r)]
  /\ ReportStatus("Pending", r.ip, r.restarts)

-----------------------------------------------------------------------------
\* Removing a workload from the host (archiveWorkloadLogs, stopContainer,
\* removeWorkload).  "missing" is a Macker executable that is not on PATH: its
\* error text contains "was not found", which the callers take for an absent
\* container.

Exited == {"succeeded", "failed"}

StopKinds(p) == IF box[p] = "none" THEN {} ELSE {"logs", "stop", "missing"}

TearKinds(p, r) ==
  StopKinds(p) \cup (IF r.ip \in aliases THEN {"alias"} ELSE {})
               \cup (IF r.nfs THEN {"unmount"} ELSE {})

Archived(p, F) == box[p] # "none" /\ F \cap {"logs", "missing"} = {}

\* What `macker stop; macker rm --force` can leave behind: a step of the two may
\* fail by itself, and the error is reported even when the other one succeeded.
StopLeaves(p, F) ==
  IF "missing" \in F THEN {box[p]}
  ELSE IF "stop" \in F
       THEN {"none", box[p]} \cup (IF box[p] = "running" THEN Exited ELSE {})
       ELSE {"none"}

StopContainer(p, F) ==
  /\ \E s \in StopLeaves(p, F) : box' = [box EXCEPT ![p] = s]
  /\ UNCHANGED boxIP

ArchiveLogs(p, F) == logs' = IF Archived(p, F) THEN logs \cup {p} ELSE logs

\* Mutant of RemoveWorkload: the NFS mounts of the record are not unmounted.
RemoveWithoutUnmount(p, r, F) ==
  /\ ArchiveLogs(p, F)
  /\ StopContainer(p, F)
  /\ aliases' = IF "alias" \in F THEN aliases ELSE aliases \ {r.ip}
  /\ UNCHANGED mounts

\* The host side of removeWorkload for a Pod with record r.
RemoveWorkload(p, r, F) ==
  /\ ArchiveLogs(p, F)
  /\ StopContainer(p, F)
  /\ aliases' = IF "alias" \in F THEN aliases ELSE aliases \ {r.ip}
  /\ mounts' = IF r.nfs /\ "unmount" \notin F THEN mounts \ {p} ELSE mounts

\* The record removeWorkload leaves: NFSMounts is cleared even when an unmount failed.
Torn(p, r, F) == [r EXCEPT !.log = @ \/ Archived(p, F), !.nfs = FALSE]

\* Mutants of the two below: a failed stop goes unnoticed.
StopUnnoticed(F)   == FALSE
RemoveUnnoticed(F) == F \cap {"alias", "unmount"} # {}

StopFailed(F)   == "stop" \in F /\ "missing" \notin F
RemoveFailed(F) == StopFailed(F) \/ F \cap {"alias", "unmount"} # {}

\* retainWorkloadLocked with a record whose LogFile is set iff log.
Retain(p, log) ==
  /\ managed' = managed \ {p}
  /\ wl' = [wl EXCEPT ![p] = NoRecord]
  /\ retained' = retained \cup {p}
  /\ retLog' = IF log THEN retLog \cup {p} ELSE retLog \ {p}

\* removeWorkload as the sweep of unseen workloads and cleanup() call it: retained
\* when it succeeded, kept in m.workloads otherwise.
RemoveManaged(p, F) ==
  /\ Meet(F)
  /\ RemoveWorkload(p, wl[p], F)
  /\ IF RemoveFailed(F)
     THEN /\ wl' = [wl EXCEPT ![p] = Torn(p, wl[p], F)]
          /\ UNCHANGED <<managed, retained, retLog, dirty>>
     ELSE Retain(p, Torn(p, wl[p], F).log) /\ dirty' = TRUE
  /\ todo' = todo \ {p}
  /\ UNCHANGED <<api, journal, listed, terminating, used, pc, report, stops, exits>>

-----------------------------------------------------------------------------
\* The beginning of a session and of a pass

Init ==
  /\ live = {} /\ born = {} /\ deleting = {}
  /\ phase = [p \in Pods |-> "Pending"]
  /\ podIP = [p \in Pods |-> NoIP]
  /\ podRestarts = [p \in Pods |-> 0] /\ assignable = Addresses
  /\ managed = {} /\ wl = NoWl /\ retained = {} /\ retLog = {}
  /\ journal = JournalOf({}, NoWl, {}, {}) /\ logs = {}
  /\ box = [p \in Pods |-> "none"] /\ boxIP = [p \in Pods |-> NoIP]
  /\ aliases = {} /\ mounts = {}
  /\ pc = "down" /\ todo = {} /\ listed = {} /\ terminating = {} /\ used = {}
  /\ report = NoReport /\ dirty = FALSE
  /\ faults = 0 /\ stops = 0 /\ exits = 0

\* pruneRetainedLogsLocked: X are the retained records whose TTL has passed.
Prune(X, r, l) ==
  /\ retained' = r \ X
  /\ retLog' = l \ X
  /\ logs' = logs \ (X \cap l)

\* A session: the network setup removes stale Pod addresses from the bridge, then
\* loadJournal rebuilds memory, prunes, and persists if anything was pruned.  A
\* failed write ends the session.
StartSession ==
  /\ pc = "down"
  /\ \E X \in SUBSET journal.retained, F \in Faulty({"persist"}) :
       /\ X = {} => F = {}
       /\ Meet(F)
       /\ IF F = {}
          THEN /\ managed' = journal.managed /\ wl' = journal.wl
               /\ Prune(X, journal.retained, journal.retLog)
               /\ journal' = IF X = {} THEN journal
                             ELSE JournalOf(managed', wl', retained', retLog')
               /\ pc' = "idle"
          ELSE /\ logs' = logs \ (X \cap journal.retLog)
               /\ journal' \in FileAfter(F, JournalOf(journal.managed, journal.wl,
                                                   journal.retained \ X, journal.retLog \ X))
               /\ UNCHANGED <<memory, pc>>
  /\ aliases' = {}
  /\ UNCHANGED <<api, box, boxIP, mounts, pass, todo, report, stops, exits>>

\* Mutant of ReportedIPs: a terminating Pod's address counts as free.
SurvivorIPs == {podIP[p] : p \in live \ deleting} \ {NoIP}

\* The addresses the listed Pods report.
ReportedIPs == {podIP[p] : p \in live} \ {NoIP}

\* listAssignedPods and the head of reconcile: prune, collect the addresses the
\* listed Pods report.
BeginPass ==
  /\ pc = "idle"
  /\ \E X \in SUBSET retained, F \in Faulty({"persist"}) :
       /\ X = {} => F = {}
       /\ Meet(F)
       /\ Prune(X, retained, retLog)
       /\ UNCHANGED <<managed, wl>>
       /\ IF X = {} THEN UNCHANGED journal ELSE Persist(F)
       /\ IF F # {} THEN UNCHANGED <<pc, todo, listed, terminating, used>>
          ELSE /\ pc' = "next" /\ todo' = live /\ listed' = live
               /\ terminating' = deleting \cap live
               /\ used' = ReportedIPs
  /\ UNCHANGED <<api, host, dirty, report, stops, exits>>

-----------------------------------------------------------------------------
\* One Pod of the list

\* The deletion branch: a Pod without a record gets one made from its status.
DeletedRecord(p) ==
  IF p \in managed THEN wl[p] ELSE [NoRecord EXCEPT !.ip = podIP[p]]

RemoveDeleted(p) ==
  /\ At("next", p) /\ p \in terminating
  /\ \E F \in Faulty(TearKinds(p, DeletedRecord(p))) :
       LET r == DeletedRecord(p) IN
       /\ Meet(F)
       /\ RemoveWorkload(p, r, F)
       /\ IF RemoveFailed(F)
          THEN /\ managed' = managed \cup {p}
               /\ wl' = [wl EXCEPT ![p] = Torn(p, r, F)]
               /\ UNCHANGED <<retained, retLog>>
               /\ Continue(p)
          ELSE /\ Retain(p, Torn(p, r, F).log)
               /\ pc' = "deleted" /\ UNCHANGED todo
               /\ report' = [phase |-> "Failed", ip |-> podIP[p], restarts |-> r.restarts]
  /\ UNCHANGED <<api, journal, pass, stops, exits>>

\* The journal writes after a retained workload, whose error is only collected.
PersistRetained(p) ==
  /\ At("deleted", p) \/ At("completed", p)
  /\ UNCHANGED <<memory, logs>>
  /\ \E F \in Faulty({"persist"}) : Meet(F) /\ Persist(F)
  /\ Goto("report")
  /\ UNCHANGED <<api, host, pass, stops, exits>>

SkipForeign(p) ==
  /\ At("next", p) /\ p \notin terminating /\ p \in Foreign
  /\ Continue(p)
  /\ UNCHANGED <<api, memory, disk, host, pass, faults, stops, exits>>

RejectUnsupported(p) ==
  /\ At("next", p) /\ p \notin terminating /\ p \in Unsupported \ Foreign
  /\ ReportStatus("Pending", podIP[p], 0)
  /\ UNCHANGED <<api, memory, disk, host, pass, faults, stops, exits>>

Eligible(p) == p \notin terminating /\ p \notin Foreign \cup Unsupported

\* The record of a Pod seen for the first time continues its restart count.
FirstRecord(p) == [NoRecord EXCEPT !.restarts = podRestarts[p]]

\* It is persisted before anything else happens.
AdmitNew(p) ==
  /\ At("next", p) /\ Eligible(p) /\ p \notin managed
  /\ \E F \in Faulty({"persist"}) :
       /\ Meet(F)
       /\ managed' = managed \cup {p}
       /\ UNCHANGED <<retained, retLog, logs>>
       /\ IF "persist" \in F
          THEN wl' = [wl EXCEPT ![p] = Later(FirstRecord(p))] /\ Continue(p)
          ELSE wl' = [wl EXCEPT ![p] = FirstRecord(p)] /\ Goto("address")
       /\ Persist(F)
  /\ UNCHANGED <<api, host, pass, stops, exits>>

\* Mutant of AdmitKnown: a Pod with a record is taken for settled.
SkipKnown(p) ==
  /\ At("next", p) /\ Eligible(p) /\ p \in managed
  /\ Continue(p)
  /\ UNCHANGED <<api, memory, disk, host, pass, faults, stops, exits>>

AdmitKnown(p) ==
  /\ At("next", p) /\ Eligible(p) /\ p \in managed
  /\ Goto("address")
  /\ UNCHANGED <<api, memory, disk, host, pass, faults, stops, exits>>

\* Mutant of FirstFree: the bridge's own address, one below the first assignable one.
BridgeAddress == 2

\* firstAvailableWorkloadIP: the lowest address this pass does not know as used.
Free == assignable \ used
FirstFree == CHOOSE a \in Free : \A b \in Free : a <= b

NeedsAddress(p) == p \notin HostNetwork /\ podIP[p] = NoIP

ChosenIP(p) ==
  IF p \in HostNetwork THEN NodeIP
  ELSE IF podIP[p] # NoIP THEN podIP[p] ELSE FirstFree

NoAddressLeft(p) ==
  /\ At("address", p) /\ NeedsAddress(p) /\ Free = {}
  /\ ReportStatus("Pending", NoIP, wl[p].restarts)
  /\ UNCHANGED <<api, memory, disk, host, pass, faults, stops, exits>>

\* validateWorkloadAddress fails: the address the Pod reports is outside the PodCIDR, or
\* the session reserves it for a gateway.
Refused(p) == p \notin HostNetwork /\ podIP[p] \notin assignable \cup {NoIP}

\* The Pod is Pending again, whatever its phase was: the terminal-phase check comes later.
RefuseAddress(p) ==
  /\ At("address", p) /\ Refused(p)
  /\ ReportStatus("Pending", podIP[p], wl[p].restarts)
  /\ UNCHANGED <<api, memory, disk, host, pass, faults, stops, exits>>

\* Choose the address; give up the alias of a previous one; record and persist it.
AssignAddress(p) ==
  /\ At("address", p) /\ ~Refused(p) /\ ~(NeedsAddress(p) /\ Free = {})
  /\ LET ip  == ChosenIP(p)
         old == wl[p].ip
         changed == old # ip
         r == [wl[p] EXCEPT !.ip = ip]
     IN \E F \in Faulty((IF changed THEN {"persist"} ELSE {})
                        \cup (IF changed /\ old \in aliases THEN {"alias"} ELSE {})) :
       /\ Meet(F)
       /\ used' = IF NeedsAddress(p) THEN used \cup {ip} ELSE used
       /\ UNCHANGED <<managed, retained, retLog, logs>>
       /\ IF "alias" \in F
          THEN Continue(p) /\ UNCHANGED <<wl, journal, aliases>>
          ELSE /\ aliases' = IF changed THEN aliases \ {old} ELSE aliases
               /\ IF "persist" \in F
                  THEN wl' = [wl EXCEPT ![p] = Later(r)] /\ Continue(p)
                  ELSE wl' = [wl EXCEPT ![p] = r] /\ Goto("alias")
               /\ IF changed THEN Persist(F) ELSE UNCHANGED journal
  /\ UNCHANGED <<api, box, boxIP, mounts, listed, terminating, dirty, stops, exits>>

\* Mutant of AddAlias: the address is configured only before the workload starts.
AddAliasOnce(p) ==
  /\ At("alias", p)
  /\ Goto("inspect")
  /\ aliases' = IF box[p] = "running" THEN aliases ELSE aliases \cup ({wl[p].ip} \cap Addresses)
  /\ UNCHANGED <<api, memory, disk, box, boxIP, mounts, pass, faults, stops, exits>>

\* addWorkloadIP; nothing to do for an address already on the bridge.
AddAlias(p) ==
  /\ At("alias", p)
  /\ \E F \in Faulty(IF wl[p].ip \in aliases \cup {NodeIP} THEN {} ELSE {"alias"}) :
       /\ Meet(F)
       /\ IF F # {} THEN ReportStatus("Pending", wl[p].ip, wl[p].restarts) /\ UNCHANGED aliases
          ELSE Goto("inspect") /\ aliases' = aliases \cup ({wl[p].ip} \cap Addresses)
  /\ UNCHANGED <<api, memory, disk, box, boxIP, mounts, pass, stops, exits>>

\* Mutant of Finished: the terminal-phase check is missing.
NeverFinished(p) == FALSE

Finished(p) == phase[p] \in {"Succeeded", "Failed"} /\ Policy[p] # "Always"

\* The terminal-phase and RetryAfter checks, then containerStatus (macker ps).
Inspect(p) ==
  /\ At("inspect", p)
  /\ IF Finished(p) \/ wl[p].retry
     THEN Continue(p) /\ UNCHANGED <<wl, faults>>
     ELSE \E F \in Faulty({"ps"}) :
       /\ Meet(F)
       /\ IF F # {} THEN Backoff(p, wl[p])
          ELSE /\ UNCHANGED wl
               /\ CASE box[p] = "running" -> ReportStatus("Running", wl[p].ip, wl[p].restarts)
                    [] box[p] = "none"    -> Goto("prepare")
                    [] OTHER              -> Goto("exited")
  /\ UNCHANGED <<api, managed, retained, retLog, disk, host, pass, stops, exits>>

\* macker inspect of an exited container: "decode" is unreadable output, "inspect"
\* a failing command, which the code takes for a Macker without inspect.
InspectUnreadable(p) ==
  /\ At("exited", p)
  /\ \E F \in Faulty({"decode"}) : F # {} /\ Meet(F)
  /\ wl' = [wl EXCEPT ![p] = Later(@)]
  /\ Continue(p)
  /\ UNCHANGED <<api, managed, retained, retLog, disk, host, pass, stops, exits>>

FinalPhase(p, F) ==
  IF "inspect" \in F THEN (IF Policy[p] = "OnFailure" THEN "Failed" ELSE "Succeeded")
  ELSE IF box[p] = "failed" THEN "Failed" ELSE "Succeeded"

\* Never and OnFailure: archive, stop (its error is dropped) and retain the record.
\* Neither the alias nor an NFS mount is given up here.
Complete(p) ==
  /\ At("exited", p) /\ Policy[p] # "Always"
  /\ \E F \in Faulty({"inspect"} \cup StopKinds(p)) :
       /\ Meet(F)
       /\ ArchiveLogs(p, F) /\ StopContainer(p, F)
       /\ Retain(p, wl[p].log \/ Archived(p, F))
       /\ pc' = "completed" /\ UNCHANGED todo
       /\ report' = [phase |-> FinalPhase(p, F), ip |-> wl[p].ip, restarts |-> wl[p].restarts]
  /\ UNCHANGED <<api, journal, aliases, mounts, pass, stops, exits>>

\* Always: archive, stop, count the restart; the count is persisted next.
Restart(p) ==
  /\ At("exited", p) /\ Policy[p] = "Always"
  /\ \E F \in Faulty(StopKinds(p)) :
       LET r == [wl[p] EXCEPT !.log = @ \/ Archived(p, F)]
       IN /\ Meet(F)
          /\ ArchiveLogs(p, F) /\ StopContainer(p, F)
          /\ IF StopFailed(F)
             THEN wl' = [wl EXCEPT ![p] = Later(r)] /\ Continue(p)
             ELSE wl' = [wl EXCEPT ![p] = [r EXCEPT !.restarts = @ + 1]] /\ Goto("restarted")
  /\ UNCHANGED <<api, managed, retained, retLog, journal, aliases, mounts, pass, stops, exits>>

PersistRestart(p) ==
  /\ At("restarted", p)
  /\ \E F \in Faulty({"persist"}) :
       /\ Meet(F)
       /\ UNCHANGED <<managed, retained, retLog, logs>>
       /\ IF F # {} THEN wl' = [wl EXCEPT ![p] = Later(@)] /\ Continue(p)
                    ELSE Goto("prepare") /\ UNCHANGED wl
       /\ Persist(F)
  /\ UNCHANGED <<api, host, pass, stops, exits>>

\* runArgsWithContext: mount the export, or adopt a mount that is already there,
\* and build the invocation.  It may fail before ("mount") or after ("args") that.
Prepare(p) ==
  /\ At("prepare", p)
  /\ \E F \in Faulty({"args"} \cup (IF p \in Nfs \ mounts THEN {"mount"} ELSE {})) :
       LET mounted == p \in Nfs /\ "mount" \notin F
           r == [wl[p] EXCEPT !.nfs = @ \/ mounted]
       IN /\ Meet(F)
          /\ mounts' = IF mounted THEN mounts \cup {p} ELSE mounts
          /\ IF F # {} THEN Backoff(p, r)
             ELSE /\ wl' = [wl EXCEPT ![p] = r]
                  /\ Goto(IF r.nfs THEN "mounted" ELSE "start")
  /\ UNCHANGED <<api, managed, retained, retLog, disk, box, boxIP, aliases, pass, stops, exits>>

PersistMounts(p) ==
  /\ At("mounted", p)
  /\ \E F \in Faulty({"persist"}) :
       /\ Meet(F)
       /\ UNCHANGED <<managed, retained, retLog, logs>>
       /\ IF F # {} THEN Backoff(p, wl[p]) ELSE Goto("start") /\ UNCHANGED wl
       /\ Persist(F)
  /\ UNCHANGED <<api, host, pass, stops, exits>>

\* Mutant of RunIP: the container gets the address the Pod reports so far.
ReportedIP(p) == podIP[p]

\* The --ip argument runArgsWithContext gives Macker.
RunIP(p) == wl[p].ip

\* startMackerWorkload: macker run, with the pull of a missing image and the retry.
\* Macker refuses the name of a container it still has.
Start(p) ==
  /\ At("start", p)
  /\ \/ /\ box[p] = "none"
        /\ box' = [box EXCEPT ![p] = "running"]
        /\ boxIP' = [boxIP EXCEPT ![p] = RunIP(p)]
        /\ Goto("wait") /\ UNCHANGED <<wl, faults>>
     \/ /\ \E F \in Faulty({"run"}) : Meet(F) /\ (F # {} \/ box[p] # "none")
        /\ Backoff(p, wl[p]) /\ UNCHANGED <<box, boxIP>>
  /\ UNCHANGED <<api, managed, retained, retLog, disk, aliases, mounts, pass, stops, exits>>

\* waitForMackerRunning: the workload must be running when the startup window of
\* five seconds ends; otherwise the container is stopped, whatever stop returns.
WaitRunning(p) ==
  /\ At("wait", p) /\ box[p] = "running"
  /\ Goto("started")
  /\ UNCHANGED <<api, memory, disk, host, pass, faults, stops, exits>>

WaitFailed(p) ==
  /\ At("wait", p)
  /\ \E F \in Faulty({"ps"} \cup (StopKinds(p) \ {"logs"})) :
       /\ box[p] # "running" \/ "ps" \in F
       /\ Meet(F)
       /\ StopContainer(p, F)
  /\ Backoff(p, wl[p])
  /\ UNCHANGED <<api, managed, retained, retLog, disk, aliases, mounts, pass, stops, exits>>

\* The journal write after the start; when it fails the workload is removed again,
\* but its record stays in m.workloads.
PersistStarted(p) ==
  /\ At("started", p)
  /\ UNCHANGED <<managed, retained, retLog>>
  /\ \/ /\ wl' = [wl EXCEPT ![p].retry = FALSE]
        /\ Persist({})
        /\ ReportStatus("Running", wl[p].ip, wl[p].restarts)
        /\ UNCHANGED <<logs, host, faults>>
     \/ \E F \in Faulty({"persist"} \cup TearKinds(p, wl[p])) :
        /\ "persist" \in F
        /\ Meet(F)
        /\ RemoveWorkload(p, wl[p], F)
        /\ Backoff(p, Torn(p, wl[p], F))
        /\ journal' \in FileAfter(F, JournalOf(managed, wl, retained, retLog))
  /\ UNCHANGED <<api, pass, stops, exits>>

\* updateStatus: PUT of the status, 404 when the Pod is gone.
PutStatus(p) ==
  /\ At("report", p)
  /\ \E F \in Faulty({"put"}) :
       /\ Meet(F)
       /\ IF F = {} /\ p \in live
          THEN /\ phase' = [phase EXCEPT ![p] = report.phase]
               /\ podIP' = [podIP EXCEPT ![p] = report.ip]
               /\ podRestarts' = [podRestarts EXCEPT ![p] = report.restarts]
          ELSE UNCHANGED <<phase, podIP, podRestarts>>
  /\ pc' = "next" /\ todo' = todo \ {p} /\ report' = NoReport
  /\ UNCHANGED <<live, born, deleting, assignable, memory, disk, host, pass, stops, exits>>

-----------------------------------------------------------------------------
\* The closing loop over workloads no listed Pod accounts for, and the drain

\* Mutant of Seen: every journaled workload counts as accounted for.
SeenOrJournaled == (listed \ Foreign) \cup terminating \cup journal.managed

Seen == (listed \ Foreign) \cup terminating

BeginSweep ==
  /\ pc = "next" /\ todo = {}
  /\ pc' = "sweep" /\ todo' = managed \ Seen
  /\ used' = {}
  /\ UNCHANGED <<api, memory, disk, host, listed, terminating, dirty, report,
                 faults, stops, exits>>

SweepOne(p) ==
  /\ pc = "sweep" /\ p \in todo
  /\ \E F \in Faulty(TearKinds(p, wl[p])) : RemoveManaged(p, F)

EndPass ==
  /\ pc = "sweep" /\ todo = {}
  /\ UNCHANGED <<memory, logs>>
  /\ \E F \in Faulty(IF dirty THEN {"persist"} ELSE {}) :
       Meet(F) /\ IF dirty THEN Persist(F) ELSE UNCHANGED journal
  /\ pc' = "idle" /\ dirty' = FALSE /\ listed' = {} /\ terminating' = {}
  /\ UNCHANGED <<api, host, todo, used, report, stops, exits>>

\* SIGTERM: the heartbeat loop drains when the running pass is over.
Shutdown ==
  /\ pc = "idle" /\ stops < MaxStops
  /\ stops' = stops + 1
  /\ pc' = "drain" /\ todo' = managed
  /\ UNCHANGED <<api, memory, disk, host, pass, report, faults, exits>>

\* cleanup(), which runs twice: in the shutdown branch and deferred.
DrainOne(p) ==
  /\ pc \in {"drain", "drain2"} /\ p \in todo
  /\ \E F \in Faulty(TearKinds(p, wl[p])) : RemoveManaged(p, F)

PersistDrained(F) ==
  IF dirty \/ managed = {} THEN Persist(F) ELSE F = {} /\ UNCHANGED journal

DrainAgain ==
  /\ pc = "drain" /\ todo = {}
  /\ UNCHANGED <<memory, logs>>
  /\ \E F \in Faulty({"persist"}) : Meet(F) /\ PersistDrained(F)
  /\ pc' = "drain2" /\ todo' = managed /\ dirty' = FALSE
  /\ UNCHANGED <<api, host, listed, terminating, used, report, stops, exits>>

\* The session ends: the network cleanup takes the bridge and its aliases away.
EndSession ==
  /\ pc = "drain2" /\ todo = {}
  /\ \E F \in Faulty({"persist"}) :
       /\ Meet(F)
       /\ IF dirty \/ managed = {}
          THEN journal' \in FileAfter(F, JournalOf(managed, wl, retained, retLog))
          ELSE F = {} /\ UNCHANGED journal
  /\ managed' = {} /\ wl' = NoWl /\ retained' = {} /\ retLog' = {}
  /\ aliases' = {}
  /\ pc' = "down" /\ dirty' = FALSE
  /\ UNCHANGED <<api, logs, box, boxIP, mounts, listed, terminating, used, todo, report,
                 stops, exits>>

\* The process is killed.  Macker's detached workloads, the bridge and the disk
\* survive it; memory does not.
Crash ==
  /\ pc # "down" /\ stops < MaxStops /\ "crash" \in FaultKinds
  /\ stops' = stops + 1
  /\ managed' = {} /\ wl' = NoWl /\ retained' = {} /\ retLog' = {}
  /\ pc' = "down" /\ todo' = {} /\ report' = NoReport
  /\ listed' = {} /\ terminating' = {} /\ used' = {} /\ dirty' = FALSE
  /\ UNCHANGED <<api, disk, host, faults, exits>>

-----------------------------------------------------------------------------
\* The environment

CreatePod(p) ==
  /\ p \notin born
  /\ born' = born \cup {p} /\ live' = live \cup {p}
  /\ UNCHANGED <<deleting, phase, podIP, podRestarts, assignable, memory, disk, host, pass,
                 pc, todo, report, faults, stops, exits>>

DeletePod(p) ==
  /\ p \in live \ deleting
  /\ deleting' = deleting \cup {p}
  /\ UNCHANGED <<live, born, phase, podIP, podRestarts, assignable, memory, disk, host, pass,
                 pc, todo, report, faults, stops, exits>>

\* The object disappears: the end of a graceful deletion, or a forced one.
RemovePod(p) ==
  /\ p \in live
  /\ live' = live \ {p} /\ deleting' = deleting \ {p}
  /\ UNCHANGED <<born, phase, podIP, podRestarts, assignable, memory, disk, host, pass, pc,
                 todo, report, faults, stops, exits>>

\* The Node gets another PodCIDR, or peers whose gateways reserve other addresses.  A
\* session keeps what it found when it began, so this matters between two sessions.
Renumber ==
  /\ pc = "down" /\ "renumber" \in FaultKinds /\ faults < MaxFaults
  /\ assignable' \in SUBSET Addresses \ {assignable}
  /\ faults' = faults + 1
  /\ UNCHANGED <<live, born, deleting, phase, podIP, podRestarts, memory, disk, host, pass,
                 pc, todo, report, stops, exits>>

WorkloadExits(p) ==
  /\ box[p] = "running" /\ exits < MaxExits
  /\ exits' = exits + 1
  /\ \E s \in Exited : box' = [box EXCEPT ![p] = s]
  /\ UNCHANGED <<api, memory, disk, boxIP, aliases, mounts, pass, pc, todo, report,
                 faults, stops>>

\* Mutant of RetryElapses: RetryAfter is never compared with the time.
NeverElapses(p) == FALSE

\* Ten seconds have passed: time.Now() is no longer before RetryAfter.
RetryElapses(p) ==
  /\ wl[p].retry
  /\ wl' = [wl EXCEPT ![p].retry = FALSE]
  /\ UNCHANGED <<api, managed, retained, retLog, disk, host, pass, pc, todo, report,
                 faults, stops, exits>>

-----------------------------------------------------------------------------

PodStep(p) ==
  \/ RemoveDeleted(p) \/ PersistRetained(p) \/ SkipForeign(p) \/ RejectUnsupported(p)
  \/ AdmitNew(p) \/ AdmitKnown(p) \/ NoAddressLeft(p) \/ RefuseAddress(p) \/ AssignAddress(p)
  \/ AddAlias(p) \/ Inspect(p) \/ InspectUnreadable(p) \/ Complete(p) \/ Restart(p)
  \/ PersistRestart(p) \/ Prepare(p) \/ PersistMounts(p) \/ Start(p) \/ WaitRunning(p)
  \/ WaitFailed(p) \/ PersistStarted(p) \/ PutStatus(p) \/ SweepOne(p) \/ DrainOne(p)

Daemon ==
  \/ StartSession \/ BeginPass \/ BeginSweep \/ EndPass \/ DrainAgain \/ EndSession
  \/ \E p \in Pods : PodStep(p)

Environment ==
  \/ Shutdown \/ Crash \/ Renumber
  \/ \E p \in Pods : CreatePod(p) \/ DeletePod(p) \/ RemovePod(p)
                     \/ WorkloadExits(p) \/ RetryElapses(p)

Next == Daemon \/ Environment

Spec == Init /\ [][Next]_vars

\* The heartbeat ticker keeps the daemon's thread going, the operator (or the
\* supervisor) starts a stopped daemon again, and time passes.
Fairness == WF_vars(Daemon) /\ \A p \in Pods : WF_vars(RetryElapses(p))

FairSpec == Spec /\ Fairness
-----------------------------------------------------------------------------
\* Properties

\* A workload that runs is known to the journal on disk, so that the daemon that
\* starts after a crash can stop it (reconcile persists before startMackerWorkload,
\* and again after every removal).  Needs journal writes that succeed and a Macker
\* that can be executed.
RunningJournaled == \A p \in Pods : box[p] = "running" => p \in journal.managed

\* What the API server and the Mac show is a behaviour of PodLifecycle, across restarts,
\* drains, crashes and lost status writes: a finished Pod never runs again and keeps its
\* phase until its deletion is acknowledged or its address refused, restart counts only
\* grow until an acknowledgement may drop them to zero, no workload starts for a Pod whose
\* address is refused, and nothing of a Pod runs when it finishes or its deletion is
\* acknowledged (the terminal-phase check, the deletion branch and the address check of
\* reconcile; RestartCount is continued from the status).
Lifecycle == INSTANCE PodLifecycle WITH
  Native   <- Pods \ (Foreign \cup Unsupported),
  restarts <- podRestarts,
  running  <- {p \in Pods : box[p] = "running"},
  doomed   <- {p \in born : p \in live => p \in deleting},
  refused  <- {p \in Pods : Refused(p)}

LifecycleKept == Lifecycle!Spec

\* A deletion is acknowledged to the API server only when the container is gone: a
\* removal that failed is tried again by the next pass, never reported as done (the
\* deletion branch of reconcile).
DeletionAcknowledged ==
  \A p \in terminating : At("report", p) => box[p] = "none"

\* Two Pods that exist never run on the same address (firstAvailableWorkloadIP with the
\* addresses the listed Pods report).
UniqueAddresses ==
  \A p, q \in live \ HostNetwork :
    p # q /\ box[p] = "running" /\ box[q] = "running" => boxIP[p] # boxIP[q]

\* A running workload was started with the address its Pod reports.
AddressReported ==
  \A p \in live \ HostNetwork :
    phase[p] = "Running" /\ box[p] = "running" => boxIP[p] = podIP[p]

\* A workload never runs without its NFS export, and the journal knows the mount, so
\* that it can be unmounted after a crash (the journal write between runArgsWithContext
\* and startMackerWorkload, and removeWorkload's order).
RunningMounted ==
  \A p \in Nfs : box[p] = "running" => p \in mounts /\ journal.wl[p].nfs

\* The daemon never loses track of an NFS mount it made: its record names it until it
\* is unmounted, whichever step of a start or of a removal fails.  Needs unmounts that
\* succeed and Pods that are restarted for ever.
MountsTracked == \A p \in mounts : wl[p].nfs \/ journal.wl[p].nfs

\* A deleted Pod's workload stops running for good, whichever of the deletion branch,
\* the sweep and the drain gets to it, and whatever crashes come between.
DeletedStops ==
  \A p \in Pods : p \in deleting \/ p \in born \ live ~> [](box[p] # "running")

\* Every assignable address is reported by another Pod that exists.
NoneFree(p) == p \notin HostNetwork /\ assignable \subseteq {podIP[q] : q \in live \ {p}}

\* An admissible Pod does not stay Pending while an address is free, unless the address
\* it reports has been refused: it is deleted, or reaches a phase that says its workload
\* ran, also when a start failed and waits for RetryAfter (BeginPass to PutStatus of every
\* pass, the ten seconds after a failure, the journal after a crash).
NativeSettles ==
  \A p \in Pods \ (Foreign \cup Unsupported) :
    p \in live ~> \/ p \in deleting \/ p \notin live
                  \/ phase[p] # "Pending" \/ NoneFree(p) \/ Refused(p)

\* The address a running Pod reports comes back to the bridge whenever something takes
\* it away: a removal, a drain, a new session (addWorkloadIP runs in every pass, before
\* containerStatus).
AddressRestored ==
  \A p \in Pods \ HostNetwork :
    LET serving == p \in live \ deleting /\ phase[p] = "Running" /\ box[p] = "running"
    IN serving ~> (podIP[p] \in aliases \/ ~serving)

-----------------------------------------------------------------------------
\* Inductive invariants

\* Stages of the Pod loop, and those in which the Pod's record has been persisted
PodStages   == Stages \ {"down", "idle", "sweep", "drain", "drain2"}
OwnedStages == {"address", "alias", "inspect", "exited", "restarted", "prepare", "mounted",
                "start", "wait", "started"}

\* A Pod that is gone, or will be
Doomed(p) == p \in born /\ (p \in live => p \in deleting)

\* Why RunningJournaled holds: memory knows every running workload, the Pod being
\* started is journaled, and the only records memory holds and the journal does not are
\* those of doomed Pods, which no pass will start (the deletion branch of reconcile keeps
\* a record it failed to remove without persisting it).  A workload found exited does not
\* run again before the pass restarts it.
OwnershipInv ==
  /\ live \subseteq born
  /\ \A p \in terminating : Doomed(p)
  /\ pc # "down" => \A p \in Pods : box[p] = "running" => p \in managed
  /\ RunningJournaled
  /\ \A p \in managed \ journal.managed :
       Doomed(p) /\ (pc \in PodStages /\ p \in todo => p \in terminating)
  /\ \A p \in Pods : pc \in OwnedStages /\ At(pc, p) => p \in managed \cap journal.managed
  /\ \A p \in Pods : At("exited", p) => box[p] # "running"

\* Why DeletionAcknowledged holds: the Pod a pass starts was not listed as deleted, and
\* the container of the one it is about to acknowledge is gone.
AcknowledgeInv ==
  \A p \in Pods :
    /\ pc \in OwnedStages \cup {"completed"} /\ At(pc, p) => p \notin terminating
    /\ At("deleted", p) => box[p] = "none"
    /\ At("report", p) /\ p \in terminating => box[p] = "none"

-----------------------------------------------------------------------------
\* What the documentation says and the code does not keep

\* Retained logs "are served by kubectl logs through the kubelet/API-server proxy after
\* the Macker container is removed" (README.md:423-425; findContainer, serveLogs).
Served(p) == IF p \in managed THEN wl[p].log ELSE p \in retLog

LogsServed ==
  \A p \in live : pc = "idle" /\ p \in logs /\ box[p] = "none" => Served(p)

\* Each ordinary Pod has "a direct PodCIDR address alias on the VXLAN bridge"
\* (ARCHITECTURE.md:139): between passes a running Pod's address is on the bridge.
AddressServed ==
  pc = "idle" => \A p \in live \ (HostNetwork \cup deleting) :
    phase[p] = "Running" /\ box[p] = "running" => podIP[p] \in aliases
=============================================================================
