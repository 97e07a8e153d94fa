--------------------------- MODULE NodeOwnership ---------------------------
(***************************************************************************)
(* Who owns the Node object.  Several state directories (installations of  *)
(* maclet) are configured with the same Node name.  Each runs sessions:    *)
(* claim the Node, record its UID, lift the cordon of the last shutdown,   *)
(* publish Flannel data, report status, and on shutdown cordon the Node    *)
(* and withdraw the Flannel data.  `maclet leave` removes the Node.  An    *)
(* operator creates, deletes and cordons Nodes; daemons are killed.        *)
(*                                                                         *)
(* One action per request to the API server or write to the disk.  The     *)
(* resourceVersion is modelled by whether a daemon's copy of the Node is   *)
(* current.  Labels, taints, addresses and the Lease are left out.         *)
(***************************************************************************)
EXTENDS Naturals

CONSTANTS
  Dirs,             \* state directories; each has one instance ID
  NoDir,            \* no directory
  Adopters,         \* directories joined with --adopt
  LiveReplacement,  \* whether Nodes are deleted or created while a session runs
  MaxNodes,         \* bound: Node objects, for the operator to create or delete more
  MaxStops,         \* bound: shutdowns and crashes
  MaxCordons        \* bound: operator's cordons and uncordons

ASSUME DirsAssumption == NoDir \notin Dirs /\ Adopters \subseteq Dirs
ASSUME ReplacementAssumption == LiveReplacement \in BOOLEAN
ASSUME NodeBoundsAssumption == MaxNodes \in Nat /\ MaxStops \in Nat /\ MaxCordons \in Nat

VARIABLES
  node,       \* API: the Node object of that name
  secret,     \* API: whose password (its hash) the node-password Secret holds
  asked,      \* the operator's last word on this Node: is it to be cordoned?
  disk,       \* whether state.json of a directory is new, joined or left
  uid,        \* NodeUID of a state.json; 0 when empty
  pc,         \* stage of the session or of leave
  snap,       \* the session's copy of the Node
  fresh,      \* whether that copy has the Node's resourceVersion
  nodes, stops, cordons

local == <<disk, uid>>
vars  == <<node, secret, asked, local, pc, snap, fresh, nodes, stops, cordons>>

-----------------------------------------------------------------------------
Owners == Dirs \cup {NoDir}

NodeRecord == [uid : Nat, marker : Owners, unsched : BOOLEAN, shut : BOOLEAN,
               flannel : Owners, status : Owners]

\* No Node of that name
Absent == [uid |-> 0, marker |-> NoDir, unsched |-> FALSE, shut |-> FALSE,
           flannel |-> NoDir, status |-> NoDir]

Exists == node.uid # 0

NodeStages == {"down", "state", "get", "post", "get2", "patch", "persist", "uncordon",
               "await", "flannel", "serve", "running", "status", "cordon", "clear",
               "secret", "delete", "unclean", "files"}

\* The session has claimed the Node, and not withdrawn from it yet.
Claimed == {"persist", "uncordon", "await", "flannel", "serve", "running", "status",
            "cordon", "clear"}

NodeTypeOK ==
  /\ node \in NodeRecord /\ secret \in Owners /\ asked \in BOOLEAN
  /\ disk \in [Dirs -> {"new", "joined", "left"}]
  /\ uid \in [Dirs -> Nat]
  /\ pc \in [Dirs -> NodeStages]
  /\ snap \in [Dirs -> NodeRecord] /\ fresh \in [Dirs -> BOOLEAN]
  /\ nodes \in Nat /\ stops \in Nat /\ cordons \in Nat

-----------------------------------------------------------------------------
Goto(d, s) == pc' = [pc EXCEPT ![d] = s]

\* The session reads the Node.
Read(d) == /\ snap' = [snap EXCEPT ![d] = node]
           /\ fresh' = [fresh EXCEPT ![d] = TRUE]

\* The API server stores n; the answer is the session's new copy.
Store(d, n) == /\ node' = n
               /\ snap' = [snap EXCEPT ![d] = n]
               /\ fresh' = [e \in Dirs |-> e = d \/ (n = node /\ fresh[e])]

\* The same for a writer that keeps no copy.
Change(n) == /\ node' = n
             /\ fresh' = [e \in Dirs |-> n = node /\ fresh[e]]
             /\ UNCHANGED snap

Unsent == UNCHANGED <<node, snap, fresh>>

Init ==
  /\ node = Absent /\ secret = NoDir /\ asked = FALSE
  /\ disk = [d \in Dirs |-> "new"] /\ uid = [d \in Dirs |-> 0]
  /\ pc = [d \in Dirs |-> "down"]
  /\ snap = [d \in Dirs |-> Absent] /\ fresh = [d \in Dirs |-> FALSE]
  /\ nodes = 0 /\ stops = 0 /\ cordons = 0

\* runJoinSession.  A first join registers a random node password with K3s, which
\* accepts one only if it has none for the Node.
Join(d) ==
  /\ pc[d] = "down"
  /\ \/ disk[d] = "joined" /\ Goto(d, "get") /\ UNCHANGED secret
     \/ disk[d] = "new" /\ secret = NoDir /\ secret' = d /\ Goto(d, "state")
  /\ UNCHANGED <<node, asked, local, snap, fresh, nodes, stops, cordons>>

\* The first write of state.json; until then nobody can use the password again.
WriteState(d) ==
  /\ pc[d] = "state"
  /\ disk' = [disk EXCEPT ![d] = "joined"] /\ Goto(d, "get")
  /\ Unsent /\ UNCHANGED <<secret, asked, uid, nodes, stops, cordons>>

-----------------------------------------------------------------------------
\* Claiming the Node (ensureOwnedNode)

\* Mutant of Verified: the marker of another installation is overlooked.
UnmarkedOrNot(d, n) ==
  /\ uid[d] \in {0, n.uid}
  /\ n.marker = NoDir => d \in Adopters

\* verifyNodeOwnership
Verified(d, n) ==
  /\ n.marker \in {NoDir, d}
  /\ uid[d] \in {0, n.uid}
  /\ n.marker = NoDir => d \in Adopters

\* An existing Node is checked; one without a marker has to be patched.
Inspect(d) ==
  /\ Read(d)
  /\ Goto(d, IF ~Verified(d, node) THEN "down"
             ELSE IF node.marker = NoDir THEN "patch" ELSE "persist")

FindNode(d) ==
  /\ pc[d] = "get"
  /\ IF Exists THEN Inspect(d) ELSE Goto(d, "post") /\ UNCHANGED <<snap, fresh>>
  /\ UNCHANGED <<node, secret, asked, local, nodes, stops, cordons>>

\* POST of the Node with the marker; 409 when somebody else was faster.
PostNode(d) ==
  /\ pc[d] = "post"
  /\ IF Exists THEN Goto(d, "get2") /\ Unsent /\ UNCHANGED nodes
     ELSE /\ nodes' = nodes + 1
          /\ Store(d, [Absent EXCEPT !.uid = nodes', !.marker = d])
          /\ Goto(d, "persist")
  /\ UNCHANGED <<secret, asked, local, stops, cordons>>

\* The Node that won is fetched and checked like any other.
FindWinner(d) ==
  /\ pc[d] = "get2"
  /\ IF Exists THEN Inspect(d) ELSE Goto(d, "down") /\ UNCHANGED <<snap, fresh>>
  /\ UNCHANGED <<node, secret, asked, local, nodes, stops, cordons>>

\* Mutant of Current: the patch is sent without a resourceVersion.
SomeNode(d) == Exists

\* The Node is there, with the resourceVersion of the session's copy.
Current(d) == Exists /\ fresh[d]

\* The adoption: the patch carries the resourceVersion; 409 or 404 end the session.
PatchNode(d) ==
  /\ pc[d] = "patch"
  /\ IF Current(d) THEN Store(d, [node EXCEPT !.marker = d]) /\ Goto(d, "persist")
     ELSE Goto(d, "down") /\ Unsent
  /\ UNCHANGED <<secret, asked, local, nodes, stops, cordons>>

\* persistNodeOwnership
PersistUID(d) ==
  /\ pc[d] = "persist"
  /\ uid' = [uid EXCEPT ![d] = snap[d].uid]
  /\ Goto(d, "uncordon")
  /\ UNCHANGED <<node, secret, asked, disk, snap, fresh, nodes, stops, cordons>>

-----------------------------------------------------------------------------
\* The session

\* Mutant of Lifted: the marker of the cordon is removed, the cordon stays.
OnlyUnmarked(n) == [n EXCEPT !.shut = FALSE]

\* The patch of setNodeShutdownCordon(false)
Lifted(n) == [n EXCEPT !.unsched = FALSE, !.shut = FALSE]

\* A cordon with maclet's marker is lifted, by name; a 404 ends the session.
Uncordon(d) ==
  /\ pc[d] = "uncordon"
  /\ IF ~snap[d].shut THEN Goto(d, "await") /\ Unsent
     ELSE IF Exists THEN Store(d, Lifted(node)) /\ Goto(d, "await")
     ELSE Goto(d, "down") /\ Unsent
  /\ UNCHANGED <<secret, asked, local, nodes, stops, cordons>>

\* waitForPodCIDR: a Node without a PodCIDR is read again until it has one.
AwaitPodCIDR(d) ==
  /\ pc[d] = "await"
  /\ \/ Goto(d, "flannel") /\ UNCHANGED <<snap, fresh>>
     \/ Exists /\ Goto(d, "flannel") /\ Read(d)
     \/ ~Exists /\ Goto(d, "down") /\ UNCHANGED <<snap, fresh>>
  /\ UNCHANGED <<node, secret, asked, local, nodes, stops, cordons>>

\* configureFlannel: by name; the patch repeats every annotation of the session's copy.
Published(d, n) ==
  [n EXCEPT !.flannel = d, !.shut = @ \/ snap[d].shut,
            !.marker = IF snap[d].marker = NoDir THEN @ ELSE snap[d].marker]

ConfigureFlannel(d) ==
  /\ pc[d] = "flannel"
  /\ IF snap[d].flannel = d THEN Goto(d, "serve") /\ Unsent
     ELSE IF Exists THEN Store(d, Published(d, node)) /\ Goto(d, "serve")
     ELSE Goto(d, "down") /\ Unsent
  /\ UNCHANGED <<secret, asked, local, nodes, stops, cordons>>

\* A failure before Flannel (VXLAN, routes) ends the session as it is; one of the
\* kubelet server after it, with the deferred withdrawal.
SetupFails(d) ==
  /\ pc[d] \in {"flannel", "serve"}
  /\ stops < MaxStops /\ stops' = stops + 1
  /\ Goto(d, IF pc[d] = "flannel" THEN "down" ELSE "clear")
  /\ Unsent /\ UNCHANGED <<secret, asked, local, nodes, cordons>>

Serve(d) ==
  /\ pc[d] = "serve" /\ Goto(d, "running")
  /\ Unsent /\ UNCHANGED <<secret, asked, local, nodes, stops, cordons>>

\* A heartbeat begins with a GET; without a Node it is given up.
Refresh(d) ==
  /\ pc[d] = "running" /\ Exists
  /\ Read(d) /\ Goto(d, "status")
  /\ UNCHANGED <<node, secret, asked, local, nodes, stops, cordons>>

\* updateNodeStatus: a PATCH with the resourceVersion.  After a conflict the Node is
\* read again; when there is none the update is given up.
UpdateStatus(d) ==
  /\ pc[d] = "status"
  /\ IF Current(d) THEN Store(d, [node EXCEPT !.status = d]) /\ Goto(d, "running")
     ELSE IF Exists THEN Read(d) /\ UNCHANGED <<node, pc>>
     ELSE Goto(d, "running") /\ Unsent
  /\ UNCHANGED <<secret, asked, local, nodes, stops, cordons>>

Shutdown(d) ==
  /\ pc[d] = "running" /\ stops < MaxStops
  /\ stops' = stops + 1
  /\ Goto(d, "cordon")
  /\ Unsent /\ UNCHANGED <<secret, asked, local, nodes, cordons>>

\* Mutant of Cordoned: the cordon carries no marker.
Unmarked(n) == [n EXCEPT !.unsched = TRUE]

\* The patch of setNodeShutdownCordon(true)
Cordoned(n) == [n EXCEPT !.unsched = TRUE, !.shut = TRUE]

\* By name, and whether or not the Node is cordoned already; an error is logged.
Cordon(d) ==
  /\ pc[d] = "cordon"
  /\ IF Exists /\ ~(snap[d].unsched /\ snap[d].shut) THEN Store(d, Cordoned(node)) ELSE Unsent
  /\ Goto(d, "clear")
  /\ UNCHANGED <<secret, asked, local, nodes, stops, cordons>>

\* Mutant of Withdrawn: the annotation is emptied, not removed.
Emptied == IF Exists THEN [node EXCEPT !.flannel = ""] ELSE node

Withdrawn == IF Exists THEN [node EXCEPT !.flannel = NoDir] ELSE node

\* The deferred clearFlannel
ClearFlannel(d) ==
  /\ pc[d] = "clear"
  /\ Change(Withdrawn) /\ Goto(d, "down")
  /\ UNCHANGED <<secret, asked, local, nodes, stops, cordons>>

\* The process is killed, or ends with an error that leaves things as they are.
Kill(d) ==
  /\ pc[d] # "down" /\ stops < MaxStops
  /\ stops' = stops + 1
  /\ Goto(d, "down")
  /\ Unsent /\ UNCHANGED <<secret, asked, local, nodes, cordons>>

-----------------------------------------------------------------------------
\* maclet leave, run "after the daemon has stopped": everything by name, the state files
\* last

Leave(d) ==
  /\ pc[d] = "down" /\ disk[d] = "joined"
  /\ Change(Withdrawn) /\ Goto(d, "secret")
  /\ UNCHANGED <<secret, asked, local, nodes, stops, cordons>>

\* A request that fails does not keep leave from the next, only from the state files.
LeaveSecret(d) ==
  /\ pc[d] = "secret"
  /\ \/ secret' = NoDir /\ Goto(d, "delete") /\ UNCHANGED stops
     \/ /\ stops < MaxStops /\ stops' = stops + 1
        /\ secret' \in {secret, NoDir} /\ Goto(d, "unclean")
  /\ Unsent /\ UNCHANGED <<asked, local, nodes, cordons>>

\* Without LiveReplacement, nobody removes the Node of a session that is going on.
Undisturbed(d) == LiveReplacement \/ \A e \in Dirs \ {d} : pc[e] \notin Claimed

LeaveNode(d) ==
  /\ pc[d] \in {"delete", "unclean"} /\ Undisturbed(d)
  /\ Change(Absent) /\ asked' = FALSE
  /\ Goto(d, IF pc[d] = "delete" THEN "files" ELSE "down")
  /\ UNCHANGED <<secret, local, nodes, stops, cordons>>

LeaveFiles(d) ==
  /\ pc[d] = "files"
  /\ disk' = [disk EXCEPT ![d] = "left"] /\ uid' = [uid EXCEPT ![d] = 0]
  /\ Goto(d, "down")
  /\ Unsent /\ UNCHANGED <<secret, asked, nodes, stops, cordons>>

-----------------------------------------------------------------------------
\* The operator

Operator == UNCHANGED <<local, pc, stops>>

\* kubectl delete node, with or without the node-password Secret
DeleteNode ==
  /\ Exists /\ Undisturbed(NoDir) /\ nodes < MaxNodes
  /\ Change(Absent) /\ asked' = FALSE
  /\ secret' \in {secret, NoDir}
  /\ Operator /\ UNCHANGED <<nodes, cordons>>

\* A Node that nobody has marked
CreateNode ==
  /\ ~Exists /\ Undisturbed(NoDir) /\ nodes < MaxNodes
  /\ nodes' = nodes + 1
  /\ Change([Absent EXCEPT !.uid = nodes'])
  /\ Operator /\ UNCHANGED <<secret, asked, cordons>>

\* kubectl cordon, kubectl uncordon
SetCordon(c) ==
  /\ Exists /\ cordons < MaxCordons
  /\ cordons' = cordons + 1
  /\ Change([node EXCEPT !.unsched = c]) /\ asked' = c
  /\ Operator /\ UNCHANGED <<secret, nodes>>

-----------------------------------------------------------------------------

\* The steps a session that goes on takes by itself
SessionStep(d) ==
  \/ WriteState(d) \/ FindNode(d) \/ PostNode(d) \/ FindWinner(d) \/ PatchNode(d)
  \/ PersistUID(d) \/ Uncordon(d) \/ AwaitPodCIDR(d) \/ ConfigureFlannel(d) \/ Serve(d)
  \/ Refresh(d) \/ UpdateStatus(d) \/ Cordon(d) \/ ClearFlannel(d)

DirStep(d) ==
  \/ Join(d) \/ SessionStep(d) \/ SetupFails(d) \/ Shutdown(d) \/ Kill(d)
  \/ Leave(d) \/ LeaveSecret(d) \/ LeaveNode(d) \/ LeaveFiles(d)

OperatorStep == DeleteNode \/ CreateNode \/ \E c \in BOOLEAN : SetCordon(c)

Next == OperatorStep \/ \E d \in Dirs : DirStep(d)

Spec == Init /\ [][Next]_vars

\* Running daemons take their steps, and stopped ones are started again.
Fairness ==
  \A d \in Dirs : WF_vars(SessionStep(d)) /\ WF_vars(Join(d))
                  /\ WF_vars(LeaveSecret(d) \/ LeaveNode(d) \/ LeaveFiles(d))

FairSpec == Spec /\ Fairness

-----------------------------------------------------------------------------
\* Properties

\* A Node belongs to the installation whose marker it carries, for as long as it exists:
\* neither a lost race for its creation or adoption nor anything a session writes later
\* changes the marker (ensureOwnedNode, configureFlannel).
MarkerStable ==
  [][node.uid # 0 /\ node'.uid = node.uid /\ node.marker # NoDir
       => node'.marker = node.marker]_vars

\* A session works on its own Node: the one with its marker and, once recorded, the UID
\* on disk.  Two installations never manage one Node at a time (verifyNodeOwnership once,
\* then requests by name).
SessionOwnsNode ==
  \A d \in Dirs : pc[d] \in Claimed /\ Exists =>
    node.marker = d /\ snap[d].uid = node.uid /\ (pc[d] # "persist" => uid[d] = node.uid)

\* Status and Flannel data come from the owner.
WrittenByOwner ==
  Exists => {node.status, node.flannel} \subseteq {NoDir, node.marker}

\* A cordon the operator did not ask for carries maclet's marker, so that a later join
\* can tell it and lift it (setNodeShutdownCordon sets both in one patch).
CordonsMarked == node.unsched => asked \/ node.shut

\* A Node that maclet cordoned on shutdown becomes schedulable again, unless the operator
\* cordoned it or it goes away (the uncordon of runJoinSession).
CordonLifted ==
  Exists /\ node.shut ~> ~Exists \/ asked \/ ~node.unsched

-----------------------------------------------------------------------------
\* What the documentation says and the code does not keep

\* "An operator-applied cordon is preserved" (README.md:459-460; ARCHITECTURE.md:356): a
\* Node whose operator cordoned it, and has not uncordoned it since, stays cordoned.
OperatorCordonKept == asked => node.unsched

\* "If an owned Node is deleted, a later join may recreate it" (ARCHITECTURE.md:202-203):
\* a stopped daemon is not locked out of the Node that carries its own marker.
OwnerAdmitted ==
  \A d \in Dirs : Exists /\ node.marker = d /\ pc[d] = "down" /\ disk[d] = "joined"
                    => Verified(d, node)
=============================================================================
