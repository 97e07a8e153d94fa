------------------------ MODULE NodeOwnershipProofs ------------------------
(***************************************************************************)
(* Proofs about NodeOwnership, for any number of installations, Nodes,     *)
(* shutdowns and cordons.  Type correctness and CordonsMarked need nothing *)
(* more; what a session may count on needs that no Node is replaced under  *)
(* a session, which is LiveReplacement = FALSE.                            *)
(***************************************************************************)
EXTENDS NodeOwnership, TLAPS

-----------------------------------------------------------------------------
\* What the requests make of a Node is a Node again.
LEMMA NodesAreNodes ==
  ASSUME NEW n \in NodeRecord, NEW s \in NodeRecord, NEW d \in Owners, NEW b \in BOOLEAN
  PROVE  /\ Absent \in NodeRecord
         /\ Lifted(n) \in NodeRecord /\ Cordoned(n) \in NodeRecord
         /\ [n EXCEPT !.marker = d] \in NodeRecord
         /\ [n EXCEPT !.status = d] \in NodeRecord
         /\ [n EXCEPT !.flannel = d] \in NodeRecord
         /\ [n EXCEPT !.unsched = b] \in NodeRecord
  BY DEF NodeRecord, Absent, Owners, Lifted, Cordoned

\* So is the published one, whatever copy its annotations come from.
LEMMA PublishedIsNode ==
  ASSUME NodeTypeOK, NEW d \in Dirs
  PROVE  Published(d, node) \in NodeRecord
  <1>1. node \in NodeRecord /\ snap[d] \in NodeRecord /\ d \in Owners
    BY DEF NodeTypeOK, Owners
  <1> QED BY <1>1 DEF NodeRecord, Published

\* Created Nodes are Nodes.
LEMMA CreatedIsNode ==
  ASSUME NEW k \in Nat, NEW d \in Owners
  PROVE  /\ [Absent EXCEPT !.uid = k, !.marker = d] \in NodeRecord
         /\ [Absent EXCEPT !.uid = k] \in NodeRecord
  BY DEF NodeRecord, Absent, Owners

LEMMA WithdrawnIsNode ==
  ASSUME NodeTypeOK
  PROVE  Withdrawn \in NodeRecord
  BY DEF NodeTypeOK, NodeRecord, Withdrawn, Owners

\* A request stores a Node and keeps the types of the copies.
LEMMA StoreType ==
  ASSUME NodeTypeOK, NEW d \in Dirs, NEW n \in NodeRecord, Store(d, n)
  PROVE  node' \in NodeRecord /\ snap' \in [Dirs -> NodeRecord] /\ fresh' \in [Dirs -> BOOLEAN]
  BY DEF NodeTypeOK, Store

LEMMA ChangeType ==
  ASSUME NodeTypeOK, NEW n \in NodeRecord, Change(n)
  PROVE  node' \in NodeRecord /\ snap' \in [Dirs -> NodeRecord] /\ fresh' \in [Dirs -> BOOLEAN]
  BY DEF NodeTypeOK, Change

LEMMA ReadType ==
  ASSUME NodeTypeOK, NEW d \in Dirs, Read(d)
  PROVE  snap' \in [Dirs -> NodeRecord] /\ fresh' \in [Dirs -> BOOLEAN]
  BY DEF NodeTypeOK, Read

LEMMA GotoType ==
  ASSUME NodeTypeOK, NEW d, NEW s \in NodeStages, Goto(d, s)
  PROVE  pc' \in [Dirs -> NodeStages]
  BY DEF NodeTypeOK, Goto

-----------------------------------------------------------------------------
LEMMA TypeInit == Init => NodeTypeOK
  <1> SUFFICES ASSUME Init PROVE NodeTypeOK
    OBVIOUS
  <1>1. Absent \in NodeRecord
    BY DEF NodeRecord, Absent, Owners
  <1>2. node \in NodeRecord /\ snap \in [Dirs -> NodeRecord]
    BY <1>1 DEF Init
  <1>3. /\ secret \in Owners /\ asked \in BOOLEAN
        /\ disk \in [Dirs -> {"new", "joined", "left"}] /\ uid \in [Dirs -> Nat]
        /\ pc \in [Dirs -> NodeStages] /\ fresh \in [Dirs -> BOOLEAN]
        /\ nodes \in Nat /\ stops \in Nat /\ cordons \in Nat
    BY DEF Init, Owners, NodeStages
  <1> QED BY <1>2, <1>3 DEF NodeTypeOK

LEMMA TypeStep == NodeTypeOK /\ [Next]_vars => NodeTypeOK'
  <1> SUFFICES ASSUME NodeTypeOK, [Next]_vars PROVE NodeTypeOK'
    OBVIOUS
  <1>t. /\ node \in NodeRecord /\ secret \in Owners /\ asked \in BOOLEAN
        /\ disk \in [Dirs -> {"new", "joined", "left"}] /\ uid \in [Dirs -> Nat]
        /\ pc \in [Dirs -> NodeStages]
        /\ snap \in [Dirs -> NodeRecord] /\ fresh \in [Dirs -> BOOLEAN]
        /\ nodes \in Nat /\ stops \in Nat /\ cordons \in Nat
    BY DEF NodeTypeOK
  <1>a. Absent \in NodeRecord /\ Withdrawn \in NodeRecord
    BY <1>t, WithdrawnIsNode, NodesAreNodes DEF Owners
  <1>1. ASSUME NEW d \in Dirs, DirStep(d) PROVE NodeTypeOK'
    <2>d. d \in Owners /\ NoDir \in Owners
      BY DEF Owners
    <2>n. /\ Lifted(node) \in NodeRecord /\ Cordoned(node) \in NodeRecord
          /\ [node EXCEPT !.marker = d] \in NodeRecord
          /\ [node EXCEPT !.status = d] \in NodeRecord
          /\ Published(d, node) \in NodeRecord
      BY <1>t, <2>d, NodesAreNodes, PublishedIsNode
    <2>i. ASSUME Inspect(d)
          PROVE  /\ snap' \in [Dirs -> NodeRecord] /\ fresh' \in [Dirs -> BOOLEAN]
                 /\ pc' \in [Dirs -> NodeStages]
      BY <1>t, <2>i, ReadType DEF Inspect, Goto, NodeStages
    <2>1. CASE Join(d) \/ WriteState(d)
      BY <1>t, <2>1, <2>d DEF Join, WriteState, Unsent, local, Goto, NodeTypeOK, NodeStages
    <2>2. CASE FindNode(d)
      BY <1>t, <2>2, <2>i DEF FindNode, Goto, NodeTypeOK, NodeStages, local
    <2>3. CASE PostNode(d)
      <3>1. CASE Exists
        BY <1>t, <2>3, <3>1 DEF PostNode, Unsent, Goto, NodeTypeOK, NodeStages, local
      <3>2. CASE ~Exists
        <4>0. nodes' \in Nat
          BY <1>t, <2>3, <3>2 DEF PostNode
        <4>1. [Absent EXCEPT !.uid = nodes', !.marker = d] \in NodeRecord
          BY ONLY <4>0, <2>d, CreatedIsNode
        <4> QED BY <1>t, <2>3, <3>2, <4>0, <4>1, StoreType
                DEF PostNode, Goto, NodeTypeOK, NodeStages, local
      <3> QED BY <3>1, <3>2
    <2>4. CASE FindWinner(d)
      BY <1>t, <2>4, <2>i DEF FindWinner, Goto, NodeTypeOK, NodeStages, local
    <2>5. CASE PatchNode(d)
      BY <1>t, <2>5, <2>n, StoreType
         DEF PatchNode, Unsent, Goto, NodeTypeOK, NodeStages, local
    <2>6. CASE PersistUID(d)
      <3>1. snap[d].uid \in Nat
        BY <1>t DEF NodeRecord
      <3> QED BY <1>t, <2>6, <3>1 DEF PersistUID, Goto, NodeTypeOK, NodeStages
    <2>7. CASE Uncordon(d)
      BY <1>t, <2>7, <2>n, StoreType
         DEF Uncordon, Unsent, Goto, NodeTypeOK, NodeStages, local
    <2>8. CASE AwaitPodCIDR(d)
      BY <1>t, <2>8, ReadType DEF AwaitPodCIDR, Goto, NodeTypeOK, NodeStages, local
    <2>9. CASE ConfigureFlannel(d)
      BY <1>t, <2>9, <2>n, StoreType
         DEF ConfigureFlannel, Unsent, Goto, NodeTypeOK, NodeStages, local
    <2>10. CASE SetupFails(d) \/ Shutdown(d) \/ Kill(d) \/ Serve(d)
      BY <1>t, <2>10
         DEF SetupFails, Shutdown, Kill, Serve, Unsent, Goto, NodeTypeOK, NodeStages, local
    <2>11. CASE Refresh(d)
      BY <1>t, <2>11, ReadType DEF Refresh, Goto, NodeTypeOK, NodeStages, local
    <2>12. CASE UpdateStatus(d)
      BY <1>t, <2>12, <2>n, ReadType, StoreType
         DEF UpdateStatus, Unsent, Goto, NodeTypeOK, NodeStages, local
    <2>13. CASE Cordon(d)
      BY <1>t, <2>13, <2>n, StoreType
         DEF Cordon, Unsent, Goto, NodeTypeOK, NodeStages, local
    <2>14. CASE ClearFlannel(d) \/ Leave(d)
      BY <1>t, <1>a, <2>14, ChangeType
         DEF ClearFlannel, Leave, Goto, NodeTypeOK, NodeStages, local
    <2>15. CASE LeaveSecret(d) \/ LeaveFiles(d)
      BY <1>t, <2>15, <2>d
         DEF LeaveSecret, LeaveFiles, Unsent, Goto, NodeTypeOK, NodeStages, local
    <2>16. CASE LeaveNode(d)
      BY <1>t, <1>a, <2>16, ChangeType DEF LeaveNode, Goto, NodeTypeOK, NodeStages, local
    <2> QED BY <1>1, <2>1, <2>2, <2>3, <2>4, <2>5, <2>6, <2>7, <2>8, <2>9, <2>10, <2>11,
               <2>12, <2>13, <2>14, <2>15, <2>16 DEF DirStep, SessionStep
  <1>2. CASE DeleteNode
    BY <1>t, <1>a, <1>2, ChangeType DEF DeleteNode, Operator, NodeTypeOK, Owners, local
  <1>3. CASE CreateNode
    <2>0. nodes' \in Nat /\ NoDir \in Owners
      BY <1>t, <1>3 DEF CreateNode, Owners
    <2>1. [Absent EXCEPT !.uid = nodes'] \in NodeRecord
      BY ONLY <2>0, CreatedIsNode
    <2> QED BY <1>t, <1>3, <2>0, <2>1, ChangeType DEF CreateNode, Operator, NodeTypeOK, local
  <1>4. ASSUME NEW c \in BOOLEAN, SetCordon(c) PROVE NodeTypeOK'
    <2>1. [node EXCEPT !.unsched = c] \in NodeRecord
      BY <1>t DEF NodeRecord
    <2> QED BY <1>t, <1>4, <2>1, ChangeType DEF SetCordon, Operator, NodeTypeOK, local
  <1>5. CASE UNCHANGED vars
    BY <1>t, <1>5 DEF vars, local, NodeTypeOK
  <1> QED BY <1>1, <1>2, <1>3, <1>4, <1>5 DEF Next, OperatorStep

\* Type correctness of the Node object, the state files and the sessions' copies
THEOREM NodeTypeCorrect == Spec => []NodeTypeOK
  <1> QED BY TypeInit, TypeStep, PTL DEF Spec

-----------------------------------------------------------------------------
\* A cordon is asked for or marked: true of every step by itself.
LEMMA CordonStep == NodeTypeOK /\ CordonsMarked /\ [Next]_vars => CordonsMarked'
  <1> SUFFICES ASSUME NodeTypeOK, CordonsMarked, [Next]_vars PROVE CordonsMarked'
    OBVIOUS
  <1>t. node \in NodeRecord /\ \A d \in Dirs : snap[d] \in NodeRecord
    BY DEF NodeTypeOK
  <1>i. node.unsched => asked \/ node.shut
    BY DEF CordonsMarked
  <1>1. ASSUME NEW d \in Dirs, DirStep(d) PROVE CordonsMarked'
    <2>1. CASE Join(d) \/ WriteState(d) \/ PersistUID(d)
      BY <1>i, <2>1 DEF Join, WriteState, Unsent, PersistUID, CordonsMarked
    <2>2. CASE FindNode(d) \/ FindWinner(d) \/ AwaitPodCIDR(d) \/ Refresh(d)
      BY <1>i, <2>2 DEF FindNode, FindWinner, AwaitPodCIDR, Refresh, CordonsMarked
    <2>3. CASE PostNode(d)
      BY <1>i, <2>3 DEF PostNode, Unsent, Store, Absent, CordonsMarked
    <2>4. CASE PatchNode(d) \/ UpdateStatus(d)
      BY <1>t, <1>i, <2>4
         DEF PatchNode, UpdateStatus, Unsent, Store, CordonsMarked, NodeRecord
    <2>5. CASE Uncordon(d)
      BY <1>t, <1>i, <2>5 DEF Uncordon, Lifted, Unsent, Store, CordonsMarked, NodeRecord
    <2>6. CASE ConfigureFlannel(d)
      BY <1>t, <1>i, <2>6
         DEF ConfigureFlannel, Published, Unsent, Store, CordonsMarked, NodeRecord
    <2>7. CASE Cordon(d)
      BY <1>t, <1>i, <2>7 DEF Cordon, Cordoned, Unsent, Store, CordonsMarked, NodeRecord
    <2>8. CASE ClearFlannel(d) \/ Leave(d)
      BY <1>t, <1>i, <2>8
         DEF ClearFlannel, Leave, Withdrawn, Change, CordonsMarked, NodeRecord
    <2>9. CASE LeaveNode(d)
      BY <2>9 DEF LeaveNode, Change, Absent, CordonsMarked
    <2>10. CASE SetupFails(d) \/ Shutdown(d) \/ Kill(d) \/ Serve(d) \/ LeaveSecret(d)
                \/ LeaveFiles(d)
      BY <1>i, <2>10
         DEF SetupFails, Shutdown, Kill, Serve, LeaveSecret, LeaveFiles, Unsent, CordonsMarked
    <2> QED BY <1>1, <2>1, <2>2, <2>3, <2>4, <2>5, <2>6, <2>7, <2>8, <2>9, <2>10
            DEF DirStep, SessionStep
  <1>2. CASE DeleteNode \/ CreateNode
    BY <1>2 DEF DeleteNode, CreateNode, Change, Absent, CordonsMarked
  <1>3. ASSUME NEW c \in BOOLEAN, SetCordon(c) PROVE CordonsMarked'
    BY <1>t, <1>3 DEF SetCordon, Change, CordonsMarked, NodeRecord
  <1>4. CASE UNCHANGED vars
    BY <1>i, <1>4 DEF vars, CordonsMarked
  <1> QED BY <1>1, <1>2, <1>3, <1>4 DEF Next, OperatorStep

\* A cordon that the operator did not ask for can be told by its marker, whatever is
\* deleted, created or killed meanwhile: a later join can lift it.
THEOREM CordonsAlwaysMarked == Spec => []CordonsMarked
  <1>1. Init => CordonsMarked
    BY DEF Init, Absent, CordonsMarked
  <1> QED BY <1>1, TypeInit, TypeStep, CordonStep, PTL DEF Spec

-----------------------------------------------------------------------------
(* What a session may count on, when no Node is replaced under a session.   *)

\* A copy with the Node's resourceVersion is the Node.
FreshCopies == \A d \in Dirs : fresh[d] => snap[d] = node

\* Adoption is decided on a copy without a marker.
AdoptsUnmarked == \A d \in Dirs : pc[d] = "patch" => snap[d].marker = NoDir

\* d holds the Node: it has d's marker, in d's copy too, and the UID that d recorded.
Holds(d) == /\ Exists /\ node.marker = d
            /\ snap[d].marker = d /\ snap[d].uid = node.uid
            /\ pc[d] # "persist" => uid[d] = node.uid

ClaimantsHold == \A d \in Dirs : pc[d] \in Claimed => Holds(d)

OwnershipInv ==
  NodeTypeOK /\ FreshCopies /\ AdoptsUnmarked /\ ClaimantsHold /\ WrittenByOwner

LEMMA OwnershipInit == Init => OwnershipInv
  <1> SUFFICES ASSUME Init PROVE OwnershipInv
    OBVIOUS
  <1>1. NodeTypeOK
    BY TypeInit
  <1>2. FreshCopies /\ AdoptsUnmarked /\ ClaimantsHold /\ WrittenByOwner
    BY DEF Init, FreshCopies, AdoptsUnmarked, ClaimantsHold, WrittenByOwner, Claimed, Exists,
           Absent
  <1> QED BY <1>1, <1>2 DEF OwnershipInv

\* At most one installation holds the Node.
LEMMA OneClaimant ==
  ASSUME ClaimantsHold, NEW d \in Dirs, NEW e \in Dirs, pc[d] \in Claimed, pc[e] \in Claimed
  PROVE  d = e
  BY DEF ClaimantsHold, Holds

\* Every step keeps fresh copies: a Node that changes makes all other copies stale.
LEMMA FreshStep == OwnershipInv /\ [Next]_vars => FreshCopies'
  <1> SUFFICES ASSUME OwnershipInv, [Next]_vars PROVE FreshCopies'
    OBVIOUS
  <1>t. /\ snap \in [Dirs -> NodeRecord] /\ fresh \in [Dirs -> BOOLEAN]
        /\ \A d \in Dirs : fresh[d] => snap[d] = node
    BY DEF OwnershipInv, NodeTypeOK, FreshCopies
  <1>r. ASSUME NEW d \in Dirs, Read(d), node' = node PROVE FreshCopies'
    BY <1>t, <1>r DEF Read, FreshCopies
  <1>s. ASSUME NEW d \in Dirs, NEW n, Store(d, n) PROVE FreshCopies'
    BY <1>t, <1>s DEF Store, FreshCopies
  <1>c. ASSUME NEW n, Change(n) PROVE FreshCopies'
    BY <1>t, <1>c DEF Change, FreshCopies
  <1>u. ASSUME UNCHANGED <<node, snap, fresh>> PROVE FreshCopies'
    BY <1>t, <1>u DEF FreshCopies
  <1>1. ASSUME NEW d \in Dirs, DirStep(d) PROVE FreshCopies'
    <2>1. CASE Join(d) \/ WriteState(d) \/ PersistUID(d) \/ SetupFails(d) \/ Shutdown(d)
               \/ Kill(d) \/ Serve(d) \/ LeaveSecret(d) \/ LeaveFiles(d)
      BY <1>u, <2>1 DEF Join, WriteState, PersistUID, SetupFails, Shutdown, Kill, Serve,
                        LeaveSecret, LeaveFiles, Unsent
    <2>2. CASE FindNode(d) \/ FindWinner(d)
      BY <1>r, <1>u, <2>2 DEF FindNode, FindWinner, Inspect
    <2>3. CASE AwaitPodCIDR(d) \/ Refresh(d)
      BY <1>r, <1>u, <2>3 DEF AwaitPodCIDR, Refresh
    <2>4. CASE PostNode(d) \/ PatchNode(d)
      BY <1>s, <1>u, <2>4 DEF PostNode, PatchNode, Unsent
    <2>5. CASE Uncordon(d) \/ ConfigureFlannel(d) \/ Cordon(d)
      BY <1>s, <1>u, <2>5 DEF Uncordon, ConfigureFlannel, Cordon, Unsent
    <2>6. CASE UpdateStatus(d)
      BY <1>s, <1>r, <1>u, <2>6 DEF UpdateStatus, Unsent
    <2>7. CASE ClearFlannel(d) \/ Leave(d) \/ LeaveNode(d)
      BY <1>c, <2>7 DEF ClearFlannel, Leave, LeaveNode
    <2> QED BY <1>1, <2>1, <2>2, <2>3, <2>4, <2>5, <2>6, <2>7 DEF DirStep, SessionStep
  <1>2. CASE DeleteNode \/ CreateNode
    BY <1>c, <1>2 DEF DeleteNode, CreateNode
  <1>3. ASSUME NEW c \in BOOLEAN, SetCordon(c) PROVE FreshCopies'
    BY <1>c, <1>3 DEF SetCordon
  <1>4. CASE UNCHANGED vars
    BY <1>u, <1>4 DEF vars
  <1> QED BY <1>1, <1>2, <1>3, <1>4 DEF Next, OperatorStep

\* What happens to the others when one takes a step: they keep what they hold if the Node
\* keeps its UID and marker, or if they hold nothing.
LEMMA OthersHold ==
  ASSUME NodeTypeOK, AdoptsUnmarked, ClaimantsHold, NEW d \in Dirs, NEW s \in NodeStages,
         Goto(d, s),
         \A e \in Dirs \ {d} : snap'[e] = snap[e] /\ uid'[e] = uid[e],
         \/ node'.uid = node.uid /\ node'.marker = node.marker
         \/ \A e \in Dirs \ {d} : pc[e] \notin Claimed,
         s = "patch" => snap'[d].marker = NoDir,
         s \in Claimed => Holds(d)'
  PROVE  AdoptsUnmarked' /\ ClaimantsHold'
  <1>1. pc' = [pc EXCEPT ![d] = s] /\ pc \in [Dirs -> NodeStages]
    BY DEF Goto, NodeTypeOK
  <1>2. pc'[d] = s /\ \A e \in Dirs \ {d} : pc'[e] = pc[e]
    BY <1>1
  <1>3. AdoptsUnmarked'
    BY <1>2 DEF AdoptsUnmarked
  <1>4. ASSUME NEW e \in Dirs, pc'[e] \in Claimed' PROVE Holds(e)'
    <2>1. CASE e = d
      BY <1>2, <1>4, <2>1 DEF Claimed
    <2>2. CASE e # d
      <3>1. pc[e] \in Claimed /\ Holds(e)
        BY <1>2, <1>4, <2>2 DEF ClaimantsHold, Claimed
      <3>2. node'.uid = node.uid /\ node'.marker = node.marker
        BY <3>1, <2>2
      <3> QED BY <1>2, <2>2, <3>1, <3>2 DEF Holds, Exists
    <2> QED BY <2>1, <2>2
  <1> QED BY <1>3, <1>4 DEF ClaimantsHold

\* A session goes on with what it holds.
LEMMA StillHolds ==
  ASSUME NodeTypeOK, ClaimantsHold, NEW d \in Dirs, pc[d] \in Claimed \ {"persist"},
         node'.uid = node.uid, node'.marker = node.marker,
         snap'[d].uid = snap[d].uid \/ snap'[d].uid = node'.uid,
         snap'[d].marker = snap[d].marker \/ snap'[d].marker = node'.marker,
         uid' = uid
  PROVE  Holds(d)'
  <1>1. Holds(d) /\ uid[d] = node.uid
    BY DEF ClaimantsHold, Holds
  <1> QED BY <1>1 DEF Holds, Exists

\* Whoever finds a Node goes on only with one that it may have.
LEMMA Inspected ==
  ASSUME OwnershipInv, NEW d \in Dirs, Inspect(d), Exists, UNCHANGED <<node, uid>>
  PROVE  AdoptsUnmarked' /\ ClaimantsHold'
  <1>t. /\ NodeTypeOK /\ AdoptsUnmarked /\ ClaimantsHold
        /\ snap \in [Dirs -> NodeRecord] /\ uid \in [Dirs -> Nat]
        /\ pc \in [Dirs -> NodeStages] /\ node \in NodeRecord
    BY DEF OwnershipInv, NodeTypeOK
  <1>1. snap'[d] = node /\ \A e \in Dirs \ {d} : snap'[e] = snap[e] /\ uid'[e] = uid[e]
    BY <1>t DEF Inspect, Read
  <1> DEFINE s == IF ~Verified(d, node) THEN "down"
                  ELSE IF node.marker = NoDir THEN "patch" ELSE "persist"
  <1>2. Goto(d, s) /\ s \in NodeStages
    BY DEF Inspect, NodeStages
  <1>3. s = "patch" => snap'[d].marker = NoDir
    BY <1>1
  <1>4. s \in Claimed => Holds(d)'
    <2> SUFFICES ASSUME s \in Claimed PROVE Holds(d)'
      OBVIOUS
    <2>1. s = "persist" /\ node.marker = d
      BY DEF Claimed, Verified
    <2>2. pc'[d] = "persist"
      BY <1>t, <1>2, <2>1 DEF Goto
    <2> QED BY <1>1, <2>1, <2>2 DEF Holds, Exists
  <1> HIDE DEF s
  <1> QED BY <1>t, <1>1, <1>2, <1>3, <1>4, OthersHold

\* Nobody removes the Node of a session.
LEMMA NobodyHolds ==
  ASSUME LiveReplacement = FALSE, NEW d, Undisturbed(d)
  PROVE  \A e \in Dirs \ {d} : pc[e] \notin Claimed
  BY DEF Undisturbed

LEMMA HoldingStep ==
  ASSUME LiveReplacement = FALSE, OwnershipInv, [Next]_vars
  PROVE  AdoptsUnmarked' /\ ClaimantsHold'
  <1>t. /\ NodeTypeOK /\ AdoptsUnmarked /\ ClaimantsHold /\ FreshCopies
        /\ snap \in [Dirs -> NodeRecord] /\ uid \in [Dirs -> Nat]
        /\ pc \in [Dirs -> NodeStages] /\ node \in NodeRecord /\ nodes \in Nat
    BY DEF OwnershipInv, NodeTypeOK
  <1>u. \A d \in Dirs : pc[d] \in Claimed => Exists /\ node.marker = d
    BY <1>t DEF ClaimantsHold, Holds
  <1>1. ASSUME NEW d \in Dirs, DirStep(d) PROVE AdoptsUnmarked' /\ ClaimantsHold'
    <2> USE DEF Goto
    <2>1. CASE Join(d) \/ WriteState(d)
      BY <1>t, <2>1, OthersHold DEF Join, WriteState, Unsent, NodeStages, Claimed, local
    <2>2. CASE FindNode(d) \/ FindWinner(d)
      <3>1. CASE Exists
        BY <2>2, <3>1, Inspected DEF FindNode, FindWinner, local
      <3>2. CASE ~Exists
        BY <1>t, <2>2, <3>2, OthersHold DEF FindNode, FindWinner, NodeStages, Claimed, local
      <3> QED BY <3>1, <3>2
    <2>3. CASE PostNode(d)
      <3>1. CASE Exists
        BY <1>t, <2>3, <3>1, OthersHold DEF PostNode, Unsent, NodeStages, Claimed, local
      <3>2. CASE ~Exists
        <4>1. /\ Goto(d, "persist") /\ uid' = uid /\ nodes' # 0
              /\ node' = [Absent EXCEPT !.uid = nodes', !.marker = d]
              /\ snap' = [snap EXCEPT ![d] = node']
          BY <1>t, <2>3, <3>2 DEF PostNode, Store, local
        <4>2. node'.uid = nodes' /\ node'.marker = d
          BY <4>1 DEF Absent
        <4>3. pc'[d] = "persist" /\ snap'[d] = node'
          BY <1>t, <4>1
        <4>4. Holds(d)'
          BY <4>1, <4>2, <4>3 DEF Holds, Exists
        <4> QED BY <1>t, <1>u, <3>2, <4>1, <4>4, OthersHold DEF NodeStages
      <3> QED BY <3>1, <3>2
    <2>4. CASE PatchNode(d)
      <3>1. CASE Current(d)
        <4>1. snap[d] = node /\ node.marker = NoDir /\ Exists
          BY <1>t, <2>4, <3>1 DEF PatchNode, Current, FreshCopies, AdoptsUnmarked
        <4>2. /\ Goto(d, "persist") /\ uid' = uid
              /\ node' = [node EXCEPT !.marker = d]
              /\ snap' = [snap EXCEPT ![d] = node']
          BY <2>4, <3>1 DEF PatchNode, Store, local
        <4>3. node'.uid = node.uid /\ node'.marker = d
          BY <1>t, <4>2 DEF NodeRecord
        <4>4. pc'[d] = "persist" /\ snap'[d] = node'
          BY <1>t, <4>2
        <4>5. Holds(d)'
          BY <4>1, <4>3, <4>4 DEF Holds, Exists
        <4>6. \A e \in Dirs : pc[e] \notin Claimed
          BY <1>u, <4>1, DirsAssumption
        <4> QED BY <1>t, <4>2, <4>5, <4>6, OthersHold DEF NodeStages
      <3>2. CASE ~Current(d)
        BY <1>t, <2>4, <3>2, OthersHold DEF PatchNode, Unsent, NodeStages, Claimed, local
      <3> QED BY <3>1, <3>2
    <2>5. CASE PersistUID(d)
      <3>1. Holds(d) /\ uid'[d] = snap[d].uid
        BY <1>t, <2>5 DEF PersistUID, ClaimantsHold, Claimed
      <3>2. Holds(d)'
        BY <2>5, <3>1 DEF PersistUID, Holds, Exists
      <3> QED BY <1>t, <2>5, <3>2, OthersHold DEF PersistUID, NodeStages
    \* The requests by name of a session: they hit its own Node.
    <2>n. ASSUME NEW n \in NodeRecord, NEW s \in NodeStages, Store(d, n), Goto(d, s), uid' = uid,
                 n.uid = node.uid, n.marker = node.marker, pc[d] \in Claimed \ {"persist"},
                 s # "patch"
          PROVE  AdoptsUnmarked' /\ ClaimantsHold'
      <3>1. node' = n /\ snap' = [snap EXCEPT ![d] = n]
        BY <2>n DEF Store
      <3>2. Holds(d)'
        BY <1>t, <2>n, <3>1, StillHolds
      <3> QED BY <1>t, <2>n, <3>1, <3>2, OthersHold
    \* A session reads the Node, or does nothing to it, and goes on.
    <2>k. ASSUME NEW s \in NodeStages, Goto(d, s), UNCHANGED <<node, uid>>,
                 Read(d) \/ snap' = snap, pc[d] \in Claimed \ {"persist"}, s # "patch"
          PROVE  AdoptsUnmarked' /\ ClaimantsHold'
      <3>1. snap' = [snap EXCEPT ![d] = node] \/ snap' = snap
        BY <2>k DEF Read
      <3>2. Holds(d)'
        BY <1>t, <2>k, <3>1, StillHolds
      <3> QED BY <1>t, <2>k, <3>1, <3>2, OthersHold
    <2>6. CASE Uncordon(d)
      <3>1. Lifted(node) \in NodeRecord /\ Lifted(node).uid = node.uid
            /\ Lifted(node).marker = node.marker
        BY <1>t DEF Lifted, NodeRecord
      <3> QED BY <2>6, <2>n, <2>k, <3>1 DEF Uncordon, Unsent, Claimed, NodeStages, local
    <2>7. CASE AwaitPodCIDR(d)
      BY <2>7, <2>k DEF AwaitPodCIDR, Claimed, NodeStages, local
    <2>8. CASE ConfigureFlannel(d)
      <3>1. snap[d].marker = node.marker
        BY <1>t, <2>8 DEF ConfigureFlannel, ClaimantsHold, Holds, Claimed
      <3>2. Published(d, node) \in NodeRecord /\ Published(d, node).uid = node.uid
            /\ Published(d, node).marker = node.marker
        BY <1>t, <3>1, PublishedIsNode DEF Published, NodeRecord
      <3> QED BY <2>8, <2>n, <2>k, <3>2 DEF ConfigureFlannel, Unsent, Claimed, NodeStages, local
    <2>9. CASE SetupFails(d) \/ Serve(d) \/ Refresh(d) \/ Shutdown(d)
      BY <2>9, <2>k DEF SetupFails, Serve, Refresh, Shutdown, Unsent, Claimed, NodeStages, local
    <2>10. CASE UpdateStatus(d)
      <3>1. [node EXCEPT !.status = d] \in NodeRecord /\ [node EXCEPT !.status = d].uid = node.uid
            /\ [node EXCEPT !.status = d].marker = node.marker
        BY <1>t DEF NodeRecord, Owners
      <3>2. CASE Current(d)
        BY <2>10, <2>n, <3>1, <3>2 DEF UpdateStatus, Claimed, NodeStages, local
      <3>3. CASE ~Current(d) /\ Exists
        <4>1. Goto(d, "status")
          BY <1>t, <2>10, <3>3 DEF UpdateStatus
        <4> QED BY <2>10, <2>k, <3>3, <4>1 DEF UpdateStatus, Claimed, NodeStages, local
      <3>4. CASE ~Current(d) /\ ~Exists
        BY <2>10, <2>k, <3>4 DEF UpdateStatus, Unsent, Claimed, NodeStages, local
      <3> QED BY <3>2, <3>3, <3>4
    <2>11. CASE Cordon(d)
      <3>1. Cordoned(node) \in NodeRecord /\ Cordoned(node).uid = node.uid
            /\ Cordoned(node).marker = node.marker
        BY <1>t DEF Cordoned, NodeRecord
      <3> QED BY <2>11, <2>n, <2>k, <3>1 DEF Cordon, Unsent, Claimed, NodeStages, local
    <2>12. CASE ClearFlannel(d) \/ Leave(d)
      <3>1. Withdrawn.uid = node.uid /\ Withdrawn.marker = node.marker
        BY <1>t DEF Withdrawn, NodeRecord
      <3> QED BY <1>t, <2>12, <3>1, OthersHold
              DEF ClearFlannel, Leave, Change, NodeStages, Claimed, local
    <2>13. CASE Kill(d) \/ LeaveSecret(d)
      BY <1>t, <2>13, OthersHold DEF Kill, LeaveSecret, Unsent, NodeStages, Claimed, local
    <2>14. CASE LeaveNode(d)
      <3>1. \A e \in Dirs \ {d} : pc[e] \notin Claimed
        BY <2>14, NobodyHolds DEF LeaveNode
      <3> QED BY <1>t, <2>14, <3>1, OthersHold DEF LeaveNode, Change, NodeStages, Claimed, local
    <2>15. CASE LeaveFiles(d)
      BY <1>t, <2>15, OthersHold DEF LeaveFiles, Unsent, NodeStages, Claimed
    <2> QED BY <1>1, <2>1, <2>2, <2>3, <2>4, <2>5, <2>6, <2>7, <2>8, <2>9, <2>10, <2>11,
               <2>12, <2>13, <2>14, <2>15 DEF DirStep, SessionStep
  <1>2. CASE DeleteNode \/ CreateNode
    <2>1. \A e \in Dirs : pc[e] \notin Claimed
      BY <1>2, NobodyHolds, DirsAssumption DEF DeleteNode, CreateNode
    <2> QED BY <1>t, <1>2, <2>1 DEF DeleteNode, CreateNode, Operator, Change, AdoptsUnmarked,
                                   ClaimantsHold, Claimed
  <1>3. ASSUME NEW c \in BOOLEAN, SetCordon(c) PROVE AdoptsUnmarked' /\ ClaimantsHold'
    <2>1. node'.uid = node.uid /\ node'.marker = node.marker
      BY <1>t, <1>3 DEF SetCordon, Change, NodeRecord
    <2> QED BY <1>t, <1>3, <2>1 DEF SetCordon, Operator, Change, AdoptsUnmarked, ClaimantsHold,
                                   Holds, Exists, Claimed, local
  <1>4. CASE UNCHANGED vars
    BY <1>t, <1>4 DEF vars, local, AdoptsUnmarked, ClaimantsHold, Holds, Exists, Claimed
  <1> QED BY <1>1, <1>2, <1>3, <1>4 DEF Next, OperatorStep

\* What a step of MarkerStable may do
StableStep == node.uid # 0 /\ node'.uid = node.uid /\ node.marker # NoDir
                => node'.marker = node.marker

\* Status, Flannel data and the marker are written by the owner.
LEMMA OwnerWrites ==
  ASSUME OwnershipInv, [Next]_vars
  PROVE  WrittenByOwner' /\ StableStep
  <1>t. /\ NodeTypeOK /\ ClaimantsHold /\ FreshCopies /\ AdoptsUnmarked
        /\ node \in NodeRecord /\ snap \in [Dirs -> NodeRecord] /\ NoDir \in Owners
        /\ Exists => {node.status, node.flannel} \subseteq {NoDir, node.marker}
    BY DEF OwnershipInv, NodeTypeOK, WrittenByOwner, Owners
  <1>u. \A d \in Dirs : pc[d] \in Claimed =>
          node.marker = d /\ snap[d].marker = d /\ Exists
    BY <1>t DEF ClaimantsHold, Holds
  <1>0. ASSUME node' = node PROVE WrittenByOwner' /\ StableStep
    BY <1>t, <1>0 DEF WrittenByOwner, StableStep, Exists
  \* A change that keeps UID and marker, and writes what the owner writes
  <1>k. ASSUME node'.uid = node.uid, node'.marker = node.marker,
               node'.status \in {NoDir, node.status, node.marker},
               node'.flannel \in {NoDir, node.flannel, node.marker}
        PROVE  WrittenByOwner' /\ StableStep
    BY <1>t, <1>k DEF WrittenByOwner, StableStep, Exists
  <1>1. ASSUME NEW d \in Dirs, DirStep(d) PROVE WrittenByOwner' /\ StableStep
    <2>1. CASE Join(d) \/ WriteState(d) \/ FindNode(d) \/ FindWinner(d) \/ PersistUID(d)
               \/ AwaitPodCIDR(d) \/ SetupFails(d) \/ Serve(d) \/ Refresh(d) \/ Shutdown(d)
               \/ Kill(d)
               \/ LeaveSecret(d) \/ LeaveFiles(d)
      BY <1>0, <2>1 DEF Join, WriteState, FindNode, FindWinner, PersistUID, AwaitPodCIDR,
                        SetupFails, Serve, Refresh, Shutdown, Kill, LeaveSecret, LeaveFiles, Unsent
    <2>2. CASE PostNode(d)
      <3>1. CASE Exists
        BY <1>0, <2>2, <3>1 DEF PostNode, Unsent
      <3>2. CASE ~Exists
        BY <2>2, <3>2
           DEF PostNode, Store, Absent, WrittenByOwner, StableStep, Exists
      <3> QED BY <3>1, <3>2
    <2>3. CASE PatchNode(d)
      <3>1. CASE Current(d)
        <4>1. node.marker = NoDir /\ Exists
          BY <1>t, <2>3, <3>1 DEF PatchNode, Current, FreshCopies, AdoptsUnmarked
        <4>2. node' = [node EXCEPT !.marker = d]
          BY <2>3, <3>1 DEF PatchNode, Store
        <4>3. node'.status = NoDir /\ node'.flannel = NoDir
          BY <1>t, <4>1, <4>2 DEF NodeRecord
        <4> QED BY <4>1, <4>3 DEF WrittenByOwner, StableStep
      <3>2. CASE ~Current(d)
        BY <1>0, <2>3, <3>2 DEF PatchNode, Unsent
      <3> QED BY <3>1, <3>2
    <2>4. CASE Uncordon(d) \/ Cordon(d)
      <3>1. node' \in {node, Lifted(node), Cordoned(node)}
        BY <2>4 DEF Uncordon, Cordon, Store, Unsent
      <3> QED BY <1>t, <1>k, <3>1 DEF Lifted, Cordoned, NodeRecord
    <2>5. CASE ConfigureFlannel(d)
      <3>1. node.marker = d /\ snap[d].marker = d
        BY <1>u, <2>5 DEF ConfigureFlannel, Claimed
      <3>2. node' \in {node, Published(d, node)}
        BY <2>5 DEF ConfigureFlannel, Store, Unsent
      <3> QED BY <1>t, <1>k, <3>1, <3>2 DEF Published, NodeRecord
    <2>6. CASE UpdateStatus(d)
      <3>1. node.marker = d
        BY <1>u, <2>6 DEF UpdateStatus, Claimed
      <3>2. node' \in {node, [node EXCEPT !.status = d]}
        BY <2>6 DEF UpdateStatus, Store, Unsent
      <3> QED BY <1>t, <1>k, <3>1, <3>2 DEF NodeRecord
    <2>7. CASE ClearFlannel(d) \/ Leave(d)
      <3>1. node' = Withdrawn
        BY <2>7 DEF ClearFlannel, Leave, Change
      <3> QED BY <1>t, <1>k, <3>1 DEF Withdrawn, NodeRecord
    <2>8. CASE LeaveNode(d)
      BY <2>8 DEF LeaveNode, Change, Absent, WrittenByOwner, StableStep, Exists
    <2> QED BY <1>1, <2>1, <2>2, <2>3, <2>4, <2>5, <2>6, <2>7, <2>8 DEF DirStep, SessionStep
  <1>2. CASE DeleteNode
    BY <1>2 DEF DeleteNode, Change, Absent, WrittenByOwner, StableStep, Exists
  <1>3. CASE CreateNode
    BY <1>3 DEF CreateNode, Change, Absent, WrittenByOwner, StableStep, Exists
  <1>4. ASSUME NEW c \in BOOLEAN, SetCordon(c) PROVE WrittenByOwner' /\ StableStep
    BY <1>t, <1>k, <1>4 DEF SetCordon, Change, NodeRecord
  <1>5. CASE UNCHANGED vars
    BY <1>0, <1>5 DEF vars
  <1> QED BY <1>1, <1>2, <1>3, <1>4, <1>5 DEF Next, OperatorStep

LEMMA OwnershipStep ==
  ASSUME LiveReplacement = FALSE, OwnershipInv, [Next]_vars
  PROVE  OwnershipInv'
  BY TypeStep, FreshStep, HoldingStep, OwnerWrites DEF OwnershipInv

-----------------------------------------------------------------------------
\* A session manages its own Node and no two installations manage one at a time, if Nodes
\* are not replaced under a session.
THEOREM SessionsOwnTheirNode ==
  ASSUME LiveReplacement = FALSE
  PROVE  Spec => []SessionOwnsNode
  <1>1. OwnershipInv => SessionOwnsNode
    BY DEF OwnershipInv, ClaimantsHold, Holds, SessionOwnsNode
  <1>2. OwnershipInv /\ [Next]_vars => OwnershipInv'
    BY OwnershipStep
  <1> QED BY <1>1, <1>2, OwnershipInit, PTL DEF Spec

\* The status and Flannel data of a Node are its owner's, under the same condition.
THEOREM OwnersWrite ==
  ASSUME LiveReplacement = FALSE
  PROVE  Spec => []WrittenByOwner
  <1>1. OwnershipInv => WrittenByOwner
    BY DEF OwnershipInv
  <1>2. OwnershipInv /\ [Next]_vars => OwnershipInv'
    BY OwnershipStep
  <1> QED BY <1>1, <1>2, OwnershipInit, PTL DEF Spec

\* Once marked, a Node keeps its owner for as long as it exists: lost races for its
\* creation and its adoption included.
THEOREM MarkersStable ==
  ASSUME LiveReplacement = FALSE
  PROVE  Spec => MarkerStable
  <1>1. OwnershipInv /\ [Next]_vars
          => [node.uid # 0 /\ node'.uid = node.uid /\ node.marker # NoDir
                => node'.marker = node.marker]_vars
    BY OwnerWrites DEF StableStep
  <1>2. OwnershipInv /\ [Next]_vars => OwnershipInv'
    BY OwnershipStep
  <1> QED BY <1>1, <1>2, OwnershipInit, PTL DEF Spec, MarkerStable
=============================================================================
