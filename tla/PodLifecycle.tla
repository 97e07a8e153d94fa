--------------------------- MODULE PodLifecycle ----------------------------
(***************************************************************************)
(* What the workload manager promises about the native Pods of its Node,   *)
(* as somebody sees them who knows only the API server and what runs on    *)
(* the Mac: a workload runs only while its Pod is not finished, a Pod      *)
(* finishes once, and its deletion is acknowledged when nothing of it runs *)
(* any more.  WorkloadManager implements this: no journal, bridge, mount,  *)
(* pass, fault or crash can be seen from here.  Which Pods are refused is  *)
(* an input: the cluster decides it when it renumbers the Node.            *)
(***************************************************************************)
EXTENDS Integers

CONSTANTS
  Pods,         \* Pod UIDs
  Native,       \* Pods the manager runs
  Policy        \* restart policy of each Pod

VARIABLES
  phase,        \* status.phase
  restarts,     \* restartCount of the container status
  running,      \* Pods with a native workload that runs
  doomed,       \* Pods that are being deleted or gone
  refused       \* Pods that report an address the Node cannot give

vars == <<phase, restarts, running, doomed>>

Final == {"Succeeded", "Failed"}
Finished(p) == phase[p] \in Final

Init ==
  /\ phase = [p \in Pods |-> "Pending"] /\ restarts = [p \in Pods |-> 0]
  /\ running = {} /\ doomed = {}

\* A workload starts; never again once its Pod has finished, never on a refused address.
Run(p) ==
  /\ p \in Native \ (running \cup refused) /\ ~Finished(p)
  /\ running' = running \cup {p}
  /\ UNCHANGED <<phase, restarts, doomed>>

\* It exits, or the manager stops it.
Halt(p) ==
  /\ p \in running
  /\ running' = running \ {p}
  /\ UNCHANGED <<phase, restarts, doomed>>

\* The user deletes the Pod, or its object goes away.
Doom(p) ==
  /\ doomed' = doomed \cup {p}
  /\ UNCHANGED <<phase, restarts, running>>

\* Restarts are only ever added.
Add(p) == restarts' = [restarts EXCEPT ![p] = restarts'[p]] /\ restarts'[p] >= restarts[p]

\* A status of a Pod that has not finished
Report(p) ==
  /\ ~Finished(p)
  /\ \E ph \in {"Pending"} \cup (IF p \in Native THEN {"Running"} ELSE {}) :
       phase' = [phase EXCEPT ![p] = ph]
  /\ Add(p)
  /\ UNCHANGED <<running, doomed>>

\* A Pod is Pending again, finished or not, while its address is refused.
Refuse(p) ==
  /\ p \in refused
  /\ phase' = [phase EXCEPT ![p] = "Pending"]
  /\ Add(p)
  /\ UNCHANGED <<running, doomed>>

\* A Pod that is not restarted for ever finishes, with nothing left running.
Finish(p) ==
  /\ ~Finished(p) /\ Policy[p] # "Always" /\ p \in Native \ running
  /\ \E ph \in Final : phase' = [phase EXCEPT ![p] = ph]
  /\ Add(p)
  /\ UNCHANGED <<running, doomed>>

\* The deletion of a Pod is acknowledged, with nothing left running.  The count starts
\* from zero when the manager had no record of the Pod.
Acknowledge(p) ==
  /\ p \in doomed \ running
  /\ phase' = [phase EXCEPT ![p] = "Failed"]
  /\ Add(p) \/ restarts' = [restarts EXCEPT ![p] = 0]
  /\ UNCHANGED <<running, doomed>>

Next == \E p \in Pods :
  Run(p) \/ Halt(p) \/ Doom(p) \/ Report(p) \/ Refuse(p) \/ Finish(p) \/ Acknowledge(p)

Spec == Init /\ [][Next]_vars
=============================================================================
