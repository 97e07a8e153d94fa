------------------------- MODULE MCWorkloadManager -------------------------
(* Small instances of WorkloadManager for TLC. *)
EXTENDS WorkloadManager

\* A service and a job that runs once.
ServiceAndJob == [p \in Pods |-> IF p = 2 THEN "Never" ELSE "Always"]
AllServices   == [p \in Pods |-> "Always"]
AllJobs       == [p \in Pods |-> "Never"]

\* Constraint: Pods the manager does not run exist before the daemon starts and the
\* others are created, and stay.
InertPodsFirst ==
  LET inert == Foreign \cup Unsupported
  IN /\ deleting \cap inert = {}
     /\ inert \subseteq live \/ (born \subseteq inert /\ pc = "down")
=============================================================================
