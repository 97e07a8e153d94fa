----------------------------- MODULE MCKubelet ------------------------------
(* Small instances of Kubelet for TLC. *)
EXTENDS Kubelet

NoProcess == alive = {} /\ cpu = [p \in Procs |-> 0]
NoTunnel  ==
  /\ listed = {} /\ answering = {} /\ changes = 0 /\ failures = 0
  /\ sup \in {"off", "next"} /\ ~closing /\ sessions <= 1
  /\ \A a \in Attempts : link[a] = "free"

\* Constraint: the tunnels and the counters, which share only the session, are explored
\* one at a time, the counters in one session; at first the API names no server or all.
OneAtATime ==
  /\ NoProcess \/ NoTunnel
  /\ changes = 0 => listed \in {{}, Servers}
=============================================================================
