--------------------------- MODULE MCMacNetwork ----------------------------
(* Small instances of MacNetwork for TLC. *)
EXTENDS MacNetwork

\* Constraint: the first PodCIDR is 1 and the remote's first MAC is 1, as the others would
\* do as well; then the remote's MAC changes or a second peer joins.
FirstNames ==
  /\ events = 0 => podCIDR \in {None, 1} /\ peers = <<1>>
  /\ peers \in {<<1>>, <<2>>, <<1, 1>>}
=============================================================================
