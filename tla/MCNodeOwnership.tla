-------------------------- MODULE MCNodeOwnership --------------------------
(* Small instances of NodeOwnership for TLC. *)
EXTENDS NodeOwnership, TLC

DirSymmetry == Permutations(Dirs)
=============================================================================
