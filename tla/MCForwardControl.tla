-------------------------- MODULE MCForwardControl --------------------------
(* ForwardControl with requests that are alike and contents that are alike. *)
EXTENDS ForwardControl, TLC

Permuted == Permutations(Jobs) \cup Permutations(Targets)
=============================================================================
