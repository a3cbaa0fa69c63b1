----------------------------- MODULE MCGostNode -----------------------------
(* GostNode on a forward's tcp and udp services.                           *)
EXTENDS GostNode, TLC

Permuted == Permutations(Names) \cup Permutations(Addrs) \cup Permutations(Targets)
=============================================================================
