---------------------------- MODULE MCPortAlloc ----------------------------
(* Two nodes with two ports and one, a port forward's tunnel, a two-node tunnel *)
(* and a route that can be turned round.                                     *)
EXTENDS PortAlloc, TLC

MCPortRange == [n \in Nodes |-> IF n = "a" THEN {1, 2} ELSE {1}]
MCTunnels == {"direct", "tunnel"}
MCInNode == [t \in MCTunnels |-> "a"]
MCOutNode == [t \in MCTunnels |-> IF t = "tunnel" THEN "b" ELSE "a"]
Alike == Permutations(Jobs) \cup Permutations(Forwards)

MCPaths == {<<"a", "b">>, <<"b", "a">>}
=============================================================================
