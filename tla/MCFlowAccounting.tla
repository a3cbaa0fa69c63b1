-------------------------- MODULE MCFlowAccounting --------------------------
(* Forwards over a tunnel, over another one, whose node is down, and over a  *)
(* route; or one forward, with a meter more for when it is resumed.          *)
EXTENDS FlowAccounting, TLC

MCFirstMeter == [f \in Forwards |-> CASE f = "f" -> "m" [] f = "r" -> "n" [] OTHER -> none]
MCTunnelOf == [f \in Forwards |-> CASE f = "f" -> "t" [] f = "g" -> "u" [] OTHER -> none]
MCTunnelLimit == [t \in Tunnels |-> 2]
MCNoLimit == [t \in Tunnels |-> 0]
=============================================================================
