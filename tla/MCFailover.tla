----------------------------- MODULE MCFailover -----------------------------
(* Failover with one list of members, or with two to change between.       *)
EXTENDS Failover, TLC

CONSTANTS n1, n2

OneOrder  == {<<n1, n2>>}
TwoOrders == {<<n1, n2>>, <<n2>>}
=============================================================================
