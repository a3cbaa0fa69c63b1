--------------------------- MODULE MCXrayControl ---------------------------
(* Small instances of module XrayControl. *)
EXTENDS XrayControl

OwnInbound == [c \in Clients |-> IF c = "c" THEN 1 ELSE Last]

FirstChanges == [i \in Inbounds |-> IF i = 1 THEN 2 ELSE 1]

OneContent == [i \in Inbounds |-> 1]
=============================================================================
