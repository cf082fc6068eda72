----------------------------- MODULE MCSessions -----------------------------
(* Instances of Sessions for TLC. *)
EXTENDS Sessions, TLC

CONSTANTS c1, c2, l1, none

Clients == {c1, c2}
SameLogin == [c \in Clients |-> l1]
ClientSymmetry == Permutations(Clients)
=============================================================================
