---------------------------- MODULE MCAccessGate ----------------------------
(* The operator may demote the one CN there is, or take the map away. *)
EXTENDS AccessGate, TLC

CONSTANTS alice, k1, k2, t1, t2

MCMaps == {[cn \in CNs |-> r] : r \in {"admin", "guest"}}

Symm == Permutations(Threads) \cup Permutations(Keys)
=============================================================================
