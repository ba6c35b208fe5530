-------------------------- MODULE MCLocalKeyStore --------------------------
(* Model-checking instances of LocalKeyStore: three KEKs allow two rotations *)
(* of one store, or a rotation on each side of a store that was lost.        *)
EXTENDS LocalKeyStore, TLC

Symm == Permutations(Keks) \cup Permutations(Deks)
=============================================================================
