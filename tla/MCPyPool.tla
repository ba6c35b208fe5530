------------------------------ MODULE MCPyPool ------------------------------
(* Model-checking instances of PyPool: one thread more than there are slots, *)
(* so that the pool saturates and threads sleep.                             *)
EXTENDS PyPool
=============================================================================
