-------------------------- MODULE MCPooledSession --------------------------
(* Model-checking instances of PooledSession: fewer slots than objects that  *)
(* compete, so that the pool saturates.  Object a2 is nested in the body of  *)
(* a, and b2 in the body of b.                                               *)
EXTENDS PooledSession

CONSTANTS a, b, a2, b2

Nesting ==
    [s \in Sessions |-> CASE s = a2 -> a [] s = b2 -> b [] OTHER -> None]
=============================================================================
