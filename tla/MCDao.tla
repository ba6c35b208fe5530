------------------------------- MODULE MCDao -------------------------------
(* Two requests over two keys: a and b are two versions of one row, with and *)
(* without the FK child that c, the other row, shares with b.                *)
EXTENDS Dao

CONSTANTS a, b, c, c1, c2

MCId == [m \in Messages |-> IF m = c THEN 2 ELSE 1]
MCRef == [m \in Messages |-> IF m = a THEN None ELSE 7]
MCSize == [m \in Messages |-> CASE m = a -> 1 [] m = b -> 2 [] OTHER -> 0]
=============================================================================
