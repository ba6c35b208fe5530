------------------------------ MODULE ConnPool ------------------------------
(***************************************************************************)
(* What both connection pools promise a request handler, the Python one    *)
(* (PyDatabase/runtime/pool.py) and the C++ one (Database/runtime/         *)
(* harpia_db_pool.h): a connection is lent to one borrower at a time, at   *)
(* most Size are lent, and it arrives without anybody's uncommitted work,  *)
(* however its last borrower left and whatever died in between.  Nothing   *)
(* here knows of slots, wait lists, time-outs, pings or reconnects: a      *)
(* borrow that is refused is no step.                                      *)
(***************************************************************************)
EXTENDS Naturals, FiniteSets

CONSTANTS Borrower, Conn, NoConn, Size

VARIABLES lent,  \* the connection each borrower has, or NoConn
          open   \* the connections with a transaction open on them

Out == {lent[b] : b \in Borrower} \ {NoConn}

Init == lent = [b \in Borrower |-> NoConn] /\ open = {}

\* A borrow that succeeds.
Lend(b, c) ==
    /\ lent[b] = NoConn
    /\ c \notin Out
    /\ Cardinality(Out) < Size
    /\ lent' = [lent EXCEPT ![b] = c]
    /\ open' = open \ {c}

\* The borrower works on the connection it has, and on no other.
Begin(b) ==
    /\ lent[b] # NoConn
    /\ open' = open \cup {lent[b]}
    /\ UNCHANGED lent

\* It commits or rolls back.
End(b) ==
    /\ lent[b] # NoConn
    /\ open' = open \ {lent[b]}
    /\ UNCHANGED lent

\* The borrow ends; what is uncommitted is rolled back now or at the next Lend.
TakeBack(b) ==
    /\ lent[b] # NoConn
    /\ lent' = [lent EXCEPT ![b] = NoConn]
    /\ open' \in {open, open \ {lent[b]}}

\* Connections are closed, or the server drops them, with what was open there.
Drop(C) == open' = open \ C /\ UNCHANGED lent

Next ==
    \/ \E b \in Borrower :
          \/ \E c \in Conn : Lend(b, c)
          \/ Begin(b) \/ End(b) \/ TakeBack(b)
    \/ \E C \in SUBSET Conn : Drop(C)

Spec == Init /\ [][Next]_<<lent, open>>
=============================================================================
