---------------------------- MODULE AtomicStore ----------------------------
(***************************************************************************)
(* What the Python DAO promises of its table (PyDatabase/runtime/dao.py,   *)
(* "Every call is one transaction, children included"): a set of rows that *)
(* changes by whole calls only.  Every effect is stated at once, as a set; *)
(* nothing here knows of statements, locks or connections.                 *)
(***************************************************************************)
EXTENDS Naturals

CONSTANTS Messages,  \* the message values that are written
          IdOf,      \* the primary key of each message
          RefOf,     \* the key of its FK child, or None
          SizeOf,    \* how many repeated items it has
          None

VARIABLE store       \* the rows: [table, owner, ord, msg]

Row(t, o, n, m) == [table |-> t, owner |-> o, ord |-> n, msg |-> m]

RefRows(m)  == IF RefOf[m] = None THEN {} ELSE {Row("ref", RefOf[m], 0, m)}
MainRows(m) == {Row("main", IdOf[m], 0, m)}
ItemRows(m) == {Row("items", IdOf[m], n, m) : n \in 1..SizeOf[m]}
RowsOf(m)   == RefRows(m) \cup MainRows(m) \cup ItemRows(m)

SameKey(x, y) == x.table = y.table /\ x.owner = y.owner /\ x.ord = y.ord

\* The rows of R that have a row of the same key in S.
Matching(R, S) == {x \in R : \E y \in S : SameKey(x, y)}

IsItemOf(x, id) == x.table = "items" /\ x.owner = id

Created(S, m) == S \cup RowsOf(m)

\* The rows that exist are overwritten; the items are replaced whether or not
\* a row exists.
Updated(S, m) ==
    LET hit == Matching(RefRows(m) \cup MainRows(m), S)
    IN  {x \in S \ Matching(S, hit) : ~IsItemOf(x, IdOf[m])}
           \cup hit \cup ItemRows(m)

Removed(S, id) ==
    {x \in S : ~(x.table = "main" /\ x.owner = id) /\ ~IsItemOf(x, id)}

Init == store = {}

Create(m) == Matching(RowsOf(m), store) = {} /\ store' = Created(store, m)

Update(m) == store' = Updated(store, m)

Remove(id) == store' = Removed(store, id)

\* dbio's import of two rows.
Import(m, n) ==
    /\ Matching(RowsOf(m), store) = {}
    /\ Matching(RowsOf(n), Created(store, m)) = {}
    /\ store' = Created(Created(store, m), n)

Next ==
    \/ \E m \in Messages : Create(m) \/ Update(m) \/ Remove(IdOf[m])
    \/ \E m, n \in Messages : Import(m, n)

Spec == Init /\ [][Next]_store
=============================================================================
