-------------------------------- MODULE Dao --------------------------------
(***************************************************************************)
(* The generated Python DAO (PyDatabase/runtime/dao.py, bulk import from   *)
(* PyDatabase/runtime/dbio.py): requests on pooled connections of their    *)
(* own run create / update / remove / import / read over a parent table, a *)
(* repeated-field child table and the table of an FK child, and publish    *)
(* what they wrote once they have committed.                               *)
(*                                                                         *)
(* A call is the list of SQL statements its code executes.  The database   *)
(* is external, as the SQLite pool opens it (WAL): the first INSERT,       *)
(* UPDATE or DELETE of a call takes the one write lock, its rows stay in a *)
(* working copy until commit(), and a SELECT, for which sqlite3 opens no   *)
(* transaction, sees the last commit.  (psycopg's default READ COMMITTED   *)
(* shows a SELECT the same.)                                               *)
(***************************************************************************)
EXTENDS Naturals, Sequences

CONSTANTS Clients,   \* requests, each with a connection of its own
          Messages,  \* the message values that are written
          IdOf,      \* the primary key of each message
          RefOf,     \* the key of its FK child, or None
          SizeOf,    \* how many repeated items it has
          None

ASSUME SizeAssumption == \A m \in Messages : SizeOf[m] \in Nat
ASSUME NoneAssumption == None \notin Clients

VARIABLES db,      \* the committed rows
          work,    \* the lock holder's working copy
          lock,    \* who has the write lock
          pc,      \* where each request is
          call,    \* its call
          todo,    \* the statements it has yet to execute
          pend,    \* its _AFTER_COMMIT list
          got,     \* what its read() has loaded
          sent,    \* history: what its call has published
          raced,   \* history: a commit fell into its read()
          missed   \* history: a committed update() matched no row somewhere

vars == <<db, work, lock, pc, call, todo, pend, got, sent, raced, missed>>

Ids == {IdOf[m] : m \in Messages}

Row(t, o, n, m) == [table |-> t, owner |-> o, ord |-> n, msg |-> m]
Rows == {Row(t, o, n, m) : t \in {"ref", "main", "items"},
                           o \in Ids \cup {RefOf[m] : m \in Messages},
                           n \in UNION {0..SizeOf[m] : m \in Messages},
                           m \in Messages}

Events == {"ref", "main"} \X Messages

Calls ==
    [op : {"create", "update"}, msg : Messages]
       \cup [op : {"remove", "read"}, id : Ids]
       \cup [op : {"import"}, msg : Messages, next : Messages]

-----------------------------------------------------------------------------
(* The statements of each call. *)

Stmt(kind, t, o, n, m) ==
    [kind |-> kind, table |-> t, owner |-> o, ord |-> n, msg |-> m]

\* _on_change(): defer the publication of a written row.
Fire(t, m) == <<Stmt("fire", t, None, 0, m)>>

\* The FK child first, through its own DAO, with its own _on_change().
RefPlan(kind, m) ==
    IF RefOf[m] = None THEN <<>>
    ELSE <<Stmt(kind, "ref", RefOf[m], 0, m)>> \o Fire("ref", m)

\* _write_child(): one INSERT per item.
ItemPlan(m) == [n \in 1..SizeOf[m] |-> Stmt("insert", "items", IdOf[m], n, m)]

\* _create().
CreatePlan(m) ==
    RefPlan("insert", m) \o <<Stmt("insert", "main", IdOf[m], 0, m)>>
       \o ItemPlan(m) \o Fire("main", m)

\* _update(): the items are deleted and inserted again.
UpdatePlan(m) ==
    RefPlan("update", m) \o <<Stmt("update", "main", IdOf[m], 0, m),
                              Stmt("wipe", "items", IdOf[m], 0, m)>>
       \o ItemPlan(m) \o Fire("main", m)

\* Mutation: the child tables are forgotten.
RemovePlanRowOnly(id) == <<Stmt("delete", "main", id, 0, None)>>

\* remove(): the row and its items; FK children stay.
RemovePlan(id) ==
    <<Stmt("delete", "main", id, 0, None), Stmt("wipe", "items", id, 0, None)>>

\* _create_all() of two rows: one transaction around two _create().
ImportPlan(m, n) == CreatePlan(m) \o CreatePlan(n)

Plan(k) ==
    CASE k.op = "create" -> CreatePlan(k.msg)
      [] k.op = "update" -> UpdatePlan(k.msg)
      [] k.op = "remove" -> RemovePlan(k.id)
      [] k.op = "import" -> ImportPlan(k.msg, k.next)
      [] OTHER -> <<>>

\* What SQL makes of them.
Hits(R, s) == {x \in R : x.table = s.table /\ x.owner = s.owner /\ x.ord = s.ord}

Duplicate(R, s) == s.kind = "insert" /\ Hits(R, s) # {}

Exec(R, s) ==
    LET new == {Row(s.table, s.owner, s.ord, s.msg)}
    IN  CASE s.kind = "insert" -> R \cup new
          [] s.kind = "update" -> IF Hits(R, s) = {} THEN R ELSE (R \ Hits(R, s)) \cup new
          [] s.kind = "delete" -> R \ Hits(R, s)
          [] OTHER -> {x \in R : ~(x.table = "items" /\ x.owner = s.owner)}

-----------------------------------------------------------------------------

Nothing == [main |-> None, ref |-> FALSE, items |-> {}]

TypeOK ==
    /\ db \in SUBSET Rows /\ work \in SUBSET Rows
    /\ lock \in Clients \cup {None}
    /\ pc \in [Clients -> {"idle", "exec", "left", "fire", "row", "ref", "items"}]
    /\ call \in [Clients -> Calls \cup {None}]
    /\ pend \in [Clients -> Seq(Events)]
    /\ sent \in [Clients -> Seq(Events)]
    /\ raced \in [Clients -> BOOLEAN]
    /\ missed \in BOOLEAN

Init ==
    /\ db = {} /\ work = {} /\ lock = None
    /\ pc = [c \in Clients |-> "idle"]
    /\ call = [c \in Clients |-> None]
    /\ todo = [c \in Clients |-> <<>>]
    /\ pend = [c \in Clients |-> <<>>]
    /\ got = [c \in Clients |-> Nothing]
    /\ sent = [c \in Clients |-> <<>>]
    /\ raced = [c \in Clients |-> FALSE]
    /\ missed = FALSE

\* A request calls the DAO; _tx() makes a new _AFTER_COMMIT list.
Begin(c, k) ==
    /\ pc[c] = "idle"
    /\ pc' = [pc EXCEPT ![c] = IF k.op = "read" THEN "row" ELSE "exec"]
    /\ call' = [call EXCEPT ![c] = k]
    /\ todo' = [todo EXCEPT ![c] = Plan(k)]
    /\ UNCHANGED <<db, work, lock, pend, got, sent, raced, missed>>

\* The rows the next statement of c works on, once it can have the lock.
Locked(c) ==
    /\ pc[c] = "exec" /\ todo[c] # <<>> /\ Head(todo[c]).kind # "fire"
    /\ lock \in {c, None}
Seen(c) == IF lock = c THEN work ELSE db

\* The next statement succeeds.
Execute(c) ==
    /\ Locked(c)
    /\ ~Duplicate(Seen(c), Head(todo[c]))
    /\ lock' = c
    /\ work' = Exec(Seen(c), Head(todo[c]))
    /\ todo' = [todo EXCEPT ![c] = Tail(@)]
    /\ UNCHANGED <<db, pc, call, pend, got, sent, raced, missed>>

\* Mutation: the FK child is written by its create(), which commits.
DeferCommits(c) ==
    /\ pc[c] = "exec" /\ todo[c] # <<>> /\ Head(todo[c]).kind = "fire"
    /\ db' = IF Head(todo[c]).table = "ref" THEN work ELSE db
    /\ pend' = [pend EXCEPT ![c] = Append(@, <<Head(todo[c]).table, Head(todo[c]).msg>>)]
    /\ todo' = [todo EXCEPT ![c] = Tail(@)]
    /\ UNCHANGED <<work, lock, pc, call, got, sent, raced, missed>>

\* _after_commit(): the publication joins the list.
Defer(c) ==
    /\ pc[c] = "exec" /\ todo[c] # <<>> /\ Head(todo[c]).kind = "fire"
    /\ pend' = [pend EXCEPT ![c] = Append(@, <<Head(todo[c]).table, Head(todo[c]).msg>>)]
    /\ todo' = [todo EXCEPT ![c] = Tail(@)]
    /\ UNCHANGED <<db, work, lock, pc, call, got, sent, raced, missed>>

\* The call is over, and with it what the code and the histories keep of it.
Leave(c) ==
    /\ pc' = [pc EXCEPT ![c] = "idle"]
    /\ call' = [call EXCEPT ![c] = None]
    /\ todo' = [todo EXCEPT ![c] = <<>>]
    /\ got' = [got EXCEPT ![c] = Nothing]
    /\ sent' = [sent EXCEPT ![c] = <<>>]
    /\ raced' = [raced EXCEPT ![c] = FALSE]

\* It ends with an exception: rollback(), and the list is dropped.
Abandon(c, rest) ==
    /\ Leave(c)
    /\ lock' = IF lock = c THEN None ELSE lock
    /\ pend' = [pend EXCEPT ![c] = rest]
    /\ UNCHANGED <<db, work, missed>>

\* Mutation: the list outlives the transaction that filled it.
RaisesKeepsList(c) ==
    /\ Locked(c)
    /\ Duplicate(Seen(c), Head(todo[c]))
    /\ Abandon(c, pend[c])

\* The next statement raises: a duplicate key.
Raises(c) ==
    /\ Locked(c)
    /\ Duplicate(Seen(c), Head(todo[c]))
    /\ Abandon(c, <<>>)

\* "database is locked": busy_timeout passes before the lock is free.
Busy(c) ==
    /\ pc[c] = "exec" /\ lock \notin {c, None} /\ todo[c] # <<>>
    /\ Head(todo[c]).kind # "fire"
    /\ Abandon(c, <<>>)

\* commit() raises, and _tx() does not roll back.  DB-API does not say whether
\* the transaction is over; if it is not, it stays on the connection, and with it
\* the write lock.
CommitFails(c) ==
    /\ pc[c] = "exec" /\ todo[c] = <<>>
    /\ \/ Abandon(c, <<>>)
       \/ /\ pc' = [pc EXCEPT ![c] = "left"]
          /\ pend' = [pend EXCEPT ![c] = <<>>]
          /\ UNCHANGED <<db, work, lock, call, todo, got, sent, raced, missed>>

\* The pool rolls back what was left: as the exception leaves the borrower's
\* block, or, if it was caught inside, at the ping of the next borrow.
RollBack(c) ==
    /\ pc[c] = "left"
    /\ Abandon(c, <<>>)

\* An update() whose row, or whose FK child's row, is not in db.
Misses(k) ==
    /\ k.op = "update"
    /\ \/ ~\E x \in db : x.table = "main" /\ x.owner = IdOf[k.msg]
       \/ /\ RefOf[k.msg] # None
          /\ ~\E x \in db : x.table = "ref" /\ x.owner = RefOf[k.msg]

\* commit().
Commit(c) ==
    /\ pc[c] = "exec" /\ todo[c] = <<>>
    /\ db' = work
    /\ lock' = None
    /\ pc' = [pc EXCEPT ![c] = "fire"]
    /\ missed' = (missed \/ Misses(call[c]))
    /\ raced' = [r \in Clients |-> raced[r] \/ pc[r] \in {"ref", "items"}]
    /\ UNCHANGED <<work, call, todo, pend, got, sent>>

\* The next deferred publication.
Publish(c) ==
    /\ pc[c] = "fire" /\ pend[c] # <<>>
    /\ sent' = [sent EXCEPT ![c] = Append(@, Head(pend[c]))]
    /\ pend' = [pend EXCEPT ![c] = Tail(@)]
    /\ UNCHANGED <<db, work, lock, pc, call, todo, got, raced, missed>>

\* A publication raises (no thread for its dispatch): the rest of the list is
\* dropped and the call raises, although it has committed.
PublishRaises(c) ==
    /\ pc[c] = "fire" /\ pend[c] # <<>>
    /\ Abandon(c, <<>>)

\* The list is done; the call returns.
Return(c) ==
    /\ pc[c] = "fire" /\ pend[c] = <<>>
    /\ Leave(c)
    /\ UNCHANGED <<db, work, lock, pend, missed>>

-----------------------------------------------------------------------------
(* read(): three SELECTs, and a commit() that has nothing to write. *)

\* _read_into(): the parent row; a missing one ends the call.
SelectRow(c) ==
    /\ pc[c] = "row"
    /\ LET hit == {x \in db : x.table = "main" /\ x.owner = call[c].id}
       IN  /\ got' = [got EXCEPT ![c].main = IF hit = {} THEN None
                                             ELSE (CHOOSE x \in hit : TRUE).msg]
           /\ pc' = [pc EXCEPT ![c] = IF hit = {} THEN "fire" ELSE "ref"]
    /\ UNCHANGED <<db, work, lock, call, todo, pend, sent, raced, missed>>

\* _load_row(): a non-zero key loads the FK child through its own DAO.
SelectRef(c) ==
    /\ pc[c] = "ref"
    /\ got' = [got EXCEPT ![c].ref =
                  \E x \in db : x.table = "ref" /\ x.owner = RefOf[got[c].main]]
    /\ pc' = [pc EXCEPT ![c] = "items"]
    /\ UNCHANGED <<db, work, lock, call, todo, pend, sent, raced, missed>>

\* Mutation: the SELECT has no WHERE clause.
SelectItemsAll(c) ==
    /\ pc[c] = "items"
    /\ got' = [got EXCEPT ![c].items = {<<x.ord, x.msg>> : x \in {y \in db : y.table = "items"}}]
    /\ pc' = [pc EXCEPT ![c] = "fire"]
    /\ UNCHANGED <<db, work, lock, call, todo, pend, sent, raced, missed>>

\* _read_child(): the items of the key.
SelectItems(c) ==
    /\ pc[c] = "items"
    /\ got' = [got EXCEPT ![c].items =
                  {<<x.ord, x.msg>> : x \in {y \in db : y.table = "items"
                                                 /\ y.owner = call[c].id}}]
    /\ pc' = [pc EXCEPT ![c] = "fire"]
    /\ UNCHANGED <<db, work, lock, call, todo, pend, sent, raced, missed>>

Step(c) ==
    \/ Execute(c) \/ Defer(c) \/ Raises(c) \/ Busy(c) \/ CommitFails(c) \/ RollBack(c)
    \/ Commit(c) \/ Publish(c) \/ PublishRaises(c) \/ Return(c)
    \/ SelectRow(c) \/ SelectRef(c) \/ SelectItems(c)

Next == \E c \in Clients : Step(c) \/ \E k \in Calls : Begin(c, k)

Spec == Init /\ [][Next]_vars

-----------------------------------------------------------------------------
(* What the DAO promises. *)

Atomic == INSTANCE AtomicStore WITH store <- db

\* "Every call is one transaction, children included: committed on success,
\* rolled back on error": whatever the requests do to each other, the committed
\* rows change by whole calls only.
CallsAreAtomic == Atomic!Spec

\* No sequence of calls tears a row: each parent row has exactly the items of the
\* message it was written from and the FK child it names, and there is no item
\* without its parent; as long as no update() missed its row.
RowsWhole ==
    ~missed =>
        /\ \A x \in db : x.table = "main" =>
              /\ {y \in db : Atomic!IsItemOf(y, x.owner)} = Atomic!ItemRows(x.msg)
              /\ RefOf[x.msg] # None =>
                    \E y \in db : y.table = "ref" /\ y.owner = RefOf[x.msg]
        /\ \A y \in db : y.table = "items" =>
              \E x \in db : x.table = "main" /\ x.owner = y.owner

\* The events of a call, in the order its rows are written.
EventsOf(k) ==
    LET Of(m) == (IF RefOf[m] = None THEN <<>> ELSE << <<"ref", m>> >>)
                    \o << <<"main", m>> >>
    IN  CASE k.op \in {"create", "update"} -> Of(k.msg)
          [] k.op = "import" -> Of(k.msg) \o Of(k.next)
          [] OTHER -> <<>>

\* Events follow commits: a call publishes nothing before it has committed, and
\* then exactly the rows it wrote, FK children included, once and in order; a
\* call that was rolled back publishes nothing, then or in a later call.
EventsExact ==
    \A c \in Clients :
        /\ pc[c] = "exec" => sent[c] = <<>>
        /\ pc[c] = "fire" => sent[c] \o pend[c] = EventsOf(call[c])

\* What a read() returned is one message, with all of its items and its child.
Whole(g) ==
    g.main # None =>
        /\ g.items = {<<n, g.main>> : n \in 1..SizeOf[g.main]}
        /\ RefOf[g.main] # None => g.ref

\* A read() that no commit falls into returns a message as it was written, after
\* any sequence of calls in which no update() missed its row.
ReadWholeUndisturbed ==
    \A c \in Clients : pc[c] = "fire" /\ ~raced[c] /\ ~missed => Whole(got[c])
=============================================================================
