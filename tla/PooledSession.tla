--------------------------- MODULE PooledSession ---------------------------
(***************************************************************************)
(* PooledSession (Database/runtime/harpia_db_pool.h), the RAII object      *)
(* through which every generated C++ server handler borrows a database     *)
(* session from a soci::connection_pool.                                   *)
(*                                                                         *)
(* A process of the model is one PooledSession object: its constructor     *)
(* (lease_within, alive, reconnect), the handler's body while it exists,   *)
(* and its destructor.  OuterOf nests an object in the body of another one *)
(* on the same thread, which the header forbids (rule 2) and only a debug  *)
(* build refuses.                                                          *)
(*                                                                         *)
(* External: soci::connection_pool (try_lease hands over any free slot and *)
(* may report a time-out at any moment, because it trusts the wall clock), *)
(* the session's connection and transaction, and the handler's body.       *)
(***************************************************************************)
EXTENDS Naturals, FiniteSets

CONSTANTS Sessions,  \* PooledSession objects
          Slots,     \* slots of the soci::connection_pool
          None,      \* no slot; no enclosing object
          OuterOf    \* the object in whose body this one is constructed

ASSUME SlotsAssumption == IsFiniteSet(Slots)
ASSUME NoneAssumption  == None \notin Slots /\ None \notin Sessions
ASSUME OuterAssumption ==
    /\ OuterOf \in [Sessions -> Sessions \cup {None}]
    /\ \A s \in Sessions : OuterOf[s] # None => OuterOf[OuterOf[s]] = None

VARIABLES build,    \* "debug": assert() is compiled in
          pc,       \* where each object is
          pos,      \* pos_: the slot it has leased
          due,      \* the monotonic deadline of its lease_within() is over
          free,     \* the slots the pool can hand out
          conn,     \* is_connected() of each slot's session
          tx,       \* an SQL transaction is open on each slot's session
          holding,  \* holding(): the thread-local flag, per outermost object
          aborted   \* the object whose assert() ended the process

vars == <<build, pc, pos, due, free, conn, tx, holding, aborted>>

Leasing  == {"loop", "slice", "last"}
Owning   == {"check", "reconnect", "body", "unwind"}
Failed   == {"exhausted", "reconnect_failed"}

TypeOK ==
    /\ build \in {"debug", "release"}
    /\ pc \in [Sessions -> {"idle"} \cup Leasing \cup Owning \cup Failed]
    /\ pos \in [Sessions -> Slots \cup {None}]
    /\ due \in [Sessions -> BOOLEAN]
    /\ free \in SUBSET Slots
    /\ conn \in [Slots -> BOOLEAN]
    /\ tx \in [Slots -> BOOLEAN]
    /\ holding \in [Sessions -> BOOLEAN]
    /\ aborted \in Sessions \cup {None}

\* The thread an object lives on is named by its outermost object.
Thread(s) == IF OuterOf[s] = None THEN s ELSE OuterOf[s]

\* No object nested in s exists, so s's body may go on.
Innermost(s) == \A i \in Sessions : OuterOf[i] = s => pc[i] = "idle"

Init ==
    /\ build \in {"debug", "release"}
    /\ pc = [s \in Sessions |-> "idle"]
    /\ pos = [s \in Sessions |-> None]
    /\ due = [s \in Sessions |-> FALSE]
    /\ free = Slots
    /\ conn = [k \in Slots |-> TRUE]
    /\ tx = [k \in Slots |-> FALSE]
    /\ holding = [s \in Sessions |-> FALSE]
    /\ aborted = None

\* The process runs, and object s is in one of these places.
At(s, places) == aborted = None /\ pc[s] \in places

-----------------------------------------------------------------------------
(* The constructor. *)

\* A handler constructs the object; assert(!holding()) passes or is not
\* compiled in, and lease_within() fixes its deadline.
Construct(s) ==
    /\ At(s, {"idle"})
    /\ OuterOf[s] # None => pc[OuterOf[s]] = "body"
    /\ ~(build = "debug" /\ holding[Thread(s)])
    /\ pc' = [pc EXCEPT ![s] = "loop"]
    /\ due' = [due EXCEPT ![s] = FALSE]
    /\ UNCHANGED <<pos, free, conn, tx, holding, aborted, build>>

\* assert(!holding()) fails: the process is over.
AssertFails(s) ==
    /\ At(s, {"idle"})
    /\ OuterOf[s] # None => pc[OuterOf[s]] = "body"
    /\ build = "debug" /\ holding[Thread(s)]
    /\ aborted' = s
    /\ UNCHANGED <<pc, pos, due, free, conn, tx, holding, build>>

\* The steady clock passes the deadline of s.
DeadlinePasses(s) ==
    /\ At(s, {"loop", "slice"})
    /\ ~due[s]
    /\ due' = [due EXCEPT ![s] = TRUE]
    /\ UNCHANGED <<pc, pos, free, conn, tx, holding, aborted, build>>

\* Mutation: the deadline is taken inside the loop, so every slice renews it.
LoopRenewsDeadline(s) ==
    /\ At(s, {"loop"})
    /\ pc' = [pc EXCEPT ![s] = "slice"]
    /\ due' = [due EXCEPT ![s] = FALSE]
    /\ UNCHANGED <<pos, free, conn, tx, holding, aborted, build>>

\* The top of lease_within()'s loop: remaining <= 0, or another slice.
Loop(s) ==
    /\ At(s, {"loop"})
    /\ pc' = [pc EXCEPT ![s] = IF due[s] THEN "last" ELSE "slice"]
    /\ UNCHANGED <<pos, due, free, conn, tx, holding, aborted, build>>

\* try_lease() hands over a free slot, during a slice or at the last try.
Lease(s) ==
    /\ At(s, {"slice", "last"})
    /\ \E k \in free :
          /\ pos' = [pos EXCEPT ![s] = k]
          /\ free' = free \ {k}
    /\ pc' = [pc EXCEPT ![s] = "check"]
    /\ UNCHANGED <<due, conn, tx, holding, aborted, build>>

\* Mutation: one failed try_lease() is taken as exhaustion, as if SOCI's
\* wall-clock time-out could be trusted.
SliceFailsExhausts(s) ==
    /\ At(s, {"slice"})
    /\ pc' = [pc EXCEPT ![s] = "exhausted"]
    /\ UNCHANGED <<pos, due, free, conn, tx, holding, aborted, build>>

\* try_lease(slice) reports a time-out: on time, or at once after a wall-clock
\* step; the loop looks at the steady clock again.
SliceFails(s) ==
    /\ At(s, {"slice"})
    /\ pc' = [pc EXCEPT ![s] = "loop"]
    /\ UNCHANGED <<pos, due, free, conn, tx, holding, aborted, build>>

\* The last, non-blocking try_lease(0) finds nothing.
Exhausted(s) ==
    /\ At(s, {"last"})
    /\ free = {}
    /\ pc' = [pc EXCEPT ![s] = "exhausted"]
    /\ UNCHANGED <<pos, due, free, conn, tx, holding, aborted, build>>

\* alive(): the borrow is done, or reconnect() is called.
Alive(s) ==
    /\ At(s, {"check"})
    /\ IF conn[pos[s]]
       THEN /\ pc' = [pc EXCEPT ![s] = "body"]
            /\ holding' = [holding EXCEPT ![Thread(s)] = TRUE]
       ELSE /\ pc' = [pc EXCEPT ![s] = "reconnect"]
            /\ UNCHANGED holding
    /\ UNCHANGED <<pos, due, free, conn, tx, aborted, build>>

\* reconnect() works: a fresh connection, with no transaction.
Reconnects(s) ==
    /\ At(s, {"reconnect"})
    /\ conn' = [conn EXCEPT ![pos[s]] = TRUE]
    /\ tx' = [tx EXCEPT ![pos[s]] = FALSE]
    /\ pc' = [pc EXCEPT ![s] = "body"]
    /\ holding' = [holding EXCEPT ![Thread(s)] = TRUE]
    /\ UNCHANGED <<pos, due, free, aborted, build>>

\* pool_->give_back(pos_).
GiveBack(s) ==
    /\ free' = free \cup {pos[s]}
    /\ pos' = [pos EXCEPT ![s] = None]

\* Mutation: the failure path returns without giving the slot back.
ReconnectFailsKeepsSlot(s) ==
    /\ At(s, {"reconnect"})
    /\ pos' = [pos EXCEPT ![s] = None]
    /\ pc' = [pc EXCEPT ![s] = "reconnect_failed"]
    /\ UNCHANGED <<due, free, conn, tx, holding, aborted, build>>

\* Mutation: holding() is set as soon as a slot is leased.
ReconnectFailsHolding(s) ==
    /\ At(s, {"reconnect"})
    /\ GiveBack(s)
    /\ pc' = [pc EXCEPT ![s] = "reconnect_failed"]
    /\ holding' = [holding EXCEPT ![Thread(s)] = TRUE]
    /\ UNCHANGED <<due, conn, tx, aborted, build>>

\* reconnect() does not help: reconnect_failed, and the slot goes back.
ReconnectFails(s) ==
    /\ At(s, {"reconnect"})
    /\ GiveBack(s)
    /\ pc' = [pc EXCEPT ![s] = "reconnect_failed"]
    /\ UNCHANGED <<due, conn, tx, holding, aborted, build>>

-----------------------------------------------------------------------------
(* The body and the destructor. *)

\* The handler reads outcome() != ok, answers its client and leaves; the
\* destructor has nothing to give back.
Refused(s) ==
    /\ At(s, Failed)
    /\ pc' = [pc EXCEPT ![s] = "idle"]
    /\ UNCHANGED <<pos, due, free, conn, tx, holding, aborted, build>>

\* The body opens or closes a transaction on a working session.
BodyTransaction(s) ==
    /\ At(s, {"body"}) /\ Innermost(s)
    /\ conn[pos[s]]
    /\ tx' = [tx EXCEPT ![pos[s]] = ~tx[pos[s]]]
    /\ UNCHANGED <<pc, pos, due, free, conn, holding, aborted, build>>

\* The body ends normally, its soci::transaction objects gone (rule 4): the
\* destructor only gives back.
Destroy(s) ==
    /\ At(s, {"body"}) /\ Innermost(s)
    /\ conn[pos[s]] => ~tx[pos[s]]
    /\ holding' = [holding EXCEPT ![Thread(s)] = FALSE]
    /\ GiveBack(s)
    /\ pc' = [pc EXCEPT ![s] = "idle"]
    /\ UNCHANGED <<due, conn, tx, aborted, build>>

\* The body throws, a transaction open or not.
BodyThrows(s) ==
    /\ At(s, {"body"}) /\ Innermost(s)
    /\ pc' = [pc EXCEPT ![s] = "unwind"]
    /\ UNCHANGED <<pos, due, free, conn, tx, holding, aborted, build>>

\* Mutation: the destructor does not notice that it runs during unwinding.
UnwindNoRollback(s) ==
    /\ At(s, {"unwind"})
    /\ holding' = [holding EXCEPT ![Thread(s)] = FALSE]
    /\ GiveBack(s)
    /\ pc' = [pc EXCEPT ![s] = "idle"]
    /\ UNCHANGED <<due, conn, tx, aborted, build>>

\* The destructor during unwinding: rollback() (which fails only on a dead
\* connection, and is then ignored), then give back.
Unwind(s) ==
    /\ At(s, {"unwind"})
    /\ tx' = [tx EXCEPT ![pos[s]] = @ /\ ~conn[pos[s]]]
    /\ holding' = [holding EXCEPT ![Thread(s)] = FALSE]
    /\ GiveBack(s)
    /\ pc' = [pc EXCEPT ![s] = "idle"]
    /\ UNCHANGED <<due, conn, aborted, build>>

\* The server or the network drops the connection of a slot.
ConnectionDies(k) ==
    /\ aborted = None
    /\ conn[k]
    /\ conn' = [conn EXCEPT ![k] = FALSE]
    /\ UNCHANGED <<pc, pos, due, free, tx, holding, aborted, build>>

SessionStep(s) ==
    \/ Construct(s) \/ AssertFails(s) \/ DeadlinePasses(s) \/ Loop(s)
    \/ Lease(s) \/ SliceFails(s) \/ Exhausted(s) \/ Alive(s) \/ Reconnects(s)
    \/ ReconnectFails(s) \/ Refused(s) \/ BodyTransaction(s) \/ Destroy(s)
    \/ BodyThrows(s) \/ Unwind(s)

Next ==
    \/ \E s \in Sessions : SessionStep(s)
    \/ \E k \in Slots : ConnectionDies(k)

Spec == Init /\ [][Next]_vars

\* The constructor's own steps and the clock go on; nothing is assumed of the
\* handlers' bodies, which may hold their slots for ever.
Fairness ==
    \A s \in Sessions :
        /\ WF_vars(DeadlinePasses(s))
        /\ WF_vars(Loop(s))
        /\ WF_vars(SliceFails(s) \/ Lease(s) \/ Exhausted(s))
        /\ WF_vars(Alive(s))
        /\ WF_vars(Reconnects(s) \/ ReconnectFails(s))

FairSpec == Spec /\ Fairness

-----------------------------------------------------------------------------
(* What the pool promises. *)

\* Rule 5 and thread safety: a slot is either free or leased by exactly one
\* object, through failed reconnects, exceptions and nested borrows.
SlotsAccounted ==
    /\ \A s \in Sessions : (pc[s] \in Owning) <=> (pos[s] # None)
    /\ \A s \in Sessions : pos[s] # None => pos[s] \notin free
    /\ \A s, r \in Sessions : s # r /\ pos[s] # None => pos[s] # pos[r]
    /\ \A k \in Slots : k \in free \/ \E s \in Sessions : pos[s] = k

\* Rules 3 and 4: a body starts on a connected session with no transaction of
\* an earlier borrower open on it, whatever threw or died before.
CleanBorrow ==
    [][\A s \in Sessions :
          pc[s] # "body" /\ pc'[s] = "body"
             => conn'[pos'[s]] /\ ~tx'[pos'[s]]]_vars

\* Rule 1: a borrow is refused only once its monotonic deadline is over and no
\* slot is free at that moment, whatever the wall clock did to the slices.
ExhaustedOnlyAtDeadline ==
    [][\A s \in Sessions :
          pc[s] # "exhausted" /\ pc'[s] = "exhausted" => due[s] /\ free = {}]_vars

\* Rule 2: the assertion fires on nested borrows only; an object that failed
\* to borrow never makes the next borrow of its thread look nested.
AssertOnlyNested == aborted # None => OuterOf[aborted] # None

\* From the outside: the session each object has while its body runs or unwinds,
\* and the connected sessions with a transaction open.
LentTo == [s \in Sessions |-> IF pc[s] \in {"body", "unwind"} THEN pos[s] ELSE None]
Open == {k \in Slots : conn[k] /\ tx[k]}

Contract == INSTANCE ConnPool WITH Borrower <- Sessions, Conn <- Slots, NoConn <- None,
                                   Size <- Cardinality(Slots), lent <- LentTo, open <- Open

\* The pool keeps the contract of ConnPool, the same one as the Python pool,
\* although it rolls back when a body throws and not when a session is borrowed.
KeepsContract == Contract!Spec

\* Every constructor returns, even when every body waits in a nested borrow
\* for a slot that only a waiting body could free.
BorrowEnds ==
    \A s \in Sessions :
        (pc[s] \in Leasing \cup {"check", "reconnect"}) ~>
            (aborted # None \/ pc[s] \in {"body"} \cup Failed)
=============================================================================
