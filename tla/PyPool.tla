------------------------------- MODULE PyPool -------------------------------
(***************************************************************************)
(* harpia_runtime.db.pool.ConnectionPool (PyDatabase/runtime/pool.py): the *)
(* DB-API connection pool of a generated Python server.  Every request     *)
(* thread borrows one connection for the length of a `with` block.         *)
(*                                                                         *)
(* The pool's state is guarded by one threading.Condition, so what runs    *)
(* under `with self._cond` is one step; everything else (the ping, the     *)
(* factory, the body of the `with` block, the rollback) runs unlocked and  *)
(* interleaves.  CPython's Condition keeps a waiter that timed out in its  *)
(* wait list until that waiter has the lock again, so a notify() can be    *)
(* spent on a thread that is already on its way out.                       *)
(*                                                                         *)
(* Abstracted: _idle is a set (the code pops the last element; no property *)
(* depends on which idle connection is reused); a transaction is the name  *)
(* of the thread that opened it; time is the one event "the deadline of    *)
(* this _take() has passed".                                               *)
(***************************************************************************)
EXTENDS Integers, FiniteSets

CONSTANTS Thread,   \* request threads
          Conn,     \* names for connection objects
          NoConn,   \* Python's None where a connection is expected
          NoTxn,    \* no transaction is open
          Size      \* self._size

ASSUME ThreadAssumption == IsFiniteSet(Thread)
ASSUME NoConnAssumption == NoConn \notin Conn
ASSUME NoTxnAssumption  == NoTxn \notin Thread
ASSUME SizeAssumption   == Size \in Nat \ {0}   \* __init__ refuses size < 1

VARIABLES pc,       \* where each thread is in borrow()
          held,     \* borrow()'s local `conn`
          expired,  \* threads whose _take() deadline has passed
          waiters,  \* the Condition's wait list
          idle,     \* self._idle
          out,      \* self._out
          made,     \* self._made
          dead,     \* connections the server has dropped
          txn       \* the thread whose transaction is open on a connection

vars == <<pc, held, expired, waiters, idle, out, made, dead, txn>>

Waiting == {"take", "asleep", "woken"}                    \* inside _take()
Holding == {"ping", "make", "body", "unwind", "return"}   \* owns a slot

Holders  == {t \in Thread : pc[t] \in Holding}
Sleepers == {t \in Thread : pc[t] = "asleep"}
\* Threads that notify() has taken off the wait list and that have not yet
\* had the lock since.
Notified == {t \in Thread : pc[t] = "woken" /\ t \notin waiters}
Borrowed == {held[t] : t \in Holders} \ {NoConn}

TypeOK ==
    /\ pc \in [Thread -> {"outside"} \cup Waiting \cup Holding]
    /\ held \in [Thread -> Conn \cup {NoConn}]
    /\ expired \subseteq Thread
    /\ waiters \subseteq Thread
    /\ idle \subseteq Conn
    /\ out \in Int
    /\ made \in Int
    /\ dead \subseteq Conn
    /\ txn \in [Conn -> Thread \cup {NoTxn}]

Init ==
    /\ pc = [t \in Thread |-> "outside"]
    /\ held = [t \in Thread |-> NoConn]
    /\ expired = {}
    /\ waiters = {}
    /\ idle = {}
    /\ out = 0
    /\ made = 0
    /\ dead = {}
    /\ txn = [c \in Conn |-> NoTxn]

-----------------------------------------------------------------------------
(* _take(): wait for a slot. *)

\* borrow() is called; _take() fixes the deadline.
Enter(t) ==
    /\ pc[t] = "outside"
    /\ pc' = [pc EXCEPT ![t] = "take"]
    /\ expired' = expired \ {t}
    /\ UNCHANGED <<held, waiters, idle, out, made, dead, txn>>

\* time.monotonic() reaches the deadline of a thread that is in _take().
DeadlinePasses(t) ==
    /\ pc[t] \in Waiting
    /\ t \notin expired
    /\ expired' = expired \cup {t}
    /\ UNCHANGED <<pc, held, waiters, idle, out, made, dead, txn>>

\* A free slot: reuse an idle connection, or leave with None to make one.
\* A waiter that timed out drops off the wait list here, with the lock.
TakeSlot(t) ==
    /\ pc[t] \in {"take", "woken"}
    /\ out < Size
    /\ waiters' = waiters \ {t}
    /\ out' = out + 1
    /\ \/ \E c \in idle :
             /\ idle' = idle \ {c}
             /\ held' = [held EXCEPT ![t] = c]
             /\ pc' = [pc EXCEPT ![t] = "ping"]
             /\ UNCHANGED made
       \/ /\ idle = {}
          /\ made' = made + 1
          /\ held' = [held EXCEPT ![t] = NoConn]
          /\ pc' = [pc EXCEPT ![t] = "make"]
          /\ UNCHANGED idle
    /\ expired' = expired \ {t}
    /\ UNCHANGED <<dead, txn>>

\* Mutation: every wait gets the full timeout again instead of what is left.
SleepRestartsDeadline(t) ==
    /\ pc[t] \in {"take", "woken"}
    /\ out >= Size
    /\ waiters' = waiters \cup {t}
    /\ pc' = [pc EXCEPT ![t] = "asleep"]
    /\ expired' = expired \ {t}
    /\ UNCHANGED <<held, idle, out, made, dead, txn>>

\* No slot and time left: self._cond.wait(remaining).
Sleep(t) ==
    /\ pc[t] \in {"take", "woken"}
    /\ out >= Size
    /\ t \notin expired
    /\ waiters' = waiters \cup {t}
    /\ pc' = [pc EXCEPT ![t] = "asleep"]
    /\ UNCHANGED <<held, expired, idle, out, made, dead, txn>>

\* No slot and no time left: PoolExhausted.
Exhausted(t) ==
    /\ pc[t] \in {"take", "woken"}
    /\ out >= Size
    /\ t \in expired
    /\ waiters' = waiters \ {t}
    /\ pc' = [pc EXCEPT ![t] = "outside"]
    /\ expired' = expired \ {t}
    /\ UNCHANGED <<held, idle, out, made, dead, txn>>

\* wait() gives up at its timeout; the thread still needs the lock, and until
\* it has it stays on the wait list.
WaitTimesOut(t) ==
    /\ pc[t] = "asleep"
    /\ t \in expired
    /\ pc' = [pc EXCEPT ![t] = "woken"]
    /\ UNCHANGED <<held, expired, waiters, idle, out, made, dead, txn>>

-----------------------------------------------------------------------------
(* borrow() with a slot: ping, (re)connect, run the body, clean up. *)

\* Mutation: _alive() does not roll back.
PingLeavesTransaction(t) ==
    /\ pc[t] = "ping"
    /\ held[t] \notin dead
    /\ pc' = [pc EXCEPT ![t] = "body"]
    /\ UNCHANGED <<held, expired, waiters, idle, out, made, dead, txn>>

\* _alive(): SELECT 1 and a rollback succeed.
PingOk(t) ==
    /\ pc[t] = "ping"
    /\ held[t] \notin dead
    /\ txn' = [txn EXCEPT ![held[t]] = NoTxn]
    /\ pc' = [pc EXCEPT ![t] = "body"]
    /\ UNCHANGED <<held, expired, waiters, idle, out, made, dead>>

\* _alive() failed: _close(conn); conn = None.
PingFails(t) ==
    /\ pc[t] = "ping"
    /\ held[t] \in dead
    /\ dead' = dead \ {held[t]}
    /\ held' = [held EXCEPT ![t] = NoConn]
    /\ pc' = [pc EXCEPT ![t] = "make"]
    /\ UNCHANGED <<expired, waiters, idle, out, made, txn>>

MakeOk(t) ==
    /\ pc[t] = "make"
    /\ \E c \in Conn \ (idle \cup Borrowed) :
          held' = [held EXCEPT ![t] = c]
    /\ pc' = [pc EXCEPT ![t] = "body"]
    /\ UNCHANGED <<expired, waiters, idle, out, made, dead, txn>>

\* Mutation: the failed factory's exception leaves without _give_back(None).
MakeFailsKeepsSlot(t) ==
    /\ pc[t] = "make"
    /\ pc' = [pc EXCEPT ![t] = "outside"]
    /\ UNCHANGED <<held, expired, waiters, idle, out, made, dead, txn>>

\* The factory raised: _give_back(None), then PoolReconnectFailed.
MakeFails(t) ==
    /\ pc[t] = "make"
    /\ pc' = [pc EXCEPT ![t] = "return"]
    /\ UNCHANGED <<held, expired, waiters, idle, out, made, dead, txn>>

\* The body of the `with` block runs a statement, which opens a transaction.
BodyBegin(t) ==
    /\ pc[t] = "body"
    /\ held[t] \notin dead
    /\ txn' = [txn EXCEPT ![held[t]] = t]
    /\ UNCHANGED <<pc, held, expired, waiters, idle, out, made, dead>>

BodyCommit(t) ==
    /\ pc[t] = "body"
    /\ held[t] \notin dead
    /\ txn' = [txn EXCEPT ![held[t]] = NoTxn]
    /\ UNCHANGED <<pc, held, expired, waiters, idle, out, made, dead>>

\* The body ends, whether or not it committed: _give_back(conn) comes next.
BodyEnds(t) ==
    /\ pc[t] = "body"
    /\ pc' = [pc EXCEPT ![t] = "return"]
    /\ UNCHANGED <<held, expired, waiters, idle, out, made, dead, txn>>

BodyRaises(t) ==
    /\ pc[t] = "body"
    /\ pc' = [pc EXCEPT ![t] = "unwind"]
    /\ UNCHANGED <<held, expired, waiters, idle, out, made, dead, txn>>

\* Exceptional exit: conn.rollback() ...
RollbackOk(t) ==
    /\ pc[t] = "unwind"
    /\ held[t] \notin dead
    /\ txn' = [txn EXCEPT ![held[t]] = NoTxn]
    /\ pc' = [pc EXCEPT ![t] = "return"]
    /\ UNCHANGED <<held, expired, waiters, idle, out, made, dead>>

\* ... and when that fails too, _close(conn) and _give_back(None).
RollbackFails(t) ==
    /\ pc[t] = "unwind"
    /\ held[t] \in dead
    /\ dead' = dead \ {held[t]}
    /\ held' = [held EXCEPT ![t] = NoConn]
    /\ pc' = [pc EXCEPT ![t] = "return"]
    /\ UNCHANGED <<expired, waiters, idle, out, made, txn>>

\* Condition.notify(): one waiter, if there is one, leaves the wait list; one
\* that is still asleep wakes up.  `me` is the caller, whose borrow() ends.
NotifyOne(me) ==
    \/ /\ waiters = {}
       /\ pc' = [pc EXCEPT ![me] = "outside"]
       /\ UNCHANGED waiters
    \/ \E w \in waiters :
          /\ waiters' = waiters \ {w}
          /\ pc' = [pc EXCEPT ![me] = "outside", ![w] = "woken"]

\* Mutation: _give_back() notifies only when it has a connection to offer.
GiveBackNotifiesForConnOnly(t) ==
    /\ pc[t] = "return"
    /\ out' = out - 1
    /\ \/ /\ held[t] = NoConn
          /\ made' = made - 1
          /\ pc' = [pc EXCEPT ![t] = "outside"]
          /\ UNCHANGED <<idle, waiters>>
       \/ /\ held[t] # NoConn
          /\ idle' = idle \cup {held[t]}
          /\ NotifyOne(t)
          /\ UNCHANGED made
    /\ held' = [held EXCEPT ![t] = NoConn]
    /\ UNCHANGED <<expired, dead, txn>>

\* _give_back(conn), conn possibly None.
GiveBack(t) ==
    /\ pc[t] = "return"
    /\ out' = out - 1
    /\ \/ /\ held[t] = NoConn
          /\ made' = made - 1
          /\ UNCHANGED idle
       \/ /\ held[t] # NoConn
          /\ idle' = idle \cup {held[t]}
          /\ UNCHANGED made
    /\ held' = [held EXCEPT ![t] = NoConn]
    /\ NotifyOne(t)
    /\ UNCHANGED <<expired, dead, txn>>

-----------------------------------------------------------------------------

\* close(): drop and close every idle connection.
Close ==
    /\ idle' = {}
    /\ made' = made - Cardinality(idle)
    /\ dead' = dead \ idle
    /\ txn' = [c \in Conn |-> IF c \in idle THEN NoTxn ELSE txn[c]]
    /\ UNCHANGED <<pc, held, expired, waiters, out>>

\* The server drops a connection; an open transaction on it is gone.
ConnectionDies(c) ==
    /\ c \in (idle \cup Borrowed) \ dead
    /\ dead' = dead \cup {c}
    /\ txn' = [txn EXCEPT ![c] = NoTxn]
    /\ UNCHANGED <<pc, held, expired, waiters, idle, out, made>>

\* What the thread's own code does next; the scheduler lets every thread run.
ThreadStep(t) ==
    \/ TakeSlot(t) \/ Sleep(t) \/ Exhausted(t) \/ WaitTimesOut(t)
    \/ PingOk(t) \/ PingFails(t) \/ MakeOk(t) \/ MakeFails(t)
    \/ BodyEnds(t) \/ BodyRaises(t)
    \/ RollbackOk(t) \/ RollbackFails(t) \/ GiveBack(t)

Next ==
    \/ \E t \in Thread :
          \/ Enter(t) \/ DeadlinePasses(t) \/ BodyBegin(t) \/ BodyCommit(t)
          \/ ThreadStep(t)
    \/ Close
    \/ \E c \in Conn : ConnectionDies(c)

Spec == Init /\ [][Next]_vars

\* Threads are scheduled, clocks advance, and a request handler ends.
Fairness ==
    \A t \in Thread : WF_vars(ThreadStep(t)) /\ WF_vars(DeadlinePasses(t))

FairSpec == Spec /\ Fairness

-----------------------------------------------------------------------------
(* What the pool promises. *)

\* The two counters pool.py keeps by hand (_out, _made) agree with who really
\* holds a slot and with the connections that exist, on every error path of
\* borrow() and across close(); so no slot leaks and at most _size
\* connections ever exist.
Accounting ==
    /\ out = Cardinality(Holders)
    /\ made = Cardinality(idle) + out
    /\ made <= Size

\* A connection is in one place only: never borrowed by two threads, never
\* both idle and borrowed (which is what makes check_same_thread=False safe).
Exclusive ==
    /\ Borrowed \cap idle = {}
    /\ \A t, u \in Holders : t # u /\ held[t] # NoConn => held[t] # held[u]

\* A body never runs inside a transaction another request left open, however
\* that request ended: the rollback on an exceptional exit and the ping's
\* rollback on the next borrow together see to it.
CleanBody ==
    \A t \in Thread : pc[t] = "body" => txn[held[t]] \in {NoTxn, t}

\* No lost wakeup: while some thread sleeps in _take(), every free slot is
\* matched by a thread notify() has already woken.  One notify() per
\* _give_back() is enough although newcomers may barge in, and although a
\* notify() may be spent on a waiter that has already timed out.
NoLostWakeup ==
    Sleepers # {} => Size - out <= Cardinality(Notified)

\* From the outside: the connection each thread has between the ping or the
\* factory and _give_back(), and the connections with a transaction open.
LentTo == [t \in Thread |-> IF pc[t] \in {"body", "unwind", "return"} THEN held[t] ELSE NoConn]
Open == {c \in Conn : txn[c] # NoTxn}

Contract == INSTANCE ConnPool WITH Borrower <- Thread, lent <- LentTo, open <- Open

\* The pool keeps the contract of ConnPool: what borrow() hands over is nobody
\* else's and clean, and no path out of it takes back or touches another's.
KeepsContract == Contract!Spec

\* Every borrow() ends: with a body that ran, or with PoolExhausted or
\* PoolReconnectFailed.  It is the deadline that ensures it; newcomers may
\* take the slot a woken thread was called for any number of times.
BorrowEnds ==
    \A t \in Thread : pc[t] = "take" ~> pc[t] = "outside"
=============================================================================
