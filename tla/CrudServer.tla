----------------------------- MODULE CrudServer -----------------------------
(***************************************************************************)
(* The handlers of a generated Python server on one message: REST          *)
(* (PyHttp/runtime/rest.py), SOAP (soap_endpoint.py) and gRPC (PyGrpc/     *)
(* runtime/grpc_service.py).  Each runs the gate, borrows a connection for *)
(* a `with` block, makes one DAO call in it and answers.  They differ in   *)
(* what an exception of the DAO does: REST lets it leave the block, so the *)
(* pool rolls back; SOAP and gRPC catch it inside, so the pool sees a      *)
(* normal exit.  One that SOAP raises outside its DAO call does leave it.  *)
(*                                                                         *)
(* The pool is ConnPool, the contract that PyPool implements; the gate's   *)
(* decision (AccessGate) is an arbitrary one.  The DAO call is its _tx():  *)
(* statements, of which the first takes SQLite's write lock, commit,       *)
(* publications.  DB-API does not say whether a commit() that raises has   *)
(* ended the transaction, and the model allows both.                       *)
(***************************************************************************)
EXTENDS Naturals, FiniteSets

CONSTANTS Request, Conn, NoConn, Size

ASSUME NoConnAssumption == NoConn \notin Conn

VARIABLES kind,    \* the protocol and the operation of each request
          stage,   \* where its handler is
          reply,   \* what it answers
          lent,    \* ConnPool: the connection it has borrowed
          open,    \* ConnPool: the connections with a transaction open
          inside,  \* the requests whose writes are in that transaction
          saved,   \* the requests whose writes have been committed
          late     \* history: those whose publication raised after that

serverVars == <<kind, stage, reply, lent, open, inside, saved, late>>

Pool == INSTANCE ConnPool WITH Borrower <- Request

\* "put" is create and update; what SOAP does not know is "unknown".
Kinds ==
    [via : {"rest"}, verb : {"put", "remove", "read"}]
    \cup [via : {"soap"}, verb : {"put", "remove", "read", "unknown"}]
    \cup [via : {"grpc"}, verb : {"put", "read"}]
Stages == {"new", "gate", "borrow", "body", "write", "fire", "leave", "unwind", "done"}
Replies == {"none", "refused", "unavailable", "bad", "missing", "ok", "failed"}

ServerTypeOK ==
    /\ kind \in [Request -> Kinds]
    /\ stage \in [Request -> Stages]
    /\ reply \in [Request -> Replies]
    /\ lent \in [Request -> Conn \cup {NoConn}]
    /\ open \subseteq Conn
    /\ inside \in [Conn -> SUBSET Request]
    /\ saved \subseteq Request
    /\ late \subseteq Request

ServerInit ==
    /\ kind \in [Request -> Kinds]
    /\ stage = [r \in Request |-> "new"]
    /\ reply = [r \in Request |-> "none"]
    /\ Pool!Init
    /\ inside = [c \in Conn |-> {}]
    /\ saved = {} /\ late = {}

Writes(r) == kind[r].verb \in {"put", "remove"}
Mine(r) == inside[lent[r]]
Goes(r, place) == stage' = [stage EXCEPT ![r] = place]
Replying(r, place, what) == Goes(r, place) /\ reply' = [reply EXCEPT ![r] = what]
Emptied(c) == inside' = [inside EXCEPT ![c] = {}]
Quiet == UNCHANGED <<kind, lent, open, inside, saved, late>>

-----------------------------------------------------------------------------
(* Before the `with` block. *)

Comes(r) == stage[r] = "new" /\ Goes(r, "gate") /\ UNCHANGED reply /\ Quiet

\* SOAP: the envelope, or the operation in it, does not parse: 400.
BadEnvelope(r) ==
    /\ stage[r] = "gate" /\ kind[r].via = "soap"
    /\ Replying(r, "done", "bad") /\ Quiet

Refuse(r) == stage[r] = "gate" /\ Replying(r, "done", "refused") /\ Quiet
Admit(r) == stage[r] = "gate" /\ Goes(r, "borrow") /\ UNCHANGED reply /\ Quiet

\* Mutation: a connection is handed over as its last borrower left it.
BorrowUncleaned(r) ==
    /\ stage[r] = "borrow"
    /\ \E c \in Conn \ Pool!Out : lent' = [lent EXCEPT ![r] = c]
    /\ Goes(r, "body")
    /\ UNCHANGED <<kind, reply, open, inside, saved, late>>

\* pool.borrow().
Borrow(r) ==
    /\ stage[r] = "borrow"
    /\ \E c \in Conn : Pool!Lend(r, c) /\ Emptied(c)
    /\ Goes(r, "body")
    /\ UNCHANGED <<kind, reply, saved, late>>

\* PoolExhausted or PoolReconnectFailed: 503, RESOURCE_EXHAUSTED, UNAVAILABLE.
BorrowFails(r) == stage[r] = "borrow" /\ Replying(r, "done", "unavailable") /\ Quiet

-----------------------------------------------------------------------------
(* Inside it: one DAO call. *)

\* REST and SOAP decode the message here; SOAP's dispatch falls through.
Unparsed(r) ==
    /\ stage[r] = "body"
    /\ kind[r].verb = "unknown" \/ (kind[r].verb = "put" /\ kind[r].via # "grpc")
    /\ Replying(r, "leave", "bad") /\ Quiet

\* read() and list() find their rows or none, and leave no transaction open.
ReadRow(r) ==
    /\ stage[r] = "body" /\ kind[r].verb = "read"
    /\ \E a \in {"ok", "missing"} : Replying(r, "leave", a)
    /\ Quiet

\* SOAP's get has read the row, and to_xml() raises outside the try: 500.
RenderRaises(r) ==
    /\ stage[r] = "body" /\ kind[r] = [via |-> "soap", verb |-> "read"]
    /\ Replying(r, "unwind", "failed") /\ Quiet

\* The first statement of a write takes the write lock.
Write(r) ==
    /\ stage[r] = "body" /\ Writes(r)
    /\ open \subseteq {lent[r]}
    /\ Pool!Begin(r)
    /\ inside' = [inside EXCEPT ![lent[r]] = @ \cup {r}]
    /\ Goes(r, "write")
    /\ UNCHANGED <<kind, reply, saved, late>>

\* What the client is told of it: SOAP's get and gRPC's pullByID say "not
\* found"; the others say 500, <ok>false</ok>, errorCode 1 or "list failed".
Told(r) ==
    IF kind[r].verb # "read" \/ kind[r].via = "rest" THEN {"failed"}
    ELSE IF kind[r].via = "soap" THEN {"missing"} ELSE {"missing", "failed"}

\* The DAO call raises.  REST lets the exception leave the block; SOAP and gRPC
\* catch it there.
Raise(r) ==
    /\ IF kind[r].via = "rest" THEN Goes(r, "unwind") ELSE Goes(r, "leave")
    /\ \E a \in Told(r) : reply' = [reply EXCEPT ![r] = a]
    /\ UNCHANGED <<kind, lent, saved>>

\* Mutation: a writer waits for the lock without a busy_timeout.
BusyWaits(r) ==
    /\ stage[r] = "body" /\ Writes(r)
    /\ FALSE
    /\ Raise(r) /\ UNCHANGED <<open, inside, late>>

\* Another transaction holds the write lock for longer than busy_timeout.
Busy(r) ==
    /\ stage[r] = "body" /\ Writes(r)
    /\ open \ {lent[r]} # {}
    /\ Raise(r)
    /\ UNCHANGED <<open, inside, late>>

\* A statement raises, and _tx() rolls back.
StatementRaises(r) ==
    /\ \/ stage[r] = "body" /\ kind[r].verb # "unknown"
       \/ stage[r] = "write"
    /\ Raise(r)
    /\ open' = open \ {lent[r]}
    /\ Emptied(lent[r])
    /\ UNCHANGED late

\* commit(), with everything that is in the connection's transaction.
Commit(r) ==
    /\ stage[r] = "write" /\ lent[r] \in open
    /\ Pool!End(r)
    /\ saved' = saved \cup Mine(r)
    /\ Emptied(lent[r])
    /\ Goes(r, "fire")
    /\ UNCHANGED <<kind, reply, late>>

\* commit() raises, outside the try of _tx(): nothing rolls back here.
CommitFails(r) ==
    /\ stage[r] = "write"
    /\ Raise(r)
    /\ \/ UNCHANGED <<open, inside>>
       \/ open' = open \ {lent[r]} /\ Emptied(lent[r])
    /\ UNCHANGED late

\* The publications after the commit, which only create() and update() make.
Fire(r) == stage[r] = "fire" /\ Replying(r, "leave", "ok") /\ Quiet
FireRaises(r) ==
    /\ stage[r] = "fire" /\ kind[r].verb = "put"
    /\ Raise(r)
    /\ late' = late \cup {r}
    /\ UNCHANGED <<open, inside>>

-----------------------------------------------------------------------------
(* The end of it. *)

\* A normal exit: the connection goes back as it is, and the answer goes out.
Leave(r) ==
    /\ stage[r] = "leave"
    /\ Pool!TakeBack(r) /\ open' = open
    /\ Goes(r, "done")
    /\ UNCHANGED <<kind, reply, inside, saved, late>>

\* Mutation: an exceptional exit is treated as a normal one.
UnwindAsLeave(r) ==
    /\ stage[r] = "unwind"
    /\ Pool!TakeBack(r) /\ open' = open
    /\ Goes(r, "done")
    /\ UNCHANGED <<kind, reply, inside, saved, late>>

\* An exception: the pool rolls back, or closes the connection, first.
Unwind(r) ==
    /\ stage[r] = "unwind"
    /\ Pool!TakeBack(r) /\ open' = open \ {lent[r]}
    /\ Emptied(lent[r])
    /\ Goes(r, "done")
    /\ UNCHANGED <<kind, reply, saved, late>>

\* pool.close(), or the server drops a connection.
Drop(c) ==
    /\ c \in open
    /\ Pool!Drop({c}) /\ Emptied(c)
    /\ UNCHANGED <<kind, stage, reply, saved, late>>

Deciding(r) == BadEnvelope(r) \/ Refuse(r) \/ Admit(r)
Borrowing(r) == Borrow(r) \/ BorrowFails(r)
Calling(r) == Unparsed(r) \/ ReadRow(r) \/ RenderRaises(r) \/ Write(r) \/ Busy(r)
Committing(r) == Commit(r) \/ CommitFails(r)
Firing(r) == Fire(r) \/ FireRaises(r)
Leaving(r) == Leave(r) \/ Unwind(r)

ServerNext ==
    \/ \E r \in Request : \/ Comes(r) \/ Deciding(r) \/ Borrowing(r) \/ Calling(r)
                          \/ StatementRaises(r) \/ Committing(r) \/ Firing(r)
                          \/ Leaving(r)
    \/ \E c \in Conn : Drop(c)

ServerSpec == ServerInit /\ [][ServerNext]_serverVars

\* The handler's thread runs; a borrow ends (PyPool!BorrowEnds), and so does a
\* statement's wait for the write lock (busy_timeout).
ServerFairness ==
    \A r \in Request :
        /\ WF_serverVars(Deciding(r)) /\ WF_serverVars(Borrowing(r))
        /\ WF_serverVars(Calling(r)) /\ WF_serverVars(Committing(r))
        /\ WF_serverVars(Firing(r)) /\ WF_serverVars(Leaving(r))

ServerFairSpec == ServerSpec /\ ServerFairness

-----------------------------------------------------------------------------
(* What the servers promise. *)

Truthful(r) ==
    /\ reply[r] = "ok" /\ Writes(r) => r \in saved
    /\ reply[r] = "failed" /\ r \in saved => r \in late
    /\ reply[r] \notin {"ok", "failed"} => r \notin saved

\* What the client is told is what has happened to its write, and stays so: "ok"
\* is committed, an error is not, then or ever, though its transaction may
\* have been left on a connection that others borrow and commit on; but for a
\* publication that raised after the commit.
AnswerTruthful == \A r \in Request : stage[r] = "done" => Truthful(r)

\* No transaction holds the writes of two requests, and one that outlives its
\* request is a SOAP or gRPC one whose commit failed, on an idle connection.
OwnTransaction ==
    \A c \in Conn : \A r \in inside[c] :
        /\ inside[c] = {r}
        /\ stage[r] = "done" =>
              /\ kind[r].via # "rest" /\ reply[r] = "failed"
              /\ c \notin Pool!Out

\* Every request is answered, though the write lock may be left behind on a
\* connection that nobody borrows any more.
Answered == \A r \in Request : stage[r] = "gate" ~> stage[r] = "done"
=============================================================================
