------------------------------- MODULE Stream -------------------------------
(***************************************************************************)
(* The consumer of a `stream` message type: the generated class            *)
(* <name>_stream (ZmqAdapter/templates/stream.tmpl): setup(), the timed    *)
(* read(), stop(), and the two teardowns that run inside the caller's      *)
(* calls: reclamation after reclaim_after_ms without any frame, and the    *)
(* watchdog after stop_deadline_ms without a usable message.               *)
(*                                                                         *)
(* The object is caller-synchronised; the clock and the publisher go on    *)
(* while read() waits in recv().  Time is in ticks; ages instead of time   *)
(* stamps keep the state finite: an age at its cap has passed every limit. *)
(***************************************************************************)
EXTENDS Naturals, Sequences

CONSTANTS StopDeadline,  \* config.stop_deadline_ms, in ticks
          ReclaimAfter,  \* config.reclaim_after_ms, in ticks
          ReadTimeout,   \* the timeout of a read, in ticks
          MaxQueue       \* bound: frames waiting in the socket

ASSUME TimesAssumption ==
    /\ StopDeadline \in Nat \ {0} /\ ReclaimAfter \in Nat /\ ReadTimeout \in Nat \ {0}
    /\ MaxQueue \in Nat

VARIABLES state,     \* state_
          open,      \* open_
          sock,      \* socket_: none, bare (alive, not connected), or wired
          sinceOk,   \* elapsed_ms(last_read_ok_)
          sinceAny,  \* elapsed_ms(last_activity_)
          waited,    \* ticks the read() under way has spent in recv()
          reading,   \* a read() is in recv()
          queue,     \* frames in the socket: usable, or undecodable
          ret        \* the status the last call returned

streamVars == <<state, open, sock, sinceOk, sinceAny, waited, reading, queue, ret>>

Frames == {"usable", "undecodable"}

StreamStatus == {"OK", "INVALID", "TIMEOUT", "STOPPED"}

\* Ages stop here: a read that started in time adds at most its timeout.
Cap == (IF StopDeadline > ReclaimAfter THEN StopDeadline ELSE ReclaimAfter)
          + ReadTimeout

StreamTypeOK ==
    /\ state \in StreamStatus \ {"TIMEOUT"}
    /\ open \in BOOLEAN
    /\ sock \in {"none", "bare", "wired"}
    /\ sinceOk \in 0..Cap
    /\ sinceAny \in 0..Cap
    /\ waited \in 0..ReadTimeout
    /\ reading \in BOOLEAN
    /\ queue \in Seq(Frames)
    /\ ret \in StreamStatus

StreamInit ==
    /\ state = "INVALID" /\ open = FALSE /\ sock = "none"
    /\ sinceOk = Cap /\ sinceAny = Cap   \* the clock's epoch
    /\ waited = 0 /\ reading = FALSE
    /\ queue = <<>>
    /\ ret = "INVALID"

-----------------------------------------------------------------------------

\* kill(): if open_, close the socket, with what is queued in it.
Kill ==
    /\ open' = FALSE
    /\ sock' = IF open THEN "none" ELSE sock
    /\ queue' = IF open THEN <<>> ELSE queue

\* setup() with a config that stream_config_valid() rejects.
SetupRejected ==
    /\ ~reading
    /\ ret' = "INVALID"
    /\ UNCHANGED <<state, open, sock, sinceOk, sinceAny, waited, reading, queue>>

\* setup(): a new socket replaces the old one, and both ages start again.
Setup ==
    /\ ~reading
    /\ open' = TRUE /\ sock' = "wired" /\ queue' = <<>>
    /\ state' = "OK" /\ ret' = "OK"
    /\ sinceOk' = 0 /\ sinceAny' = 0
    /\ UNCHANGED <<waited, reading>>

\* setup(): connect() throws (a malformed or unknown endpoint) after socket_
\* was replaced by a live one; open_, state_ and the two time stamps keep what
\* they said of the old one.  (config_ is replaced too; its limits are the same.)
SetupThrows ==
    /\ ~reading
    /\ sock' = "bare" /\ queue' = <<>>
    /\ UNCHANGED <<state, open, sinceOk, sinceAny, waited, reading, ret>>

\* The condition of reclaim_if_dead().
Dead == open /\ state = "OK" /\ sinceAny >= ReclaimAfter

\* read() on an object that is not set up, stopped, or torn down.
ReadLatched ==
    /\ ~reading
    /\ state # "OK"
    /\ ret' = state
    /\ UNCHANGED <<state, open, sock, sinceOk, sinceAny, waited, reading, queue>>

\* read() finds the connection dead or the watchdog due, and tears it down.
ReadTearsDown ==
    /\ ~reading
    /\ state = "OK"
    /\ Dead \/ sinceOk >= StopDeadline
    /\ Kill
    /\ state' = "INVALID" /\ ret' = "INVALID"
    /\ UNCHANGED <<sinceOk, sinceAny, waited, reading>>

\* Mutation: the watchdog is forgotten, only reclamation is checked.
ReadWaitsUnwatched ==
    /\ ~reading
    /\ state = "OK"
    /\ ~Dead
    /\ reading' = TRUE /\ waited' = 0
    /\ UNCHANGED <<state, open, sock, sinceOk, sinceAny, queue, ret>>

\* read() sets RCVTIMEO and waits in recv().
ReadWaits ==
    /\ ~reading
    /\ state = "OK"
    /\ ~Dead /\ sinceOk < StopDeadline
    /\ reading' = TRUE /\ waited' = 0
    /\ UNCHANGED <<state, open, sock, sinceOk, sinceAny, queue, ret>>

\* recv() returns a frame; it is liveness even if it does not decode.
ReadFrame ==
    /\ reading
    /\ queue # <<>>
    /\ sinceAny' = 0
    /\ sinceOk' = IF Head(queue) = "usable" THEN 0 ELSE sinceOk
    /\ ret' = IF Head(queue) = "usable" THEN "OK" ELSE "INVALID"
    /\ queue' = Tail(queue)
    /\ reading' = FALSE
    /\ UNCHANGED <<state, open, sock, waited>>

\* recv() times out.
ReadTimesOut ==
    /\ reading
    /\ queue = <<>>
    /\ waited = ReadTimeout
    /\ ret' = "TIMEOUT"
    /\ reading' = FALSE
    /\ UNCHANGED <<state, open, sock, sinceOk, sinceAny, waited, queue>>

\* Mutation: stop() only changes the state; the socket stays with the object.
StopKeepsSocket ==
    /\ ~reading
    /\ state' = IF Dead \/ state = "INVALID" THEN "INVALID" ELSE "STOPPED"
    /\ ret' = "STOPPED"
    /\ UNCHANGED <<open, sock, queue, sinceOk, sinceAny, waited, reading>>

\* stop(): reclaim_if_dead(), kill(), and STOPPED unless INVALID is latched.
Stop ==
    /\ ~reading
    /\ Kill
    /\ state' = IF Dead \/ state = "INVALID" THEN "INVALID" ELSE "STOPPED"
    /\ ret' = "STOPPED"
    /\ UNCHANGED <<sinceOk, sinceAny, waited, reading>>

\* A frame arrives on a connected socket.
Arrive ==
    /\ sock = "wired"
    /\ Len(queue) < MaxQueue
    /\ \E f \in Frames : queue' = Append(queue, f)
    /\ UNCHANGED <<state, open, sock, sinceOk, sinceAny, waited, reading, ret>>

\* One tick.  recv() returns at its timeout, and at once when there is a frame.
Tick ==
    /\ reading => waited < ReadTimeout /\ queue = <<>>
    /\ sinceOk' = IF sinceOk < Cap THEN sinceOk + 1 ELSE Cap
    /\ sinceAny' = IF sinceAny < Cap THEN sinceAny + 1 ELSE Cap
    /\ waited' = IF reading THEN waited + 1 ELSE waited
    /\ UNCHANGED <<state, open, sock, reading, queue, ret>>

Read == ReadLatched \/ ReadTearsDown \/ ReadWaits \/ ReadFrame \/ ReadTimesOut

StreamNext ==
    \/ SetupRejected \/ Setup \/ SetupThrows \/ Read \/ Stop
    \/ Arrive \/ Tick

StreamSpec == StreamInit /\ [][StreamNext]_streamVars

\* The caller polls, recv() returns, and time goes on whatever the caller and
\* the publisher do (it is not a step that anyone schedules).
Fairness ==
    /\ WF_streamVars(ReadLatched \/ ReadTearsDown \/ ReadWaits)
    /\ WF_streamVars(ReadFrame)
    /\ WF_streamVars(ReadTimesOut)
    /\ SF_streamVars(Tick)

FairStreamSpec == StreamSpec /\ Fairness

-----------------------------------------------------------------------------
(* What the stream promises. *)

\* A connection that was stopped, reclaimed or killed is released, and read()
\* never reaches for a closed socket, through any sequence of calls.  A socket
\* that never connected is the exception: setup() throwing on an object that is
\* not in use leaves one that kill() skips, until the next setup() or the end of
\* the object; one that throws on a live stream leaves it in the stream's place.
SocketReleased ==
    /\ open <=> state = "OK"
    /\ sock = "wired" => open
    /\ open => sock # "none"

\* read() delivers only from a live connection: one that is connected, had a
\* usable message (or its setup) within the watchdog's deadline and any frame
\* within the reclamation window, give or take the read's own timeout.
FreshRead ==
    [][reading /\ ~reading' /\ ret' = "OK" =>
          /\ sock = "wired"
          /\ sinceOk < StopDeadline + ReadTimeout
          /\ sinceAny < ReclaimAfter + ReadTimeout]_streamVars

\* A polled stream that stops yielding usable messages is torn down, even if
\* undecodable frames keep it busy.
WatchdogFires == []<>(ret = "OK") \/ []<>(state # "OK")
=============================================================================
