------------------------------- MODULE MCZmq -------------------------------
(* Model-checking instance of the two ZeroMQ ends of one process, a critical *)
(* sender and a stream consumer, whose steps interleave.  MaxSeq is above    *)
(* twice the capacity, so that the queue fills, drains partly and fills      *)
(* again.  Every frame resets sinceAny and only usable ones reset sinceOk,   *)
(* so ReclaimAfter < StopDeadline lets either limit pass first: silence      *)
(* reclaims, undecodable frames alone leave it to the watchdog.  Both exceed *)
(* ReadTimeout, so that several reads fit in.                                *)
EXTENDS CriticalSender, Stream

ZmqInit == Init /\ StreamInit
ZmqNext ==
    \/ Next /\ UNCHANGED streamVars
    \/ StreamNext /\ UNCHANGED vars
ZmqSpec == ZmqInit /\ [][ZmqNext]_<<vars, streamVars>> /\ Fairness
=============================================================================
