--------------------------- MODULE CriticalSender ---------------------------
(***************************************************************************)
(* The sender of a `critical` message type: the generated C++ class        *)
(* (ZmqAdapter/templates/sender_critical.tmpl; PyZmq/runtime/              *)
(* zmq_delivery.py) over delivery::BoundedQueue                            *)
(* (Compliance/runtime/harpia_delivery.h).                                 *)
(*                                                                         *)
(* send()/publish() stamps an Envelope with the next sequence number and   *)
(* pushes it on a bounded queue that rotates its oldest entry out when it  *)
(* is full; flush() moves the queue onto the socket, oldest first, and     *)
(* stops at the first failure.  The object is caller-synchronised, so only *)
(* the peer and the socket interleave with the steps of a flush().         *)
(*                                                                         *)
(* A message is its sequence number.  The ZeroMQ socket is external.  A    *)
(* PUB socket hands a frame to the subscribers that are connected and      *)
(* drops it when there is none.  A connecting PUSH socket takes frames     *)
(* without a peer too, up to its high-water mark, and hands them over in   *)
(* order once one is there, unless the connection is lost first.           *)
(***************************************************************************)
EXTENDS Integers, Sequences

CONSTANTS QueueCapacity,  \* the constructor's queue_capacity
          Pub,            \* TRUE: a PUB socket (event/stream), FALSE: PUSH
          MaxSeq          \* bound: messages stamped

ASSUME CapacityAssumption == QueueCapacity \in Nat
ASSUME PubAssumption      == Pub \in BOOLEAN
ASSUME BoundAssumption    == MaxSeq \in Nat

VARIABLES buf,        \* queue_.buf_: the queued sequence numbers, oldest first
          nextSeq,    \* next_seq_
          rotations,  \* queue_.rotations_
          audit,      \* the dropped_seq of each "queue_rotated" record, in order
          flushing,   \* a flush() is running
          wire,       \* history: what the socket accepted, in order
          peer,       \* a peer is connected
          received    \* history: what reaches the peer, in order

vars == <<buf, nextSeq, rotations, audit, flushing, wire, peer, received>>

\* BoundedQueue's constructor: capacity ? capacity : 1.
Capacity == IF QueueCapacity = 0 THEN 1 ELSE QueueCapacity

TypeOK ==
    /\ buf \in Seq(1..MaxSeq)
    /\ nextSeq \in 1..MaxSeq + 1
    /\ rotations \in Nat
    /\ audit \in Seq(1..MaxSeq)
    /\ flushing \in BOOLEAN
    /\ wire \in Seq(1..MaxSeq)
    /\ peer \in BOOLEAN
    /\ received \in Seq(1..MaxSeq)

Init ==
    /\ buf = <<>>
    /\ nextSeq = 1
    /\ rotations = 0
    /\ audit = <<>>
    /\ flushing = FALSE
    /\ wire = <<>>
    /\ peer = FALSE
    /\ received = <<>>

-----------------------------------------------------------------------------

\* Mutation: the newest queued envelope makes room, not the oldest.
PushDropsNewest(s) ==
    IF Len(buf) >= Capacity
    THEN /\ buf' = Append(SubSeq(buf, 1, Len(buf) - 1), s)
         /\ rotations' = rotations + 1
         /\ audit' = Append(audit, Head(buf))
    ELSE /\ buf' = Append(buf, s)
         /\ UNCHANGED <<rotations, audit>>

\* BoundedQueue::push().
Push(s) ==
    IF Len(buf) >= Capacity
    THEN /\ buf' = Append(Tail(buf), s)
         /\ rotations' = rotations + 1
         /\ audit' = Append(audit, Head(buf))
    ELSE /\ buf' = Append(buf, s)
         /\ UNCHANGED <<rotations, audit>>

\* send() / publish(): stamp and enqueue.  (A message that cannot be
\* serialized returns before next_seq_++ and changes nothing.)
Send ==
    /\ ~flushing
    /\ nextSeq <= MaxSeq
    /\ Push(nextSeq)
    /\ nextSeq' = nextSeq + 1
    /\ UNCHANGED <<flushing, wire, peer, received>>

\* flush() is called.
FlushBegin ==
    /\ ~flushing
    /\ flushing' = TRUE
    /\ UNCHANGED <<buf, nextSeq, rotations, audit, wire, peer, received>>

\* The socket takes the frame.  It reaches the peer if there is one; without a
\* peer PUB drops it, and PUSH holds it for a peer that may come.
SocketAccepts(s) ==
    /\ wire' = Append(wire, s)
    /\ \/ (peer \/ ~Pub) /\ received' = Append(received, s)
       \/ ~peer /\ received' = received

\* One turn of flush(): peek(), a send the socket accepts, pop().
FlushOne ==
    /\ flushing
    /\ buf # <<>>
    /\ SocketAccepts(Head(buf))
    /\ buf' = Tail(buf)
    /\ UNCHANGED <<nextSeq, rotations, audit, flushing, peer>>

\* Mutation: flush() pops first and then sends, so a refused frame is gone.
FlushFailsAfterPop ==
    /\ flushing
    /\ buf # <<>>
    /\ buf' = Tail(buf)
    /\ flushing' = FALSE
    /\ UNCHANGED <<nextSeq, rotations, audit, wire, peer, received>>

\* Mutation: flush() pops first and pushes a refused frame back.
FlushFailsRequeues ==
    /\ flushing
    /\ buf # <<>>
    /\ buf' = Append(Tail(buf), Head(buf))
    /\ flushing' = FALSE
    /\ UNCHANGED <<nextSeq, rotations, audit, wire, peer, received>>

\* A send that is refused (no peer, or the high-water mark) or throws ends
\* flush(); nothing is popped.
FlushFails ==
    /\ flushing
    /\ buf # <<>>
    /\ flushing' = FALSE
    /\ UNCHANGED <<buf, nextSeq, rotations, audit, wire, peer, received>>

\* flush() finds the queue empty.
FlushEnd ==
    /\ flushing
    /\ buf = <<>>
    /\ flushing' = FALSE
    /\ UNCHANGED <<buf, nextSeq, rotations, audit, wire, peer, received>>

\* The peer connects or goes away.
PeerChanges ==
    /\ peer' = ~peer
    /\ UNCHANGED <<buf, nextSeq, rotations, audit, flushing, wire, received>>

Next ==
    \/ Send \/ FlushBegin \/ FlushOne \/ FlushFails \/ FlushEnd
    \/ PeerChanges

Spec == Init /\ [][Next]_vars

-----------------------------------------------------------------------------
(* What the sender promises. *)

\* The queue never outgrows its capacity, however sends and failed flushes
\* alternate.
Bounded == Len(buf) <= Capacity

\* What is queued is always the newest messages stamped, without a hole and in
\* order: rotation takes from the old end only, and a failed flush() puts
\* nothing back out of order.
NewestQueued ==
    \A i \in 1..Len(buf) : buf[i] = nextSeq - 1 - Len(buf) + i

\* No silent loss inside the sender: every message stamped so far is in exactly
\* one of three places: still queued, accepted by the socket, or named in a
\* "queue_rotated" record (counted by rotations()).
Accounted ==
    /\ Len(buf) + Len(wire) + Len(audit) = nextSeq - 1
    /\ rotations = Len(audit)
    /\ \A s \in 1..nextSeq - 1 :
          \/ \E i \in 1..Len(buf) : buf[i] = s
          \/ \E i \in 1..Len(wire) : wire[i] = s
          \/ \E i \in 1..Len(audit) : audit[i] = s

\* Ordered delivery: the socket, and so the peer, sees strictly increasing
\* sequence numbers across any number of failed and repeated flush() calls.
WireInOrder ==
    /\ \A i, j \in 1..Len(wire) : i < j => wire[i] < wire[j]
    /\ \A i, j \in 1..Len(received) : i < j => received[i] < received[j]

\* sender_critical.tmpl: "A transient socket outage therefore costs latency,
\* not messages": what left the queue without a rotation record reached the
\* peer.
OutageCostsNoMessages == Len(received) = Len(wire)
=============================================================================
