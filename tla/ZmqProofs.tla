------------------------------ MODULE ZmqProofs ------------------------------
(***************************************************************************)
(* Proofs about the two ZeroMQ components that keep state of their own:    *)
(* CriticalSender, for every queue capacity (0 included), both socket      *)
(* kinds and any number of messages, and Stream, for every deadline,       *)
(* reclamation window (0 included) and read timeout.                       *)
(*                                                                         *)
(* The sender's inductive invariant places every sequence number relative  *)
(* to the oldest queued one: the queue is the consecutive run from Oldest  *)
(* to nextSeq - 1, and everything below Oldest is on the wire or audited.  *)
(* The stream's says how old a read that waits can have become.            *)
(***************************************************************************)
EXTENDS CriticalSender, Stream, TLAPS

-----------------------------------------------------------------------------
(* The critical sender. *)

\* The sequence number at the front of the queue, or the next one to be
\* stamped when the queue is empty.
Oldest == nextSeq - Len(buf)

\* Everything that has left the queue is older than what is in it, and is on
\* the wire or in the audit trail.
LeftInOrder ==
    /\ Oldest >= 1
    /\ \A i \in 1..Len(wire) : wire[i] < Oldest
    /\ \A i \in 1..Len(audit) : audit[i] < Oldest
    /\ \A i \in 1..Len(received) : received[i] < Oldest
    /\ \A s \in 1..Oldest - 1 :
          \/ \E i \in 1..Len(wire) : wire[i] = s
          \/ \E i \in 1..Len(audit) : audit[i] = s

Counted ==
    /\ Len(buf) + Len(wire) + Len(audit) = nextSeq - 1
    /\ rotations = Len(audit)

IInv ==
    TypeOK /\ Bounded /\ NewestQueued /\ LeftInOrder /\ Counted /\ WireInOrder

-----------------------------------------------------------------------------

\* What Append does to length and elements.
LEMMA AppendFacts ==
    ASSUME NEW S, NEW q \in Seq(S), NEW x \in S
    PROVE  /\ Append(q, x) \in Seq(S)
           /\ Len(Append(q, x)) = Len(q) + 1
           /\ Len(q) \in Nat
           /\ \A i \in 1..Len(q) : Append(q, x)[i] = q[i]
           /\ Append(q, x)[Len(q) + 1] = x
  OBVIOUS

\* What Head and Tail do to a nonempty sequence.
LEMMA TailFacts ==
    ASSUME NEW S, NEW q \in Seq(S), q # <<>>
    PROVE  /\ Tail(q) \in Seq(S)
           /\ Head(q) \in S
           /\ Head(q) = q[1]
           /\ Len(q) \in Nat \ {0}
           /\ Len(Tail(q)) = Len(q) - 1
           /\ \A i \in 1..Len(q) - 1 : Tail(q)[i] = q[i + 1]
  OBVIOUS

\* Appending an x above everything in a sequence (of n numbers) keeps its
\* elements below x + 1.
LEMMA ExtendBelow ==
    ASSUME NEW n \in Nat, NEW f, NEW g, NEW x \in Int,
           \A i \in 1..n : f[i] \in Int /\ f[i] < x,
           \A i \in 1..n : g[i] = f[i],
           g[n + 1] = x
    PROVE  \A i \in 1..n + 1 : g[i] < x + 1
  <1> TAKE i \in 1..n + 1
  <1>1. CASE i \in 1..n
    BY <1>1
  <1>2. CASE i = n + 1
    BY <1>2
  <1> QED BY <1>1, <1>2

\* ... and keeps it sorted.
LEMMA ExtendSorted ==
    ASSUME NEW n \in Nat, NEW f, NEW g, NEW x \in Int,
           \A i \in 1..n : f[i] \in Int /\ f[i] < x,
           \A i \in 1..n : g[i] = f[i],
           g[n + 1] = x,
           \A i, j \in 1..n : i < j => f[i] < f[j]
    PROVE  \A i, j \in 1..n + 1 : i < j => g[i] < g[j]
  <1> SUFFICES ASSUME NEW i \in 1..n + 1, NEW j \in 1..n + 1, i < j
               PROVE  g[i] < g[j]
    OBVIOUS
  <1>1. i \in 1..n
    OBVIOUS
  <1>2. CASE j \in 1..n
    BY <1>1, <1>2
  <1>3. CASE j = n + 1
    BY <1>1, <1>3
  <1> QED BY <1>2, <1>3

\* The elements of a sequence of numbers are integers.
LEMMA ElementsInt ==
    ASSUME NEW q \in Seq(1..MaxSeq)
    PROVE  /\ Len(q) \in Nat
           /\ \A i \in 1..Len(q) : q[i] \in Int
  BY BoundAssumption

\* The capacity in force is at least 1, even for queue_capacity = 0.
LEMMA CapacityPositive == Capacity \in Nat \ {0}
  BY CapacityAssumption DEF Capacity

\* The empty sender satisfies the invariant.
LEMMA InitIInv == Init => IInv
  <1> SUFFICES ASSUME Init PROVE IInv
    OBVIOUS
  <1> USE BoundAssumption, CapacityPositive
  <1>1. Len(buf) = 0 /\ Len(wire) = 0 /\ Len(audit) = 0 /\ Len(received) = 0
    BY DEF Init
  <1>2. 1..0 = {} /\ Oldest = 1
    BY <1>1 DEF Init, Oldest
  <1>3. TypeOK
    <2>1. <<>> \in Seq(1..MaxSeq) /\ 1 \in 1..MaxSeq + 1
      OBVIOUS
    <2> QED BY <2>1 DEF Init, TypeOK
  <1>4. Bounded /\ NewestQueued /\ Counted /\ WireInOrder
    BY <1>1, <1>2 DEF Init, Bounded, NewestQueued, Counted, WireInOrder
  <1>5. LeftInOrder
    BY <1>1, <1>2 DEF LeftInOrder
  <1> QED BY <1>3, <1>4, <1>5 DEF IInv

\* send() keeps the invariant: a push into a queue with room.
LEMMA SendRoom ==
    ASSUME IInv, Send, Len(buf) < Capacity PROVE IInv'
  <1> USE BoundAssumption, CapacityPositive
  <1> DEFINE S == 1..MaxSeq
  <1>1. /\ buf' = Append(buf, nextSeq)
        /\ nextSeq' = nextSeq + 1
        /\ UNCHANGED <<rotations, audit, flushing, wire, peer, received>>
        /\ nextSeq \in S
        /\ Len(buf) \in Nat
    BY DEF Send, Push, IInv, TypeOK
  <1>2. TypeOK'
    BY <1>1 DEF IInv, TypeOK
  <1>3. Len(buf') = Len(buf) + 1
    BY <1>1, AppendFacts DEF IInv, TypeOK
  <1>4. \A i \in 1..Len(buf) : buf'[i] = buf[i]
    BY <1>1, AppendFacts DEF IInv, TypeOK
  <1>5. buf'[Len(buf) + 1] = nextSeq
    BY <1>1, AppendFacts DEF IInv, TypeOK
  <1>6. Oldest' = Oldest
    BY <1>1, <1>3 DEF Oldest
  <1>7. Bounded'
    BY <1>1, <1>3 DEF Bounded
  <1>8. NewestQueued'
    BY <1>1, <1>3, <1>4, <1>5 DEF NewestQueued, IInv
  <1>9. LeftInOrder' /\ WireInOrder'
    BY <1>1, <1>6 DEF LeftInOrder, WireInOrder, IInv
  <1>10. Counted'
    BY <1>1, <1>3 DEF Counted, IInv, TypeOK
  <1> QED BY <1>2, <1>7, <1>8, <1>9, <1>10 DEF IInv

\* send() keeps the invariant: a push that rotates the oldest out.
LEMMA SendRotates ==
    ASSUME IInv, Send, Len(buf) >= Capacity PROVE IInv'
  <1> USE BoundAssumption, CapacityPositive
  <1> DEFINE S == 1..MaxSeq
  <1>1. /\ buf' = Append(Tail(buf), nextSeq)
        /\ nextSeq' = nextSeq + 1
        /\ rotations' = rotations + 1
        /\ audit' = Append(audit, Head(buf))
        /\ UNCHANGED <<flushing, wire, peer, received>>
        /\ nextSeq \in S
    BY DEF Send, Push, IInv, TypeOK
  <1>2. buf # <<>> /\ Len(buf) \in Nat \ {0}
    BY DEF IInv, TypeOK
  <1>3. /\ Tail(buf) \in Seq(S)
        /\ Head(buf) \in S
        /\ Head(buf) = buf[1]
        /\ Len(Tail(buf)) = Len(buf) - 1
        /\ \A i \in 1..Len(buf) - 1 : Tail(buf)[i] = buf[i + 1]
    BY <1>2, TailFacts DEF IInv, TypeOK
  <1>4. Head(buf) = Oldest
    BY <1>2, <1>3 DEF IInv, NewestQueued, Oldest, TypeOK
  <1>5. /\ buf' \in Seq(S)
        /\ Len(buf') = Len(buf)
        /\ \A i \in 1..Len(buf) - 1 : buf'[i] = buf[i + 1]
        /\ buf'[Len(buf)] = nextSeq
    BY <1>1, <1>2, <1>3, AppendFacts
  <1>6. /\ audit' \in Seq(S)
        /\ Len(audit') = Len(audit) + 1
        /\ Len(audit) \in Nat
        /\ \A i \in 1..Len(audit) : audit'[i] = audit[i]
        /\ audit'[Len(audit) + 1] = Oldest
    BY <1>1, <1>3, <1>4, AppendFacts DEF IInv, TypeOK
  <1>7. Oldest' = Oldest + 1 /\ Oldest \in Nat
    BY <1>1, <1>2, <1>5 DEF Oldest, IInv, TypeOK, LeftInOrder
  <1>8. TypeOK'
    BY <1>1, <1>5, <1>6 DEF IInv, TypeOK
  <1>9. Bounded'
    BY <1>5 DEF Bounded, IInv
  <1>10. NewestQueued'
    <2> SUFFICES ASSUME NEW i \in 1..Len(buf)
                 PROVE  buf'[i] = nextSeq' - 1 - Len(buf) + i
      BY <1>5 DEF NewestQueued
    <2>1. CASE i = Len(buf)
      BY <2>1, <1>1, <1>2, <1>5
    <2>2. CASE i # Len(buf)
      <3>1. i \in 1..Len(buf) - 1 /\ i + 1 \in 1..Len(buf)
        BY <2>2, <1>2
      <3>2. buf[i + 1] = nextSeq - 1 - Len(buf) + (i + 1)
        BY <3>1 DEF NewestQueued, IInv
      <3> QED BY <3>1, <3>2, <1>1, <1>2, <1>5
    <2> QED BY <2>1, <2>2
  <1>11. LeftInOrder'
    <2>a. /\ \A i \in 1..Len(wire) : wire[i] \in Int /\ wire[i] < Oldest
          /\ \A i \in 1..Len(received) : received[i] \in Int /\ received[i] < Oldest
          /\ \A i \in 1..Len(audit) : audit[i] \in Int /\ audit[i] < Oldest
      BY ElementsInt DEF LeftInOrder, IInv, TypeOK
    <2>1. /\ Oldest' >= 1
          /\ \A i \in 1..Len(wire') : wire'[i] < Oldest'
          /\ \A i \in 1..Len(received') : received'[i] < Oldest'
      BY <2>a, <1>1, <1>7
    <2>2. \A i \in 1..Len(audit') : audit'[i] < Oldest'
      <3>1. \A i \in 1..Len(audit) + 1 : audit'[i] < Oldest + 1
        BY ONLY <2>a, <1>6, <1>7, ExtendBelow
      <3> QED BY <3>1, <1>6, <1>7
    <2>3. ASSUME NEW s \in 1..Oldest' - 1
          PROVE  \/ \E i \in 1..Len(wire') : wire'[i] = s
                 \/ \E i \in 1..Len(audit') : audit'[i] = s
      <3>1. CASE s = Oldest
        BY <3>1, <1>6
      <3>2. CASE s # Oldest
        <4>1. s \in 1..Oldest - 1
          BY <3>2, <1>7
        <4>2. \/ \E i \in 1..Len(wire) : wire[i] = s
              \/ \E i \in 1..Len(audit) : audit[i] = s
          BY <4>1 DEF LeftInOrder, IInv
        <4>3. (\E i \in 1..Len(audit) : audit[i] = s)
                => \E i \in 1..Len(audit) + 1 : audit'[i] = s
          BY <1>6
        <4> QED BY <4>2, <4>3, <1>1, <1>6
      <3> QED BY <3>1, <3>2
    <2> QED BY <2>1, <2>2, <2>3 DEF LeftInOrder
  <1>12. Counted'
    BY <1>1, <1>2, <1>5, <1>6 DEF Counted, IInv, TypeOK
  <1>13. WireInOrder'
    BY <1>1 DEF WireInOrder, IInv
  <1> QED BY <1>8, <1>9, <1>10, <1>11, <1>12, <1>13 DEF IInv

\* One accepted frame of flush() keeps the invariant.
LEMMA FlushOneIInv == ASSUME IInv, FlushOne PROVE IInv'
  <1> USE BoundAssumption, CapacityPositive
  <1> DEFINE S == 1..MaxSeq
  <1>1. /\ buf' = Tail(buf)
        /\ wire' = Append(wire, Head(buf))
        /\ received' = Append(received, Head(buf)) \/ received' = received
        /\ UNCHANGED <<nextSeq, rotations, audit, flushing, peer>>
    BY DEF FlushOne, SocketAccepts
  <1>2. /\ buf' \in Seq(S)
        /\ Head(buf) \in S
        /\ Head(buf) = buf[1]
        /\ Len(buf) \in Nat \ {0}
        /\ Len(buf') = Len(buf) - 1
        /\ \A i \in 1..Len(buf) - 1 : buf'[i] = buf[i + 1]
    BY <1>1, TailFacts DEF FlushOne, IInv, TypeOK
  <1>3. Head(buf) = Oldest /\ Oldest' = Oldest + 1 /\ Oldest \in Nat
    BY <1>1, <1>2 DEF IInv, NewestQueued, Oldest, TypeOK
  <1>4. /\ wire' \in Seq(S)
        /\ Len(wire') = Len(wire) + 1
        /\ Len(wire) \in Nat
        /\ \A i \in 1..Len(wire) : wire'[i] = wire[i]
        /\ wire'[Len(wire) + 1] = Oldest
    BY <1>1, <1>2, <1>3, AppendFacts DEF IInv, TypeOK
  <1>5. /\ received' \in Seq(S)
        /\ \/ received' = received
           \/ /\ Len(received') = Len(received) + 1
              /\ Len(received) \in Nat
              /\ \A i \in 1..Len(received) : received'[i] = received[i]
              /\ received'[Len(received) + 1] = Oldest
    <2>1. received \in Seq(S)
      BY DEF IInv, TypeOK
    <2>2. CASE received' = Append(received, Head(buf))
      BY <2>1, <2>2, <1>2, <1>3, AppendFacts
    <2>3. CASE received' = received
      BY <2>1, <2>3
    <2> QED BY <1>1, <2>2, <2>3
  <1>6. TypeOK'
    <2>1. /\ nextSeq' \in 1..MaxSeq + 1 /\ rotations' \in Nat
          /\ audit' \in Seq(S) /\ flushing' \in BOOLEAN /\ peer' \in BOOLEAN
      BY <1>1 DEF IInv, TypeOK
    <2> QED BY <2>1, <1>2, <1>4, <1>5 DEF TypeOK
  <1>7. Bounded'
    BY <1>2 DEF Bounded, IInv
  <1>8. NewestQueued'
    <2> SUFFICES ASSUME NEW i \in 1..Len(buf) - 1
                 PROVE  buf'[i] = nextSeq - 1 - (Len(buf) - 1) + i
      BY <1>1, <1>2 DEF NewestQueued
    <2>1. i + 1 \in 1..Len(buf)
      BY <1>2
    <2>2. buf[i + 1] = nextSeq - 1 - Len(buf) + (i + 1)
      BY <2>1 DEF NewestQueued, IInv
    <2> QED BY <2>2, <1>2 DEF IInv, TypeOK
  <1>a. /\ \A i \in 1..Len(wire) : wire[i] \in Int /\ wire[i] < Oldest
        /\ \A i \in 1..Len(received) : received[i] \in Int /\ received[i] < Oldest
        /\ \A i \in 1..Len(audit) : audit[i] \in Int /\ audit[i] < Oldest
    BY ElementsInt DEF LeftInOrder, IInv, TypeOK
  <1>c. /\ \A i \in 1..Len(wire) + 1 : wire'[i] < Oldest + 1
        /\ \A i, j \in 1..Len(wire) + 1 : i < j => wire'[i] < wire'[j]
    <2>1. \A i, j \in 1..Len(wire) : i < j => wire[i] < wire[j]
      BY DEF WireInOrder, IInv
    <2>2. \A i \in 1..Len(wire) + 1 : wire'[i] < Oldest + 1
      BY ONLY <1>a, <1>3, <1>4, ExtendBelow
    <2>3. \A i, j \in 1..Len(wire) + 1 : i < j => wire'[i] < wire'[j]
      BY ONLY <2>1, <1>a, <1>3, <1>4, ExtendSorted
    <2> QED BY <2>2, <2>3
  <1>d. ASSUME received' # received
        PROVE  /\ \A i \in 1..Len(received) + 1 : received'[i] < Oldest + 1
               /\ \A i, j \in 1..Len(received) + 1 :
                     i < j => received'[i] < received'[j]
    <2>1. \A i, j \in 1..Len(received) : i < j => received[i] < received[j]
      BY DEF WireInOrder, IInv
    <2>2. /\ Len(received) \in Nat
          /\ \A i \in 1..Len(received) : received'[i] = received[i]
          /\ received'[Len(received) + 1] = Oldest
      BY <1>5, <1>d
    <2>a. \A i \in 1..Len(received) : received[i] \in Int /\ received[i] < Oldest
      BY <1>a
    <2>b. Oldest \in Int
      BY <1>3
    <2>3. \A i \in 1..Len(received) + 1 : received'[i] < Oldest + 1
      BY ONLY <2>a, <2>b, <2>2, ExtendBelow
    <2>4. \A i, j \in 1..Len(received) + 1 : i < j => received'[i] < received'[j]
      BY ONLY <2>1, <2>a, <2>b, <2>2, ExtendSorted
    <2> QED BY <2>3, <2>4
  <1>9. LeftInOrder'
    <2>1. Oldest' >= 1 /\ \A i \in 1..Len(audit') : audit'[i] < Oldest'
      BY <1>a, <1>1, <1>3
    <2>2. \A i \in 1..Len(wire') : wire'[i] < Oldest'
      BY <1>c, <1>3, <1>4
    <2>3. \A i \in 1..Len(received') : received'[i] < Oldest'
      <3>1. CASE received' = received
        BY <3>1, <1>a, <1>3
      <3>2. CASE received' # received
        BY <3>2, <1>d, <1>3, <1>5
      <3> QED BY <3>1, <3>2
    <2>4. ASSUME NEW s \in 1..Oldest' - 1
          PROVE  \/ \E i \in 1..Len(wire') : wire'[i] = s
                 \/ \E i \in 1..Len(audit') : audit'[i] = s
      <3>1. CASE s = Oldest
        BY <3>1, <1>4
      <3>2. CASE s # Oldest
        <4>1. s \in 1..Oldest - 1
          BY <3>2, <1>3
        <4>2. \/ \E i \in 1..Len(wire) : wire[i] = s
              \/ \E i \in 1..Len(audit) : audit[i] = s
          BY <4>1 DEF LeftInOrder, IInv
        <4>3. (\E i \in 1..Len(wire) : wire[i] = s)
                => \E i \in 1..Len(wire) + 1 : wire'[i] = s
          BY <1>4
        <4> QED BY <4>2, <4>3, <1>1, <1>4
      <3> QED BY <3>1, <3>2
    <2> QED BY <2>1, <2>2, <2>3, <2>4 DEF LeftInOrder
  <1>10. Counted'
    BY <1>1, <1>2, <1>4 DEF Counted, IInv, TypeOK
  <1>11. WireInOrder'
    <2>1. \A i, j \in 1..Len(wire') : i < j => wire'[i] < wire'[j]
      BY <1>c, <1>4
    <2>2. CASE received' = received
      BY <2>1, <2>2 DEF WireInOrder, IInv
    <2>3. CASE received' # received
      <3>1. \A i, j \in 1..Len(received') : i < j => received'[i] < received'[j]
        BY <2>3, <1>d, <1>5
      <3> QED BY <2>1, <3>1 DEF WireInOrder
    <2> QED BY <2>2, <2>3
  <1> QED BY <1>6, <1>7, <1>8, <1>9, <1>10, <1>11 DEF IInv

\* Every step keeps the invariant.
LEMMA NextIInv == IInv /\ [Next]_vars => IInv'
  <1> SUFFICES ASSUME IInv, [Next]_vars PROVE IInv'
    OBVIOUS
  <1>1. CASE Send
    <2>1. Len(buf) \in Nat
      BY DEF IInv, TypeOK
    <2> QED BY <1>1, <2>1, CapacityPositive, SendRoom, SendRotates
  <1>2. CASE FlushOne
    BY <1>2, FlushOneIInv
  <1>3. CASE FlushBegin \/ FlushFails \/ FlushEnd \/ PeerChanges \/ UNCHANGED vars
    BY <1>3 DEF FlushBegin, FlushFails, FlushEnd, PeerChanges, vars, IInv,
                TypeOK, Bounded, NewestQueued, LeftInOrder, Counted,
                WireInOrder, Oldest
  <1> QED BY <1>1, <1>2, <1>3 DEF Next

\* The invariant holds throughout.
LEMMA Invariance == Spec => []IInv
  BY InitIInv, NextIInv, PTL DEF Spec

-----------------------------------------------------------------------------

\* The sender's state is well-typed: sequence numbers stay in range.
THEOREM TypeCorrect == Spec => []TypeOK
  <1>1. IInv => TypeOK
    BY DEF IInv
  <1> QED BY <1>1, Invariance, PTL

\* The queue never outgrows its capacity.
THEOREM BoundedHolds == Spec => []Bounded
  <1>1. IInv => Bounded
    BY DEF IInv
  <1> QED BY <1>1, Invariance, PTL

\* The queue holds the newest messages, consecutive and in order.
THEOREM NewestQueuedHolds == Spec => []NewestQueued
  <1>1. IInv => NewestQueued
    BY DEF IInv
  <1> QED BY <1>1, Invariance, PTL

\* No message leaves the sender's books: queued, on the wire, or audited.
THEOREM AccountedHolds == Spec => []Accounted
  <1>1. IInv => Accounted
    <2> SUFFICES ASSUME IInv, NEW s \in 1..nextSeq - 1
                 PROVE  \/ \E i \in 1..Len(buf) : buf[i] = s
                        \/ \E i \in 1..Len(wire) : wire[i] = s
                        \/ \E i \in 1..Len(audit) : audit[i] = s
      BY DEF IInv, Counted, Accounted
    <2>1. Len(buf) \in Nat /\ nextSeq \in Nat
      BY BoundAssumption DEF IInv, TypeOK
    <2>2. CASE s < Oldest
      BY <2>1, <2>2 DEF IInv, LeftInOrder, Oldest
    <2>3. CASE s >= Oldest
      <3> DEFINE i == s - Oldest + 1
      <3>1. i \in 1..Len(buf)
        BY <2>1, <2>3 DEF Oldest
      <3>2. buf[i] = s
        BY <2>1, <3>1 DEF IInv, NewestQueued, Oldest
      <3> QED BY <3>1, <3>2
    <2> QED BY <2>1, <2>2, <2>3 DEF Oldest
  <1> QED BY <1>1, Invariance, PTL

\* The socket and the peer see strictly increasing sequence numbers.
THEOREM WireInOrderHolds == Spec => []WireInOrder
  <1>1. IInv => WireInOrder
    BY DEF IInv
  <1> QED BY <1>1, Invariance, PTL

-----------------------------------------------------------------------------
(* The stream consumer. *)

\* A read() that waits in recv() began inside both limits, on an open stream,
\* and the ages have grown by no more than the time it has waited.
WaitingInTime ==
    reading =>
        /\ state = "OK"
        /\ sinceOk < StopDeadline + waited
        /\ sinceAny < ReclaimAfter + waited

\* Frames are only in a socket that is connected.
QueueWired == queue # <<>> => sock = "wired"

StreamInv == StreamTypeOK /\ SocketReleased /\ WaitingInTime /\ QueueWired

-----------------------------------------------------------------------------

\* The cap on ages is past both limits.
LEMMA CapFacts ==
    /\ Cap \in Nat /\ Cap >= StopDeadline + ReadTimeout
    /\ Cap >= ReclaimAfter + ReadTimeout
  BY TimesAssumption DEF Cap

\* A stream that was never set up satisfies the invariant.
LEMMA InitStream == StreamInit => StreamInv
  <1> SUFFICES ASSUME StreamInit PROVE StreamInv
    OBVIOUS
  <1>1. <<>> \in Seq(Frames)
    OBVIOUS
  <1>2. Cap \in 0..Cap /\ 0 \in 0..ReadTimeout
    BY CapFacts, TimesAssumption
  <1>3. StreamTypeOK
    BY <1>1, <1>2 DEF StreamInit, StreamTypeOK, StreamStatus
  <1>4. SocketReleased /\ WaitingInTime /\ QueueWired
    BY DEF StreamInit, SocketReleased, WaitingInTime, QueueWired
  <1> QED BY <1>3, <1>4 DEF StreamInv

\* Every step keeps the invariant.
LEMMA NextStream == StreamInv /\ [StreamNext]_streamVars => StreamInv'
  <1> SUFFICES ASSUME StreamInv, [StreamNext]_streamVars PROVE StreamInv'
    OBVIOUS
  <1> USE CapFacts, TimesAssumption
      DEF StreamInv, StreamTypeOK, SocketReleased, WaitingInTime,
          QueueWired, StreamStatus
  <1>0. <<>> \in Seq(Frames)
    OBVIOUS
  <1>1. CASE SetupRejected \/ ReadLatched
    <2>1. ret' \in StreamStatus
      BY <1>1 DEF SetupRejected, ReadLatched
    <2>2. UNCHANGED <<state, open, sock, sinceOk, sinceAny, waited, reading, queue>>
      BY <1>1 DEF SetupRejected, ReadLatched
    <2> QED BY <2>1, <2>2
  <1>2. CASE Setup
    BY <1>0, <1>2 DEF Setup
  <1>11. CASE SetupThrows
    BY <1>0, <1>11 DEF SetupThrows
  <1>3. CASE ReadTearsDown
    BY <1>0, <1>3 DEF ReadTearsDown, Kill
  <1>4. CASE ReadWaits
    BY <1>4 DEF ReadWaits, Dead
  <1>5. CASE ReadFrame
    <2>1. Tail(queue) \in Seq(Frames) /\ sock = "wired"
      BY <1>5 DEF ReadFrame
    <2>2. sinceOk' \in 0..Cap /\ sinceAny' \in 0..Cap /\ ret' \in StreamStatus
      BY <1>5 DEF ReadFrame
    <2>3. UNCHANGED <<state, open, sock, waited>> /\ ~reading' /\ reading' \in BOOLEAN
      BY <1>5 DEF ReadFrame
    <2>4. queue' = Tail(queue)
      BY <1>5 DEF ReadFrame
    <2> QED BY <2>1, <2>2, <2>3, <2>4
  <1>6. CASE ReadTimesOut
    BY <1>6 DEF ReadTimesOut
  <1>7. CASE Stop
    BY <1>0, <1>7 DEF Stop, Kill
  <1>8. CASE Arrive
    BY <1>8 DEF Arrive
  <1>9. CASE Tick
    <2>1. UNCHANGED <<state, open, sock, reading, queue, ret>>
      BY <1>9 DEF Tick
    <2>2. /\ Cap \in Nat /\ Cap >= StopDeadline + ReadTimeout
          /\ Cap >= ReclaimAfter + ReadTimeout
          /\ StopDeadline \in Nat /\ ReclaimAfter \in Nat /\ ReadTimeout \in Nat
      OBVIOUS
    <2>3. sinceOk' \in 0..Cap /\ sinceAny' \in 0..Cap
      BY <1>9, <2>2 DEF Tick
    <2>4. CASE reading
      <3>1. waited' = waited + 1 /\ waited' \in 0..ReadTimeout
        BY <1>9, <2>2, <2>4 DEF Tick
      <3>2. /\ sinceOk' < StopDeadline + waited'
            /\ sinceAny' < ReclaimAfter + waited'
        BY <1>9, <2>2, <2>4, <3>1 DEF Tick
      <3> QED BY <2>1, <2>3, <3>1, <3>2
    <2>5. CASE ~reading
      <3>1. waited' = waited
        BY <1>9, <2>5 DEF Tick
      <3> QED BY <2>1, <2>3, <2>5, <3>1
    <2> QED BY <2>4, <2>5
  <1>10. CASE UNCHANGED streamVars
    BY <1>10 DEF streamVars
  <1> QED
    BY <1>1, <1>2, <1>3, <1>4, <1>5, <1>6, <1>7, <1>8, <1>9, <1>10, <1>11
       DEF StreamNext, Read

\* The invariant holds throughout.
LEMMA StreamInvariance == StreamSpec => []StreamInv
  BY InitStream, NextStream, PTL DEF StreamSpec

-----------------------------------------------------------------------------

\* The stream's state is well-typed; TIMEOUT is never latched.
THEOREM StreamTypeCorrect == StreamSpec => []StreamTypeOK
  <1>1. StreamInv => StreamTypeOK
    BY DEF StreamInv
  <1> QED BY <1>1, StreamInvariance, PTL

\* No connection outlives its stream, and a usable stream has a live socket.
THEOREM SocketReleasedHolds == StreamSpec => []SocketReleased
  <1>1. StreamInv => SocketReleased
    BY DEF StreamInv
  <1> QED BY <1>1, StreamInvariance, PTL

\* read() delivers from a connected socket, within both limits.
THEOREM FreshReadHolds == StreamSpec => FreshRead
  <1> DEFINE A == reading /\ ~reading' /\ ret' = "OK" =>
                     /\ sock = "wired"
                     /\ sinceOk < StopDeadline + ReadTimeout
                     /\ sinceAny < ReclaimAfter + ReadTimeout
  <1>1. StreamInv /\ [StreamNext]_streamVars => [A]_streamVars
    <2> SUFFICES ASSUME StreamInv, StreamNext, reading, ~reading', ret' = "OK"
                 PROVE  A
      BY DEF streamVars
    <2>1. ReadFrame
      BY DEF StreamNext, Read, SetupRejected, Setup,
             SetupThrows, ReadLatched, ReadTearsDown,
             ReadWaits, ReadFrame, ReadTimesOut,
             Stop, Arrive, Tick
    <2>2. sock = "wired"
      BY <2>1 DEF ReadFrame, StreamInv, QueueWired
    <2>3. /\ sinceOk < StopDeadline + waited
          /\ sinceAny < ReclaimAfter + waited
      BY DEF StreamInv, WaitingInTime
    <2>4. sinceOk \in Nat /\ sinceAny \in Nat /\ waited \in 0..ReadTimeout
      BY CapFacts DEF StreamInv, StreamTypeOK
    <2>5. /\ sinceOk < StopDeadline + ReadTimeout
          /\ sinceAny < ReclaimAfter + ReadTimeout
      BY <2>3, <2>4, TimesAssumption
    <2> QED BY <2>2, <2>5
  <1> QED BY <1>1, StreamInvariance, PTL DEF StreamSpec, FreshRead
=============================================================================
