---------------------------- MODULE PyPoolProofs ----------------------------
(***************************************************************************)
(* Proofs about PyPool, for any finite set of threads, any set of          *)
(* connections and any pool size.                                          *)
(*                                                                         *)
(* The argument has two layers.  Shape says what each program location     *)
(* means for the thread's connection, the wait list and the transactions;  *)
(* it is inductive together with Exclusive and CleanBody and needs no      *)
(* counting.  Counting, on top of it, is Accounting and NoLostWakeup.      *)
(***************************************************************************)
EXTENDS PyPool, FiniteSetTheorems, TLAPS

\* What each location of borrow() says of the local `conn`, the wait list and
\* the connections' transactions.
Shape ==
    /\ \A t \in Thread :
          /\ pc[t] = "make" => held[t] = NoConn
          /\ pc[t] \in {"ping", "body", "unwind"} => held[t] \in Conn
          /\ t \in waiters => pc[t] \in {"asleep", "woken"}
          /\ pc[t] = "asleep" => t \in waiters
    /\ dead \subseteq idle \cup Borrowed
    /\ \A c \in dead : txn[c] = NoTxn
    /\ \A c \in Conn : c \notin idle \cup Borrowed => txn[c] = NoTxn

Typed == TypeOK /\ IsFiniteSet(idle)

Clean == Shape /\ Exclusive /\ CleanBody

Counting == Accounting /\ NoLostWakeup

-----------------------------------------------------------------------------

\* Adding a new element to a finite set adds one to its cardinality.
LEMMA CardAdd ==
    ASSUME NEW S, IsFiniteSet(S), NEW x, x \notin S
    PROVE  /\ IsFiniteSet(S \cup {x})
           /\ Cardinality(S \cup {x}) = Cardinality(S) + 1
  BY FS_AddElement

\* Removing a member of a finite set takes one from its cardinality.
LEMMA CardRemove ==
    ASSUME NEW S, IsFiniteSet(S), NEW x \in S
    PROVE  /\ IsFiniteSet(S \ {x})
           /\ Cardinality(S \ {x}) = Cardinality(S) - 1
           /\ Cardinality(S) \in Nat
  BY FS_RemoveElement, FS_CardinalityType, SMT

\* Every state of the pool is well-typed, and _idle is finite.
LEMMA TypingStep == Typed /\ [Next]_vars => Typed'
  <1> SUFFICES ASSUME Typed, [Next]_vars PROVE Typed'
    OBVIOUS
  <1> USE NoConnAssumption, NoTxnAssumption, SizeAssumption
      DEF Typed, TypeOK, Waiting, Holding
  <1>1. ASSUME NEW t \in Thread,
               Enter(t) \/ DeadlinePasses(t) \/ BodyBegin(t) \/ BodyCommit(t)
        PROVE  Typed'
    BY <1>1 DEF Enter, DeadlinePasses, BodyBegin, BodyCommit
  <1>2. ASSUME NEW t \in Thread, TakeSlot(t) PROVE Typed'
    <2>1. TypeOK'
      BY <1>2 DEF TakeSlot
    <2>2. IsFiniteSet(idle')
      BY <1>2, FS_RemoveElement DEF TakeSlot
    <2> QED BY <2>1, <2>2
  <1>3. ASSUME NEW t \in Thread, Sleep(t) \/ Exhausted(t) \/ WaitTimesOut(t)
        PROVE  Typed'
    BY <1>3 DEF Sleep, Exhausted, WaitTimesOut
  <1>4. ASSUME NEW t \in Thread,
               PingOk(t) \/ PingFails(t) \/ MakeOk(t) \/ MakeFails(t)
        PROVE  Typed'
    BY <1>4 DEF PingOk, PingFails, MakeOk, MakeFails
  <1>5. ASSUME NEW t \in Thread,
               BodyEnds(t) \/ BodyRaises(t) \/ RollbackOk(t) \/ RollbackFails(t)
        PROVE  Typed'
    BY <1>5 DEF BodyEnds, BodyRaises, RollbackOk, RollbackFails
  <1>6. ASSUME NEW t \in Thread, GiveBack(t) PROVE Typed'
    <2>1. TypeOK'
      BY <1>6 DEF GiveBack, NotifyOne
    <2>2. IsFiniteSet(idle')
      BY <1>6, FS_AddElement DEF GiveBack
    <2> QED BY <2>1, <2>2
  <1>7. CASE Close
    <2>1. Cardinality(idle) \in Int /\ IsFiniteSet({})
      BY FS_CardinalityType, FS_EmptySet
    <2> QED BY <2>1, <1>7 DEF Close, Borrowed, Holders
  <1>8. ASSUME NEW c \in Conn, ConnectionDies(c) PROVE Typed'
    BY <1>8 DEF ConnectionDies
  <1>9. CASE UNCHANGED vars
    BY <1>9 DEF vars
  <1> QED
    BY <1>1, <1>2, <1>3, <1>4, <1>5, <1>6, <1>7, <1>8, <1>9
       DEF Next, ThreadStep

\* The type invariant of the runs holds of every state of the pool, for any
\* number of threads and connections and any size.
THEOREM TypeCorrect == Spec => []TypeOK
  <1>1. Init => Typed
    BY NoConnAssumption, NoTxnAssumption, SizeAssumption, FS_EmptySet
       DEF Init, Typed, TypeOK, Waiting, Holding
  <1>2. Typed => TypeOK
    BY DEF Typed
  <1> QED BY <1>1, <1>2, TypingStep, PTL DEF Spec

-----------------------------------------------------------------------------

\* A step keeps the meaning of the locations, the exclusiveness of
\* connections and the cleanness of the bodies.
LEMMA CleanStep == Typed /\ Clean /\ [Next]_vars => Clean'
  <1> SUFFICES ASSUME Typed, Clean, [Next]_vars PROVE Clean'
    OBVIOUS
  <1> USE NoConnAssumption, NoTxnAssumption
      DEF Typed, TypeOK, Waiting, Holding, Holders, Borrowed,
          Clean, Shape, Exclusive, CleanBody
  <1>1. ASSUME NEW t \in Thread, Enter(t) \/ DeadlinePasses(t)
        PROVE  Clean'
    BY <1>1 DEF Enter, DeadlinePasses
  <1>2. ASSUME NEW t \in Thread, TakeSlot(t) PROVE Clean'
    BY <1>2 DEF TakeSlot
  <1>3. ASSUME NEW t \in Thread, Sleep(t) \/ Exhausted(t) \/ WaitTimesOut(t)
        PROVE  Clean'
    BY <1>3 DEF Sleep, Exhausted, WaitTimesOut
  <1>4. ASSUME NEW t \in Thread, PingOk(t) PROVE Clean'
    BY <1>4 DEF PingOk
  <1>5. ASSUME NEW t \in Thread, PingFails(t) PROVE Clean'
    BY <1>5 DEF PingFails
  <1>6. ASSUME NEW t \in Thread, MakeOk(t) PROVE Clean'
    BY <1>6 DEF MakeOk
  <1>7. ASSUME NEW t \in Thread, MakeFails(t) \/ BodyEnds(t) \/ BodyRaises(t)
        PROVE  Clean'
    BY <1>7 DEF MakeFails, BodyEnds, BodyRaises
  <1>8. ASSUME NEW t \in Thread, BodyBegin(t) \/ BodyCommit(t) PROVE Clean'
    BY <1>8 DEF BodyBegin, BodyCommit
  <1>9. ASSUME NEW t \in Thread, RollbackOk(t) PROVE Clean'
    BY <1>9 DEF RollbackOk
  <1>10. ASSUME NEW t \in Thread, RollbackFails(t) PROVE Clean'
    BY <1>10 DEF RollbackFails
  <1>11. ASSUME NEW t \in Thread, GiveBack(t) PROVE Clean'
    BY <1>11 DEF GiveBack, NotifyOne
  <1>12. CASE Close
    BY <1>12 DEF Close
  <1>13. ASSUME NEW c \in Conn, ConnectionDies(c) PROVE Clean'
    BY <1>13 DEF ConnectionDies
  <1>14. CASE UNCHANGED vars
    BY <1>14 DEF vars
  <1> QED
    BY <1>1, <1>2, <1>3, <1>4, <1>5, <1>6, <1>7, <1>8, <1>9, <1>10, <1>11,
       <1>12, <1>13, <1>14
       DEF Next, ThreadStep

-----------------------------------------------------------------------------

\* The sets the counting layer counts are finite.
LEMMA FiniteCounts ==
    /\ IsFiniteSet(Holders) /\ Cardinality(Holders) \in Nat
    /\ IsFiniteSet(Notified) /\ Cardinality(Notified) \in Nat
  BY ThreadAssumption, FS_Subset, FS_CardinalityType DEF Holders, Notified

\* _take() with a free slot: one holder more, and at most one of the threads
\* that were notified used up.
LEMMA CountingTakeSlot ==
    ASSUME Typed, Clean, Counting, NEW t \in Thread, TakeSlot(t)
    PROVE  Counting'
  <1> USE SizeAssumption DEF Typed, TypeOK, Waiting, Holding
  <1>1. Holders' = Holders \cup {t} /\ t \notin Holders
    BY DEF TakeSlot, Holders
  <1>2. out' = Cardinality(Holders')
    BY <1>1, FiniteCounts, CardAdd DEF TakeSlot, Counting, Accounting
  <1>3. Accounting'
    <2>1. CASE idle = {}
      <3>1. idle' = {} /\ made' = made + 1 /\ out' = out + 1 /\ out < Size
        BY <2>1 DEF TakeSlot
      <3>2. Cardinality(idle) = 0 /\ Cardinality(idle') = 0
        BY <2>1, <3>1, FS_EmptySet
      <3> QED BY <1>2, <3>1, <3>2 DEF Counting, Accounting
    <2>2. ASSUME NEW c \in idle, idle' = idle \ {c}, made' = made
          PROVE  Accounting'
      <3>1. Cardinality(idle') = Cardinality(idle) - 1 /\ Cardinality(idle) \in Nat
        BY <2>2, CardRemove
      <3>2. out' = out + 1
        BY DEF TakeSlot
      <3> QED BY <1>2, <2>2, <3>1, <3>2 DEF Counting, Accounting
    <2> QED BY <2>1, <2>2 DEF TakeSlot
  <1>4. NoLostWakeup'
    <2> SUFFICES ASSUME Sleepers' # {}
                 PROVE  Size - out' <= Cardinality(Notified')
      BY DEF NoLostWakeup
    <2>1. Sleepers # {}
      BY DEF TakeSlot, Sleepers
    <2>2. Size - out <= Cardinality(Notified)
      BY <2>1 DEF Counting, NoLostWakeup
    <2>3. Notified' = Notified \ {t}
      BY DEF TakeSlot, Notified
    <2>4. CASE t \in Notified
      <3>1. Cardinality(Notified') = Cardinality(Notified) - 1
        BY <2>3, <2>4, FiniteCounts, CardRemove
      <3> QED BY <2>2, <3>1, FiniteCounts DEF TakeSlot
    <2>5. CASE t \notin Notified
      <3>1. Notified' = Notified
        BY <2>3, <2>5
      <3> QED BY <2>2, <3>1, FiniteCounts DEF TakeSlot
    <2> QED BY <2>4, <2>5
  <1> QED BY <1>3, <1>4 DEF Counting

\* _give_back(): one holder less; if anyone sleeps, one more is notified.
LEMMA CountingGiveBack ==
    ASSUME Typed, Clean, Counting, NEW t \in Thread, GiveBack(t)
    PROVE  Counting'
  <1> USE SizeAssumption DEF Typed, TypeOK, Waiting, Holding
  <1>1. t \notin waiters /\ \A w \in waiters : pc[w] \in {"asleep", "woken"}
    BY DEF Clean, Shape, GiveBack
  <1>2. Holders' = Holders \ {t} /\ t \in Holders
    BY <1>1 DEF GiveBack, NotifyOne, Holders
  <1>3. out' = Cardinality(Holders')
    BY <1>2, FiniteCounts, CardRemove DEF GiveBack, Counting, Accounting
  <1>4. Accounting'
    <2>1. Cardinality(idle) \in Nat
      BY FS_CardinalityType
    <2>2. CASE held[t] = NoConn
      BY <1>3, <2>1, <2>2 DEF GiveBack, Counting, Accounting
    <2>3. CASE held[t] # NoConn
      <3>1. held[t] \notin idle
        BY <1>2, <2>3 DEF Clean, Exclusive, Borrowed
      <3>2. Cardinality(idle') = Cardinality(idle) + 1
        BY <2>3, <3>1, CardAdd DEF GiveBack
      <3> QED BY <1>3, <2>1, <2>3, <3>2 DEF GiveBack, Counting, Accounting
    <2> QED BY <2>2, <2>3
  <1>5. NoLostWakeup'
    <2> SUFFICES ASSUME Sleepers' # {}
                 PROVE  Size - out' <= Cardinality(Notified')
      BY DEF NoLostWakeup
    <2>1. Sleepers # {} /\ waiters # {}
      BY DEF GiveBack, NotifyOne, Sleepers, Clean, Shape
    <2>2. Size - out <= Cardinality(Notified)
      BY <2>1 DEF Counting, NoLostWakeup
    <2>3. PICK w \in waiters :
             /\ waiters' = waiters \ {w}
             /\ pc' = [pc EXCEPT ![t] = "outside", ![w] = "woken"]
      BY <2>1 DEF GiveBack, NotifyOne
    <2>4. Notified' = Notified \cup {w} /\ w \notin Notified
      BY <1>1, <2>3 DEF Notified, GiveBack
    <2>5. Cardinality(Notified') = Cardinality(Notified) + 1
      BY <2>4, FiniteCounts, CardAdd
    <2> QED BY <2>2, <2>5, FiniteCounts DEF GiveBack
  <1> QED BY <1>4, <1>5 DEF Counting

\* The remaining steps of a thread inside _take(): no slot is free when it
\* goes to sleep or gives up, and a timeout keeps it on the wait list.
LEMMA CountingWait ==
    ASSUME Typed, Clean, Counting, NEW t \in Thread,
           \/ Enter(t) \/ DeadlinePasses(t) \/ Sleep(t) \/ Exhausted(t)
           \/ WaitTimesOut(t)
    PROVE  Counting'
  <1> USE SizeAssumption
      DEF Typed, TypeOK, Waiting, Holding, Enter, DeadlinePasses, Sleep,
          Exhausted, WaitTimesOut
  <1>1. Holders' = Holders
    BY DEF Holders
  <1>2. Accounting'
    BY <1>1 DEF Counting, Accounting
  <1>3. CASE Sleep(t) \/ Exhausted(t)
    <2>1. Size - out' <= 0
      BY <1>3
    <2>2. Notified' \subseteq Thread
      BY DEF Notified
    <2>3. Cardinality(Notified') \in Nat
      BY <2>2, ThreadAssumption, FS_Subset, FS_CardinalityType
    <2> QED BY <1>2, <2>1, <2>3 DEF Counting, NoLostWakeup
  <1>4. CASE Enter(t) \/ DeadlinePasses(t) \/ WaitTimesOut(t)
    <2>1. Notified' = Notified
      BY <1>4 DEF Notified, Clean, Shape
    <2>2. Sleepers' # {} => Sleepers # {}
      BY <1>4 DEF Sleepers
    <2>3. out' = out
      BY <1>4
    <2> QED BY <1>2, <2>1, <2>2, <2>3 DEF Counting, NoLostWakeup
  <1> QED BY <1>3, <1>4

\* Steps of a thread that keeps its slot change nothing that is counted.
LEMMA CountingHold ==
    ASSUME Typed, Counting, NEW t \in Thread,
           \/ PingOk(t) \/ PingFails(t) \/ MakeOk(t) \/ MakeFails(t)
           \/ BodyBegin(t) \/ BodyCommit(t) \/ BodyEnds(t) \/ BodyRaises(t)
           \/ RollbackOk(t) \/ RollbackFails(t)
    PROVE  Counting'
  <1> USE DEF Typed, TypeOK, Waiting, Holding, PingOk, PingFails, MakeOk,
          MakeFails, BodyBegin, BodyCommit, BodyEnds, BodyRaises, RollbackOk,
          RollbackFails
  <1>1. Holders' = Holders
    BY DEF Holders
  <1>2. Notified' = Notified /\ Sleepers' = Sleepers
    BY DEF Notified, Sleepers
  <1>3. out' = out /\ made' = made /\ idle' = idle
    OBVIOUS
  <1> QED BY <1>1, <1>2, <1>3 DEF Counting, Accounting, NoLostWakeup

\* A step keeps the counters exact and loses no wakeup.
LEMMA CountingStep == Typed /\ Clean /\ Counting /\ [Next]_vars => Counting'
  <1> SUFFICES ASSUME Typed, Clean, Counting, [Next]_vars PROVE Counting'
    OBVIOUS
  <1>1. CASE Close
    <2>1. Cardinality(idle') = 0 /\ Cardinality(idle) \in Nat
      BY <1>1, FS_EmptySet, FS_CardinalityType DEF Close, Typed
    <2>2. Holders' = Holders /\ Notified' = Notified /\ Sleepers' = Sleepers
      BY <1>1 DEF Close, Holders, Notified, Sleepers
    <2>3. Accounting'
      BY <1>1, <2>1, <2>2, FiniteCounts, SizeAssumption
         DEF Close, Counting, Accounting, Typed, TypeOK
    <2>4. NoLostWakeup'
      BY <1>1, <2>2 DEF Close, Counting, NoLostWakeup
    <2> QED BY <2>3, <2>4 DEF Counting
  <1>2. ASSUME NEW c \in Conn, ConnectionDies(c) PROVE Counting'
    BY <1>2 DEF ConnectionDies, Counting, Accounting, NoLostWakeup, Holders,
                Notified, Sleepers
  <1>3. CASE UNCHANGED vars
    BY <1>3 DEF vars, Counting, Accounting, NoLostWakeup, Holders, Notified,
                Sleepers
  <1> QED
    BY <1>1, <1>2, <1>3, CountingTakeSlot, CountingGiveBack, CountingWait,
       CountingHold
       DEF Next, ThreadStep

-----------------------------------------------------------------------------

\* Initially nothing is borrowed, idle or asleep.
LEMMA InitInvariant == Init => Typed /\ Clean /\ Counting
  <1> SUFFICES ASSUME Init PROVE Typed /\ Clean /\ Counting
    OBVIOUS
  <1> USE NoConnAssumption, NoTxnAssumption, SizeAssumption DEF Init
  <1>1. Typed
    BY FS_EmptySet DEF Typed, TypeOK, Waiting, Holding
  <1>2. Clean
    BY DEF Clean, Shape, Exclusive, CleanBody, Holders, Holding, Borrowed
  <1>3. Holders = {} /\ Sleepers = {}
    BY DEF Holders, Holding, Sleepers
  <1>4. Accounting
    BY <1>3, FS_EmptySet DEF Accounting
  <1> QED BY <1>1, <1>2, <1>3, <1>4 DEF Counting, NoLostWakeup

\* The inductive invariant holds in every state of the pool.
LEMMA Invariance == Spec => [](Typed /\ Clean /\ Counting)
  BY InitInvariant, TypingStep, CleanStep, CountingStep, PTL DEF Spec

\* _out and _made are exact on every path of borrow() and across close(), and
\* at most _size connections exist.
THEOREM AccountingHolds == Spec => []Accounting
  <1>1. Typed /\ Clean /\ Counting => Accounting
    BY DEF Counting
  <1> QED BY <1>1, Invariance, PTL

\* No connection is ever in two hands, or in a hand and idle.
THEOREM ExclusiveHolds == Spec => []Exclusive
  <1>1. Typed /\ Clean /\ Counting => Exclusive
    BY DEF Clean
  <1> QED BY <1>1, Invariance, PTL

\* No body runs inside another request's transaction.
THEOREM CleanBodyHolds == Spec => []CleanBody
  <1>1. Typed /\ Clean /\ Counting => CleanBody
    BY DEF Clean
  <1> QED BY <1>1, Invariance, PTL

\* No wakeup is lost: _give_back()'s single notify() is enough.
THEOREM NoLostWakeupHolds == Spec => []NoLostWakeup
  <1>1. Typed /\ Clean /\ Counting => NoLostWakeup
    BY DEF Counting
  <1> QED BY <1>1, Invariance, PTL

-----------------------------------------------------------------------------
(* The pool keeps the contract of ConnPool. *)

\* The instance counts as this module does.
LEMMA SameCount == \A S : Contract!Cardinality(S) = Cardinality(S)
  BY Zenon DEF Contract!Cardinality, Cardinality

\* At most Size connections are lent, so that a thread with a slot and no
\* connection yet may be lent one.
LEMMA RoomToLend ==
    ASSUME Typed, Clean, Counting, NEW t \in Holders, LentTo[t] = NoConn
    PROVE  Cardinality(Contract!Out) < Size
  <1> DEFINE B == {u \in Thread : LentTo[u] # NoConn}
             f == [u \in B |-> LentTo[u]]
  <1>1. B \subseteq Holders \ {t}
    BY DEF LentTo, Holders, Holding
  <1>2. IsFiniteSet(Holders \ {t}) /\ Cardinality(Holders \ {t}) = out - 1
    BY FiniteCounts, CardRemove DEF Counting, Accounting
  <1>3. IsFiniteSet(B) /\ Cardinality(B) <= out - 1
    BY <1>1, <1>2, FS_Subset
  <1>4. f \in Surjection(B, Contract!Out)
    BY DEF Surjection, Contract!Out
  <1> HIDE DEF B, f
  <1>5. IsFiniteSet(Contract!Out) /\ Cardinality(Contract!Out) <= Cardinality(B)
    BY <1>3, <1>4, FS_Surjection
  <1>6. out <= Size
    BY SizeAssumption, FS_CardinalityType DEF Typed, TypeOK, Counting, Accounting
  <1>7. Cardinality(B) \in Nat /\ Cardinality(Contract!Out) \in Nat
    BY <1>3, <1>5, FS_CardinalityType
  <1> QED BY <1>3, <1>5, <1>6, <1>7, SizeAssumption DEF Typed, TypeOK

\* A step that moves no thread into or out of its body and leaves the
\* transactions alone is not seen.
LEMMA HiddenStep ==
    ASSUME Typed, Clean, NEW t \in Thread,
           \/ Enter(t) \/ DeadlinePasses(t) \/ TakeSlot(t) \/ Sleep(t) \/ Exhausted(t)
           \/ WaitTimesOut(t) \/ PingFails(t) \/ MakeFails(t) \/ BodyEnds(t) \/ BodyRaises(t)
    PROVE  UNCHANGED <<LentTo, Open>>
  <1>1. txn' = txn
    BY DEF Enter, DeadlinePasses, TakeSlot, Sleep, Exhausted, WaitTimesOut, PingFails,
           MakeFails, BodyEnds, BodyRaises
  <1>2. \A u \in Thread : u # t => pc'[u] = pc[u] /\ held'[u] = held[u]
    BY DEF Enter, DeadlinePasses, TakeSlot, Sleep, Exhausted, WaitTimesOut, PingFails,
           MakeFails, BodyEnds, BodyRaises, Typed, TypeOK
  <1>3. \/ /\ pc[t] \notin {"body", "unwind", "return"}
           /\ pc'[t] \notin {"body", "unwind", "return"}
        \/ pc[t] = "make" /\ pc'[t] = "return" /\ held'[t] = held[t]
        \/ pc[t] = "body" /\ pc'[t] \in {"unwind", "return"} /\ held'[t] = held[t]
    BY DEF Enter, DeadlinePasses, TakeSlot, Sleep, Exhausted, WaitTimesOut, PingFails,
           MakeFails, BodyEnds, BodyRaises, Typed, TypeOK, Waiting
  <1>4. pc[t] = "make" => held[t] = NoConn
    BY DEF Clean, Shape
  <1>5. LentTo' = LentTo
    BY <1>2, <1>3, <1>4 DEF LentTo
  <1> QED BY <1>1, <1>5 DEF Open

\* A thread's own steps that are seen.
LEMMA LendStep ==
    ASSUME Typed, Clean, Counting, NEW t \in Thread, PingOk(t) \/ MakeOk(t)
    PROVE  \E c \in Conn : Contract!Lend(t, c)
  <1> USE NoConnAssumption DEF Typed, TypeOK
  <1>1. t \in Holders /\ LentTo[t] = NoConn /\ pc' = [pc EXCEPT ![t] = "body"]
    BY DEF PingOk, MakeOk, Holders, Holding, LentTo
  <1>2. Cardinality(Contract!Out) < Size
    BY <1>1, RoomToLend
  <1>3. PICK c \in Conn : /\ held' = [held EXCEPT ![t] = c]
                         /\ txn' = [txn EXCEPT ![c] = NoTxn]
                         /\ \A u \in Holders : u # t => held[u] # c
    <2>1. CASE PingOk(t)
      <3>1. held[t] \in Conn /\ held' = [held EXCEPT ![t] = held[t]]
        BY <2>1 DEF PingOk, Clean, Shape
      <3>2. \A u \in Holders : u # t => held[u] # held[t]
        BY <1>1, <3>1 DEF Clean, Exclusive
      <3> QED BY <2>1, <3>1, <3>2 DEF PingOk
    <2>2. CASE MakeOk(t)
      <3>1. PICK c \in Conn \ (idle \cup Borrowed) : held' = [held EXCEPT ![t] = c]
        BY <2>2 DEF MakeOk
      <3>2. txn[c] = NoTxn /\ txn' = txn
        BY <2>2, <3>1 DEF MakeOk, Clean, Shape
      <3>3. \A u \in Holders : held[u] # c
        BY <3>1 DEF Borrowed
      <3> QED BY <3>1, <3>2, <3>3
    <2> QED BY <2>1, <2>2
  <1>4. c \notin Contract!Out
    <2>1. \A u \in Thread : LentTo[u] # NoConn => u \in Holders /\ LentTo[u] = held[u]
      BY DEF LentTo, Holders, Holding
    <2> QED BY <1>1, <1>3, <2>1 DEF Contract!Out
  <1>5. LentTo' = [LentTo EXCEPT ![t] = c]
    BY <1>1, <1>3 DEF LentTo
  <1>6. Open' = Open \ {c}
    BY <1>3 DEF Open
  <1>7. Contract!Lend(t, c)
    BY <1>1, <1>2, <1>4, <1>5, <1>6, SameCount DEF Contract!Lend
  <1> QED BY <1>7

\* The body's transactions and the rollback on the way out.
LEMMA WorkStep ==
    ASSUME Typed, Clean, NEW t \in Thread,
           BodyBegin(t) \/ BodyCommit(t) \/ RollbackOk(t)
    PROVE  Contract!Begin(t) \/ Contract!End(t)
  <1> USE NoConnAssumption, NoTxnAssumption DEF Typed, TypeOK
  <1>1. held[t] \in Conn /\ LentTo[t] = held[t]
    BY DEF BodyBegin, BodyCommit, RollbackOk, Clean, Shape, LentTo
  <1>2. LentTo' = LentTo
    BY DEF BodyBegin, BodyCommit, RollbackOk, LentTo
  <1>3. CASE BodyBegin(t)
    <2>1. Open' = Open \cup {held[t]}
      BY <1>1, <1>3 DEF BodyBegin, Open
    <2> QED BY <1>1, <1>2, <2>1 DEF Contract!Begin
  <1>4. CASE BodyCommit(t) \/ RollbackOk(t)
    <2>1. Open' = Open \ {held[t]}
      BY <1>1, <1>4 DEF BodyCommit, RollbackOk, Open
    <2> QED BY <1>1, <1>2, <2>1 DEF Contract!End
  <1> QED BY <1>3, <1>4

\* A connection comes back, or is closed and None comes back.
LEMMA ReturnStep ==
    ASSUME Typed, Clean, NEW t \in Thread, GiveBack(t) \/ RollbackFails(t)
    PROVE  Contract!TakeBack(t) \/ UNCHANGED <<LentTo, Open>>
  <1> USE NoConnAssumption DEF Typed, TypeOK
  <1>1. LentTo[t] = held[t] /\ held' = [held EXCEPT ![t] = NoConn] /\ txn' = txn
    BY DEF GiveBack, RollbackFails, LentTo
  <1>2. \A u \in Thread : u # t => \/ pc'[u] = pc[u]
                                   \/ pc[u] \in {"asleep", "woken"} /\ pc'[u] = "woken"
    BY DEF GiveBack, RollbackFails, NotifyOne, Clean, Shape
  <1>3. LentTo' = [LentTo EXCEPT ![t] = NoConn]
    BY <1>1, <1>2 DEF LentTo
  <1>4. Open' = Open
    BY <1>1 DEF Open
  <1>5. CASE held[t] = NoConn
    <2>1. LentTo' = LentTo
      BY <1>1, <1>3, <1>5 DEF LentTo
    <2> QED BY <1>4, <2>1
  <1>6. CASE held[t] # NoConn
    BY <1>1, <1>3, <1>4, <1>6 DEF Contract!TakeBack
  <1> QED BY <1>5, <1>6

\* close() and a dropped connection.
LEMMA DropStep ==
    ASSUME Typed, Close \/ \E c \in Conn : ConnectionDies(c)
    PROVE  \E C \in SUBSET Conn : Contract!Drop(C)
  <1> USE DEF Typed, TypeOK
  <1>1. LentTo' = LentTo
    BY DEF Close, ConnectionDies, LentTo
  <1>2. CASE Close
    <2>1. Open' = Open \ idle
      BY <1>2 DEF Close, Open
    <2> QED BY <1>1, <2>1 DEF Contract!Drop
  <1>3. ASSUME NEW c \in Conn, ConnectionDies(c)
        PROVE  \E C \in SUBSET Conn : Contract!Drop(C)
    <2>1. Open' = Open \ {c}
      BY <1>3 DEF ConnectionDies, Open
    <2>2. Contract!Drop({c})
      BY <1>1, <2>1 DEF Contract!Drop
    <2> QED BY <2>2
  <1> QED BY <1>2, <1>3

\* ConnectionPool implements ConnPool for any threads, connections and size:
\* every step of borrow() and close() is a step of the contract or is not seen.
THEOREM KeepsContractHolds == Spec => KeepsContract
  <1>1. Init => Contract!Init
    BY DEF Init, Contract!Init, LentTo, Open
  <1>2. Typed /\ Clean /\ Counting /\ [Next]_vars => [Contract!Next]_<<LentTo, Open>>
    <2> SUFFICES ASSUME Typed, Clean, Counting, [Next]_vars
                 PROVE  Contract!Next \/ UNCHANGED <<LentTo, Open>>
      OBVIOUS
    <2>1. CASE UNCHANGED vars
      BY <2>1 DEF vars, LentTo, Open
    <2>2. ASSUME NEW t \in Thread,
                 \/ Enter(t) \/ DeadlinePasses(t) \/ BodyBegin(t) \/ BodyCommit(t)
                 \/ ThreadStep(t)
          PROVE  Contract!Next \/ UNCHANGED <<LentTo, Open>>
      BY <2>2, HiddenStep, LendStep, WorkStep, ReturnStep DEF ThreadStep, Contract!Next
    <2>3. ASSUME Close \/ \E c \in Conn : ConnectionDies(c) PROVE Contract!Next
      BY <2>3, DropStep DEF Contract!Next
    <2> QED BY <2>1, <2>2, <2>3 DEF Next
  <1> QED BY <1>1, <1>2, Invariance, PTL DEF Spec, KeepsContract, Contract!Spec
=============================================================================
