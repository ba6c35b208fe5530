------------------------ MODULE PooledSessionProofs ------------------------
(***************************************************************************)
(* Proofs about PooledSession for any number of objects, slots and any     *)
(* one-level nesting of borrows, in debug and release builds.              *)
(***************************************************************************)
EXTENDS PooledSession, FiniteSetTheorems, TLAPS

\* An open transaction on a live session belongs to the object that is using
\* the slot now.
DirtyOnlyInside ==
    \A k \in Slots :
        conn[k] /\ tx[k] =>
            \E s \in Sessions : pos[s] = k /\ pc[s] \in {"body", "unwind"}

\* lease_within() is at its last try only when its deadline is over.
LastIsDue == \A s \in Sessions : pc[s] = "last" => due[s]

\* holding() is set on a thread whose outermost object has a session.
HoldingReal ==
    \A s \in Sessions :
        holding[s] => OuterOf[s] = None /\ pc[s] \in {"body", "unwind"}

\* A nested object exists only while the body around it waits.
NestedInside ==
    \A i \in Sessions :
        OuterOf[i] # None /\ pc[i] # "idle" => pc[OuterOf[i]] = "body"

IInv ==
    /\ TypeOK
    /\ SlotsAccounted
    /\ DirtyOnlyInside
    /\ LastIsDue
    /\ HoldingReal
    /\ NestedInside
    /\ AssertOnlyNested

-----------------------------------------------------------------------------

\* The thread of an object is an outermost object.
LEMMA ThreadFacts ==
    ASSUME NEW s \in Sessions
    PROVE  /\ Thread(s) \in Sessions
           /\ OuterOf[Thread(s)] = None
           /\ OuterOf[s] = None => Thread(s) = s
           /\ OuterOf[s] # None => Thread(s) = OuterOf[s] /\ Thread(s) # s
  BY NoneAssumption, OuterAssumption DEF Thread

\* The empty server satisfies the invariant.
LEMMA InitIInv == Init => IInv
  BY NoneAssumption, OuterAssumption
     DEF Init, IInv, TypeOK, SlotsAccounted, DirtyOnlyInside, LastIsDue,
         HoldingReal, NestedInside, AssertOnlyNested, Owning, Leasing, Failed

\* Every step of an object keeps the types.
LEMMA StepTypeOK ==
    ASSUME IInv, NEW s \in Sessions, SessionStep(s) PROVE TypeOK'
  <1> USE ThreadFacts, NoneAssumption
      DEF IInv, TypeOK, Leasing, Owning, Failed, At
  <1>1. pos[s] \in Slots \/ pc[s] \notin Owning
    BY DEF SlotsAccounted
  <1>2. CASE Construct(s) \/ AssertFails(s) \/ DeadlinePasses(s) \/ Loop(s)
    <2>1. CASE Construct(s)
      <3>1. /\ pc' = [pc EXCEPT ![s] = "loop"] /\ due' = [due EXCEPT ![s] = FALSE]
            /\ UNCHANGED <<pos, free, conn, tx, holding, aborted, build>>
        BY ONLY <2>1, Zenon DEF Construct
      <3> QED BY <3>1
    <2>4. CASE AssertFails(s)
      <3>1. aborted' = s /\ UNCHANGED <<pc, pos, due, free, conn, tx, holding, build>>
        BY ONLY <2>4, Zenon DEF AssertFails
      <3> QED BY <3>1
    <2>2. CASE DeadlinePasses(s)
      BY <2>2 DEF DeadlinePasses
    <2>3. CASE Loop(s)
      BY <2>3 DEF Loop
    <2> QED BY <1>2, <2>1, <2>2, <2>3, <2>4
  <1>3. CASE Lease(s) \/ SliceFails(s) \/ Exhausted(s) \/ Refused(s)
    BY <1>3 DEF Lease, SliceFails, Exhausted, Refused
  <1>4. CASE Alive(s) \/ Reconnects(s) \/ ReconnectFails(s)
    <2>1. CASE Alive(s)
      <3>1. /\ pc' \in [Sessions -> {"idle"} \cup Leasing \cup Owning \cup Failed]
            /\ holding' \in [Sessions -> BOOLEAN]
        <4>1. CASE conn[pos[s]]
          <5>1. /\ pc' = [pc EXCEPT ![s] = "body"]
                /\ holding' = [holding EXCEPT ![Thread(s)] = TRUE]
            BY ONLY <2>1, <4>1, Zenon DEF Alive
          <5> QED BY <5>1
        <4>2. CASE ~conn[pos[s]]
          <5>1. pc' = [pc EXCEPT ![s] = "reconnect"] /\ holding' = holding
            BY ONLY <2>1, <4>2, Zenon DEF Alive
          <5> QED BY <5>1
        <4> QED BY <4>1, <4>2
      <3>2. UNCHANGED <<pos, due, free, conn, tx, aborted, build>>
        BY <2>1 DEF Alive
      <3> QED BY <3>1, <3>2
    <2>2. CASE Reconnects(s)
      BY <1>1, <2>2 DEF Reconnects
    <2>3. CASE ReconnectFails(s)
      BY <1>1, <2>3 DEF ReconnectFails, GiveBack
    <2> QED BY <1>4, <2>1, <2>2, <2>3
  <1>5. CASE BodyTransaction(s)
    BY <1>1, <1>5 DEF BodyTransaction
  <1>6. CASE Destroy(s)
    BY <1>1, <1>6 DEF Destroy, GiveBack
  <1>7. CASE BodyThrows(s)
    BY <1>7 DEF BodyThrows
  <1>8. CASE Unwind(s)
    BY <1>1, <1>8 DEF Unwind, GiveBack
  <1> QED BY <1>2, <1>3, <1>4, <1>5, <1>6, <1>7, <1>8 DEF SessionStep

\* ... the slots' accounting,
LEMMA StepSlots ==
    ASSUME IInv, NEW s \in Sessions, SessionStep(s) PROVE SlotsAccounted'
  <1> USE NoneAssumption DEF IInv, TypeOK, SlotsAccounted, Owning, Leasing, Failed, At
  <1>1. CASE Construct(s) \/ AssertFails(s) \/ DeadlinePasses(s) \/ Loop(s)
    BY <1>1 DEF Construct, AssertFails, DeadlinePasses, Loop
  <1>2. CASE SliceFails(s) \/ Exhausted(s) \/ Refused(s) \/ Alive(s)
             \/ Reconnects(s) \/ BodyTransaction(s) \/ BodyThrows(s)
    BY <1>2 DEF SliceFails, Exhausted, Refused, Alive, Reconnects,
                BodyTransaction, BodyThrows
  <1>3. CASE Lease(s)
    BY <1>3 DEF Lease
  <1>4. CASE ReconnectFails(s) \/ Destroy(s) \/ Unwind(s)
    <2>1. GiveBack(s) /\ pc[s] \in Owning
      BY <1>4 DEF ReconnectFails, Destroy, Unwind
    <2>2. pc' = [pc EXCEPT ![s] = "idle"] \/ pc' = [pc EXCEPT ![s] = "reconnect_failed"]
      BY <1>4 DEF ReconnectFails, Destroy, Unwind
    <2> QED BY <2>1, <2>2 DEF GiveBack
  <1> QED BY <1>1, <1>2, <1>3, <1>4 DEF SessionStep

\* ... the owner of every open transaction,
LEMMA StepDirty ==
    ASSUME IInv, NEW s \in Sessions, SessionStep(s) PROVE DirtyOnlyInside'
  <1> USE NoneAssumption
      DEF IInv, TypeOK, SlotsAccounted, DirtyOnlyInside, Owning, Leasing, Failed, At
  <1>1. CASE Construct(s) \/ AssertFails(s) \/ DeadlinePasses(s) \/ Loop(s)
    BY <1>1 DEF Construct, AssertFails, DeadlinePasses, Loop
  <1>2. CASE SliceFails(s) \/ Exhausted(s) \/ Refused(s) \/ Alive(s) \/ BodyThrows(s)
    BY <1>2 DEF SliceFails, Exhausted, Refused, Alive, BodyThrows
  <1>3. CASE Lease(s)
    BY <1>3 DEF Lease
  <1>4. CASE Reconnects(s)
    BY <1>4 DEF Reconnects
  <1>8. CASE BodyTransaction(s)
    BY <1>8 DEF BodyTransaction
  <1>5. CASE ReconnectFails(s)
    BY <1>5 DEF ReconnectFails, GiveBack
  <1>6. CASE Destroy(s)
    BY <1>6 DEF Destroy, GiveBack
  <1>7. CASE Unwind(s)
    <2>1. pos[s] \in Slots /\ pc[s] = "unwind" /\ conn' = conn
      BY <1>7 DEF Unwind
    <2>2. ~(conn'[pos[s]] /\ tx'[pos[s]])
      BY <1>7, <2>1 DEF Unwind
    <2>3. \A k \in Slots : k # pos[s] => tx'[k] = tx[k]
      BY <1>7, <2>1 DEF Unwind
    <2>4. \A r \in Sessions : r # s => pos'[r] = pos[r] /\ pc'[r] = pc[r]
      BY <1>7 DEF Unwind, GiveBack
    <2> QED BY <2>1, <2>2, <2>3, <2>4
  <1> QED BY <1>1, <1>2, <1>3, <1>4, <1>5, <1>6, <1>7, <1>8 DEF SessionStep

\* ... and what is known of deadlines, the flag and nesting.
LEMMA StepRest ==
    ASSUME IInv, NEW s \in Sessions, SessionStep(s)
    PROVE  LastIsDue' /\ HoldingReal' /\ NestedInside' /\ AssertOnlyNested'
  <1> USE ThreadFacts, NoneAssumption, OuterAssumption
      DEF IInv, TypeOK, LastIsDue, HoldingReal, NestedInside, AssertOnlyNested,
          Owning, Leasing, Failed, At
  <1>1. CASE Construct(s)
    BY <1>1 DEF Construct
  <1>2. CASE AssertFails(s)
    BY <1>2 DEF AssertFails
  <1>3. CASE DeadlinePasses(s) \/ Loop(s) \/ Lease(s) \/ SliceFails(s) \/ Exhausted(s)
    BY <1>3 DEF DeadlinePasses, Loop, Lease, SliceFails, Exhausted
  <1>4. CASE Alive(s)
    BY <1>4 DEF Alive
  <1>5. CASE Reconnects(s)
    BY <1>5 DEF Reconnects
  <1>6. CASE ReconnectFails(s) \/ Refused(s) \/ BodyTransaction(s)
    BY <1>6 DEF ReconnectFails, GiveBack, Refused, BodyTransaction
  <1>7. CASE Destroy(s)
    BY <1>7 DEF Destroy, GiveBack, Innermost
  <1>8. CASE BodyThrows(s)
    BY <1>8 DEF BodyThrows, Innermost
  <1>9. CASE Unwind(s)
    BY <1>9 DEF Unwind, GiveBack
  <1> QED
    BY <1>1, <1>2, <1>3, <1>4, <1>5, <1>6, <1>7, <1>8, <1>9 DEF SessionStep

\* A dropped connection keeps the invariant.
LEMMA DiesIInv == ASSUME IInv, NEW k \in Slots, ConnectionDies(k) PROVE IInv'
  BY DEF ConnectionDies, IInv, TypeOK, SlotsAccounted, DirtyOnlyInside,
         LastIsDue, HoldingReal, NestedInside, AssertOnlyNested

\* Every step keeps the invariant.
LEMMA NextIInv == IInv /\ [Next]_vars => IInv'
  <1> SUFFICES ASSUME IInv, [Next]_vars PROVE IInv'
    OBVIOUS
  <1>1. ASSUME NEW s \in Sessions, SessionStep(s) PROVE IInv'
    BY <1>1, StepTypeOK, StepSlots, StepDirty, StepRest DEF IInv
  <1>2. CASE UNCHANGED vars
    BY <1>2 DEF vars, IInv, TypeOK, SlotsAccounted, DirtyOnlyInside, LastIsDue,
                HoldingReal, NestedInside, AssertOnlyNested
  <1> QED BY <1>1, <1>2, DiesIInv DEF Next

\* The invariant holds throughout.
LEMMA Invariance == Spec => []IInv
  BY InitIInv, NextIInv, PTL DEF Spec

-----------------------------------------------------------------------------

\* The pool's state is well-typed.
THEOREM TypeCorrect == Spec => []TypeOK
  <1>1. IInv => TypeOK
    BY DEF IInv
  <1> QED BY <1>1, Invariance, PTL

\* No slot is lost and none is shared, on any path through the constructor
\* and the destructor.
THEOREM SlotsAccountedHolds == Spec => []SlotsAccounted
  <1>1. IInv => SlotsAccounted
    BY DEF IInv
  <1> QED BY <1>1, Invariance, PTL

\* The rule-2 assertion never fires on a thread that holds no session.
THEOREM AssertOnlyNestedHolds == Spec => []AssertOnlyNested
  <1>1. IInv => AssertOnlyNested
    BY DEF IInv
  <1> QED BY <1>1, Invariance, PTL

\* Every body starts on a connected session with no transaction open.
THEOREM CleanBorrowHolds == Spec => CleanBorrow
  <1> DEFINE A == \A s \in Sessions :
                     pc[s] # "body" /\ pc'[s] = "body"
                        => conn'[pos'[s]] /\ ~tx'[pos'[s]]
  <1>1. IInv /\ [Next]_vars => [A]_vars
    <2> SUFFICES ASSUME IInv, Next, NEW s \in Sessions,
                        pc[s] # "body", pc'[s] = "body"
                 PROVE  conn'[pos'[s]] /\ ~tx'[pos'[s]]
      BY DEF vars
    <2>1. Alive(s) \/ Reconnects(s)
      BY DEF Next, SessionStep, Construct, AssertFails, DeadlinePasses, Loop,
             Lease, SliceFails, Exhausted, Alive, Reconnects, ReconnectFails,
             Refused, BodyTransaction, Destroy, BodyThrows, Unwind,
             ConnectionDies, IInv, TypeOK, At
    <2>2. pos[s] \in Slots
      BY <2>1, NoneAssumption
         DEF Alive, Reconnects, IInv, TypeOK, SlotsAccounted, Owning, At
    <2>3. CASE Reconnects(s)
      BY <2>2, <2>3 DEF Reconnects, IInv, TypeOK, At
    <2>4. CASE Alive(s)
      <3>1. conn[pos[s]] /\ pc[s] = "check" /\ UNCHANGED <<pos, conn, tx>>
        BY <2>4 DEF Alive, IInv, TypeOK, At
      <3>2. ~tx[pos[s]]
        BY <2>2, <3>1, NoneAssumption DEF IInv, DirtyOnlyInside, SlotsAccounted
      <3> QED BY <3>1, <3>2
    <2> QED BY <2>1, <2>3, <2>4
  <1> QED BY <1>1, Invariance, PTL DEF Spec, CleanBorrow

\* A borrow is refused only at its monotonic deadline, with no slot free.
THEOREM ExhaustedOnlyAtDeadlineHolds == Spec => ExhaustedOnlyAtDeadline
  <1> DEFINE A == \A s \in Sessions :
                     pc[s] # "exhausted" /\ pc'[s] = "exhausted"
                        => due[s] /\ free = {}
  <1>1. IInv /\ [Next]_vars => [A]_vars
    <2> SUFFICES ASSUME IInv, Next, NEW s \in Sessions,
                        pc[s] # "exhausted", pc'[s] = "exhausted"
                 PROVE  due[s] /\ free = {}
      BY DEF vars
    <2>1. Exhausted(s)
      BY DEF Next, SessionStep, Construct, AssertFails, DeadlinePasses, Loop,
             Lease, SliceFails, Exhausted, Alive, Reconnects, ReconnectFails,
             Refused, BodyTransaction, Destroy, BodyThrows, Unwind,
             ConnectionDies, IInv, TypeOK, At
    <2> QED BY <2>1 DEF Exhausted, IInv, LastIsDue, At
  <1> QED BY <1>1, Invariance, PTL DEF Spec, ExhaustedOnlyAtDeadline

-----------------------------------------------------------------------------
(* The pool keeps the contract of ConnPool. *)

Lending == {"body", "unwind"}

\* The instance counts as this module does.
LEMMA SameCount == \A S : Contract!Cardinality(S) = Cardinality(S)
  BY Zenon DEF Contract!Cardinality, Cardinality

\* What is lent is leased, by one object each.
LEMMA LentFacts ==
    ASSUME IInv
    PROVE  /\ \A s \in Sessions :
                 /\ pc[s] \in Lending => LentTo[s] = pos[s] /\ pos[s] \in Slots /\ LentTo[s] # None
                 /\ pc[s] \notin Lending => LentTo[s] = None
           /\ Contract!Out \subseteq Slots
           /\ \A s \in Sessions : pos[s] \in Slots /\ pc[s] \notin Lending => pos[s] \notin Contract!Out
  <1>1. \A s \in Sessions : pc[s] \in Lending => pos[s] \in Slots
    BY NoneAssumption DEF IInv, TypeOK, SlotsAccounted, Owning, Lending
  <1>2. \A s \in Sessions : /\ pc[s] \in Lending => LentTo[s] = pos[s]
                            /\ pc[s] \notin Lending => LentTo[s] = None
    BY DEF LentTo, Lending
  <1>3. \A s, r \in Sessions : s # r /\ pos[s] # None => pos[s] # pos[r]
    BY DEF IInv, SlotsAccounted
  <1> QED BY <1>1, <1>2, <1>3, NoneAssumption DEF Contract!Out

\* The step of one object moves no other in or out of its body.
LEMMA OthersStay ==
    ASSUME IInv, NEW s \in Sessions, SessionStep(s), NEW r \in Sessions, r # s
    PROVE  pc'[r] = pc[r] /\ pos'[r] = pos[r]
  BY DEF SessionStep, Construct, AssertFails, DeadlinePasses, Loop, Lease, SliceFails,
         Exhausted, Alive, Reconnects, ReconnectFails, Refused, BodyTransaction, Destroy,
         BodyThrows, Unwind, GiveBack, IInv, TypeOK

\* What is lent after a step that gives object s the value c.
LEMMA LentAfter ==
    ASSUME IInv, NEW s \in Sessions, SessionStep(s), NEW c,
           c = IF pc'[s] \in Lending THEN pos'[s] ELSE None
    PROVE  LentTo' = [LentTo EXCEPT ![s] = c]
  BY OthersStay DEF LentTo, Lending

\* The steps of the constructor before it hands over, and of a refused object.
LEMMA HiddenStep ==
    ASSUME IInv, NEW s \in Sessions, SessionStep(s),
           (pc[s] \in Lending) <=> (pc'[s] \in Lending),
           pc[s] \in Lending => pos'[s] = pos[s],
           UNCHANGED <<conn, tx>>
    PROVE  UNCHANGED <<LentTo, Open>>
  <1>1. LentTo' = LentTo
    BY OthersStay DEF LentTo, Lending
  <1>2. Open' = Open
    BY Zenon DEF Open
  <1> QED BY <1>1, <1>2

\* alive() or reconnect() succeeds: a session nobody has, connected and clean.
LEMMA LendStep ==
    ASSUME IInv, NEW s \in Sessions, SessionStep(s),
           pc[s] \in {"check", "reconnect"}, pc'[s] = "body", pos' = pos,
           Open' = Open \ {pos[s]}
    PROVE  \E c \in Slots : Contract!Lend(s, c)
  <1>1. pos[s] \in Slots
    BY NoneAssumption DEF IInv, TypeOK, SlotsAccounted, Owning
  <1>2. LentTo[s] = None /\ pos[s] \notin Contract!Out /\ Contract!Out \subseteq Slots \ {pos[s]}
    BY <1>1, LentFacts DEF Lending
  <1>3. LentTo' = [LentTo EXCEPT ![s] = pos[s]]
    BY LentAfter DEF Lending
  <1>4. Cardinality(Contract!Out) < Cardinality(Slots)
    <2>1. /\ IsFiniteSet(Slots \ {pos[s]})
          /\ Cardinality(Slots \ {pos[s]}) = Cardinality(Slots) - 1
      BY <1>1, SlotsAssumption, FS_RemoveElement
    <2>2. Cardinality(Contract!Out) <= Cardinality(Slots) - 1 /\ IsFiniteSet(Contract!Out)
      BY <1>2, <2>1, FS_Subset
    <2> QED BY <2>2, SlotsAssumption, FS_CardinalityType
  <1>5. Contract!Lend(s, pos[s])
    BY ONLY <1>2, <1>3, <1>4, SameCount, Open' = Open \ {pos[s]}, Zenon DEF Contract!Lend
  <1> QED BY <1>1, <1>5

\* The two ways to hand over leave no transaction open on the session.
LEMMA HandOver ==
    ASSUME IInv, NEW s \in Sessions, (Alive(s) /\ conn[pos[s]]) \/ Reconnects(s)
    PROVE  /\ pc[s] \in {"check", "reconnect"} /\ pc'[s] = "body" /\ pos' = pos
           /\ Open' = Open \ {pos[s]}
  <1>1. pos[s] \in Slots
    BY NoneAssumption DEF IInv, TypeOK, SlotsAccounted, Owning, Alive, Reconnects, At
  <1>2. CASE Reconnects(s)
    <2>1. /\ pc[s] = "reconnect" /\ pc' = [pc EXCEPT ![s] = "body"] /\ pos' = pos
          /\ conn' = [conn EXCEPT ![pos[s]] = TRUE] /\ tx' = [tx EXCEPT ![pos[s]] = FALSE]
      BY <1>2 DEF Reconnects, At
    <2>2. pc'[s] = "body"
      BY <2>1 DEF IInv, TypeOK
    <2>3. \A k \in Slots : conn'[k] /\ tx'[k] <=> (conn[k] /\ tx[k]) /\ k # pos[s]
      BY <1>1, <2>1, Zenon DEF IInv, TypeOK
    <2>4. Open' = Open \ {pos[s]}
      BY <2>3, Zenon DEF Open
    <2> QED BY <2>1, <2>2, <2>4
  <1>3. CASE Alive(s) /\ conn[pos[s]]
    <2>1. /\ pc[s] = "check" /\ pc' = [pc EXCEPT ![s] = "body"]
          /\ UNCHANGED <<pos, conn, tx>>
      BY <1>3, Zenon DEF Alive, At
    <2>2. pc'[s] = "body"
      BY <2>1 DEF IInv, TypeOK
    <2>3. ~tx[pos[s]]
      <3>1. \A r \in Sessions : r # s => pos[r] # pos[s]
        BY <1>1, NoneAssumption DEF IInv, SlotsAccounted
      <3> QED BY <1>1, <1>3, <2>1, <3>1 DEF IInv, DirtyOnlyInside
    <2>4. Open' = Open \ {pos[s]}
      BY <2>1, <2>3, Zenon DEF Open
    <2> QED BY <2>1, <2>2, <2>4
  <1> QED BY <1>2, <1>3

\* The body's transactions.
LEMMA WorkStep ==
    ASSUME IInv, NEW s \in Sessions, BodyTransaction(s)
    PROVE  Contract!Begin(s) \/ Contract!End(s)
  <1>1. /\ pc[s] = "body" /\ conn[pos[s]] /\ UNCHANGED <<pc, pos, conn>>
        /\ tx' = [tx EXCEPT ![pos[s]] = ~tx[pos[s]]]
    BY Zenon DEF BodyTransaction, At
  <1>2. LentTo[s] = pos[s] /\ LentTo[s] # None /\ pos[s] \in Slots
    BY <1>1, LentFacts DEF Lending
  <1>3. LentTo' = LentTo
    BY <1>1, Zenon DEF LentTo
  <1>4. CASE tx[pos[s]]
    <2>1. \A k \in Slots : conn'[k] /\ tx'[k] <=> (conn[k] /\ tx[k]) /\ k # pos[s]
      BY <1>1, <1>2, <1>4, Zenon DEF IInv, TypeOK
    <2>2. Open' = Open \ {pos[s]}
      BY <2>1, Zenon DEF Open
    <2> QED BY <1>2, <1>3, <2>2 DEF Contract!End
  <1>5. CASE ~tx[pos[s]]
    <2>1. \A k \in Slots : conn'[k] /\ tx'[k] <=> (conn[k] /\ tx[k]) \/ k = pos[s]
      BY <1>1, <1>2, <1>5, Zenon DEF IInv, TypeOK
    <2>2. Open' = Open \cup {pos[s]}
      BY <1>2, <2>1, Zenon DEF Open
    <2> QED BY <1>2, <1>3, <2>2 DEF Contract!Begin
  <1> QED BY <1>4, <1>5

\* The destructor of an object that had a session.
LEMMA ReturnStep ==
    ASSUME IInv, NEW s \in Sessions, Destroy(s) \/ Unwind(s)
    PROVE  Contract!TakeBack(s)
  <1>1. pc[s] \in Lending /\ pc' = [pc EXCEPT ![s] = "idle"] /\ conn' = conn
    BY DEF Destroy, Unwind, At, Lending
  <1>2. LentTo[s] = pos[s] /\ LentTo[s] # None /\ pos[s] \in Slots
    BY <1>1, LentFacts
  <1>3. LentTo' = [LentTo EXCEPT ![s] = None]
    <2>1. SessionStep(s) /\ pc'[s] = "idle"
      BY <1>1 DEF SessionStep, IInv, TypeOK
    <2>2. pc'[s] \notin Lending
      BY <2>1 DEF Lending
    <2> QED BY <2>1, <2>2, LentAfter
  <1>4. CASE Destroy(s)
    <2>1. tx' = tx
      BY <1>4, Zenon DEF Destroy
    <2>2. Open' = Open
      BY <1>1, <2>1, Zenon DEF Open
    <2> QED BY <1>2, <1>3, <2>2 DEF Contract!TakeBack
  <1>5. CASE Unwind(s)
    <2>1. tx' = [tx EXCEPT ![pos[s]] = tx[pos[s]] /\ ~conn[pos[s]]]
      BY <1>5, Zenon DEF Unwind
    <2>2. \A k \in Slots : conn'[k] /\ tx'[k] <=> (conn[k] /\ tx[k]) /\ k # pos[s]
      BY <1>1, <1>2, <2>1, Zenon DEF IInv, TypeOK
    <2>3. Open' = Open \ {pos[s]}
      BY <2>2, Zenon DEF Open
    <2> QED BY <1>2, <1>3, <2>3 DEF Contract!TakeBack
  <1> QED BY <1>4, <1>5

\* A dropped connection takes its transaction with it.
LEMMA DropStep ==
    ASSUME IInv, NEW k \in Slots, ConnectionDies(k)
    PROVE  Contract!Drop({k})
  <1>1. conn' = [conn EXCEPT ![k] = FALSE] /\ UNCHANGED <<pc, pos, tx>>
    BY Zenon DEF ConnectionDies
  <1>2. LentTo' = LentTo
    BY <1>1, Zenon DEF LentTo
  <1>3. \A j \in Slots : conn'[j] /\ tx'[j] <=> (conn[j] /\ tx[j]) /\ j # k
    BY <1>1, Zenon DEF IInv, TypeOK
  <1>4. Open' = Open \ {k}
    BY <1>3, Zenon DEF Open
  <1> QED BY <1>2, <1>4 DEF Contract!Drop

\* PooledSession implements ConnPool for any objects and slots, nested or not:
\* every step is a step of the contract or is not seen.
THEOREM KeepsContractHolds == Spec => KeepsContract
  <1>1. Init => Contract!Init
    BY DEF Init, Contract!Init, LentTo, Open
  <1>2. IInv /\ [Next]_vars => [Contract!Next]_<<LentTo, Open>>
    <2> SUFFICES ASSUME IInv, [Next]_vars
                 PROVE  Contract!Next \/ UNCHANGED <<LentTo, Open>>
      OBVIOUS
    <2>1. CASE UNCHANGED vars
      BY <2>1 DEF vars, LentTo, Open
    <2>2. ASSUME NEW s \in Sessions, SessionStep(s)
          PROVE  Contract!Next \/ UNCHANGED <<LentTo, Open>>
      <3>1. CASE \/ Construct(s) \/ AssertFails(s) \/ DeadlinePasses(s) \/ Loop(s) \/ Lease(s)
                 \/ SliceFails(s) \/ Exhausted(s) \/ ReconnectFails(s) \/ Refused(s)
                 \/ BodyThrows(s)
        <4>1. UNCHANGED <<conn, tx>>
          BY <3>1 DEF Construct, AssertFails, DeadlinePasses, Loop, Lease, SliceFails, Exhausted,
                      ReconnectFails, Refused, BodyThrows
        <4>2. /\ (pc[s] \in Lending) <=> (pc'[s] \in Lending)
              /\ pc[s] \in Lending => pos'[s] = pos[s]
          BY <3>1 DEF Construct, AssertFails, DeadlinePasses, Loop, Lease, SliceFails, Exhausted,
                      ReconnectFails, Refused, BodyThrows, Lending, At, Failed, IInv, TypeOK
        <4> QED BY <2>2, <4>1, <4>2, HiddenStep
      <3>2. CASE (Alive(s) /\ conn[pos[s]]) \/ Reconnects(s)
        <4>1. \E c \in Slots : Contract!Lend(s, c)
          BY <2>2, <3>2, HandOver, LendStep
        <4> QED BY <4>1 DEF Contract!Next
      <3>3. CASE Alive(s) /\ ~conn[pos[s]]
        <4>1. pc[s] = "check" /\ pc' = [pc EXCEPT ![s] = "reconnect"] /\ UNCHANGED <<conn, tx>>
          BY <3>3, Zenon DEF Alive, At
        <4>2. pc[s] \notin Lending /\ pc'[s] \notin Lending
          BY <4>1 DEF Lending, IInv, TypeOK
        <4> QED BY <2>2, <4>1, <4>2, HiddenStep
      <3>4. CASE BodyTransaction(s) \/ Destroy(s) \/ Unwind(s)
        BY <3>4, WorkStep, ReturnStep DEF Contract!Next
      <3> QED BY <2>2, <3>1, <3>2, <3>3, <3>4 DEF SessionStep
    <2>3. ASSUME NEW k \in Slots, ConnectionDies(k) PROVE Contract!Next
      <3>1. Contract!Drop({k})
        BY <2>3, DropStep
      <3> QED BY <3>1 DEF Contract!Next
    <2> QED BY <2>1, <2>2, <2>3 DEF Next
  <1> QED BY <1>1, <1>2, Invariance, PTL DEF Spec, KeepsContract, Contract!Spec
=============================================================================
