------------------------ MODULE LocalKeyStoreProofs ------------------------
(***************************************************************************)
(* Proofs about LocalKeyStore, through crashes and failing system calls.   *)
(* Keys survive until a rewrite of the store is cut, shreds until an       *)
(* append to the sidecar is: the two inductive invariants KeysKept and     *)
(* ShredsKept each assume only that their own file is whole.               *)
(***************************************************************************)
EXTENDS LocalKeyStore, TLAPS

\* Whatever names a record as shredded, in memory or on disk, comes from a
\* shred_dek() call.
Named ==
    /\ shredded \subseteq asked
    /\ lines \subseteq asked \cup {Garbage}
    /\ tail \in asked \cup {Garbage, None}
    /\ op = "append" => target \in asked

\* A provider that exists has a KEK, and its active one is the newest.
ActiveNewest ==
    /\ up => active = Len(keks) /\ Len(keks) >= 1
    /\ ~up => op = "none"

NamedInv == TypeOK /\ Named /\ ActiveNewest

\* With a whole store, a rotation or a restart has the KEK of every wrapped DEK at hand: in memory
\* while the provider exists, in the store except between open() and write().
KeysKept ==
    "store" \notin cut =>
    /\ up /\ op \in {"none", "append"} => store = keks
    /\ up => \A w \in wraps :
                w.kek_version \in 1..Len(keks) /\ keks[w.kek_version] = w.kek
    /\ op # "write" => \A w \in wraps :
                w.kek_version \in 1..Len(store) /\ store[w.kek_version] = w.kek

\* With a whole sidecar, a shred that returned is in it, and in memory while there is one.
ShredsKept ==
    "log" \notin cut =>
    /\ tail = None
    /\ shreds \subseteq lines
    /\ up => shreds \subseteq shredded
    /\ up /\ op # "append" => shredded \subseteq lines
    /\ op = "append" => shredded \subseteq lines \cup {target}
    /\ op = "append" => target \in shredded

KeptInv == TypeOK /\ KeysKept /\ ShredsKept

-----------------------------------------------------------------------------

\* A prefix of the KEKs, or one with a cut line, is a sequence of KEKs.
LEMMA PrefixType ==
    ASSUME TypeOK, PrefixOfStore PROVE store' \in Seq(Keks \cup {Garbage})
  <1> DEFINE S == Keks \cup {Garbage}
  <1> PICK n \in 0..Len(keks) :
        \/ store' = SubSeq(keks, 1, n)
        \/ n < Len(keks) /\ store' = Append(SubSeq(keks, 1, n), Garbage)
    BY DEF PrefixOfStore
  <1>1. keks \in Seq(S)
    BY DEF TypeOK
  <1>2. SubSeq(keks, 1, n) \in Seq(S)
    BY <1>1
  <1> QED BY <1>2

\* The types and the names hold initially.
LEMMA InitNamed == Init => NamedInv
  <1> SUFFICES ASSUME Init PROVE NamedInv
    OBVIOUS
  <1>1. <<>> \in Seq(Keks \cup {Garbage})
    OBVIOUS
  <1> QED BY <1>1 DEF Init, NamedInv, TypeOK, Named, ActiveNewest

\* Every step, faults included, keeps the types.
LEMMA NextType == ASSUME NamedInv, [Next]_vars PROVE TypeOK'
  <1> USE NamesAssumption, TailAssumption DEF NamedInv, TypeOK
  <1>1. CASE StartLoaded
    BY <1>1 DEF StartLoaded, LoadShreds, disk
  <1>2. CASE StartFresh
    BY <1>2 DEF StartFresh, LoadShreds, disk
  <1>3. CASE WrapDek
    <2>1. active \in Nat \ {0} /\ keks[active] \in Keks \cup {Garbage}
      BY <1>3 DEF WrapDek, Idle, ActiveNewest
    <2>2. PICK d \in Deks :
            wraps' = wraps \cup
                {[kek_version |-> active, kek |-> keks[active], dek |-> d]}
      BY <1>3 DEF WrapDek
    <2>3. [kek_version |-> active, kek |-> keks[active], dek |-> d] \in WrappedDek
      BY <2>1 DEF WrappedDek
    <2> QED BY <1>3, <2>2, <2>3 DEF WrapDek, mem, disk
  <1>4. CASE Rotate
    BY <1>4 DEF Rotate, disk
  <1>5. CASE PersistOpens \/ PersistWrites
    <2>1. <<>> \in Seq(Keks \cup {Garbage})
      OBVIOUS
    <2> QED BY <1>5, <2>1 DEF PersistOpens, PersistWrites, mem
  <1>6. CASE PersistFails
    BY <1>6, PrefixType DEF PersistFails, mem
  <1>7. CASE ShredAgain \/ Shred
    BY <1>7 DEF ShredAgain, Shred, mem, disk
  <1>8. CASE ShredAppends \/ ShredAppendFails
    BY <1>8 DEF ShredAppends, ShredAppendFails, LineAppended, PieceAppended,
                Named, mem
  <1>9. CASE Stop
    <2>1. <<>> \in Seq(Keks \cup {Garbage})
      OBVIOUS
    <2>2. store' \in Seq(Keks \cup {Garbage})
      BY <1>9, PrefixType DEF Stop, disk
    <2>3. lines' \in SUBSET (WrappedDek \cup {Garbage}) /\ tail' \in WrappedDek \cup {Garbage, None}
      BY <1>9 DEF Stop, LineAppended, PieceAppended, Named, disk
    <2> QED BY <1>9, <2>1, <2>2, <2>3 DEF Stop
  <1>10. CASE UNCHANGED vars
    BY <1>10 DEF vars, mem, disk
  <1> QED
    BY <1>1, <1>2, <1>3, <1>4, <1>5, <1>6, <1>7, <1>8, <1>9, <1>10 DEF Next

\* Every step, faults included, keeps the names.
LEMMA NextNamed == ASSUME NamedInv, [Next]_vars PROVE NamedInv'
  <1> USE NamesAssumption, TailAssumption DEF NamedInv, TypeOK, Named, ActiveNewest
  <1>1. TypeOK'
    BY NextType
  <1>2. CASE StartLoaded
    <2>1. Len(store) >= 1
      BY <1>2 DEF StartLoaded
    <2> QED BY <1>1, <1>2, <2>1 DEF StartLoaded, LoadShreds, disk
  <1>8. CASE StartFresh
    <2>1. Named'
      BY <1>8 DEF StartFresh, LoadShreds, disk
    <2>2. Len(keks') = 1 /\ active' = 1 /\ up'
      BY <1>8 DEF StartFresh
    <2> QED BY <1>1, <2>1, <2>2
  <1>3. CASE WrapDek \/ Rotate \/ PersistOpens \/ PersistWrites \/ PersistFails
    BY <1>1, <1>3 DEF WrapDek, Rotate, PersistOpens, PersistWrites,
                      PersistFails, Idle, mem, disk
  <1>4. CASE ShredAgain \/ Shred
    BY <1>1, <1>4 DEF ShredAgain, Shred, Idle, mem, disk
  <1>5. CASE ShredAppends \/ ShredAppendFails
    BY <1>1, <1>5 DEF ShredAppends, ShredAppendFails, LineAppended,
                      PieceAppended, mem
  <1>6. CASE Stop
    BY <1>1, <1>6 DEF Stop, LineAppended, PieceAppended, disk
  <1>7. CASE UNCHANGED vars
    BY <1>1, <1>7 DEF vars, mem, disk
  <1> QED BY <1>2, <1>3, <1>4, <1>5, <1>6, <1>7, <1>8 DEF Next

\* The types and the names hold throughout.
LEMMA NamedInvariance == Spec => []NamedInv
  <1>1. NamedInv /\ [Next]_vars => NamedInv'
    BY NextNamed
  <1> QED BY InitNamed, <1>1, PTL DEF Spec

\* The provider's state is well-typed, through every fault.
THEOREM TypeCorrect == Spec => []TypeOK
  <1>1. NamedInv => TypeOK
    BY DEF NamedInv
  <1> QED BY <1>1, NamedInvariance, PTL

\* No crash and no cut line ever shreds a record nobody asked to shred.
THEOREM ShredIsExactHolds == Spec => []ShredIsExact
  <1>1. NamedInv => ShredIsExact
    BY DEF NamedInv, Named, ShredIsExact
  <1> QED BY <1>1, NamedInvariance, PTL

-----------------------------------------------------------------------------

\* Keys and shreds are kept initially
LEMMA InitKept == Init => KeptInv
  BY InitNamed DEF Init, NamedInv, KeptInv, KeysKept, ShredsKept

\* ... and by every step.
LEMMA NextKept ==
    ASSUME KeptInv, NamedInv, [Next]_vars
    PROVE  KeptInv'
  <1> USE NamesAssumption, TailAssumption
  <1>t. TypeOK /\ TypeOK' /\ Len(keks) \in Nat /\ Len(store) \in Nat
    BY NextNamed DEF NamedInv, TypeOK
  <1>a. ActiveNewest
    BY DEF NamedInv
  <1>1. CASE StartLoaded
    <2>0. op = "none" /\ op' = "none"
      BY <1>a, <1>1 DEF StartLoaded, ActiveNewest
    <2>1. KeysKept'
      BY <1>t, <1>1, <2>0 DEF StartLoaded, KeptInv, KeysKept, disk
    <2>2. ShredsKept'
      BY <1>t, <1>a, <1>1 DEF StartLoaded, ActiveNewest, KeptInv, ShredsKept,
                              TypeOK, disk, LoadShreds
    <2> QED BY <1>t, <2>1, <2>2 DEF KeptInv
  <1>2. CASE StartFresh
    <2>1. "store" \notin cut => wraps = {}
      BY <1>t, <1>a, <1>2 DEF StartFresh, ActiveNewest, KeptInv, KeysKept
    <2>2. KeysKept'
      BY <1>t, <1>2, <2>1 DEF StartFresh, KeptInv, KeysKept, TypeOK, disk
    <2>3. ShredsKept'
      BY <1>t, <1>2 DEF StartFresh, KeptInv, ShredsKept, TypeOK, disk, LoadShreds
    <2> QED BY <1>t, <2>2, <2>3 DEF KeptInv
  <1>3. CASE WrapDek
    BY <1>t, <1>a, <1>3 DEF WrapDek, Idle, ActiveNewest, KeptInv, KeysKept, ShredsKept, TypeOK, mem, disk
  <1>4. CASE Rotate
    <2>1. PICK k \in Keks : keks' = Append(keks, k)
      BY <1>4 DEF Rotate
    <2>2. /\ Len(keks') = Len(keks) + 1
          /\ \A i \in 1..Len(keks) : i \in 1..Len(keks') /\ keks'[i] = keks[i]
      BY <1>t, <2>1 DEF TypeOK
    <2>3. KeysKept'
      BY <1>t, <1>4, <2>2 DEF Rotate, Idle, KeptInv, KeysKept, disk
    <2>4. ShredsKept'
      BY <1>4 DEF Rotate, Idle, KeptInv, ShredsKept, disk
    <2> QED BY <1>t, <2>3, <2>4 DEF KeptInv
  <1>5. CASE PersistOpens \/ PersistWrites
    <2>1. up /\ up' /\ UNCHANGED <<mem, lines, tail, wraps, shreds>>
      BY <1>a, <1>5 DEF PersistOpens, PersistWrites, ActiveNewest
    <2>2. KeysKept'
      BY <1>5, <2>1 DEF PersistOpens, PersistWrites, KeptInv, KeysKept, mem
    <2>3. ShredsKept'
      BY <1>5, <2>1 DEF PersistOpens, PersistWrites, KeptInv, ShredsKept, mem
    <2> QED BY <1>t, <2>2, <2>3 DEF KeptInv
  <1>6. CASE PersistFails \/ ShredAppendFails
    <2>1. CASE PersistFails
      BY <1>t, <2>1 DEF PersistFails, KeptInv, KeysKept, ShredsKept, mem
    <2>2. CASE ShredAppendFails
      BY <1>t, <2>2 DEF ShredAppendFails, KeptInv, KeysKept, ShredsKept, mem
    <2> QED BY <1>6, <2>1, <2>2
  <1>7. CASE ShredAgain \/ Shred
    BY <1>t, <1>7 DEF ShredAgain, Shred, Idle, KeptInv, KeysKept, ShredsKept, mem, disk
  <1>8. CASE ShredAppends
    BY <1>t, <1>8 DEF ShredAppends, LineAppended, KeptInv, KeysKept, ShredsKept, mem
  <1>9. CASE Stop
    <2>1. up /\ ~up' /\ op' = "none" /\ UNCHANGED <<wraps, shreds>>
      BY <1>9 DEF Stop
    <2>2. KeysKept'
      <3>1. "store" \notin cut' => "store" \notin cut /\ store' = store /\ op # "write"
        BY <1>9 DEF Stop, disk
      <3> QED BY <2>1, <3>1 DEF KeptInv, KeysKept
    <2>3. ShredsKept'
      <3>1. CASE op = "append"
        BY <1>9, <2>1, <3>1 DEF Stop, LineAppended, KeptInv, ShredsKept
      <3>2. CASE op # "append"
        BY <1>9, <2>1, <3>2 DEF Stop, KeptInv, ShredsKept, disk
      <3> QED BY <3>1, <3>2
    <2> QED BY <1>t, <2>2, <2>3 DEF KeptInv
  <1>10. CASE UNCHANGED vars
    BY <1>t, <1>10 DEF vars, mem, disk, KeptInv, KeysKept, ShredsKept
  <1> QED
    BY <1>1, <1>2, <1>3, <1>4, <1>5, <1>6, <1>7, <1>8, <1>9, <1>10 DEF Next

\* Keys and shreds are kept throughout.
LEMMA KeptInvariance == Spec => []KeptInv
  <1>1. KeptInv /\ NamedInv /\ [Next]_vars => KeptInv'
    BY NextKept
  <1> QED BY InitKept, <1>1, NamedInvariance, PTL DEF Spec

\* Every DEK that was not shredded unwraps to itself after any number of
\* rotations, restarts and faults, unless a rewrite of the store was cut.
THEOREM KeysSurviveUncutHolds == Spec => []KeysSurviveUncut
  <1>1. KeptInv => KeysSurviveUncut
    BY DEF KeptInv, KeysKept, KeysSurviveUncut, KeysSurvive, Idle, UnwrapDek
  <1> QED BY <1>1, KeptInvariance, PTL

\* A shred that returned holds in every later process, unless an append to the
\* sidecar was cut.
THEOREM ShredSurvivesUncutHolds == Spec => []ShredSurvivesUncut
  <1>1. KeptInv => ShredSurvivesUncut
    BY DEF KeptInv, ShredsKept, ShredSurvivesUncut, Idle, UnwrapDek
  <1> QED BY <1>1, KeptInvariance, PTL
=============================================================================
