------------------------- MODULE EventChannelProofs -------------------------
(***************************************************************************)
(* Proofs about EventChannel for any number of callers, subscriptions and  *)
(* publishes, cached or not, phi or not.                                   *)
(***************************************************************************)
EXTENDS EventChannel, SequenceTheorems, TLAPS

\* What callers and threads have to dispatch, or had when the call raised.
Jobs == {call[c] : c \in Caller} \cup jobs \cup lost

\* The cached value, and the moment each subscription was made, are publishes
\* that have been.
Past == last <= npub /\ \A s \in Sub : joined[s] <= npub

\* A replay is for somebody, and of a value no newer than the subscription.
ReplayIsOld ==
    \A j \in Jobs : j.kind = "replay" =>
        /\ j.snapshot # <<>>
        /\ \A i \in DOMAIN j.snapshot : j.value <= joined[j.snapshot[i]]

\* A dispatch thread of publish() has callbacks to run and a record behind it.
JobsRecorded ==
    \A j \in jobs :
        /\ j.snapshot # <<>>
        /\ Phi /\ j.kind = "publish" => j.value \in audited

\* What a callback ran on is older than its subscription or on record.
Seen == Phi => \A s \in Sub : \A i \in DOMAIN got[s] :
                  got[s][i] <= joined[s] \/ got[s][i] \in audited

IInv == TypeOK /\ call \in [Caller -> Job \cup {NoCall}] /\ Past /\ ReplayIsOld
           /\ JobsRecorded /\ Seen

-----------------------------------------------------------------------------

\* A channel that has just been constructed satisfies the invariant.
LEMMA InitIInv == Init => IInv
  <1> SUFFICES ASSUME Init PROVE IInv
    OBVIOUS
  <1>1. <<>> \in Seq(Sub) /\ <<>> \in Seq(Value) /\ 0 \in 0..MaxSub /\ 0 \in 0..MaxPublish
        /\ -1 \in -1..MaxPublish
    BY BoundAssumption
  <1>2. TypeOK
    BY <1>1 DEF Init, TypeOK
  <1>3. call \in [Caller -> Job \cup {NoCall}]
    BY DEF Init
  <1>4. Past /\ JobsRecorded
    BY DEF Init, Past, JobsRecorded
  <1>5. ReplayIsOld
    <2>1. \A j \in Jobs : j = NoCall
      BY DEF Init, Jobs
    <2>2. NoCall.kind # "replay"
      BY DEF NoCall
    <2> QED BY <2>1, <2>2 DEF ReplayIsOld
  <1>6. Seen
    BY DEF Init, Seen
  <1> QED BY <1>2, <1>3, <1>4, <1>5, <1>6 DEF IInv

\* The fields of a job, and of the locals of a caller without one.
LEMMA JobFields ==
    /\ \A j \in Job : /\ j.kind \in {"publish", "replay"} /\ j.snapshot \in Seq(Sub)
                      /\ j.value \in Value /\ j # NoCall
    /\ NoCall.kind = "none"
  BY DEF Job, NoCall

\* subscribe(), under the mutex.
LEMMA SubscribeIInv ==
    ASSUME IInv, NEW c \in Caller, Subscribe(c)
    PROVE  IInv'
  <1> DEFINE id == lastId + 1
             call1 == [kind |-> "replay", snapshot |-> <<id>>, value |-> last]
  <1>0. TypeOK /\ call \in [Caller -> Job \cup {NoCall}] /\ Past /\ ReplayIsOld
    BY DEF IInv
  <1>1. /\ lastId' = id /\ subs' = Append(subs, id) /\ joined' = [joined EXCEPT ![id] = npub]
        /\ call' = [call EXCEPT ![c] = IF cached /\ last # 0 THEN call1 ELSE NoCall]
        /\ UNCHANGED <<cached, last, jobs, audited, swallowed, got, npub, lost, left>>
    BY DEF Subscribe
  <1>2. id \in Sub /\ id \in 0..MaxSub
    BY <1>0, BoundAssumption DEF TypeOK, Sub, Subscribe
  <1>3. ASSUME last # 0 PROVE call1 \in Job
    <2>1. last \in Value /\ <<id>> \in Seq(Sub)
      BY <1>0, <1>2, <1>3, BoundAssumption DEF TypeOK, Value
    <2> QED BY <2>1 DEF Job
  <1>4. call' \in [Caller -> Job \cup {NoCall}]
    BY <1>0, <1>1, <1>3
  <1>5. npub \in 0..MaxPublish /\ joined \in [Sub -> 0..MaxPublish] /\ subs \in Seq(Sub)
    BY <1>0 DEF TypeOK
  <1>6. joined' \in [Sub -> 0..MaxPublish] /\ subs' \in Seq(Sub)
    BY <1>1, <1>2, <1>5
  <1>7. TypeOK'
    BY <1>0, <1>1, <1>2, <1>4, <1>6 DEF TypeOK
  <1>8. \A s \in Sub : joined[s] <= joined'[s] /\ joined'[s] <= npub
    BY <1>0, <1>1, <1>2, <1>5, BoundAssumption DEF Past
  <1>9. Past'
    BY <1>0, <1>1, <1>8 DEF Past
  <1>10. ReplayIsOld'
    <2> SUFFICES ASSUME NEW j \in Jobs', j.kind = "replay"
                 PROVE  /\ j.snapshot # <<>>
                        /\ \A i \in DOMAIN j.snapshot : j.value <= joined'[j.snapshot[i]]
      BY DEF ReplayIsOld
    <2>1. CASE j \in Jobs
      <3>1. j \in Job /\ j.snapshot # <<>>
        BY <1>0, <2>1, JobFields DEF ReplayIsOld, Jobs, TypeOK
      <3>2. ASSUME NEW i \in DOMAIN j.snapshot PROVE j.value <= joined'[j.snapshot[i]]
        <4>1. j.value <= joined[j.snapshot[i]]
          BY <1>0, <2>1 DEF ReplayIsOld
        <4>2. j.snapshot[i] \in Sub /\ j.value \in Value
          BY <3>1, JobFields
        <4>3. joined[j.snapshot[i]] \in Nat /\ joined'[j.snapshot[i]] \in Nat /\ j.value \in Nat
          BY <1>5, <1>6, <4>2, BoundAssumption DEF Value
        <4> QED BY <1>8, <4>1, <4>2, <4>3
      <3> QED BY <3>1, <3>2
    <2>2. CASE j \notin Jobs
      <3>1. j = call'[c] /\ j # NoCall
        BY <1>0, <1>1, <1>4, <2>2, JobFields DEF Jobs
      <3>2. j = call1
        BY <1>0, <1>1, <3>1
      <3>3. j.snapshot = <<id>> /\ j.value = last
        BY <3>2
      <3> QED BY <1>0, <1>1, <1>2, <1>5, <3>3 DEF Past
    <2> QED BY <2>1, <2>2
  <1>11. JobsRecorded'
    BY <1>1 DEF IInv, JobsRecorded
  <1>12. Seen'
    <2> SUFFICES ASSUME Phi, NEW s \in Sub, NEW i \in DOMAIN got[s]
                 PROVE  got[s][i] <= joined'[s] \/ got[s][i] \in audited
      BY <1>1 DEF Seen
    <2>1. got[s][i] <= joined[s] \/ got[s][i] \in audited
      BY DEF IInv, Seen
    <2>2. got[s][i] \in Nat /\ joined[s] \in Nat /\ joined'[s] \in Nat
      BY <1>0, <1>5, <1>6, BoundAssumption DEF TypeOK, Value
    <2> QED BY <1>8, <2>1, <2>2
  <1> QED BY <1>4, <1>7, <1>9, <1>10, <1>11, <1>12 DEF IInv

\* unsubscribe().
LEMMA UnsubscribeIInv ==
    ASSUME IInv, NEW c \in Caller, NEW id \in Sub, Unsubscribe(c, id)
    PROVE  IInv'
  <1>1. UNCHANGED <<cached, lastId, last, call, jobs, audited, swallowed, got, npub, lost, joined>>
    BY DEF Unsubscribe
  <1>2. subs' \in Seq(Sub)
    <2>1. subs \in Seq(Sub)
      BY DEF IInv, TypeOK
    <2>2. PICK i \in DOMAIN subs : subs' = RemoveAt(subs, i)
      BY DEF Unsubscribe
    <2>3. SubSeq(subs, 1, i - 1) \in Seq(Sub) /\ SubSeq(subs, i + 1, Len(subs)) \in Seq(Sub)
      BY <2>1
    <2> QED BY <2>2, <2>3 DEF RemoveAt
  <1>3. left' \in [Sub -> -1..MaxPublish]
    BY BoundAssumption DEF IInv, TypeOK, Unsubscribe
  <1>4. TypeOK'
    BY <1>1, <1>2, <1>3 DEF IInv, TypeOK
  <1> QED BY <1>1, <1>4 DEF IInv, Past, ReplayIsOld, Jobs, JobsRecorded, Seen

\* publish(), under the mutex.
LEMMA PublishIInv ==
    ASSUME IInv, NEW c \in Caller, Publish(c)
    PROVE  IInv'
  <1> DEFINE call1 == [kind |-> "publish", snapshot |-> subs, value |-> npub + 1]
  <1>0. TypeOK /\ call \in [Caller -> Job \cup {NoCall}] /\ Past /\ ReplayIsOld
    BY DEF IInv
  <1>1. /\ npub < MaxPublish /\ npub' = npub + 1 /\ last' \in {last, npub + 1}
        /\ call' = [call EXCEPT ![c] = call1]
        /\ UNCHANGED <<cached, subs, lastId, jobs, audited, swallowed, got, lost, joined, left>>
    BY DEF Publish
  <1>2. npub \in 0..MaxPublish /\ last \in 0..MaxPublish /\ subs \in Seq(Sub)
        /\ joined \in [Sub -> 0..MaxPublish]
    BY <1>0 DEF TypeOK
  <1>3. npub' \in Value /\ npub' \in 0..MaxPublish /\ last' \in 0..MaxPublish /\ last' <= npub'
    BY <1>0, <1>1, <1>2, BoundAssumption DEF Value, Past
  <1>4. call1 \in Job
    BY <1>1, <1>2, <1>3 DEF Job
  <1>5. call' \in [Caller -> Job \cup {NoCall}]
    BY <1>0, <1>1, <1>4
  <1>6. TypeOK'
    BY <1>0, <1>1, <1>3, <1>5 DEF TypeOK
  <1>7. Past'
    BY <1>0, <1>1, <1>2, <1>3, BoundAssumption DEF Past
  <1>8. ReplayIsOld'
    <2>1. ASSUME NEW j \in Jobs', j.kind = "replay" PROVE j \in Jobs
      <3>1. call1.kind # "replay"
        OBVIOUS
      <3> QED BY <1>0, <1>1, <2>1, <3>1 DEF Jobs
    <2> QED BY <1>0, <1>1, <2>1 DEF ReplayIsOld
  <1> QED BY <1>1, <1>5, <1>6, <1>7, <1>8 DEF IInv, JobsRecorded, Seen

\* The rest of subscribe() and publish(), after the unlock.
LEMMA FinishIInv ==
    ASSUME IInv, NEW c \in Caller,
           FinishPublish(c) \/ PublishRaises(c) \/ FinishReplay(c) \/ ReplayRaises(c)
    PROVE  IInv'
  <1>0. TypeOK /\ call \in [Caller -> Job \cup {NoCall}] /\ ReplayIsOld /\ JobsRecorded
    BY DEF IInv
  <1>1. /\ call' = [call EXCEPT ![c] = NoCall]
        /\ jobs' \in {jobs, jobs \cup {call[c]}}
        /\ lost' \in {lost, lost \cup {call[c]}}
        /\ audited' \in {audited, audited \cup {call[c].value}}
        /\ UNCHANGED <<cached, subs, lastId, last, swallowed, got, npub, joined, left>>
    BY DEF FinishPublish, PublishRaises, FinishReplay, ReplayRaises
  <1>2. call[c] \in Job
    BY <1>0, JobFields DEF FinishPublish, PublishRaises, FinishReplay, ReplayRaises
  <1>3. call' \in [Caller -> Job \cup {NoCall}]
    BY <1>0, <1>1
  <1>4. audited' \subseteq Value /\ \A j \in jobs' \cup lost' : j \in Job
    BY <1>0, <1>1, <1>2, JobFields DEF TypeOK
  <1>5. TypeOK'
    BY <1>0, <1>1, <1>3, <1>4 DEF TypeOK
  <1>6. Past'
    BY <1>1 DEF IInv, Past
  <1>7. ReplayIsOld'
    <2>1. \A j \in Jobs' : j \in Jobs \/ j = NoCall
      BY <1>0, <1>1 DEF Jobs
    <2> QED BY <1>0, <1>1, <2>1, JobFields DEF ReplayIsOld
  <1>8. JobsRecorded'
    <2>1. CASE FinishPublish(c)
      <3>1. /\ Phi => call[c].value \in audited'
            /\ jobs' # jobs => call[c].snapshot # <<>>
        BY <2>1 DEF FinishPublish
      <3>2. audited \subseteq audited'
        BY <1>1
      <3> QED BY <1>0, <1>1, <3>1, <3>2 DEF JobsRecorded
    <2>2. CASE FinishReplay(c)
      <3>1. call[c].kind = "replay" /\ audited' = audited
        BY <2>2 DEF FinishReplay
      <3>2. call[c].snapshot # <<>>
        BY <1>0, <3>1 DEF ReplayIsOld, Jobs
      <3> QED BY <1>0, <1>1, <3>1, <3>2 DEF JobsRecorded
    <2>3. CASE PublishRaises(c) \/ ReplayRaises(c)
      <3>1. jobs' = jobs /\ audited \subseteq audited'
        BY <1>1, <2>3 DEF PublishRaises, ReplayRaises
      <3> QED BY <1>0, <3>1 DEF JobsRecorded
    <2> QED BY <2>1, <2>2, <2>3
  <1>9. Seen'
    BY <1>1 DEF IInv, Seen
  <1> QED BY <1>3, <1>5, <1>6, <1>7, <1>8, <1>9 DEF IInv

\* A dispatch thread runs its next callback, which returns or throws.
LEMMA CallbackIInv ==
    ASSUME IInv, NEW j \in jobs, RunCallback(j) \/ CallbackThrows(j)
    PROVE  IInv'
  <1> DEFINE id == Head(j.snapshot)
             rest == [j EXCEPT !.snapshot = Tail(j.snapshot)]
  <1>0. TypeOK /\ ReplayIsOld /\ JobsRecorded /\ Seen /\ j \in Job /\ j \in Jobs
    BY DEF IInv, TypeOK, Jobs
  <1>1. /\ got' = [got EXCEPT ![id] = Append(@, j.value)]
        /\ jobs' = (jobs \ {j}) \cup (IF Len(j.snapshot) = 1 THEN {} ELSE {rest})
        /\ swallowed' \in {swallowed, swallowed \cup {<<id, j.value>>}}
        /\ UNCHANGED <<cached, subs, lastId, last, call, audited, npub, lost, joined, left>>
    BY DEF RunCallback, CallbackThrows, Advance
  <1>2. j.snapshot \in Seq(Sub) /\ j.snapshot # <<>> /\ j.value \in Value
    BY <1>0, JobFields DEF JobsRecorded
  <1>3. id \in Sub /\ id = j.snapshot[1] /\ 1 \in DOMAIN j.snapshot /\ Tail(j.snapshot) \in Seq(Sub)
    BY <1>2
  <1>4. rest \in Job /\ rest.kind = j.kind /\ rest.value = j.value /\ rest.snapshot = Tail(j.snapshot)
    BY <1>0, <1>3 DEF Job
  <1>5. \A i \in DOMAIN Tail(j.snapshot) : \E k \in DOMAIN j.snapshot :
            Tail(j.snapshot)[i] = j.snapshot[k]
    BY <1>2
  <1>6. Len(j.snapshot) # 1 => rest.snapshot # <<>>
    <2> SUFFICES ASSUME Len(j.snapshot) # 1
                 PROVE  Tail(j.snapshot) # <<>>
      BY <1>4
    <2> DEFINE t == j.snapshot
    <2>1. t \in Seq(Sub) /\ t # <<>> /\ Len(t) # 1
      BY <1>2
    <2> HIDE DEF t
    <2>2. Len(t) \in Nat /\ Len(t) # 0
      BY <2>1
    <2>3. Len(Tail(t)) = Len(t) - 1
      BY <2>1
    <2>4. Len(Tail(t)) # 0
      BY <2>1, <2>2, <2>3
    <2>5. Len(<<>>) = 0
      OBVIOUS
    <2> QED BY <2>4, <2>5, Zenon DEF t
  <1>7. got \in [Sub -> Seq(Value)]
    BY <1>0 DEF TypeOK
  <1>8. got' \in [Sub -> Seq(Value)]
    BY <1>1, <1>2, <1>3, <1>7
  <1>9. swallowed' \subseteq Sub \X Value
    BY <1>0, <1>1, <1>2, <1>3, SMTT(30) DEF TypeOK
  <1>10. \A k \in jobs' : k \in Job
    BY <1>0, <1>1, <1>4 DEF TypeOK
  <1> HIDE DEF id, rest
  <1>11. TypeOK'
    BY <1>0, <1>1, <1>8, <1>9, <1>10 DEF TypeOK
  <1>12. ReplayIsOld'
    <2> SUFFICES ASSUME NEW k \in Jobs', k.kind = "replay"
                 PROVE  /\ k.snapshot # <<>>
                        /\ \A i \in DOMAIN k.snapshot : k.value <= joined[k.snapshot[i]]
      BY <1>1 DEF ReplayIsOld
    <2>1. CASE k \in Jobs
      BY <1>0, <2>1 DEF ReplayIsOld
    <2>2. CASE k \notin Jobs
      <3>1. k = rest /\ Len(j.snapshot) # 1
        BY <1>1, <2>2 DEF Jobs
      <3> QED BY <1>0, <1>4, <1>5, <1>6, <3>1 DEF ReplayIsOld
    <2> QED BY <2>1, <2>2
  <1>13. JobsRecorded'
    BY <1>0, <1>1, <1>4, <1>6 DEF JobsRecorded
  <1>14. Seen'
    <2> SUFFICES ASSUME Phi, NEW s \in Sub, NEW i \in DOMAIN got'[s]
                 PROVE  got'[s][i] <= joined[s] \/ got'[s][i] \in audited
      BY <1>1 DEF Seen
    <2>1. CASE i \in DOMAIN got[s] /\ got'[s][i] = got[s][i]
      BY <1>0, <2>1 DEF Seen
    <2>2. CASE ~(i \in DOMAIN got[s] /\ got'[s][i] = got[s][i])
      <3>1. s = id /\ got'[s] = Append(got[s], j.value)
        BY <1>1, <1>3, <1>7, <2>2
      <3>2. got'[s][i] = j.value
        BY <1>2, <1>7, <2>2, <3>1
      <3>3. j.kind = "publish" => j.value \in audited
        BY <1>0 DEF JobsRecorded
      <3>4. j.kind = "replay" => j.value <= joined[s]
        BY <1>0, <1>3, <3>1 DEF ReplayIsOld
      <3> QED BY <1>0, <3>2, <3>3, <3>4, JobFields
    <2> QED BY <2>1, <2>2
  <1>15. Past' /\ call' \in [Caller -> Job \cup {NoCall}]
    BY <1>1 DEF IInv, Past
  <1> QED BY <1>11, <1>12, <1>13, <1>14, <1>15 DEF IInv

-----------------------------------------------------------------------------

\* Every step keeps the invariant.
LEMMA NextIInv == IInv /\ [Next]_vars => IInv'
  <1> SUFFICES ASSUME IInv, [Next]_vars PROVE IInv'
    OBVIOUS
  <1>1. CASE UNCHANGED vars
    BY <1>1 DEF vars, IInv, TypeOK, Past, ReplayIsOld, Jobs, JobsRecorded, Seen
  <1>2. CASE \E c \in Caller : Subscribe(c) \/ (\E id \in Sub : Unsubscribe(c, id)) \/ Publish(c)
    BY <1>2, SubscribeIInv, UnsubscribeIInv, PublishIInv
  <1>3. CASE \E c \in Caller :
            FinishPublish(c) \/ PublishRaises(c) \/ FinishReplay(c) \/ ReplayRaises(c)
    BY <1>3, FinishIInv
  <1>4. CASE \E j \in jobs : RunCallback(j) \/ CallbackThrows(j)
    BY <1>4, CallbackIInv
  <1> QED BY <1>1, <1>2, <1>3, <1>4 DEF Next

\* The invariant holds of every reachable state.
LEMMA IInvHolds == Spec => []IInv
  BY InitIInv, NextIInv, PTL DEF Spec

\* The channel's state is well-typed.
THEOREM TypeCorrect == Spec => []TypeOK
  <1>1. IInv => TypeOK
    BY DEF IInv
  <1> QED BY <1>1, IInvHolds, PTL

\* publish() writes its phi record before its dispatch thread runs a callback,
\* whatever other callers do between the unlock and the record.
THEOREM AuditedBeforeDispatchHolds == Spec => []AuditedBeforeDispatch
  <1>1. ASSUME IInv PROVE AuditedBeforeDispatch
    <2> SUFFICES ASSUME Phi, NEW s \in Sub, NEW k \in Value, k \in Range(got[s]), k > joined[s]
                 PROVE  k \in audited
      BY DEF AuditedBeforeDispatch
    <2>1. PICK i \in DOMAIN got[s] : got[s][i] = k
      BY DEF Range
    <2>2. k <= joined[s] \/ k \in audited
      BY <1>1, <2>1 DEF IInv, Seen
    <2>3. k \in Nat /\ joined[s] \in Nat
      BY <1>1, BoundAssumption DEF IInv, TypeOK, Value
    <2> QED BY <2>2, <2>3
  <1> QED BY <1>1, IInvHolds, PTL

-----------------------------------------------------------------------------
(* Exactly-once delivery and the order within a publish(). *)

Ascending(s) == \A i, k \in DOMAIN s : i < k => s[i] < s[k]

\* The cache holds the newest publish; ids are given out in order, and a
\* subscription not made yet has no past.
Ages ==
    /\ last = IF cached THEN npub ELSE 0
    /\ \A s \in Sub : left[s] <= npub
    /\ \A s \in Sub : s > lastId => left[s] = -1 /\ got[s] = <<>>
    /\ \A s, u \in Sub : s < u /\ u <= lastId => joined[s] <= joined[u]

\* subs_ is the subscriptions that have not left, oldest first.
SubsExact ==
    /\ Ascending(subs)
    /\ Range(subs) = {s \in Sub : s <= lastId /\ left[s] = -1}

\* A publish() goes to subscriptions it falls into, oldest first; a replay is of
\* the value that was cached when its one subscription was made.
Aimed ==
    \A j \in Jobs :
        /\ j.kind = "publish" =>
              /\ j.value <= npub
              /\ Ascending(j.snapshot)
              /\ \A s \in Range(j.snapshot) :
                    /\ s <= lastId /\ joined[s] < j.value
                    /\ left[s] = -1 \/ j.value <= left[s]
        /\ j.kind = "replay" =>
              /\ cached
              /\ \E s \in Sub : /\ s <= lastId /\ j.snapshot = <<s>>
                                /\ j.value = joined[s]

\* No two callers or threads dispatch the same publish() or the same replay, and
\* none dispatches what another call raised on.
Unlike(i, j) ==
    /\ i.kind = "publish" /\ j.kind = "publish" => i.value # j.value
    /\ i.kind = "replay" /\ j.kind = "replay" => i.snapshot # j.snapshot
Apart ==
    /\ \A c, d \in Caller : c # d => Unlike(call[c], call[d])
    /\ \A c \in Caller, j \in jobs \cup lost : Unlike(call[c], j)
    /\ \A i, j \in jobs \cup lost : i # j => Unlike(i, j)
    /\ jobs \cap lost = {}

\* Of one publish(), the subscriptions still to be called are younger than the
\* ones that have been.
OldestFirst ==
    \A j \in Jobs : j.kind = "publish" =>
        \A s \in Range(j.snapshot), u \in Sub :
            j.value \in Range(got[u]) /\ joined[u] < j.value => u < s

\* Job j has subscription s still to call, with value k.
Carries(j, s, k) == j.value = k /\ s \in Range(j.snapshot)

\* Value k is one that subscription s must see.
Owes(s, k) ==
    /\ s <= lastId
    /\ \/ joined[s] < k /\ k <= npub /\ (left[s] = -1 \/ k <= left[s])
       \/ cached /\ k = joined[s]

\* ExactlyOnce, value by value.
Delivered ==
    \A s \in Sub :
        /\ IsInjective(got[s])
        /\ \A k \in Value :
              /\ ~(k \in Range(got[s]) /\ \E j \in Jobs : Carries(j, s, k))
              /\ (k \in Range(got[s]) \/ \E j \in Jobs : Carries(j, s, k)) <=> Owes(s, k)

Exact == Ages /\ SubsExact /\ Aimed /\ Apart /\ OldestFirst /\ Delivered

-----------------------------------------------------------------------------
(* Sequences: what an Append, a Tail and a RemoveAt leave. *)

\* Append adds one element.
LEMMA RangeAppend ==
    ASSUME NEW S, NEW s \in Seq(S), NEW x \in S
    PROVE  Range(Append(s, x)) = Range(s) \cup {x}
  <1>1. /\ Append(s, x) \in Seq(S) /\ Len(Append(s, x)) = Len(s) + 1 /\ Len(s) \in Nat
        /\ \A i \in 1..Len(s) : Append(s, x)[i] = s[i]
        /\ Append(s, x)[Len(s) + 1] = x
    OBVIOUS
  <1>2. DOMAIN s = 1..Len(s) /\ DOMAIN Append(s, x) = 1..(Len(s) + 1)
    BY <1>1
  <1>3. \A i \in 1..(Len(s) + 1) : i \in 1..Len(s) \/ i = Len(s) + 1
    BY <1>1
  <1>4. \A i \in 1..Len(s) : i \in 1..(Len(s) + 1)
    BY <1>1
  <1>5. Len(s) + 1 \in 1..(Len(s) + 1)
    BY <1>1
  <1> QED BY <1>1, <1>2, <1>3, <1>4, <1>5 DEF Range

\* The head of an ascending sequence is below the rest of it.
LEMMA RangeTail ==
    ASSUME NEW s \in Seq(Sub), s # <<>>
    PROVE  /\ Head(s) \in Sub /\ Range(s) = {Head(s)} \cup Range(Tail(s))
           /\ Ascending(s) => /\ Ascending(Tail(s))
                              /\ \A u \in Range(Tail(s)) : Head(s) < u
  <1>1. /\ Tail(s) \in Seq(Sub) /\ Len(Tail(s)) = Len(s) - 1 /\ Len(s) \in Nat /\ Len(s) > 0
        /\ \A i \in 1..(Len(s) - 1) : Tail(s)[i] = s[i + 1]
        /\ Head(s) = s[1] /\ s[1] \in Sub
    OBVIOUS
  <1>2. DOMAIN s = 1..Len(s) /\ DOMAIN Tail(s) = 1..(Len(s) - 1)
    BY <1>1
  <1>3. \A i \in 1..Len(s) : i = 1 \/ (i - 1 \in 1..(Len(s) - 1) /\ (i - 1) + 1 = i)
    BY <1>1
  <1>4. 1 \in 1..Len(s) /\ \A i \in 1..(Len(s) - 1) : i + 1 \in 1..Len(s) /\ 1 < i + 1
    BY <1>1
  <1>5. Range(s) = {Head(s)} \cup Range(Tail(s))
    <2>1. \A i \in 1..Len(s) : s[i] = Head(s) \/ \E k \in DOMAIN Tail(s) : s[i] = Tail(s)[k]
      BY <1>1, <1>2, <1>3
    <2>2. \A k \in DOMAIN Tail(s) : \E i \in DOMAIN s : Tail(s)[k] = s[i]
      BY <1>1, <1>2, <1>4
    <2>3. \E i \in DOMAIN s : Head(s) = s[i]
      BY <1>1, <1>2, <1>4
    <2> QED BY <1>2, <2>1, <2>2, <2>3 DEF Range
  <1>6. ASSUME Ascending(s) PROVE Ascending(Tail(s)) /\ \A u \in Range(Tail(s)) : Head(s) < u
    <2>1. \A i, k \in 1..(Len(s) - 1) : i < k => i + 1 < k + 1
      OBVIOUS
    <2>2. Ascending(Tail(s))
      BY <1>1, <1>2, <1>4, <1>6, <2>1 DEF Ascending
    <2>3. \A i \in 1..(Len(s) - 1) : s[1] < s[i + 1]
      BY <1>2, <1>4, <1>6 DEF Ascending
    <2> QED BY <1>1, <1>2, <2>2, <2>3 DEF Range
  <1> QED BY <1>1, <1>5, <1>6

\* Removing one element of an ascending sequence removes its value.
LEMMA RangeRemove ==
    ASSUME NEW s \in Seq(Sub), Ascending(s), NEW i \in DOMAIN s
    PROVE  /\ Ascending(RemoveAt(s, i))
           /\ Range(RemoveAt(s, i)) = Range(s) \ {s[i]}
  <1> DEFINE n == Len(s)
             r == RemoveAt(s, i)
  <1>1. n \in Nat /\ i \in 1..n /\ DOMAIN s = 1..n /\ \A k \in 1..n : s[k] \in Sub
    OBVIOUS
  <1>2. /\ SubSeq(s, 1, i - 1) \in Seq(Sub) /\ Len(SubSeq(s, 1, i - 1)) = i - 1
        /\ SubSeq(s, i + 1, n) \in Seq(Sub) /\ Len(SubSeq(s, i + 1, n)) = n - i
        /\ \A k \in 1..(i - 1) : SubSeq(s, 1, i - 1)[k] = s[k]
        /\ \A k \in 1..(n - i) : SubSeq(s, i + 1, n)[k] = s[i + k]
    <2>1. /\ 1 \in Int /\ i - 1 \in Int /\ i + 1 \in Int /\ n \in Int
          /\ \A k \in 1..(i - 1) : s[k] \in Sub
          /\ \A k \in (i + 1)..n : s[k] \in Sub
      BY <1>1
    <2>2. /\ SubSeq(s, 1, i - 1) \in Seq(Sub)
          /\ Len(SubSeq(s, 1, i - 1)) = IF 1 <= i - 1 THEN (i - 1) - 1 + 1 ELSE 0
          /\ \A k \in 1..((i - 1) - 1 + 1) : SubSeq(s, 1, i - 1)[k] = s[1 + k - 1]
      BY <2>1, SubSeqProperties
    <2>3. /\ SubSeq(s, i + 1, n) \in Seq(Sub)
          /\ Len(SubSeq(s, i + 1, n)) = IF i + 1 <= n THEN n - (i + 1) + 1 ELSE 0
          /\ \A k \in 1..(n - (i + 1) + 1) : SubSeq(s, i + 1, n)[k] = s[(i + 1) + k - 1]
      BY <2>1, SubSeqProperties
    <2>4. (i - 1) - 1 + 1 = i - 1 /\ n - (i + 1) + 1 = n - i
      BY <1>1
    <2>5. \A k \in 1..n : 1 + k - 1 = k /\ (i + 1) + k - 1 = i + k
      BY <1>1
    <2>6. (1 <= i - 1 \/ i - 1 = 0) /\ (i + 1 <= n \/ n - i = 0)
      BY <1>1
    <2>7. \A k \in 1..(i - 1) : k \in 1..n
      BY <1>1
    <2>8. \A k \in 1..(n - i) : k \in 1..n
      BY <1>1
    <2> HIDE DEF n
    <2>9. Len(SubSeq(s, 1, i - 1)) = i - 1 /\ Len(SubSeq(s, i + 1, n)) = n - i
      BY <1>1, <2>2, <2>3, <2>4, <2>6
    <2>10. \A k \in 1..(i - 1) : SubSeq(s, 1, i - 1)[k] = s[k]
      BY <2>2, <2>4, <2>5, <2>7
    <2>11. \A k \in 1..(n - i) : SubSeq(s, i + 1, n)[k] = s[i + k]
      BY <2>3, <2>4, <2>5, <2>8
    <2> QED BY <2>2, <2>3, <2>9, <2>10, <2>11
  <1> DEFINE s1 == SubSeq(s, 1, i - 1)
             s2 == SubSeq(s, i + 1, n)
  <1>3. r = s1 \o s2 /\ s1 \in Seq(Sub) /\ s2 \in Seq(Sub) /\ Len(s1) = i - 1 /\ Len(s2) = n - i
    BY <1>2 DEF RemoveAt
  <1>30. /\ \A k \in 1..(i - 1) : s1[k] = s[k]
         /\ \A k \in 1..(n - i) : s2[k] = s[i + k]
    BY <1>2
  <1> HIDE DEF n, r, s1, s2
  <1>31. /\ r \in Seq(Sub) /\ Len(r) = Len(s1) + Len(s2)
         /\ \A k \in 1..(Len(s1) + Len(s2)) :
                r[k] = IF k <= Len(s1) THEN s1[k] ELSE s2[k - Len(s1)]
    BY <1>3, ConcatProperties
  <1>32. Len(s1) + Len(s2) = n - 1 /\ Len(r) = n - 1
    BY <1>1, <1>3, <1>31
  <1>4. ASSUME NEW k \in 1..(n - 1) PROVE r[k] = IF k < i THEN s[k] ELSE s[k + 1]
    <2>0. r[k] = IF k <= i - 1 THEN s1[k] ELSE s2[k - (i - 1)]
      BY <1>3, <1>31, <1>32
    <2>1. CASE k < i
      <3>1. k \in 1..(i - 1) /\ k <= i - 1
        BY <1>1, <2>1
      <3> QED BY <1>30, <2>0, <2>1, <3>1
    <2>2. CASE ~(k < i)
      <3>1. k - (i - 1) \in 1..(n - i) /\ i + (k - (i - 1)) = k + 1 /\ ~(k <= i - 1)
        BY <1>1, <2>2
      <3> QED BY <1>30, <2>0, <2>2, <3>1
    <2> QED BY <2>1, <2>2
  <1>5. DOMAIN r = 1..(n - 1)
    BY <1>31, <1>32
  <1> DEFINE at(k) == IF k < i THEN k ELSE k + 1
  <1>6. \A k \in 1..(n - 1) : at(k) \in 1..n /\ at(k) # i
    BY <1>1
  <1>7. \A k \in 1..(n - 1) : r[k] = s[at(k)]
    BY <1>4
  <1>8. \A k, l \in 1..(n - 1) : k < l => at(k) < at(l)
    BY <1>1
  <1>9. \A m \in 1..n : m # i => \E k \in 1..(n - 1) : at(k) = m
    <2> SUFFICES ASSUME NEW m \in 1..n, m # i PROVE \E k \in 1..(n - 1) : at(k) = m
      OBVIOUS
    <2>1. CASE m < i
      <3>1. m \in 1..(n - 1) /\ at(m) = m
        BY <1>1, <2>1
      <3> QED BY <3>1
    <2>2. CASE m > i
      <3>1. m - 1 \in 1..(n - 1) /\ at(m - 1) = m
        BY <1>1, <2>2
      <3> QED BY <3>1
    <2> QED BY <1>1, <2>1, <2>2
  <1> HIDE DEF at
  <1>10. Ascending(r)
    BY <1>1, <1>5, <1>6, <1>7, <1>8 DEF Ascending
  <1>11. \A k \in 1..n : k # i => s[k] # s[i]
    <2> SUFFICES ASSUME NEW k \in 1..n, k # i PROVE s[k] # s[i]
      OBVIOUS
    <2>1. k < i \/ i < k
      BY <1>1
    <2>2. s[k] < s[i] \/ s[i] < s[k]
      BY <1>1, <2>1 DEF Ascending
    <2>3. s[k] \in Nat /\ s[i] \in Nat
      BY <1>1 DEF Sub
    <2> QED BY <2>2, <2>3
  <1>12. Range(r) = Range(s) \ {s[i]}
    <2>1. \A k \in 1..(n - 1) : \E m \in 1..n : r[k] = s[m] /\ s[m] # s[i]
      BY <1>6, <1>7, <1>11
    <2>2. \A m \in 1..n : s[m] # s[i] => \E k \in 1..(n - 1) : r[k] = s[m]
      BY <1>7, <1>9
    <2>3. Range(r) = {r[k] : k \in 1..(n - 1)} /\ Range(s) = {s[m] : m \in 1..n}
      BY <1>1, <1>5 DEF Range
    <2>4. ASSUME NEW x \in Range(r) PROVE x \in Range(s) \ {s[i]}
      BY <2>1, <2>3, <2>4
    <2>5. ASSUME NEW x \in Range(s) \ {s[i]} PROVE x \in Range(r)
      BY <2>2, <2>3, <2>5
    <2> QED BY <2>4, <2>5
  <1> QED BY <1>10, <1>12 DEF r

-----------------------------------------------------------------------------
(* The invariant Exact. *)

\* What the types say of a state.
Typed ==
    /\ lastId \in Nat /\ npub \in Nat /\ cached \in BOOLEAN /\ subs \in Seq(Sub)
    /\ lastId <= MaxSub /\ npub <= MaxPublish
    /\ joined \in [Sub -> Nat] /\ left \in [Sub -> Int] /\ got \in [Sub -> Seq(Value)]
    /\ call \in [Caller -> Job \cup {NoCall}]
    /\ \A s \in Sub : Range(got[s]) \subseteq Value
    /\ \A s \in Sub : joined[s] <= npub
    /\ \A j \in Jobs : j = NoCall \/ j \in Job
    /\ \A j \in Jobs : Range(j.snapshot) \subseteq Sub
    /\ \A s \in Sub, k \in Value :
          k \in Pending(s) \cup Lost(s) <=> \E j \in Jobs : Carries(j, s, k)

\* The types, with deliveries under way or lost as what the jobs carry.
LEMMA TypedHolds == IInv => Typed
  <1> SUFFICES ASSUME IInv PROVE Typed
    OBVIOUS
  <1>1. TypeOK /\ call \in [Caller -> Job \cup {NoCall}] /\ Past
    BY DEF IInv
  <1>2. /\ lastId \in Nat /\ npub \in Nat /\ cached \in BOOLEAN /\ subs \in Seq(Sub)
        /\ lastId <= MaxSub /\ npub <= MaxPublish
        /\ joined \in [Sub -> Nat] /\ left \in [Sub -> Int] /\ got \in [Sub -> Seq(Value)]
    BY <1>1, BoundAssumption DEF TypeOK
  <1>3. \A s \in Sub : Range(got[s]) \subseteq Value
    BY <1>2 DEF Range
  <1>4. \A j \in Jobs : j = NoCall \/ j \in Job
    BY <1>1 DEF Jobs, TypeOK
  <1>5. ASSUME NEW j \in Jobs PROVE Range(j.snapshot) \subseteq Sub
    <2>1. j.snapshot \in Seq(Sub)
      <3>1. NoCall.snapshot = <<>> /\ <<>> \in Seq(Sub)
        BY DEF NoCall
      <3> QED BY <1>4, <1>5, <3>1, JobFields
    <2> QED BY <2>1 DEF Range
  <1>6. \A s \in Sub, k \in Value :
            k \in Pending(s) \cup Lost(s) <=> \E j \in Jobs : Carries(j, s, k)
    BY DEF Pending, Lost, Jobs, Carries
  <1> QED BY <1>1, <1>2, <1>3, <1>4, <1>5, <1>6 DEF Typed, Past

\* Delivered says no less than ExactlyOnce.
LEMMA DeliveredIsExactlyOnce == Typed /\ Ages /\ Delivered => ExactlyOnce
  <1> SUFFICES ASSUME Typed, Ages, Delivered, NEW s \in Sub
               PROVE  /\ IsInjective(got[s])
                      /\ Range(got[s]) \cap (Pending(s) \cup Lost(s)) = {}
                      /\ Range(got[s]) \cup Pending(s) \cup Lost(s) = Owed(s)
    BY DEF ExactlyOnce
  <1>1. /\ s \in Nat /\ lastId \in Nat /\ npub \in Nat /\ joined[s] \in Nat /\ left[s] \in Int
        /\ left[s] <= npub /\ joined[s] <= npub /\ npub <= MaxPublish
    BY DEF Typed, Ages, Sub
  <1>2. Range(got[s]) \subseteq Value /\ Pending(s) \cup Lost(s) \subseteq Value
    BY DEF Typed, Pending, Lost
  <1>3. Owed(s) \subseteq Value /\ \A k \in Value : k \in Owed(s) <=> Owes(s, k)
    <2>1. Value \subseteq Nat /\ \A k \in Value : k > 0
      BY DEF Value
    <2>2. CASE s > lastId
      BY <1>1, <2>2 DEF Owed, Owes
    <2>3. CASE s <= lastId
      <3>1. joined[s] > 0 => joined[s] \in Value
        BY <1>1, BoundAssumption DEF Value
      <3>2. \A k \in Value : (k <= (IF left[s] = -1 THEN npub ELSE left[s]))
                               <=> (k <= npub /\ (left[s] = -1 \/ k <= left[s]))
        BY <1>1, <2>1
      <3> QED BY <1>1, <2>1, <2>3, <3>1, <3>2 DEF Owed, Owes
    <2> QED BY <1>1, <2>2, <2>3
  <1>4. \A k \in Value : k \in Pending(s) \cup Lost(s) <=> \E j \in Jobs : Carries(j, s, k)
    BY DEF Typed
  <1>5. IsInjective(got[s]) /\ \A k \in Value :
              /\ ~(k \in Range(got[s]) /\ k \in Pending(s) \cup Lost(s))
              /\ (k \in Range(got[s]) \/ k \in Pending(s) \cup Lost(s)) <=> k \in Owed(s)
    BY <1>3, <1>4 DEF Delivered
  <1> QED BY <1>2, <1>3, <1>5

\* A new channel.
LEMMA InitExact == Init => Exact
  <1> SUFFICES ASSUME Init PROVE Exact
    OBVIOUS
  <1>1. \A j \in Jobs : j = NoCall
    BY DEF Init, Jobs
  <1>2. NoCall.kind = "none" /\ NoCall.snapshot = <<>> /\ Range(<<>>) = {}
    BY DEF NoCall, Range
  <1>3. subs = <<>> /\ lastId = 0 /\ npub = 0 /\ last = 0 /\ jobs = {} /\ lost = {}
        /\ \A s \in Sub : got[s] = <<>> /\ left[s] = -1 /\ joined[s] = 0
    BY DEF Init
  <1>4. \A s \in Sub : s \in Nat /\ ~(s <= lastId)
    BY <1>3 DEF Sub
  <1>5. Ages
    BY <1>3, <1>4 DEF Ages
  <1>6. SubsExact
    BY <1>2, <1>3, <1>4 DEF SubsExact, Ascending
  <1>7. Aimed /\ OldestFirst
    BY <1>1, <1>2 DEF Aimed, OldestFirst
  <1>8. Apart
    BY <1>2, <1>3 DEF Init, Apart, Unlike
  <1>9. Delivered
    <2>1. \A s \in Sub : IsInjective(got[s]) /\ Range(got[s]) = {}
      BY <1>2, <1>3 DEF IsInjective
    <2>2. \A s, k : ~\E j \in Jobs : Carries(j, s, k)
      BY <1>1, <1>2 DEF Carries
    <2> QED BY <1>4, <2>1, <2>2 DEF Delivered, Owes
  <1> QED BY <1>5, <1>6, <1>7, <1>8, <1>9 DEF Exact

\* A newer id at the end keeps the order.
LEMMA AscendingAppend ==
    ASSUME NEW s \in Seq(Sub), NEW x \in Sub, Ascending(s), \A u \in Range(s) : u < x
    PROVE  Ascending(Append(s, x))
  <1>1. /\ Len(s) \in Nat /\ DOMAIN s = 1..Len(s) /\ DOMAIN Append(s, x) = 1..(Len(s) + 1)
        /\ \A i \in 1..Len(s) : Append(s, x)[i] = s[i]
        /\ Append(s, x)[Len(s) + 1] = x
    OBVIOUS
  <1>2. \A i \in 1..Len(s) : s[i] < x
    BY <1>1 DEF Range
  <1>3. \A i, k \in 1..(Len(s) + 1) : i < k =>
            i \in 1..Len(s) /\ (k \in 1..Len(s) \/ k = Len(s) + 1)
    BY <1>1
  <1> QED BY <1>1, <1>2, <1>3 DEF Ascending

\* A caller or thread with nothing to dispatch carries nothing.
LEMMA NoCallIsIdle ==
    /\ NoCall.kind = "none"
    /\ \A s, k : ~Carries(NoCall, s, k)
    /\ \A j : Unlike(NoCall, j) /\ Unlike(j, NoCall)
  <1>1. NoCall.snapshot = <<>> /\ NoCall.kind = "none" /\ Range(<<>>) = {}
    BY DEF NoCall, Range
  <1> QED BY <1>1 DEF Carries, Unlike

\* subscribe(), under the mutex: the new id is the youngest, and the value to
\* replay to it is the newest publish().
LEMMA SubscribeExact ==
    ASSUME Typed, Typed', Exact, NEW c \in Caller, Subscribe(c)
    PROVE  Exact'
  <1> DEFINE id == lastId + 1
             call1 == [kind |-> "replay", snapshot |-> <<id>>, value |-> last]
             replays == cached /\ last # 0
  <1>0. Ages /\ SubsExact /\ Aimed /\ Apart /\ OldestFirst /\ Delivered
    BY DEF Exact
  <1>1. /\ call[c] = NoCall /\ lastId' = id /\ lastId < MaxSub /\ subs' = Append(subs, id)
        /\ joined' = [joined EXCEPT ![id] = npub]
        /\ call' = [call EXCEPT ![c] = IF replays THEN call1 ELSE NoCall]
        /\ UNCHANGED <<cached, last, jobs, got, npub, lost, left>>
    BY DEF Subscribe
  <1>2. /\ lastId \in Nat /\ id \in Sub /\ id \in Nat /\ Sub \subseteq Nat /\ npub \in Nat
        /\ joined \in [Sub -> Nat] /\ left \in [Sub -> Int] /\ subs \in Seq(Sub)
        /\ call \in [Caller -> Job \cup {NoCall}]
    BY <1>1, BoundAssumption DEF Typed, Sub
  <1>3. joined'[id] = npub /\ \A s \in Sub : s # id => joined'[s] = joined[s]
    BY <1>1, <1>2
  <1>4. call1.kind = "replay" /\ call1.snapshot = <<id>> /\ call1.value = last
        /\ Range(call1.snapshot) = {id}
    BY DEF Range
  <1>5. /\ \A j \in Jobs' : j \in Jobs \/ j = NoCall \/ (replays /\ j = call1)
        /\ \A j \in Jobs : j = NoCall \/ j \in Jobs'
        /\ replays => call1 \in Jobs'
    <2>1. call'[c] = IF replays THEN call1 ELSE NoCall
      BY <1>1, <1>2
    <2>2. \A d \in Caller : d # c => call'[d] = call[d]
      BY <1>1, <1>2
    <2> QED BY <1>1, <2>1, <2>2 DEF Jobs
  <1> HIDE DEF id, call1, replays
  <1>6. \A s \in Sub : s <= lastId' <=> (s <= lastId \/ s = id)
    BY <1>1, <1>2 DEF id
  <1>7. ~(id <= lastId) /\ id > lastId /\ \A s \in Sub : s <= lastId => s < id /\ s # id
    BY <1>2 DEF id
  <1>8. left[id] = -1 /\ got[id] = <<>> /\ Range(<<>>) = {}
    BY <1>0, <1>2, <1>7 DEF Ages, Range
  <1>9. Ages'
    <2>1. \A s \in Sub : joined[s] <= npub
      BY DEF Typed
    <2>2. ASSUME NEW s \in Sub, NEW u \in Sub, s < u, u <= lastId'
          PROVE  joined'[s] <= joined'[u]
      <3>1. CASE u = id
        <4>1. s # id
          BY <1>2, <2>2, <3>1
        <4> QED BY <1>3, <2>1, <3>1, <4>1
      <3>2. CASE u # id
        <4>1. u <= lastId /\ s # id
          BY <1>2, <1>6, <1>7, <2>2, <3>2
        <4> QED BY <1>0, <1>3, <2>2, <3>2, <4>1 DEF Ages
      <3> QED BY <3>1, <3>2
    <2>3. \A s \in Sub : s > lastId' => s > lastId
      BY <1>1, <1>2 DEF id
    <2> QED BY <1>0, <1>1, <2>2, <2>3 DEF Ages
  <1>10. SubsExact'
    <2>1. \A u \in Range(subs) : u < id
      BY <1>0, <1>7 DEF SubsExact
    <2>2. Ascending(subs') /\ Range(subs') = Range(subs) \cup {id}
      BY <1>0, <1>1, <1>2, <2>1, AscendingAppend, RangeAppend DEF SubsExact
    <2> QED BY <1>0, <1>1, <1>2, <1>6, <1>8, <2>2 DEF SubsExact
  <1>11. Aimed'
    <2> SUFFICES ASSUME NEW j \in Jobs'
                 PROVE  /\ j.kind = "publish" =>
                              /\ j.value <= npub
                              /\ Ascending(j.snapshot)
                              /\ \A s \in Range(j.snapshot) :
                                    /\ s <= lastId' /\ joined'[s] < j.value
                                    /\ left[s] = -1 \/ j.value <= left[s]
                        /\ j.kind = "replay" =>
                              /\ cached
                              /\ \E s \in Sub : /\ s <= lastId' /\ j.snapshot = <<s>>
                                                /\ j.value = joined'[s]
      BY <1>1 DEF Aimed
    <2>1. CASE j \in Jobs
      <3>1. Range(j.snapshot) \subseteq Sub
        BY <2>1 DEF Typed
      <3> QED BY <1>0, <1>3, <1>6, <1>7, <2>1, <3>1 DEF Aimed
    <2>2. CASE j = NoCall
      BY <2>2, NoCallIsIdle
    <2>3. CASE replays /\ j = call1
      <3>1. last = npub
        BY <1>0, <2>3 DEF Ages, replays
      <3>2. cached
        BY <2>3 DEF replays
      <3> QED BY <1>2, <1>3, <1>4, <1>6, <2>3, <3>1, <3>2
    <2> QED BY <1>5, <2>1, <2>2, <2>3
  <1>12. Apart'
    <2>1. \A j \in Jobs : Unlike(j, call1) /\ Unlike(call1, j)
      <3> SUFFICES ASSUME NEW j \in Jobs, j.kind = "replay" PROVE j.snapshot # call1.snapshot
        BY <1>4 DEF Unlike
      <3>1. PICK s \in Sub : s <= lastId /\ j.snapshot = <<s>>
        BY <1>0 DEF Aimed
      <3>2. s # id
        BY <1>7, <3>1
      <3>3. <<s>>[1] = s /\ <<id>>[1] = id
        OBVIOUS
      <3> QED BY <1>4, <3>1, <3>2, <3>3
    <2>2. call'[c] \in {NoCall, call1}
      BY <1>1, <1>2
    <2>3. \A j \in Jobs : Unlike(j, call'[c]) /\ Unlike(call'[c], j)
      BY <2>1, <2>2, NoCallIsIdle
    <2>4. \A d \in Caller : d # c => call'[d] = call[d] /\ call[d] \in Jobs
      BY <1>1, <1>2 DEF Jobs
    <2>5. jobs' = jobs /\ lost' = lost /\ jobs \cup lost \subseteq Jobs
      BY <1>1 DEF Jobs
    <2>6. ASSUME NEW d \in Caller, NEW e \in Caller, d # e PROVE Unlike(call'[d], call'[e])
      <3>1. CASE d = c
        BY <2>3, <2>4, <2>6, <3>1
      <3>2. CASE e = c
        BY <2>3, <2>4, <2>6, <3>2
      <3>3. CASE d # c /\ e # c
        BY <1>0, <2>4, <2>6, <3>3 DEF Apart
      <3> QED BY <3>1, <3>2, <3>3
    <2>7. ASSUME NEW d \in Caller, NEW j \in jobs \cup lost PROVE Unlike(call'[d], j)
      <3>1. CASE d = c
        BY <2>3, <2>5, <3>1
      <3>2. CASE d # c
        BY <1>0, <2>4, <3>2 DEF Apart
      <3> QED BY <3>1, <3>2
    <2> QED BY <1>0, <2>5, <2>6, <2>7 DEF Apart
  <1>13. OldestFirst'
    <2> SUFFICES ASSUME NEW j \in Jobs', j.kind = "publish",
                        NEW s \in Range(j.snapshot), NEW u \in Sub,
                        j.value \in Range(got[u]), joined'[u] < j.value
                 PROVE  u < s
      BY <1>1 DEF OldestFirst
    <2>1. j \in Jobs
      BY <1>4, <1>5, NoCallIsIdle
    <2>2. u # id
      BY <1>8
    <2> QED BY <1>0, <1>3, <2>1, <2>2 DEF OldestFirst
  <1>14. Delivered'
    <2> SUFFICES ASSUME NEW s \in Sub, NEW k \in Value
                 PROVE  /\ IsInjective(got[s])
                        /\ ~(k \in Range(got[s]) /\ \E j \in Jobs' : Carries(j, s, k))
                        /\ (k \in Range(got[s]) \/ \E j \in Jobs' : Carries(j, s, k))
                              <=> Owes(s, k)'
      <3>1. \A s \in Sub : IsInjective(got[s])
        BY <1>0 DEF Delivered
      <3> QED BY <1>1, <3>1 DEF Delivered
    <2>0. /\ IsInjective(got[s])
          /\ ~(k \in Range(got[s]) /\ \E j \in Jobs : Carries(j, s, k))
          /\ (k \in Range(got[s]) \/ \E j \in Jobs : Carries(j, s, k)) <=> Owes(s, k)
      BY <1>0 DEF Delivered
    <2>1. CASE s # id
      <3>1. ~Carries(call1, s, k)
        BY <1>4, <2>1 DEF Carries
      <3>2. (\E j \in Jobs' : Carries(j, s, k)) <=> \E j \in Jobs : Carries(j, s, k)
        BY <1>5, <3>1, NoCallIsIdle
      <3>3. Owes(s, k)' <=> Owes(s, k)
        BY <1>1, <1>3, <1>6, <2>1 DEF Owes
      <3> QED BY <2>0, <3>2, <3>3
    <2>2. CASE s = id
      <3>1. ~Owes(s, k)
        BY <1>7, <2>2 DEF Owes
      <3>2. (\E j \in Jobs' : Carries(j, s, k)) <=> replays /\ k = last
        <4>1. Carries(call1, s, k) <=> k = last
          BY <1>4, <2>2 DEF Carries
        <4> QED BY <1>5, <2>0, <3>1, <4>1, NoCallIsIdle
      <3>3. Owes(s, k)' <=> cached /\ k = npub
        <4>1. k \in Nat /\ ~(npub < k /\ k <= npub)
          BY <1>2 DEF Value
        <4> QED BY <1>1, <1>2, <1>3, <1>6, <2>2, <4>1 DEF Owes
      <3>4. replays /\ k = last <=> cached /\ k = npub
        <4>1. k # 0
          BY DEF Value
        <4> QED BY <1>0, <4>1 DEF Ages, replays
      <3> QED BY <1>8, <2>0, <2>2, <3>2, <3>3, <3>4
    <2> QED BY <2>1, <2>2
  <1> QED BY <1>9, <1>10, <1>11, <1>12, <1>13, <1>14 DEF Exact

\* unsubscribe(): what was owed stays owed, and what is under way stays so.
LEMMA UnsubscribeExact ==
    ASSUME Typed, Exact, NEW c \in Caller, NEW id \in Sub, Unsubscribe(c, id)
    PROVE  Exact'
  <1>0. Ages /\ SubsExact /\ Aimed /\ Apart /\ OldestFirst /\ Delivered
    BY DEF Exact
  <1>1. /\ left' = [left EXCEPT ![id] = npub]
        /\ UNCHANGED <<cached, lastId, last, call, jobs, got, npub, lost, joined>>
    BY DEF Unsubscribe
  <1>2. PICK i \in DOMAIN subs : subs[i] = id /\ subs' = RemoveAt(subs, i)
    BY DEF Unsubscribe
  <1>3. subs \in Seq(Sub) /\ left \in [Sub -> Int] /\ npub \in Nat /\ lastId \in Nat
        /\ Sub \subseteq Nat /\ Value \subseteq Nat
    BY DEF Typed, Sub, Value
  <1>4. id <= lastId /\ left[id] = -1
    BY <1>0, <1>2 DEF SubsExact, Range
  <1>5. left'[id] = npub /\ \A s \in Sub : s # id => left'[s] = left[s]
    BY <1>1, <1>3
  <1>6. Jobs' = Jobs
    BY <1>1 DEF Jobs
  <1>7. Ages'
    <2>0. (\A s \in Sub : left[s] <= npub) /\ npub <= npub
      BY <1>0, <1>3 DEF Ages
    <2>1. \A s \in Sub : left'[s] <= npub
      BY <1>5, <2>0
    <2>2. \A s \in Sub : s > lastId => s # id
      BY <1>3, <1>4
    <2> QED BY <1>0, <1>1, <1>5, <2>1, <2>2 DEF Ages
  <1>8. SubsExact'
    <2>1. Ascending(subs') /\ Range(subs') = Range(subs) \ {id}
      BY <1>0, <1>2, <1>3, RangeRemove DEF SubsExact
    <2>2. left'[id] # -1
      BY <1>3, <1>5
    <2> QED BY <1>0, <1>1, <1>5, <2>1, <2>2 DEF SubsExact
  <1>9. \A s \in Sub, k \in Nat : k <= npub =>
            ((left'[s] = -1 \/ k <= left'[s]) <=> (left[s] = -1 \/ k <= left[s]))
    BY <1>3, <1>4, <1>5
  <1>10. Aimed'
    <2> SUFFICES ASSUME NEW j \in Jobs, j.kind = "publish", NEW s \in Range(j.snapshot)
                 PROVE  left'[s] = -1 \/ j.value <= left'[s]
      BY <1>0, <1>1, <1>6 DEF Aimed
    <2>1. s \in Sub /\ j.value \in Nat
      BY <1>3, JobFields, NoCallIsIdle DEF Typed
    <2> QED BY <1>0, <1>9, <2>1 DEF Aimed
  <1>11. Apart' /\ OldestFirst'
    BY <1>0, <1>1, <1>6 DEF Apart, OldestFirst
  <1>12. Delivered'
    <2>1. \A s \in Sub, k \in Value : Owes(s, k)' <=> Owes(s, k)
      BY <1>1, <1>3, <1>9 DEF Owes
    <2> QED BY <1>0, <1>1, <1>6, <2>1 DEF Delivered
  <1> QED BY <1>7, <1>8, <1>10, <1>11, <1>12 DEF Exact

\* publish(), under the mutex: the new value is owed to exactly the
\* subscriptions of the snapshot.
LEMMA PublishExact ==
    ASSUME Typed, Typed', Exact, NEW c \in Caller, Publish(c)
    PROVE  Exact'
  <1> DEFINE v == npub + 1
             call1 == [kind |-> "publish", snapshot |-> subs, value |-> v]
  <1>0. Ages /\ SubsExact /\ Aimed /\ Apart /\ OldestFirst /\ Delivered
    BY DEF Exact
  <1>1. /\ call[c] = NoCall /\ npub' = v /\ npub < MaxPublish
        /\ last' = (IF cached THEN v ELSE last)
        /\ call' = [call EXCEPT ![c] = call1]
        /\ UNCHANGED <<cached, subs, lastId, jobs, got, lost, joined, left>>
    BY DEF Publish
  <1>2. /\ npub \in Nat /\ v \in Value /\ v \in Nat /\ Value \subseteq Nat /\ Sub \subseteq Nat
        /\ joined \in [Sub -> Nat] /\ left \in [Sub -> Int] /\ lastId \in Nat
        /\ call \in [Caller -> Job \cup {NoCall}]
    <2>1. /\ npub \in Nat /\ joined \in [Sub -> Nat] /\ left \in [Sub -> Int] /\ lastId \in Nat
          /\ call \in [Caller -> Job \cup {NoCall}]
      BY DEF Typed
    <2>2. Value \subseteq Nat /\ Sub \subseteq Nat
      BY DEF Value, Sub
    <2>3. v \in Nat /\ v \in Value
      BY <1>1, <2>1, BoundAssumption DEF Value
    <2> QED BY <2>1, <2>2, <2>3
  <1>3. call1.kind = "publish" /\ call1.snapshot = subs /\ call1.value = v
    OBVIOUS
  <1>4. call'[c] = call1 /\ \A d \in Caller : d # c => call'[d] = call[d]
    BY <1>1, <1>2
  <1>5. /\ \A j \in Jobs' : j \in Jobs \/ j = call1
        /\ \A j \in Jobs : j = NoCall \/ j \in Jobs'
        /\ call1 \in Jobs'
    BY <1>1, <1>4 DEF Jobs
  <1>6. v > npub /\ \A k \in Nat : k <= npub => k # v /\ k <= v
    BY <1>2
  <1>7. \A s \in Sub : v > left[s] /\ joined[s] < v
    BY <1>0, <1>2 DEF Ages, Typed
  <1> HIDE DEF v, call1
  <1>8. Ages'
    <2>1. \A s \in Sub : left[s] <= npub'
      BY <1>1, <1>2, <1>7
    <2> QED BY <1>0, <1>1, <2>1 DEF Ages
  <1>9. SubsExact'
    BY <1>0, <1>1 DEF SubsExact
  <1>10. Aimed'
    <2> SUFFICES ASSUME NEW j \in Jobs'
                 PROVE  /\ j.kind = "publish" =>
                              /\ j.value <= v
                              /\ Ascending(j.snapshot)
                              /\ \A s \in Range(j.snapshot) :
                                    /\ s <= lastId /\ joined[s] < j.value
                                    /\ left[s] = -1 \/ j.value <= left[s]
                        /\ j.kind = "replay" =>
                              /\ cached
                              /\ \E s \in Sub : /\ s <= lastId /\ j.snapshot = <<s>>
                                                /\ j.value = joined[s]
      BY <1>1 DEF Aimed
    <2>1. CASE j \in Jobs
      <3>1. j.kind = "publish" => j.value \in Nat
        BY <1>2, <2>1, JobFields, NoCallIsIdle DEF Typed
      <3> QED BY <1>0, <1>6, <2>1, <3>1 DEF Aimed
    <2>2. CASE j = call1
      BY <1>0, <1>2, <1>3, <1>7, <2>2 DEF SubsExact
    <2> QED BY <1>5, <2>1, <2>2
  <1>11. Apart'
    <2>1. ASSUME NEW j \in Jobs PROVE Unlike(j, call1) /\ Unlike(call1, j)
      <3>1. j.kind = "publish" => j.value # v
        BY <1>0, <1>2, <1>6, <2>1, JobFields, NoCallIsIdle DEF Typed, Aimed
      <3> QED BY <1>3, <3>1 DEF Unlike
    <2>2. jobs' = jobs /\ lost' = lost /\ jobs \cup lost \subseteq Jobs /\ \A d \in Caller : call[d] \in Jobs
      BY <1>1 DEF Jobs
    <2>3. ASSUME NEW d \in Caller, NEW e \in Caller, d # e PROVE Unlike(call'[d], call'[e])
      BY <1>0, <1>4, <2>1, <2>2, <2>3 DEF Apart
    <2>4. ASSUME NEW d \in Caller, NEW j \in jobs \cup lost PROVE Unlike(call'[d], j)
      BY <1>0, <1>4, <2>1, <2>2 DEF Apart
    <2> QED BY <1>0, <2>2, <2>3, <2>4 DEF Apart
  <1>12. \A u \in Sub : v \notin Range(got[u])
    <2> SUFFICES ASSUME NEW u \in Sub, v \in Range(got[u]) PROVE FALSE
      OBVIOUS
    <2>1. Owes(u, v)
      BY <1>0, <1>2 DEF Delivered
    <2>2. v <= npub \/ v = joined[u]
      BY <2>1 DEF Owes
    <2> QED BY <1>2, <1>6, <1>7, <2>2
  <1>13. OldestFirst'
    BY <1>0, <1>1, <1>3, <1>5, <1>12 DEF OldestFirst
  <1>14. Delivered'
    <2> SUFFICES ASSUME NEW s \in Sub, NEW k \in Value
                 PROVE  /\ IsInjective(got[s])
                        /\ ~(k \in Range(got[s]) /\ \E j \in Jobs' : Carries(j, s, k))
                        /\ (k \in Range(got[s]) \/ \E j \in Jobs' : Carries(j, s, k))
                              <=> Owes(s, k)'
      <3>1. \A s \in Sub : IsInjective(got[s])
        BY <1>0 DEF Delivered
      <3> QED BY <1>1, <3>1 DEF Delivered
    <2>0. /\ IsInjective(got[s])
          /\ ~(k \in Range(got[s]) /\ \E j \in Jobs : Carries(j, s, k))
          /\ (k \in Range(got[s]) \/ \E j \in Jobs : Carries(j, s, k)) <=> Owes(s, k)
      BY <1>0 DEF Delivered
    <2>1. CASE k # v
      <3>1. ~Carries(call1, s, k)
        BY <1>3, <2>1 DEF Carries
      <3>2. (\E j \in Jobs' : Carries(j, s, k)) <=> \E j \in Jobs : Carries(j, s, k)
        BY <1>5, <3>1, NoCallIsIdle
      <3>3. k <= npub <=> k <= v
        BY <1>2, <2>1 DEF v
      <3>4. Owes(s, k)' <=> Owes(s, k)
        BY <1>1, <3>3 DEF Owes
      <3> QED BY <2>0, <3>2, <3>4
    <2>2. CASE k = v
      <3>1. ~Owes(s, k)
        <4>1. ~(v <= npub) /\ v # joined[s]
          BY <1>2, <1>6, <1>7
        <4> QED BY <2>2, <4>1 DEF Owes
      <3>2. (\E j \in Jobs' : Carries(j, s, k)) <=> s \in Range(subs)
        <4>1. Carries(call1, s, k) <=> s \in Range(subs)
          BY <1>3, <2>2 DEF Carries
        <4> QED BY <1>5, <2>0, <3>1, <4>1
      <3>3. Owes(s, k)' <=> s <= lastId /\ left[s] = -1
        <4>1. v <= v /\ joined[s] < v /\ ~(v <= left[s]) /\ v # joined[s]
          BY <1>2, <1>7
        <4> QED BY <1>1, <2>2, <4>1 DEF Owes
      <3>4. s \in Range(subs) <=> s <= lastId /\ left[s] = -1
        BY <1>0 DEF SubsExact
      <3> QED BY <2>0, <3>1, <3>2, <3>3, <3>4
    <2> QED BY <2>1, <2>2
  <1> QED BY <1>8, <1>9, <1>10, <1>11, <1>13, <1>14 DEF Exact

\* After the unlock: what a caller held is now a thread's, or lost.
LEMMA FinishExact ==
    ASSUME Typed, Exact, NEW c \in Caller,
           FinishPublish(c) \/ PublishRaises(c) \/ FinishReplay(c) \/ ReplayRaises(c)
    PROVE  Exact'
  <1>0. Ages /\ SubsExact /\ Aimed /\ Apart /\ OldestFirst /\ Delivered
    BY DEF Exact
  <1>1. /\ call' = [call EXCEPT ![c] = NoCall]
        /\ \/ jobs' = jobs \cup {call[c]} /\ lost' = lost
           \/ jobs' = jobs /\ lost' = lost \cup {call[c]}
           \/ jobs' = jobs /\ lost' = lost /\ call[c].snapshot = <<>>
        /\ UNCHANGED <<cached, subs, lastId, last, got, npub, joined, left>>
    BY DEF FinishPublish, PublishRaises, FinishReplay, ReplayRaises
  <1>2. call'[c] = NoCall /\ \A d \in Caller : d # c => call'[d] = call[d]
    BY <1>1 DEF Typed
  <1>3. /\ \A j \in Jobs' : j \in Jobs \/ j = NoCall
        /\ \A j \in Jobs : j \in Jobs' \/ j.snapshot = <<>>
    BY <1>1, <1>2 DEF Jobs
  <1>4. Ages' /\ SubsExact'
    BY <1>0, <1>1 DEF Ages, SubsExact
  <1>5. Aimed' /\ OldestFirst'
    BY <1>0, <1>1, <1>3, NoCallIsIdle DEF Aimed, OldestFirst
  <1>6. Apart'
    <2>1. \A d \in Caller : d # c => Unlike(call[d], call[c])
      BY <1>0 DEF Apart
    <2>2. \A j \in jobs \cup lost : Unlike(call[c], j) /\ Unlike(j, call[c])
      BY <1>0 DEF Apart, Unlike
    <2>3. \A d, e \in Caller : d # e => Unlike(call'[d], call'[e])
      BY <1>0, <1>2, NoCallIsIdle DEF Apart
    <2>40. \A j \in jobs' \cup lost' : j \in jobs \cup lost \/ j = call[c]
      BY <1>1
    <2>4. \A d \in Caller, j \in jobs' \cup lost' : Unlike(call'[d], j)
      BY <1>0, <1>2, <2>1, <2>40, NoCallIsIdle DEF Apart
    <2>5. \A i, j \in jobs' \cup lost' : i # j => Unlike(i, j)
      BY <1>0, <2>2, <2>40 DEF Apart
    <2>6. call[c].kind \in {"publish", "replay"}
      BY DEF FinishPublish, PublishRaises, FinishReplay, ReplayRaises
    <2>7. call[c] \notin jobs \cup lost
      BY <2>2, <2>6 DEF Unlike
    <2>8. jobs' \cap lost' = {}
      BY <1>0, <1>1, <2>7 DEF Apart
    <2> QED BY <2>3, <2>4, <2>5, <2>8 DEF Apart
  <1>7. Delivered'
    <2>1. Range(<<>>) = {}
      BY DEF Range
    <2>2. \A s, k : (\E j \in Jobs' : Carries(j, s, k)) <=> \E j \in Jobs : Carries(j, s, k)
      BY <1>3, <2>1, NoCallIsIdle DEF Carries
    <2>3. \A s, k : Owes(s, k)' <=> Owes(s, k)
      BY <1>1 DEF Owes
    <2> QED BY <1>0, <1>1, <2>2, <2>3 DEF Delivered
  <1> QED BY <1>4, <1>5, <1>6, <1>7 DEF Exact

\* A sequence that does not hold v stays injective when v is appended.
LEMMA InjectiveAppend ==
    ASSUME NEW s \in Seq(Value), NEW v \in Value, IsInjective(s), v \notin Range(s)
    PROVE  IsInjective(Append(s, v))
  <1>1. /\ Len(s) \in Nat /\ DOMAIN s = 1..Len(s) /\ DOMAIN Append(s, v) = 1..(Len(s) + 1)
        /\ \A i \in 1..Len(s) : Append(s, v)[i] = s[i]
        /\ Append(s, v)[Len(s) + 1] = v
    OBVIOUS
  <1>2. \A i \in 1..Len(s) : s[i] # v
    BY <1>1 DEF Range
  <1>3. \A i \in 1..(Len(s) + 1) : i \in 1..Len(s) \/ i = Len(s) + 1
    BY <1>1
  <1>4. \A i, k \in 1..Len(s) : s[i] = s[k] => i = k
    BY <1>1 DEF IsInjective
  <1> QED BY <1>1, <1>2, <1>3, <1>4 DEF IsInjective

\* A dispatch thread runs its next callback: that subscription has the value,
\* nobody else brings it to it, and the others wait as before.
LEMMA CallbackExact ==
    ASSUME Typed, IInv, Exact, NEW j \in jobs, RunCallback(j) \/ CallbackThrows(j)
    PROVE  Exact'
  <1> DEFINE id == Head(j.snapshot)
             v == j.value
             t == j.snapshot
             rest == [j EXCEPT !.snapshot = Tail(j.snapshot)]
  <1>0. Ages /\ SubsExact /\ Aimed /\ Apart /\ OldestFirst /\ Delivered
    BY DEF Exact
  <1>1. /\ got' = [got EXCEPT ![id] = Append(got[id], v)]
        /\ jobs' = (jobs \ {j}) \cup (IF Len(t) = 1 THEN {} ELSE {rest})
        /\ UNCHANGED <<cached, subs, lastId, last, call, npub, lost, joined, left>>
    BY DEF RunCallback, CallbackThrows, Advance
  <1>2. /\ j \in Job /\ j \in Jobs /\ t \in Seq(Sub) /\ t # <<>> /\ v \in Value
        /\ j.kind \in {"publish", "replay"}
    BY JobFields DEF IInv, TypeOK, JobsRecorded, Jobs
  <1>3. rest.kind = j.kind /\ rest.value = v /\ rest.snapshot = Tail(t)
    BY <1>2 DEF Job
  <1>4. /\ id \in Sub /\ Range(t) = {id} \cup Range(Tail(t))
        /\ Ascending(t) => Ascending(Tail(t)) /\ \A u \in Range(Tail(t)) : id < u
    BY <1>2, RangeTail
  <1>5. Len(t) = 1 => Range(Tail(t)) = {}
    <2>1. Len(t) = 1 => Len(Tail(t)) = 0 /\ Tail(t) \in Seq(Sub)
      BY <1>2
    <2> QED BY <2>1 DEF Range
  <1>6. j.kind = "replay" => /\ Len(t) = 1 /\ v = joined[id] /\ t = <<id>> /\ cached
    <2> SUFFICES ASSUME j.kind = "replay" PROVE Len(t) = 1 /\ v = joined[id] /\ t = <<id>> /\ cached
      OBVIOUS
    <2>1. PICK s \in Sub : t = <<s>> /\ v = joined[s] /\ cached
      BY <1>0, <1>2 DEF Aimed
    <2> QED BY <2>1
  <1>7. got \in [Sub -> Seq(Value)] /\ joined \in [Sub -> Nat] /\ Sub \subseteq Nat
        /\ Value \subseteq Nat
    BY DEF Typed, Sub, Value
  <1>8. /\ got'[id] = Append(got[id], v)
        /\ \A s \in Sub : s # id => got'[s] = got[s]
    BY <1>1, <1>4, <1>7
  <1>9. Range(got'[id]) = Range(got[id]) \cup {v}
    <2>1. got[id] \in Seq(Value) /\ v \in Value
      BY <1>2, <1>4, <1>7
    <2> HIDE DEF id, v
    <2>2. Range(Append(got[id], v)) = Range(got[id]) \cup {v}
      BY <2>1, RangeAppend
    <2> QED BY <1>8, <2>2
  <1>10. /\ \A i \in Jobs' : \/ i \in Jobs /\ Unlike(i, j)
                             \/ i = rest /\ j.kind = "publish"
         /\ \A i \in Jobs : i \in Jobs' \/ i = j
         /\ Len(t) # 1 => rest \in Jobs'
    <2>1. \A d \in Caller : Unlike(call[d], j)
      BY <1>0 DEF Apart
    <2>2. \A i \in (jobs \cup lost) \ {j} : Unlike(i, j)
      BY <1>0 DEF Apart
    <2>20. j \notin lost
      BY <1>0 DEF Apart
    <2>3. Len(t) # 1 => j.kind = "publish"
      BY <1>2, <1>6
    <2> QED BY <1>1, <2>1, <2>2, <2>20, <2>3 DEF Jobs
  <1> HIDE DEF id, v, t, rest
  <1>11. Carries(j, id, v)
    BY <1>4 DEF Carries, v, t
  <1>12. j.kind = "publish" => Ascending(t) /\ joined[id] < v
    BY <1>0, <1>2, <1>4 DEF Aimed, t, v
  <1>13. ASSUME NEW i \in Jobs' PROVE ~Carries(i, id, v)
    <2> SUFFICES ASSUME Carries(i, id, v) PROVE FALSE
      OBVIOUS
    <2>1. CASE i = rest /\ j.kind = "publish"
      <3>1. id \in Range(Tail(t))
        BY <1>3, <2>1 DEF Carries
      <3>2. id < id
        BY <1>4, <1>12, <2>1, <3>1
      <3> QED BY <1>4, <1>7, <3>2
    <2>2. CASE i \in Jobs /\ Unlike(i, j)
      <3>1. i.value = v /\ id \in Range(i.snapshot)
        BY DEF Carries
      <3>2. i.kind \in {"publish", "replay"}
        BY <2>2, JobFields, NoCallIsIdle DEF Typed
      <3>3. i.kind = "publish" => joined[id] < v
        BY <1>0, <2>2, <3>1 DEF Aimed
      <3>4. i.kind = "replay" => v = joined[id] /\ i.snapshot = <<id>>
        <4> SUFFICES ASSUME i.kind = "replay" PROVE v = joined[id] /\ i.snapshot = <<id>>
          OBVIOUS
        <4>1. PICK s \in Sub : i.snapshot = <<s>> /\ i.value = joined[s]
          BY <1>0, <2>2 DEF Aimed
        <4>2. Range(<<s>>) = {s}
          BY DEF Range
        <4> QED BY <3>1, <4>1, <4>2
      <3>5. ~(joined[id] < v /\ v = joined[id])
        BY <1>2, <1>4, <1>7
      <3>6. ~(i.kind = "publish" /\ j.kind = "publish")
        BY <2>2, <3>1 DEF Unlike, v
      <3>7. ~(i.kind = "replay" /\ j.kind = "replay")
        BY <1>6, <2>2, <3>4 DEF Unlike, t
      <3> QED BY <1>2, <1>6, <1>12, <3>2, <3>3, <3>4, <3>5, <3>6, <3>7
    <2> QED BY <1>10, <1>13, <2>1, <2>2
  <1>14. \A s, k : ~(s = id /\ k = v) =>
            ((\E i \in Jobs' : Carries(i, s, k)) <=> \E i \in Jobs : Carries(i, s, k))
    <2> SUFFICES ASSUME NEW s, NEW k, ~(s = id /\ k = v)
                 PROVE  (\E i \in Jobs' : Carries(i, s, k)) <=> \E i \in Jobs : Carries(i, s, k)
      OBVIOUS
    <2>1. Carries(rest, s, k) <=> k = v /\ s \in Range(Tail(t))
      BY <1>3 DEF Carries
    <2>2. Carries(j, s, k) <=> k = v /\ s \in Range(t)
      BY DEF Carries, v, t
    <2>3. Carries(j, s, k) <=> Carries(rest, s, k)
      BY <1>4, <2>1, <2>2
    <2>4. Carries(j, s, k) => rest \in Jobs'
      BY <1>5, <1>10, <2>1, <2>3
    <2> QED BY <1>2, <1>10, <2>3, <2>4
  <1>15. Ages'
    <2>1. ~(id > lastId)
      <3>1. Owes(id, v)
        BY <1>0, <1>2, <1>4, <1>11 DEF Delivered
      <3> QED BY <1>4, <1>7, <3>1 DEF Owes, Typed
    <2>2. \A s \in Sub : s > lastId => got'[s] = <<>>
      BY <1>0, <1>8, <2>1 DEF Ages
    <2> QED BY <1>0, <1>1, <2>2 DEF Ages
  <1>16. SubsExact'
    BY <1>0, <1>1 DEF SubsExact
  <1>17. Aimed'
    <2> SUFFICES ASSUME NEW i \in Jobs'
                 PROVE  /\ i.kind = "publish" =>
                              /\ i.value <= npub
                              /\ Ascending(i.snapshot)
                              /\ \A s \in Range(i.snapshot) :
                                    /\ s <= lastId /\ joined[s] < i.value
                                    /\ left[s] = -1 \/ i.value <= left[s]
                        /\ i.kind = "replay" =>
                              /\ cached
                              /\ \E s \in Sub : /\ s <= lastId /\ i.snapshot = <<s>>
                                                /\ i.value = joined[s]
      BY <1>1 DEF Aimed
    <2>1. CASE i \in Jobs
      BY <1>0, <2>1 DEF Aimed
    <2>2. CASE i = rest /\ j.kind = "publish"
      <3>1. /\ v <= npub /\ Ascending(Tail(t))
            /\ \A s \in Range(Tail(t)) : /\ s <= lastId /\ joined[s] < v
                                         /\ left[s] = -1 \/ v <= left[s]
        BY <1>0, <1>2, <1>4, <1>12, <2>2 DEF Aimed, v, t
      <3> QED BY <1>3, <2>2, <3>1
    <2> QED BY <1>10, <2>1, <2>2
  <1>18. Apart'
    <2>1. ASSUME NEW i, Unlike(i, j), j.kind = "publish" PROVE Unlike(i, rest) /\ Unlike(rest, i)
      BY <1>3, <2>1 DEF Unlike, v
    <2>20. j \notin lost /\ lost' = lost
      BY <1>0, <1>1 DEF Apart
    <2>2. \A i \in jobs' \cup lost' : \/ i \in jobs \cup lost /\ i # j
                                      \/ i = rest /\ j.kind = "publish"
      BY <1>1, <1>2, <1>6, <2>20
    <2>3. \A i \in jobs \cup lost : i # j => Unlike(i, j)
      BY <1>0 DEF Apart
    <2>4. ASSUME NEW d \in Caller, NEW i \in jobs' \cup lost' PROVE Unlike(call[d], i)
      BY <1>0, <2>1, <2>2 DEF Apart
    <2>5. ASSUME NEW i \in jobs' \cup lost', NEW k \in jobs' \cup lost', i # k PROVE Unlike(i, k)
      <3>1. CASE i \in jobs \cup lost /\ k \in jobs \cup lost
        BY <1>0, <2>5, <3>1 DEF Apart
      <3>2. CASE i = rest /\ j.kind = "publish"
        BY <2>1, <2>2, <2>3, <2>5, <3>2
      <3>3. CASE k = rest /\ j.kind = "publish"
        BY <2>1, <2>2, <2>3, <2>5, <3>3
      <3> QED BY <2>2, <3>1, <3>2, <3>3
    <2>6. jobs' \cap lost' = {}
      <3>1. ASSUME j.kind = "publish", rest \in lost PROVE FALSE
        <4>1. Unlike(rest, j)
          BY <2>20, <2>3, <3>1
        <4>2. Unlike(rest, rest)
          BY <2>1, <3>1, <4>1
        <4>3. rest.kind = "publish"
          BY <1>3, <3>1
        <4> QED BY <4>2, <4>3 DEF Unlike
      <3>2. \A i \in jobs' : i \in jobs \/ (i = rest /\ j.kind = "publish")
        BY <1>1, <1>2, <1>6
      <3> QED BY <1>0, <2>20, <3>1, <3>2 DEF Apart
    <2> QED BY <1>0, <1>1, <2>4, <2>5, <2>6 DEF Apart
  <1>19. OldestFirst'
    <2> SUFFICES ASSUME NEW i \in Jobs', i.kind = "publish",
                        NEW s \in Range(i.snapshot), NEW u \in Sub,
                        i.value \in Range(got'[u]), joined[u] < i.value
                 PROVE  u < s
      BY <1>1 DEF OldestFirst
    <2>1. CASE i \in Jobs /\ Unlike(i, j)
      <3>1. CASE i.value \in Range(got[u])
        BY <1>0, <2>1, <3>1 DEF OldestFirst
      <3>2. CASE i.value \notin Range(got[u])
        <4>1. u = id /\ i.value = v
          BY <1>8, <1>9, <3>2
        <4>2. j.kind = "replay"
          BY <1>2, <2>1, <4>1 DEF Unlike, v
        <4>3. joined[id] < joined[id]
          BY <1>6, <4>1, <4>2
        <4> QED BY <1>4, <1>7, <4>3
      <3> QED BY <3>1, <3>2
    <2>2. CASE i = rest /\ j.kind = "publish"
      <3>1. s \in Range(Tail(t)) /\ s \in Range(t) /\ i.value = v
        BY <1>3, <1>4, <2>2
      <3>2. CASE v \in Range(got[u])
        BY <1>0, <1>2, <2>2, <3>1, <3>2 DEF OldestFirst, v, t
      <3>3. CASE v \notin Range(got[u])
        <4>1. u = id
          BY <1>8, <3>1, <3>3
        <4> QED BY <1>4, <1>12, <2>2, <3>1, <4>1
      <3> QED BY <3>2, <3>3
    <2> QED BY <1>10, <2>1, <2>2
  <1>20. Delivered'
    <2> SUFFICES ASSUME NEW s \in Sub
                 PROVE  /\ IsInjective(got'[s])
                        /\ \A k \in Value :
                             /\ ~(k \in Range(got'[s]) /\ \E i \in Jobs' : Carries(i, s, k))
                             /\ (k \in Range(got'[s]) \/ \E i \in Jobs' : Carries(i, s, k))
                                   <=> Owes(s, k)'
      BY DEF Delivered
    <2>0. /\ IsInjective(got[s])
          /\ \A k \in Value :
               /\ ~(k \in Range(got[s]) /\ \E i \in Jobs : Carries(i, s, k))
               /\ (k \in Range(got[s]) \/ \E i \in Jobs : Carries(i, s, k)) <=> Owes(s, k)
      BY <1>0 DEF Delivered
    <2>1. \A k \in Value : Owes(s, k)' <=> Owes(s, k)
      BY <1>1 DEF Owes
    <2>2. CASE s # id
      BY <1>8, <1>14, <2>0, <2>1, <2>2
    <2>3. CASE s = id
      <3>1. v \notin Range(got[id])
        BY <1>2, <1>11, <2>0, <2>3
      <3>2. IsInjective(got'[id])
        BY <1>2, <1>4, <1>7, <1>8, <2>0, <2>3, <3>1, InjectiveAppend
      <3>3. \A k \in Value : k # v => (k \in Range(got'[id]) <=> k \in Range(got[id]))
        BY <1>9
      <3>4. v \in Range(got'[id]) /\ ~(\E i \in Jobs' : Carries(i, id, v)) /\ Owes(id, v)
        BY <1>2, <1>9, <1>11, <1>13, <2>0, <2>3
      <3> QED BY <1>14, <2>0, <2>1, <2>3, <3>2, <3>3, <3>4
    <2> QED BY <2>2, <2>3
  <1> QED BY <1>15, <1>16, <1>17, <1>18, <1>19, <1>20 DEF Exact

-----------------------------------------------------------------------------

\* Every step keeps Exact.
LEMMA NextExact == IInv /\ Exact /\ [Next]_vars => Exact'
  <1> SUFFICES ASSUME IInv, Exact, [Next]_vars PROVE Exact'
    OBVIOUS
  <1>1. Typed
    BY TypedHolds
  <1>2. IInv'
    BY NextIInv
  <1>3. IInv' => Typed'
    BY TypedHolds, PTL
  <1>4. CASE UNCHANGED vars
    <2>1. UNCHANGED <<cached, subs, lastId, last, call, jobs, got, npub, lost, joined, left>>
      BY <1>4 DEF vars
    <2>2. Jobs' = Jobs /\ \A s, k : Owes(s, k)' <=> Owes(s, k)
      BY <2>1 DEF Jobs, Owes
    <2> QED BY <2>1, <2>2 DEF Exact, Ages, SubsExact, Aimed, Apart, OldestFirst, Delivered
  <1>5. CASE \E c \in Caller : Subscribe(c) \/ (\E id \in Sub : Unsubscribe(c, id)) \/ Publish(c)
    BY <1>1, <1>2, <1>3, <1>5, SubscribeExact, UnsubscribeExact, PublishExact
  <1>6. CASE \E c \in Caller :
            FinishPublish(c) \/ PublishRaises(c) \/ FinishReplay(c) \/ ReplayRaises(c)
    BY <1>1, <1>6, FinishExact
  <1>7. CASE \E j \in jobs : RunCallback(j) \/ CallbackThrows(j)
    BY <1>1, <1>7, CallbackExact
  <1> QED BY <1>4, <1>5, <1>6, <1>7 DEF Next

\* The invariant holds of every reachable state.
LEMMA ExactHolds == Spec => [](IInv /\ Exact)
  BY InitIInv, NextIInv, InitExact, NextExact, PTL DEF Spec

\* Exactly once: whatever subscribe(), unsubscribe(), publish() and throwing
\* callbacks interleave, each subscription gets the value cached when it was
\* made and every publish() until it leaves, with no gap and no repetition,
\* but for the values of a publish() or subscribe() that raised.
THEOREM ExactlyOnceHolds == Spec => []ExactlyOnce
  <1>1. IInv /\ Exact => ExactlyOnce
    BY TypedHolds, DeliveredIsExactlyOnce DEF Exact
  <1> QED BY <1>1, ExactHolds, PTL

\* Within one publish() the dispatch thread calls the older subscription before
\* the younger one.
THEOREM OrderWithinPublishHolds == Spec => []OrderWithinPublish
  <1>1. ASSUME IInv, Exact PROVE OrderWithinPublish
    <2> SUFFICES ASSUME NEW s \in Sub, NEW u \in Sub, s < u, NEW k \in Value,
                        k \in Range(got[u]), k > joined[u], k \in Owed(s),
                        k \notin Range(got[s])
                 PROVE  FALSE
      BY DEF OrderWithinPublish
    <2>0. Typed /\ Ages /\ Aimed /\ OldestFirst /\ Delivered /\ ExactlyOnce
      BY <1>1, TypedHolds, DeliveredIsExactlyOnce DEF Exact
    <2>1. s \in Nat /\ u \in Nat /\ k \in Nat /\ joined[s] \in Nat /\ joined[u] \in Nat
          /\ lastId \in Nat
      BY <2>0 DEF Typed, Sub, Value
    <2>2. k \in Pending(s) \cup Lost(s)
      BY <2>0 DEF ExactlyOnce
    <2>3. PICK j \in Jobs : Carries(j, s, k)
      BY <2>0, <2>2 DEF Typed
    <2>4. j.value = k /\ s \in Range(j.snapshot) /\ j.kind \in {"publish", "replay"}
      BY <2>0, <2>3, JobFields, NoCallIsIdle DEF Typed, Carries
    <2>5. CASE j.kind = "publish"
      <3>1. u < s
        BY <2>0, <2>1, <2>4, <2>5 DEF OldestFirst
      <3> QED BY <2>1, <3>1
    <2>6. CASE j.kind = "replay"
      <3>1. PICK w \in Sub : j.snapshot = <<w>> /\ j.value = joined[w]
        BY <2>0, <2>6 DEF Aimed
      <3>2. Range(<<w>>) = {w}
        BY DEF Range
      <3>3. k = joined[s]
        BY <2>4, <3>1, <3>2
      <3>4. u <= lastId
        <4>1. Range(<<>>) = {}
          BY DEF Range
        <4> QED BY <2>0, <2>1, <4>1 DEF Ages
      <3>5. joined[s] <= joined[u]
        BY <2>0, <3>4 DEF Ages
      <3> QED BY <2>1, <3>3, <3>5
    <2> QED BY <2>4, <2>5, <2>6
  <1> QED BY <1>1, ExactHolds, PTL
=============================================================================
