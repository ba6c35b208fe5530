---------------------------- MODULE EventChannel ----------------------------
(***************************************************************************)
(* EventChannel<T> (Callback/runtime/harpia_event_cache.h, and its Python  *)
(* port PyEvents/runtime/events.py): in-process publish/subscribe with an  *)
(* optional last-value cache.                                              *)
(*                                                                         *)
(* What subscribe() and publish() do under the channel mutex is one step;  *)
(* the audit record and the start of the dispatch thread follow after the  *)
(* unlock, from locals (`call`), so other callers get in between.  Each    *)
(* dispatch thread is a member of `jobs`; its callbacks run one at a time. *)
(* Writing the record or starting the thread may throw: the call raises    *)
(* and its dispatch, never made, is a member of `lost`.                    *)
(*                                                                         *)
(* A value is named by the position of its publish() in the mutex order:   *)
(* the k-th publish() publishes k.  A callback that throws counts as run.  *)
(***************************************************************************)
EXTENDS Integers, Sequences, FiniteSets, SequencesExt

CONSTANTS Caller,      \* threads that call the channel
          Phi,         \* !audit_phi_fields_.empty()
          MaxSub,      \* bound: subscriptions ever made
          MaxPublish,  \* bound: publishes ever made
          MaxRaise     \* bound: calls that raise

ASSUME PhiAssumption   == Phi \in BOOLEAN
ASSUME BoundAssumption == {MaxSub, MaxPublish, MaxRaise} \subseteq Nat

VARIABLES cached,    \* cached(): mode_, fixed by the constructor
          subs,      \* subs_: the ids, in vector order
          lastId,    \* last_id_
          last,      \* last_; 0 stands for has_last_ == false
          call,      \* the locals of each caller between unlock and return
          jobs,      \* the dispatch threads that have not ended
          audited,   \* publishes whose phi_event_dispatch record is written
          swallowed, \* event_callback_exception records: <<id, value>>
          got,       \* history: the values each subscription's callback ran on
          npub,      \* history: publishes so far (names the next value)
          lost,      \* history: the dispatches whose thread was not started
          joined,    \* history: npub when the subscription was made
          left       \* history: npub when it was removed (-1: not yet)

vars == <<cached, subs, lastId, last, call, jobs, audited, swallowed, got,
          npub, lost, joined, left>>

Sub   == 1..MaxSub
Value == 1..MaxPublish

NoCall == [kind |-> "none", snapshot |-> <<>>, value |-> 0]

\* A dispatch thread: what it was started for, the callbacks still to run (in
\* order) and the value it captured.
Job == [kind : {"publish", "replay"}, snapshot : Seq(Sub), value : Value]

TypeOK ==
    /\ cached \in BOOLEAN
    /\ subs \in Seq(Sub)
    /\ lastId \in 0..MaxSub
    /\ last \in 0..MaxPublish
    /\ \A c \in Caller : call[c] = NoCall \/ call[c] \in Job
    /\ \A j \in jobs : j \in Job
    /\ audited \subseteq Value
    /\ swallowed \subseteq Sub \X Value
    /\ got \in [Sub -> Seq(Value)]
    /\ npub \in 0..MaxPublish
    /\ \A j \in lost : j \in Job
    /\ joined \in [Sub -> 0..MaxPublish]
    /\ left \in [Sub -> -1..MaxPublish]

Init ==
    /\ cached \in BOOLEAN
    /\ subs = <<>>
    /\ lastId = 0
    /\ last = 0
    /\ call = [c \in Caller |-> NoCall]
    /\ jobs = {}
    /\ audited = {}
    /\ swallowed = {}
    /\ got = [s \in Sub |-> <<>>]
    /\ npub = 0
    /\ lost = {}
    /\ joined = [s \in Sub |-> 0]
    /\ left = [s \in Sub |-> -1]

-----------------------------------------------------------------------------

\* Mutation: the cached value is read before the lock that registers the
\* callback, so a publish can fall between the two.
SubscribeChecksCacheFirst(c) ==
    \/ /\ call[c] = NoCall
       /\ lastId < MaxSub
       /\ call' = [call EXCEPT ![c] =
             [kind |-> "registering", snapshot |-> <<>>, value |-> last]]
       /\ UNCHANGED <<cached, subs, lastId, last, jobs, lost, audited,
                      swallowed, got, npub, joined, left>>
    \/ /\ call[c].kind = "registering"
       /\ lastId < MaxSub
       /\ lastId' = lastId + 1
       /\ subs' = Append(subs, lastId')
       /\ joined' = [joined EXCEPT ![lastId'] = npub]
       /\ call' = [call EXCEPT ![c] =
             IF cached /\ call[c].value # 0
             THEN [kind |-> "replay", snapshot |-> <<lastId'>>,
                   value |-> call[c].value]
             ELSE NoCall]
       /\ UNCHANGED <<cached, last, jobs, lost, audited, swallowed, got, npub,
                      left>>

\* Mutation: a new callback goes to the front of the list.
SubscribePrepends(c) ==
    /\ call[c] = NoCall
    /\ lastId < MaxSub
    /\ lastId' = lastId + 1
    /\ subs' = <<lastId'>> \o subs
    /\ joined' = [joined EXCEPT ![lastId'] = npub]
    /\ call' = [call EXCEPT ![c] =
          IF cached /\ last # 0
          THEN [kind |-> "replay", snapshot |-> <<lastId'>>, value |-> last]
          ELSE NoCall]
    /\ UNCHANGED <<cached, last, jobs, lost, audited, swallowed, got, npub,
                   left>>

\* subscribe(), the part under the mutex: a fresh id, and a replay of the
\* cached value if there is one.
Subscribe(c) ==
    /\ call[c] = NoCall
    /\ lastId < MaxSub
    /\ lastId' = lastId + 1
    /\ subs' = Append(subs, lastId')
    /\ joined' = [joined EXCEPT ![lastId'] = npub]
    /\ call' = [call EXCEPT ![c] =
          IF cached /\ last # 0
          THEN [kind |-> "replay", snapshot |-> <<lastId'>>, value |-> last]
          ELSE NoCall]
    /\ UNCHANGED <<cached, last, jobs, lost, audited, swallowed, got, npub,
                   left>>

\* unsubscribe(id): erase the first entry with that id; an unknown or already
\* removed id is ignored.
Unsubscribe(c, id) ==
    /\ call[c] = NoCall
    /\ \E i \in DOMAIN subs :
          /\ subs[i] = id
          /\ subs' = RemoveAt(subs, i)
    /\ left' = [left EXCEPT ![id] = npub]
    /\ UNCHANGED <<cached, lastId, last, call, jobs, lost, audited, swallowed,
                   got, npub, joined>>

\* publish(value), the part under the mutex: cache the value, snapshot the
\* subscribers.
Publish(c) ==
    /\ call[c] = NoCall
    /\ npub < MaxPublish
    /\ npub' = npub + 1
    /\ last' = IF cached THEN npub' ELSE last
    /\ call' = [call EXCEPT ![c] =
          [kind |-> "publish", snapshot |-> subs, value |-> npub']]
    /\ UNCHANGED <<cached, subs, lastId, jobs, lost, audited, swallowed, got,
                   joined, left>>

\* Mutation: the dispatch thread starts first, the audit record follows.
FinishPublishAuditsLast(c) ==
    \/ /\ call[c].kind = "publish"
       /\ call[c].snapshot # <<>>
       /\ jobs' = jobs \cup {call[c]}
       /\ call' = [call EXCEPT ![c].kind = "audit"]
       /\ UNCHANGED <<cached, subs, lastId, last, audited, lost, swallowed,
                      got, npub, joined, left>>
    \/ /\ call[c].kind = "publish" => call[c].snapshot = <<>>
       /\ call[c].kind \in {"publish", "audit"}
       /\ audited' = IF Phi THEN audited \cup {call[c].value} ELSE audited
       /\ call' = [call EXCEPT ![c] = NoCall]
       /\ UNCHANGED <<cached, subs, lastId, last, jobs, lost, swallowed, got,
                      npub, joined, left>>

\* publish() after the unlock: the phi record, whoever is subscribed, then the
\* dispatch thread if anyone is.
FinishPublish(c) ==
    /\ call[c].kind = "publish"
    /\ audited' = IF Phi THEN audited \cup {call[c].value} ELSE audited
    /\ jobs' = IF call[c].snapshot = <<>> THEN jobs ELSE jobs \cup {call[c]}
    /\ call' = [call EXCEPT ![c] = NoCall]
    /\ UNCHANGED <<cached, subs, lastId, last, swallowed, lost, got, npub,
                   joined, left>>

\* publish() raises after the unlock, the value already cached and the snapshot
\* taken: audit->record() throws, or the std::thread constructor after it.
PublishRaises(c) ==
    /\ call[c].kind = "publish"
    /\ \/ Phi /\ audited' = audited
       \/ /\ call[c].snapshot # <<>>
          /\ audited' = IF Phi THEN audited \cup {call[c].value} ELSE audited
    /\ Cardinality(lost) < MaxRaise
    /\ lost' = lost \cup {call[c]}
    /\ call' = [call EXCEPT ![c] = NoCall]
    /\ UNCHANGED <<cached, subs, lastId, last, jobs, swallowed, got, npub,
                   joined, left>>

\* subscribe() after the unlock: dispatch() the replay.  No phi record.
FinishReplay(c) ==
    /\ call[c].kind = "replay"
    /\ jobs' = jobs \cup {call[c]}
    /\ call' = [call EXCEPT ![c] = NoCall]
    /\ UNCHANGED <<cached, subs, lastId, last, audited, lost, swallowed, got,
                   npub, joined, left>>

\* subscribe() raises after the unlock, the callback already registered: the
\* std::thread constructor of the replay throws.
ReplayRaises(c) ==
    /\ call[c].kind = "replay"
    /\ Cardinality(lost) < MaxRaise
    /\ lost' = lost \cup {call[c]}
    /\ call' = [call EXCEPT ![c] = NoCall]
    /\ UNCHANGED <<cached, subs, lastId, last, jobs, audited, swallowed, got,
                   npub, joined, left>>

\* The loop of the dispatch thread moves on to the rest of its snapshot, and
\* the thread ends with the last callback.
Advance(j) ==
    jobs' = (jobs \ {j}) \cup
            (IF Len(j.snapshot) = 1 THEN {}
             ELSE {[j EXCEPT !.snapshot = Tail(@)]})

\* dispatch(): the next callback of a dispatch thread runs and returns.
RunCallback(j) ==
    /\ LET id == Head(j.snapshot)
       IN  got' = [got EXCEPT ![id] = Append(@, j.value)]
    /\ Advance(j)
    /\ UNCHANGED <<cached, subs, lastId, last, call, audited, lost, swallowed,
                   npub, joined, left>>

\* Mutation: no try/catch inside the loop; a throw ends the dispatch.
CallbackThrowsOut(j) ==
    /\ LET id == Head(j.snapshot)
       IN  /\ got' = [got EXCEPT ![id] = Append(@, j.value)]
           /\ swallowed' = swallowed \cup {<<id, j.value>>}
    /\ jobs' = jobs \ {j}
    /\ UNCHANGED <<cached, subs, lastId, last, call, audited, lost, npub,
                   joined, left>>

\* dispatch(): the next callback throws; the exception is swallowed and
\* recorded, and the loop goes on.
CallbackThrows(j) ==
    /\ LET id == Head(j.snapshot)
       IN  /\ got' = [got EXCEPT ![id] = Append(@, j.value)]
           /\ swallowed' = swallowed \cup {<<id, j.value>>}
    /\ Advance(j)
    /\ UNCHANGED <<cached, subs, lastId, last, call, audited, lost, npub,
                   joined, left>>

Next ==
    \/ \E c \in Caller :
          \/ Subscribe(c)
          \/ \E id \in Sub : Unsubscribe(c, id)
          \/ Publish(c)
          \/ FinishPublish(c)
          \/ PublishRaises(c)
          \/ FinishReplay(c)
          \/ ReplayRaises(c)
    \/ \E j \in jobs : RunCallback(j) \/ CallbackThrows(j)

Spec == Init /\ [][Next]_vars

\* A caller that has left the mutex goes on or raises; a dispatch thread runs
\* and its callbacks return or throw.
Fairness ==
    /\ \A c \in Caller : WF_vars(\/ FinishPublish(c) \/ PublishRaises(c)
                               \/ FinishReplay(c) \/ ReplayRaises(c))
    /\ WF_vars(\E j \in jobs : RunCallback(j) \/ CallbackThrows(j))

FairSpec == Spec /\ Fairness

-----------------------------------------------------------------------------
(* What the channel promises. *)

\* The values subscription s must see: the one cached when it joined, and
\* every publish from then until it left.
Owed(s) ==
    IF s > lastId THEN {}
    ELSE {k \in Value : /\ joined[s] < k
                        /\ k <= (IF left[s] = -1 THEN npub ELSE left[s])}
         \cup (IF cached /\ joined[s] > 0 THEN {joined[s]} ELSE {})

\* Deliveries that are under way: held by a caller between unlock and
\* dispatch, or by a dispatch thread.
Pending(s) ==
    {k \in Value :
        \/ \E c \in Caller : call[c].value = k /\ s \in Range(call[c].snapshot)
        \/ \E j \in jobs : j.value = k /\ s \in Range(j.snapshot)}

\* Deliveries that will not be made: of a publish() or subscribe() that raised.
Lost(s) == {k \in Value : \E j \in lost : j.value = k /\ s \in Range(j.snapshot)}

\* Exactly once: for every subscription the values delivered, the ones under way
\* and the ones whose publish() or subscribe() raised are exactly the values it
\* is owed; none is delivered twice, nor delivered and still under way, nor
\* delivered by a call that raised.  No interleaving of subscribe() with
\* publish() makes a gap or a duplicate, an unsubscribe() does not cancel a
\* dispatch under way, and a throwing callback costs no other callback its value.
ExactlyOnce ==
    \A s \in Sub :
        /\ IsInjective(got[s])
        /\ Range(got[s]) \cap (Pending(s) \cup Lost(s)) = {}
        /\ Range(got[s]) \cup Pending(s) \cup Lost(s) = Owed(s)

\* "Order is preserved WITHIN one publish": of two subscriptions in the same
\* snapshot the older one's callback runs first.
OrderWithinPublish ==
    \A s, u \in Sub :
        s < u => \A k \in Value :
            k \in Range(got[u]) /\ k > joined[u] /\ k \in Owed(s)
            => k \in Range(got[s])

\* On a phi channel the publish() is on record before any callback its
\* dispatch thread runs.  (A replay of the value is not covered: a subscriber
\* that joins between the unlock and the record sees the value first.)
AuditedBeforeDispatch ==
    Phi => \A s \in Sub, k \in Value :
               k \in Range(got[s]) /\ k > joined[s] => k \in audited

\* Every value owed is delivered in the end, unless its publish() or
\* subscribe() raised.
EventuallyDelivered ==
    \A s \in Sub, k \in Value :
        k \in Owed(s) ~> k \in Range(got[s]) \cup Lost(s)
=============================================================================
