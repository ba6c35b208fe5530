---------------------------- MODULE ServerProofs ----------------------------
(***************************************************************************)
(* Proofs about a request's way through a generated server: AccessGate,    *)
(* for any number of threads, identities, keys and role maps, every        *)
(* lifetime of tokens and any number of edits, revisions and restarts; and *)
(* CrudServer, for any number of requests and connections.                 *)
(***************************************************************************)
EXTENDS AccessGate, CrudServer, TLAPS

(* The gate. *)

Presented == Tokens \cup Forged \cup {Malformed}

Requests == [peer : CNs \cup {None}, token : Presented \cup {None},
             op : Ops \cup {None}, at : 0..MaxTime,
             always : BOOLEAN, ever : BOOLEAN, cn : CNs \cup {None},
             verdict : Verdicts \cup {None}]

\* The cached set is the content that the stamp names.
CacheMatches == stamp # None => revoked = stamp

\* What the checks a token has passed so far have established.
TokenChecked(t) ==
    /\ req[t].token \in issued \cup Forged \cup {Malformed}
    /\ pc[t] \in {"expiry", "revoked", "decide", "served"} =>
          req[t].token \in issued /\ req[t].token.key = key
    /\ pc[t] \in {"revoked", "decide", "served"} => req[t].at < req[t].token.exp
    /\ pc[t] \in {"decide", "served"} =>
          req[t].cn = req[t].token.cn /\ ~req[t].always
    /\ req[t].always => Lists(revFile, req[t].token.jti)
    /\ Lists(revFile, req[t].token.jti) => req[t].ever

\* Without a token the certificate counts, and there is no token to check.
NoTokenChecked(t) ==
    /\ req[t].cn = req[t].peer /\ ~req[t].always
    /\ pc[t] \notin {"token", "expiry", "revoked"}

\* What holds of a request wherever it is.
Checked(t) ==
    /\ req[t].at <= clock
    /\ req[t].token = None => NoTokenChecked(t)
    /\ req[t].token # None => TokenChecked(t)
    /\ pc[t] = "served" => roles # Unset /\ Permitted(RoleFor(roles, req[t].cn), req[t].op)
    /\ req[t].verdict = "revoked" => req[t].ever
    /\ pc[t] = "refused" => records[t] = 1
    /\ pc[t] # "refused" => records[t] = 0

IInv ==
    /\ TypeOK
    /\ req \in [Threads -> Requests]
    /\ CacheMatches
    /\ \A t \in Threads : Checked(t)

-----------------------------------------------------------------------------

\* What a token looks like.
LEMMA TokenFields ==
    ASSUME NEW tok \in Presented
    PROVE  /\ tok.exp \in Nat /\ tok.cn \in CNs \cup {None}
           /\ tok \in Tokens => tok.key \in Keys
           /\ tok \notin Tokens => tok.key = None
  <1>1. MaxTime + 1 \in Nat
    BY ConstantsAssumption
  <1>2. CASE tok \in Tokens
    BY <1>2, ConstantsAssumption DEF Tokens
  <1>3. CASE tok \in Forged
    BY <1>1, <1>3, ConstantsAssumption DEF Forged, Token, Tokens
  <1>4. CASE tok = Malformed
    BY <1>4, ConstantsAssumption DEF Malformed, Token, Tokens
  <1> QED BY <1>2, <1>3, <1>4 DEF Presented

\* Key and role map are resolved by a first use and stay as they are.
LEMMA Resolved ==
    ASSUME TypeOK
    PROVE  /\ KeyNow \in Keys \cup {None} /\ (key # Unset => KeyNow = key)
           /\ RolesNow \in Maps \cup {None} /\ (roles # Unset => RolesNow = roles)
           /\ RolesNow # Unset
  BY ConstantsAssumption DEF TypeOK, KeyNow, RolesNow

\* A role map gives roles.
LEMMA RoleForType ==
    ASSUME NEW m \in Maps \cup {None}, NEW cn \in CNs \cup {None}
    PROVE  RoleFor(m, cn) \in Roles
  BY ConstantsAssumption DEF RoleFor, Roles

\* A request that is left alone keeps what was established about it.
LEMMA LeftAlone ==
    ASSUME IInv, NEW s \in Threads, Checked(s),
           pc'[s] = pc[s], req'[s] = req[s], records'[s] = records[s],
           clock' \in Nat, clock <= clock', issued \subseteq issued', revFile' = revFile,
           key # Unset => key' = key, roles # Unset => roles' = roles
    PROVE  Checked(s)'
  <1>1. req[s] \in Requests /\ req[s].at \in Nat /\ clock \in Nat
    BY ConstantsAssumption DEF IInv, Requests, TypeOK
  <1>2. (req[s].at <= clock)'
    BY <1>1 DEF Checked
  <1>3. ASSUME req[s].token = None PROVE NoTokenChecked(s)'
    BY <1>3 DEF Checked, NoTokenChecked
  <1>4. ASSUME req[s].token # None PROVE TokenChecked(s)'
    <2>1. TokenChecked(s)
      BY <1>4 DEF Checked
    <2>2. (req[s].token \in issued \cup Forged \cup {Malformed})'
      BY <2>1 DEF TokenChecked
    <2>3. ASSUME pc[s] \in {"expiry", "revoked", "decide", "served"}
          PROVE  req[s].token \in issued' /\ req[s].token.key = key'
      <3>1. req[s].token \in issued /\ req[s].token.key = key
        BY <2>1, <2>3 DEF TokenChecked
      <3>2. req[s].token.key \in Keys
        BY <3>1 DEF IInv, TypeOK, Tokens
      <3>3. key # Unset
        BY <3>1, <3>2, ConstantsAssumption
      <3> QED BY <3>1, <3>3
    <2> QED BY <2>1, <2>2, <2>3 DEF TokenChecked
  <1>5. ASSUME pc[s] = "served"
        PROVE  roles' # Unset /\ Permitted(RoleFor(roles', req[s].cn), req[s].op)
    BY <1>5 DEF Checked
  <1> QED BY <1>2, <1>3, <1>4, <1>5 DEF Checked

\* A thread without a request.
LEMMA IdleFields ==
    /\ NoRequest \in Requests
    /\ NoRequest.token = None /\ NoRequest.cn = NoRequest.peer /\ NoRequest.at = 0
    /\ ~NoRequest.always /\ NoRequest.verdict # "revoked"
  <1>1. 0 \in 0..MaxTime /\ None # "revoked"
    BY ConstantsAssumption DEF Verdicts
  <1> QED BY <1>1 DEF NoRequest, Requests

\* A server that has just started satisfies the invariant.
LEMMA InitIInv == Init => IInv
  <1> SUFFICES ASSUME Init PROVE IInv
    OBVIOUS
  <1>1. 0 \in 0..MaxTime /\ 0 \in 0..MaxEdits /\ 0 \in 0..MaxRevisions /\ 0 \in 0..MaxRestarts
    BY ConstantsAssumption
  <1>2. TypeOK
    BY <1>1 DEF Init, TypeOK, Contents
  <1>3. req \in [Threads -> Requests]
    BY IdleFields DEF Init
  <1>4. ASSUME NEW t \in Threads PROVE Checked(t)
    <2>1. req[t] = NoRequest /\ pc[t] = "idle" /\ records[t] = 0 /\ clock = 0
      BY DEF Init
    <2> QED BY <2>1, IdleFields DEF Checked, NoTokenChecked
  <1> QED BY <1>2, <1>3, <1>4 DEF IInv, CacheMatches, Init

-----------------------------------------------------------------------------
(* The environment and the issuing of tokens leave every request alone. *)

\* Clock and files.
LEMMA EnvironmentIInv ==
    ASSUME IInv, Tick \/ EditKey \/ EditMap
    PROVE  IInv'
  <1>1. clock \in Nat /\ clock' \in Nat /\ clock <= clock'
    BY ConstantsAssumption DEF IInv, TypeOK, Tick, EditKey, EditMap, world, counts
  <1>2. UNCHANGED <<revFile, process, issued, pc, req, records>>
    BY DEF Tick, EditKey, EditMap, files, threads
  <1>3. TypeOK'
    BY <1>2, ConstantsAssumption
       DEF IInv, TypeOK, Tick, EditKey, EditMap, process, files, counts, world
  <1>4. \A s \in Threads : Checked(s)'
    BY <1>1, <1>2, LeftAlone DEF IInv, process
  <1>5. CacheMatches'
    BY <1>2 DEF IInv, CacheMatches, process
  <1> QED BY <1>2, <1>3, <1>4, <1>5 DEF IInv

\* issue() and its two entries.
LEMMA IssueIInv ==
    ASSUME IInv, NEW cn \in CNs, MintHttp(cn) \/ MintForbidden(cn) \/ MintGrpc(cn)
    PROVE  IInv'
  <1>1. UNCHANGED <<files, revoked, stamp, clock, counts, threads>>
    BY DEF MintHttp, MintForbidden, MintGrpc, Issue, world
  <1>2. key' \in {key, KeyNow} /\ roles' = RolesNow
    BY DEF MintHttp, MintForbidden, MintGrpc, Issue
  <1>3. /\ key' \in Keys \cup {None, Unset} /\ (key # Unset => key' = key)
        /\ roles' \in Maps \cup {None, Unset} /\ (roles # Unset => roles' = roles)
    <2>1. TypeOK
      BY DEF IInv
    <2>2. key \in Keys \cup {None, Unset}
      BY <2>1 DEF TypeOK
    <2> QED BY <1>2, <2>1, <2>2, Resolved
  <1>4. issued \subseteq issued' /\ issued' \in SUBSET Tokens
    <2>0. TypeOK
      BY DEF IInv
    <2>1. issued \in SUBSET Tokens /\ clock \in 0..MaxTime
      BY <2>0 DEF TypeOK
    <2>2. CASE issued' = issued
      BY <2>1, <2>2
    <2>3. CASE issued' # issued
      <3>1. Issue(cn)
        BY <2>3 DEF MintHttp, MintForbidden, MintGrpc, world
      <3>2. PICK j \in Jtis : /\ KeyNow # None
                              /\ issued' = issued \cup {Token(cn, RoleFor(RolesNow, cn), KeyNow, clock + TTL, j)}
        BY <2>3, <3>1 DEF Issue
      <3>3. KeyNow \in Keys /\ RoleFor(RolesNow, cn) \in Roles
        BY <2>0, <3>2, Resolved, RoleForType
      <3>4. clock + TTL \in 0..(MaxTime + TTL)
        BY <2>1, ConstantsAssumption
      <3>5. Token(cn, RoleFor(RolesNow, cn), KeyNow, clock + TTL, j) \in Tokens
        BY <3>3, <3>4 DEF Token, Tokens
      <3> QED BY <2>1, <3>2, <3>5
    <2> QED BY <2>2, <2>3
  <1>5. TypeOK'
    BY <1>1, <1>3, <1>4 DEF IInv, TypeOK, files, counts, threads
  <1>6. clock \in Nat /\ clock' = clock
    BY <1>1, ConstantsAssumption DEF IInv, TypeOK
  <1>7. \A s \in Threads : Checked(s)'
    BY <1>1, <1>3, <1>4, <1>6, LeftAlone DEF IInv, files, threads
  <1>8. CacheMatches'
    BY <1>1 DEF IInv, CacheMatches
  <1> QED BY <1>1, <1>5, <1>7, <1>8 DEF IInv, threads

\* A restart forgets every request.
LEMMA RestartIInv ==
    ASSUME IInv, Restart
    PROVE  IInv'
  <1>1. TypeOK'
    BY ConstantsAssumption DEF IInv, TypeOK, Restart, files, Contents
  <1>2. (req \in [Threads -> Requests])'
    BY IdleFields DEF Restart
  <1>3. ASSUME NEW t \in Threads PROVE Checked(t)'
    <2>1. clock' \in Nat
      BY <1>1, ConstantsAssumption DEF TypeOK
    <2>2. req'[t] = NoRequest /\ pc'[t] = "idle" /\ records'[t] = 0
      BY DEF Restart
    <2> QED BY <2>1, <2>2, IdleFields DEF Checked, NoTokenChecked
  <1>4. CacheMatches'
    BY DEF Restart, CacheMatches
  <1> QED BY <1>1, <1>2, <1>3, <1>4 DEF IInv

\* The revocation file changes under every request; each notes it.
LEMMA EditRevocationsIInv ==
    ASSUME IInv, EditRevocations
    PROVE  IInv'
  <1>1. PICK content \in Contents \cup {None} :
            /\ revFile' = content
            /\ req' = [t \in Threads |->
                  IF req[t].token = None THEN req[t]
                  ELSE [req[t] EXCEPT
                          !.always = @ /\ Lists(content, req[t].token.jti),
                          !.ever = @ \/ Lists(content, req[t].token.jti)]]
    BY DEF EditRevocations
  <1>2. UNCHANGED <<keyFile, mapFile, process, issued, clock, edits, restarts, pc, records>>
    BY DEF EditRevocations
  <1>a. revFile' = content
    BY <1>1
  <1>b. revisions' \in 0..MaxRevisions
    <2>1. revisions < MaxRevisions /\ revisions' = revisions + 1
      BY DEF EditRevocations
    <2>2. revisions \in 0..MaxRevisions
      BY DEF IInv, TypeOK
    <2> QED BY <2>1, <2>2, ConstantsAssumption
  <1>3. TypeOK'
    BY <1>2, <1>a, <1>b DEF IInv, TypeOK, process
  <1>4. ASSUME NEW t \in Threads PROVE req'[t] \in Requests /\ Checked(t)'
    <2>0. req[t] \in Requests /\ Checked(t)
      BY DEF IInv
    <2>1. CASE req[t].token = None
      <3>1. req'[t] = req[t]
        BY <1>1, <2>1
      <3> QED BY <1>2, <2>0, <2>1, <3>1 DEF Checked, NoTokenChecked, process
    <2>2. CASE req[t].token # None
      <3> DEFINE L == Lists(content, req[t].token.jti)
      <3>1. req'[t] = [req[t] EXCEPT !.always = @ /\ L, !.ever = @ \/ L]
        BY <1>1, <2>2
      <3>2. /\ req'[t].peer = req[t].peer /\ req'[t].token = req[t].token
            /\ req'[t].op = req[t].op /\ req'[t].at = req[t].at
            /\ req'[t].cn = req[t].cn /\ req'[t].verdict = req[t].verdict
            /\ req'[t] \in Requests
        BY <2>0, <3>1 DEF Requests
      <3>3. req'[t].always <=> req[t].always /\ L
        BY <2>0, <3>1 DEF Requests
      <3>4. req'[t].ever <=> req[t].ever \/ L
        BY <2>0, <3>1 DEF Requests
      <3>5. Lists(revFile, req[t].token.jti)' <=> L
        BY <1>a, <3>2 DEF Lists
      <3>6. TokenChecked(t)'
        BY <1>2, <2>0, <2>2, <3>2, <3>3, <3>4, <3>5 DEF Checked, TokenChecked, process
      <3> QED BY <1>2, <2>0, <2>2, <3>2, <3>4, <3>6 DEF Checked, process
    <2> QED BY <2>1, <2>2
  <1>5. (req \in [Threads -> Requests])'
    BY <1>1, <1>4
  <1>6. CacheMatches'
    BY <1>2 DEF IInv, CacheMatches, process
  <1> QED BY <1>3, <1>4, <1>5, <1>6 DEF IInv

-----------------------------------------------------------------------------
(* A step of one thread. *)

\* It leaves the others alone, so its own request is all there is to look at.
LEMMA ThreadStep ==
    ASSUME IInv, NEW t \in Threads,
           NEW p \in {"idle", "token", "expiry", "revoked", "decide", "served", "refused"},
           NEW r \in Requests, NEW n \in 0..1,
           pc' = [pc EXCEPT ![t] = p], req' = [req EXCEPT ![t] = r],
           records' = [records EXCEPT ![t] = n],
           UNCHANGED <<files, world>>,
           key' \in {key, KeyNow}, roles' \in {roles, RolesNow},
           revoked' \in Contents, stamp' \in Contents \cup {None}, CacheMatches',
           Checked(t)'
    PROVE  IInv'
  <1>0. TypeOK /\ req \in [Threads -> Requests]
    BY DEF IInv
  <1>1. /\ key' \in Keys \cup {None, Unset} /\ (key # Unset => key' = key)
        /\ roles' \in Maps \cup {None, Unset} /\ (roles # Unset => roles' = roles)
    <2>1. key \in Keys \cup {None, Unset} /\ roles \in Maps \cup {None, Unset}
      BY <1>0 DEF TypeOK
    <2> QED BY <1>0, <2>1, Resolved
  <1>2. UNCHANGED <<keyFile, mapFile, revFile, issued, clock, edits, revisions, restarts>>
    BY DEF files, world, counts
  <1>3. TypeOK'
    BY <1>0, <1>1, <1>2 DEF TypeOK
  <1>4. req' \in [Threads -> Requests]
    BY <1>0
  <1>5. ASSUME NEW s \in Threads PROVE Checked(s)'
    <2>1. CASE s = t
      BY <2>1
    <2>2. CASE s # t
      <3>1. pc'[s] = pc[s] /\ req'[s] = req[s] /\ records'[s] = records[s]
        BY <1>0, <2>2 DEF TypeOK
      <3>2. clock' \in Nat /\ clock <= clock' /\ Checked(s)
        BY <1>0, <1>2, ConstantsAssumption DEF IInv, TypeOK
      <3> QED BY <1>1, <1>2, <3>1, <3>2, LeftAlone
    <2> QED BY <2>1, <2>2
  <1> QED BY <1>3, <1>4, <1>5 DEF IInv

\* deny(), by whichever check.
LEMMA DenyIInv ==
    ASSUME IInv, NEW t \in Threads, NEW v \in Verdicts, Deny(t, v),
           pc[t] \in {"token", "expiry", "revoked", "decide"},
           v = "revoked" => req[t].ever,
           UNCHANGED <<files, world>>,
           key' \in {key, KeyNow}, roles' \in {roles, RolesNow},
           revoked' \in Contents, stamp' \in Contents \cup {None}, CacheMatches'
    PROVE  IInv'
  <1> DEFINE r == [req[t] EXCEPT !.verdict = v]
  <1>0. req \in [Threads -> Requests] /\ req[t] \in Requests /\ Checked(t) /\ TypeOK
    BY DEF IInv
  <1>1. r \in Requests
    BY <1>0 DEF Requests
  <1>2. /\ r.peer = req[t].peer /\ r.token = req[t].token /\ r.op = req[t].op
        /\ r.at = req[t].at /\ r.cn = req[t].cn /\ r.verdict = v
    BY <1>0 DEF Requests
  <1>3. (r.always <=> req[t].always) /\ (r.ever <=> req[t].ever)
    BY <1>0 DEF Requests
  <1>4. pc' = [pc EXCEPT ![t] = "refused"] /\ req' = [req EXCEPT ![t] = r]
    BY <1>0 DEF Deny
  <1>5. records[t] = 0 /\ records' = [records EXCEPT ![t] = 1]
    <2>1. records[t] = 0
      BY <1>0 DEF Checked
    <2>2. records' = [records EXCEPT ![t] = records[t] + 1]
      BY DEF Deny
    <2> QED BY <2>1, <2>2
  <1>6. pc'[t] = "refused" /\ req'[t] = r /\ records'[t] = 1
    BY <1>0, <1>4, <1>5 DEF TypeOK
  <1>7. UNCHANGED <<revFile, issued, clock>>
    BY DEF files, world
  <1>8. ASSUME req[t].token = None PROVE NoTokenChecked(t)'
    BY <1>0, <1>2, <1>3, <1>6, <1>8 DEF Checked, NoTokenChecked
  <1>9. ASSUME req[t].token # None PROVE TokenChecked(t)'
    <2>1. TokenChecked(t)
      BY <1>0, <1>9 DEF Checked
    <2>2. Lists(revFile, req[t].token.jti)' <=> Lists(revFile, req[t].token.jti)
      BY <1>2, <1>6, <1>7 DEF Lists
    <2> QED BY <1>2, <1>3, <1>6, <1>7, <2>1, <2>2 DEF TokenChecked
  <1>10. Checked(t)'
    BY <1>0, <1>2, <1>3, <1>6, <1>7, <1>8, <1>9 DEF Checked
  <1>11. 1 \in 0..1
    OBVIOUS
  <1> HIDE DEF r
  <1> QED BY <1>1, <1>4, <1>5, <1>10, <1>11, ThreadStep

\* A check is passed: the request goes on as it is.
LEMMA ProceedIInv ==
    ASSUME IInv, NEW t \in Threads, NEW p \in {"expiry", "revoked", "served"},
           Proceed(t, p), pc[t] # "refused",
           UNCHANGED <<files, world>>,
           key' \in {key, KeyNow}, roles' \in {roles, RolesNow},
           revoked' \in Contents, stamp' \in Contents \cup {None}, CacheMatches',
           req[t].token = None => p = "served",
           req[t].token # None =>
              /\ req[t].token \in issued /\ req[t].token.key = key'
              /\ p \in {"revoked", "served"} => req[t].at < req[t].token.exp
              /\ p = "served" => req[t].cn = req[t].token.cn /\ ~req[t].always,
           p = "served" => roles' # Unset /\ Permitted(RoleFor(roles', req[t].cn), req[t].op)
    PROVE  IInv'
  <1>0. req \in [Threads -> Requests] /\ req[t] \in Requests /\ Checked(t) /\ TypeOK
    BY DEF IInv
  <1>1. pc' = [pc EXCEPT ![t] = p] /\ req' = req /\ records' = records
    BY DEF Proceed
  <1>2. pc'[t] = p /\ req'[t] = req[t] /\ records'[t] = records[t] /\ records[t] = 0
    BY <1>0, <1>1 DEF TypeOK, Checked
  <1>3. UNCHANGED <<revFile, issued, clock>>
    BY DEF files, world
  <1>4. ASSUME req[t].token = None PROVE NoTokenChecked(t)'
    BY <1>0, <1>2, <1>4 DEF Checked, NoTokenChecked
  <1>5. ASSUME req[t].token # None PROVE TokenChecked(t)'
    <2>1. TokenChecked(t)
      BY <1>0, <1>5 DEF Checked
    <2>2. Lists(revFile, req[t].token.jti)' <=> Lists(revFile, req[t].token.jti)
      BY <1>1, <1>3 DEF Lists
    <2> QED BY <1>2, <1>3, <1>5, <2>1, <2>2 DEF TokenChecked
  <1>6. Checked(t)'
    BY <1>0, <1>2, <1>3, <1>4, <1>5 DEF Checked
  <1>7. req' = [req EXCEPT ![t] = req[t]] /\ records' = [records EXCEPT ![t] = 0] /\ 0 \in 0..1
    BY <1>0, <1>1, <1>2 DEF TypeOK
  <1> QED BY <1>0, <1>1, <1>6, <1>7, ThreadStep

-----------------------------------------------------------------------------
(* The checks, one after the other. *)

\* from_authorization(): a request comes in.
LEMMA ArriveIInv ==
    ASSUME IInv, NEW t \in Threads, Arrive(t)
    PROVE  IInv'
  <1>0. TypeOK /\ req \in [Threads -> Requests] /\ Checked(t)
    BY DEF IInv
  <1>1. PICK peer \in CNs \cup {None}, op \in Ops,
             tok \in issued \cup Forged \cup {Malformed, None} :
          /\ req' = [req EXCEPT ![t] =
                [peer |-> peer, token |-> tok, op |-> op, at |-> clock,
                 always |-> tok # None /\ Lists(revFile, tok.jti),
                 ever |-> tok # None /\ Lists(revFile, tok.jti),
                 cn |-> peer, verdict |-> None]]
          /\ pc' = [pc EXCEPT ![t] = IF tok = None THEN "decide" ELSE "token"]
    BY DEF Arrive
  <1> DEFINE listed == tok # None /\ Lists(revFile, tok.jti)
             p == IF tok = None THEN "decide" ELSE "token"
             r == [peer |-> peer, token |-> tok, op |-> op, at |-> clock, always |-> listed,
                   ever |-> listed, cn |-> peer, verdict |-> None]
  <1>2. pc[t] = "idle" /\ UNCHANGED <<files, process, world, records>>
    BY DEF Arrive
  <1>3. tok \in Presented \cup {None}
    BY <1>0 DEF TypeOK, Presented
  <1>4. clock \in 0..MaxTime
    BY <1>0 DEF TypeOK
  <1>5. r \in Requests
    BY <1>3, <1>4 DEF Requests
  <1>6. req' = [req EXCEPT ![t] = r] /\ pc' = [pc EXCEPT ![t] = p]
    BY <1>1
  <1>7. req'[t] = r /\ pc'[t] = p /\ records'[t] = 0 /\ records' = [records EXCEPT ![t] = 0]
    BY <1>0, <1>2, <1>6 DEF TypeOK, Checked
  <1>8. /\ r.peer = peer /\ r.token = tok /\ r.at = clock /\ r.cn = peer /\ r.verdict = None
        /\ r.always <=> listed
        /\ r.ever <=> listed
    OBVIOUS
  <1>9. UNCHANGED <<revFile, issued, clock, key, roles, revoked, stamp>>
    BY <1>2 DEF files, world, process
  <1>10. p \in {"decide", "token"} /\ (p = "decide" <=> tok = None) /\ None # "revoked"
    BY ConstantsAssumption DEF Verdicts
  <1>11. (tok # None /\ Lists(revFile, tok.jti)) <=> listed
    OBVIOUS
  <1>12. clock \in Nat
    BY <1>4, ConstantsAssumption
  <1> HIDE DEF r, p, listed
  <1>13. ASSUME tok = None PROVE NoTokenChecked(t)'
    BY <1>7, <1>8, <1>10, <1>11, <1>13 DEF NoTokenChecked
  <1>14. ASSUME tok # None PROVE TokenChecked(t)'
    <2>1. Lists(revFile, req[t].token.jti)' <=> Lists(revFile, tok.jti)
      BY <1>7, <1>8, <1>9 DEF Lists
    <2>2. tok \in issued \cup Forged \cup {Malformed}
      BY <1>14
    <2> QED BY <1>7, <1>8, <1>9, <1>10, <1>11, <1>14, <2>1, <2>2 DEF TokenChecked
  <1>15. Checked(t)'
    BY <1>7, <1>8, <1>9, <1>10, <1>12, <1>13, <1>14 DEF Checked
  <1>16. CacheMatches' /\ revoked' \in Contents /\ stamp' \in Contents \cup {None}
    BY <1>0, <1>9 DEF IInv, CacheMatches, TypeOK
  <1>17. 0 \in 0..1
    OBVIOUS
  <1> QED BY <1>2, <1>5, <1>6, <1>7, <1>9, <1>10, <1>15, <1>16, <1>17, ThreadStep

\* What a step that leaves the revocation list alone does not disturb.
LEMMA CacheAlone ==
    ASSUME IInv, UNCHANGED <<revoked, stamp>>
    PROVE  CacheMatches' /\ revoked' \in Contents /\ stamp' \in Contents \cup {None}
  BY DEF IInv, CacheMatches, TypeOK

\* The key, the structure, the MAC.
LEMMA CheckTokenIInv ==
    ASSUME IInv, NEW t \in Threads, CheckToken(t)
    PROVE  IInv'
  <1>0. TypeOK /\ req[t] \in Requests /\ Checked(t)
    BY DEF IInv
  <1>1. pc[t] = "token" /\ key' = KeyNow /\ UNCHANGED <<files, roles, revoked, stamp, world>>
    BY DEF CheckToken
  <1>2. CacheMatches' /\ revoked' \in Contents /\ stamp' \in Contents \cup {None}
    BY <1>1, CacheAlone
  <1>3. req[t].token # None /\ TokenChecked(t)
    BY <1>0, <1>1 DEF Checked, NoTokenChecked
  <1>4. ASSUME NEW v \in {"no_key", "malformed", "bad_signature"}, Deny(t, v) PROVE IInv'
    <2>1. v \in Verdicts /\ v # "revoked"
      BY <1>4 DEF Verdicts
    <2> QED BY <1>1, <1>2, <1>4, <2>1, DenyIInv
  <1>5. ASSUME KeyNow # None, req[t].token.key = KeyNow, Proceed(t, "expiry") PROVE IInv'
    <2>1. KeyNow \in Keys
      BY <1>0, <1>5, Resolved
    <2>2. req[t].token \in issued
      BY <1>3, <1>5, <2>1, ConstantsAssumption DEF TokenChecked, Forged, Malformed, Token
    <2> QED BY <1>1, <1>2, <1>3, <1>5, <2>2, ProceedIInv
  <1> QED BY <1>4, <1>5 DEF CheckToken

\* The clock.
LEMMA CheckExpiryIInv ==
    ASSUME IInv, NEW t \in Threads, CheckExpiry(t)
    PROVE  IInv'
  <1>0. TypeOK /\ req[t] \in Requests /\ Checked(t)
    BY DEF IInv
  <1>1. pc[t] = "expiry" /\ UNCHANGED <<files, key, roles, revoked, stamp, world>>
    BY DEF CheckExpiry, process
  <1>2. CacheMatches' /\ revoked' \in Contents /\ stamp' \in Contents \cup {None}
    BY <1>1, CacheAlone
  <1>3. req[t].token # None /\ TokenChecked(t)
    BY <1>0, <1>1 DEF Checked, NoTokenChecked
  <1>4. ASSUME Deny(t, "expired") PROVE IInv'
    <2>1. "expired" \in Verdicts
      BY DEF Verdicts
    <2> QED BY <1>1, <1>2, <1>4, <2>1, DenyIInv
  <1>5. ASSUME clock < req[t].token.exp, Proceed(t, "revoked") PROVE IInv'
    <2>1. req[t].token \in issued /\ req[t].token.key = key
      BY <1>1, <1>3 DEF TokenChecked
    <2>2. req[t].at \in Nat /\ req[t].at <= clock /\ clock \in Nat /\ req[t].token.exp \in Nat
      <3>1. req[t].token \in Presented
        BY <1>0, <1>3 DEF Requests
      <3> QED BY <1>0, <3>1, TokenFields, ConstantsAssumption DEF Requests, Checked, TypeOK
    <2>3. req[t].at < req[t].token.exp
      BY <1>5, <2>2
    <2> QED BY <1>1, <1>2, <1>3, <1>5, <2>1, <2>3, ProceedIInv
  <1> QED BY <1>4, <1>5 DEF CheckExpiry

\* reload_if_changed() always ends with what the file says.
LEMMA ReloadCurrent ==
    ASSUME IInv
    PROVE  /\ revFile = None => Reload.set = {} /\ Reload.stamp = None
           /\ revFile # None => Reload.set = revFile /\ Reload.stamp = revFile
  BY DEF IInv, CacheMatches, Reload

\* The revocation list.
LEMMA CheckRevokedIInv ==
    ASSUME IInv, NEW t \in Threads, CheckRevoked(t)
    PROVE  IInv'
  <1>0. TypeOK /\ req \in [Threads -> Requests] /\ req[t] \in Requests /\ Checked(t)
    BY DEF IInv
  <1>1. /\ pc[t] = "revoked" /\ revoked' = Reload.set /\ stamp' = Reload.stamp
        /\ UNCHANGED <<files, key, roles, world>>
    BY DEF CheckRevoked
  <1>2. /\ revoked' \in Contents /\ stamp' \in Contents \cup {None} /\ CacheMatches'
        /\ revFile # None => revoked' = revFile
        /\ revFile = None => revoked' = {}
    BY <1>0, <1>1, ReloadCurrent DEF TypeOK, Contents, CacheMatches
  <1>3. req[t].token # None /\ TokenChecked(t)
    BY <1>0, <1>1 DEF Checked, NoTokenChecked
  <1>4. Lists(revFile, req[t].token.jti) <=> req[t].token.jti \in revoked'
    BY <1>2 DEF Lists
  <1>5. ASSUME req[t].token.jti \in revoked', Deny(t, "revoked") PROVE IInv'
    <2>1. "revoked" \in Verdicts /\ req[t].ever
      BY <1>3, <1>4, <1>5 DEF Verdicts, TokenChecked
    <2> QED BY <1>1, <1>2, <1>5, <2>1, DenyIInv
  <1>6. ASSUME req[t].token.jti \notin revoked',
               pc' = [pc EXCEPT ![t] = "decide"],
               req' = [req EXCEPT ![t].cn = req[t].token.cn],
               UNCHANGED records
        PROVE  IInv'
    <2> DEFINE r == [req[t] EXCEPT !.cn = req[t].token.cn]
    <2>1. req[t].token \in Presented /\ req[t].token.cn \in CNs \cup {None}
      <3>1. req[t].token \in Presented
        BY <1>0, <1>3 DEF Requests
      <3> QED BY <3>1, TokenFields
    <2>2. r \in Requests
      BY <1>0, <2>1 DEF Requests
    <2>3. /\ r.peer = req[t].peer /\ r.token = req[t].token /\ r.op = req[t].op
          /\ r.at = req[t].at /\ r.cn = req[t].token.cn /\ r.verdict = req[t].verdict
      BY <1>0 DEF Requests
    <2>4. (r.always <=> req[t].always) /\ (r.ever <=> req[t].ever)
      BY <1>0 DEF Requests
    <2>5. req' = [req EXCEPT ![t] = r]
      BY <1>0, <1>6
    <2>6. req'[t] = r /\ pc'[t] = "decide" /\ records'[t] = 0 /\ records' = [records EXCEPT ![t] = 0]
      BY <1>0, <1>1, <1>6, <2>5 DEF TypeOK, Checked
    <2>7. UNCHANGED <<revFile, issued, clock>>
      BY <1>1 DEF files, world
    <2>8. ~req[t].always
      BY <1>3, <1>4, <1>6 DEF TokenChecked
    <2> HIDE DEF r
    <2>9. Lists(revFile, req[t].token.jti)' <=> Lists(revFile, req[t].token.jti)
      BY <2>3, <2>6, <2>7 DEF Lists
    <2>10. TokenChecked(t)'
      BY <1>1, <1>3, <2>3, <2>4, <2>6, <2>7, <2>8, <2>9 DEF TokenChecked
    <2>11. Checked(t)'
      BY <1>0, <1>3, <2>3, <2>4, <2>6, <2>7, <2>10 DEF Checked
    <2>12. 0 \in 0..1
      OBVIOUS
    <2> QED BY <1>1, <1>2, <1>6, <2>2, <2>5, <2>6, <2>11, <2>12, ThreadStep
  <1> QED BY <1>5, <1>6 DEF CheckRevoked

\* decide().
LEMMA DecideIInv ==
    ASSUME IInv, NEW t \in Threads, Decide(t)
    PROVE  IInv'
  <1>0. TypeOK /\ req[t] \in Requests /\ Checked(t)
    BY DEF IInv
  <1>1. pc[t] = "decide" /\ roles' = RolesNow /\ UNCHANGED <<files, key, revoked, stamp, world>>
    BY DEF Decide
  <1>2. CacheMatches' /\ revoked' \in Contents /\ stamp' \in Contents \cup {None}
    BY <1>1, CacheAlone
  <1>3. ASSUME NEW v \in {"unauthenticated", "forbidden"}, Deny(t, v) PROVE IInv'
    <2>1. v \in Verdicts /\ v # "revoked"
      BY <1>3 DEF Verdicts
    <2> QED BY <1>1, <1>2, <1>3, <2>1, DenyIInv
  <1>4. ASSUME Permitted(RoleFor(RolesNow, req[t].cn), req[t].op), Proceed(t, "served") PROVE IInv'
    <2>1. roles' # Unset
      BY <1>0, <1>1, Resolved
    <2>2. req[t].token # None =>
             /\ req[t].token \in issued /\ req[t].token.key = key'
             /\ req[t].at < req[t].token.exp
             /\ req[t].cn = req[t].token.cn /\ ~req[t].always
      BY <1>0, <1>1 DEF Checked, TokenChecked
    <2> QED BY <1>1, <1>2, <1>4, <2>1, <2>2, ProceedIInv
  <1> QED BY <1>3, <1>4 DEF Decide

\* The answer.
LEMMA AnswerIInv ==
    ASSUME IInv, NEW t \in Threads, Answer(t)
    PROVE  IInv'
  <1>0. TypeOK /\ req \in [Threads -> Requests]
    BY DEF IInv
  <1>1. /\ pc' = [pc EXCEPT ![t] = "idle"] /\ req' = [req EXCEPT ![t] = NoRequest]
        /\ records' = [records EXCEPT ![t] = 0]
        /\ UNCHANGED <<files, key, roles, revoked, stamp, world>>
    BY DEF Answer, process
  <1>2. CacheMatches' /\ revoked' \in Contents /\ stamp' \in Contents \cup {None}
    BY <1>1, CacheAlone
  <1>3. pc'[t] = "idle" /\ req'[t] = NoRequest /\ records'[t] = 0 /\ 0 \in 0..1
    BY <1>0, <1>1 DEF TypeOK
  <1>4. clock' \in Nat
    BY <1>0, <1>1, ConstantsAssumption DEF TypeOK, world
  <1>5. Checked(t)'
    BY <1>3, <1>4, IdleFields DEF Checked, NoTokenChecked
  <1> QED BY <1>1, <1>2, <1>3, <1>5, IdleFields, ThreadStep

-----------------------------------------------------------------------------

\* Every step keeps the invariant.
LEMMA NextIInv == IInv /\ [Next]_vars => IInv'
  <1> SUFFICES ASSUME IInv, [Next]_vars PROVE IInv'
    OBVIOUS
  <1>1. CASE UNCHANGED vars
    BY <1>1 DEF vars, files, process, world, counts, threads, IInv, TypeOK, CacheMatches,
                Checked, NoTokenChecked, TokenChecked
  <1>2. CASE Tick \/ EditKey \/ EditMap
    BY <1>2, EnvironmentIInv
  <1>3. CASE EditRevocations
    BY <1>3, EditRevocationsIInv
  <1>4. CASE Restart
    BY <1>4, RestartIInv
  <1>5. CASE \E cn \in CNs : MintHttp(cn) \/ MintForbidden(cn) \/ MintGrpc(cn)
    BY <1>5, IssueIInv
  <1>6. CASE \E t \in Threads : Arrive(t) \/ Serve(t)
    BY <1>6, ArriveIInv, CheckTokenIInv, CheckExpiryIInv, CheckRevokedIInv, DecideIInv,
       AnswerIInv DEF Serve
  <1> QED BY <1>1, <1>2, <1>3, <1>4, <1>5, <1>6 DEF Next

\* The invariant holds of every reachable state.
LEMMA IInvHolds == Spec => []IInv
  BY InitIInv, NextIInv, PTL DEF Spec

\* The gate's state is well-typed; a request never has two audit records.
THEOREM TypeCorrect == Spec => []TypeOK
  <1>1. IInv => TypeOK
    BY DEF IInv
  <1> QED BY <1>1, IInvHolds, PTL

\* What verify() and decide() let through is authentic: no fall-through to the
\* certificate, no foreign key, no expired token, whatever is edited or restarted
\* between the checks.
THEOREM ServedIsAuthenticHolds == Spec => []ServedIsAuthentic
  <1>1. IInv => ServedIsAuthentic
    BY DEF IInv, Checked, TokenChecked, NoTokenChecked, ServedIsAuthentic, WithToken
  <1> QED BY <1>1, IInvHolds, PTL

\* decide() answers by the role map of the process.
THEOREM ServedIsPermittedHolds == Spec => []ServedIsPermitted
  <1>1. IInv => ServedIsPermitted
    BY DEF IInv, Checked, ServedIsPermitted
  <1> QED BY <1>1, IInvHolds, PTL

\* reload_if_changed() lets every revocation land through its cache.
THEOREM RevocationLandsHolds == Spec => []RevocationLands
  <1>1. IInv => RevocationLands
    BY DEF IInv, Checked, TokenChecked, NoTokenChecked, RevocationLands
  <1> QED BY <1>1, IInvHolds, PTL

\* Every refusing path of verify() and decide() writes exactly one record.
THEOREM RefusalsAuditedHolds == Spec => []RefusalsAudited
  <1>1. IInv => RefusalsAudited
    BY DEF IInv, Checked, RefusalsAudited
  <1> QED BY <1>1, IInvHolds, PTL

-----------------------------------------------------------------------------
(* The handlers behind it. *)

HasConn == {"body", "write", "fire", "leave", "unwind"}

\* A connection is lent to one request, from its borrow to its exit.
LentRight ==
    /\ \A r \in Request : lent[r] # NoConn <=> stage[r] \in HasConn
    /\ \A r, q \in Request : r # q /\ lent[r] # NoConn => lent[r] # lent[q]

\* What is in an open transaction: the write of the request that has the
\* connection, or of one that has left it there.
WorkRight ==
    /\ \A c \in Conn : c \in open <=> inside[c] # {}
    /\ \A r \in Request : lent[r] # NoConn => inside[lent[r]] \subseteq {r}
    /\ \A r \in Request : stage[r] \in {"body", "fire"} => inside[lent[r]] = {}
    /\ \A c \in Conn : \A r \in inside[c] :
          /\ inside[c] = {r}
          /\ Writes(r) /\ r \notin saved
          /\ stage[r] \in HasConn \cup {"done"}
          /\ stage[r] \in HasConn => lent[r] = c
          /\ stage[r] # "write" => reply[r] = "failed"
          /\ stage[r] = "done" => kind[r].via # "rest"

\* What the handler has established of the answer it is about to give.
ToldRight ==
    \A r \in Request :
        /\ stage[r] \in {"new", "gate", "borrow", "body", "write"} => r \notin saved
        /\ stage[r] = "write" => Writes(r)
        /\ stage[r] = "fire" => Writes(r) /\ r \in saved
        /\ stage[r] \in {"leave", "unwind", "done"} => Truthful(r)
        /\ stage[r] = "leave" /\ reply[r] = "failed" => kind[r].via # "rest"

ServerIInv == ServerTypeOK /\ LentRight /\ WorkRight /\ ToldRight

-----------------------------------------------------------------------------

\* The idle server satisfies the invariant.
LEMMA ServerInitIInv == ServerInit => ServerIInv
  BY NoConnAssumption
     DEF ServerInit, Pool!Init, ServerIInv, ServerTypeOK, LentRight, WorkRight, ToldRight,
         HasConn, Stages, Replies

\* A step that only moves a request on, before it has a connection.
LEMMA OutsideIInv ==
    ASSUME ServerIInv, NEW r \in Request,
           \/ Comes(r) \/ Deciding(r) \/ BorrowFails(r)
    PROVE  ServerIInv'
  <1>1. /\ Quiet
        /\ stage[r] \in {"new", "gate", "borrow"}
        /\ \E p \in {"gate", "borrow", "done"}, a \in {reply[r], "bad", "refused", "unavailable"} :
              /\ stage' = [stage EXCEPT ![r] = p]
              /\ reply' = [reply EXCEPT ![r] = a]
              /\ p = "done" => a \in {"bad", "refused", "unavailable"}
    BY DEF Comes, Deciding, BadEnvelope, Refuse, Admit, BorrowFails, Replying, Goes, ServerIInv, ServerTypeOK
  <1>2. UNCHANGED <<kind, lent, open, inside, saved, late>>
    BY <1>1 DEF Quiet
  <1>3. ServerTypeOK'
    BY <1>1, <1>2 DEF ServerIInv, ServerTypeOK, Stages, Replies
  <1>4. LentRight'
    BY <1>1, <1>2 DEF ServerIInv, ServerTypeOK, LentRight, HasConn
  <1>5. \A q \in Request : q # r => stage'[q] = stage[q] /\ reply'[q] = reply[q]
    BY <1>1 DEF ServerIInv, ServerTypeOK
  <1>6. \A q \in Request : Writes(q)' = Writes(q)
    BY <1>2 DEF Writes
  <1>7. \A c \in Conn : r \notin inside[c]
    BY <1>1 DEF ServerIInv, WorkRight, HasConn
  <1>8. stage'[r] \in {"gate", "borrow", "done"}
    BY <1>1 DEF ServerIInv, ServerTypeOK
  <1>9. WorkRight'
    BY <1>2, <1>5, <1>6, <1>7, <1>8 DEF ServerIInv, WorkRight, HasConn, ServerTypeOK
  <1>10. r \notin saved /\ (stage'[r] = "done" => reply'[r] \in {"bad", "refused", "unavailable"})
    BY <1>1 DEF ServerIInv, ServerTypeOK, ToldRight
  <1>11. ToldRight'
    BY <1>2, <1>5, <1>6, <1>8, <1>10 DEF ServerIInv, ToldRight, Truthful
  <1> QED BY <1>3, <1>4, <1>9, <1>11 DEF ServerIInv

\* pool.borrow() hands over a clean connection, which also ends the transaction
\* that was left on it.
LEMMA BorrowIInv == ASSUME ServerIInv, NEW r \in Request, Borrow(r) PROVE ServerIInv'
  <1>1. PICK c \in Conn : /\ c \notin Pool!Out
                          /\ lent' = [lent EXCEPT ![r] = c]
                          /\ open' = open \ {c}
                          /\ inside' = [inside EXCEPT ![c] = {}]
    BY DEF Borrow, Pool!Lend, Emptied
  <1>2. /\ stage[r] = "borrow" /\ stage' = [stage EXCEPT ![r] = "body"]
        /\ UNCHANGED <<kind, reply, saved, late>>
    BY DEF Borrow, Goes
  <1>3. \A q \in Request : lent[q] # c
    BY <1>1, NoConnAssumption DEF Pool!Out
  <1>4. ServerTypeOK'
    BY <1>1, <1>2 DEF ServerIInv, ServerTypeOK, Stages
  <1>5. /\ stage'[r] = "body" /\ lent'[r] = c
        /\ \A q \in Request : q # r => stage'[q] = stage[q] /\ lent'[q] = lent[q]
    BY <1>1, <1>2 DEF ServerIInv, ServerTypeOK
  <1>6. inside'[c] = {} /\ \A d \in Conn : d # c => inside'[d] = inside[d]
    BY <1>1 DEF ServerIInv, ServerTypeOK
  <1>7. LentRight'
    BY <1>2, <1>3, <1>5, NoConnAssumption DEF ServerIInv, LentRight, HasConn
  <1>8. \A q \in Request : Writes(q)' = Writes(q)
    BY <1>2 DEF Writes
  <1>9. WorkRight'
    BY <1>1, <1>2, <1>3, <1>5, <1>6, <1>8, NoConnAssumption
       DEF ServerIInv, WorkRight, HasConn, ServerTypeOK, LentRight
  <1>10. ToldRight'
    BY <1>2, <1>5, <1>8 DEF ServerIInv, ToldRight, Truthful
  <1> QED BY <1>4, <1>7, <1>9, <1>10 DEF ServerIInv

\* A request with a connection goes on, and what is in its transaction is as
\* before or gone.
LEMMA InsideIInv ==
    ASSUME ServerIInv, NEW r \in Request, stage[r] \in HasConn, stage'[r] \in HasConn,
           ServerTypeOK', UNCHANGED <<kind, lent>>,
           \A q \in Request : q # r => stage'[q] = stage[q] /\ reply'[q] = reply[q],
           \A q \in Request : q # r => /\ q \in saved' <=> q \in saved
                                       /\ q \in late => q \in late',
           \A c \in Conn : c # lent[r] => inside'[c] = inside[c] /\ (c \in open' <=> c \in open),
           lent[r] \in open' <=> inside'[lent[r]] # {},
           inside'[lent[r]] \subseteq {r},
           stage'[r] \in {"body", "fire"} => inside'[lent[r]] = {},
           inside'[lent[r]] # {} =>
               Writes(r) /\ r \notin saved' /\ (stage'[r] # "write" => reply'[r] = "failed"),
           ToldRight'
    PROVE  ServerIInv'
  <1>1. LentRight'
    BY DEF ServerIInv, LentRight
  <1>2. lent[r] \in Conn /\ lent[r] # NoConn /\ \A q \in Request : q # r => lent[q] # lent[r]
    BY NoConnAssumption DEF ServerIInv, LentRight, ServerTypeOK
  <1>3. \A q \in Request : Writes(q)' = Writes(q)
    BY DEF Writes
  <1>4. \A c \in Conn : c \in open' <=> inside'[c] # {}
    BY <1>2 DEF ServerIInv, WorkRight
  <1>5. \A q \in Request : lent[q] # NoConn => inside'[lent[q]] \subseteq {q}
    BY <1>2 DEF ServerIInv, WorkRight, ServerTypeOK
  <1>6. \A q \in Request : stage'[q] \in {"body", "fire"} => inside'[lent[q]] = {}
    BY <1>2 DEF ServerIInv, WorkRight, ServerTypeOK, LentRight, HasConn
  <1>7. ASSUME NEW c \in Conn, NEW q \in inside'[c]
        PROVE  /\ inside'[c] = {q}
               /\ Writes(q) /\ q \notin saved'
               /\ stage'[q] \in HasConn \cup {"done"}
               /\ stage'[q] \in HasConn => lent[q] = c
               /\ stage'[q] # "write" => reply'[q] = "failed"
               /\ stage'[q] = "done" => kind[q].via # "rest"
    <2>1. CASE c = lent[r]
      <3>1. q = r
        BY <1>7, <2>1
      <3> QED BY <1>7, <2>1, <3>1 DEF HasConn
    <2>2. CASE c # lent[r]
      <3>1. q \in inside[c] /\ q \in Request /\ q # r
        BY <1>7, <2>2 DEF ServerIInv, WorkRight, ServerTypeOK
      <3> QED BY <2>2, <3>1 DEF ServerIInv, WorkRight
    <2> QED BY <2>1, <2>2
  <1>8. WorkRight'
    BY <1>4, <1>5, <1>6, <1>7 DEF WorkRight, Writes
  <1> QED BY <1>1, <1>8 DEF ServerIInv

\* What a request that has a connection can see of the invariant.
LEMMA InsideFacts ==
    ASSUME ServerIInv, NEW r \in Request, stage[r] \in HasConn
    PROVE  /\ lent[r] \in Conn /\ lent[r] # NoConn
           /\ inside[lent[r]] \subseteq {r}
           /\ lent[r] \in open <=> inside[lent[r]] # {}
           /\ inside[lent[r]] # {} => /\ Writes(r) /\ r \notin saved
                                      /\ stage[r] # "write" => reply[r] = "failed"
           /\ stage[r] \in {"body", "fire"} => inside[lent[r]] = {}
  BY NoConnAssumption DEF ServerIInv, ServerTypeOK, LentRight, WorkRight

\* The answer of one request is decided; the others' stand.
LEMMA ToldStep ==
    ASSUME ServerIInv, NEW r \in Request, kind' = kind,
           \A q \in Request : q # r => stage'[q] = stage[q] /\ reply'[q] = reply[q],
           \A q \in Request : q # r => /\ q \in saved' <=> q \in saved
                                       /\ q \in late => q \in late',
           stage'[r] \in {"body", "write"} => r \notin saved',
           stage'[r] \in {"write", "fire"} => Writes(r),
           stage'[r] = "fire" => r \in saved',
           stage'[r] \notin {"new", "gate", "borrow"},
           stage'[r] \in {"leave", "unwind", "done"} =>
               /\ reply'[r] = "ok" /\ Writes(r) => r \in saved'
               /\ reply'[r] = "failed" /\ r \in saved' => r \in late'
               /\ reply'[r] \notin {"ok", "failed"} => r \notin saved',
           stage'[r] = "leave" /\ reply'[r] = "failed" => kind[r].via # "rest"
    PROVE  ToldRight'
  <1>1. \A q \in Request : Writes(q)' = Writes(q)
    BY DEF Writes
  <1>2. ASSUME NEW q \in Request, q # r
        PROVE  /\ stage'[q] \in {"new", "gate", "borrow", "body", "write"} => q \notin saved'
               /\ stage'[q] = "write" => Writes(q)
               /\ stage'[q] = "fire" => Writes(q) /\ q \in saved'
               /\ stage'[q] \in {"leave", "unwind", "done"} => Truthful(q)'
               /\ stage'[q] = "leave" /\ reply'[q] = "failed" => kind[q].via # "rest"
    BY <1>1, <1>2 DEF ServerIInv, ToldRight, Truthful
  <1>3. stage'[r] \in {"leave", "unwind", "done"} => Truthful(r)'
    BY <1>1 DEF Truthful
  <1> QED BY <1>1, <1>2, <1>3 DEF ToldRight

\* A DAO call that raises.
LEMMA RaiseFacts ==
    ASSUME ServerIInv, NEW r \in Request, Raise(r), stage[r] \in HasConn
    PROVE  /\ stage'[r] \in {"leave", "unwind"}
           /\ stage'[r] = "unwind" <=> kind[r].via = "rest"
           /\ reply'[r] \in {"failed", "missing"}
           /\ Writes(r) => reply'[r] = "failed"
           /\ \A q \in Request : q # r => stage'[q] = stage[q] /\ reply'[q] = reply[q]
           /\ UNCHANGED <<kind, lent, saved>>
           /\ stage' \in [Request -> Stages] /\ reply' \in [Request -> Replies]
  <1>1. PICK a \in {"failed", "missing"} : /\ reply' = [reply EXCEPT ![r] = a]
                                           /\ kind[r].verb # "read" => a = "failed"
    BY DEF Raise, Told
  <1>2. \/ kind[r].via = "rest" /\ stage' = [stage EXCEPT ![r] = "unwind"]
        \/ kind[r].via # "rest" /\ stage' = [stage EXCEPT ![r] = "leave"]
    BY DEF Raise, Goes
  <1>3. UNCHANGED <<kind, lent, saved>>
    BY DEF Raise
  <1>4. stage \in [Request -> Stages] /\ reply \in [Request -> Replies]
    BY DEF ServerIInv, ServerTypeOK
  <1> QED BY <1>1, <1>2, <1>3, <1>4 DEF Writes, Stages, Replies

\* The steps of a DAO call that raise.
LEMMA RaisingIInv ==
    ASSUME ServerIInv, NEW r \in Request,
           \/ Busy(r) \/ StatementRaises(r) \/ CommitFails(r) \/ FireRaises(r)
    PROVE  ServerIInv'
  <1>1. Raise(r) /\ stage[r] \in HasConn
    BY DEF Busy, StatementRaises, CommitFails, FireRaises, HasConn
  <1>2. \/ UNCHANGED <<open, inside>>
        \/ open' = open \ {lent[r]} /\ inside' = [inside EXCEPT ![lent[r]] = {}]
    BY DEF Busy, StatementRaises, CommitFails, FireRaises, Emptied
  <1>3. \/ stage[r] \in {"body", "write"} /\ late' = late
        \/ stage[r] = "fire" /\ late' = late \cup {r}
    BY DEF Busy, StatementRaises, CommitFails, FireRaises
  <1>4. ServerTypeOK'
    BY <1>1, <1>2, <1>3, RaiseFacts DEF ServerIInv, ServerTypeOK
  <1>5. stage[r] \in {"body", "write"} => r \notin saved
    BY DEF ServerIInv, ToldRight
  <1>6. ToldRight'
    <2>1. /\ stage'[r] \in {"leave", "unwind"}
          /\ stage'[r] = "unwind" <=> kind[r].via = "rest"
          /\ reply'[r] \in {"failed", "missing"}
          /\ Writes(r) => reply'[r] = "failed"
          /\ \A q \in Request : q # r => stage'[q] = stage[q] /\ reply'[q] = reply[q]
          /\ UNCHANGED <<kind, lent, saved>>
      BY <1>1, RaiseFacts
    <2>2. /\ \A q \in Request : q # r => (q \in saved' <=> q \in saved) /\ (q \in late => q \in late')
          /\ reply'[r] = "failed" /\ r \in saved' => r \in late'
      BY <1>3, <1>5, <2>1
    <2>3. reply'[r] # "failed" => r \notin saved'
      BY <1>3, <1>5, <2>1 DEF ServerIInv, ToldRight
    <2> QED BY <2>1, <2>2, <2>3, ToldStep
  <1>7. /\ \A c \in Conn : c # lent[r] => inside'[c] = inside[c] /\ (c \in open' <=> c \in open)
        /\ lent[r] \in open' <=> inside'[lent[r]] # {}
        /\ inside'[lent[r]] \subseteq {r}
        /\ inside'[lent[r]] # {} => inside[lent[r]] # {}
    BY <1>1, <1>2, InsideFacts DEF ServerIInv, ServerTypeOK
  <1>8. inside'[lent[r]] # {} => Writes(r) /\ r \notin saved' /\ reply'[r] = "failed"
    BY <1>1, <1>7, InsideFacts, RaiseFacts
  <1>9. stage'[r] \in HasConn /\ stage'[r] \notin {"body", "fire"}
    BY <1>1, RaiseFacts DEF HasConn
  <1>10. /\ \A q \in Request : q # r => stage'[q] = stage[q] /\ reply'[q] = reply[q]
         /\ UNCHANGED <<kind, lent, saved>>
    BY <1>1, RaiseFacts
  <1>11. \A q \in Request : q # r => (q \in saved' <=> q \in saved) /\ (q \in late => q \in late')
    BY <1>3, <1>10
  <1> HIDE DEF HasConn
  <1> QED BY <1>1, <1>4, <1>6, <1>7, <1>8, <1>9, <1>10, <1>11, InsideIInv

\* The other steps of a DAO call.
LEMMA CallingIInv ==
    ASSUME ServerIInv, NEW r \in Request,
           \/ Unparsed(r) \/ ReadRow(r) \/ Write(r) \/ Commit(r) \/ Fire(r)
    PROVE  ServerIInv'
  <1>1. stage[r] \in {"body", "write", "fire"} /\ stage[r] \in HasConn /\ UNCHANGED <<kind, lent, late>>
    BY DEF Unparsed, ReadRow, Write, Commit, Fire, HasConn, Quiet, Pool!Begin, Pool!End
  <1>2. lent[r] \in Conn /\ inside[lent[r]] \subseteq {r}
    BY <1>1, InsideFacts
  <1>3. PICK p \in {"leave", "write", "fire"}, a \in Replies :
           stage' = [stage EXCEPT ![r] = p] /\ reply' = [reply EXCEPT ![r] = a]
    <2>1. CASE Unparsed(r) \/ Fire(r)
      BY <2>1 DEF Unparsed, Fire, Replying, Goes, Replies
    <2>2. CASE ReadRow(r)
      BY <2>2 DEF ReadRow, Replying, Goes, Replies
    <2>3. CASE Write(r) \/ Commit(r)
      <3>1. reply' = [reply EXCEPT ![r] = reply[r]] /\ reply[r] \in Replies
        BY <2>3 DEF Write, Commit, ServerIInv, ServerTypeOK
      <3>2. stage' = [stage EXCEPT ![r] = "write"] \/ stage' = [stage EXCEPT ![r] = "fire"]
        BY <2>3 DEF Write, Commit, Goes
      <3> QED BY <3>1, <3>2
    <2> QED BY <2>1, <2>2, <2>3
  <1>4. /\ stage'[r] = p /\ reply'[r] = a /\ p \in HasConn
        /\ \A q \in Request : q # r => stage'[q] = stage[q] /\ reply'[q] = reply[q]
        /\ stage' \in [Request -> Stages] /\ reply' \in [Request -> Replies]
    BY <1>3 DEF ServerIInv, ServerTypeOK, HasConn, Stages
  <1>5. CASE Unparsed(r) \/ ReadRow(r) \/ Fire(r)
    <2>1. UNCHANGED <<open, inside, saved>>
      BY <1>5 DEF Unparsed, ReadRow, Fire, Quiet
    <2>2. /\ stage'[r] = "leave" /\ stage[r] \in {"body", "fire"}
          /\ stage[r] = "body" => r \notin saved /\ (reply'[r] = "ok" => ~Writes(r))
          /\ stage[r] = "fire" => r \in saved /\ reply'[r] = "ok"
          /\ reply'[r] # "failed"
      <3>1. CASE Unparsed(r)
        BY <3>1 DEF Unparsed, Replying, Goes, ServerIInv, ServerTypeOK, ToldRight
      <3>2. CASE ReadRow(r)
        BY <3>2 DEF ReadRow, Replying, Goes, Writes, ServerIInv, ServerTypeOK, ToldRight
      <3>3. CASE Fire(r)
        BY <3>3 DEF Fire, Replying, Goes, ServerIInv, ServerTypeOK, ToldRight
      <3> QED BY <1>5, <3>1, <3>2, <3>3
    <2>3. ToldRight'
      BY <1>1, <1>4, <2>1, <2>2, ToldStep
    <2>4. inside[lent[r]] = {} /\ (lent[r] \in open <=> inside[lent[r]] # {})
      BY <1>1, <2>2, InsideFacts
    <2>5. ServerTypeOK'
      BY <1>1, <1>4, <2>1 DEF ServerIInv, ServerTypeOK
    <2> QED BY <1>1, <1>4, <2>1, <2>2, <2>3, <2>4, <2>5, InsideIInv
  <1>6. CASE Write(r)
    <2>1. /\ stage[r] = "body" /\ Writes(r) /\ p = "write" /\ saved' = saved
          /\ open' = open \cup {lent[r]}
          /\ inside' = [inside EXCEPT ![lent[r]] = inside[lent[r]] \cup {r}]
      BY <1>4, <1>6 DEF Write, Pool!Begin, Goes, ServerIInv, ServerTypeOK
    <2>2. inside[lent[r]] = {} /\ r \notin saved
      BY <1>1, <2>1, InsideFacts DEF ServerIInv, ToldRight
    <2>3. /\ inside'[lent[r]] = {r}
          /\ \A c \in Conn : c # lent[r] => inside'[c] = inside[c] /\ (c \in open' <=> c \in open)
      BY <1>2, <2>1, <2>2 DEF ServerIInv, ServerTypeOK
    <2>4. ToldRight'
      BY <1>1, <1>4, <2>1, <2>2, ToldStep
    <2>5. ServerTypeOK'
      BY <1>1, <1>2, <1>4, <2>1 DEF ServerIInv, ServerTypeOK
    <2> QED BY <1>1, <1>4, <2>1, <2>2, <2>3, <2>4, <2>5, InsideIInv
  <1>7. CASE Commit(r)
    <2>1. /\ stage[r] = "write" /\ p = "fire" /\ lent[r] \in open
          /\ open' = open \ {lent[r]}
          /\ inside' = [inside EXCEPT ![lent[r]] = {}]
          /\ saved' = saved \cup inside[lent[r]]
      BY <1>4, <1>7 DEF Commit, Pool!End, Goes, Emptied, Mine, ServerIInv, ServerTypeOK
    <2>2. inside[lent[r]] = {r} /\ Writes(r)
      BY <1>1, <2>1, InsideFacts
    <2>3. saved' = saved \cup {r}
      BY <2>1, <2>2
    <2>4. /\ inside'[lent[r]] = {}
          /\ \A c \in Conn : c # lent[r] => inside'[c] = inside[c] /\ (c \in open' <=> c \in open)
          /\ lent[r] \notin open'
      BY <1>2, <2>1 DEF ServerIInv, ServerTypeOK
    <2>5. ToldRight'
      BY <1>1, <1>4, <2>1, <2>2, <2>3, ToldStep
    <2>6. ServerTypeOK'
      BY <1>1, <1>2, <1>4, <2>1, <2>3 DEF ServerIInv, ServerTypeOK
    <2> QED BY <1>1, <1>4, <2>1, <2>2, <2>3, <2>4, <2>5, <2>6, InsideIInv
  <1> QED BY <1>5, <1>6, <1>7

\* The rendering of a row read that raises.
LEMMA RenderIInv == ASSUME ServerIInv, NEW r \in Request, RenderRaises(r) PROVE ServerIInv'
  <1>1. /\ stage[r] = "body" /\ stage[r] \in HasConn /\ ~Writes(r)
        /\ stage' = [stage EXCEPT ![r] = "unwind"] /\ reply' = [reply EXCEPT ![r] = "failed"]
        /\ UNCHANGED <<kind, lent, open, inside, saved, late>>
    BY DEF RenderRaises, Replying, Goes, Quiet, HasConn, Writes
  <1>2. /\ stage'[r] = "unwind" /\ reply'[r] = "failed" /\ stage'[r] \in HasConn
        /\ \A q \in Request : q # r => stage'[q] = stage[q] /\ reply'[q] = reply[q]
    BY <1>1 DEF ServerIInv, ServerTypeOK, HasConn
  <1>3. ServerTypeOK'
    BY <1>1 DEF ServerIInv, ServerTypeOK, Stages, Replies
  <1>4. r \notin saved /\ inside[lent[r]] = {} /\ (lent[r] \in open <=> inside[lent[r]] # {})
    BY <1>1, InsideFacts DEF ServerIInv, ToldRight
  <1>5. ToldRight'
    BY <1>1, <1>2, <1>4, ToldStep
  <1> QED BY <1>1, <1>2, <1>3, <1>4, <1>5, InsideIInv

\* The connection goes back: after an exception clean, else as it is.
LEMMA LeavingIInv == ASSUME ServerIInv, NEW r \in Request, Leaving(r) PROVE ServerIInv'
  <1>1. /\ stage[r] \in {"leave", "unwind"} /\ stage[r] \in HasConn
        /\ lent' = [lent EXCEPT ![r] = NoConn] /\ stage' = [stage EXCEPT ![r] = "done"]
        /\ UNCHANGED <<kind, reply, saved, late>>
    BY DEF Leaving, Leave, Unwind, Pool!TakeBack, Goes, HasConn
  <1>2. \/ stage[r] = "leave" /\ UNCHANGED <<open, inside>>
        \/ /\ stage[r] = "unwind"
           /\ open' = open \ {lent[r]} /\ inside' = [inside EXCEPT ![lent[r]] = {}]
    BY DEF Leaving, Leave, Unwind, Emptied
  <1>3. /\ stage'[r] = "done" /\ lent'[r] = NoConn
        /\ \A q \in Request : q # r => stage'[q] = stage[q] /\ lent'[q] = lent[q]
    BY <1>1 DEF ServerIInv, ServerTypeOK
  <1>4. lent[r] \in Conn /\ lent[r] # NoConn /\ inside[lent[r]] \subseteq {r}
    BY <1>1, InsideFacts
  <1>5. ServerTypeOK'
    BY <1>1, <1>2, <1>4 DEF ServerIInv, ServerTypeOK, Stages
  <1>6. LentRight'
    BY <1>1, <1>3 DEF ServerIInv, LentRight, HasConn
  <1>7. \A q \in Request : Writes(q)' = Writes(q)
    BY <1>1 DEF Writes
  <1>8. ToldRight'
    BY <1>1, <1>3, <1>7 DEF ServerIInv, ToldRight, Truthful
  <1>9. \A c \in Conn : /\ c # lent[r] => inside'[c] = inside[c] /\ (c \in open' <=> c \in open)
                        /\ inside'[c] \subseteq inside[c]
                        /\ inside'[c] = {} \/ inside'[c] = inside[c]
    BY <1>2, <1>4 DEF ServerIInv, ServerTypeOK
  <1>10. \A c \in Conn : c \in open' <=> inside'[c] # {}
    BY <1>2, <1>4, <1>9 DEF ServerIInv, ServerTypeOK, WorkRight
  <1>11. r \in inside'[lent[r]] => stage[r] = "leave"
    BY <1>2, <1>4 DEF ServerIInv, ServerTypeOK
  <1>12. r \in inside'[lent[r]] => kind[r].via # "rest" /\ reply[r] = "failed"
    BY <1>1, <1>4, <1>9, <1>11 DEF ServerIInv, WorkRight, ToldRight
  <1>13. \A q \in Request : lent'[q] # NoConn => inside'[lent'[q]] \subseteq {q}
    BY <1>3, <1>9, <1>5 DEF ServerIInv, ServerTypeOK, WorkRight
  <1>14. \A q \in Request : stage'[q] \in {"body", "fire"} => inside'[lent'[q]] = {}
    BY <1>1, <1>3, <1>9 DEF ServerIInv, ServerTypeOK, WorkRight, LentRight, HasConn
  <1>15. ASSUME NEW c \in Conn, NEW q \in inside'[c]
         PROVE  /\ inside'[c] = {q}
                /\ Writes(q) /\ q \notin saved'
                /\ stage'[q] \in HasConn \cup {"done"}
                /\ stage'[q] \in HasConn => lent'[q] = c
                /\ stage'[q] # "write" => reply'[q] = "failed"
                /\ stage'[q] = "done" => kind[q].via # "rest"
    <2>1. q \in inside[c] /\ q \in Request /\ inside'[c] = inside[c]
      BY <1>9, <1>15 DEF ServerIInv, ServerTypeOK
    <2>2. CASE q = r
      <3>1. c = lent[r]
        BY <1>1, <2>1, <2>2 DEF ServerIInv, WorkRight
      <3> QED BY <1>1, <1>3, <1>12, <1>15, <2>1, <2>2, <3>1 DEF ServerIInv, WorkRight, HasConn
    <2>3. CASE q # r
      BY <1>1, <1>3, <2>1, <2>3 DEF ServerIInv, WorkRight
    <2> QED BY <2>2, <2>3
  <1>16. WorkRight'
    BY <1>1, <1>10, <1>13, <1>14, <1>15 DEF WorkRight, Writes
  <1> QED BY <1>5, <1>6, <1>8, <1>16 DEF ServerIInv

\* A connection that dies takes its transaction with it.
LEMMA DropIInv == ASSUME ServerIInv, NEW d \in Conn, Drop(d) PROVE ServerIInv'
  <1>1. /\ open' = open \ {d} /\ inside' = [inside EXCEPT ![d] = {}]
        /\ UNCHANGED <<kind, stage, reply, saved, late, lent>>
    BY DEF Drop, Pool!Drop, Emptied
  <1>2. ServerTypeOK'
    BY <1>1 DEF ServerIInv, ServerTypeOK
  <1>3. LentRight'
    BY <1>1 DEF ServerIInv, LentRight
  <1>4. \A q \in Request : Writes(q)' = Writes(q) /\ Truthful(q)' = Truthful(q)
    BY <1>1 DEF Writes, Truthful
  <1>5. ToldRight'
    BY <1>1, <1>4 DEF ServerIInv, ToldRight
  <1>6. inside'[d] = {} /\ \A c \in Conn : c # d => inside'[c] = inside[c]
    BY <1>1 DEF ServerIInv, ServerTypeOK
  <1>7. WorkRight'
    BY <1>1, <1>2, <1>4, <1>6, NoConnAssumption DEF ServerIInv, ServerTypeOK, WorkRight
  <1> QED BY <1>2, <1>3, <1>5, <1>7 DEF ServerIInv

\* Every step of the server preserves the invariant.
LEMMA ServerNextIInv == ASSUME ServerIInv, [ServerNext]_serverVars PROVE ServerIInv'
  <1>1. ASSUME NEW r \in Request, Comes(r) \/ Deciding(r) \/ Borrowing(r) PROVE ServerIInv'
    BY <1>1, OutsideIInv, BorrowIInv DEF Borrowing
  <1>2. ASSUME NEW r \in Request,
               Calling(r) \/ StatementRaises(r) \/ Committing(r) \/ Firing(r)
        PROVE  ServerIInv'
    BY <1>2, CallingIInv, RenderIInv, RaisingIInv DEF Calling, Committing, Firing
  <1>3. ASSUME NEW r \in Request, Leaving(r) PROVE ServerIInv'
    BY <1>3, LeavingIInv
  <1>4. CASE UNCHANGED serverVars
    BY <1>4 DEF serverVars, ServerIInv, ServerTypeOK, LentRight, WorkRight, ToldRight,
                Truthful, Writes
  <1> QED BY <1>1, <1>2, <1>3, <1>4, DropIInv DEF ServerNext

LEMMA ServerInvariance == ServerSpec => []ServerIInv
  BY ServerInitIInv, ServerNextIInv, PTL DEF ServerSpec

-----------------------------------------------------------------------------

\* The model's variables keep their types: handlers, replies, connections.
THEOREM ServerTypeCorrect == ServerSpec => []ServerTypeOK
  BY ServerInvariance, PTL DEF ServerIInv

\* For any number of requests and connections: what a client of the REST, SOAP
\* or gRPC handlers has been told of its write is what has become of it.
THEOREM AnswerTruthfulHolds == ServerSpec => []AnswerTruthful
  <1>1. ServerIInv => AnswerTruthful
    BY DEF ServerIInv, ToldRight, AnswerTruthful
  <1> QED BY <1>1, ServerInvariance, PTL

\* No transaction mixes the writes of two requests, whichever handler left it
\* on its connection.
THEOREM OwnTransactionHolds == ServerSpec => []OwnTransaction
  <1>1. ASSUME ServerIInv, NEW c \in Conn, NEW r \in inside[c], stage[r] = "done"
        PROVE  c \notin Pool!Out
    <2>1. SUFFICES ASSUME NEW q \in Request, lent[q] = c PROVE FALSE
      BY DEF Pool!Out
    <2>2. lent[q] # NoConn /\ q = r
      BY <1>1, <2>1, NoConnAssumption DEF ServerIInv, WorkRight
    <2> QED BY <1>1, <2>2 DEF ServerIInv, LentRight, HasConn
  <1>2. ServerIInv => OwnTransaction
    BY <1>1 DEF ServerIInv, WorkRight, OwnTransaction
  <1> QED BY <1>2, ServerInvariance, PTL

-----------------------------------------------------------------------------
(* The seam between the handlers and the pool. *)

\* A request with a connection leaves it alone, works on it, ends what is open
\* there, or hands it back.
LEMMA InsidePool ==
    ASSUME ServerIInv, NEW r \in Request, stage[r] \in HasConn,
           \/ lent' = lent /\ open' = open
           \/ lent' = lent /\ open' = open \cup {lent[r]}
           \/ lent' = lent /\ open' = open \ {lent[r]}
           \/ Pool!TakeBack(r)
    PROVE  Pool!Next \/ UNCHANGED <<lent, open>>
  <1>1. lent[r] # NoConn
    BY InsideFacts
  <1>2. CASE lent' = lent /\ open' = open \cup {lent[r]}
    <2>1. Pool!Begin(r)
      BY <1>1, <1>2 DEF Pool!Begin
    <2> QED BY <2>1 DEF Pool!Next
  <1>3. CASE lent' = lent /\ open' = open \ {lent[r]}
    <2>1. Pool!End(r)
      BY <1>1, <1>3 DEF Pool!End
    <2> QED BY <2>1 DEF Pool!Next
  <1>4. CASE Pool!TakeBack(r)
    BY <1>4 DEF Pool!Next
  <1> QED BY <1>2, <1>3, <1>4

\* Every step of the server is a step of the pool's contract, or none.
LEMMA ServerPoolStep ==
    ASSUME ServerIInv, [ServerNext]_serverVars PROVE [Pool!Next]_<<lent, open>>
  <1>1. ASSUME NEW r \in Request, Comes(r) \/ Deciding(r) \/ BorrowFails(r)
        PROVE  UNCHANGED <<lent, open>>
    BY <1>1 DEF Comes, Deciding, BadEnvelope, Refuse, Admit, BorrowFails, Quiet
  <1>2. ASSUME NEW r \in Request, Borrow(r) PROVE Pool!Next
    <2>1. PICK c \in Conn : Pool!Lend(r, c)
      BY <1>2 DEF Borrow
    <2> QED BY <2>1 DEF Pool!Next
  <1>3. ASSUME NEW r \in Request,
               Calling(r) \/ StatementRaises(r) \/ Committing(r) \/ Firing(r) \/ Leaving(r)
        PROVE  Pool!Next \/ UNCHANGED <<lent, open>>
    <2>1. stage[r] \in HasConn
      BY <1>3 DEF Calling, Unparsed, ReadRow, RenderRaises, Write, Busy, StatementRaises, Committing, Commit,
                  CommitFails, Firing, Fire, FireRaises, Leaving, Leave, Unwind, HasConn
    <2>2. \/ lent' = lent /\ open' = open
          \/ lent' = lent /\ open' = open \cup {lent[r]}
          \/ lent' = lent /\ open' = open \ {lent[r]}
          \/ Pool!TakeBack(r)
      BY <1>3 DEF Calling, Unparsed, ReadRow, RenderRaises, Write, Busy, StatementRaises, Committing, Commit,
                  CommitFails, Firing, Fire, FireRaises, Leaving, Leave, Unwind, Raise, Quiet,
                  Pool!Begin, Pool!End
    <2> QED BY <2>1, <2>2, InsidePool
  <1>4. ASSUME NEW c \in Conn, Drop(c) PROVE Pool!Next
    <2>1. Pool!Drop({c}) /\ {c} \in SUBSET Conn
      BY <1>4 DEF Drop
    <2> QED BY <2>1 DEF Pool!Next
  <1>5. CASE UNCHANGED serverVars
    BY <1>5 DEF serverVars
  <1> QED BY <1>1, <1>2, <1>3, <1>4, <1>5 DEF ServerNext, Borrowing

\* The handlers, any number of them, keep the borrower's side of the contract that
\* the pools are proved to implement: on no path into or out of the `with` block
\* do they touch a connection that they have not borrowed.
THEOREM UsesPool == ServerSpec => Pool!Spec
  <1>1. ServerInit => Pool!Init
    BY DEF ServerInit
  <1> QED BY <1>1, ServerPoolStep, ServerInvariance, PTL DEF ServerSpec, Pool!Spec
=============================================================================
