----------------------------- MODULE AccessGate -----------------------------
(***************************************************************************)
(* The RBAC gate of the generated servers and the session tokens on top of *)
(* it (Compliance/runtime/harpia_session.h and harpia_rbac.h, and their    *)
(* Python twins; the gates of PyHttp/runtime/rbac_gates.py).  Request      *)
(* threads present a token or a client certificate while the operator      *)
(* edits the key, role and revocation files, the clock runs and the server *)
(* restarts: key and role map are resolved once per process, on first use, *)
(* the revocation list is reloaded when its content has changed.           *)
(*                                                                         *)
(* The cryptography is abstract: a token names the key that signed it.     *)
(***************************************************************************)
EXTENDS Naturals

CONSTANTS Threads, CNs, Keys,
          Maps,         \* the role maps the operator may deploy, [CNs -> Roles]
          Ops,          \* the operations that are asked for
          TTL,          \* HARPIA_SESSION_TTL
          MaxTime, MaxTokens, MaxEdits, MaxRevisions, MaxRestarts,  \* bounds
          None, Unset

Roles == {"none", "guest", "main", "admin"}
Verdicts == {"no_key", "malformed", "bad_signature", "expired", "revoked",
             "unauthenticated", "forbidden"}

ASSUME ConstantsAssumption ==
    /\ TTL \in Nat \ {0}
    /\ MaxTime \in Nat /\ MaxTokens \in Nat
    /\ MaxEdits \in Nat /\ MaxRevisions \in Nat /\ MaxRestarts \in Nat
    /\ None \notin Keys \cup CNs \cup Maps \cup {Unset} /\ None \notin Verdicts
    /\ Unset \notin Keys \cup Maps
    /\ Maps \subseteq [CNs -> Roles]

VARIABLES keyFile, mapFile, revFile,  \* the operator's files (None: empty, unreadable)
          key, roles,                 \* what the process has resolved, or Unset
          revoked, stamp,             \* RevocationList: the set, and of which content
          issued,                     \* the tokens there are
          clock, edits, revisions, restarts,
          pc, req,                    \* where each thread is, and with what request
          records                     \* audit records of the thread's request

files == <<keyFile, mapFile, revFile>>
process == <<key, roles, revoked, stamp>>
counts == <<edits, revisions, restarts>>
world == <<issued, clock, counts>>
threads == <<pc, req, records>>
vars == <<files, process, world, threads>>

Jtis == 1..MaxTokens
Contents == SUBSET Jtis

Token(cn, role, k, exp, jti) ==
    [cn |-> cn, role |-> role, key |-> k, exp |-> exp, jti |-> jti]
Tokens == [cn : CNs, role : Roles, key : Keys, exp : 0..(MaxTime + TTL), jti : Jtis]

\* Tokens this system did not make: a bad signature, a broken structure.
Forged == {Token(cn, "admin", None, MaxTime + 1, 0) : cn \in CNs}
Malformed == Token(None, "none", None, 0, 0)

\* permitted(): the role x operation matrix.
Permitted(role, op) ==
    \/ op = "heartbeat"
    \/ role = "admin"
    \/ role = "main" /\ op # "remove"
    \/ role = "guest" /\ op \in {"read", "list", "stream"}

\* RoleMap::role_for().
RoleFor(m, cn) == IF cn = None \/ m = None THEN "none" ELSE m[cn]

\* signing_key() and role_map(): resolved on first use.
KeyNow == IF key = Unset THEN keyFile ELSE key
RolesNow == IF roles = Unset THEN mapFile ELSE roles

-----------------------------------------------------------------------------

\* A request: the certificate's CN, the token, the operation; its time of
\* arrival, whether its jti was listed all the time since then, or at some
\* time; the CN it is gated on; the verdict.
NoRequest == [peer |-> None, token |-> None, op |-> None, at |-> 0,
              always |-> FALSE, ever |-> FALSE, cn |-> None, verdict |-> None]

TypeOK ==
    /\ keyFile \in Keys \cup {None} /\ key \in Keys \cup {None, Unset}
    /\ mapFile \in Maps \cup {None} /\ roles \in Maps \cup {None, Unset}
    /\ revFile \in Contents \cup {None} /\ stamp \in Contents \cup {None}
    /\ revoked \in Contents
    /\ issued \in SUBSET Tokens
    /\ clock \in 0..MaxTime /\ edits \in 0..MaxEdits /\ revisions \in 0..MaxRevisions
    /\ restarts \in 0..MaxRestarts
    /\ pc \in [Threads -> {"idle", "token", "expiry", "revoked", "decide", "served",
                           "refused"}]
    /\ records \in [Threads -> 0..1]

Init ==
    /\ keyFile \in Keys /\ mapFile \in Maps /\ revFile = None
    /\ key = Unset /\ roles = Unset /\ revoked = {} /\ stamp = None
    /\ issued = {} /\ clock = 0 /\ edits = 0 /\ revisions = 0 /\ restarts = 0
    /\ pc = [t \in Threads |-> "idle"]
    /\ req = [t \in Threads |-> NoRequest]
    /\ records = [t \in Threads |-> 0]

-----------------------------------------------------------------------------
(* The environment. *)

Tick ==
    /\ clock < MaxTime
    /\ clock' = clock + 1
    /\ UNCHANGED <<files, process, issued, counts, threads>>

EditKey ==
    /\ edits < MaxEdits /\ edits' = edits + 1
    /\ keyFile' \in (Keys \cup {None}) \ {keyFile}
    /\ UNCHANGED <<mapFile, revFile, process, issued, clock, revisions, restarts, threads>>

EditMap ==
    /\ edits < MaxEdits /\ edits' = edits + 1
    /\ mapFile' \in (Maps \cup {None}) \ {mapFile}
    /\ UNCHANGED <<keyFile, revFile, process, issued, clock, revisions, restarts, threads>>

Lists(content, jti) == content # None /\ jti \in content

\* The operator rewrites or removes the revocation file.
EditRevocations ==
    /\ revisions < MaxRevisions /\ revisions' = revisions + 1
    /\ \E content \in (Contents \cup {None}) \ {revFile} :
          /\ revFile' = content
          /\ req' = [t \in Threads |->
                IF req[t].token = None THEN req[t]
                ELSE [req[t] EXCEPT
                        !.always = @ /\ Lists(content, req[t].token.jti),
                        !.ever = @ \/ Lists(content, req[t].token.jti)]]
    /\ UNCHANGED <<keyFile, mapFile, process, issued, clock, edits, restarts, pc, records>>

\* A crash or a deployment: what the process resolved and its requests are gone.
Restart ==
    /\ restarts < MaxRestarts /\ restarts' = restarts + 1
    /\ key' = Unset /\ roles' = Unset /\ revoked' = {} /\ stamp' = None
    /\ pc' = [t \in Threads |-> "idle"]
    /\ req' = [t \in Threads |-> NoRequest]
    /\ records' = [t \in Threads |-> 0]
    /\ UNCHANGED <<files, issued, clock, edits, revisions>>

-----------------------------------------------------------------------------
(* Issuing. *)

\* issue(), for an identity the transport has verified: a fresh jti.  Without a
\* key there is no token.
Issue(cn) ==
    LET fresh == Jtis \ {tok.jti : tok \in issued}
    IN  /\ key' = KeyNow /\ roles' = RolesNow
        /\ \/ KeyNow = None /\ UNCHANGED issued
           \/ /\ KeyNow # None
              /\ \E j \in fresh :
                    /\ \A i \in fresh : j <= i
                    /\ issued' = issued \cup
                          {Token(cn, RoleFor(RolesNow, cn), KeyNow, clock + TTL, j)}
        /\ UNCHANGED <<files, revoked, stamp, clock, counts, threads>>

\* POST .../session: an unmapped CN is refused (403).
MintHttp(cn) == RoleFor(RolesNow, cn) # "none" /\ Issue(cn)
MintForbidden(cn) ==
    /\ RoleFor(RolesNow, cn) = "none"
    /\ roles' = RolesNow
    /\ UNCHANGED <<files, key, revoked, stamp, world, threads>>

\* heartBeat with the issue-session metadata: any verified CN, mapped or not.
MintGrpc(cn) == Issue(cn)

-----------------------------------------------------------------------------
(* A gated request.  from_authorization(), verify(), decide(). *)

\* The gate is called; without a token the certificate's CN counts.
Arrive(t) ==
    /\ pc[t] = "idle"
    /\ \E peer \in CNs \cup {None}, op \in Ops,
          tok \in issued \cup Forged \cup {Malformed, None} :
          /\ req' = [req EXCEPT ![t] =
                [peer |-> peer, token |-> tok, op |-> op, at |-> clock,
                 always |-> tok # None /\ Lists(revFile, tok.jti),
                 ever |-> tok # None /\ Lists(revFile, tok.jti),
                 cn |-> peer, verdict |-> None]]
          /\ pc' = [pc EXCEPT ![t] = IF tok = None THEN "decide" ELSE "token"]
    /\ UNCHANGED <<files, process, world, records>>

\* deny(): one audit record, and the gate answers with a refusal.  A token's
\* refusal is recorded in the default sink, the role's in the gate's own; the
\* generated gates name no other, so both are counted together.
Deny(t, verdict) ==
    /\ pc' = [pc EXCEPT ![t] = "refused"]
    /\ req' = [req EXCEPT ![t].verdict = verdict]
    /\ records' = [records EXCEPT ![t] = @ + 1]

Proceed(t, place) ==
    /\ pc' = [pc EXCEPT ![t] = place]
    /\ UNCHANGED <<req, records>>

\* Mutation: whichever key signed it will do.
CheckTokenAnyKey(t) ==
    /\ pc[t] = "token"
    /\ key' = KeyNow
    /\ \/ KeyNow = None /\ Deny(t, "no_key")
       \/ KeyNow # None /\ req[t].token = Malformed /\ Deny(t, "malformed")
       \/ /\ KeyNow # None /\ req[t].token \in Forged
          /\ Deny(t, "bad_signature")
       \/ KeyNow # None /\ req[t].token.key \in Keys /\ Proceed(t, "expiry")
    /\ UNCHANGED <<files, roles, revoked, stamp, world>>

\* verify(): the key, the structure, the MAC.
CheckToken(t) ==
    /\ pc[t] = "token"
    /\ key' = KeyNow
    /\ \/ KeyNow = None /\ Deny(t, "no_key")
       \/ KeyNow # None /\ req[t].token = Malformed /\ Deny(t, "malformed")
       \/ /\ KeyNow # None /\ req[t].token \notin {Malformed}
          /\ req[t].token.key # KeyNow /\ Deny(t, "bad_signature")
       \/ KeyNow # None /\ req[t].token.key = KeyNow /\ Proceed(t, "expiry")
    /\ UNCHANGED <<files, roles, revoked, stamp, world>>

\* Mutation: the refusal of an expired token is not recorded.
CheckExpirySilently(t) ==
    /\ pc[t] = "expiry"
    /\ \/ clock >= req[t].token.exp /\ Proceed(t, "refused")
       \/ clock < req[t].token.exp /\ Proceed(t, "revoked")
    /\ UNCHANGED <<files, process, world>>

\* verify(): the clock.
CheckExpiry(t) ==
    /\ pc[t] = "expiry"
    /\ \/ clock >= req[t].token.exp /\ Deny(t, "expired")
       \/ clock < req[t].token.exp /\ Proceed(t, "revoked")
    /\ UNCHANGED <<files, process, world>>

\* Mutation: the stamp of the content that was dropped is kept.
ReloadKeepsStamp ==
    IF revFile = None THEN [set |-> {}, stamp |-> stamp]
    ELSE IF revFile = stamp THEN [set |-> revoked, stamp |-> stamp]
    ELSE [set |-> revFile, stamp |-> revFile]

\* reload_if_changed(): a file that cannot be read revokes nothing.
Reload ==
    IF revFile = None THEN [set |-> {}, stamp |-> None]
    ELSE IF revFile = stamp THEN [set |-> revoked, stamp |-> stamp]
    ELSE [set |-> revFile, stamp |-> revFile]

\* verify(): contains(), under the list's mutex.  The token's CN counts.
CheckRevoked(t) ==
    /\ pc[t] = "revoked"
    /\ revoked' = Reload.set /\ stamp' = Reload.stamp
    /\ \/ req[t].token.jti \in revoked' /\ Deny(t, "revoked")
       \/ /\ req[t].token.jti \notin revoked'
          /\ pc' = [pc EXCEPT ![t] = "decide"]
          /\ req' = [req EXCEPT ![t].cn = req[t].token.cn]
          /\ UNCHANGED records
    /\ UNCHANGED <<files, key, roles, world>>

\* Mutation: the role that the token carries counts.
DecideByToken(t) ==
    /\ pc[t] = "decide"
    /\ roles' = RolesNow
    /\ LET role == IF req[t].token = None THEN RoleFor(RolesNow, req[t].cn)
                   ELSE req[t].token.role
       IN  \/ req[t].cn = None /\ Deny(t, "unauthenticated")
           \/ req[t].cn # None /\ Permitted(role, req[t].op) /\ Proceed(t, "served")
           \/ req[t].cn # None /\ ~Permitted(role, req[t].op) /\ Deny(t, "forbidden")
    /\ UNCHANGED <<files, key, revoked, stamp, world>>

\* decide(): the role this process has for the CN.  (A heartbeat, which it lets
\* through unseen, comes to it from no gate.)
Decide(t) ==
    /\ pc[t] = "decide"
    /\ roles' = RolesNow
    /\ LET role == RoleFor(RolesNow, req[t].cn)
       IN  \/ req[t].cn = None /\ Deny(t, "unauthenticated")
           \/ req[t].cn # None /\ Permitted(role, req[t].op) /\ Proceed(t, "served")
           \/ req[t].cn # None /\ ~Permitted(role, req[t].op) /\ Deny(t, "forbidden")
    /\ UNCHANGED <<files, key, revoked, stamp, world>>

\* The answer is sent.
Answer(t) ==
    /\ pc[t] \in {"served", "refused"}
    /\ pc' = [pc EXCEPT ![t] = "idle"]
    /\ req' = [req EXCEPT ![t] = NoRequest]
    /\ records' = [records EXCEPT ![t] = 0]
    /\ UNCHANGED <<files, process, world>>

Serve(t) ==
    \/ CheckToken(t) \/ CheckExpiry(t) \/ CheckRevoked(t) \/ Decide(t) \/ Answer(t)

Next ==
    \/ Tick \/ EditKey \/ EditMap \/ EditRevocations \/ Restart
    \/ \E cn \in CNs : MintHttp(cn) \/ MintForbidden(cn) \/ MintGrpc(cn)
    \/ \E t \in Threads : Arrive(t) \/ Serve(t)

Spec == Init /\ [][Next]_vars

-----------------------------------------------------------------------------
(* What the gate promises. *)

WithToken(t) == req[t].token # None

\* "A token that is presented but does not verify is refused and never falls
\* through to the certificate": what is served was asked by the holder of the
\* certificate, or under a token of this system, made with the key in force and
\* not expired when the request came, as the CN the token was made for.
ServedIsAuthentic ==
    \A t \in Threads : pc[t] = "served" =>
        IF WithToken(t)
        THEN /\ req[t].token \in issued
             /\ req[t].token.key = key
             /\ req[t].at < req[t].token.exp
             /\ req[t].cn = req[t].token.cn
        ELSE req[t].cn = req[t].peer

\* Whatever was edited, loaded or restarted between: what is served is permitted
\* to the role that the role map of this process has for the CN, never to one
\* that a token remembers.
ServedIsPermitted ==
    \A t \in Threads : pc[t] = "served" =>
        /\ roles # Unset
        /\ Permitted(RoleFor(roles, req[t].cn), req[t].op)

\* Revocation lands without a restart and through the cache: a request whose
\* token is listed all the time it is looked at is not served, and one refused
\* as revoked was listed at some moment of it.
RevocationLands ==
    \A t \in Threads :
        /\ pc[t] = "served" => ~req[t].always
        /\ req[t].verdict = "revoked" => req[t].ever

\* Exactly one audit record per refusal, by whichever check, and none of a
\* request that is served.
RefusalsAudited ==
    \A t \in Threads :
        /\ pc[t] = "refused" => records[t] = 1
        /\ pc[t] = "served" => records[t] = 0
=============================================================================
