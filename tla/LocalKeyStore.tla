---------------------------- MODULE LocalKeyStore ----------------------------
(***************************************************************************)
(* LocalKeyProvider (Crypto/runtime/harpia_key_provider_local.h; the       *)
(* Python port writes the same files): key-encryption keys kept in memory  *)
(* and in a store file, and the append-only .shred sidecar that makes      *)
(* crypto-shredding survive a restart.                                     *)
(*                                                                         *)
(* Every operation holds mu_, so operations do not interleave; what does   *)
(* interfere with them is the end of the process between two system calls  *)
(* of write_private(), and a system call that fails (write_private()       *)
(* returns nothing, so its callers go on).                                 *)
(*                                                                         *)
(* A key is a model value; a wrapped DEK is the record of the KEK version, *)
(* the KEK and the DEK that made its bytes.  The store's text is one line  *)
(* per KEK in ascending version from 1, so it is the sequence of its keys; *)
(* what is left of a rewrite that stopped half-way is a prefix of it, the  *)
(* last line possibly cut in its hex digits (Garbage).  The sidecar is the *)
(* set of its complete lines and its unterminated tail, if it has one.     *)
(***************************************************************************)
EXTENDS Naturals, Sequences

CONSTANTS Keks,          \* random KEK materials
          Deks,          \* random DEK materials
          Garbage,       \* what a cut line reads as
          None

ASSUME NamesAssumption ==
    Garbage \notin Keks /\ None \notin Deks /\ Garbage \notin Deks

WrappedDek == [kek_version : Nat \ {0}, kek : Keks \cup {Garbage}, dek : Deks]
ASSUME TailAssumption == None \notin WrappedDek /\ Garbage \notin WrappedDek

VARIABLES up,        \* the provider object exists
          op,        \* where the operation that holds mu_ is
          target,    \* the argument of the shred_dek() under way
          keks,      \* keks_: version v is keks[v]
          active,    \* active_
          shredded,  \* shredded_
          store,     \* the store file: key of each line (<<>>: no file, or empty)
          lines,     \* the sidecar: its complete lines
          tail,      \* the sidecar: its last line, when it has no newline
          minted,    \* history: the KEKs drawn so far
          wraps,     \* history: what wrap_dek() returned
          asked,     \* history: the shred_dek() calls
          shreds,    \* history: the shred_dek() calls that returned
          cut        \* history: the files a failed or interrupted write damaged

mem  == <<keks, active, shredded>>
disk == <<store, lines, tail>>
vars == <<up, op, target, mem, disk, minted, wraps, asked, shreds, cut>>

TypeOK ==
    /\ up \in BOOLEAN
    /\ op \in {"none", "open", "write", "append"}
    /\ target \in WrappedDek \cup {None}
    /\ keks \in Seq(Keks \cup {Garbage})
    /\ active \in Nat
    /\ shredded \in SUBSET WrappedDek
    /\ store \in Seq(Keks \cup {Garbage})
    /\ lines \in SUBSET (WrappedDek \cup {Garbage})
    /\ tail \in WrappedDek \cup {Garbage, None}
    /\ minted \in SUBSET Keks
    /\ wraps \in SUBSET WrappedDek
    /\ asked \in SUBSET WrappedDek
    /\ shreds \in SUBSET WrappedDek
    /\ cut \in SUBSET {"store", "log"}

Init ==
    /\ up = FALSE /\ op = "none" /\ target = None
    /\ keks = <<>> /\ active = 0 /\ shredded = {}
    /\ store = <<>> /\ lines = {} /\ tail = None
    /\ minted = {} /\ wraps = {}
    /\ asked = {} /\ shreds = {} /\ cut = {}

\* mu_ can be taken.
Idle == up /\ op = "none"

-----------------------------------------------------------------------------
(* The constructor. *)

\* load_shreds(): every line that parses to a wrapped DEK, the unterminated
\* one included.
LoadShreds == (lines \cup {tail}) \ {Garbage, None}

\* load() finds KEKs: the newest one is the active one.
StartLoaded ==
    /\ ~up
    /\ store # <<>>
    /\ up' = TRUE
    /\ keks' = store
    /\ active' = Len(store)
    /\ shredded' = LoadShreds
    /\ UNCHANGED <<op, target, disk, minted, wraps, asked, shreds, cut>>

\* load() finds none: KEK version 1 is minted, and persist() is called before
\* load_shreds() (which reads the other file).
StartFresh ==
    /\ ~up
    /\ store = <<>>
    /\ up' = TRUE
    /\ op' = "open"
    /\ \E k \in Keks \ minted :
          /\ keks' = <<k>>
          /\ minted' = minted \cup {k}
    /\ active' = 1
    /\ shredded' = LoadShreds
    /\ UNCHANGED <<target, disk, wraps, asked, shreds, cut>>

-----------------------------------------------------------------------------
(* The operations. *)

\* generate_dek() and wrap_dek() under the active KEK.
WrapDek ==
    /\ Idle
    /\ \E d \in Deks :
          /\ \A w \in wraps : w.dek # d
          /\ wraps' = wraps \cup
                {[kek_version |-> active, kek |-> keks[active], dek |-> d]}
    /\ UNCHANGED <<up, op, target, mem, disk, minted, asked, shreds, cut>>

\* unwrap_dek(w): nothing, the DEK, or rubbish from the wrong KEK.
UnwrapDek(w) ==
    IF w \in shredded \/ w.kek_version \notin 1..Len(keks) THEN None
    ELSE IF keks[w.kek_version] = w.kek THEN w.dek ELSE Garbage

\* Mutation: rotate() replaces the active KEK under its version number.
RotateInPlace ==
    /\ Idle
    /\ \E k \in Keks \ minted :
          /\ keks' = [keks EXCEPT ![active] = k]
          /\ minted' = minted \cup {k}
    /\ op' = "open"
    /\ UNCHANGED <<up, target, active, shredded, disk, wraps, asked, shreds, cut>>

\* rotate() up to its call of persist().
Rotate ==
    /\ Idle
    /\ \E k \in Keks \ minted :
          /\ keks' = Append(keks, k)
          /\ minted' = minted \cup {k}
    /\ active' = active + 1
    /\ op' = "open"
    /\ UNCHANGED <<up, target, shredded, disk, wraps, asked, shreds, cut>>

\* persist(): open() with O_TRUNC empties the store.
PersistOpens ==
    /\ op = "open"
    /\ store' = <<>>
    /\ op' = "write"
    /\ UNCHANGED <<up, target, mem, lines, tail, minted, wraps, asked, shreds, cut>>

\* persist(): write() puts every line there; the operation returns.
PersistWrites ==
    /\ op = "write"
    /\ store' = keks
    /\ op' = "none"
    /\ UNCHANGED <<up, target, mem, lines, tail, minted, wraps, asked, shreds, cut>>

\* What a write that stopped half-way leaves: whole lines, and possibly one
\* that is cut in its digits.
PrefixOfStore ==
    \E n \in 0..Len(keks) :
        \/ store' = SubSeq(keks, 1, n)
        \/ n < Len(keks) /\ store' = Append(SubSeq(keks, 1, n), Garbage)

\* persist(): open() or fchmod() fails and leaves the old store, or write()
\* fails after some bytes; rotate() returns its version all the same.
PersistFails ==
    /\ \/ op = "open" /\ UNCHANGED store
       \/ op = "write" /\ PrefixOfStore
    /\ op' = "none"
    /\ cut' = cut \cup {"store"}
    /\ UNCHANGED <<up, target, mem, lines, tail, minted, wraps, asked, shreds>>

\* shred_dek(w) of a DEK shredded before only audits.
ShredAgain ==
    /\ Idle
    /\ \E w \in wraps \cap shredded : shreds' = shreds \cup {w}
    /\ UNCHANGED <<up, op, target, mem, disk, minted, wraps, asked, cut>>

\* Mutation: the discard lives in memory only.
ShredInMemory ==
    /\ Idle
    /\ \E w \in wraps \ shredded :
          /\ shredded' = shredded \cup {w}
          /\ asked' = asked \cup {w}
          /\ shreds' = shreds \cup {w}
    /\ UNCHANGED <<up, op, target, keks, active, disk, minted, wraps, cut>>

\* Mutation: the registry is keyed by the KEK version alone.
ShredByVersion ==
    /\ Idle
    /\ \E w \in wraps \ shredded :
          /\ shredded' = shredded \cup
                {x \in wraps : x.kek_version = w.kek_version}
          /\ target' = w
          /\ asked' = asked \cup {w}
    /\ op' = "append"
    /\ UNCHANGED <<up, keks, active, disk, minted, wraps, shreds, cut>>

\* shred_dek(w) up to its append to the sidecar.
Shred ==
    /\ Idle
    /\ \E w \in wraps \ shredded :
          /\ shredded' = shredded \cup {w}
          /\ target' = w
          /\ asked' = asked \cup {w}
    /\ op' = "append"
    /\ UNCHANGED <<up, keks, active, disk, minted, wraps, shreds, cut>>

\* The whole line goes to the sidecar: as a line of its own, or as the end of
\* an unterminated one, which then reads as what it began with or as nothing
\* useful.
LineAppended ==
    /\ tail' = None
    /\ IF tail = None
       THEN lines' = lines \cup {target}
       ELSE \E l \in {tail, Garbage} : lines' = lines \cup {l}

\* Nothing goes to the sidecar, or a piece without the newline.
PieceAppended ==
    /\ \/ UNCHANGED tail
       \/ tail' \in (IF tail = None THEN {target, Garbage} ELSE {Garbage})
    /\ UNCHANGED lines

\* The append succeeds; shred_dek() audits and returns.
ShredAppends ==
    /\ op = "append"
    /\ LineAppended
    /\ op' = "none"
    /\ target' = None
    /\ shreds' = shreds \cup {target}
    /\ UNCHANGED <<up, mem, store, minted, wraps, asked, cut>>

\* open() or write() fails; shred_dek() audits and returns all the same.
ShredAppendFails ==
    /\ op = "append"
    /\ PieceAppended
    /\ op' = "none"
    /\ target' = None
    /\ shreds' = shreds \cup {target}
    /\ cut' = cut \cup {"log"}
    /\ UNCHANGED <<up, mem, store, minted, wraps, asked>>

\* The process ends, by itself or not; between operations, or in the middle
\* of one.
Stop ==
    /\ up
    /\ \/ op \in {"none", "open"} /\ UNCHANGED <<disk, cut>>
       \/ /\ op = "write" /\ PrefixOfStore /\ UNCHANGED <<lines, tail>>
          /\ cut' = cut \cup {"store"}
       \/ op = "append" /\ LineAppended /\ UNCHANGED <<store, cut>>
       \/ /\ op = "append" /\ PieceAppended /\ UNCHANGED store
          /\ cut' = cut \cup {"log"}
    /\ up' = FALSE /\ op' = "none" /\ target' = None
    /\ keks' = <<>> /\ active' = 0 /\ shredded' = {}
    /\ UNCHANGED <<minted, wraps, asked, shreds>>

Next ==
    \/ StartLoaded \/ StartFresh \/ WrapDek \/ Rotate
    \/ PersistOpens \/ PersistWrites \/ PersistFails
    \/ ShredAgain \/ Shred \/ ShredAppends \/ ShredAppendFails
    \/ Stop

Spec == Init /\ [][Next]_vars

-----------------------------------------------------------------------------
(* What a key provider promises. *)

\* Keys survive rotations and restarts: whenever the provider can be asked,
\* every DEK ever wrapped unwraps to itself unless it was shredded.
KeysSurvive ==
    Idle => \A w \in wraps : w \notin shredded => UnwrapDek(w) = w.dek

\* The one thing that loses a key is a damaged store: as long as no rewrite of
\* it was interrupted or failed, keys survive, whatever happens to the sidecar.
KeysSurviveUncut == "store" \notin cut => KeysSurvive

\* There is no un-shred: as long as no append to the sidecar was interrupted or
\* failed, unwrap_dek(w) returns nothing once shred_dek(w) has returned, in this
\* process and in every later one, whatever happens to the store.
ShredSurvivesUncut ==
    "log" \notin cut => (Idle => \A w \in shreds : UnwrapDek(w) = None)

\* Shredding one record does not affect any other: what reads as shredded was
\* the argument of a shred_dek(), whatever crashed and whatever the sidecar's
\* cut lines say.
ShredIsExact == shredded \subseteq asked
=============================================================================
