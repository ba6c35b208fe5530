# Harpia: formal models, checks and proofs

Harpia is a generator (Python) that turns message definitions into C++, Python
and Java projects: serialization, database access, gRPC/REST/SOAP servers,
ZeroMQ and DDS transports, events, capability calls, and the compliance parts
of a medical-device setting (audit, sessions, encryption, crypto-shredding).
What runs in the field is not the generator but the *runtime* it copies into
each project and the templates it fills in. That is where threads, sockets,
files and failures meet, and that is what this project models.

Contents: [Inventory](#inventory) · [Modules](#modules) · [Runs](#runs) ·
[Fairness](#fairness) · [Refinement](#refinement) · [Theorems](#theorems) ·
[Disagreements found](#disagreements-found) ·
[What the code does not promise](#what-the-code-does-not-promise) ·
[Not modelled](#not-modelled) · [Plan](#plan)

## Inventory

State, operations and hard behaviour of each part, and what makes it correct.
A dash means that there is no module.

| Part (under `src/`) | State | Operations | What is hard | Correct means | Module |
|---|---|---|---|---|---|
| Python DB pool (`PyDatabase/runtime/pool.py`) | `_idle`, `_out`, `_made`, one `Condition` | `borrow` (`_take`, ping, factory, `_give_back`), `close` | barging, lost wakeups, timed-out waiters still on the wait list, failing factory and rollback, dead connections | exact counters, exclusive and clean connections, no lost wakeup, every borrow ends | `PyPool`, `ConnPool` |
| C++ DB pool (`Database/runtime/harpia_db_pool.h`) | leased slot, thread-local `holding()`, SOCI's slots | constructor (`lease_within`, `alive`, reconnect), destructor | SOCI's wall-clock time-outs, failed reconnect, exceptions with a transaction open, nested borrows that wait for each other | slot free or leased once, clean sessions, refused only at the deadline, the assertion hits nested borrows only | `PooledSession`, `ConnPool` |
| CRUDL data access (`PyDatabase/runtime/dao.py`, `dbio.py`; `Database/templates/crudl.h.tmpl`) | parent, child and FK-child tables; `_AFTER_COMMIT` | create, update, remove, read, list, bulk import | one transaction per call in Python, none in C++; statements and commits that fail half-way; publication after the commit | calls are atomic, rows are never torn, events are exactly what was committed | `Dao`, `AtomicStore` |
| Schema migration (`Database/templates/migrate*.tmpl`, `PyDatabase/runtime/migrate.py`) | tables, columns, version stamp | rename, add, transform, drop, rebuild, reap, evolve children, stamp | a process that is stopped between two statements and started again | a stamped database has the new shape and the old rows; a second call is a no-op; it completes; in Python, all of it or nothing | `Migration` |
| Sessions, revocation, RBAC (`Compliance/runtime/harpia_session.h`, `harpia_rbac.h`, Python twins, `PyHttp/runtime/rbac_gates.py`) | signing key and role map (resolved once), revocation set cached under a stamp | `issue`, `from_authorization`, `verify`, `decide`, the gates | expiry at its boundary, files edited under a running process, restarts, a bad token next to a good certificate | what is served is authentic, permitted and not revoked; every refusal is on record once | `AccessGate` |
| Event channels (`Callback/runtime/harpia_event_cache.h`, `PyEvents/runtime/events.py`) | subscribers, last value, mutex | `subscribe`, `unsubscribe`, `publish`, detached dispatch threads | subscribe racing publish, dispatch of a snapshot after an unsubscribe, throwing callbacks, audit outside the mutex | exactly-once, order within a publish, audit before dispatch | `EventChannel` |
| Critical sender (`ZmqAdapter/templates/sender_critical.tmpl`, `Compliance/runtime/harpia_delivery.h`) | bounded queue, sequence counter | `send`/`publish`, `flush` | outage in the middle of a flush, full queue, PUB sockets that accept without a subscriber | bounded, ordered, every message queued, sent or on record as rotated | `CriticalSender` |
| Stream consumer (`ZmqAdapter/templates/stream.tmpl`) | status, socket, two time stamps | `setup`, `read`, `stop`, reclamation, watchdog | limits that pass while `recv()` waits, `connect()` that throws, undecodable frames | connections are released, fresh reads, the watchdog fires | `Stream` |
| Local key provider (`Crypto/runtime/harpia_key_provider_local.h`) | KEKs, shred set, two files | constructor, `wrap_dek`, `unwrap_dek`, `rotate`, `shred_dek` | crash or I/O error inside a rewrite or an append | keys survive, shreds survive, nothing else is shredded | `LocalKeyStore` |
| Arrival check and mailbox (`Compliance/runtime/harpia_delivery.h`) | next expected number; one pending slot | `check_on_arrival`, `put`, `take` | used by no generated transport yet | a gap or regression is named, an overwrite is on record | – |
| Key provider (memory, KMS), encrypted column | KEKs | as the local provider | a remote KMS that fails | as the local provider | – |
| Capability negotiation and dispatch (`Capability/runtime`, one `negotiate` per transport) | handlers by message type | `negotiate`, `on`, `dispatch` | a peer that answers late, wrongly or never | one outcome per call: a set, or the legacy callback once; dispatch never drops | – |
| ZAP handler, WS-Discovery (`ZmqAdapter/runtime/harpia_zap.h`, `SdcAdapter/runtime/harpia_wsdiscovery.h`) | a thread, a socket | start, stop, answer | a thread blocked in a receive while its socket is closed; a request left without a reply | no answer after stop, stop returns, the handler outlives a bad request | – |
| Generated servers (`PyHttp/runtime/rest.py`, `soap_endpoint.py`, `PyGrpc/runtime/grpc_service.py`; `Database/templates/*.tmpl`) | a connection per request in flight | gate, borrow, DAO call, answer | exceptions that leave the `with` block or are caught inside it, transactions left on idle connections, a lock nobody releases | what the client is told is what became of its write; requests do not share a transaction; every one is answered | `CrudServer` (Python) |
| Generator (`main.py`, `LexicalAnalizer`, `Util`) | files | resolve imports, write, prune | import cycles, interrupted writes | terminates, never half a file | – |
| Serialization, DDS, Java, reports, vendored code | – | – | conversions, third-party code | – | – |

How they interact: a request handler of a generated server passes the RBAC
gate (session token or certificate), borrows a database session from a pool for
the length of its body, calls the DAO, and publishes an event after the commit.
Events go in-process through `EventChannel`, and across processes through the
ZeroMQ senders; `critical` types use the queueing sender, `stream` types the
supervised consumer. The DAO encrypts PHI columns with a DEK that the key
provider wraps. The migration runs before the first request. All of them write
audit records. The modelled parts share no variables: each is reached by calls
that run to completion, so each module takes its callers as an environment that
may call at any time. `Dao` takes the other side of two of these seams into its
own model: the pool, as the rollback (`RollBack`) that sooner or later ends a
transaction which a failed commit has left open, and the event channel, as a
publication that may raise.
`CrudServer` is the request that goes through all of them; it is built on
`ConnPool`, the contract both pools are proved to keep, and covers the SOAP and
gRPC handlers, which hand a connection back without that rollback.

## Modules

Every component has a specification `X.tla` (state, one action per operation
or per step between two points where something else can run, the
specification, the properties) and an `MCX.tla` that TLC runs. The theorems are
in `XProofs.tla`, those about the two ZeroMQ components, `CriticalSender` and
`Stream`, together in `ZmqProofs.tla`, and those about `AccessGate` and
`CrudServer` in `ServerProofs.tla` (which is why `Stream` and `CrudServer` call
their formulas `StreamInit`, `ServerNext` and so on). Next to some definitions stands a commented
"Mutation": the same definition with a plausible bug, used to show that a
property notices it. Mutations are part of no specification. Every type
invariant is proved.

**PyPool** – `ConnectionPool`. A process is a request thread; `pc` is its
place in `borrow()`: `take` / `asleep` / `woken` (inside `_take`), `ping`,
`make`, `body`, `unwind`, `return` (owning a slot). Code under `with
self._cond` is one action (`TakeSlot`, `Sleep`, `Exhausted`, `GiveBack`,
`Close`); pings, factory calls, bodies and rollbacks are steps of their own.
`waiters` is the condition's wait list, and CPython's behaviour is kept: a
waiter that timed out stays on it until it holds the lock again, so a
`notify()` can be spent on it (`WaitTimesOut`, `NotifyOne`). The database is
external: a connection may die whenever it exists.

**PooledSession** – one process per `PooledSession` object. `Construct` /
`AssertFails` are the entry with and without the rule-2 assertion, `Loop`,
`SliceFails`, `Lease`, `Exhausted` the loop of `lease_within()`, `Alive`,
`Reconnects`, `ReconnectFails` the rest of the constructor, `Destroy` and
`Unwind` the destructor after a normal and an exceptional exit, `Refused` the
end of an object that never got a slot. `OuterOf` nests one object in the body
of another on the same thread; Init chooses between a debug and a release
`build`. `soci::connection_pool` is external: it hands out any free slot, and a
slice may "time out" at any moment.

**ConnPool** – what a borrower may rely on, whichever pool it uses: `Lend` hands
a connection to one borrower, at most `Size` at a time, without anybody's
uncommitted work; `Begin`, `End`, `TakeBack` and `Drop` are the rest of its
life. No slots, wait lists, time-outs, pings or reconnects.

**CrudServer** – the three Python request handlers on one message. A request has
a protocol and an operation (`kind`) and goes through `gate`, `borrow`, `body`
(the DAO call), `write`, `fire`, then `leave` or `unwind`. `BadEnvelope`,
`Refuse`, `Admit` stand before the `with` block, `Borrow` and `BorrowFails` are
the pool's answer, `Unparsed`, `ReadRow`, `Write`, `Busy`, `StatementRaises`,
`Commit`, `CommitFails`, `Fire`, `FireRaises` the DAO call and its `_tx()`, and
`RenderRaises` SOAP's `to_xml()` of what it read, the one exception that leaves
SOAP's block. What the protocols differ in is `Raise`: an exception leaves REST's block, so that the
pool rolls back (`Unwind`), and is caught inside it by SOAP and gRPC, so that
the connection goes back as it is (`Leave`). The pool is an instance of
`ConnPool`, not of `PyPool`: that is the seam between the two proofs. `inside`
is the content of a connection's transaction as the set of requests that wrote
in it. The database is SQLite with its one write lock. DB-API does not say
whether a `commit()` that raises has ended the transaction, so `CommitFails`
does either. The gate's decision is arbitrary here; `AccessGate` is about it.

**Dao** – a call is the list of SQL statements its code executes: `CreatePlan`,
`UpdatePlan`, `RemovePlan`, `ImportPlan` follow `_create()`, `_update()`,
`remove()` and `dbio`'s `_create_all()` statement by statement, the FK child
through its own DAO first, then the row, the repeated items, and the deferred
publication (`Fire`). `Begin` opens `_tx()`; `Execute`, `Raises`, `Busy` are a
statement that succeeds, hits a duplicate key, or waits too long for the write
lock; `Defer` fills `_AFTER_COMMIT`; `Commit`, `CommitFails`, `Publish`,
`PublishRaises`, `Return` are the end of `_tx()`. `_tx()` does not roll back
after a commit that raises: if the transaction survived it, the call is `left`
with the write lock until the pool rolls back (`RollBack`), at the exit of a
handler that lets the exception through or at the next borrow's ping. `read()` is its three SELECTs
(`SelectRow`, `SelectRef`, `SelectItems`). The database is external, as the
SQLite pool opens it (WAL): one writer, whose rows stay in `work` until
`commit()`; a SELECT sees the last commit. Two histories mark what the code
leaves open: `raced` (a commit fell into a read) and `missed` (an update matched
no row).

**AtomicStore** – what the DAO promises of its tables: a set of rows that
changes by whole calls. It states each effect as a set and knows of no
statements, locks or connections.

**Migration** – one process that runs the migration at every start. A table is
a set of columns, and each column remembers which column of the old database
its rows come from, so that a rename, a CAST, a transform and a loss can be
told apart. One action per statement, in the code's order: `RenameChild`,
`CreateTable`, `RenameColumn`, `AddColumn`, `Transform` (the caller's hook,
guarded as `USAGE.md` asks), `DropColumn`, the rebuild `MakeTmp`, `CopyRows`,
`DropOld`, `SwapIn`, then `Reap`, `NextChild` and `Stamp`. A child table is
evolved by the plan of its `Kind`: one of messages ("composed") gets the columns
it lacks (`Addable`), and is rebuilt for a changed type or a stray one (`Swept`);
one of scalars or of map entries is rebuilt only when the type of its `value`, or
`key`, has changed (`Compared`); a link table of keys is left alone. The main
table's key is never added. `Cut` ends the
process or fails the statement anywhere; Init chooses the engine: in C++ every
statement is on disk at once (`Write`), Python's transaction is rolled back.
The C++ statements are those of the rendered templates, read in
`UnitTests/golden/migrate`, because the template's body is generated. A table
that is not there is `NoTable`, which is different from one without columns.
The schema change itself is a parameter, of which the module assumes what the
code takes for granted of a schema that makes sense: columns of one table have names of their own; a
`renamed_from` belongs to a declared field, its old name is no longer declared
("its number is not retired, only its old name is", `Message/FieldMap.py:96`),
and no two fields come from the same one; the key has been there from the first
version, under its name or an older one (`KeyAssumption`); and the caller's
transform derives a new column from one that retires, neither of which a rename
is about, and fills it where it is empty, which is the `WHERE` that `USAGE.md`
asks for. A field may keep its name and change its kind. Then the old table either
is left as it is, or has the columns that the new plan's rebuild selects
(`RebuildAssumption`). `SameKind(t)` says that child table `t` is none of these:
what its plan never adds, compares or drops was in the old table as declared.

**AccessGate** – request threads at `token`, `expiry`, `revoked`, `decide`:
one action per check of `verify()` (`CheckToken`, `CheckExpiry`,
`CheckRevoked`) and `Decide`, so that files, clock and other requests may
change between two checks; `Arrive` is `from_authorization()`, `Answer` the
gate's return. `MintHttp`, `MintForbidden`, `MintGrpc` are the two ways to a
token. `KeyNow` and `RolesNow` are resolved on first use and kept;
`Reload` is `reload_if_changed()`. The operator (`EditKey`, `EditMap`,
`EditRevocations`), the clock (`Tick`) and `Restart` are the environment. The
cryptography is abstract: a token names the key that signed it, forged ones
name none. `records` counts the default sink, to which the refusal of a token
goes (`rbac_gates.py:88` passes no other), and the gate's own together; in
generated code they are the same.

**EventChannel** – what `subscribe()` and `publish()` do under the mutex is
one action; the audit record and the start of the dispatch thread come after
the unlock, from the caller's locals (`call`), as a second action. A dispatch
thread is a member of `jobs` and runs its callbacks one by one; each returns
or throws. The second action may raise instead (`PublishRaises`, `ReplayRaises`:
the audit sink, or no thread to be had): the value stays cached, the callback
registered, and the delivery goes to the history `lost`. Init chooses whether the
channel caches. The k-th publish publishes
the value k, so that "which values did this subscription see" can be asked.

**CriticalSender** – `Send` stamps and pushes (rotation and its audit record
included); `FlushBegin`, `FlushOne`, `FlushFails`, `FlushEnd` are the loop of
`flush()`, with the peer coming and going between its steps. A socket may accept
without a peer: PUSH (up to its high-water mark) then holds the frame for one
that may come, PUB (`Pub = TRUE`) drops it. Either may refuse.

**Stream** – `SetupRejected`, `Setup`, `SetupThrows`, `Stop`, and `read()` in
two parts around `recv()`: `ReadLatched`, `ReadTearsDown`, `ReadWaits`, then
`ReadFrame` or `ReadTimesOut`. `sock` is the socket behind the flag `open_`:
none, connected (`wired`), or created by a `setup()` whose `connect()` threw
(`bare`), which `kill()` closes only if `open_` is set. Time is a tick; the two
time stamps are kept as ages that stop at a cap beyond every limit, so the state
space is finite without a bound on time.

**LocalKeyStore** – `StartLoaded` / `StartFresh` are the constructor on a
store with and without keys; `WrapDek`, `Rotate`, `Shred`, `ShredAgain` the
operations; `PersistOpens`, `PersistWrites`, `ShredAppends` the system calls
of `write_private()`, `PersistFails` and `ShredAppendFails` those calls
failing, and `Stop` the end of the process, between operations or inside one.
The store is the sequence of its lines, of which a prefix (the last line
possibly cut) is left by a rewrite that stopped half-way; the sidecar is its
complete lines and its unterminated tail, onto which a later append goes. The
history `cut` names the files a fault has damaged.

Abstractions common to all: payloads, names and formatting are left out;
audit records appear where a property is about them; a monotonic deadline is
the event that it passes (pools) or a count of ticks (stream).

## Runs

| Run | Instance | Checks | Distinct states |
|---|---|---|---|
| `pypool` | 3 threads, pool of 2 | `Accounting`, `NoLostWakeup`, `KeepsContract`, `BorrowEnds` | 25 224 |
| `pooled_session` | 2 threads that each nest a second borrow, 2 slots, debug and release build | `SlotsAccounted`, `CleanBorrow`, `ExhaustedOnlyAtDeadline`, `AssertOnlyNested`, `KeepsContract`, `BorrowEnds` | 147 425 |
| `dao` | 2 requests; 3 messages over 2 keys, two of them sharing an FK child; 0, 1 and 2 items | `RowsWhole`, `EventsExact`, `ReadWholeUndisturbed`, `CallsAreAtomic` | 639 789 |
| `migrate` | a renamed key, renamed, added, dropped, retyped and derived columns; child tables of every kind, evolved, renamed, orphaned and new, and two fields that change their kind; up to 3 cuts; both engines | `StampedIsMigrated`, `RowsKept`, `NothingLost`, `AllOrNothing`, `SecondCallIsNoOp`, `Converges` | 9 688 |
| `migrate_cut` | the same | `RowsSurvive` – **violated** | |
| `gate` | 2 threads, 1 CN, 2 keys, admin or guest, 1 token, 1 edit of key or map, 3 revisions of the revocation file, 1 restart | `ServedIsAuthentic`, `ServedIsPermitted`, `RevocationLands`, `RefusalsAudited` | 2 830 956 |
| `crud_server` | 2 requests of any protocol and operation, 2 connections | `AnswerTruthful`, `OwnTransaction`, `Answered` | 27 760 |
| `event_channel` | 2 callers, 3 subscriptions, 2 publishes, 1 call that raises, cached or not | `ExactlyOnce`, `OrderWithinPublish`, `AuditedBeforeDispatch`, `EventuallyDelivered` | 515 134 |
| `zmq` | a PUSH sender, capacity 2, 5 messages, next to a stream consumer: watchdog 4, reclamation 3, read 2 ticks, 2 queued frames | `NewestQueued`, `Accounted`, `WireInOrder`, `SocketReleased`, `FreshRead`, `WatchdogFires` | 1 894 848 |
| `critical_sender_pub` | PUB, capacity 2, 4 messages | `OutageCostsNoMessages` – **violated** | |
| `keystore` | 3 KEKs, 2 DEKs, crashes and I/O errors everywhere | `KeysSurviveUncut`, `ShredSurvivesUncut`, `ShredIsExact` | 173 030 |
| `keystore_lost` | 2 KEKs, 1 DEK | `KeysSurvive` – **violated** | |

What they show, and why the bounds are enough to meet the hard cases:

- `pypool`: with one thread more than slots the pool saturates, threads sleep,
  are woken, time out while being notified, and are overtaken by newcomers;
  connections die idle, in the ping and in the body. No bound cuts off
  behaviours: the state space is finite as it is.
- `pooled_session`: both threads can hold a slot and wait for a second one, the
  cycle of rule 2 that a release build does not refuse; the deadline ends it.
  In a debug build the assertion ends the process, so deadlock is not an error.
- `dao`: `a` and `b` are two versions of one row, one item without and two
  items with an FK child, so that an update has to shrink and grow the items and
  to meet a missing child; `c` is another row with the same child, so that one
  create can collide with the child of another. Two requests are enough for
  every overlap of a writer with a writer or a reader, since only one can write.
  No bound cuts off behaviours.
- `migrate`: one column or child table for each kind of change and of child the
  code distinguishes; messages made scalars are rebuilt, a repeated field made a
  map is left alone and stamped. Three cuts allow a cut inside the recovery from a cut inside
  the recovery of a cut.
- `gate`: the revocation file can be filled, emptied or removed and filled
  again while a request is between two checks (three revisions); one edit and
  one restart make a key or role stale, in either order. `MaxTokens` bounds the
  jtis; one token suffices because no check compares two. Symmetry is sound: the
  run has no liveness property.
- `crud_server`: with as many connections as requests one request can leave a
  transaction, and with it the write lock, on a connection while another waits
  for the lock on its own, and either can borrow what the other has left. Both
  invariants relate at most two requests; the theorems hold for any number. No
  bound cuts off behaviours. Requests end, so deadlock is not an error.
- `event_channel`: three subscriptions allow one before, one between and one
  after two publishes, in one snapshot or in several; two callers allow every
  race of `subscribe()` with `publish()`. One call that raises (`MaxRaise`) may be
  either publish or any replay; the theorems hold for any number. `MaxSub` and
  `MaxPublish` end the run, so deadlock is not an error.
- `zmq`: the two components share nothing and run side by side. `MaxSeq` is
  above twice the capacity, so that the queue fills, drains partly and fills
  again; capacity 0 (clamped to 1) is left to the theorems, which hold for every
  capacity. Every frame resets the reclamation clock and only usable ones the
  watchdog's, so reclamation being the shorter of the two lets either come
  first; both exceed a read's timeout, so several reads fit in.
- `keystore`: two rotations of one store, or one on each side of a store that
  was lost; each shred before and after each of them. Fresh KEKs can run out,
  so deadlock is not an error.

## Fairness

Only the liveness properties use it; nothing else depends on it.

- `PyPool`: every thread is scheduled, its deadline passes, and a handler's
  body ends (generated handlers run bounded work). `BorrowEnds` does not need
  strong fairness for the slot: newcomers may overtake for ever, and the
  deadline ends the wait.
- `PooledSession`: the constructor's own steps and the steady clock. Nothing is
  assumed of bodies: they may keep their slots for ever.
- `CrudServer`: a handler's thread runs; a borrow ends (`PyPool`'s
  `BorrowEnds`), and a statement's wait for the write lock ends at
  `busy_timeout`. That the lock's holder lets go of it is not assumed, and need
  not be true.
- `EventChannel`: a caller that has left the mutex goes on or raises, and started threads
  run callbacks that return or throw. A callback that never returns is
  excluded: the code has no defence against it and claims none.
- `Stream`: the caller polls (`read()` again and again, which is how the
  watchdog is specified to run: it has no thread), `recv()` returns with a
  frame or at its timeout, and time passes. Time is strongly fair because it
  is not a step anyone schedules: in the model `Tick` is briefly disabled while
  a frame waits for a `recv()` that returns at once.
- `Migration`: a running migration executes its next statement, and a process
  that was cut off is started again (`WF_vars(Step)`); the number of cuts is
  bounded, since no code completes under endless ones.

## Refinement

`Dao` implements `AtomicStore` with the mapping `store <- db` (the committed
rows): the run checks `CallsAreAtomic == Atomic!Spec`. Every step of a request
leaves the store alone except `Commit`, which must map to one whole create,
update, remove or import on the rows as they are *then*. What could break it is
what the statement lists leave out or add, a lock that is dropped between two
statements, or a commit of the FK child's DAO inside the parent's call. The
abstract actions are written independently of the statements: `Updated` says
what rows there are afterwards, the DAO deletes and inserts them one by one.

`PyPool` and `PooledSession` both implement `ConnPool` (`KeepsContract ==
Contract!Spec`). In `PyPool` a connection is lent from the moment the body has it
to `_give_back()`, the rollback included, and open when its transaction is;
in `PooledSession` it is the leased slot of a constructed object. A connection
that a ping, a `reconnect()` or a new one replaces is a `Drop` or a stutter. What
could break it is a hand-over of a connection with something open on it: by a
ping that leaves a transaction, by a destructor that rolls back too late, or to
two borrowers. `CrudServer` uses nothing else of the pool.

## Theorems

Proved with TLAPS for every value of the constants that satisfies the named
assumptions in the component's module. Each safety theorem has the form
`Spec => []P`, `Spec => [][A]_vars` or `Spec => Abstract!Spec`, nearly always for
a property that a run checks too, and each proof module also proves the type
invariant. Three more invariants are proved and not in a run: `Exclusive` and
`CleanBody` of `PyPool`, which `KeepsContract` rests on, and `Bounded` of
`CriticalSender`.

- **PyPoolProofs** – any finite set of threads, any connections, any size above 0. The
  inductive invariant is `Typed /\ Clean /\ Counting`. `Clean` adds to
  `Exclusive` and `CleanBody` the `Shape` of the state (which places own a
  connection, and who can be on the wait list). `Counting` is `Accounting`
  with `NoLostWakeup`, each of which needs the other: a returned slot is
  matched by a notified thread only if `_out` really counts the owners. The
  cardinalities of the thread sets change by at most one per step, which the
  lemmas `CardAdd` and `CardRemove` turn into arithmetic. `KeepsContractHolds`:
  no more than `Size` connections are lent because the lent ones are an image of
  the owners that `_out` counts, and `Lend` finds nothing open because of
  `CleanBody`; every other step is one of the contract's or leaves it alone.
- **ZmqProofs**, the critical sender – any capacity (0 included), either socket,
  any number of messages. The queue is the interval from `Oldest` to `nextSeq - 1`
  (`NewestQueued`), everything that left it is below `Oldest` and in order
  (`LeftInOrder`), and the numbers below `Oldest` are all accounted for
  (`Counted`): rotation and flushing both take from the old end, so both keep
  it. `Accounted` and `WireInOrder` follow.
- **ZmqProofs**, the stream consumer – any limits and timeouts. A read under way
  started inside both limits and has waited no longer than its timeout (`WaitingInTime`), and
  frames are queued only in a connected socket (`QueueWired`); with
  `SocketReleased`, which follows the socket itself and not only the flag, these
  are inductive, and `FreshRead` follows.
- **PooledSessionProofs** – any objects, slots and nesting of depth two, debug
  or release. To `SlotsAccounted` the invariant adds that a transaction is
  open only on a slot inside some body (`DirtyOnlyInside`, for `CleanBorrow`),
  that the last slice is entered after the deadline only (`LastIsDue`, for
  `ExhaustedOnlyAtDeadline`), and that the thread-local flag is set only
  while the thread owns a slot and a nested object lives inside a body
  (`HoldingReal`, `NestedInside`, for `AssertOnlyNested`).
  `KeepsContractHolds` needs the slots to be finite (`SlotsAssumption`), and
  otherwise only `SlotsAccounted` and `CleanBorrow`.
- **LocalKeyStoreProofs** – any keys, every fault. `ShredIsExact`: whatever the
  log holds, complete or cut, names an argument of `shred_dek()` (`Named`).
  `KeysSurviveUncut` and `ShredSurvivesUncut`: as long as no fault has cut the
  file in question, file and memory agree whenever the provider is idle
  (`KeysKept`, `ShredsKept`), each whatever happens to the other file. Without
  the exception the first is false, which is what `keystore_lost` shows.
- **ServerProofs**, the gate – any threads, identities, keys and role maps, every
  lifetime, any number of edits, revisions and restarts. All four properties
  follow from one invariant: `Checked(t)`, what the checks a request has passed
  so far have established (the key at `expiry`, the time at `revoked`, the list
  and the CN at `decide`), and `CacheMatches`: under a stamp the cached
  revocation set is the content the stamp names. The second is what
  `RevocationLands` turns on: without it a reload that is skipped because the
  stamp matches would say nothing about the set.
- **ServerProofs**, the handlers – any requests and connections. `LentRight`: a
  connection is lent to one request, from its borrow to its exit. `WorkRight`: a
  transaction is open exactly when something is in it; what is in it is the
  uncommitted write of one request, which has the connection or has left it there
  with an error, after a failed commit over SOAP or gRPC; and a request that has
  a connection finds no work of others on it. `ToldRight`: what each place of the
  handler has established of the answer it will give. `AnswerTruthful` needs all
  three: that an error stays true after the answer is that nobody can commit what
  was left, since the next borrower gets the connection clean, and that is
  `WorkRight` with the contract's `Lend`.
  `UsesPool` closes the seam: every step of the server is a step of `ConnPool`,
  the contract that `PyPool`, the pool these handlers use, is proved to keep.
- **EventChannelProofs** – any callers, subscriptions and publishes, cached or
  not. `AuditedBeforeDispatch`: a dispatch thread of a publish starts after its
  record (`JobsRecorded`), a replay is of a value no newer than its subscription
  (`ReplayIsOld`, which needs `Past`), so whatever a callback has run on is
  older than the subscription or on record (`Seen`). `ExactlyOnce` and
  `OrderWithinPublish` rest on a second invariant, `Exact`: subscriptions get
  their numbers in the order in which they join (`Ages`), the list that
  `publish()` copies is exactly the subscriptions that have joined and not left,
  oldest first (`SubsExact`), a delivery under way is owed to everyone it names
  (`Aimed`), no two deliveries, under way or lost, carry one value to one
  subscription (`Apart`), a dispatch runs from the front of its snapshot, so that whoever is
  older than the ones left in it has been served (`OldestFirst`), and what is
  owed is either delivered, once, or under way, or lost by a call that raised
  (`Delivered`). No part is
  inductive alone: a duplicate is excluded by `Apart` and `Delivered` together,
  and both need `SubsExact` at the moment a publish takes its copy.
- **DaoProofs** – any clients, messages, keys, FK children and numbers of items
  (`SizeAssumption`: a message has a natural number of items;
  `NoneAssumption`: the absence of a lock holder is not a client). The proof
  first forgets the order of statements: every plan is put together from pieces
  that are `Ordered` (what overwrites or deletes in a table comes before
  anything else that touches it), and for such a list `After(R, D)`, the effect
  on rows `R` of a *set* `D` of statements, grows statement by statement as the
  database does (`AfterStep`). The inductive invariant says where every client is
  in its plan (`Place`, `Progress`), that the lock holder's uncommitted rows are
  the committed ones with what it has executed (`Holder`; a call that a failed
  commit has left may hold the lock too), that a create or
  import has met no key twice (`Fresh`), and that the deferred list is the
  publications of the statements executed so far (`Listed`). `EventsExact` is
  `Listed` at the end of the plan. The refinement (`CallsAreAtomicHolds`) is
  `Holder` at the end of the plan: `CreateEffect`, `UpdateEffect` and
  `RemoveEffect` turn `After` of a whole plan into the abstract action of
  `AtomicStore`, and every other step leaves the committed rows alone. From the
  refinement step, `RowsWhole` only needs the abstract actions to keep rows
  whole; and `ReadWholeUndisturbed` follows with `Reading`, which says of a
  read() that no commit fell into that what it has loaded so far is what the
  tables still hold.

- **MigrationProofs** – any old and new schema, renames and transform that
  satisfy the assumptions, both engines, any number of cuts. The first
  invariant is about shapes. `Sessions`: what is on disk is what the session
  sees except inside Python's transaction, and a stamped database has the shape
  of the schema (`Migrated`). `Kin`: a child table whose field kept its kind has, at
  every step and under either name, whatever its plan never adds, compares or
  drops (`Alike`). `Looked`: the list of child tables that is taken at
  the start and used at the end misses no undeclared table, although tables are
  renamed, made and swapped in between; the only one that may exist unlisted is
  the copy of the rebuild under way. `Evolved`: what the steps so far have
  established of the table they work on (nothing to rename at `add`, nothing
  lacking from `transform` on, no stray at `types`, the copy's shape during a
  rebuild). `StampedIsMigrated` is `Sessions` with `Kin`, and `SecondCallIsNoOp` follows
  because on a `Migrated` database every step finds nothing to do. The second
  invariant, `Rows`, is about where the rows are: every declared table is
  `Faithful` (each column holds the rows of its `Origin`, and every origin it
  needs is in it), or is still under its old name, or is new; between the DROP
  and the RENAME of a rebuild the copy stands for it (`View`). It is relative to
  "no cut fell into that gap", which is exactly the exception `migrate_cut`
  shows to be needed. `RowsKept` is `Faithful` with nothing left to derive
  (`Full`), and `NothingLost` is `Rows` read on disk: in C++ the view, in Python
  the last commit. `AllOrNothing` (a Python migration is on disk completely or
  not at all) has an invariant of its own, `OneTransaction`: what is on disk is
  the old database until the one commit, and is stamped from then on.

Only model-checked: the liveness properties (`BorrowEnds` of both pools,
`EventuallyDelivered`, `WatchdogFires`, `Converges`, `Answered`). Every invariant and every
safety property of a step that a passing run checks has a theorem. Liveness under
fairness and `ENABLED` are out of the prover's reach, and so is induction over data (what a recursive definition computes for
every input) and anything about `RECURSIVE` operators, which is why the modules
use none.

## Disagreements found

Three runs check what a comment, a document or a test of the repository says and
find it violated by what the code does.

1. `critical_sender_pub` – the template says an outage "costs latency, not
   messages"; on a PUB socket with no subscriber `send()` succeeds, the frame
   is dropped, and `flush()` pops it. (A `critical` event or stream type gets
   such a socket.)
2. `keystore_lost` – "keys survive a process restart"; `write_private()` returns
   without a word when a system call fails. On the run's trace `open()` fails in
   the constructor of a fresh store; a DEK is wrapped under a KEK that is in no
   file, the process ends, and the next constructor mints another version 1.
   (`rotate()` is another way there: it truncates and rewrites the only copy, so
   a process that ends in between loses the KEKs, and with them every DEK.)
3. `migrate_cut` – "data survives via CAST"; the C++ migration has no
   transaction. Stopped between the `DROP TABLE` and the `RENAME` of a rebuild,
   the next start makes an empty main table, takes the copy, whose name has the
   prefix of a child table, for an orphan, drops it, and stamps the version. The
   rebuild of a child table has the same gap.

## What the code does not promise

Behaviour that the models show and the properties therefore except. None of it
has a run of its own.

- `pool.py`: `close()` says "borrowed ones close on return", but `_give_back()`
  has no closed flag and puts the connection, open, back into `_idle`. A pool
  that was closed keeps serving.
- Key provider: a crash inside the append of a shred leaves a line without a
  newline; the repeated shred goes onto that line, the reader takes one record
  per line, and after the next restart the DEK unwraps again, although the
  header says "there is no un-shred". `ShredSurvivesUncut` excepts a cut log.
- `read()` is not a snapshot: three SELECTs, and a commit between two of them
  can give the row of one version with the items of another.
  `ReadWholeUndisturbed` is about reads that no commit falls into.
- `update()` of a row that is not there returns `False` but has rewritten the
  items, which a later `create()` collides with; and an `update()` that names a
  new FK child updates no child row, so the child's content is lost without an
  error. `RowsWhole` excepts databases in which an update missed (`missed`).
- "Committed on success, rolled back on error" (`dao.py:33-34`): `_tx()` runs the
  pending publications after its commit, and one that raises (or whose audit
  record does) makes the call raise. REST answers 500, SOAP `<ok>false</ok>`,
  gRPC "create failed", and the row is there. `AnswerTruthful` excepts exactly
  these (`late`).
- A SOAP or gRPC write whose commit failed with the transaction still open leaves
  it, and SQLite's write lock, on an idle connection until somebody borrows that
  one; meanwhile writers on other connections fail at `busy_timeout`. `Answered`
  says that they do fail, `OwnTransaction` that nothing else comes of it.
- Two calls that commit in one order may publish in the other; `EventsExact` is
  about the events of one call. Likewise a replay of the cached value runs on a
  thread of its own and may arrive after a newer publish.
- C++ migration: stopped with the rebuild's table made and the old one still
  there, every later start fails, since `CREATE TABLE "…__retype_tmp"` has no
  `IF NOT EXISTS`. `Converges` excepts that cut.
- Migration: a child field that changes its kind under one name is stamped with
  the old table, or what the new kind's plan makes of it: a repeated field made a
  map of the same value type keeps `ordinal` and never gets `key`.
  `StampedIsMigrated` is about such a table's existence only (`SameKind`).
- Migration: `data_transform` runs at every start. Guarded as `USAGE.md:824`
  asks, by a `WHERE` on the column it fills, it still reads the retired one at
  the next start, where the column is gone and SQLite takes its quoted name for
  a string; only rows whose destination is empty are then affected. The model
  leaves an empty column empty.
- `publish()` and `subscribe()` can raise after the unlock: the value is cached
  (or the callback registered) and the deliveries of that call are never made.
  `ExactlyOnce` and `EventuallyDelivered` count them as `lost`.
- Stream: a `setup()` whose `connect()` throws leaves its new socket behind,
  unconnected. On a stream that is not in use `stop()` skips it, and the next
  `setup()` or the destructor closes it; on a live one it takes the stream's
  place until the watchdog or reclamation ends it. `SocketReleased` is about
  connections.
- Revocation: the moment in which the file is missing or empty while it is
  rewritten clears the set, and a revoked token passes. `RevocationLands` is
  about tokens listed all the time a request is looked at.

## Not modelled

- `PyPool`: the order in which `_idle` is reused; the driver's exceptions other
  than "the connection is dead".
- `PooledSession`: `open_sqlite_pool()` (runs before any borrow) and
  `refuse_sqlite_memory_pool()` (one more borrower at start-up).
- `Dao`: child tables other than those of repeated scalars (repeated FK children,
  maps and composed elements, `dao.py:333-349`), `list()` and `read_by` (read()
  over several rows, or by another column), keys assigned by the database, the phi hooks (audit and encryption of
  columns), and the C++ DAO, which runs the same statements without a
  transaction, so that `CallsAreAtomic` is not expected of it.
- `Migration`: PostgreSQL's `ALTER COLUMN TYPE` and identity steps; two
  processes that migrate one database at once; the caller's transform beyond
  the guarded derivation of one column; a rebuild that selects a column the old
  table does not have (`RebuildAssumption`); a column that `ALTER TABLE` refuses
  to add to a table of messages.
- `AccessGate`: the parser of the map file, the encoding and the MAC of a
  token, the heartbeat, which `decide()` allows before it looks at the map and
  which no gate asks it about (`harpia_rbac.h:148`), an audit sink of the
  gate's own, and the SOAP operation that is in no table, which the gate lets through
  to the endpoint's own fault.
- `EventChannel`: `swallowed` records exist but no property is about them; the
  channel's destruction while a detached thread runs.
- `CriticalSender`: the arrival check and the mailbox.
- `LocalKeyStore`: the constructor's refusals (they change nothing); the loss
  of pages the operating system had not written (the code never calls
  `fsync`, the model ends the process and keeps the machine up); two
  processes on one store.
- `Stream`: the destructor, after which nothing happens; the Python twin, whose
  second `setup()`, if it throws, leaves it OK without a socket
  (`zmq_stream.py:107-117`); other limits, assigned with `config_` by a `setup()`
  that then throws.
- The ZAP handler (a request with too few frames is skipped without a reply,
  after which a REP socket cannot receive), WS-Discovery (`stop()` closes a
  descriptor another thread is blocked on, then joins that thread: whether the
  receive wakes is the operating system's matter), and capability negotiation.
- `CrudServer`: the router and the heartbeat, several messages on one pool that
  are written in one request (there is no such handler), PostgreSQL, where there
  is no one write lock, and the C++ servers, whose DAO has no transaction.
- The in-memory and KMS key providers (the local one without its files; a
  remote service), the generator (an offline, single process), serialization,
  reports, Java and DDS adapters, build files and vendored code: conversions,
  text generation or third-party behaviour without concurrent state.

## Plan

1. `Capability`: `negotiate()` under its time-out followed by `dispatch()`.
2. `Zap`: the handler thread's start, loop and stop.
3. The C++ DAO, statement by statement, and the C++ handlers over it.
