----------------------------- MODULE Migration -----------------------------
(***************************************************************************)
(* The generated schema migration of one table and its child tables, on    *)
(* SQLite: migrate_<name>() in C++ (the rendered templates, read in        *)
(* UnitTests/golden/migrate) and migrate() in PyDatabase/runtime, run at   *)
(* every start of a process that may be stopped, or whose statement may    *)
(* fail, between any two statements.  The two run the same steps; C++ has  *)
(* no transaction around them, Python one.                                 *)
(*                                                                         *)
(* A table is a set of columns; of its rows the model keeps, per column,   *)
(* which column of the old database they hold the values of.  The          *)
(* introspection SELECTs are read where their result is used, the list of  *)
(* child tables excepted, which is taken at the start and used at the end. *)
(***************************************************************************)
EXTENDS FiniteSets, Naturals

CONSTANTS Old,           \* the tables of the old database: name -> columns
          Current,       \* the tables the schema declares: name -> columns
          Main,          \* the message's own table; the others are its children
          Key,           \* the name of Main's key column
          Kind,          \* what a declared child table stores
          Renames,       \* renamed_from, of columns of Main: <<old, new>>
          ChildRenames,  \* renamed_from, of child tables: <<old, new>>
          Move,          \* data_transform: the column <<from, to>> it derives
          MaxCuts,       \* bound: how often the migration is cut off
          None

ASSUME ConstantsAssumption ==
    /\ MaxCuts \in Nat
    /\ Main \in DOMAIN Old \cap DOMAIN Current

VARIABLES engine,     \* "cpp" or "python"
          db,         \* what is on disk
          work,       \* what the session sees
          pc,         \* the step of the migration
          at,         \* the table it evolves
          childHave,  \* the child tables listed at the start
          cut,        \* history: where a cut fell into a rebuild
          cuts

vars == <<engine, db, work, pc, at, childHave, cut, cuts>>

Tables == DOMAIN Old \cup DOMAIN Current
Live(t) == <<t, "live">>
Tmp(t) == <<t, "tmp">>    \* "<table>__retype_tmp" (or "__evolve_tmp"), a child by its name
Names == {Live(t) : t \in Tables} \cup {Tmp(t) : t \in Tables}
Children == Names \ {Live(Main)}

Column(n, ty, h) == [name |-> n, type |-> ty, holds |-> h]
Origins == {<<t, c.name>> : t \in DOMAIN Old, c \in UNION {Old[u] : u \in DOMAIN Old}}

\* The column names of a table; its shape, without the rows.
NamesOf(T) == {c.name : c \in T}
Shape(T) == {[name |-> c.name, type |-> c.type] : c \in T}

\* Columns of one table have names of their own.
ASSUME SchemaAssumption ==
    /\ \A t \in DOMAIN Old : \A c, d \in Old[t] : c.name = d.name => c = d
    /\ \A t \in DOMAIN Current : \A c, d \in Current[t] : c.name = d.name => c = d
    /\ \A t \in DOMAIN Current : \A c \in Current[t] : c = [name |-> c.name, type |-> c.type]

\* A child table has the elements of a repeated message ("composed") or scalar
\* ("scalar"), the entries of a map, or the keys of a repeated message that has a
\* table of its own ("link"), which is not renamed.
ASSUME KindAssumption ==
    /\ Kind \in [DOMAIN Current \ {Main} -> {"composed", "scalar", "map", "link"}]
    /\ \A r \in ChildRenames : r[2] \in DOMAIN Kind => Kind[r[2]] # "link"

\* The columns that ADD COLUMN can supply, the columns whose live type is compared
\* with the declared one, and the tables that lose what they do not declare.
Addable(t) ==
    IF t = Main THEN NamesOf(Current[t]) \ {Key}
    ELSE IF Kind[t] = "composed" THEN NamesOf(Current[t]) \ {"owner", "ordinal"}
    ELSE {}
Compared(t) ==
    IF t = Main THEN NamesOf(Current[t])
    ELSE CASE Kind[t] = "composed" -> NamesOf(Current[t]) \ {"owner", "ordinal"}
           [] Kind[t] = "scalar" -> {"value"}
           [] Kind[t] = "map" -> {"key", "value"}
           [] OTHER -> {}
Swept(t) == t = Main \/ Kind[t] = "composed"

\* renamed_from belongs to a declared field, and no two fields name the same
\* old one, whose name is retired.
Retires(R, declared) ==
    \A r \in R : /\ r[2] \in declared /\ r[1] \notin declared
                 /\ \A q \in R : r[1] = q[1] <=> r[2] = q[2]
ASSUME RenamesAssumption ==
    /\ Retires(Renames, NamesOf(Current[Main]))
    /\ Retires(ChildRenames, DOMAIN Current \ {Main})
    /\ \A r \in ChildRenames : r[1] # Main

\* "the PK always exists from the first version", under this name or an older one.
ASSUME KeyAssumption ==
    /\ Key \in NamesOf(Current[Main])
    /\ \/ Key \in NamesOf(Old[Main])
       \/ \E r \in Renames : r[2] = Key /\ r[1] \in NamesOf(Old[Main])

\* The old tables that child table t may come from.
Sources(t) == {u \in Tables : u = t \/ \E r \in ChildRenames : r[1] = u /\ r[2] = t}

\* What the migration does not bring about, columns that it never adds, types that
\* it never compares and strays that it never drops, is in table T as declared.
Alike(t, T) ==
    /\ \A d \in Current[t] :
          \/ d.name \in Addable(t) \cup NamesOf(T)
          \/ t = Main /\ \E r \in Renames : r[2] = d.name /\ r[1] \in NamesOf(T)
    /\ \A c \in T, d \in Current[t] :
          c.name = d.name /\ c.name \notin Compared(t) => c.type = d.type
    /\ Swept(t) \/ NamesOf(T) \subseteq NamesOf(Current[t])

\* The field of child table t has kept its kind.
SameKind(t) == \A u \in Sources(t) \cap DOMAIN Old : Alike(t, Old[u])

\* Of a field that has not, the old table is left alone or has the columns that a
\* rebuild selects: what SQLite makes of a column that is not there is left out.
ASSUME RebuildAssumption ==
    \A t \in DOMAIN Current \ {Main} : \A u \in Sources(t) \cap DOMAIN Old :
        \/ \A d \in Current[t] : d.name \in Addable(t) \cup NamesOf(Old[u])
        \/ /\ ~Swept(t)
           /\ \A c \in Old[u], d \in Current[t] :
                 c.name = d.name /\ c.name \in Compared(t) => c.type = d.type

\* The transform derives a new column from an old one that retires, neither of
\* which a rename is about.
ASSUME MoveAssumption ==
    /\ Move[1] \in NamesOf(Old[Main]) \ NamesOf(Current[Main])
    /\ Move[2] \notin NamesOf(Old[Main])
    /\ \A r \in Renames : {r[1], r[2]} \cap {Move[1], Move[2]} = {}

\* Every column there can be; no rows; and what is no table, not even an empty one.
Schemas == {Old[t] : t \in DOMAIN Old} \cup {Current[t] : t \in DOMAIN Current}
Columns == [name : UNION {NamesOf(T) : T \in Schemas},
            type : UNION {{c.type : c \in T} : T \in Schemas},
            holds : Origins \cup {None}]
NoTable == {None}
ASSUME NoneAssumption == None \notin Origins /\ None \notin Columns

\* A table of the current schema with no rows.
Fresh(t) == {Column(c.name, c.type, None) : c \in Current[t]}

\* What the rows of a column would hold, read from table T.
Held(T, n) ==
    IF n \in NamesOf(T) THEN (CHOOSE c \in T : c.name = n).holds ELSE None

-----------------------------------------------------------------------------

Steps == {"off", "childrename", "create", "rename", "add", "transform", "drop",
          "types", "copy", "droptable", "swap", "reap", "childadd", "stamp",
          "done", "failed"}

TypeOK ==
    /\ engine \in {"cpp", "python"}
    /\ \A d \in {db, work} : /\ d.stamped \in {"old", "new"}
                             /\ d.tables \in [Names -> (SUBSET Columns) \cup {NoTable}]
    /\ pc \in Steps /\ at \in Tables
    /\ childHave \subseteq Children
    /\ cut \subseteq {"tmp", "swap"}
    /\ cuts \in 0..MaxCuts

OldTables ==
    [n \in Names |->
        IF n[2] = "tmp" \/ n[1] \notin DOMAIN Old THEN NoTable
        ELSE {Column(c.name, c.type, <<n[1], c.name>>) : c \in Old[n[1]]}]

Init ==
    /\ engine \in {"cpp", "python"}
    /\ db = [tables |-> OldTables, stamped |-> "old"]
    /\ work = db
    /\ pc = "off" /\ at = Main /\ childHave = {} /\ cut = {} /\ cuts = 0

Table(n) == work.tables[n]
Exists(n) == Table(n) # NoTable

\* Mutation: Python opens no transaction either.
WriteThrough(n, T) ==
    /\ work' = [work EXCEPT !.tables[n] = T]
    /\ db' = work'

\* One statement: in C++ it is on disk at once.
Write(n, T) ==
    /\ work' = [work EXCEPT !.tables[n] = T]
    /\ db' = IF engine = "cpp" THEN work' ELSE db

\* ALTER TABLE ... RENAME TO.
RenameTable(n, m) ==
    /\ work' = [work EXCEPT !.tables[n] = NoTable, !.tables[m] = Table(n)]
    /\ db' = IF engine = "cpp" THEN work' ELSE db

Stay == UNCHANGED <<engine, pc, at, childHave, cut, cuts>>
Goto(step) == pc' = step /\ UNCHANGED <<engine, at, childHave, cut, cuts>>

\* A loop over some work that ends when there is none left.
Skip(step) == Goto(step) /\ UNCHANGED <<db, work>>

-----------------------------------------------------------------------------

\* A process starts and calls migrate: the child tables that there are.
Start ==
    /\ pc = "off"
    /\ pc' = "childrename"
    /\ at' = Main
    /\ childHave' = {n \in Children : Exists(n)}
    /\ UNCHANGED <<engine, db, work, cut, cuts>>

\* Child-table renames, before an empty new one is made.
RenamedChildren ==
    {r \in ChildRenames : Live(r[1]) \in childHave /\ Live(r[2]) \notin childHave}
RenameChild ==
    /\ pc = "childrename"
    /\ \E r \in RenamedChildren :
          /\ RenameTable(Live(r[1]), Live(r[2]))
          /\ childHave' = (childHave \ {Live(r[1])}) \cup {Live(r[2])}
          /\ UNCHANGED <<engine, pc, at, cut, cuts>>
ChildrenRenamed == pc = "childrename" /\ RenamedChildren = {} /\ Skip("create")

\* create_table(): CREATE TABLE IF NOT EXISTS, Main first.
Missing == {t \in DOMAIN Current : ~Exists(Live(t))}
CreateTable ==
    /\ pc = "create"
    /\ \E t \in Missing : /\ Main \in Missing => t = Main
                          /\ Write(Live(t), Fresh(t))
    /\ Stay
TablesCreated == pc = "create" /\ Missing = {} /\ Skip("rename")

\* Column renames: a no-op once the old name is gone.
RenamedColumns ==
    {r \in Renames : /\ r[1] \in NamesOf(Table(Live(Main)))
                     /\ r[2] \notin NamesOf(Table(Live(Main)))}
RenameColumn ==
    /\ pc = "rename"
    /\ \E r \in RenamedColumns :
          Write(Live(Main), {IF c.name = r[1] THEN [c EXCEPT !.name = r[2]] ELSE c :
                             c \in Table(Live(Main))})
    /\ Stay
ColumnsRenamed == pc = "rename" /\ RenamedColumns = {} /\ Skip("add")

\* ALTER TABLE ... ADD COLUMN, of Main and of a child table of messages.
Lacking(t) == {c \in Current[t] : c.name \in Addable(t) \ NamesOf(Table(Live(t)))}
AddColumn ==
    /\ pc \in {"add", "childadd"}
    /\ \E c \in Lacking(at) :
          Write(Live(at), Table(Live(at)) \cup {Column(c.name, c.type, None)})
    /\ Stay

\* Mutation: the columns that retire are dropped before the transform.
AddedThenDrop == pc = "add" /\ Lacking(Main) = {} /\ Skip("drop")

ColumnsAdded == pc = "add" /\ Lacking(Main) = {} /\ Skip("transform")

\* The caller's data_transform, guarded as USAGE.md asks for, by a WHERE on the
\* column it derives.
Transform ==
    /\ pc = "transform"
    /\ LET T == Table(Live(Main))
       IN  Write(Live(Main), {IF c.name = Move[2] /\ c.holds = None
                              THEN [c EXCEPT !.holds = Held(T, Move[1])] ELSE c : c \in T})
    /\ Goto("drop")

\* ALTER TABLE ... DROP COLUMN of whatever the schema does not declare.
Strays(t) == {c \in Table(Live(t)) : c.name \notin NamesOf(Current[t])}
DropColumn ==
    /\ pc = "drop"
    /\ \E c \in Strays(Main) : Write(Live(Main), Table(Live(Main)) \ {c})
    /\ Stay
ColumnsDropped == pc = "drop" /\ Strays(Main) = {} /\ Skip("types")

-----------------------------------------------------------------------------
(* The rebuild: SQLite has no ALTER COLUMN ... TYPE. *)

\* Mutation: the main table is always rebuilt.
DriftedAlways(t) ==
    \/ t = Main
    \/ \E c \in Table(Live(t)), d \in Current[t] :
          c.name = d.name /\ c.name \in Compared(t) /\ c.type # d.type
    \/ t # Main /\ Swept(t) /\ Strays(t) # {}

\* A live type that differs from the schema's, where it is compared; in a child
\* table of messages a stray column is left out by a rebuild as well.
Drifted(t) ==
    \/ \E c \in Table(Live(t)), d \in Current[t] :
          c.name = d.name /\ c.name \in Compared(t) /\ c.type # d.type
    \/ t # Main /\ Swept(t) /\ Strays(t) # {}
EvolveNow == pc = "types" \/ (pc = "childadd" /\ Lacking(at) = {})

\* CREATE TABLE "<table>__retype_tmp", without IF NOT EXISTS.
MakeTmp ==
    /\ EvolveNow /\ Drifted(at)
    /\ IF Exists(Tmp(at)) THEN Goto("failed") /\ work' = db /\ UNCHANGED db
       ELSE Goto("copy") /\ Write(Tmp(at), Fresh(at))

\* Mutation: a column whose type has changed is not copied.
CopyRowsUncast ==
    /\ pc = "copy"
    /\ Write(Tmp(at), {[c EXCEPT !.holds =
                           IF \E d \in Table(Live(at)) : d.name = c.name /\ d.type = c.type
                           THEN Held(Table(Live(at)), c.name) ELSE None] : c \in Table(Tmp(at))})
    /\ Goto("droptable")

\* INSERT ... SELECT CAST(...).
CopyRows ==
    /\ pc = "copy"
    /\ Write(Tmp(at), {[c EXCEPT !.holds = Held(Table(Live(at)), c.name)] : c \in Table(Tmp(at))})
    /\ Goto("droptable")

\* DROP TABLE, and the copy takes its name.
DropOld == pc = "droptable" /\ Write(Live(at), NoTable) /\ Goto("swap")
SwapIn ==
    /\ pc = "swap"
    /\ RenameTable(Tmp(at), Live(at))
    /\ Goto(IF at = Main THEN "reap" ELSE "childadd")

NoRebuild == pc = "types" /\ ~Drifted(Main) /\ Skip("reap")

\* Child tables that the schema does not declare.
Orphans == childHave \ {Live(t) : t \in DOMAIN Current}
Reap ==
    /\ pc = "reap"
    /\ \E n \in Orphans :
          /\ Write(n, NoTable)
          /\ childHave' = childHave \ {n}
          /\ UNCHANGED <<engine, pc, at, cut, cuts>>

\* Then each declared child table is evolved by the plan of its kind, one after
\* the other.
Undone == {t \in DOMAIN Current \ {Main} : Lacking(t) # {} \/ Drifted(t)}

\* Mutation: the version is stamped before the children have been evolved.
NextChildNever ==
    /\ pc = "reap" /\ Orphans = {}
    /\ Skip("stamp")

NextChild ==
    /\ \/ pc = "reap" /\ Orphans = {}
       \/ pc = "childadd" /\ Lacking(at) = {} /\ ~Drifted(at)
    /\ \/ Undone = {} /\ Skip("stamp")
       \/ /\ at' \in Undone
          /\ pc' = "childadd"
          /\ UNCHANGED <<engine, db, work, childHave, cut, cuts>>

\* The version; Python commits.  The call returns true.
Stamp ==
    /\ pc = "stamp"
    /\ work' = [work EXCEPT !.stamped = "new"]
    /\ db' = work'
    /\ Goto("done")

\* The process goes on, or tries again, at its next start.
Restart == pc \in {"done", "failed"} /\ Skip("off")

Running == pc \notin {"off", "done", "failed"}

\* The process stops, or the next statement fails: C++ keeps what it has
\* executed, Python's transaction is rolled back.
Cut ==
    /\ Running
    /\ cuts < MaxCuts /\ cuts' = cuts + 1
    /\ pc' \in {"off", "failed"}
    /\ work' = db
    /\ cut' = IF engine = "python" THEN cut
              ELSE IF pc = "swap" THEN cut \cup {"swap"}
              ELSE IF at = Main /\ pc \in {"copy", "droptable"} THEN cut \cup {"tmp"}
              ELSE cut
    /\ UNCHANGED <<engine, db, at, childHave>>

Step ==
    \/ Start \/ RenameChild \/ ChildrenRenamed \/ CreateTable \/ TablesCreated
    \/ RenameColumn \/ ColumnsRenamed \/ AddColumn \/ ColumnsAdded \/ Transform
    \/ DropColumn \/ ColumnsDropped \/ MakeTmp \/ CopyRows \/ DropOld \/ SwapIn
    \/ NoRebuild \/ Reap \/ NextChild \/ Stamp \/ Restart

Next == Step \/ Cut

\* A process that is cut off is started again.
Spec == Init /\ [][Next]_vars /\ WF_vars(Step)

-----------------------------------------------------------------------------
(* What the migration promises. *)

\* A database that is stamped with the current version has its shape: every
\* declared table with the declared columns and types, nothing else, and no
\* leftover of a rebuild, however often and wherever the migration was cut off.
\* A child table whose field has changed its kind (a repeated field made a map,
\* say) is there, but stamped with what its plan left of the old one.
StampedIsMigrated ==
    db.stamped = "new" =>
        \A n \in Names :
            IF n[2] = "live" /\ n[1] \in DOMAIN Current
            THEN /\ db.tables[n] # NoTable
                 /\ SameKind(n[1]) => Shape(db.tables[n]) = Current[n[1]]
            ELSE db.tables[n] = NoTable

\* The old column whose rows column n of table t is to have, if any.
OriginTable(t) ==
    LET from == {r[1] : r \in {q \in ChildRenames : q[2] = t /\ q[1] \in DOMAIN Old}}
    IN  IF t \in DOMAIN Old \/ from = {} THEN t ELSE CHOOSE u \in from : TRUE
Origin(t, n) ==
    LET u == OriginTable(t)
        names == IF u \in DOMAIN Old THEN NamesOf(Old[u]) ELSE {}
        from == {r[1] : r \in {q \in Renames : t = Main /\ q[2] = n /\ q[1] \in names}}
    IN  IF n \in names THEN <<u, n>>
        ELSE IF from # {} THEN <<u, CHOOSE o \in from : TRUE>>
        ELSE IF t = Main /\ n = Move[2] /\ Move[1] \in names THEN <<u, Move[1]>>
        ELSE None

Kept ==
    \A t \in DOMAIN Current : \A c \in db.tables[Live(t)] : c.holds = Origin(t, c.name)

\* "the old column's rows survive": a stamped database has the rows of the old
\* one, under their new names and types and through the transform, unless C++ was
\* cut off between the DROP TABLE and the RENAME of a rebuild.
RowsKept == db.stamped = "new" /\ "swap" \notin cut => Kept

\* On the way there, too: at every moment the rows of every old column that the
\* new schema keeps are on disk somewhere.
NothingLost ==
    "swap" \notin cut =>
        \A t \in DOMAIN Current : \A c \in Current[t] :
            Origin(t, c.name) # None =>
                \E n \in Names : /\ db.tables[n] # NoTable
                                 /\ \E d \in db.tables[n] : d.holds = Origin(t, c.name)

\* "a second call is a no-op": a stamped database is not written again.
SecondCallIsNoOp == [][db.stamped = "new" => db' = db]_vars

\* However often it is cut off, the migration is completed in the end, unless C++
\* was cut off with the rebuild's table made and the old one still there.
Converges == <>(pc = "done" \/ "tmp" \in cut)

\* The Python migration is one transaction: on disk there is the old database,
\* untouched, or the migrated one with all its rows, and nothing in between.
AllOrNothing ==
    engine = "python" =>
        IF db.stamped = "old" THEN db.tables = OldTables ELSE Kept

\* UnitTests/test_stage8_db.py of the rebuild: "data survives via CAST".
RowsSurvive == db.stamped = "new" => Kept
=============================================================================
