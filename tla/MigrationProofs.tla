-------------------------- MODULE MigrationProofs --------------------------
(***************************************************************************)
(* Proofs about Migration for any schema change that its assumptions       *)
(* admit: any tables, columns, renames, retypes, orphans and kinds of      *)
(* child table, C++ or Python, cut off any number of times at any          *)
(* statement.  The key is in the old table under some name, and a rebuild  *)
(* selects columns that exist; a child table whose field has changed its   *)
(* kind is promised to exist, not to have the declared shape.              *)
(***************************************************************************)
EXTENDS Migration, TLAPS

Declared == {Live(t) : t \in DOMAIN Current}
Rebuilding == pc \in {"copy", "droptable", "swap"}

\* The migration finds nothing to do in table T.
Settled(t, T) ==
    /\ \A d \in Current[t] : d.name \in Addable(t) => d.name \in NamesOf(T)
    /\ \A c \in T, d \in Current[t] : c.name = d.name /\ c.name \in Compared(t) => c.type = d.type
    /\ Swept(t) => NamesOf(T) \subseteq NamesOf(Current[t])

\* It finds nothing to do in the tables W, and there are no undeclared ones.
Migrated(W) ==
    /\ \A t \in DOMAIN Current : W[Live(t)] # NoTable /\ Settled(t, W[Live(t)])
    /\ \A n \in Names \ Declared : W[n] = NoTable

Databases == [tables : [Names -> (SUBSET Columns) \cup {NoTable}], stamped : {"old", "new"}]

Types ==
    /\ engine \in {"cpp", "python"}
    /\ db \in Databases /\ work \in Databases
    /\ pc \in Steps /\ at \in DOMAIN Current
    /\ childHave \subseteq Children
    /\ cut \subseteq {"tmp", "swap"} /\ cuts \in 0..MaxCuts

\* Disk and session: C++ has no transaction, outside a migration there is none
\* to have, and a stamped database is as the schema says and stays so.
Sessions ==
    /\ work.stamped = db.stamped
    /\ engine = "cpp" \/ ~Running => work = db
    /\ db.stamped = "new" => work = db /\ Migrated(db.tables)

\* Which table is evolved at which step.
Order ==
    /\ pc \in {"childrename", "create", "rename", "add", "transform", "drop",
               "types", "reap"} => at = Main
    /\ pc = "childadd" => at # Main

\* The list of child tables taken at the start misses no undeclared one.
Looked ==
    /\ pc = "childrename" => childHave = {n \in Children : Exists(n)}
    /\ Running => \A n \in Children : Exists(n) =>
          n \in childHave \/ n \in Declared \/ (Rebuilding /\ n = Tmp(at))
    /\ Running /\ (at # Main \/ pc = "stamp" \/ db.stamped = "new") => childHave \subseteq Declared

\* What the steps so far have established of the tables.
Evolved ==
    /\ pc = "create" => \A r \in ChildRenames :
          Live(r[1]) \in Names /\ Exists(Live(r[1])) => Exists(Live(r[2]))
    /\ pc \notin {"childrename", "create"} /\ Running =>
          \A t \in DOMAIN Current : Exists(Live(t)) \/ (pc = "swap" /\ t = at)
    /\ pc = "add" => RenamedColumns = {}
    /\ pc \in {"transform", "drop", "types"} => Lacking(Main) = {}
    /\ pc = "types" => Strays(Main) = {}
    /\ pc \in {"reap", "childadd", "stamp"} \/ (Running /\ at # Main) =>
          Exists(Live(Main)) /\ Settled(Main, Table(Live(Main)))
    /\ pc = "stamp" => Undone = {}
    /\ Rebuilding => /\ db.stamped = "old" /\ Exists(Tmp(at))
                     /\ Shape(Table(Tmp(at))) = Current[at]
    /\ Rebuilding /\ pc # "swap" => Lacking(at) = {}

-----------------------------------------------------------------------------
(* The rows. *)

OldNames == NamesOf(Old[Main])

\* Table T has the rows that table t is to have; the column that the transform
\* derives may be empty as long as its source is there.
Faithful(t, T) ==
    /\ \A c, d \in T : c.name = d.name => c = d
    /\ \A c \in T :
          \/ c.holds = Origin(t, c.name)
          \/ t = Main /\ c.name = Move[2] /\ c.holds = None /\ Move[1] \in NamesOf(T)
    /\ \A c \in Current[t] :
          Origin(t, c.name) # None => \E d \in T : d.holds = Origin(t, c.name)

\* Every declared table has its rows, or is still under its old name, or is new.
KeptIn(W) ==
    \A t \in DOMAIN Current :
        /\ W[Live(t)] # NoTable => Faithful(t, W[Live(t)])
        /\ W[Live(t)] = NoTable /\ OriginTable(t) \in DOMAIN Old =>
              /\ OriginTable(t) # t
              /\ W[Live(OriginTable(t))] # NoTable
              /\ Faithful(t, W[Live(OriginTable(t))])

\* Between the DROP TABLE and the RENAME the copy stands for the table.
View == IF pc = "swap" THEN [work.tables EXCEPT ![Live(at)] = Table(Tmp(at))]
        ELSE work.tables

\* All rows are there, the derived ones too.
Full(t, T) == \A c \in T : c.holds = Origin(t, c.name)

Rows ==
    "swap" \notin cut =>
        /\ engine = "python" => KeptIn(db.tables)
        /\ KeptIn(View)
        /\ pc \in {"drop", "types"} \/ (at = Main /\ pc \in {"copy", "droptable"}) =>
              Full(Main, Table(Live(Main)))
        /\ pc = "droptable" => Faithful(at, Table(Tmp(at)))

IInv == Types /\ Sessions /\ Order /\ Looked /\ Evolved

-----------------------------------------------------------------------------
(* Names and shapes. *)

\* The names of tables are different, and say which kind of table it is.
LEMMA NameFacts ==
    /\ DOMAIN Current \subseteq Tables /\ DOMAIN Old \subseteq Tables /\ Main \in DOMAIN Current
    /\ \A t \in Tables : /\ Live(t) \in Names /\ Tmp(t) \in Names /\ Tmp(t) \in Children
                         /\ Tmp(t) \notin Declared
                         /\ Live(t) \in Children <=> t # Main
                         /\ Live(t) \in Declared <=> t \in DOMAIN Current
    /\ \A t, u : /\ Live(t) = Live(u) <=> t = u
                 /\ Tmp(t) = Tmp(u) <=> t = u
                 /\ Live(t) # Tmp(u)
    /\ \A n \in Names : \E t \in Tables : n = Live(t) \/ n = Tmp(t)
    /\ Declared \subseteq Names /\ Children \subseteq Names
  BY ConstantsAssumption DEF Tables, Names, Children, Declared, Live, Tmp

\* A table that lacks nothing, has no stray column and no other type has the
\* declared shape.
LEMMA ShapeWhen ==
    ASSUME NEW t \in DOMAIN Current, NEW T,
           \A c \in T : c.name \in NamesOf(Current[t]),
           \A d \in Current[t] : d.name \in NamesOf(T),
           \A c \in T, d \in Current[t] : c.name = d.name => c.type = d.type
    PROVE  Shape(T) = Current[t]
  <1>1. ASSUME NEW c \in T PROVE [name |-> c.name, type |-> c.type] \in Current[t]
    <2>1. PICK d \in Current[t] : c.name = d.name
      BY DEF NamesOf
    <2>2. d = [name |-> d.name, type |-> d.type] /\ c.type = d.type
      BY <2>1, SchemaAssumption
    <2> QED BY <2>1, <2>2
  <1>2. ASSUME NEW d \in Current[t]
        PROVE  \E c \in T : d = [name |-> c.name, type |-> c.type]
    <2>1. PICK c \in T : c.name = d.name
      BY DEF NamesOf
    <2>2. d = [name |-> d.name, type |-> d.type] /\ c.type = d.type
      BY <2>1, SchemaAssumption
    <2> QED BY <2>1, <2>2
  <1> QED BY <1>1, <1>2 DEF Shape

\* ... and the other way round.
LEMMA ShapeFacts ==
    ASSUME NEW t \in DOMAIN Current, NEW T, Shape(T) = Current[t]
    PROVE  /\ NamesOf(T) = NamesOf(Current[t])
           /\ \A c \in T, d \in Current[t] : c.name = d.name => c.type = d.type
  <1>1. ASSUME NEW c \in T PROVE [name |-> c.name, type |-> c.type] \in Current[t]
    BY DEF Shape
  <1>2. ASSUME NEW d \in Current[t] PROVE \E c \in T : d.name = c.name
    BY DEF Shape
  <1>3. \A c \in T, d \in Current[t] : c.name = d.name => c.type = d.type
    BY <1>1, SchemaAssumption
  <1>4. \A c \in T : \E d \in Current[t] : d.name = c.name
    BY <1>1
  <1>5. NamesOf(T) = NamesOf(Current[t])
    BY <1>2, <1>4 DEF NamesOf
  <1> QED BY <1>3, <1>5

\* A table of the declared shape is settled, and as its plan takes it to be.
LEMMA ShapeSettled ==
    ASSUME NEW t \in DOMAIN Current, NEW T, Shape(T) = Current[t]
    PROVE  Settled(t, T) /\ Alike(t, T)
  <1>1. /\ NamesOf(T) = NamesOf(Current[t])
        /\ \A c \in T, d \in Current[t] : c.name = d.name => c.type = d.type
    BY ShapeFacts
  <1>2. \A d \in Current[t] : d.name \in NamesOf(T)
    BY <1>1 DEF NamesOf
  <1> QED BY <1>1, <1>2 DEF Settled, Alike

\* A table that the schema declares, without rows.
LEMMA FreshFacts ==
    ASSUME NEW t \in DOMAIN Current
    PROVE  /\ Fresh(t) \in SUBSET Columns /\ Shape(Fresh(t)) = Current[t]
           /\ \A c \in Fresh(t) : c.holds = None
           /\ \A c, d \in Fresh(t) : c.name = d.name => c = d
  <1>1. \A c \in Current[t] : Column(c.name, c.type, None) \in Columns
    <2>1. Current[t] \in Schemas
      BY DEF Schemas
    <2> QED BY <2>1 DEF Columns, Column, NamesOf
  <1>2. Fresh(t) \in SUBSET Columns /\ \A c \in Fresh(t) : c.holds = None
    BY <1>1 DEF Fresh, Column
  <1>3. \A c, d \in Fresh(t) : c.name = d.name => c = d
    BY SchemaAssumption DEF Fresh, Column
  <1>4. Shape(Fresh(t)) = Current[t]
    <2>1. \A c \in Fresh(t) : \E d \in Current[t] : c.name = d.name /\ c.type = d.type
      BY DEF Fresh, Column
    <2>2. ASSUME NEW d \in Current[t]
          PROVE  \E c \in Fresh(t) : c.name = d.name /\ c.type = d.type
      <3>1. Column(d.name, d.type, None) \in Fresh(t)
        BY DEF Fresh
      <3>2. /\ Column(d.name, d.type, None).name = d.name
            /\ Column(d.name, d.type, None).type = d.type
        BY DEF Column
      <3> QED BY <3>1, <3>2
    <2>3. \A c \in Fresh(t), d \in Current[t] : c.name = d.name => c.type = d.type
      BY <2>1, SchemaAssumption
    <2> QED BY <2>1, <2>2, <2>3, ShapeWhen DEF NamesOf
  <1> QED BY <1>2, <1>3, <1>4

\* What is a table is not "no table".
LEMMA TableFacts == \A T \in SUBSET Columns : T # NoTable
  BY NoneAssumption DEF NoTable

\* A migrated database has nothing left to do.
LEMMA MigratedFacts ==
    ASSUME Types, Migrated(work.tables)
    PROVE  /\ Missing = {} /\ RenamedColumns = {}
           /\ \A t \in DOMAIN Current :
                 Lacking(t) = {} /\ (Swept(t) => Strays(t) = {}) /\ ~Drifted(t)
           /\ Move[1] \notin NamesOf(Table(Live(Main)))
           /\ \A n \in Children : Exists(n) <=> n \in Declared \ {Live(Main)}
  <1>1. \A t \in DOMAIN Current : Table(Live(t)) # NoTable /\ Settled(t, Table(Live(t)))
    BY DEF Migrated, Table
  <1>2. \A t \in DOMAIN Current :
            Lacking(t) = {} /\ (Swept(t) => Strays(t) = {}) /\ ~Drifted(t)
    <2> TAKE t \in DOMAIN Current
    <2>1. Lacking(t) = {}
      BY <1>1 DEF Lacking, Settled
    <2>2. Swept(t) => Strays(t) = {}
      BY <1>1 DEF Strays, Settled, NamesOf
    <2>3. ~Drifted(t)
      BY <1>1, <2>2 DEF Drifted, Settled
    <2> QED BY <2>1, <2>2, <2>3
  <1>3. Missing = {}
    BY <1>1 DEF Missing, Exists
  <1>4. RenamedColumns = {} /\ Move[1] \notin NamesOf(Table(Live(Main)))
    <2>1. NamesOf(Table(Live(Main))) \subseteq NamesOf(Current[Main])
      BY <1>1, NameFacts DEF Settled, Swept
    <2> QED BY <2>1, RenamesAssumption, MoveAssumption DEF RenamedColumns, Retires
  <1>5. \A n \in Children : Exists(n) <=> n \in Declared \ {Live(Main)}
    <2>1. \A n \in Declared : Exists(n)
      BY <1>1 DEF Declared, Exists
    <2>2. \A n \in Names \ Declared : ~Exists(n)
      BY DEF Migrated, Exists, Table
    <2> QED BY <2>1, <2>2, NameFacts DEF Children
  <1> QED BY <1>2, <1>3, <1>4, <1>5

-----------------------------------------------------------------------------
(* What a statement changes. *)

\* A column keeps the rest when its name or its rows change.
LEMMA ColumnFacts ==
    ASSUME NEW c \in Columns
    PROVE  /\ c.holds \in Origins \cup {None}
           /\ \A r \in Renames : /\ [c EXCEPT !.name = r[2]] \in Columns
                                 /\ [c EXCEPT !.name = r[2]].name = r[2]
                                 /\ [c EXCEPT !.name = r[2]].type = c.type
                                 /\ [c EXCEPT !.name = r[2]].holds = c.holds
           /\ \A h \in Origins \cup {None} : /\ [c EXCEPT !.holds = h] \in Columns
                                             /\ [c EXCEPT !.holds = h].name = c.name
                                             /\ [c EXCEPT !.holds = h].type = c.type
                                             /\ [c EXCEPT !.holds = h].holds = h
  <1>1. \A r \in Renames : r[2] \in UNION {NamesOf(T) : T \in Schemas}
    <2>1. Current[Main] \in Schemas
      BY NameFacts DEF Schemas
    <2> QED BY <2>1, RenamesAssumption DEF Retires
  <1> QED BY <1>1 DEF Columns

\* A declared column, added without rows.
LEMMA AddedFacts ==
    ASSUME NEW t \in DOMAIN Current, NEW c \in Current[t]
    PROVE  /\ Column(c.name, c.type, None) \in Columns
           /\ Column(c.name, c.type, None).name = c.name
           /\ Column(c.name, c.type, None).type = c.type
           /\ Column(c.name, c.type, None).holds = None
  <1>1. Current[t] \in Schemas
    BY DEF Schemas
  <1> QED BY <1>1 DEF Columns, Column, NamesOf

\* What a copy reads.
LEMMA HeldFacts ==
    ASSUME NEW T \in SUBSET Columns, NEW n
    PROVE  /\ Held(T, n) \in Origins \cup {None}
           /\ \A c \in T : c.name = n /\ (\A d \in T : d.name = n => d = c) => Held(T, n) = c.holds
           /\ n \notin NamesOf(T) => Held(T, n) = None
  <1>1. CASE n \in NamesOf(T)
    <2> DEFINE d == CHOOSE c \in T : c.name = n
    <2>1. \E c \in T : c.name = n
      BY <1>1 DEF NamesOf
    <2>2. d \in T /\ d.name = n
      BY <2>1
    <2>3. Held(T, n) = d.holds
      BY <1>1 DEF Held
    <2> HIDE DEF d
    <2> QED BY <1>1, <2>2, <2>3, ColumnFacts
  <1>2. CASE n \notin NamesOf(T)
    <2>1. Held(T, n) = None
      BY <1>2 DEF Held
    <2> QED BY <1>2, <2>1 DEF NamesOf
  <1> QED BY <1>1, <1>2

\* One table is written.
LEMMA WriteFacts ==
    ASSUME Types, NEW n \in Names, NEW T \in (SUBSET Columns) \cup {NoTable}, Write(n, T)
    PROVE  /\ work' \in Databases /\ work'.stamped = work.stamped
           /\ work'.tables[n] = T
           /\ \A m \in Names : m # n => work'.tables[m] = work.tables[m]
           /\ db' = IF engine = "cpp" THEN work' ELSE db
  BY DEF Types, Databases, Write

\* One table takes the place of another.
LEMMA RenameFacts ==
    ASSUME Types, NEW n \in Names, NEW m \in Names, n # m, RenameTable(n, m)
    PROVE  /\ work' \in Databases /\ work'.stamped = work.stamped
           /\ work'.tables[n] = NoTable /\ work'.tables[m] = work.tables[n]
           /\ \A k \in Names : k # n /\ k # m => work'.tables[k] = work.tables[k]
           /\ db' = IF engine = "cpp" THEN work' ELSE db
  BY DEF Types, Databases, RenameTable, Table

\* A statement of a migration that is not stamped yet.
LEMMA StatementSessions ==
    ASSUME Types, Sessions, Running, Running', db.stamped = "old", engine' = engine,
           work' \in Databases, work'.stamped = work.stamped,
           db' = IF engine = "cpp" THEN work' ELSE db
    PROVE  db' \in Databases /\ Sessions' /\ db'.stamped = "old"
  BY DEF Types, Sessions

-----------------------------------------------------------------------------
(* The invariant, action by action. *)

\* The old database, before the first start.
LEMMA InitIInv == Init => IInv
  <1> SUFFICES ASSUME Init PROVE IInv
    OBVIOUS
  <1>1. OldTables \in [Names -> (SUBSET Columns) \cup {NoTable}]
    <2>1. ASSUME NEW t \in DOMAIN Old, NEW c \in Old[t]
          PROVE  Column(c.name, c.type, <<t, c.name>>) \in Columns
      <3>1. Old[t] \in Schemas /\ c \in UNION {Old[u] : u \in DOMAIN Old}
        BY DEF Schemas
      <3>2. <<t, c.name>> \in Origins
        BY <3>1 DEF Origins
      <3> QED BY <3>1, <3>2 DEF Column, Columns, NamesOf
    <2> QED BY <2>1 DEF OldTables
  <1>2. db = [tables |-> OldTables, stamped |-> "old"] /\ work = db
    BY DEF Init
  <1>3. db \in Databases
    BY <1>1, <1>2 DEF Databases
  <1>4. Types
    BY <1>2, <1>3, NameFacts, ConstantsAssumption DEF Init, Types, Steps
  <1>5. Sessions
    BY <1>2 DEF Sessions
  <1>6. pc = "off"
    BY DEF Init
  <1> QED BY <1>4, <1>5, <1>6 DEF IInv, Order, Looked, Evolved, Running, Rebuilding

\* A step that executes no statement sees the same tables before and after.
LEMMA SameTables ==
    ASSUME UNCHANGED <<db, work>>
    PROVE  /\ \A n : Table(n)' = Table(n) /\ (Exists(n)' <=> Exists(n))
           /\ \A t : Lacking(t)' = Lacking(t) /\ Strays(t)' = Strays(t) /\ (Drifted(t)' <=> Drifted(t))
           /\ Missing' = Missing /\ RenamedColumns' = RenamedColumns /\ Undone' = Undone
  <1>1. \A n : Table(n)' = Table(n)
    BY DEF Table
  <1>2. \A n : Exists(n)' <=> Exists(n)
    BY <1>1 DEF Exists
  <1>3. \A t : Lacking(t)' = Lacking(t)
    BY <1>1 DEF Lacking
  <1>4. \A t : Strays(t)' = Strays(t)
    BY <1>1 DEF Strays
  <1>5. \A t : Drifted(t)' <=> Drifted(t)
    BY <1>1, <1>4 DEF Drifted
  <1>6. Missing' = Missing
    BY <1>2 DEF Missing
  <1>7. RenamedColumns' = RenamedColumns
    BY <1>1 DEF RenamedColumns
  <1>8. Undone' = Undone
    BY <1>3, <1>5 DEF Undone
  <1> QED BY <1>1, <1>2, <1>3, <1>4, <1>5, <1>6, <1>7, <1>8

\* A process starts and lists the child tables.
LEMMA StartIInv == IInv /\ Start => IInv'
  <1> SUFFICES ASSUME IInv, Start PROVE IInv'
    OBVIOUS
  <1>1. /\ Types /\ Sessions /\ pc = "off" /\ pc' = "childrename" /\ at' = Main
        /\ childHave' = {n \in Children : Exists(n)} /\ UNCHANGED <<engine, db, work, cut, cuts>>
    BY DEF IInv, Start
  <1>2. Types'
    BY <1>1, NameFacts DEF Types, Steps
  <1>3. work = db /\ ~Running /\ Running' /\ ~Rebuilding'
    BY <1>1 DEF Sessions, Running, Rebuilding
  <1>4. Sessions'
    BY <1>1, <1>3 DEF Sessions
  <1>5. \A n : Exists(n)' <=> Exists(n)
    BY <1>1, SameTables
  <1>6. db.stamped = "new" => childHave' \subseteq Declared
    BY <1>1, <1>3, MigratedFacts DEF Sessions
  <1>7. childHave' = {n \in Children : Exists(n)'}
    BY <1>1, <1>5
  <1>8. Looked'
    BY <1>1, <1>6, <1>7 DEF Looked
  <1>9. Order' /\ Evolved'
    BY <1>1, <1>3 DEF Order, Evolved, Running
  <1> QED BY <1>2, <1>4, <1>8, <1>9 DEF IInv

\* The steps between two loops: what the loop that ended was for is established.
LEMMA SkipIInv ==
    ASSUME IInv, \/ ChildrenRenamed \/ TablesCreated \/ ColumnsRenamed \/ ColumnsAdded
                 \/ ColumnsDropped \/ NoRebuild \/ Restart
    PROVE  IInv'
  <1>1. Types /\ Sessions /\ Order /\ Looked /\ Evolved
    BY DEF IInv
  <1>2. UNCHANGED <<engine, at, childHave, cut, cuts, db, work>>
    BY DEF ChildrenRenamed, TablesCreated, ColumnsRenamed, ColumnsAdded, ColumnsDropped,
           NoRebuild, Restart, Skip, Goto
  <1>3. \/ pc = "childrename" /\ pc' = "create" /\ RenamedChildren = {}
        \/ pc = "create" /\ pc' = "rename" /\ Missing = {}
        \/ pc = "rename" /\ pc' = "add" /\ RenamedColumns = {}
        \/ pc = "add" /\ pc' = "transform" /\ Lacking(Main) = {}
        \/ pc = "drop" /\ pc' = "types" /\ Strays(Main) = {}
        \/ pc = "types" /\ pc' = "reap" /\ ~Drifted(Main)
        \/ pc \in {"done", "failed"} /\ pc' = "off"
    BY DEF ChildrenRenamed, TablesCreated, ColumnsRenamed, ColumnsAdded, ColumnsDropped,
           NoRebuild, Restart, Skip, Goto
  <1>4. Types'
    BY <1>1, <1>2, <1>3 DEF Types, Steps
  <1>5. Sessions' /\ ~Rebuilding /\ ~Rebuilding' /\ (Running' <=> Running)
    BY <1>1, <1>2, <1>3 DEF Sessions, Running, Rebuilding
  <1>6. Order'
    BY <1>1, <1>2, <1>3 DEF Order
  <1>7. \A n : Exists(n)' <=> Exists(n)
    BY <1>2, SameTables
  <1>8. Looked'
    <2>1. pc' # "childrename" /\ pc' # "stamp"
      BY <1>3
    <2> QED BY <1>1, <1>2, <1>5, <1>7, <2>1 DEF Looked
  <1>9. ASSUME pc' = "create", NEW r \in ChildRenames, Live(r[1]) \in Names, Exists(Live(r[1]))
        PROVE  Exists(Live(r[2]))
    <2>1. childHave = {n \in Children : Exists(n)} /\ RenamedChildren = {}
      BY <1>1, <1>3, <1>9 DEF Looked
    <2>2. r[1] # Main /\ Live(r[1]) \in Children
      BY <1>9, RenamesAssumption, NameFacts DEF Children
    <2> QED BY <1>9, <2>1, <2>2 DEF RenamedChildren
  <1>10. ASSUME pc' \notin {"childrename", "create"}, Running', NEW t \in DOMAIN Current
         PROVE  Exists(Live(t))
    <2>1. CASE pc = "create"
      BY <1>3, <2>1 DEF Missing
    <2>2. CASE pc # "create"
      <3>1. pc \notin {"childrename", "create", "swap"} /\ Running
        BY <1>3, <1>5, <1>10, <2>2
      <3> QED BY <1>1, <3>1 DEF Evolved
    <2> QED BY <2>1, <2>2
  <1>11. ASSUME pc' = "reap" PROVE Settled(Main, Table(Live(Main)))
    <2>1. pc = "types" /\ ~Drifted(Main) /\ Lacking(Main) = {} /\ Strays(Main) = {}
      BY <1>1, <1>3, <1>11 DEF Evolved
    <2>2. NamesOf(Table(Live(Main))) \subseteq NamesOf(Current[Main])
      BY <2>1 DEF Strays, NamesOf
    <2>3. \A d \in Current[Main] : d.name \in Addable(Main) => d.name \in NamesOf(Table(Live(Main)))
      BY <2>1 DEF Lacking
    <2>4. \A c \in Table(Live(Main)), d \in Current[Main] :
              c.name = d.name /\ c.name \in Compared(Main) => c.type = d.type
      BY <2>1 DEF Drifted
    <2> QED BY <2>2, <2>3, <2>4 DEF Settled
  <1>12. Evolved'
    <2>1. \A r \in ChildRenames : pc' = "create" /\ Live(r[1]) \in Names /\ Exists(Live(r[1]))'
                                     => Exists(Live(r[2]))'
      BY <1>7, <1>9
    <2>2. pc' \notin {"childrename", "create"} /\ Running' => \A t \in DOMAIN Current : Exists(Live(t))'
      BY <1>7, <1>10
    <2>3. pc' = "add" => RenamedColumns' = {}
      BY <1>2, <1>3, SameTables
    <2>4. pc' \in {"transform", "drop", "types"} => Lacking(Main) = {}
      BY <1>1, <1>3 DEF Evolved
    <2>5. pc' = "types" => Strays(Main) = {}
      BY <1>3
    <2>6. Lacking(Main)' = Lacking(Main) /\ Strays(Main)' = Strays(Main)
      BY <1>2, SameTables
    <2>7. pc' \in {"reap", "childadd", "stamp"} \/ (Running' /\ at' # Main) => pc' = "reap"
      BY <1>3, <1>6 DEF Order, Running
    <2>8. pc' = "reap" => Exists(Live(Main))' /\ Settled(Main, Table(Live(Main)))'
      <3>1. Settled(Main, Table(Live(Main)))' <=> Settled(Main, Table(Live(Main)))
        BY <1>2 DEF Settled, Table
      <3> QED BY <1>11, <2>2, <3>1, NameFacts DEF Running
    <2>9. pc' # "stamp"
      BY <1>3
    <2> QED BY <1>5, <2>1, <2>2, <2>3, <2>4, <2>5, <2>6, <2>7, <2>8, <2>9 DEF Evolved
  <1> QED BY <1>4, <1>5, <1>6, <1>8, <1>12 DEF IInv

\* The next child table to evolve, or none.
LEMMA NextChildIInv == IInv /\ NextChild => IInv'
  <1> SUFFICES ASSUME IInv, NextChild PROVE IInv'
    OBVIOUS
  <1>1. Types /\ Sessions /\ Order /\ Looked /\ Evolved
    BY DEF IInv
  <1>2. UNCHANGED <<engine, childHave, cut, cuts, db, work>> /\ pc \in {"reap", "childadd"}
    BY DEF NextChild, Skip, Goto
  <1>3. \/ pc' = "stamp" /\ Undone = {} /\ at' = at
        \/ pc' = "childadd" /\ at' \in Undone
    BY DEF NextChild, Skip, Goto
  <1>4. at' \in DOMAIN Current /\ (pc' = "childadd" => at' # Main)
    BY <1>1, <1>3 DEF Types, Undone
  <1>5. Types' /\ Order'
    BY <1>1, <1>2, <1>3, <1>4 DEF Types, Steps, Order
  <1>6. Running /\ Running' /\ ~Rebuilding /\ ~Rebuilding'
    BY <1>2, <1>3 DEF Running, Rebuilding
  <1>7. Sessions'
    BY <1>1, <1>2, <1>6 DEF Sessions
  <1>8. childHave \subseteq Declared
    <2>1. CASE pc = "reap"
      BY <2>1 DEF NextChild, Orphans, Declared
    <2>2. CASE pc = "childadd"
      BY <1>1, <1>6, <2>2 DEF Looked, Order
    <2> QED BY <1>2, <2>1, <2>2
  <1>9. \A n : Exists(n)' <=> Exists(n)
    BY <1>2, SameTables
  <1>10. Looked'
    <2>1. pc' # "childrename"
      BY <1>3
    <2>2. \A n \in Children : Exists(n) => n \in childHave \/ n \in Declared
      BY <1>1, <1>6 DEF Looked
    <2> QED BY <1>2, <1>8, <1>9, <2>1, <2>2 DEF Looked
  <1>11. Evolved'
    <2>1. \A t \in DOMAIN Current : Exists(Live(t))'
      BY <1>1, <1>2, <1>6, <1>9 DEF Evolved
    <2>2. Settled(Main, Table(Live(Main)))'
      <3>1. Settled(Main, Table(Live(Main)))' <=> Settled(Main, Table(Live(Main)))
        BY <1>2 DEF Settled, Table
      <3> QED BY <1>1, <1>2, <3>1 DEF Evolved
    <2>3. pc' = "stamp" => Undone' = {}
      BY <1>2, <1>3, SameTables
    <2>4. pc' \notin {"create", "add", "transform", "drop", "types"}
      BY <1>3
    <2> QED BY <1>6, <2>1, <2>2, <2>3, <2>4, NameFacts DEF Evolved
  <1> QED BY <1>5, <1>7, <1>10, <1>11 DEF IInv

\* A child table takes its new name.
LEMMA RenameChildIInv == IInv /\ RenameChild => IInv' /\ db.stamped = "old"
  <1> SUFFICES ASSUME IInv, RenameChild PROVE IInv' /\ db.stamped = "old"
    OBVIOUS
  <1>1. Types /\ Sessions /\ Order /\ Looked /\ pc = "childrename" /\ pc' = pc
        /\ UNCHANGED <<engine, at, cut, cuts>>
    BY DEF IInv, RenameChild
  <1>2. PICK r \in RenamedChildren :
            /\ RenameTable(Live(r[1]), Live(r[2]))
            /\ childHave' = (childHave \ {Live(r[1])}) \cup {Live(r[2])}
    BY DEF RenameChild
  <1>3. r \in ChildRenames /\ Live(r[1]) \in childHave /\ Live(r[2]) \notin childHave
    BY DEF RenamedChildren
  <1>4. r[2] \in DOMAIN Current \ {Main} /\ r[1] # r[2]
    BY <1>3, RenamesAssumption DEF Retires
  <1>5. /\ childHave = {n \in Children : Exists(n)} /\ Running /\ Running' /\ ~Rebuilding'
        /\ Live(r[1]) \in Children /\ Live(r[2]) \in Children
        /\ Live(r[1]) \in Names /\ Live(r[2]) \in Names /\ Live(r[1]) # Live(r[2])
    BY <1>1, <1>3, <1>4, NameFacts DEF Looked, Running, Rebuilding
  <1>6. db.stamped = "old"
    <2> SUFFICES ASSUME db.stamped = "new" PROVE FALSE
      BY <1>1 DEF Types, Databases
    <2>1. Migrated(work.tables)
      BY <1>1 DEF Sessions
    <2> QED BY <1>1, <1>3, <1>4, <1>5, <2>1, MigratedFacts, NameFacts
  <1>7. /\ work' \in Databases /\ work'.stamped = work.stamped
        /\ work'.tables[Live(r[1])] = NoTable /\ work'.tables[Live(r[2])] = work.tables[Live(r[1])]
        /\ \A k \in Names : k # Live(r[1]) /\ k # Live(r[2]) => work'.tables[k] = work.tables[k]
        /\ db' = IF engine = "cpp" THEN work' ELSE db
    BY <1>1, <1>2, <1>5, RenameFacts
  <1>8. db' \in Databases /\ Sessions' /\ db'.stamped = "old"
    BY <1>1, <1>5, <1>6, <1>7, StatementSessions
  <1>9. childHave' = {n \in Children : Exists(n)'}
    <2>1. \A n \in Children : Exists(n)' <=> n \in childHave'
      <3> TAKE n \in Children
      <3>1. n \in Names
        BY NameFacts
      <3>2. CASE n = Live(r[1])
        BY <1>2, <1>5, <1>7, <3>2 DEF Exists, Table
      <3>3. CASE n = Live(r[2])
        BY <1>2, <1>3, <1>5, <1>7, <3>3 DEF Exists, Table
      <3>4. CASE n # Live(r[1]) /\ n # Live(r[2])
        BY <1>2, <1>5, <1>7, <3>1, <3>4 DEF Exists, Table
      <3> QED BY <3>2, <3>3, <3>4
    <2> QED BY <1>2, <1>5, <2>1
  <1>10. at' = Main /\ Order'
    BY <1>1 DEF Order
  <1>11. Looked'
    BY <1>1, <1>8, <1>9, <1>10 DEF Looked
  <1>12. Evolved'
    BY <1>1, <1>5, <1>10 DEF Evolved
  <1>13. Types'
    BY <1>1, <1>7, <1>8, <1>9 DEF Types
  <1> QED BY <1>6, <1>8, <1>10, <1>11, <1>12, <1>13 DEF IInv

\* An empty table is made for what the schema declares and nobody has.
LEMMA CreateTableIInv == IInv /\ CreateTable => IInv' /\ db.stamped = "old"
  <1> SUFFICES ASSUME IInv, CreateTable PROVE IInv' /\ db.stamped = "old"
    OBVIOUS
  <1>1. Types /\ Sessions /\ Order /\ Looked /\ Evolved /\ pc = "create" /\ pc' = pc
        /\ UNCHANGED <<engine, at, childHave, cut, cuts>>
    BY DEF IInv, CreateTable, Stay
  <1>2. PICK t \in Missing : Write(Live(t), Fresh(t))
    BY DEF CreateTable
  <1>3. t \in DOMAIN Current /\ ~Exists(Live(t)) /\ Live(t) \in Names /\ Live(t) \in Declared
    BY NameFacts DEF Missing
  <1>4. Running /\ Running' /\ ~Rebuilding' /\ ~Rebuilding
    BY <1>1 DEF Running, Rebuilding
  <1>5. db.stamped = "old"
    BY <1>1, <1>2, MigratedFacts DEF Sessions, Types, Databases
  <1>6. /\ work' \in Databases /\ work'.stamped = work.stamped
        /\ work'.tables[Live(t)] = Fresh(t)
        /\ \A m \in Names : m # Live(t) => work'.tables[m] = work.tables[m]
        /\ db' = IF engine = "cpp" THEN work' ELSE db
    BY <1>1, <1>2, <1>3, WriteFacts, FreshFacts
  <1>7. db' \in Databases /\ Sessions' /\ db'.stamped = "old"
    BY <1>1, <1>4, <1>5, <1>6, StatementSessions
  <1>8. \A n \in Names : Exists(n)' <=> Exists(n) \/ n = Live(t)
    BY <1>3, <1>6, FreshFacts, TableFacts DEF Exists, Table
  <1>9. Types' /\ Order'
    BY <1>1, <1>6, <1>7 DEF Types, Order
  <1>10. Looked'
    <2>1. \A n \in Children : Exists(n)' => n \in childHave \/ n \in Declared
      BY <1>1, <1>3, <1>4, <1>8, NameFacts DEF Looked
    <2> QED BY <1>1, <1>7, <1>9, <2>1 DEF Looked, Order
  <1>11. Evolved'
    <2>1. ASSUME NEW r \in ChildRenames, Live(r[1]) \in Names, Exists(Live(r[1]))'
          PROVE  Exists(Live(r[2]))'
      <3>1. r[1] # t /\ r[2] \in DOMAIN Current
        BY <1>3, RenamesAssumption DEF Retires
      <3>2. Exists(Live(r[1])) /\ Live(r[2]) \in Names
        BY <1>8, <2>1, <3>1, NameFacts
      <3> QED BY <1>1, <1>8, <2>1, <3>2 DEF Evolved
    <2> QED BY <1>1, <1>4, <1>9, <2>1 DEF Evolved, Order
  <1> QED BY <1>5, <1>7, <1>9, <1>10, <1>11 DEF IInv

\* A statement on the columns of the table that is evolved.
LEMMA LiveWriteIInv ==
    ASSUME IInv, db.stamped = "old", NEW T \in SUBSET Columns, Write(Live(at), T),
           UNCHANGED <<engine, at, childHave, cut, cuts>>,
           pc \in {"rename", "add", "transform", "drop", "childadd"},
           pc' = pc \/ (pc = "transform" /\ pc' = "drop"),
           pc' = "add" => RenamedColumns' = {},
           pc' \in {"transform", "drop"} => Lacking(Main)' = {}
    PROVE  IInv'
  <1>1. Types /\ Sessions /\ Order /\ Looked /\ Evolved
    BY DEF IInv
  <1>2. at \in DOMAIN Current /\ Live(at) \in Names /\ Live(at) \in Declared
    BY <1>1, NameFacts DEF Types
  <1>3. Running /\ Running' /\ ~Rebuilding' /\ ~Rebuilding
        /\ pc' \in {"rename", "add", "transform", "drop", "childadd"}
    BY DEF Running, Rebuilding
  <1>4. /\ work' \in Databases /\ work'.stamped = work.stamped
        /\ work'.tables[Live(at)] = T
        /\ \A m \in Names : m # Live(at) => work'.tables[m] = work.tables[m]
        /\ db' = IF engine = "cpp" THEN work' ELSE db
    BY <1>1, <1>2, WriteFacts
  <1>5. db' \in Databases /\ Sessions' /\ db'.stamped = "old"
    BY <1>1, <1>3, <1>4, StatementSessions
  <1>6. \A n \in Names : Exists(n)' <=> Exists(n) \/ n = Live(at)
    BY <1>2, <1>4, TableFacts DEF Exists, Table
  <1>7. Types' /\ Order'
    BY <1>1, <1>3, <1>4, <1>5 DEF Types, Order, Steps
  <1>8. Looked'
    <2>1. \A n \in Children : Exists(n)' => n \in childHave \/ n \in Declared
      BY <1>1, <1>2, <1>3, <1>6, NameFacts DEF Looked
    <2>2. at # Main => childHave \subseteq Declared
      BY <1>1, <1>3 DEF Looked
    <2> QED BY <1>3, <1>5, <2>1, <2>2 DEF Looked
  <1>9. Evolved'
    <2>1. \A t \in DOMAIN Current : Exists(Live(t))'
      BY <1>1, <1>3, <1>6, NameFacts DEF Evolved
    <2>2. pc' = "childadd" \/ at # Main => Settled(Main, Table(Live(Main)))'
      <3> SUFFICES ASSUME pc' = "childadd" \/ at # Main
                   PROVE  Settled(Main, Table(Live(Main)))'
        OBVIOUS
      <3>1. at # Main /\ pc = "childadd"
        BY <1>1 DEF Order
      <3>2. Table(Live(Main))' = Table(Live(Main))
        BY <1>4, <3>1, NameFacts DEF Table
      <3>3. Settled(Main, Table(Live(Main)))' <=> Settled(Main, Table(Live(Main)))
        BY <3>2 DEF Settled
      <3> QED BY <1>1, <3>1, <3>3 DEF Evolved
    <2> QED BY <1>3, <2>1, <2>2, NameFacts DEF Evolved
  <1> QED BY <1>5, <1>7, <1>8, <1>9 DEF IInv

\* After the renames, every declared table is there, but for a rebuild's swap.
LEMMA LiveTable ==
    ASSUME IInv, Running, pc \notin {"childrename", "create"}, NEW t \in DOMAIN Current,
           pc # "swap" \/ t # at
    PROVE  Table(Live(t)) \in SUBSET Columns
  <1>1. Exists(Live(t)) /\ Live(t) \in Names /\ Types
    BY NameFacts DEF IInv, Evolved
  <1> QED BY <1>1 DEF Exists, Table, Types, Databases

\* A database that is stamped has nothing to rename, add, drop or rebuild.
LEMMA Unstamped ==
    ASSUME IInv,
           \/ RenamedColumns # {} \/ Strays(Main) # {}
           \/ \E t \in DOMAIN Current : Lacking(t) # {} \/ Drifted(t)
    PROVE  db.stamped = "old"
  <1>1. db.stamped = "new" => Migrated(work.tables)
    BY DEF IInv, Sessions
  <1>2. Types /\ db.stamped \in {"old", "new"}
    BY DEF IInv, Types, Databases
  <1> QED BY <1>1, <1>2, MigratedFacts, NameFacts DEF Swept

\* The columns T with one of them renamed; with the derived one filled in; copied
\* into the columns S.
Renamed(T, r) == {IF c.name = r[1] THEN [c EXCEPT !.name = r[2]] ELSE c : c \in T}
Filled(T) == {IF c.name = Move[2] /\ c.holds = None
              THEN [c EXCEPT !.holds = Held(T, Move[1])] ELSE c : c \in T}
Copied(T, S) == {[c EXCEPT !.holds = Held(T, c.name)] : c \in S}

\* The columns of each of these come one by one from those before.
LEMMA RenamedFacts ==
    ASSUME NEW T \in SUBSET Columns, NEW r \in Renames
    PROVE  /\ Renamed(T, r) \in SUBSET Columns
           /\ \A x \in Renamed(T, r) : \E c \in T :
                 /\ x.holds = c.holds
                 /\ c.name = r[1] => x.name = r[2]
                 /\ c.name # r[1] => x = c
           /\ \A c \in T : \E x \in Renamed(T, r) :
                 /\ x.holds = c.holds
                 /\ c.name = r[1] => x.name = r[2]
                 /\ c.name # r[1] => x = c
  <1> DEFINE R(c) == IF c.name = r[1] THEN [c EXCEPT !.name = r[2]] ELSE c
  <1>1. \A c \in T : /\ R(c) \in Columns /\ R(c).holds = c.holds
                     /\ c.name = r[1] => R(c).name = r[2]
                     /\ c.name # r[1] => R(c) = c
    BY ColumnFacts
  <1>2. Renamed(T, r) = {R(c) : c \in T}
    BY DEF Renamed
  <1> HIDE DEF R
  <1> QED BY <1>1, <1>2

LEMMA FilledFacts ==
    ASSUME NEW T \in SUBSET Columns
    PROVE  /\ Filled(T) \in SUBSET Columns
           /\ \A x \in Filled(T) : \E c \in T :
                 /\ x.name = c.name /\ x.type = c.type
                 /\ c.name = Move[2] /\ c.holds = None => x.holds = Held(T, Move[1])
                 /\ ~(c.name = Move[2] /\ c.holds = None) => x = c
           /\ \A c \in T : \E x \in Filled(T) :
                 /\ x.name = c.name /\ x.type = c.type
                 /\ c.name = Move[2] /\ c.holds = None => x.holds = Held(T, Move[1])
                 /\ ~(c.name = Move[2] /\ c.holds = None) => x = c
           /\ NamesOf(Filled(T)) = NamesOf(T)
           /\ Move[1] \notin NamesOf(T) => Filled(T) = T
  <1> DEFINE h == Held(T, Move[1])
             F(c) == IF c.name = Move[2] /\ c.holds = None THEN [c EXCEPT !.holds = h] ELSE c
  <1>1. h \in Origins \cup {None} /\ (Move[1] \notin NamesOf(T) => h = None)
    BY HeldFacts
  <1>2. Filled(T) = {F(c) : c \in T}
    BY DEF Filled
  <1> HIDE DEF h
  <1>3. \A c \in T : /\ F(c) \in Columns /\ F(c).name = c.name /\ F(c).type = c.type
                     /\ c.name = Move[2] /\ c.holds = None => F(c).holds = h
                     /\ ~(c.name = Move[2] /\ c.holds = None) => F(c) = c
    BY <1>1, ColumnFacts
  <1>5. ASSUME h = None, NEW c \in T PROVE F(c) = c
    <2>1. c.holds = None => [c EXCEPT !.holds = None] = c
      BY DEF Columns
    <2> QED BY <1>5, <2>1
  <1> HIDE DEF F
  <1>4. NamesOf(Filled(T)) = NamesOf(T)
    BY <1>2, <1>3 DEF NamesOf
  <1>6. Move[1] \notin NamesOf(T) => Filled(T) = T
    BY <1>1, <1>2, <1>5
  <1> QED BY <1>2, <1>3, <1>4, <1>6 DEF h

LEMMA CopiedFacts ==
    ASSUME NEW T \in SUBSET Columns, NEW S \in SUBSET Columns
    PROVE  /\ Copied(T, S) \in SUBSET Columns
           /\ Shape(Copied(T, S)) = Shape(S)
           /\ \A x \in Copied(T, S) : \E c \in S : x = [c EXCEPT !.holds = Held(T, c.name)]
           /\ \A x \in Copied(T, S) : x.holds = Held(T, x.name)
  <1> DEFINE F(c) == [c EXCEPT !.holds = Held(T, c.name)]
  <1>1. \A c \in S : /\ F(c) \in Columns /\ F(c).name = c.name /\ F(c).type = c.type
                     /\ F(c).holds = Held(T, c.name)
    <2> SUFFICES ASSUME NEW c \in S
                 PROVE  /\ F(c) \in Columns /\ F(c).name = c.name /\ F(c).type = c.type
                        /\ F(c).holds = Held(T, c.name)
      OBVIOUS
    <2> DEFINE h == Held(T, c.name)
    <2>1. h \in Origins \cup {None}
      BY HeldFacts
    <2>2. c \in Columns
      OBVIOUS
    <2> HIDE DEF h
    <2>3. LET d == [c EXCEPT !.holds = h]
          IN  d \in Columns /\ d.name = c.name /\ d.type = c.type /\ d.holds = h
      BY <2>1, <2>2, ColumnFacts
    <2> QED BY <2>3 DEF h
  <1>2. Copied(T, S) = {F(c) : c \in S}
    BY DEF Copied
  <1>5. \A x \in Copied(T, S) : \E c \in S : x = [c EXCEPT !.holds = Held(T, c.name)]
    BY DEF Copied
  <1> HIDE DEF F
  <1>3. Shape(Copied(T, S)) = Shape(S)
    BY <1>1, <1>2 DEF Shape
  <1>4. \A x \in Copied(T, S) : x.holds = Held(T, x.name)
    BY <1>1, <1>2
  <1> QED BY <1>1, <1>2, <1>3, <1>4, <1>5

\* A column takes its new name.
LEMMA RenameColumnIInv == IInv /\ RenameColumn => IInv' /\ db.stamped = "old"
  <1> SUFFICES ASSUME IInv, RenameColumn PROVE IInv' /\ db.stamped = "old"
    OBVIOUS
  <1>1. pc = "rename" /\ pc' = pc /\ UNCHANGED <<engine, at, childHave, cut, cuts>> /\ Running
        /\ at = Main /\ Types
    BY DEF RenameColumn, Stay, Running, IInv, Order
  <1>2. PICK r \in RenamedColumns : Write(Live(Main), Renamed(Table(Live(Main)), r))
    BY DEF RenameColumn, Renamed
  <1>3. Table(Live(Main)) \in SUBSET Columns /\ r \in Renames
    BY <1>1, LiveTable, NameFacts DEF RenamedColumns
  <1>4. db.stamped = "old"
    BY <1>2, Unstamped
  <1>5. Renamed(Table(Live(Main)), r) \in SUBSET Columns
    BY <1>3, RenamedFacts
  <1> QED BY <1>1, <1>2, <1>4, <1>5, LiveWriteIInv

\* A column that is lacking is added.
LEMMA AddColumnIInv == IInv /\ AddColumn => IInv' /\ db.stamped = "old"
  <1> SUFFICES ASSUME IInv, AddColumn PROVE IInv' /\ db.stamped = "old"
    OBVIOUS
  <1>1. pc \in {"add", "childadd"} /\ pc' = pc /\ UNCHANGED <<engine, at, childHave, cut, cuts>>
        /\ Running /\ at \in DOMAIN Current /\ Types
    BY DEF AddColumn, Stay, Running, IInv, Types
  <1>2. PICK c \in Lacking(at) :
            Write(Live(at), Table(Live(at)) \cup {Column(c.name, c.type, None)})
    BY DEF AddColumn
  <1> DEFINE x == Column(c.name, c.type, None)
             T == Table(Live(at)) \cup {x}
  <1>3. Table(Live(at)) \in SUBSET Columns /\ c \in Current[at]
    BY <1>1, LiveTable DEF Lacking
  <1>4. db.stamped = "old"
    BY <1>1, <1>2, Unstamped
  <1>5. T \in SUBSET Columns /\ x.name = c.name
    BY <1>1, <1>3, AddedFacts
  <1>6. pc = "add" => RenamedColumns' = {}
    <2> SUFFICES ASSUME pc = "add", NEW r \in RenamedColumns' PROVE FALSE
      OBVIOUS
    <2>1. at = Main /\ Live(Main) \in Names /\ RenamedColumns = {}
      BY NameFacts DEF IInv, Order, Evolved
    <2>2. Table(Live(Main))' = T
      BY <1>1, <1>2, <1>5, <2>1, WriteFacts DEF Table
    <2>3. r \in Renames /\ r[1] \in NamesOf(T) /\ r[2] \notin NamesOf(T)
      BY <2>2 DEF RenamedColumns
    <2>4. NamesOf(T) = NamesOf(Table(Live(Main))) \cup {c.name}
      BY <1>5, <2>1 DEF NamesOf
    <2>5. r[1] # c.name
      BY <1>3, <2>1, <2>3, RenamesAssumption DEF Retires, NamesOf
    <2> QED BY <2>1, <2>3, <2>4, <2>5 DEF RenamedColumns
  <1> HIDE DEF T, x
  <1>7. Write(Live(at), T)
    BY <1>2 DEF T, x
  <1> QED BY <1>1, <1>4, <1>5, <1>6, <1>7, LiveWriteIInv

\* The caller's transform.
LEMMA TransformIInv == IInv /\ Transform => IInv' /\ (db.stamped = "new" => UNCHANGED <<db, work>>)
  <1> SUFFICES ASSUME IInv, Transform
               PROVE  IInv' /\ (db.stamped = "new" => UNCHANGED <<db, work>>)
    OBVIOUS
  <1> DEFINE T == Table(Live(Main))
  <1>1. pc = "transform" /\ pc' = "drop" /\ UNCHANGED <<engine, at, childHave, cut, cuts>>
        /\ Running /\ Running' /\ at = Main /\ Types /\ Lacking(Main) = {} /\ ~Rebuilding /\ ~Rebuilding'
    BY DEF Transform, Goto, Running, IInv, Order, Evolved, Rebuilding
  <1>2. T \in SUBSET Columns /\ Live(Main) \in Names
    BY <1>1, LiveTable, NameFacts
  <1>3. Write(Live(Main), Filled(T))
    BY DEF Transform, Filled
  <1>4. Filled(T) \in SUBSET Columns /\ NamesOf(Filled(T)) = NamesOf(T)
    BY <1>2, FilledFacts
  <1>5. Table(Live(Main))' = Filled(T)
    BY <1>1, <1>2, <1>3, <1>4, WriteFacts DEF Table
  <1>6. Lacking(Main)' = {}
    BY <1>1, <1>4, <1>5 DEF Lacking
  <1>7. CASE db.stamped = "old"
    <2> HIDE DEF T
    <2> QED BY <1>1, <1>3, <1>4, <1>6, <1>7, LiveWriteIInv
  <1>8. CASE db.stamped = "new"
    <2>1. work = db /\ Migrated(work.tables)
      BY <1>8 DEF IInv, Sessions
    <2>2. Filled(T) = T
      BY <1>1, <1>2, <2>1, MigratedFacts, FilledFacts
    <2>3. work' = work
      BY <1>1, <1>2, <1>3, <2>2 DEF Write, Table, Types, Databases
    <2>4. UNCHANGED <<db, work>>
      BY <1>3, <2>1, <2>3 DEF Write
    <2>5. Types' /\ Order' /\ Sessions'
      BY <1>1, <2>4 DEF IInv, Types, Order, Sessions, Steps
    <2>6. \A n : Exists(n)' <=> Exists(n)
      BY <2>4, SameTables
    <2>7. Looked'
      BY <1>1, <2>4, <2>6 DEF IInv, Looked
    <2>8. Evolved'
      <3>1. \A t \in DOMAIN Current : Exists(Live(t))'
        BY <1>1, <2>6 DEF IInv, Evolved
      <3> QED BY <1>1, <1>6, <3>1 DEF Evolved
    <2> QED BY <2>4, <2>5, <2>7, <2>8 DEF IInv
  <1> QED BY <1>1, <1>7, <1>8 DEF Types, Databases

\* A column that the schema does not declare is dropped.
LEMMA DropColumnIInv == IInv /\ DropColumn => IInv' /\ db.stamped = "old"
  <1> SUFFICES ASSUME IInv, DropColumn PROVE IInv' /\ db.stamped = "old"
    OBVIOUS
  <1> DEFINE T == Table(Live(Main))
  <1>1. pc = "drop" /\ pc' = pc /\ UNCHANGED <<engine, at, childHave, cut, cuts>> /\ Running
        /\ at = Main /\ Types /\ Lacking(Main) = {}
    BY DEF DropColumn, Stay, Running, IInv, Order, Evolved
  <1>2. PICK c \in Strays(Main) : Write(Live(Main), T \ {c})
    BY DEF DropColumn
  <1>3. T \in SUBSET Columns /\ Live(Main) \in Names
    BY <1>1, LiveTable, NameFacts
  <1>4. db.stamped = "old"
    BY <1>2, Unstamped, NameFacts
  <1>5. T \ {c} \in SUBSET Columns
    BY <1>3
  <1>6. Table(Live(Main))' = T \ {c}
    BY <1>1, <1>2, <1>3, <1>5, WriteFacts DEF Table
  <1>7. \A d \in Current[Main] : d.name \in Addable(Main) => d.name \in NamesOf(T \ {c})
    <2> TAKE d \in Current[Main]
    <2> HAVE d.name \in Addable(Main)
    <2>1. PICK e \in T : e.name = d.name
      BY <1>1 DEF Lacking, NamesOf
    <2>2. e # c
      BY <1>2, <2>1 DEF Strays, NamesOf
    <2> QED BY <2>1, <2>2 DEF NamesOf
  <1>8. Lacking(Main)' = {}
    BY <1>6, <1>7 DEF Lacking
  <1> HIDE DEF T
  <1> QED BY <1>1, <1>2, <1>4, <1>5, <1>8, LiveWriteIInv

\* The rebuild's table is made; it must not be there yet.
LEMMA MakeTmpIInv == IInv /\ MakeTmp => IInv' /\ db.stamped = "old"
  <1> SUFFICES ASSUME IInv, MakeTmp PROVE IInv' /\ db.stamped = "old"
    OBVIOUS
  <1>1. /\ Types /\ Sessions /\ Order /\ Looked /\ Evolved /\ Drifted(at)
        /\ pc = "types" \/ (pc = "childadd" /\ Lacking(at) = {})
        /\ UNCHANGED <<engine, at, childHave, cut, cuts>>
    BY DEF IInv, MakeTmp, EvolveNow, Goto
  <1>2. at \in DOMAIN Current /\ Running /\ ~Rebuilding /\ Tmp(at) \in Names /\ Tmp(at) \in Children
        /\ Tmp(at) \notin Declared /\ Lacking(at) = {}
    BY <1>1, NameFacts DEF Types, Running, Rebuilding, Order, Evolved
  <1>3. db.stamped = "old"
    BY <1>1, <1>2, Unstamped
  <1>4. CASE Exists(Tmp(at))
    <2>1. pc' = "failed" /\ work' = db /\ db' = db /\ ~Running' /\ ~Rebuilding'
      BY <1>4 DEF MakeTmp, Goto, Running, Rebuilding
    <2>2. Types' /\ Sessions' /\ Order'
      BY <1>1, <1>3, <2>1 DEF Types, Sessions, Order, Steps
    <2>3. Looked' /\ Evolved'
      BY <2>1 DEF Looked, Evolved
    <2> QED BY <1>3, <2>2, <2>3 DEF IInv
  <1>5. CASE ~Exists(Tmp(at))
    <2>1. pc' = "copy" /\ Write(Tmp(at), Fresh(at)) /\ Running' /\ Rebuilding'
      BY <1>5 DEF MakeTmp, Goto, Running, Rebuilding
    <2>2. /\ work' \in Databases /\ work'.stamped = work.stamped
          /\ work'.tables[Tmp(at)] = Fresh(at)
          /\ \A m \in Names : m # Tmp(at) => work'.tables[m] = work.tables[m]
          /\ db' = IF engine = "cpp" THEN work' ELSE db
      BY <1>1, <1>2, <2>1, WriteFacts, FreshFacts
    <2>3. db' \in Databases /\ Sessions' /\ db'.stamped = "old"
      BY <1>1, <1>2, <1>3, <2>1, <2>2, StatementSessions
    <2>4. \A n \in Names : Exists(n)' <=> Exists(n) \/ n = Tmp(at)
      BY <1>2, <2>2, FreshFacts, TableFacts DEF Exists, Table
    <2>5. Types' /\ Order'
      BY <1>1, <2>1, <2>2, <2>3 DEF Types, Order, Steps
    <2>6. Looked'
      <3>1. \A n \in Children : Exists(n)' => n \in childHave \/ n \in Declared \/ n = Tmp(at)
        BY <1>1, <1>2, <2>4, NameFacts DEF Looked
      <3>2. at # Main => childHave \subseteq Declared
        BY <1>1, <1>2 DEF Looked
      <3> QED BY <1>1, <2>1, <2>3, <3>1, <3>2 DEF Looked
    <2>7. \A t \in DOMAIN Current : Table(Live(t))' = Table(Live(t)) /\ Exists(Live(t))
      BY <1>1, <1>2, <2>2, NameFacts DEF Table, Evolved
    <2>8. \A t \in DOMAIN Current : Exists(Live(t))'
      BY <2>4, <2>7, NameFacts
    <2>9. Lacking(at)' = {} /\ Shape(Table(Tmp(at)))' = Current[at] /\ Exists(Tmp(at))'
      <3>1. Lacking(at)' = Lacking(at)
        BY <1>1, <1>2, <2>7 DEF Lacking
      <3>2. Table(Tmp(at))' = Fresh(at)
        BY <1>1, <2>2 DEF Table
      <3> QED BY <1>1, <1>2, <2>4, <3>1, <3>2, FreshFacts DEF Shape
    <2>10. at # Main => Settled(Main, Table(Live(Main)))'
      <3>1. Settled(Main, Table(Live(Main)))' <=> Settled(Main, Table(Live(Main)))
        BY <2>7, NameFacts DEF Settled
      <3> QED BY <1>1, <1>2, <3>1 DEF Evolved
    <2>11. Evolved'
      BY <1>1, <2>1, <2>3, <2>8, <2>9, <2>10, NameFacts DEF Evolved
    <2> QED BY <1>3, <2>3, <2>5, <2>6, <2>11 DEF IInv
  <1> QED BY <1>4, <1>5

\* The rows are copied.
LEMMA CopyRowsIInv == IInv /\ CopyRows => IInv' /\ db.stamped = "old"
  <1> SUFFICES ASSUME IInv, CopyRows PROVE IInv' /\ db.stamped = "old"
    OBVIOUS
  <1>1. /\ Types /\ Sessions /\ Order /\ Looked /\ Evolved /\ pc = "copy" /\ pc' = "droptable"
        /\ UNCHANGED <<engine, at, childHave, cut, cuts>>
        /\ Write(Tmp(at), Copied(Table(Live(at)), Table(Tmp(at))))
    BY DEF IInv, CopyRows, Goto, Copied
  <1>2. /\ at \in DOMAIN Current /\ Running /\ Running' /\ Rebuilding /\ Rebuilding'
        /\ Tmp(at) \in Names /\ Lacking(at) = {} /\ db.stamped = "old" /\ Exists(Tmp(at))
        /\ Shape(Table(Tmp(at))) = Current[at]
    BY <1>1, NameFacts DEF Types, Running, Rebuilding, Evolved
  <1>3. Table(Live(at)) \in SUBSET Columns /\ Table(Tmp(at)) \in SUBSET Columns
    <2>1. Table(Tmp(at)) \in SUBSET Columns
      BY <1>1, <1>2 DEF Exists, Table, Types, Databases
    <2> QED BY <1>1, <1>2, <2>1, LiveTable
  <1> DEFINE S == Copied(Table(Live(at)), Table(Tmp(at)))
  <1>4. S \in SUBSET Columns /\ Shape(S) = Current[at]
    BY <1>2, <1>3, CopiedFacts
  <1> HIDE DEF S
  <1>5. /\ work' \in Databases /\ work'.stamped = work.stamped
        /\ work'.tables[Tmp(at)] = S
        /\ \A m \in Names : m # Tmp(at) => work'.tables[m] = work.tables[m]
        /\ db' = IF engine = "cpp" THEN work' ELSE db
    BY <1>1, <1>2, <1>4, WriteFacts DEF S
  <1>6. db' \in Databases /\ Sessions' /\ db'.stamped = "old"
    BY <1>1, <1>2, <1>5, StatementSessions
  <1>7. \A n \in Names : Exists(n)' <=> Exists(n)
    BY <1>2, <1>4, <1>5, TableFacts DEF Exists, Table
  <1>8. Types' /\ Order'
    BY <1>1, <1>5, <1>6 DEF Types, Order, Steps
  <1>9. Looked'
    BY <1>1, <1>2, <1>6, <1>7, NameFacts DEF Looked
  <1>10. \A t \in DOMAIN Current : Table(Live(t))' = Table(Live(t)) /\ Exists(Live(t))'
    BY <1>1, <1>2, <1>5, <1>7, NameFacts DEF Table, Evolved
  <1>11. Lacking(at)' = {} /\ Shape(Table(Tmp(at)))' = Current[at] /\ Exists(Tmp(at))'
    <2>1. Lacking(at)' = Lacking(at)
      BY <1>1, <1>2, <1>10 DEF Lacking
    <2>2. Table(Tmp(at))' = S
      BY <1>1, <1>5 DEF Table
    <2> QED BY <1>2, <1>4, <1>7, <2>1, <2>2, <1>1 DEF Shape
  <1>12. at # Main => Settled(Main, Table(Live(Main)))'
    <2>1. Settled(Main, Table(Live(Main)))' <=> Settled(Main, Table(Live(Main)))
      BY <1>10, NameFacts DEF Settled
    <2> QED BY <1>1, <1>2, <2>1 DEF Evolved
  <1>13. Evolved'
    BY <1>1, <1>2, <1>6, <1>10, <1>11, <1>12, NameFacts DEF Evolved
  <1> QED BY <1>2, <1>6, <1>8, <1>9, <1>13 DEF IInv

\* The old table is dropped.
LEMMA DropOldIInv == IInv /\ DropOld => IInv' /\ db.stamped = "old"
  <1> SUFFICES ASSUME IInv, DropOld PROVE IInv' /\ db.stamped = "old"
    OBVIOUS
  <1>1. /\ Types /\ Sessions /\ Order /\ Looked /\ Evolved /\ pc = "droptable" /\ pc' = "swap"
        /\ UNCHANGED <<engine, at, childHave, cut, cuts>> /\ Write(Live(at), NoTable)
    BY DEF IInv, DropOld, Goto
  <1>2. /\ at \in DOMAIN Current /\ Running /\ Running' /\ Rebuilding /\ Rebuilding'
        /\ Live(at) \in Names /\ Tmp(at) \in Names /\ db.stamped = "old" /\ Exists(Tmp(at))
        /\ Shape(Table(Tmp(at))) = Current[at] /\ Tmp(at) # Live(at)
    BY <1>1, NameFacts DEF Types, Running, Rebuilding, Evolved
  <1>3. /\ work' \in Databases /\ work'.stamped = work.stamped
        /\ work'.tables[Live(at)] = NoTable
        /\ \A m \in Names : m # Live(at) => work'.tables[m] = work.tables[m]
        /\ db' = IF engine = "cpp" THEN work' ELSE db
    BY <1>1, <1>2, WriteFacts
  <1>4. db' \in Databases /\ Sessions' /\ db'.stamped = "old"
    BY <1>1, <1>2, <1>3, StatementSessions
  <1>5. \A n \in Names : /\ Exists(n)' <=> Exists(n) /\ n # Live(at)
                         /\ n # Live(at) => Table(n)' = Table(n)
    BY <1>2, <1>3 DEF Exists, Table
  <1>6. Types' /\ Order'
    BY <1>1, <1>3, <1>4 DEF Types, Order, Steps
  <1>7. Looked'
    BY <1>1, <1>2, <1>4, <1>5, NameFacts DEF Looked
  <1>8. \A t \in DOMAIN Current : Exists(Live(t))' \/ t = at
    BY <1>1, <1>2, <1>5, NameFacts DEF Evolved
  <1>9. Shape(Table(Tmp(at)))' = Current[at] /\ Exists(Tmp(at))'
    <2>1. Table(Tmp(at))' = Table(Tmp(at))
      BY <1>1, <1>2, <1>3 DEF Table
    <2>2. Shape(Table(Tmp(at)))' = Shape(Table(Tmp(at)))
      BY <2>1 DEF Shape
    <2> QED BY <1>1, <1>2, <1>5, <2>2 DEF Exists
  <1>10. at # Main => Exists(Live(Main))' /\ Settled(Main, Table(Live(Main)))'
    <2> SUFFICES ASSUME at # Main
                 PROVE  Exists(Live(Main))' /\ Settled(Main, Table(Live(Main)))'
      OBVIOUS
    <2>1. Table(Live(Main))' = Table(Live(Main)) /\ Exists(Live(Main)) /\ Exists(Live(Main))'
      BY <1>1, <1>2, <1>5, NameFacts DEF Evolved
    <2>2. Settled(Main, Table(Live(Main)))' <=> Settled(Main, Table(Live(Main)))
      BY <2>1 DEF Settled
    <2> QED BY <1>1, <1>2, <2>1, <2>2 DEF Evolved
  <1>11. Evolved'
    BY <1>1, <1>2, <1>4, <1>8, <1>9, <1>10 DEF Evolved
  <1> QED BY <1>2, <1>4, <1>6, <1>7, <1>11 DEF IInv

\* The copy takes its name.
LEMMA SwapInIInv == IInv /\ SwapIn => IInv' /\ db.stamped = "old"
  <1> SUFFICES ASSUME IInv, SwapIn PROVE IInv' /\ db.stamped = "old"
    OBVIOUS
  <1>1. /\ Types /\ Sessions /\ Order /\ Looked /\ Evolved /\ pc = "swap"
        /\ at = Main => pc' = "reap"
        /\ at # Main => pc' = "childadd"
        /\ UNCHANGED <<engine, at, childHave, cut, cuts>> /\ RenameTable(Tmp(at), Live(at))
    BY DEF IInv, SwapIn, Goto
  <1>2. /\ at \in DOMAIN Current /\ Running /\ Running' /\ Rebuilding /\ ~Rebuilding'
        /\ Live(at) \in Names /\ Tmp(at) \in Names /\ db.stamped = "old" /\ Exists(Tmp(at))
        /\ Shape(Table(Tmp(at))) = Current[at] /\ Tmp(at) # Live(at) /\ Live(at) \in Declared
        /\ pc' \in {"reap", "childadd"}
    BY <1>1, NameFacts DEF Types, Running, Rebuilding, Evolved
  <1>3. /\ work' \in Databases /\ work'.stamped = work.stamped
        /\ work'.tables[Tmp(at)] = NoTable /\ work'.tables[Live(at)] = work.tables[Tmp(at)]
        /\ \A k \in Names : k # Tmp(at) /\ k # Live(at) => work'.tables[k] = work.tables[k]
        /\ db' = IF engine = "cpp" THEN work' ELSE db
    BY <1>1, <1>2, RenameFacts
  <1>4. db' \in Databases /\ Sessions' /\ db'.stamped = "old"
    BY <1>1, <1>2, <1>3, StatementSessions
  <1>5. \A n \in Names :
            /\ n = Tmp(at) => ~Exists(n)'
            /\ n = Live(at) => Exists(n)'
            /\ n # Tmp(at) /\ n # Live(at) => (Exists(n)' <=> Exists(n)) /\ Table(n)' = Table(n)
    BY <1>2, <1>3 DEF Exists, Table
  <1>6. Types' /\ Order'
    BY <1>1, <1>2, <1>3, <1>4 DEF Types, Order, Steps
  <1>7. Looked'
    <2>1. \A n \in Children : Exists(n)' => n \in childHave \/ n \in Declared
      BY <1>1, <1>2, <1>5, NameFacts DEF Looked
    <2>2. at # Main => childHave \subseteq Declared
      BY <1>1, <1>2 DEF Looked
    <2> QED BY <1>1, <1>2, <1>4, <2>1, <2>2 DEF Looked
  <1>8. \A t \in DOMAIN Current : Exists(Live(t))'
    BY <1>1, <1>2, <1>5, NameFacts DEF Evolved
  <1>9. Settled(Main, Table(Live(Main)))'
    <2>1. CASE at = Main
      <3>1. Table(Live(Main))' = Table(Tmp(at))
        BY <1>3, <2>1 DEF Table
      <3>2. Settled(Main, Table(Tmp(at)))
        BY <1>2, <2>1, ShapeSettled, NameFacts
      <3> QED BY <3>1, <3>2 DEF Settled
    <2>2. CASE at # Main
      <3>1. Table(Live(Main))' = Table(Live(Main))
        BY <1>5, <2>2, NameFacts
      <3>2. Settled(Main, Table(Live(Main)))' <=> Settled(Main, Table(Live(Main)))
        BY <3>1 DEF Settled
      <3> QED BY <1>1, <1>2, <2>2, <3>2 DEF Evolved
    <2> QED BY <2>1, <2>2
  <1>10. Evolved'
    <2>1. pc' \notin {"create", "add", "transform", "drop", "types", "stamp"}
      BY <1>2
    <2> QED BY <1>2, <1>8, <1>9, <2>1, NameFacts DEF Evolved
  <1> QED BY <1>2, <1>4, <1>6, <1>7, <1>10 DEF IInv

\* An undeclared child table is dropped.
LEMMA ReapIInv == IInv /\ Reap => IInv' /\ db.stamped = "old"
  <1> SUFFICES ASSUME IInv, Reap PROVE IInv' /\ db.stamped = "old"
    OBVIOUS
  <1>1. /\ Types /\ Sessions /\ Order /\ Looked /\ Evolved /\ pc = "reap" /\ pc' = pc
        /\ UNCHANGED <<engine, at, cut, cuts>>
    BY DEF IInv, Reap
  <1>2. PICK n \in Orphans : Write(n, NoTable) /\ childHave' = childHave \ {n}
    BY DEF Reap
  <1>3. n \in childHave /\ n \in Names /\ n \notin Declared
    BY <1>1, NameFacts DEF Orphans, Types, Declared
  <1>4. Running /\ Running' /\ ~Rebuilding /\ ~Rebuilding' /\ at = Main
    BY <1>1 DEF Running, Rebuilding, Order
  <1>5. db.stamped = "old"
    BY <1>1, <1>3, <1>4 DEF Looked, Types, Databases
  <1>6. /\ work' \in Databases /\ work'.stamped = work.stamped
        /\ work'.tables[n] = NoTable
        /\ \A m \in Names : m # n => work'.tables[m] = work.tables[m]
        /\ db' = IF engine = "cpp" THEN work' ELSE db
    BY <1>1, <1>2, <1>3, WriteFacts
  <1>7. db' \in Databases /\ Sessions' /\ db'.stamped = "old"
    BY <1>1, <1>4, <1>5, <1>6, StatementSessions
  <1>8. \A m \in Names : /\ Exists(m)' <=> Exists(m) /\ m # n
                         /\ m # n => Table(m)' = Table(m)
    BY <1>3, <1>6 DEF Exists, Table
  <1>9. Types' /\ Order'
    BY <1>1, <1>2, <1>6, <1>7 DEF Types, Order
  <1>10. Looked'
    <2>1. \A m \in Children : Exists(m)' => m \in childHave' \/ m \in Declared
      BY <1>1, <1>2, <1>4, <1>8, NameFacts DEF Looked
    <2> QED BY <1>1, <1>4, <1>7, <2>1 DEF Looked
  <1>11. \A t \in DOMAIN Current : Exists(Live(t))' /\ Table(Live(t))' = Table(Live(t))
    <2> TAKE t \in DOMAIN Current
    <2>1. Live(t) \in Declared /\ Live(t) \in Names
      BY NameFacts
    <2>2. Exists(Live(t))
      BY <1>1, <1>4 DEF Evolved
    <2> QED BY <1>3, <1>8, <2>1, <2>2
  <1>12. Settled(Main, Table(Live(Main)))'
    <2>1. Settled(Main, Table(Live(Main)))' <=> Settled(Main, Table(Live(Main)))
      BY <1>11, NameFacts DEF Settled
    <2> QED BY <1>1, <2>1 DEF Evolved
  <1>13. Evolved'
    BY <1>1, <1>4, <1>11, <1>12, NameFacts DEF Evolved
  <1> QED BY <1>5, <1>7, <1>9, <1>10, <1>13 DEF IInv

\* When the version is stamped, the tables are as the schema says.
LEMMA ReadyToStamp == IInv /\ pc = "stamp" => Migrated(work.tables)
  <1> SUFFICES ASSUME IInv, pc = "stamp" PROVE Migrated(work.tables)
    OBVIOUS
  <1>1. /\ Types /\ Looked /\ Evolved /\ Running /\ ~Rebuilding /\ Undone = {}
        /\ childHave \subseteq Declared
    BY DEF IInv, Looked, Evolved, Running, Rebuilding
  <1>2. ASSUME NEW t \in DOMAIN Current
        PROVE  work.tables[Live(t)] # NoTable /\ Settled(t, work.tables[Live(t)])
    <2>1. Exists(Live(t))
      BY <1>1 DEF Evolved
    <2>2. CASE t = Main
      BY <1>1, <2>1, <2>2 DEF Evolved, Exists, Table
    <2>3. CASE t # Main
      <3>1. Lacking(t) = {} /\ ~Drifted(t)
        BY <1>1, <2>3 DEF Undone
      <3>2. Swept(t) => Strays(t) = {}
        BY <2>3, <3>1 DEF Drifted
      <3>3. Swept(t) => NamesOf(Table(Live(t))) \subseteq NamesOf(Current[t])
        BY <3>2 DEF Strays, NamesOf
      <3>4. \A d \in Current[t] : d.name \in Addable(t) => d.name \in NamesOf(Table(Live(t)))
        BY <3>1 DEF Lacking
      <3>5. \A c \in Table(Live(t)), d \in Current[t] :
                c.name = d.name /\ c.name \in Compared(t) => c.type = d.type
        BY <3>1 DEF Drifted
      <3>6. Settled(t, Table(Live(t)))
        BY <3>3, <3>4, <3>5 DEF Settled
      <3> QED BY <2>1, <3>6 DEF Exists, Table
    <2> QED BY <2>2, <2>3
  <1>3. ASSUME NEW n \in Names \ Declared PROVE work.tables[n] = NoTable
    <2>1. n \in Children
      BY NameFacts DEF Children
    <2> QED BY <1>1, <2>1 DEF Looked, Exists, Table
  <1> QED BY <1>2, <1>3 DEF Migrated

\* The version is stamped and the transaction committed.
LEMMA StampIInv == IInv /\ Stamp => IInv' /\ (db.stamped = "new" => db' = db)
  <1> SUFFICES ASSUME IInv, Stamp PROVE IInv' /\ (db.stamped = "new" => db' = db)
    OBVIOUS
  <1>1. /\ Types /\ Sessions /\ pc = "stamp" /\ pc' = "done"
        /\ work' = [work EXCEPT !.stamped = "new"] /\ db' = work'
        /\ UNCHANGED <<engine, at, childHave, cut, cuts>>
    BY DEF IInv, Stamp, Goto
  <1>2. work' \in Databases /\ work'.tables = work.tables /\ work'.stamped = "new"
    BY <1>1 DEF Types, Databases
  <1>3. Migrated(db'.tables)
    BY <1>1, <1>2, ReadyToStamp
  <1>4. ~Running' /\ ~Rebuilding'
    BY <1>1 DEF Running, Rebuilding
  <1>5. Types' /\ Order' /\ Looked' /\ Evolved'
    BY <1>1, <1>2, <1>4 DEF Types, Steps, Order, Looked, Evolved
  <1>6. Sessions'
    BY <1>1, <1>2, <1>3 DEF Sessions
  <1>7. db.stamped = "new" => db' = db
    BY <1>1 DEF Sessions, Types, Databases
  <1> QED BY <1>5, <1>6, <1>7 DEF IInv

\* The migration is cut off.
LEMMA CutIInv == IInv /\ Cut => IInv' /\ db' = db
  <1> SUFFICES ASSUME IInv, Cut PROVE IInv' /\ db' = db
    OBVIOUS
  <1>1. /\ Types /\ Sessions /\ pc' \in {"off", "failed"} /\ work' = db /\ db' = db
        /\ cuts < MaxCuts /\ cuts' = cuts + 1 /\ UNCHANGED <<engine, at, childHave>>
        /\ cut' \subseteq cut \cup {"tmp", "swap"}
    BY DEF IInv, Cut
  <1>2. ~Running' /\ ~Rebuilding'
    BY <1>1 DEF Running, Rebuilding
  <1>3. cuts' \in 0..MaxCuts /\ cut' \subseteq {"tmp", "swap"}
    BY <1>1, ConstantsAssumption DEF Types
  <1>4. Types'
    BY <1>1, <1>3 DEF Types, Steps
  <1>5. Order' /\ Looked' /\ Evolved'
    BY <1>1, <1>2 DEF Order, Looked, Evolved
  <1>6. Sessions'
    BY <1>1 DEF Sessions
  <1> QED BY <1>1, <1>4, <1>5, <1>6 DEF IInv

\* Every step keeps the invariant, and leaves a stamped database alone.
LEMMA NextIInv == IInv /\ [Next]_vars => IInv' /\ (db.stamped = "new" => db' = db)
  <1> SUFFICES ASSUME IInv, [Next]_vars PROVE IInv' /\ (db.stamped = "new" => db' = db)
    OBVIOUS
  <1>1. CASE Start
    BY <1>1, StartIInv DEF Start
  <1>2. CASE \/ ChildrenRenamed \/ TablesCreated \/ ColumnsRenamed \/ ColumnsAdded
             \/ ColumnsDropped \/ NoRebuild \/ Restart
    <2>1. db' = db
      BY <1>2 DEF ChildrenRenamed, TablesCreated, ColumnsRenamed, ColumnsAdded, ColumnsDropped,
                  NoRebuild, Restart, Skip
    <2> QED BY <1>2, <2>1, SkipIInv
  <1>3. CASE \/ RenameChild \/ CreateTable \/ RenameColumn \/ AddColumn \/ DropColumn
             \/ MakeTmp \/ CopyRows \/ DropOld \/ SwapIn \/ Reap
    <2>1. IInv' /\ db.stamped = "old"
      BY <1>3, RenameChildIInv, CreateTableIInv, RenameColumnIInv, AddColumnIInv, DropColumnIInv,
         MakeTmpIInv, CopyRowsIInv, DropOldIInv, SwapInIInv, ReapIInv
    <2> QED BY <2>1
  <1>4. CASE Transform
    BY <1>4, TransformIInv
  <1>5. CASE NextChild
    BY <1>5, NextChildIInv DEF NextChild, Skip
  <1>6. CASE Stamp
    BY <1>6, StampIInv
  <1>7. CASE Cut
    BY <1>7, CutIInv
  <1>8. CASE UNCHANGED vars
    <2>1. UNCHANGED <<engine, db, work, pc, at, childHave, cut, cuts>>
      BY <1>8 DEF vars
    <2>2. Types' /\ Sessions' /\ Order'
      BY <2>1 DEF IInv, Types, Sessions, Order, Running
    <2>3. (Running' <=> Running) /\ (Rebuilding' <=> Rebuilding)
      BY <2>1 DEF Running, Rebuilding
    <2>4. Looked'
      BY <2>1, <2>3, SameTables DEF IInv, Looked
    <2>5. Evolved'
      <3>1. /\ Settled(Main, Table(Live(Main)))' <=> Settled(Main, Table(Live(Main)))
            /\ Shape(Table(Tmp(at)))' = Shape(Table(Tmp(at)))
        BY <2>1 DEF Settled, Shape, Table
      <3> QED BY <2>1, <2>3, <3>1, SameTables DEF IInv, Evolved
    <2> QED BY <2>1, <2>2, <2>4, <2>5 DEF IInv
  <1> QED BY <1>1, <1>2, <1>3, <1>4, <1>5, <1>6, <1>7, <1>8 DEF Next, Step

\* The invariant holds throughout.
LEMMA IInvHolds == Spec => []IInv
  <1>1. IInv /\ [Next]_vars => IInv'
    BY NextIInv
  <1> QED BY <1>1, InitIInv, PTL DEF Spec

-----------------------------------------------------------------------------
(* What the migration does not bring about stays as it is declared. *)

\* A child table whose field has kept its kind is as its plan takes it to be,
\* under its own name or the one it is renamed from; so is the main table.
KinIn(W) ==
    \A t \in DOMAIN Current : SameKind(t) =>
        \A u \in Sources(t) : W[Live(u)] # NoTable => Alike(t, W[Live(u)])

\* From the renames on, the key has its name.
Kin ==
    /\ KinIn(db.tables) /\ KinIn(work.tables)
    /\ pc \in {"add", "transform", "drop", "types"} \/ (pc = "copy" /\ at = Main) =>
          Key \in NamesOf(Table(Live(Main)))

\* Of the main table only the key is taken for granted, under one of its names.
LEMMA AlikeMain ==
    ASSUME NEW T
    PROVE  Alike(Main, T) <=> \/ Key \in NamesOf(T)
                              \/ \E r \in Renames : r[2] = Key /\ r[1] \in NamesOf(T)
  <1>1. PICK k \in Current[Main] : k.name = Key
    BY KeyAssumption DEF NamesOf
  <1>2. \A d \in Current[Main] : d.name \in Addable(Main) \/ d.name = Key
    BY DEF Addable, NamesOf
  <1>3. Key \notin Addable(Main)
    BY DEF Addable
  <1>4. \A d \in Current[Main] : d.name \in Compared(Main)
    BY DEF Compared, NamesOf
  <1>5. Swept(Main)
    BY DEF Swept
  <1> QED BY <1>1, <1>2, <1>3, <1>4, <1>5 DEF Alike

\* It has always been there.
LEMMA MainSameKind == SameKind(Main)
  <1>1. Sources(Main) \subseteq {Main}
    BY RenamesAssumption DEF Sources, Retires
  <1> QED BY <1>1, AlikeMain, KeyAssumption DEF SameKind

\* Columns of the same names and types are as alike.
LEMMA AlikeShape ==
    ASSUME NEW t, NEW T, NEW S, Alike(t, S), NamesOf(T) = NamesOf(S),
           \A c \in T : \E d \in S : c.name = d.name /\ c.type = d.type
    PROVE  Alike(t, T)
  <1>1. \A c \in T, d \in Current[t] : c.name = d.name /\ c.name \notin Compared(t) => c.type = d.type
    <2> TAKE c \in T, d \in Current[t]
    <2>1. PICK e \in S : c.name = e.name /\ c.type = e.type
      OBVIOUS
    <2> QED BY <2>1 DEF Alike
  <1> QED BY <1>1 DEF Alike

\* A declared table is the source of no other.
LEMMA KinWrite ==
    ASSUME NEW W, NEW V, KinIn(W), NEW a \in DOMAIN Current,
           \A u \in Tables : u # a => V[Live(u)] \in {W[Live(u)], NoTable},
           V[Live(a)] # NoTable /\ SameKind(a) => Alike(a, V[Live(a)])
    PROVE  KinIn(V)
  <1> SUFFICES ASSUME NEW t \in DOMAIN Current, SameKind(t), NEW u \in Sources(t),
                      V[Live(u)] # NoTable
               PROVE  Alike(t, V[Live(u)])
    BY DEF KinIn
  <1>1. u \in Tables /\ (u = t \/ \E r \in ChildRenames : r[1] = u)
    BY DEF Sources
  <1>2. CASE u = a
    <2>1. \A r \in ChildRenames : r[1] # Main /\ r[1] \notin DOMAIN Current \ {Main}
      BY RenamesAssumption DEF Retires
    <2> QED BY <1>1, <1>2, <2>1
  <1>3. CASE u # a
    BY <1>1, <1>3 DEF KinIn
  <1> QED BY <1>2, <1>3

\* A statement of the session.
LEMMA StatementKin ==
    ASSUME Kin, KinIn(work'.tables), db' = IF engine = "cpp" THEN work' ELSE db,
           pc' \in {"add", "transform", "drop", "types"} \/ (pc' = "copy" /\ at' = Main) =>
              Key \in NamesOf(work'.tables[Live(Main)])
    PROVE  Kin'
  <1>1. KinIn(db'.tables)
    BY DEF Kin
  <1> QED BY <1>1 DEF Kin, KinIn, Table

\* The old database, before the first start.
LEMMA InitKin == Init => Kin
  <1> SUFFICES ASSUME Init PROVE Kin
    OBVIOUS
  <1>1. ASSUME NEW t \in DOMAIN Current, SameKind(t), NEW u \in Sources(t),
               OldTables[Live(u)] # NoTable
        PROVE  Alike(t, OldTables[Live(u)])
    <2>1. u \in Tables /\ Live(u) \in Names /\ Live(u)[1] = u /\ Live(u)[2] = "live"
      BY NameFacts DEF Sources, Live
    <2>2. u \in DOMAIN Old
      BY <1>1, <2>1 DEF OldTables
    <2> DEFINE T == {Column(c.name, c.type, <<u, c.name>>) : c \in Old[u]}
    <2>3. OldTables[Live(u)] = T
      BY <2>1, <2>2 DEF OldTables
    <2>4. \A c \in T : \E d \in Old[u] : c.name = d.name /\ c.type = d.type
      BY DEF Column
    <2>5. ASSUME NEW d \in Old[u] PROVE \E c \in T : c.name = d.name
      <3>1. Column(d.name, d.type, <<u, d.name>>) \in T
        OBVIOUS
      <3>2. Column(d.name, d.type, <<u, d.name>>).name = d.name
        BY DEF Column
      <3> QED BY <3>1, <3>2
    <2> HIDE DEF T
    <2>6. NamesOf(T) = NamesOf(Old[u])
      BY <2>4, <2>5 DEF NamesOf
    <2>7. Alike(t, Old[u])
      BY <1>1, <2>2 DEF SameKind
    <2> QED BY <2>3, <2>4, <2>6, <2>7, AlikeShape
  <1>2. KinIn(OldTables)
    BY <1>1 DEF KinIn
  <1> QED BY <1>2 DEF Init, Kin

\* The steps that execute no statement.
LEMMA QuietKin ==
    ASSUME IInv, Kin, UNCHANGED <<db, work>>,
           \/ Start \/ ChildrenRenamed \/ TablesCreated \/ ColumnsRenamed \/ ColumnsAdded
           \/ ColumnsDropped \/ NoRebuild \/ Restart \/ NextChild
    PROVE  Kin'
  <1>1. \/ pc' \notin {"add", "transform", "drop", "types", "copy"}
        \/ pc = "rename" /\ pc' = "add" /\ RenamedColumns = {}
        \/ pc \in {"add", "drop"} /\ pc' \in {"transform", "types"}
    BY DEF Start, ChildrenRenamed, TablesCreated, ColumnsRenamed, ColumnsAdded, ColumnsDropped,
           NoRebuild, Restart, NextChild, Skip, Goto
  <1>2. ASSUME pc = "rename", RenamedColumns = {} PROVE Key \in NamesOf(Table(Live(Main)))
    <2>1. Exists(Live(Main)) /\ Main \in Sources(Main)
      BY <1>2, NameFacts DEF IInv, Evolved, Running, Sources
    <2>2. Alike(Main, Table(Live(Main)))
      BY <2>1, NameFacts, MainSameKind DEF Kin, KinIn, Exists, Table
    <2> QED BY <1>2, <2>2, AlikeMain DEF RenamedColumns
  <1>3. Table(Live(Main))' = Table(Live(Main))
    BY DEF Table
  <1>4. KinIn(work'.tables) /\ KinIn(db'.tables)
    BY DEF Kin
  <1>5. Key \in NamesOf(Table(Live(Main))) \/ pc' \notin {"add", "transform", "drop", "types", "copy"}
    BY <1>1, <1>2 DEF Kin
  <1>6. Key \in NamesOf(work'.tables[Live(Main)])
            \/ pc' \notin {"add", "transform", "drop", "types", "copy"}
    BY <1>5 DEF Table
  <1> QED BY <1>4, <1>6 DEF Kin, KinIn, Table

\* A child table takes its new name.
LEMMA RenameChildKin == IInv /\ Kin /\ RenameChild => Kin'
  <1> SUFFICES ASSUME IInv, Kin, RenameChild PROVE Kin'
    OBVIOUS
  <1>1. Types /\ Looked /\ pc = "childrename" /\ pc' = pc
    BY DEF IInv, RenameChild
  <1>2. PICK r \in RenamedChildren : RenameTable(Live(r[1]), Live(r[2]))
    BY DEF RenameChild
  <1>3. r \in ChildRenames /\ Live(r[1]) \in childHave
    BY DEF RenamedChildren
  <1>4. r[2] \in DOMAIN Current \ {Main} /\ r[1] # r[2]
    BY <1>3, RenamesAssumption DEF Retires
  <1>5. childHave = {n \in Children : Exists(n)} /\ Live(r[1]) \in Names /\ Live(r[2]) \in Names
        /\ Live(r[1]) # Live(r[2])
    BY <1>1, <1>3, <1>4, NameFacts DEF Looked
  <1>6. r[1] \in Tables
    BY <1>5, NameFacts
  <1>7. /\ work'.tables[Live(r[1])] = NoTable /\ work'.tables[Live(r[2])] = work.tables[Live(r[1])]
        /\ \A k \in Names : k # Live(r[1]) /\ k # Live(r[2]) => work'.tables[k] = work.tables[k]
        /\ db' = IF engine = "cpp" THEN work' ELSE db
    BY <1>1, <1>2, <1>5, RenameFacts
  <1>8. SameKind(r[2]) /\ work'.tables[Live(r[2])] # NoTable => Alike(r[2], work'.tables[Live(r[2])])
    <2>1. r[1] \in Sources(r[2])
      BY <1>3, <1>6 DEF Sources
    <2> QED BY <1>4, <1>7, <2>1 DEF Kin, KinIn
  <1>9. \A u \in Tables : u # r[2] => work'.tables[Live(u)] \in {work.tables[Live(u)], NoTable}
    BY <1>7, NameFacts
  <1>10. KinIn(work'.tables)
    BY <1>4, <1>8, <1>9, KinWrite DEF Kin
  <1> QED BY <1>1, <1>7, <1>10, StatementKin

\* A table that is made has the declared shape.
LEMMA CreateTableKin == IInv /\ Kin /\ CreateTable => Kin'
  <1> SUFFICES ASSUME IInv, Kin, CreateTable PROVE Kin'
    OBVIOUS
  <1>1. Types /\ pc = "create" /\ pc' = pc
    BY DEF IInv, CreateTable, Stay
  <1>2. PICK t \in Missing : Write(Live(t), Fresh(t))
    BY DEF CreateTable
  <1>3. t \in DOMAIN Current /\ Live(t) \in Names
    BY NameFacts DEF Missing
  <1>4. /\ work'.tables[Live(t)] = Fresh(t)
        /\ \A m \in Names : m # Live(t) => work'.tables[m] = work.tables[m]
        /\ db' = IF engine = "cpp" THEN work' ELSE db
    BY <1>1, <1>2, <1>3, WriteFacts, FreshFacts
  <1>5. Alike(t, Fresh(t))
    BY <1>3, FreshFacts, ShapeSettled
  <1>6. KinIn(work'.tables)
    BY <1>3, <1>4, <1>5, NameFacts, KinWrite DEF Kin
  <1> QED BY <1>1, <1>4, <1>6, StatementKin

\* A statement on the columns of the table that is evolved.
LEMMA LiveWriteKin ==
    ASSUME IInv, Kin, NEW T \in SUBSET Columns, Write(Live(at), T), at' = at,
           pc \in {"rename", "add", "transform", "drop", "childadd"},
           pc' = pc \/ (pc = "transform" /\ pc' = "drop"),
           SameKind(at) => Alike(at, T),
           pc \in {"add", "transform", "drop"} => Key \in NamesOf(T)
    PROVE  Kin'
  <1>1. Types /\ Order /\ at \in DOMAIN Current /\ Live(at) \in Names
    BY NameFacts DEF IInv, Types
  <1>2. /\ work'.tables[Live(at)] = T
        /\ \A m \in Names : m # Live(at) => work'.tables[m] = work.tables[m]
        /\ db' = IF engine = "cpp" THEN work' ELSE db
    BY <1>1, WriteFacts
  <1>3. KinIn(work'.tables)
    BY <1>1, <1>2, NameFacts, KinWrite DEF Kin
  <1>4. pc' \in {"add", "transform", "drop", "types"} \/ (pc' = "copy" /\ at' = Main) =>
            at = Main /\ pc \in {"add", "transform", "drop"}
    BY <1>1 DEF Order
  <1> QED BY <1>2, <1>3, <1>4, StatementKin

\* The statements on columns leave the rest of a table as it is.
LEMMA ColumnKin ==
    ASSUME IInv, Kin, RenameColumn \/ AddColumn \/ Transform \/ DropColumn
    PROVE  Kin'
  <1>1. Types /\ Order /\ at \in DOMAIN Current
    BY DEF IInv, Types
  <1>2. ASSUME NEW t \in DOMAIN Current, SameKind(t), Running, pc \notin {"childrename", "create", "swap"}
        PROVE  Alike(t, Table(Live(t)))
    <2>1. t \in Sources(t) /\ Exists(Live(t))
      BY <1>2, NameFacts DEF Sources, IInv, Evolved
    <2> QED BY <1>2, <2>1 DEF Kin, KinIn, Exists, Table
  <1>3. CASE RenameColumn
    <2> DEFINE T == Table(Live(Main))
    <2>1. pc = "rename" /\ pc' = pc /\ at' = at /\ Running /\ at = Main
      BY <1>1, <1>3 DEF RenameColumn, Stay, Running, Order
    <2>2. PICK r \in RenamedColumns : Write(Live(Main), Renamed(T, r))
      BY <1>3 DEF RenameColumn, Renamed
    <2>3. T \in SUBSET Columns /\ r \in Renames
      BY <2>1, LiveTable, NameFacts DEF RenamedColumns
    <2>4. Alike(Main, T)
      BY <1>2, <2>1, NameFacts, MainSameKind
    <2> HIDE DEF T
    <2>5. /\ Renamed(T, r) \in SUBSET Columns
          /\ \A c \in T : \E x \in Renamed(T, r) : /\ c.name = r[1] => x.name = r[2]
                                                   /\ c.name # r[1] => x = c
      BY <2>3, RenamedFacts
    <2>6. \A n \in NamesOf(T) : /\ n = r[1] => r[2] \in NamesOf(Renamed(T, r))
                                /\ n # r[1] => n \in NamesOf(Renamed(T, r))
      BY <2>5 DEF NamesOf
    <2>7. Key # r[1] /\ \A q \in Renames : q[1] = r[1] => q[2] = r[2]
      BY <2>3, RenamesAssumption, KeyAssumption DEF Retires
    <2>8. Alike(Main, Renamed(T, r))
      BY <2>3, <2>4, <2>6, <2>7, AlikeMain
    <2> QED BY <2>1, <2>2, <2>5, <2>8, LiveWriteKin
  <1>4. CASE AddColumn
    <2> DEFINE T == Table(Live(at))
    <2>1. pc \in {"add", "childadd"} /\ pc' = pc /\ at' = at /\ Running
      BY <1>4 DEF AddColumn, Stay, Running
    <2>2. PICK c \in Lacking(at) : Write(Live(at), T \cup {Column(c.name, c.type, None)})
      BY <1>4 DEF AddColumn
    <2> DEFINE x == Column(c.name, c.type, None)
    <2>3. T \in SUBSET Columns /\ c \in Current[at]
      BY <1>1, <2>1, LiveTable DEF Lacking
    <2>4. x \in Columns /\ x.name = c.name /\ x.type = c.type
      BY <1>1, <2>3, AddedFacts
    <2>5. SameKind(at) => Alike(at, T)
      BY <1>1, <1>2, <2>1
    <2>6. pc = "add" => Key \in NamesOf(T)
      BY <1>1 DEF Kin, Order
    <2>7. Write(Live(at), T \cup {x})
      BY <2>2
    <2> HIDE DEF T, x
    <2>8. NamesOf(T \cup {x}) = NamesOf(T) \cup {c.name}
      BY <2>4 DEF NamesOf
    <2>9. ASSUME Alike(at, T) PROVE Alike(at, T \cup {x})
      <3>1. \A d \in Current[at] : x.name = d.name => x.type = d.type
        BY <1>1, <2>3, <2>4, SchemaAssumption
      <3>2. c.name \in NamesOf(Current[at])
        BY <2>3 DEF NamesOf
      <3> QED BY <2>8, <2>9, <3>1, <3>2 DEF Alike
    <2>10. T \cup {x} \in SUBSET Columns
      BY <2>3, <2>4
    <2> QED BY <2>1, <2>5, <2>6, <2>7, <2>8, <2>9, <2>10, LiveWriteKin
  <1>5. CASE Transform
    <2> DEFINE T == Table(Live(Main))
    <2>1. pc = "transform" /\ pc' = "drop" /\ at' = at /\ Running /\ at = Main
      BY <1>1, <1>5 DEF Transform, Goto, Running, Order
    <2>2. T \in SUBSET Columns /\ Key \in NamesOf(T)
      BY <2>1, LiveTable, NameFacts DEF Kin
    <2>3. Write(Live(Main), Filled(T))
      BY <1>5 DEF Transform, Filled
    <2> HIDE DEF T
    <2>4. Filled(T) \in SUBSET Columns /\ Key \in NamesOf(Filled(T))
      BY <2>2, FilledFacts
    <2> QED BY <2>1, <2>3, <2>4, AlikeMain, LiveWriteKin
  <1>6. CASE DropColumn
    <2> DEFINE T == Table(Live(Main))
    <2>1. pc = "drop" /\ pc' = pc /\ at' = at /\ Running /\ at = Main
      BY <1>1, <1>6 DEF DropColumn, Stay, Running, Order
    <2>2. PICK c \in Strays(Main) : Write(Live(Main), T \ {c})
      BY <1>6 DEF DropColumn
    <2>3. T \in SUBSET Columns /\ Key \in NamesOf(T) /\ c.name # Key
      BY <2>1, LiveTable, NameFacts, KeyAssumption DEF Kin, Strays
    <2> HIDE DEF T
    <2>4. T \ {c} \in SUBSET Columns /\ Key \in NamesOf(T \ {c})
      BY <2>3 DEF NamesOf
    <2> QED BY <2>1, <2>2, <2>4, AlikeMain, LiveWriteKin
  <1> QED BY <1>3, <1>4, <1>5, <1>6

\* A rebuild ends with a table of the declared shape, and on the way touches no
\* other; a reaped table is gone.
LEMMA RebuildKin ==
    ASSUME IInv, Kin, MakeTmp \/ CopyRows \/ DropOld \/ SwapIn \/ Reap
    PROVE  Kin'
  <1>1. Types /\ Order /\ Evolved /\ at \in DOMAIN Current /\ Live(at) \in Names /\ Tmp(at) \in Names
    BY NameFacts DEF IInv, Types
  <1>2. ASSUME NEW n \in Names, NEW T \in (SUBSET Columns) \cup {NoTable}, Write(n, T),
               T = NoTable \/ \A u \in Tables : n # Live(u)
        PROVE  /\ KinIn(work'.tables) /\ (db' = IF engine = "cpp" THEN work' ELSE db)
               /\ n # Live(Main) => work'.tables[Live(Main)] = work.tables[Live(Main)]
    <2>1. /\ work'.tables[n] = T
          /\ \A m \in Names : m # n => work'.tables[m] = work.tables[m]
          /\ db' = IF engine = "cpp" THEN work' ELSE db
      BY <1>1, <1>2, WriteFacts
    <2>2. \A u \in Tables : work'.tables[Live(u)] \in {work.tables[Live(u)], NoTable}
      BY <1>2, <2>1, NameFacts
    <2>3. KinIn(work'.tables)
      BY <2>2 DEF Kin, KinIn, Sources
    <2> QED BY <2>1, <2>3, NameFacts
  <1>3. CASE MakeTmp
    <2>1. pc = "types" \/ pc = "childadd"
      BY <1>3 DEF MakeTmp, EvolveNow
    <2>2. CASE Exists(Tmp(at))
      <3>1. pc' = "failed" /\ work' = db /\ db' = db
        BY <1>3, <2>2 DEF MakeTmp, Goto
      <3> QED BY <3>1 DEF Kin, KinIn
    <2>3. CASE ~Exists(Tmp(at))
      <3>1. pc' = "copy" /\ at' = at /\ Write(Tmp(at), Fresh(at))
        BY <1>3, <2>3 DEF MakeTmp, Goto
      <3>2. /\ KinIn(work'.tables) /\ (db' = IF engine = "cpp" THEN work' ELSE db)
            /\ work'.tables[Live(Main)] = work.tables[Live(Main)]
        BY <1>1, <1>2, <3>1, FreshFacts, NameFacts
      <3>3. at = Main => Key \in NamesOf(work.tables[Live(Main)])
        BY <1>1, <2>1 DEF Kin, Order, Table
      <3> QED BY <3>1, <3>2, <3>3, StatementKin
    <2> QED BY <2>2, <2>3
  <1>4. CASE CopyRows
    <2>1. pc = "copy" /\ pc' = "droptable" /\ Write(Tmp(at), Copied(Table(Live(at)), Table(Tmp(at))))
          /\ Running /\ Rebuilding
      BY <1>4 DEF CopyRows, Goto, Copied, Running, Rebuilding
    <2>2. Table(Tmp(at)) \in SUBSET Columns
      BY <1>1, <2>1 DEF Evolved, Exists, Table, Types, Databases
    <2>3. Table(Live(at)) \in SUBSET Columns
      BY <1>1, <2>1, LiveTable
    <2>4. Copied(Table(Live(at)), Table(Tmp(at))) \in SUBSET Columns
      BY <2>2, <2>3, CopiedFacts
    <2>5. KinIn(work'.tables) /\ (db' = IF engine = "cpp" THEN work' ELSE db)
      BY <1>1, <1>2, <2>1, <2>4, NameFacts
    <2> QED BY <2>1, <2>5, StatementKin
  <1>5. CASE DropOld
    <2>1. pc' = "swap" /\ Write(Live(at), NoTable)
      BY <1>5 DEF DropOld, Goto
    <2>2. KinIn(work'.tables) /\ (db' = IF engine = "cpp" THEN work' ELSE db)
      BY <1>1, <1>2, <2>1
    <2> QED BY <2>1, <2>2, StatementKin
  <1>6. CASE SwapIn
    <2>1. pc = "swap" /\ pc' \in {"reap", "childadd"} /\ RenameTable(Tmp(at), Live(at)) /\ Rebuilding
      BY <1>6 DEF SwapIn, Goto, Rebuilding
    <2>2. /\ work'.tables[Live(at)] = work.tables[Tmp(at)]
          /\ \A k \in Names : k # Tmp(at) /\ k # Live(at) => work'.tables[k] = work.tables[k]
          /\ db' = IF engine = "cpp" THEN work' ELSE db
      BY <1>1, <2>1, RenameFacts, NameFacts
    <2>3. Alike(at, work'.tables[Live(at)])
      BY <1>1, <2>1, <2>2, ShapeSettled DEF Evolved, Table
    <2>4. KinIn(work'.tables)
      BY <1>1, <2>2, <2>3, KinWrite, NameFacts DEF Kin
    <2> QED BY <2>1, <2>2, <2>4, StatementKin
  <1>7. CASE Reap
    <2>1. pc' = "reap"
      BY <1>7 DEF Reap
    <2>2. PICK n \in Orphans : Write(n, NoTable)
      BY <1>7 DEF Reap
    <2>3. n \in Names
      BY <1>1, NameFacts DEF Orphans, Types
    <2>4. KinIn(work'.tables) /\ (db' = IF engine = "cpp" THEN work' ELSE db)
      BY <1>2, <2>2, <2>3
    <2> QED BY <2>1, <2>4, StatementKin
  <1> QED BY <1>3, <1>4, <1>5, <1>6, <1>7

\* Every step keeps it.
LEMMA NextKin == IInv /\ Kin /\ [Next]_vars => Kin'
  <1> SUFFICES ASSUME IInv, Kin, [Next]_vars PROVE Kin'
    OBVIOUS
  <1>1. CASE \/ Start \/ ChildrenRenamed \/ TablesCreated \/ ColumnsRenamed \/ ColumnsAdded
             \/ ColumnsDropped \/ NoRebuild \/ Restart \/ NextChild
    <2>1. UNCHANGED <<db, work>>
      BY <1>1 DEF Start, ChildrenRenamed, TablesCreated, ColumnsRenamed, ColumnsAdded, ColumnsDropped,
                  NoRebuild, Restart, NextChild, Skip
    <2> QED BY <1>1, <2>1, QuietKin
  <1>2. CASE \/ RenameChild \/ CreateTable \/ RenameColumn \/ AddColumn \/ Transform \/ DropColumn
             \/ MakeTmp \/ CopyRows \/ DropOld \/ SwapIn \/ Reap
    BY <1>2, RenameChildKin, CreateTableKin, ColumnKin, RebuildKin
  <1>3. CASE Stamp
    <2>1. pc' = "done" /\ work' = [work EXCEPT !.stamped = "new"] /\ db' = work'
      BY <1>3 DEF Stamp, Goto
    <2>2. work'.tables = work.tables
      BY <2>1 DEF IInv, Types, Databases
    <2> QED BY <2>1, <2>2 DEF Kin, KinIn
  <1>4. CASE Cut
    <2>1. pc' \in {"off", "failed"} /\ work' = db /\ db' = db
      BY <1>4 DEF Cut
    <2> QED BY <2>1 DEF Kin, KinIn
  <1>5. CASE UNCHANGED vars
    <2>1. UNCHANGED <<db, work, pc, at>>
      BY <1>5 DEF vars
    <2> QED BY <2>1 DEF Kin, KinIn, Table
  <1> QED BY <1>1, <1>2, <1>3, <1>4, <1>5 DEF Next, Step

\* It holds throughout.
LEMMA KinHolds == Spec => [](IInv /\ Kin)
  <1>1. (IInv /\ Kin) /\ [Next]_vars => (IInv /\ Kin)'
    BY NextIInv, NextKin
  <1> QED BY <1>1, InitIInv, InitKin, PTL DEF Spec

-----------------------------------------------------------------------------

\* The state is well-typed; the list of child tables never names the table itself.
THEOREM TypeCorrect == Spec => []TypeOK
  <1>1. IInv => TypeOK
    BY NameFacts DEF IInv, Types, Databases, TypeOK
  <1> QED BY <1>1, IInvHolds, PTL

\* A settled table of a field that has kept its kind has the current columns.
LEMMA SettledAlike ==
    ASSUME NEW t \in DOMAIN Current, NEW T, Settled(t, T), Alike(t, T)
    PROVE  Shape(T) = Current[t]
  <1>1. NamesOf(T) \subseteq NamesOf(Current[t])
    BY DEF Settled, Alike
  <1>2. \A r \in Renames : t = Main => r[1] \notin NamesOf(T)
    BY <1>1, RenamesAssumption DEF Retires
  <1>3. \A d \in Current[t] : d.name \in NamesOf(T)
    BY <1>2 DEF Settled, Alike
  <1>4. \A c \in T, d \in Current[t] : c.name = d.name => c.type = d.type
    BY DEF Settled, Alike
  <1>5. \A c \in T : c.name \in NamesOf(Current[t])
    BY <1>1 DEF NamesOf
  <1> QED BY <1>3, <1>4, <1>5, ShapeWhen

\* A stamped database has the current shape, wherever the migration was cut off:
\* the main table always, a child table if its field has kept its kind.
THEOREM StampedIsMigratedHolds == Spec => []StampedIsMigrated
  <1>1. IInv /\ Kin => StampedIsMigrated
    <2> SUFFICES ASSUME IInv, Kin, db.stamped = "new", NEW n \in Names
                 PROVE  IF n[2] = "live" /\ n[1] \in DOMAIN Current
                        THEN /\ db.tables[n] # NoTable
                             /\ SameKind(n[1]) => Shape(db.tables[n]) = Current[n[1]]
                        ELSE db.tables[n] = NoTable
      BY DEF StampedIsMigrated
    <2>1. Migrated(db.tables)
      BY DEF IInv, Sessions
    <2>2. PICK t \in Tables : n = Live(t) \/ n = Tmp(t)
      BY NameFacts
    <2>3. CASE n = Live(t) /\ t \in DOMAIN Current
      <3>1. n[2] = "live" /\ n[1] = t
        BY <2>3 DEF Live
      <3> DEFINE T == db.tables[n]
      <3>2. T # NoTable /\ Settled(t, T)
        BY <2>1, <2>3 DEF Migrated
      <3>3. ASSUME SameKind(t) PROVE Shape(T) = Current[t]
        <4>1. Alike(t, T)
          BY <2>3, <3>2, <3>3 DEF Kin, KinIn, Sources
        <4> QED BY <2>3, <3>2, <4>1, SettledAlike
      <3>4. SameKind(n[1]) => Shape(db.tables[n]) = Current[n[1]]
        BY <3>1, <3>3, Zenon
      <3>5. n[1] \in DOMAIN Current /\ db.tables[n] # NoTable
        BY <2>3, <3>1, <3>2, Zenon
      <3> QED BY <3>1, <3>4, <3>5, Zenon
    <2>4. CASE ~(n = Live(t) /\ t \in DOMAIN Current)
      <3>1. n \notin Declared
        BY <2>2, <2>4, NameFacts
      <3>2. ~(n[2] = "live" /\ n[1] \in DOMAIN Current)
        BY <2>2, <2>4 DEF Live, Tmp
      <3> QED BY <2>1, <3>1, <3>2 DEF Migrated
    <2> QED BY <2>3, <2>4
  <1> QED BY <1>1, KinHolds, PTL

\* A stamped database is not written again.
THEOREM SecondCallIsNoOpHolds == Spec => SecondCallIsNoOp
  <1>1. IInv /\ [Next]_vars => [db.stamped = "new" => db' = db]_vars
    BY NextIInv
  <1> QED BY <1>1, IInvHolds, PTL DEF Spec, SecondCallIsNoOp

-----------------------------------------------------------------------------
(* Where the rows of a column come from. *)

\* A child table comes from the one it was renamed from, if it is new.
LEMMA OriginTableFacts ==
    /\ \A t \in DOMAIN Old : OriginTable(t) = t
    /\ \A r \in ChildRenames :
          r[1] \in DOMAIN Old /\ r[2] \notin DOMAIN Old => OriginTable(r[2]) = r[1]
    /\ \A t : OriginTable(t) # t =>
          \E r \in ChildRenames : /\ r[1] = OriginTable(t) /\ r[2] = t
                                  /\ r[1] \in DOMAIN Old /\ t \notin DOMAIN Old
  <1> DEFINE from(t) == {r[1] : r \in {q \in ChildRenames : q[2] = t /\ q[1] \in DOMAIN Old}}
  <1>1. \A t : OriginTable(t) = IF t \in DOMAIN Old \/ from(t) = {} THEN t
                                ELSE CHOOSE u \in from(t) : TRUE
    BY DEF OriginTable
  <1>2. \A t : from(t) # {} => (CHOOSE u \in from(t) : TRUE) \in from(t)
    OBVIOUS
  <1>3. \A t : \A u \in from(t) : \E r \in ChildRenames : r[1] = u /\ r[2] = t /\ u \in DOMAIN Old
    OBVIOUS
  <1>4. \A r \in ChildRenames : r[1] \in DOMAIN Old => r[1] \in from(r[2])
    OBVIOUS
  <1>5. \A r \in ChildRenames : \A u \in from(r[2]) : u = r[1]
    BY <1>3, RenamesAssumption DEF Retires
  <1> HIDE DEF from
  <1>6. \A t \in DOMAIN Old : OriginTable(t) = t
    BY <1>1
  <1>7. \A r \in ChildRenames :
           r[1] \in DOMAIN Old /\ r[2] \notin DOMAIN Old => OriginTable(r[2]) = r[1]
    BY <1>1, <1>2, <1>4, <1>5
  <1>8. ASSUME NEW t, OriginTable(t) # t
        PROVE  \E r \in ChildRenames : /\ r[1] = OriginTable(t) /\ r[2] = t
                                       /\ r[1] \in DOMAIN Old /\ t \notin DOMAIN Old
    <2>1. t \notin DOMAIN Old /\ from(t) # {} /\ OriginTable(t) = CHOOSE u \in from(t) : TRUE
      BY <1>1, <1>8
    <2>2. OriginTable(t) \in from(t)
      BY <1>2, <2>1
    <2> QED BY <1>3, <2>1, <2>2
  <1> QED BY <1>6, <1>7, <1>8

\* A column of a child table comes from the column of its name.
LEMMA ChildOrigin ==
    ASSUME NEW t, t # Main, NEW n
    PROVE  /\ OriginTable(t) \notin DOMAIN Old => Origin(t, n) = None
           /\ Origin(t, n) \in {None, <<OriginTable(t), n>>}
  BY DEF Origin

\* A column of the main table comes from the column of its name, from the one
\* it was renamed from, or from the one it is derived from.
LEMMA MainOrigin ==
    /\ OriginTable(Main) = Main
    /\ \A n \in OldNames : Origin(Main, n) = <<Main, n>>
    /\ \A r \in Renames : r[2] \notin OldNames =>
          /\ r[1] \in OldNames => Origin(Main, r[2]) = <<Main, r[1]>>
          /\ r[1] \notin OldNames => Origin(Main, r[2]) = None
    /\ Origin(Main, Move[2]) = IF Move[1] \in OldNames THEN <<Main, Move[1]>> ELSE None
    /\ \A n : Origin(Main, n) # None =>
          \/ n \in OldNames
          \/ \E r \in Renames : n = r[2] /\ r[1] \in OldNames /\ n \notin OldNames
          \/ n = Move[2] /\ Move[1] \in OldNames
  <1> DEFINE from(n) == {r[1] : r \in {q \in Renames : q[2] = n /\ q[1] \in OldNames}}
  <1>1. Main \in DOMAIN Old /\ OriginTable(Main) = Main
    BY OriginTableFacts, ConstantsAssumption
  <1>2. \A n : Origin(Main, n) = IF n \in OldNames THEN <<Main, n>>
                                 ELSE IF from(n) # {} THEN <<Main, CHOOSE o \in from(n) : TRUE>>
                                 ELSE IF n = Move[2] /\ Move[1] \in OldNames THEN <<Main, Move[1]>>
                                 ELSE None
    BY <1>1 DEF Origin, OldNames
  <1>3. \A n : from(n) # {} => (CHOOSE u \in from(n) : TRUE) \in from(n)
    OBVIOUS
  <1>4. \A n : \A u \in from(n) : \E r \in Renames : r[1] = u /\ r[2] = n /\ u \in OldNames
    OBVIOUS
  <1>5. \A r \in Renames : r[1] \in OldNames => r[1] \in from(r[2])
    OBVIOUS
  <1>6. \A r \in Renames : \A u \in from(r[2]) : u = r[1]
    BY <1>4, RenamesAssumption DEF Retires
  <1> HIDE DEF from
  <1>7. \A n \in OldNames : Origin(Main, n) = <<Main, n>>
    BY <1>2
  <1>8. ASSUME NEW r \in Renames, r[2] \notin OldNames
        PROVE  /\ r[1] \in OldNames => Origin(Main, r[2]) = <<Main, r[1]>>
               /\ r[1] \notin OldNames => Origin(Main, r[2]) = None
    <2>1. r[1] \in OldNames => from(r[2]) # {} /\ (CHOOSE u \in from(r[2]) : TRUE) = r[1]
      BY <1>3, <1>5, <1>6
    <2>2. r[1] \notin OldNames => from(r[2]) = {}
      BY <1>4, <1>6
    <2>3. r[2] # Move[2]
      BY MoveAssumption
    <2> QED BY <1>2, <1>8, <2>1, <2>2, <2>3
  <1>9. Origin(Main, Move[2]) = IF Move[1] \in OldNames THEN <<Main, Move[1]>> ELSE None
    <2>1. Move[2] \notin OldNames
      BY MoveAssumption DEF OldNames
    <2>2. from(Move[2]) = {}
      <3>1. \A r \in Renames : r[2] # Move[2]
        BY MoveAssumption
      <3>2. \A u : u \notin from(Move[2])
        BY <1>4, <3>1
      <3> QED BY ONLY <3>2
    <2> QED BY <1>2, <2>1, <2>2
  <1>10. ASSUME NEW n, Origin(Main, n) # None
         PROVE  \/ n \in OldNames
                \/ \E r \in Renames : n = r[2] /\ r[1] \in OldNames /\ n \notin OldNames
                \/ n = Move[2] /\ Move[1] \in OldNames
    <2>1. n \in OldNames \/ from(n) # {} \/ (n = Move[2] /\ Move[1] \in OldNames)
      BY <1>2, <1>10
    <2> QED BY <1>4, <2>1
  <1> QED BY <1>1, <1>7, <1>8, <1>9, <1>10

\* Two columns with the same origin are the two names of a rename, or the source
\* of the transform and what it derives.
LEMMA SameOrigin ==
    ASSUME NEW a, NEW b, Origin(Main, a) = Origin(Main, b), Origin(Main, b) # None
    PROVE  \/ a = b
           \/ \E r \in Renames : {a, b} = {r[1], r[2]}
           \/ {a, b} = {Move[1], Move[2]}
  <1> DEFINE Src(n, o) ==
                 \/ n = o
                 \/ \E r \in Renames : n = r[2] /\ r[1] = o
                 \/ n = Move[2] /\ Move[1] = o
  <1>1. \A n : Origin(Main, n) # None => \E o : Origin(Main, n) = <<Main, o>> /\ Src(n, o)
    BY MainOrigin
  <1>2. PICK o : Origin(Main, a) = <<Main, o>> /\ Src(a, o)
    BY <1>1
  <1>3. PICK p : Origin(Main, b) = <<Main, p>> /\ Src(b, p)
    BY <1>1
  <1>4. o = p
    <2>1. <<Main, o>> = <<Main, p>>
      BY <1>2, <1>3
    <2> QED BY ONLY <2>1
  <1>5. \A r, q \in Renames : r[1] = q[1] => r[2] = q[2]
    BY RenamesAssumption DEF Retires
  <1>6. \A r \in Renames : r[1] # Move[1]
    BY MoveAssumption
  <1>7. CASE a = o
    BY <1>3, <1>4, <1>7
  <1>8. ASSUME NEW r \in Renames, a = r[2], r[1] = o
        PROVE  a = b \/ \E q \in Renames : {a, b} = {q[1], q[2]}
    BY <1>3, <1>4, <1>5, <1>6, <1>8
  <1>9. CASE a = Move[2] /\ Move[1] = o
    BY <1>3, <1>4, <1>6, <1>9
  <1> QED BY <1>2, <1>7, <1>8, <1>9

-----------------------------------------------------------------------------
(* No statement on a table loses its rows. *)

\* A column with rows in a faithful table is the one they are to be in.
LEMMA FaithfulHolds ==
    ASSUME NEW t, NEW T, Faithful(t, T), NEW d \in T
    PROVE  d.holds # None => d.holds = Origin(t, d.name)
  BY DEF Faithful

\* The rename of a column.
LEMMA RenamedFaithful ==
    ASSUME NEW T \in SUBSET Columns, Faithful(Main, T), NEW r \in Renames,
           r[1] \in NamesOf(T), r[2] \notin NamesOf(T)
    PROVE  Faithful(Main, Renamed(T, r))
  <1> DEFINE R == Renamed(T, r)
  <1>1. \A x \in R : \E c \in T : /\ x.holds = c.holds
                                  /\ c.name = r[1] => x.name = r[2]
                                  /\ c.name # r[1] => x = c
    BY RenamedFacts
  <1>2. \A c \in T : \E x \in R : /\ x.holds = c.holds
                                  /\ c.name = r[1] => x.name = r[2]
                                  /\ c.name # r[1] => x = c
    BY RenamedFacts
  <1>3. \A c, d \in T : c.name = d.name => c = d
    BY DEF Faithful
  <1>4. r[2] \in NamesOf(Current[Main]) /\ r[1] \notin NamesOf(Current[Main])
    BY RenamesAssumption DEF Retires
  <1>5. \A c \in T : c.name # r[2]
    BY DEF NamesOf
  <1>6. \A x \in R : x.name = r[2] \/ (x \in T /\ x.name # r[1])
    BY <1>1
  <1>7. \A x, y \in R : x.name = y.name => x = y
    <2> SUFFICES ASSUME NEW x \in R, NEW y \in R, x.name = y.name PROVE x = y
      OBVIOUS
    <2>1. CASE x.name = r[2]
      <3>1. \A z \in R : z.name = r[2] => \E c \in T : c.name = r[1] /\ z = [c EXCEPT !.name = r[2]]
        BY <1>5 DEF Renamed
      <3>2. PICK c \in T : c.name = r[1] /\ x = [c EXCEPT !.name = r[2]]
        BY <2>1, <3>1
      <3>3. PICK d \in T : d.name = r[1] /\ y = [d EXCEPT !.name = r[2]]
        BY <2>1, <3>1
      <3>4. c = d
        BY <1>3, <3>2, <3>3
      <3> QED BY <3>2, <3>3, <3>4
    <2>2. CASE x.name # r[2]
      BY <1>3, <1>6, <2>2
    <2> QED BY <2>1, <2>2
  <1>8. Origin(Main, r[1]) = Origin(Main, r[2])
    <2>1. r[2] \notin OldNames
      <3> SUFFICES ASSUME r[2] \in OldNames PROVE FALSE
        OBVIOUS
      <3>1. Origin(Main, r[2]) = <<Main, r[2]>> /\ <<Main, r[2]>> # None
        <4>1. PICK o \in Old[Main] : o.name = r[2]
          BY DEF OldNames, NamesOf
        <4>2. <<Main, r[2]>> \in Origins
          BY <4>1, ConstantsAssumption DEF Origins
        <4> QED BY <4>2, MainOrigin, NoneAssumption
      <3>2. PICK d \in T : d.holds = Origin(Main, r[2])
        BY <1>4, <3>1 DEF Faithful, NamesOf
      <3>3. Origin(Main, d.name) = Origin(Main, r[2]) /\ d.name # r[2]
        BY <1>5, <3>1, <3>2, FaithfulHolds
      <3>4. \/ \E q \in Renames : {d.name, r[2]} = {q[1], q[2]}
            \/ {d.name, r[2]} = {Move[1], Move[2]}
        BY <3>1, <3>3, SameOrigin
      <3>5. \A q \in Renames : {d.name, r[2]} # {q[1], q[2]}
        <4> SUFFICES ASSUME NEW q \in Renames, {d.name, r[2]} = {q[1], q[2]} PROVE FALSE
          OBVIOUS
        <4>1. q[1] # r[2]
          BY <1>4, RenamesAssumption DEF Retires
        <4>2. q[2] = r[2] /\ q[1] = d.name
          BY <4>1
        <4>3. q[1] = r[1]
          BY <4>2, RenamesAssumption DEF Retires
        <4>4. Origin(Main, r[1]) = <<Main, r[2]>>
          BY <3>1, <3>3, <4>2, <4>3
        <4>5. r[1] \in OldNames
          <5>1. \A n \in {r[1]} : \A q2 \in Renames : n # q2[2]
            BY <1>4, RenamesAssumption DEF Retires
          <5>2. r[1] # Move[2]
            BY MoveAssumption
          <5> QED BY <3>1, <4>4, <5>1, <5>2, MainOrigin
        <4>6. <<Main, r[1]>> = <<Main, r[2]>>
          BY <4>4, <4>5, MainOrigin
        <4>7. r[1] = r[2]
          BY ONLY <4>6
        <4> QED BY <1>4, <4>7
      <3> QED BY <3>4, <3>5, MoveAssumption
    <2>2. r[1] \in OldNames => Origin(Main, r[1]) = <<Main, r[1]>>
      BY MainOrigin
    <2>3. r[1] \notin OldNames => Origin(Main, r[1]) = None
      <3>1. \A q \in Renames : r[1] # q[2]
        BY <1>4, RenamesAssumption DEF Retires
      <3>2. r[1] # Move[2]
        BY MoveAssumption
      <3> QED BY <3>1, <3>2, MainOrigin
    <2> QED BY <2>1, <2>2, <2>3, MainOrigin
  <1>9. ASSUME NEW x \in R
        PROVE  \/ x.holds = Origin(Main, x.name)
               \/ x.name = Move[2] /\ x.holds = None /\ Move[1] \in NamesOf(R)
    <2>1. PICK c \in T : /\ x.holds = c.holds
                         /\ c.name = r[1] => x.name = r[2]
                         /\ c.name # r[1] => x = c
      BY <1>1
    <2>2. \/ c.holds = Origin(Main, c.name)
          \/ c.name = Move[2] /\ c.holds = None /\ Move[1] \in NamesOf(T)
      BY DEF Faithful
    <2>3. r[1] # Move[2] /\ r[1] # Move[1]
      BY MoveAssumption
    <2>4. Move[1] \in NamesOf(T) => Move[1] \in NamesOf(R)
      BY <1>2, <2>3 DEF NamesOf
    <2>5. CASE c.name = r[1]
      BY <1>8, <2>1, <2>2, <2>3, <2>5
    <2>6. CASE c.name # r[1]
      BY <2>1, <2>2, <2>4, <2>6
    <2> QED BY <2>5, <2>6
  <1>10. ASSUME NEW c \in Current[Main], Origin(Main, c.name) # None
         PROVE  \E x \in R : x.holds = Origin(Main, c.name)
    <2>1. PICK d \in T : d.holds = Origin(Main, c.name)
      BY <1>10 DEF Faithful
    <2> QED BY <1>2, <2>1
  <1> QED BY <1>7, <1>9, <1>10 DEF Faithful

\* A column that is lacking has no rows to lose: if there were any, the column
\* would be there, under this name or one that is renamed first.
LEMMA AddedFaithful ==
    ASSUME NEW t \in DOMAIN Current, NEW T \in SUBSET Columns, Faithful(t, T), NEW c \in Current[t],
           c.name \notin NamesOf(T),
           t = Main => \A r \in Renames : r[1] \in NamesOf(T) => r[2] \in NamesOf(T)
    PROVE  Faithful(t, T \cup {Column(c.name, c.type, None)})
  <1> DEFINE x == Column(c.name, c.type, None)
             R == T \cup {x}
  <1>1. x.name = c.name /\ x.holds = None
    BY AddedFacts
  <1> HIDE DEF x
  <1>2. \A d \in T : d.name # c.name
    BY DEF NamesOf
  <1>3. \A d, e \in R : d.name = e.name => d = e
    BY <1>1, <1>2 DEF Faithful
  <1>4. \/ Origin(t, c.name) = None
        \/ t = Main /\ c.name = Move[2] /\ Move[1] \in NamesOf(T)
    <2> SUFFICES ASSUME Origin(t, c.name) # None
                 PROVE  t = Main /\ c.name = Move[2] /\ Move[1] \in NamesOf(T)
      OBVIOUS
    <2>1. PICK d \in T : d.holds = Origin(t, c.name)
      BY DEF Faithful
    <2>2. Origin(t, d.name) = Origin(t, c.name) /\ d.name # c.name
      BY <1>2, <2>1, FaithfulHolds
    <2>3. t = Main
      <3> SUFFICES ASSUME t # Main PROVE FALSE
        OBVIOUS
      <3>1. <<OriginTable(t), d.name>> = <<OriginTable(t), c.name>>
        BY <2>2, ChildOrigin
      <3>2. d.name = c.name
        BY ONLY <3>1
      <3> QED BY <2>2, <3>2
    <2>4. c.name \in NamesOf(Current[Main]) /\ d.name \in NamesOf(T)
      BY <2>3 DEF NamesOf
    <2>5. \A r \in Renames : {d.name, c.name} # {r[1], r[2]}
      BY <2>2, <2>3, <2>4, RenamesAssumption DEF Retires
    <2>6. {d.name, c.name} = {Move[1], Move[2]}
      BY <2>2, <2>3, <2>5, SameOrigin
    <2>7. c.name # Move[1]
      BY <2>4, MoveAssumption
    <2> QED BY <2>3, <2>4, <2>6, <2>7
  <1>5. NamesOf(T) \subseteq NamesOf(R)
    BY DEF NamesOf
  <1>6. \A d \in R : \/ d.holds = Origin(t, d.name)
                     \/ t = Main /\ d.name = Move[2] /\ d.holds = None /\ Move[1] \in NamesOf(R)
    BY <1>1, <1>4, <1>5 DEF Faithful
  <1>7. \A e \in Current[t] :
           Origin(t, e.name) # None => \E d \in R : d.holds = Origin(t, e.name)
    BY DEF Faithful
  <1> QED BY <1>3, <1>6, <1>7 DEF Faithful, x

\* The transform gives the derived column, while it is empty, the rows of its
\* source.
LEMMA FilledFaithful ==
    ASSUME NEW T \in SUBSET Columns, Faithful(Main, T)
    PROVE  Faithful(Main, Filled(T)) /\ Full(Main, Filled(T))
  <1> DEFINE h == Held(T, Move[1])
             F(c) == IF c.name = Move[2] /\ c.holds = None THEN [c EXCEPT !.holds = h] ELSE c
             R == {F(c) : c \in T}
  <1>1. Filled(T) = R
    BY DEF Filled
  <1>2. h \in Origins \cup {None}
    BY HeldFacts
  <1>3. \A c, d \in T : c.name = d.name => c = d
    BY DEF Faithful
  <1>4. ASSUME NEW c \in T, c.name = Move[2], c.holds = None PROVE h = Origin(Main, Move[2])
    <2>1. CASE Move[1] \notin NamesOf(T)
      <3>1. h = None
        BY <2>1, HeldFacts
      <3> QED BY <1>4, <2>1, <3>1 DEF Faithful
    <2>2. CASE Move[1] \in NamesOf(T)
      <3>1. PICK m \in T : m.name = Move[1]
        BY <2>2 DEF NamesOf
      <3>2. h = m.holds
        BY <1>3, <3>1, HeldFacts
      <3>3. m.holds = Origin(Main, Move[1])
        BY <3>1, MoveAssumption DEF Faithful
      <3> QED BY <3>2, <3>3, MainOrigin, MoveAssumption DEF OldNames
    <2> QED BY <2>1, <2>2
  <1> HIDE DEF h
  <1>5. \A c \in T : /\ F(c).name = c.name
                     /\ c.name = Move[2] /\ c.holds = None => F(c).holds = h
                     /\ ~(c.name = Move[2] /\ c.holds = None) => F(c) = c
    BY <1>2, ColumnFacts
  <1> HIDE DEF F
  <1>6. \A x, y \in R : x.name = y.name => x = y
    BY <1>3, <1>5
  <1>7. \A c \in T : F(c).holds = Origin(Main, F(c).name)
    <2> TAKE c \in T
    <2>1. CASE c.name = Move[2] /\ c.holds = None
      BY <1>4, <1>5, <2>1
    <2>2. CASE ~(c.name = Move[2] /\ c.holds = None)
      BY <1>5, <2>2 DEF Faithful
    <2> QED BY <2>1, <2>2
  <1>8. Full(Main, R)
    BY <1>7 DEF Full
  <1>9. ASSUME NEW e \in Current[Main], Origin(Main, e.name) # None
        PROVE  \E x \in R : x.holds = Origin(Main, e.name)
    <2>1. PICK d \in T : d.holds = Origin(Main, e.name)
      BY <1>9 DEF Faithful
    <2>2. d.holds = Origin(Main, d.name)
      BY <1>9, <2>1, FaithfulHolds
    <2>3. F(d) \in R /\ F(d).holds = Origin(Main, d.name)
      BY <1>5, <1>7
    <2> QED BY <2>1, <2>2, <2>3
  <1>10. Faithful(Main, R)
    BY <1>6, <1>8, <1>9 DEF Faithful, Full
  <1> QED BY <1>1, <1>8, <1>10

\* Without its source the derived column has its rows.
LEMMA UnfilledFull ==
    ASSUME NEW t, NEW T, Faithful(t, T), t # Main \/ Move[1] \notin NamesOf(T)
    PROVE  Full(t, T)
  BY DEF Faithful, Full

\* A stray column goes when the declared ones have their rows.
LEMMA DroppedFaithful ==
    ASSUME NEW T, Faithful(Main, T), Full(Main, T), NEW c \in T, c.name \notin NamesOf(Current[Main]),
           \A d \in Current[Main] : d.name \in NamesOf(T)
    PROVE  Faithful(Main, T \ {c}) /\ Full(Main, T \ {c})
  <1>1. ASSUME NEW e \in Current[Main], Origin(Main, e.name) # None
        PROVE  \E x \in T \ {c} : x.holds = Origin(Main, e.name)
    <2>1. PICK x \in T : x.name = e.name
      BY DEF NamesOf
    <2>2. x # c
      BY <2>1 DEF NamesOf
    <2> QED BY <2>1, <2>2 DEF Full
  <1>2. Full(Main, T \ {c})
    BY DEF Full
  <1>3. \A d, e \in T \ {c} : d.name = e.name => d = e
    BY DEF Faithful
  <1> QED BY <1>1, <1>2, <1>3 DEF Faithful, Full

\* A copy into a table of the declared shape has the rows.
LEMMA CopiedFaithful ==
    ASSUME NEW t \in DOMAIN Current, NEW T \in SUBSET Columns, NEW S \in SUBSET Columns,
           Faithful(t, T), Full(t, T), Shape(S) = Current[t],
           t = Main => \A d \in Current[t] : d.name \in NamesOf(T)
    PROVE  Faithful(t, Copied(T, S))
  <1> DEFINE R == Copied(T, S)
  <1>1. /\ R \in SUBSET Columns /\ Shape(R) = Current[t]
        /\ \A x \in R : x.holds = Held(T, x.name)
    BY CopiedFacts
  <1> HIDE DEF R
  <1>2. NamesOf(R) = NamesOf(Current[t])
        /\ \A c \in R, d \in Current[t] : c.name = d.name => c.type = d.type
    BY <1>1, ShapeFacts
  <1>3. \A x, y \in R : x.name = y.name => x = y
    <2> SUFFICES ASSUME NEW x \in R, NEW y \in R, x.name = y.name PROVE x = y
      OBVIOUS
    <2>1. PICK d \in Current[t] : x.name = d.name
      BY <1>2 DEF NamesOf
    <2>2. x.type = y.type /\ x.holds = y.holds
      BY <1>1, <1>2, <2>1
    <2>3. x \in Columns /\ y \in Columns
      BY <1>1
    <2> QED BY <2>2, <2>3 DEF Columns
  <1>4. \A x \in R : x.holds = Origin(t, x.name)
    <2> TAKE x \in R
    <2>1. PICK e \in Current[t] : e.name = x.name
      BY <1>2 DEF NamesOf
    <2>2. CASE x.name \in NamesOf(T)
      <3>1. PICK c \in T : c.name = x.name
        BY <2>2 DEF NamesOf
      <3>2. \A d \in T : d.name = x.name => d = c
        BY <3>1 DEF Faithful
      <3>3. Held(T, x.name) = c.holds
        BY <3>1, <3>2, HeldFacts
      <3> QED BY <1>1, <3>1, <3>3 DEF Full
    <2>3. CASE x.name \notin NamesOf(T)
      <3>1. x.holds = None /\ t # Main
        BY <1>1, <2>1, <2>3, HeldFacts
      <3>2. ASSUME Origin(t, x.name) # None PROVE FALSE
        <4>1. PICK d \in T : d.holds = Origin(t, x.name)
          BY <2>1, <3>2 DEF Faithful
        <4>2. Origin(t, d.name) = Origin(t, x.name)
          BY <4>1 DEF Full
        <4>3. <<OriginTable(t), d.name>> = <<OriginTable(t), x.name>>
          BY <3>1, <3>2, <4>2, ChildOrigin
        <4>4. d.name = x.name
          BY ONLY <4>3
        <4> QED BY <2>3, <4>4 DEF NamesOf
      <3> QED BY <3>1, <3>2
    <2> QED BY <2>2, <2>3
  <1>5. \A e \in Current[t] : \E x \in R : x.holds = Origin(t, e.name)
    <2> TAKE e \in Current[t]
    <2>1. PICK x \in R : x.name = e.name
      BY <1>2 DEF NamesOf
    <2> QED BY <1>4, <2>1
  <1> QED BY <1>3, <1>4, <1>5 DEF Faithful, R

\* A table with no old rows may be made empty.
LEMMA FreshFaithful ==
    ASSUME NEW t \in DOMAIN Current, t # Main, OriginTable(t) \notin DOMAIN Old
    PROVE  Faithful(t, Fresh(t))
  BY FreshFacts, ChildOrigin DEF Faithful

\* An origin is a column of the old database.
LEMMA OriginIsOld ==
    ASSUME NEW t \in DOMAIN Current, NEW n
    PROVE  Origin(t, n) # None =>
              /\ OriginTable(t) \in DOMAIN Old
              /\ \E o \in NamesOf(Old[OriginTable(t)]) : Origin(t, n) = <<OriginTable(t), o>>
  <1>1. CASE t = Main
    BY <1>1, MainOrigin, ConstantsAssumption DEF OldNames
  <1>2. CASE t # Main
    BY <1>2 DEF Origin
  <1> QED BY <1>1, <1>2

\* The rows before the first start.
OldTable(u) == {Column(c.name, c.type, <<u, c.name>>) : c \in Old[u]}
LEMMA OldFaithful ==
    ASSUME NEW t \in DOMAIN Current, OriginTable(t) \in DOMAIN Old
    PROVE  Faithful(t, OldTable(OriginTable(t)))
  <1> DEFINE u == OriginTable(t)
  <1>1. \A n \in NamesOf(Old[u]) : Origin(t, n) = <<u, n>>
    BY DEF Origin
  <1>2. \A x \in OldTable(u) : \E c \in Old[u] : x = Column(c.name, c.type, <<u, c.name>>)
    BY DEF OldTable
  <1>3. \A n \in NamesOf(Old[u]) : \E x \in OldTable(u) : x.holds = <<u, n>>
    <2> TAKE n \in NamesOf(Old[u])
    <2>1. PICK c \in Old[u] : c.name = n
      BY DEF NamesOf
    <2>2. Column(c.name, c.type, <<u, c.name>>) \in OldTable(u)
      BY DEF OldTable
    <2>3. Column(c.name, c.type, <<u, c.name>>).holds = <<u, n>>
      BY <2>1 DEF Column
    <2> QED BY <2>2, <2>3
  <1> HIDE DEF u
  <1>4. \A x \in OldTable(u) : x.holds = Origin(t, x.name)
    BY <1>1, <1>2 DEF Column, NamesOf
  <1>5. \A x, y \in OldTable(u) : x.name = y.name => x = y
    <2>1. \A c, d \in Old[u] : c.name = d.name => c = d
      BY SchemaAssumption DEF u
    <2> QED BY <1>2, <2>1 DEF Column
  <1>6. \A e \in Current[t] :
           Origin(t, e.name) # None => \E x \in OldTable(u) : x.holds = Origin(t, e.name)
    BY <1>3, OriginIsOld DEF u
  <1> QED BY <1>4, <1>5, <1>6 DEF Faithful, u

-----------------------------------------------------------------------------
(* The rows, action by action. *)

\* The old database has its rows.
LEMMA InitRows == Init => Rows
  <1> SUFFICES ASSUME Init PROVE Rows
    OBVIOUS
  <1>1. pc = "off" /\ db.tables = OldTables /\ work.tables = OldTables
    BY DEF Init
  <1>2. \A t \in Tables :
            /\ t \in DOMAIN Old => OldTables[Live(t)] = OldTable(t)
            /\ t \notin DOMAIN Old => OldTables[Live(t)] = NoTable
    <2> TAKE t \in Tables
    <2>1. Live(t) \in Names /\ Live(t)[1] = t /\ Live(t)[2] = "live"
      BY NameFacts DEF Live
    <2> QED BY <2>1 DEF OldTables, OldTable
  <1>3. \A u \in DOMAIN Old : OldTable(u) # NoTable
    <2> TAKE u \in DOMAIN Old
    <2>1. \A x \in OldTable(u) : x \in Columns
      <3>1. \A c \in Old[u] : Column(c.name, c.type, <<u, c.name>>) \in Columns
        <4>1. \A c \in Old[u] : <<u, c.name>> \in Origins
          BY DEF Origins
        <4>2. Old[u] \in Schemas
          BY DEF Schemas
        <4> QED BY <4>1, <4>2 DEF Column, Columns, NamesOf
      <3> QED BY <3>1 DEF OldTable
    <2> QED BY <2>1, TableFacts
  <1>4. KeptIn(OldTables)
    <2> SUFFICES ASSUME NEW t \in DOMAIN Current
                 PROVE  /\ OldTables[Live(t)] # NoTable => Faithful(t, OldTables[Live(t)])
                        /\ OldTables[Live(t)] = NoTable /\ OriginTable(t) \in DOMAIN Old =>
                              /\ OriginTable(t) # t
                              /\ OldTables[Live(OriginTable(t))] # NoTable
                              /\ Faithful(t, OldTables[Live(OriginTable(t))])
      BY DEF KeptIn
    <2>1. CASE t \in DOMAIN Old
      BY <1>2, <1>3, <2>1, OriginTableFacts, OldFaithful, NameFacts
    <2>2. CASE t \notin DOMAIN Old
      BY <1>2, <1>3, <2>2, OldFaithful, NameFacts
    <2> QED BY <2>1, <2>2
  <1> QED BY <1>1, <1>4 DEF Rows, View

\* Outside of a C++ swap the rows are on disk.
LEMMA DbKept ==
    ASSUME IInv, Rows, "swap" \notin cut, engine = "python" \/ pc # "swap"
    PROVE  KeptIn(db.tables)
  <1>1. CASE engine = "python"
    BY <1>1 DEF Rows
  <1>2. CASE engine # "python"
    <2>1. engine = "cpp" /\ pc # "swap"
      BY <1>2 DEF IInv, Types
    <2>2. work = db /\ View = work.tables
      BY <2>1 DEF IInv, Sessions, View
    <2> QED BY <2>2 DEF Rows
  <1> QED BY <1>1, <1>2

\* A statement that keeps the session's rows.
LEMMA StatementRows ==
    ASSUME IInv, Rows, engine' = engine, cut' = cut, pc' # "swap",
           db' = IF engine = "cpp" THEN work' ELSE db,
           "swap" \notin cut => KeptIn(work'.tables),
           "swap" \notin cut =>
               /\ pc' \in {"drop", "types"} \/ (at' = Main /\ pc' \in {"copy", "droptable"}) =>
                     Full(Main, work'.tables[Live(Main)])
               /\ pc' = "droptable" => Faithful(at', work'.tables[Tmp(at')])
    PROVE  Rows'
  <1>1. View' = work'.tables
    BY DEF View
  <1>2. "swap" \notin cut /\ engine = "python" => KeptIn(db'.tables)
    BY DEF Rows
  <1> QED BY <1>1, <1>2 DEF Rows, Table

\* One table among those that are all there is written.
LEMMA KeptWrite ==
    ASSUME NEW W, KeptIn(W), NEW X, NEW u \in DOMAIN Current,
           \A t \in DOMAIN Current : t # u => W[Live(t)] # NoTable /\ X[Live(t)] = W[Live(t)],
           X[Live(u)] # NoTable, Faithful(u, X[Live(u)])
    PROVE  KeptIn(X)
  BY DEF KeptIn

\* Steps that execute no statement.
LEMMA QuietRows ==
    ASSUME IInv, Rows, UNCHANGED <<engine, db, work, cut>>, pc # "swap",
           pc' \notin {"drop", "copy", "droptable", "swap"}, pc' = "types" => pc = "drop"
    PROVE  Rows'
  <1>1. View = work.tables /\ View' = work.tables
    BY DEF View
  <1>2. Table(Live(Main))' = Table(Live(Main))
    BY DEF Table
  <1>3. "swap" \notin cut /\ pc' = "types" => Full(Main, Table(Live(Main))')
    BY <1>2 DEF Rows
  <1> QED BY <1>1, <1>3 DEF Rows

\* A child table that takes its new name takes its rows with it.
LEMMA RenameChildRows == IInv /\ Rows /\ RenameChild => Rows'
  <1> SUFFICES ASSUME IInv, Rows, RenameChild PROVE Rows'
    OBVIOUS
  <1>1. Types /\ Looked /\ pc = "childrename" /\ pc' = pc /\ UNCHANGED <<engine, at, cut, cuts>>
    BY DEF IInv, RenameChild
  <1>2. PICK r \in RenamedChildren : RenameTable(Live(r[1]), Live(r[2]))
    BY DEF RenameChild
  <1>3. r \in ChildRenames /\ Live(r[1]) \in childHave /\ Live(r[2]) \notin childHave
    BY DEF RenamedChildren
  <1>4. /\ r[2] \in DOMAIN Current \ {Main} /\ r[1] # r[2] /\ r[1] \notin DOMAIN Current /\ r[1] # Main
        /\ \A q \in ChildRenames : q[1] = r[1] <=> q[2] = r[2]
    BY <1>3, RenamesAssumption DEF Retires
  <1>5. /\ childHave = {n \in Children : Exists(n)}
        /\ Live(r[1]) \in Children /\ Live(r[2]) \in Children
        /\ Live(r[1]) \in Names /\ Live(r[2]) \in Names /\ Live(r[1]) # Live(r[2])
    BY <1>1, <1>3, <1>4, NameFacts DEF Looked
  <1>6. /\ work'.tables[Live(r[1])] = NoTable /\ work'.tables[Live(r[2])] = work.tables[Live(r[1])]
        /\ \A k \in Names : k # Live(r[1]) /\ k # Live(r[2]) => work'.tables[k] = work.tables[k]
        /\ db' = IF engine = "cpp" THEN work' ELSE db
    BY <1>1, <1>2, <1>5, RenameFacts
  <1>7. work.tables[Live(r[1])] # NoTable /\ work.tables[Live(r[2])] = NoTable
    BY <1>3, <1>5 DEF Exists, Table
  <1>8. r[1] \in DOMAIN Old
    <2>1. r[1] \in Tables
      BY <1>5 DEF Names, Live, Tmp
    <2> QED BY <1>4, <2>1 DEF Tables
  <1>9. ASSUME "swap" \notin cut PROVE KeptIn(work'.tables)
    <2>1. KeptIn(work.tables)
      BY <1>1, <1>9 DEF Rows, View
    <2>2. r[2] \notin DOMAIN Old /\ OriginTable(r[2]) = r[1]
      <3>1. r[2] \in DOMAIN Old => OriginTable(r[2]) = r[2]
        BY OriginTableFacts
      <3>2. r[2] \notin DOMAIN Old
        BY <1>4, <1>7, <2>1, <3>1 DEF KeptIn
      <3> QED BY <1>3, <1>8, <3>2, OriginTableFacts
    <2>3. Faithful(r[2], work'.tables[Live(r[2])])
      BY <1>4, <1>6, <1>7, <1>8, <2>1, <2>2 DEF KeptIn
    <2>4. ASSUME NEW t \in DOMAIN Current, t # r[2]
          PROVE  /\ work'.tables[Live(t)] = work.tables[Live(t)]
                 /\ OriginTable(t) \in DOMAIN Old /\ work'.tables[Live(t)] = NoTable =>
                       work'.tables[Live(OriginTable(t))] = work.tables[Live(OriginTable(t))]
      <3>1. t # r[1]
        BY <1>4
      <3>2. work'.tables[Live(t)] = work.tables[Live(t)]
        BY <1>6, <2>4, <3>1, NameFacts
      <3>3. OriginTable(t) # r[1] /\ OriginTable(t) # r[2]
        <4>1. CASE OriginTable(t) = t
          BY <2>4, <3>1, <4>1
        <4>2. CASE OriginTable(t) # t
          <5>1. PICK q \in ChildRenames : q[1] = OriginTable(t) /\ q[2] = t
            BY <4>2, OriginTableFacts
          <5>2. q[1] \notin DOMAIN Current
            BY RenamesAssumption DEF Retires
          <5> QED BY <1>4, <2>4, <5>1, <5>2
        <4> QED BY <4>1, <4>2
      <3> QED BY <1>6, <3>2, <3>3, NameFacts
    <2> QED BY <1>6, <1>7, <2>1, <2>3, <2>4 DEF KeptIn
  <1> QED BY <1>1, <1>6, <1>9, StatementRows

\* A table is made empty only when there are no rows for it.
LEMMA CreateTableRows == IInv /\ Rows /\ CreateTable => Rows'
  <1> SUFFICES ASSUME IInv, Rows, CreateTable PROVE Rows'
    OBVIOUS
  <1>1. Types /\ Evolved /\ pc = "create" /\ pc' = pc /\ UNCHANGED <<engine, at, childHave, cut, cuts>>
    BY DEF IInv, CreateTable, Stay
  <1>2. PICK u \in Missing : Write(Live(u), Fresh(u))
    BY DEF CreateTable
  <1>3. u \in DOMAIN Current /\ work.tables[Live(u)] = NoTable /\ Live(u) \in Names
    BY NameFacts DEF Missing, Exists, Table
  <1>4. /\ work'.tables[Live(u)] = Fresh(u)
        /\ \A m \in Names : m # Live(u) => work'.tables[m] = work.tables[m]
        /\ db' = IF engine = "cpp" THEN work' ELSE db
    BY <1>1, <1>2, <1>3, WriteFacts, FreshFacts
  <1>5. ASSUME "swap" \notin cut PROVE KeptIn(work'.tables)
    <2>1. KeptIn(work.tables)
      BY <1>1, <1>5 DEF Rows, View
    <2>2. OriginTable(u) \notin DOMAIN Old
      <3> SUFFICES ASSUME OriginTable(u) \in DOMAIN Old PROVE FALSE
        OBVIOUS
      <3>1. OriginTable(u) # u /\ work.tables[Live(OriginTable(u))] # NoTable
        BY <1>3, <2>1 DEF KeptIn
      <3>2. PICK r \in ChildRenames : r[1] = OriginTable(u) /\ r[2] = u
        BY <3>1, OriginTableFacts
      <3>3. Live(r[1]) \in Names /\ Exists(Live(r[1]))
        BY <3>1, <3>2, NameFacts DEF Exists, Table
      <3> QED BY <1>1, <1>3, <3>2, <3>3 DEF Evolved, Exists, Table
    <2>3. u # Main
      BY <2>2, OriginTableFacts, ConstantsAssumption
    <2>4. Faithful(u, work'.tables[Live(u)])
      BY <1>3, <1>4, <2>2, <2>3, FreshFaithful
    <2>5. ASSUME NEW t \in DOMAIN Current, t # u
          PROVE  /\ work'.tables[Live(t)] = work.tables[Live(t)]
                 /\ OriginTable(t) \in DOMAIN Old /\ work'.tables[Live(t)] = NoTable =>
                       work'.tables[Live(OriginTable(t))] = work.tables[Live(OriginTable(t))]
      <3>1. work'.tables[Live(t)] = work.tables[Live(t)]
        BY <1>4, <2>5, NameFacts
      <3>2. OriginTable(t) \in DOMAIN Old => OriginTable(t) # u
        BY <2>2, OriginTableFacts
      <3> QED BY <1>4, <3>1, <3>2, NameFacts
    <2>6. work'.tables[Live(u)] # NoTable
      BY <1>3, <1>4, FreshFacts, TableFacts
    <2> QED BY <2>1, <2>4, <2>5, <2>6 DEF KeptIn
  <1> QED BY <1>1, <1>4, <1>5, StatementRows

\* A statement on the columns of the table that is evolved.
LEMMA LiveWriteRows ==
    ASSUME IInv, Rows, NEW T \in SUBSET Columns, Write(Live(at), T),
           UNCHANGED <<engine, at, cut>>,
           pc \in {"rename", "add", "transform", "drop", "childadd"},
           pc' = pc \/ (pc = "transform" /\ pc' = "drop"),
           "swap" \notin cut => Faithful(at, T),
           "swap" \notin cut /\ pc' = "drop" => Full(Main, T)
    PROVE  Rows'
  <1>1. Types /\ Evolved /\ Order /\ at \in DOMAIN Current /\ Live(at) \in Names /\ Running
    BY NameFacts DEF IInv, Types, Running
  <1>2. /\ work'.tables[Live(at)] = T
        /\ \A m \in Names : m # Live(at) => work'.tables[m] = work.tables[m]
        /\ db' = IF engine = "cpp" THEN work' ELSE db
    BY <1>1, WriteFacts
  <1>3. \A t \in DOMAIN Current : t # at =>
            work.tables[Live(t)] # NoTable /\ work'.tables[Live(t)] = work.tables[Live(t)]
    BY <1>1, <1>2, NameFacts DEF Evolved, Exists, Table
  <1>4. ASSUME "swap" \notin cut PROVE KeptIn(work'.tables)
    <2>1. KeptIn(work.tables)
      BY <1>4 DEF Rows, View
    <2>2. T # NoTable
      BY TableFacts
    <2> QED BY <1>1, <1>2, <1>3, <1>4, <2>1, <2>2, KeptWrite
  <1>5. pc' = "drop" => at = Main
    BY <1>1 DEF Order
  <1>6. pc' \notin {"swap", "copy", "droptable", "types"}
    OBVIOUS
  <1> QED BY <1>2, <1>4, <1>5, <1>6, StatementRows

\* What the session has of the table that is evolved.
LEMMA FaithfulNow ==
    ASSUME IInv, Rows, "swap" \notin cut, Running, pc \notin {"childrename", "create", "swap"},
           NEW t \in DOMAIN Current
    PROVE  Faithful(t, Table(Live(t)))
  <1>1. KeptIn(work.tables) /\ Exists(Live(t))
    BY DEF Rows, View, IInv, Evolved
  <1> QED BY <1>1 DEF KeptIn, Exists, Table

\* Once nothing is lacking, the main table has every declared column.
LEMMA AllNamed ==
    ASSUME Kin, Lacking(Main) = {}, pc \in {"drop", "types"} \/ (pc = "copy" /\ at = Main)
    PROVE  \A d \in Current[Main] : d.name \in NamesOf(Table(Live(Main)))
  <1>1. \A d \in Current[Main] : d.name = Key \/ d.name \in Addable(Main)
    BY DEF Addable, NamesOf
  <1>2. Key \in NamesOf(Table(Live(Main)))
    BY DEF Kin
  <1> QED BY <1>1, <1>2 DEF Lacking

\* The statements on columns keep the rows.
LEMMA ColumnRows ==
    ASSUME IInv, Kin, Rows, RenameColumn \/ AddColumn \/ Transform \/ DropColumn
    PROVE  Rows'
  <1>1. Types /\ Order /\ Evolved /\ at \in DOMAIN Current
    BY DEF IInv, Types
  <1>2. CASE RenameColumn
    <2>1. pc = "rename" /\ pc' = pc /\ UNCHANGED <<engine, at, cut>> /\ Running /\ at = Main
      BY <1>1, <1>2 DEF RenameColumn, Stay, Running, Order
    <2>2. PICK r \in RenamedColumns : Write(Live(Main), Renamed(Table(Live(Main)), r))
      BY <1>2 DEF RenameColumn, Renamed
    <2>3. Table(Live(Main)) \in SUBSET Columns /\ r \in Renames
          /\ r[1] \in NamesOf(Table(Live(Main))) /\ r[2] \notin NamesOf(Table(Live(Main)))
      BY <2>1, LiveTable, NameFacts DEF RenamedColumns
    <2>4. Renamed(Table(Live(Main)), r) \in SUBSET Columns
      BY <2>3, RenamedFacts
    <2>5. "swap" \notin cut => Faithful(Main, Renamed(Table(Live(Main)), r))
      BY <2>1, <2>3, RenamedFaithful, FaithfulNow, NameFacts
    <2> QED BY <2>1, <2>2, <2>4, <2>5, LiveWriteRows
  <1>3. CASE AddColumn
    <2>1. pc \in {"add", "childadd"} /\ pc' = pc /\ UNCHANGED <<engine, at, cut>> /\ Running
      BY <1>3 DEF AddColumn, Stay, Running
    <2>2. PICK c \in Lacking(at) :
              Write(Live(at), Table(Live(at)) \cup {Column(c.name, c.type, None)})
      BY <1>3 DEF AddColumn
    <2>3. Table(Live(at)) \in SUBSET Columns /\ c \in Current[at]
          /\ c.name \notin NamesOf(Table(Live(at)))
      BY <1>1, <2>1, LiveTable DEF Lacking
    <2>4. Table(Live(at)) \cup {Column(c.name, c.type, None)} \in SUBSET Columns
      BY <1>1, <2>3, AddedFacts
    <2>5. at = Main => \A r \in Renames : r[1] \in NamesOf(Table(Live(at))) =>
                                             r[2] \in NamesOf(Table(Live(at)))
      BY <1>1, <2>1 DEF Order, Evolved, RenamedColumns
    <2>6. "swap" \notin cut => Faithful(at, Table(Live(at)) \cup {Column(c.name, c.type, None)})
      BY <1>1, <2>1, <2>3, <2>5, AddedFaithful, FaithfulNow
    <2> QED BY <2>1, <2>2, <2>4, <2>6, LiveWriteRows
  <1>4. CASE Transform
    <2> DEFINE T == Table(Live(Main))
    <2>1. pc = "transform" /\ pc' = "drop" /\ UNCHANGED <<engine, at, cut>> /\ Running /\ at = Main
      BY <1>1, <1>4 DEF Transform, Goto, Running, Order
    <2>2. T \in SUBSET Columns /\ ("swap" \notin cut => Faithful(Main, T))
      BY <2>1, LiveTable, FaithfulNow, NameFacts
    <2>3. Write(Live(Main), Filled(T))
      BY <1>4 DEF Transform, Filled
    <2>4. Filled(T) \in SUBSET Columns
      BY <2>2, FilledFacts
    <2>5. "swap" \notin cut => Faithful(Main, Filled(T)) /\ Full(Main, Filled(T))
      BY <2>2, FilledFaithful
    <2> HIDE DEF T
    <2> QED BY <2>1, <2>3, <2>4, <2>5, LiveWriteRows
  <1>5. CASE DropColumn
    <2> DEFINE T == Table(Live(Main))
    <2>1. pc = "drop" /\ pc' = pc /\ UNCHANGED <<engine, at, cut>> /\ Running /\ at = Main
          /\ Lacking(Main) = {}
      BY <1>1, <1>5 DEF DropColumn, Stay, Running, Order, Evolved
    <2>2. PICK c \in Strays(Main) : Write(Live(Main), T \ {c})
      BY <1>5 DEF DropColumn
    <2>3. T \in SUBSET Columns /\ c \in T /\ c.name \notin NamesOf(Current[Main])
      BY <2>1, LiveTable, NameFacts DEF Strays
    <2>4. \A d \in Current[Main] : d.name \in NamesOf(T)
      BY <2>1, AllNamed
    <2>5. "swap" \notin cut => Faithful(Main, T) /\ Full(Main, T)
      BY <2>1, FaithfulNow, NameFacts DEF Rows
    <2> HIDE DEF T
    <2>6. "swap" \notin cut => Faithful(Main, T \ {c}) /\ Full(Main, T \ {c})
      BY <2>3, <2>4, <2>5, DroppedFaithful
    <2>7. T \ {c} \in SUBSET Columns
      BY <2>3
    <2> QED BY <2>1, <2>2, <2>6, <2>7, LiveWriteRows
  <1> QED BY <1>2, <1>3, <1>4, <1>5

\* Making the rebuild's table, or failing to, leaves the rows where they are.
LEMMA MakeTmpRows == IInv /\ Rows /\ MakeTmp => Rows'
  <1> SUFFICES ASSUME IInv, Rows, MakeTmp PROVE Rows'
    OBVIOUS
  <1>1. /\ Types /\ Order /\ Evolved /\ pc \in {"types", "childadd"}
        /\ UNCHANGED <<engine, at, childHave, cut, cuts>>
    BY DEF IInv, MakeTmp, EvolveNow, Goto
  <1>2. at \in DOMAIN Current /\ Running /\ Tmp(at) \in Names
    BY <1>1, NameFacts DEF Types, Running
  <1>3. CASE Exists(Tmp(at))
    <2>1. pc' = "failed" /\ work' = db /\ db' = db
      BY <1>3 DEF MakeTmp, Goto
    <2>2. "swap" \notin cut => KeptIn(db.tables)
      BY <1>1, DbKept
    <2>3. View' = db.tables
      BY <2>1 DEF View
    <2> QED BY <1>1, <2>1, <2>2, <2>3 DEF Rows
  <1>4. CASE ~Exists(Tmp(at))
    <2>1. pc' = "copy" /\ Write(Tmp(at), Fresh(at))
      BY <1>4 DEF MakeTmp, Goto
    <2>2. /\ \A m \in Names : m # Tmp(at) => work'.tables[m] = work.tables[m]
          /\ db' = IF engine = "cpp" THEN work' ELSE db
      BY <1>1, <1>2, <2>1, WriteFacts, FreshFacts
    <2>3. \A t \in Tables : work'.tables[Live(t)] = work.tables[Live(t)]
      BY <2>2, NameFacts
    <2>4. ASSUME "swap" \notin cut PROVE KeptIn(work'.tables)
      <3>1. KeptIn(work.tables)
        BY <1>1, <2>4 DEF Rows, View
      <3> QED BY <2>3, <3>1, NameFacts DEF KeptIn
    <2>5. "swap" \notin cut /\ at = Main => Full(Main, work'.tables[Live(Main)])
      <3>1. at = Main => pc = "types"
        BY <1>1 DEF Order
      <3> QED BY <2>3, <3>1, NameFacts DEF Rows, Table
    <2> QED BY <1>1, <2>1, <2>2, <2>4, <2>5, StatementRows
  <1> QED BY <1>3, <1>4

\* The copy has the rows, and the table still has them.
LEMMA CopyRowsRows == IInv /\ Kin /\ Rows /\ CopyRows => Rows'
  <1> SUFFICES ASSUME IInv, Kin, Rows, CopyRows PROVE Rows'
    OBVIOUS
  <1>1. /\ Types /\ Order /\ Evolved /\ pc = "copy" /\ pc' = "droptable"
        /\ UNCHANGED <<engine, at, childHave, cut, cuts>>
        /\ Write(Tmp(at), Copied(Table(Live(at)), Table(Tmp(at))))
    BY DEF IInv, CopyRows, Goto, Copied
  <1>2. /\ at \in DOMAIN Current /\ Running /\ Tmp(at) \in Names /\ Lacking(at) = {}
        /\ Exists(Tmp(at)) /\ Shape(Table(Tmp(at))) = Current[at]
    BY <1>1, NameFacts DEF Types, Running, Rebuilding, Evolved
  <1>3. Table(Live(at)) \in SUBSET Columns /\ Table(Tmp(at)) \in SUBSET Columns
    <2>1. Table(Tmp(at)) \in SUBSET Columns
      BY <1>1, <1>2 DEF Exists, Table, Types, Databases
    <2> QED BY <1>1, <1>2, <2>1, LiveTable
  <1> DEFINE T == Table(Live(at))
             S == Table(Tmp(at))
  <1>4. Copied(T, S) \in SUBSET Columns
    BY <1>3, CopiedFacts
  <1>5. /\ work'.tables[Tmp(at)] = Copied(T, S)
        /\ \A m \in Names : m # Tmp(at) => work'.tables[m] = work.tables[m]
        /\ db' = IF engine = "cpp" THEN work' ELSE db
    BY <1>1, <1>2, <1>4, WriteFacts
  <1>6. \A t \in Tables : work'.tables[Live(t)] = work.tables[Live(t)]
    BY <1>5, NameFacts
  <1>7. ASSUME "swap" \notin cut
        PROVE  /\ KeptIn(work'.tables) /\ Faithful(at, Copied(T, S))
               /\ at = Main => Full(Main, work'.tables[Live(Main)])
    <2>1. KeptIn(work.tables)
      BY <1>1, <1>7 DEF Rows, View
    <2>2. KeptIn(work'.tables)
      BY <1>6, <2>1, NameFacts DEF KeptIn
    <2>3. Faithful(at, T)
      BY <1>1, <1>2, <1>7, FaithfulNow
    <2>4. at = Main => Full(Main, Table(Live(Main)))
      BY <1>1, <1>7 DEF Rows
    <2>5. Full(at, T)
      BY <2>3, <2>4, UnfilledFull
    <2>6. at = Main => \A d \in Current[at] : d.name \in NamesOf(T)
      BY <1>1, <1>2, AllNamed
    <2>7. Faithful(at, Copied(T, S))
      BY <1>2, <1>3, <2>3, <2>5, <2>6, CopiedFaithful
    <2>8. at = Main => Full(Main, work'.tables[Live(Main)])
      BY <1>6, <2>4, NameFacts DEF Table
    <2> QED BY <2>2, <2>7, <2>8
  <1> HIDE DEF T, S
  <1> QED BY <1>1, <1>5, <1>7, StatementRows

\* With the table dropped, the copy stands for it.
LEMMA DropOldRows == IInv /\ Rows /\ DropOld => Rows'
  <1> SUFFICES ASSUME IInv, Rows, DropOld PROVE Rows'
    OBVIOUS
  <1>1. /\ Types /\ Evolved /\ pc = "droptable" /\ pc' = "swap"
        /\ UNCHANGED <<engine, at, childHave, cut, cuts>> /\ Write(Live(at), NoTable)
    BY DEF IInv, DropOld, Goto
  <1>2. /\ at \in DOMAIN Current /\ Running /\ Live(at) \in Names /\ Tmp(at) \in Names
        /\ Exists(Tmp(at)) /\ Tmp(at) # Live(at)
    BY <1>1, NameFacts DEF Types, Running, Rebuilding, Evolved
  <1>3. /\ work' \in Databases
        /\ \A m \in Names : m # Live(at) => work'.tables[m] = work.tables[m]
        /\ db' = IF engine = "cpp" THEN work' ELSE db
    BY <1>1, <1>2, WriteFacts
  <1>4. View' = [work'.tables EXCEPT ![Live(at)] = work'.tables[Tmp(at)]]
    BY <1>1 DEF View, Table
  <1>5. /\ View'[Live(at)] = Table(Tmp(at))
        /\ \A m \in Names : m # Live(at) => View'[m] = work.tables[m]
    BY <1>2, <1>3, <1>4 DEF Databases, Table
  <1>6. ASSUME "swap" \notin cut PROVE KeptIn(View')
    <2>1. KeptIn(work.tables) /\ Faithful(at, Table(Tmp(at)))
      BY <1>1, <1>6 DEF Rows, View
    <2>2. \A t \in DOMAIN Current : t # at =>
              work.tables[Live(t)] # NoTable /\ View'[Live(t)] = work.tables[Live(t)]
      BY <1>1, <1>2, <1>5, NameFacts DEF Evolved, Exists, Table
    <2>3. View'[Live(at)] # NoTable
      BY <1>2, <1>5 DEF Exists
    <2> HIDE DEF View
    <2> QED BY <1>2, <1>5, <2>1, <2>2, <2>3, KeptWrite
  <1>7. "swap" \notin cut /\ engine = "python" => KeptIn(db'.tables)
    BY <1>3 DEF Rows
  <1> QED BY <1>1, <1>6, <1>7 DEF Rows

\* The copy takes the table's name.
LEMMA SwapInRows == IInv /\ Rows /\ SwapIn => Rows'
  <1> SUFFICES ASSUME IInv, Rows, SwapIn PROVE Rows'
    OBVIOUS
  <1>1. /\ Types /\ Evolved /\ pc = "swap" /\ pc' \in {"reap", "childadd"}
        /\ UNCHANGED <<engine, at, childHave, cut, cuts>> /\ RenameTable(Tmp(at), Live(at))
    BY DEF IInv, SwapIn, Goto
  <1>2. /\ at \in DOMAIN Current /\ Live(at) \in Names /\ Tmp(at) \in Names /\ Tmp(at) # Live(at)
    BY <1>1, NameFacts DEF Types
  <1>3. /\ work'.tables[Live(at)] = work.tables[Tmp(at)]
        /\ \A k \in Names : k # Tmp(at) /\ k # Live(at) => work'.tables[k] = work.tables[k]
        /\ db' = IF engine = "cpp" THEN work' ELSE db
    BY <1>1, <1>2, RenameFacts
  <1>4. View[Live(at)] = Table(Tmp(at)) /\ \A m \in Names : m # Live(at) => View[m] = work.tables[m]
    BY <1>1, <1>2 DEF View, Types, Databases
  <1>5. \A t \in Tables : work'.tables[Live(t)] = View[Live(t)]
    BY <1>3, <1>4, NameFacts DEF Table
  <1>6. "swap" \notin cut => KeptIn(work'.tables)
    BY <1>5, NameFacts DEF Rows, KeptIn
  <1> QED BY <1>1, <1>3, <1>6, StatementRows

\* An orphan has no rows that a declared table is to have.
LEMMA ReapRows == IInv /\ Rows /\ Reap => Rows'
  <1> SUFFICES ASSUME IInv, Rows, Reap PROVE Rows'
    OBVIOUS
  <1>1. Types /\ Evolved /\ pc = "reap" /\ pc' = pc /\ UNCHANGED <<engine, at, cut, cuts>> /\ Running
    BY DEF IInv, Reap, Running
  <1>2. PICK n \in Orphans : Write(n, NoTable)
    BY DEF Reap
  <1>3. n \in Names /\ n \notin Declared
    BY <1>1, NameFacts DEF Orphans, Types, Declared
  <1>4. /\ \A m \in Names : m # n => work'.tables[m] = work.tables[m]
        /\ db' = IF engine = "cpp" THEN work' ELSE db
    BY <1>1, <1>2, <1>3, WriteFacts
  <1>5. \A t \in DOMAIN Current :
            work'.tables[Live(t)] = work.tables[Live(t)] /\ work.tables[Live(t)] # NoTable
    BY <1>1, <1>3, <1>4, NameFacts DEF Evolved, Exists, Table
  <1>6. "swap" \notin cut => KeptIn(work'.tables)
    BY <1>1, <1>5 DEF Rows, View, KeptIn
  <1> QED BY <1>1, <1>4, <1>6, StatementRows

\* Stamping changes no table.
LEMMA StampRows == IInv /\ Rows /\ Stamp => Rows'
  <1> SUFFICES ASSUME IInv, Rows, Stamp PROVE Rows'
    OBVIOUS
  <1>1. /\ Types /\ pc = "stamp" /\ pc' = "done" /\ UNCHANGED <<engine, cut>>
        /\ work' = [work EXCEPT !.stamped = "new"] /\ db' = work'
    BY DEF IInv, Stamp, Goto
  <1>2. work'.tables = work.tables
    BY <1>1 DEF Types, Databases
  <1>3. View = work.tables /\ View' = work'.tables
    BY <1>1 DEF View
  <1> QED BY <1>1, <1>2, <1>3 DEF Rows

\* A cut loses no rows, but for the one between DROP TABLE and RENAME in C++.
LEMMA CutRows == IInv /\ Rows /\ Cut => Rows'
  <1> SUFFICES ASSUME IInv, Rows, Cut, "swap" \notin cut' PROVE Rows'
    BY DEF Rows
  <1>1. pc' \in {"off", "failed"} /\ work' = db /\ db' = db /\ engine' = engine
    BY DEF Cut
  <1>2. "swap" \notin cut /\ (engine = "python" \/ pc # "swap")
    BY DEF Cut, IInv, Types
  <1>3. KeptIn(db.tables)
    BY <1>2, DbKept
  <1>4. View' = db.tables
    BY <1>1 DEF View
  <1> QED BY <1>1, <1>3, <1>4 DEF Rows

\* Every step keeps the rows.
LEMMA NextRows == IInv /\ Kin /\ Rows /\ [Next]_vars => Rows'
  <1> SUFFICES ASSUME IInv, Kin, Rows, [Next]_vars PROVE Rows'
    OBVIOUS
  <1>1. CASE \/ Start \/ ChildrenRenamed \/ TablesCreated \/ ColumnsRenamed \/ ColumnsAdded
             \/ ColumnsDropped \/ NoRebuild \/ Restart \/ NextChild
    <2>1. UNCHANGED <<engine, db, work, cut>> /\ pc # "swap"
      BY <1>1 DEF Start, ChildrenRenamed, TablesCreated, ColumnsRenamed, ColumnsAdded, ColumnsDropped,
                  NoRebuild, Restart, NextChild, Skip, Goto
    <2>2. pc' \notin {"drop", "copy", "droptable", "swap"} /\ (pc' = "types" => pc = "drop")
      BY <1>1 DEF Start, ChildrenRenamed, TablesCreated, ColumnsRenamed, ColumnsAdded, ColumnsDropped,
                  NoRebuild, Restart, NextChild, Skip, Goto
    <2> QED BY <2>1, <2>2, QuietRows
  <1>2. CASE \/ RenameChild \/ CreateTable \/ RenameColumn \/ AddColumn \/ Transform \/ DropColumn
             \/ MakeTmp \/ CopyRows \/ DropOld \/ SwapIn \/ Reap \/ Stamp \/ Cut
    BY <1>2, RenameChildRows, CreateTableRows, ColumnRows, MakeTmpRows, CopyRowsRows, DropOldRows,
       SwapInRows, ReapRows, StampRows, CutRows
  <1>3. CASE UNCHANGED vars
    <2>1. UNCHANGED <<engine, db, work, cut, pc, at>>
      BY <1>3 DEF vars
    <2>2. View' = View /\ \A n : Table(n)' = Table(n)
      BY <2>1 DEF View, Table
    <2>3. Table(Tmp(at))' = Table(Tmp(at))
      BY <2>1 DEF Table
    <2> QED BY <2>1, <2>2, <2>3 DEF Rows
  <1> QED BY <1>1, <1>2, <1>3 DEF Next, Step

\* The rows are kept throughout.
LEMMA RowsHolds == Spec => [](IInv /\ Rows)
  <1>1. (IInv /\ Kin /\ Rows) /\ [Next]_vars => (IInv /\ Kin /\ Rows)'
    BY NextIInv, NextKin, NextRows
  <1> QED BY <1>1, InitIInv, InitKin, InitRows, PTL DEF Spec

-----------------------------------------------------------------------------

\* "the old column's rows survive": a stamped database has the rows of the old
\* one, under their new names and types and through the transform.
THEOREM RowsKeptHolds == Spec => []RowsKept
  <1>1. IInv /\ Rows => RowsKept
    <2> SUFFICES ASSUME IInv, Rows, db.stamped = "new", "swap" \notin cut,
                        NEW t \in DOMAIN Current, NEW c \in db.tables[Live(t)]
                 PROVE  c.holds = Origin(t, c.name)
      BY DEF RowsKept, Kept
    <2>1. work = db /\ Migrated(work.tables) /\ Types /\ ~Rebuilding
      BY DEF IInv, Sessions, Evolved
    <2>2. KeptIn(db.tables)
      BY <2>1, DbKept DEF Rebuilding
    <2>3. Faithful(t, db.tables[Live(t)])
      BY <2>1, <2>2 DEF KeptIn, Migrated
    <2>4. t = Main => Move[1] \notin NamesOf(db.tables[Live(t)])
      BY <2>1, MigratedFacts DEF Table
    <2>5. Full(t, db.tables[Live(t)])
      BY <2>3, <2>4, UnfilledFull
    <2> QED BY <2>5 DEF Full
  <1> QED BY <1>1, RowsHolds, PTL

\* At every moment the rows of every old column that the new schema keeps are on
\* disk, in the table, under its old name, or in the rebuild's copy.
THEOREM NothingLostHolds == Spec => []NothingLost
  <1>1. IInv /\ Rows => NothingLost
    <2> SUFFICES ASSUME IInv, Rows, "swap" \notin cut, NEW t \in DOMAIN Current,
                        NEW c \in Current[t], Origin(t, c.name) # None
                 PROVE  \E n \in Names : /\ db.tables[n] # NoTable
                                         /\ \E d \in db.tables[n] : d.holds = Origin(t, c.name)
      BY DEF NothingLost
    <2>1. OriginTable(t) \in DOMAIN Old
      BY OriginIsOld
    <2>2. CASE engine = "python" \/ pc # "swap"
      <3>1. KeptIn(db.tables)
        BY <2>2, DbKept
      <3>2. CASE db.tables[Live(t)] # NoTable
        <4>1. Faithful(t, db.tables[Live(t)]) /\ Live(t) \in Names
          BY <3>1, <3>2, NameFacts DEF KeptIn
        <4> QED BY <3>2, <4>1 DEF Faithful
      <3>3. CASE db.tables[Live(t)] = NoTable
        <4> DEFINE n == Live(OriginTable(t))
        <4>1. db.tables[n] # NoTable /\ Faithful(t, db.tables[n]) /\ n \in Names
          BY <2>1, <3>1, <3>3, NameFacts DEF KeptIn
        <4> HIDE DEF n
        <4> QED BY <4>1 DEF Faithful
      <3> QED BY <3>2, <3>3
    <2>3. CASE engine = "cpp" /\ pc = "swap"
      <3>1. db = work /\ Types /\ Running /\ Rebuilding /\ at \in DOMAIN Current /\ KeptIn(View)
        BY <2>3 DEF IInv, Sessions, Types, Running, Rebuilding, Rows
      <3>2. /\ View[Live(at)] = db.tables[Tmp(at)]
            /\ \A m \in Names : m # Live(at) => View[m] = db.tables[m]
        BY <2>3, <3>1, NameFacts DEF View, Types, Databases, Table
      <3>3. CASE t = at
        <4>1. db.tables[Tmp(at)] # NoTable /\ Tmp(at) \in Names
          BY <3>1, NameFacts DEF IInv, Evolved, Exists, Table
        <4>2. Faithful(t, db.tables[Tmp(at)])
          BY <3>1, <3>2, <3>3, <4>1 DEF KeptIn
        <4> QED BY <4>1, <4>2 DEF Faithful
      <3>4. CASE t # at
        <4>1. db.tables[Live(t)] # NoTable /\ Live(t) \in Names
          BY <2>3, <3>1, <3>4, NameFacts DEF IInv, Evolved, Exists, Table
        <4>2. View[Live(t)] = db.tables[Live(t)]
          BY <3>2, <3>4, <4>1, NameFacts
        <4>3. Faithful(t, db.tables[Live(t)])
          BY <3>1, <4>1, <4>2 DEF KeptIn
        <4> QED BY <4>1, <4>3 DEF Faithful
      <3> QED BY <3>3, <3>4
    <2> QED BY <2>2, <2>3 DEF IInv, Types
  <1> QED BY <1>1, RowsHolds, PTL

-----------------------------------------------------------------------------
(* Python's transaction. *)

\* Until the version is stamped Python has written nothing, and a cut leaves no
\* mark.
OneTransaction ==
    engine = "python" =>
        /\ cut = {}
        /\ db.stamped = "old" => db.tables = OldTables

\* A statement of the session does not reach the disk; the stamp and a cut do not
\* leave the old shape behind changed.
LEMMA NextOneTransaction == IInv /\ OneTransaction /\ [Next]_vars => OneTransaction'
  <1> SUFFICES ASSUME IInv, OneTransaction, [Next]_vars, engine' = "python"
               PROVE  cut' = {} /\ (db'.stamped = "old" => db'.tables = OldTables')
    BY DEF OneTransaction
  <1>1. OldTables' = OldTables
    BY DEF OldTables
  <1>2. engine = "python" /\ engine # "cpp"
    BY DEF Next, Step, Start, RenameChild, ChildrenRenamed, CreateTable, TablesCreated,
           RenameColumn, ColumnsRenamed, AddColumn, ColumnsAdded, Transform, DropColumn,
           ColumnsDropped, MakeTmp, CopyRows, DropOld, SwapIn, NoRebuild, Reap, NextChild,
           Stamp, Restart, Cut, Skip, Stay, Goto, vars
  <1>3. CASE Stamp
    <2>1. db' = [work EXCEPT !.stamped = "new"] /\ cut' = cut
      BY <1>3 DEF Stamp, Goto
    <2>2. db'.stamped = "new"
      BY <2>1 DEF IInv, Types, Databases
    <2> QED BY <1>2, <2>1, <2>2 DEF OneTransaction
  <1>4. CASE \/ RenameChild \/ CreateTable \/ RenameColumn \/ AddColumn \/ Transform
             \/ DropColumn \/ MakeTmp \/ CopyRows \/ DropOld \/ SwapIn \/ Reap
    <2>1. cut' = cut
      BY <1>4
         DEF RenameChild, CreateTable, RenameColumn, AddColumn, Transform, DropColumn, MakeTmp,
             CopyRows, DropOld, SwapIn, Reap, Stay, Goto
    <2>2. /\ \A n, T : Write(n, T) => db' = db
          /\ \A n, m : RenameTable(n, m) => db' = db
      BY <1>2, Zenon DEF Write, RenameTable
    <2>3. RenameChild \/ CreateTable \/ RenameColumn \/ AddColumn \/ DropColumn \/ Reap => db' = db
      BY <2>2 DEF RenameChild, CreateTable, RenameColumn, AddColumn, DropColumn, Reap
    <2>4. Transform => db' = db
      BY <2>2 DEF Transform
    <2>5. MakeTmp \/ CopyRows \/ DropOld \/ SwapIn => db' = db
      BY <2>2 DEF MakeTmp, CopyRows, DropOld, SwapIn
    <2>6. db' = db
      BY <1>4, <2>3, <2>4, <2>5
    <2> QED BY <1>1, <1>2, <2>1, <2>6 DEF OneTransaction
  <1>5. CASE \/ Start \/ ChildrenRenamed \/ TablesCreated \/ ColumnsRenamed \/ ColumnsAdded
             \/ ColumnsDropped \/ NoRebuild \/ NextChild \/ Restart \/ UNCHANGED vars
    <2>1. db' = db /\ cut' = cut
      BY <1>5 DEF Start, ChildrenRenamed, TablesCreated, ColumnsRenamed, ColumnsAdded,
                  ColumnsDropped, NoRebuild, NextChild, Restart, Skip, Goto, vars
    <2> QED BY <1>1, <1>2, <2>1 DEF OneTransaction
  <1>6. CASE Cut
    <2>1. db' = db /\ cut' = cut
      BY <1>2, <1>6 DEF Cut
    <2> QED BY <1>1, <1>2, <2>1 DEF OneTransaction
  <1> QED BY <1>3, <1>4, <1>5, <1>6 DEF Next, Step

\* The Python migration is atomic on disk, and what RowsKept excepts for C++
\* cannot happen to it.
THEOREM AllOrNothingHolds == Spec => []AllOrNothing
  <1>1. Init => OneTransaction
    BY DEF Init, OneTransaction
  <1>2. Spec => []OneTransaction
    BY <1>1, NextOneTransaction, IInvHolds, PTL DEF Spec
  <1>3. IInv /\ OneTransaction /\ RowsKept => AllOrNothing
    <2> SUFFICES ASSUME IInv, OneTransaction, RowsKept, engine = "python"
                 PROVE  IF db.stamped = "old" THEN db.tables = OldTables ELSE Kept
      BY DEF AllOrNothing
    <2>1. CASE db.stamped = "old"
      BY <2>1 DEF OneTransaction
    <2>2. CASE db.stamped # "old"
      <3>1. db.stamped = "new"
        BY <2>2 DEF IInv, Types, Databases
      <3> QED BY <2>2, <3>1 DEF OneTransaction, RowsKept
    <2> QED BY <2>1, <2>2
  <1> QED BY <1>2, <1>3, IInvHolds, RowsKeptHolds, PTL
=============================================================================
