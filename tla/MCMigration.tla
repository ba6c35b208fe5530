---------------------------- MODULE MCMigration ----------------------------
(* A main table with a renamed key, a renamed, a retired, a retyped, a        *)
(* derived and a new column; child tables of every kind: scalars that are     *)
(* renamed and retyped, messages with a new and a stray column, messages made *)
(* scalars of another type, a repeated field made a map of the same type, a   *)
(* new map, keys that stay as they are, and one that is orphaned.             *)
EXTENDS Migration

Col(n, t) == [name |-> n, type |-> t]
Items(T) == {Col("owner", "INTEGER"), Col("ordinal", "INTEGER")} \cup T
Entries(k, v) == {Col("owner", "INTEGER"), Col("key", k), Col("value", v)}

MCOld == [t \in {"m", "tags", "cargo", "attrs", "marks", "crew", "gone"} |->
    CASE t = "m" -> {Col("ID_1", "INTEGER"), Col("handle", "TEXT"), Col("full", "TEXT"),
                     Col("size", "TEXT")}
      [] t = "cargo" -> Items({Col("label", "TEXT"), Col("note", "TEXT")})
      [] t = "marks" -> Items({Col("value", "INTEGER"), Col("note", "TEXT")})
      [] t = "attrs" -> Items({Col("value", "TEXT")})
      [] OTHER -> Items({Col("value", "INTEGER")})]

MCCurrent == [t \in {"m", "labels", "cargo", "attrs", "marks", "crew", "extra"} |->
    CASE t = "m" -> {Col("id", "INTEGER"), Col("label", "TEXT"), Col("first", "TEXT"),
                     Col("size", "INTEGER")}
      [] t \in {"labels", "marks"} -> Items({Col("value", "TEXT")})
      [] t = "cargo" -> Items({Col("label", "TEXT"), Col("weight", "INTEGER")})
      [] t = "crew" -> Items({Col("value", "INTEGER")})
      [] OTHER -> Entries("TEXT", "TEXT")]

MCKind == [t \in DOMAIN MCCurrent \ {"m"} |->
    CASE t \in {"labels", "marks"} -> "scalar" [] t = "cargo" -> "composed" [] t = "crew" -> "link"
      [] OTHER -> "map"]

MCRenames == {<<"ID_1", "id">>, <<"handle", "label">>}
MCChildRenames == {<<"tags", "labels">>}
MCMove == <<"full", "first">>
=============================================================================
