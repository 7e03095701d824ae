------------------------------ MODULE SchemaDiff ------------------------------
(***************************************************************************)
(* From a schema file and a database to the statements that make the       *)
(* database what the file says: schema.Diff, the DDL generator, and what   *)
(* SQLite does with each statement.                                        *)
(*                                                                         *)
(* A schema file is [version, comps, types].  comps maps a component to    *)
(* [type, from, props], props a property to [type, from], types an entity  *)
(* type to its from; a from is the renamedFrom, or NoName.  A database is  *)
(* [version, tables, types]: tables maps a component to [cols, row], where *)
(* cols maps a column to [sql, null, ref] and row -- one row stands for    *)
(* all -- a column to what is in it, Default when nobody wrote anything    *)
(* there or there is no row; types are those entities are filed under.     *)
(* Names are what strings.ToLower leaves of them.                          *)
(***************************************************************************)
EXTENDS Integers, Sequences, FiniteSets, SequencesExt, TLC

CONSTANTS CompNames, ColumnNames,   \* sequences, in the order names sort in
          Value, Target,            \* the columns "value" and "target_entity_id"
          Scratch,                  \* of a component x the component x_new, where there is one
          NoName,
          Null, Default, Failed

ASSUME NamesAssumption ==
  /\ {Value, Target} \subseteq ToSet(ColumnNames)
  /\ NoName \notin ToSet(CompNames) \cup ToSet(ColumnNames)
  /\ \A i, j \in DOMAIN CompNames : CompNames[i] = CompNames[j] => i = j
  /\ \A i, j \in DOMAIN ColumnNames : ColumnNames[i] = ColumnNames[j] => i = j

\* x_new sorts after x.
ASSUME ScratchAssumption ==
  \A c \in DOMAIN Scratch :
    \E i, j \in DOMAIN CompNames : i < j /\ CompNames[i] = c /\ CompNames[j] = Scratch[c]

Without(f, S) == [k \in DOMAIN f \ S |-> f[k]]
Move(f, old, new) == (new :> f[old]) @@ Without(f, {old})

-----------------------------------------------------------------------------
(* What the file says of a table *)

SqlType(t) == CASE t \in {"integer", "boolean", "entity-ref"} -> "INTEGER"
                [] t = "number" -> "REAL"
                [] OTHER -> "TEXT"

\* A reference is nullable as a part of a component, never as the whole of one.
Column(t, whole) == [sql  |-> SqlType(t),
                     null |-> t = "entity-ref" /\ ~whole,
                     ref  |-> IF t = "entity-ref" THEN "cascade" ELSE "none"]

IsObject(comp) == comp.type = "object"

\* The one column of a component that is not an object.
LayoutColumn(comp) == IF comp.type = "entity-ref" THEN Target ELSE Value

\* Faulty variant: a reference is nullable wherever it is.
ExpectedByType(comp) ==
  IF IsObject(comp) THEN [p \in DOMAIN comp.props |-> Column(comp.props[p].type, FALSE)]
                    ELSE LayoutColumn(comp) :> Column(comp.type, FALSE)

\* What the diff expects to find.
Expected(comp) ==
  IF IsObject(comp) THEN [p \in DOMAIN comp.props |-> Column(comp.props[p].type, FALSE)]
                    ELSE LayoutColumn(comp) :> Column(comp.type, TRUE)

\* What the generator builds.
Built(comp) ==
  IF IsObject(comp) THEN [p \in DOMAIN comp.props |-> Column(comp.props[p].type, FALSE)]
                    ELSE LayoutColumn(comp) :> Column(comp.type, TRUE)

-----------------------------------------------------------------------------
(* schema.Diff *)

Change(kind, comp, prop, old) == [kind |-> kind, comp |-> comp, prop |-> prop, old |-> old]

\* The columns alone, which is what introspection reads.
Introspect(db) == [tables |-> [c \in DOMAIN db.tables |-> db.tables[c].cols], types |-> db.types]

\* A rename applies when the old name is there and the new one is not.
TableRenames(dom, file) ==
  {c \in DOMAIN file.comps : file.comps[c].from \in DOMAIN dom.tables /\ c \notin DOMAIN dom.tables}
RenamedTables(dom, file) ==
  LET moved == TableRenames(dom, file)
      gone == {file.comps[c].from : c \in moved}
  IN  [c \in (DOMAIN dom.tables \ gone) \cup moved |->
         dom.tables[IF c \in moved THEN file.comps[c].from ELSE c]]

\* Faulty variant: a renamed column is one dropped and one added.
NoColumnRenames(cols, comp) == {}

ColumnRenames(cols, comp) ==
  IF ~IsObject(comp) THEN {}
  ELSE {p \in DOMAIN comp.props : comp.props[p].from \in DOMAIN cols /\ p \notin DOMAIN cols}
RenamedColumns(cols, comp) ==
  LET moved == ColumnRenames(cols, comp)
      gone == {comp.props[p].from : p \in moved}
  IN  [p \in (DOMAIN cols \ gone) \cup moved |->
         cols[IF p \in moved THEN comp.props[p].from ELSE p]]

\* An UPDATE, so that the new name may be there already.
TypeRenames(dom, file) == {t \in DOMAIN file.types : file.types[t] \in dom.types}

ApplyRenames(dom, file) ==
  LET tables == RenamedTables(dom, file)
      moved == TypeRenames(dom, file)
  IN  [tables |-> [c \in DOMAIN tables |-> IF c \in DOMAIN file.comps
                                           THEN RenamedColumns(tables[c], file.comps[c])
                                           ELSE tables[c]],
       types |-> (dom.types \ {file.types[t] : t \in moved}) \cup moved]

RenameChanges(dom, file) ==
  LET tables == RenamedTables(dom, file)
  IN  {Change("renamed_component", c, NoName, file.comps[c].from) : c \in TableRenames(dom, file)}
      \cup (UNION {{Change("renamed_property", c, p, file.comps[c].props[p].from) :
                      p \in ColumnRenames(tables[c], file.comps[c])} :
                     c \in DOMAIN file.comps \cap DOMAIN tables})
      \cup {Change("renamed_entity_type", NoName, t, file.types[t]) : t \in TypeRenames(dom, file)}

\* Any columns can be altered into those of an object; the other layouts have
\* one column, which no ALTER makes of another.
CanBecome(cols, comp) == IsObject(comp) \/ DOMAIN cols = {LayoutColumn(comp)}

ColumnChanges(c, cols, comp) ==
  LET want == Expected(comp)
      both == DOMAIN cols \cap DOMAIN want
  IN  {Change("added_property", c, p, NoName) : p \in DOMAIN want \ DOMAIN cols}
      \cup {Change("removed_property", c, p, NoName) : p \in DOMAIN cols \ DOMAIN want}
      \cup {Change("changed_type", c, p, NoName) : p \in {q \in both : cols[q].sql # want[q].sql}}
      \cup {Change("changed_constraint", c, p, NoName) : p \in {q \in both : cols[q].ref # want[q].ref}}
      \cup {Change("changed_nullability", c, p, NoName) : p \in {q \in both : cols[q].null # want[q].null}}

TableChanges(c, dom, file) ==
  IF c \notin DOMAIN dom.tables THEN {Change("added_component", c, NoName, NoName)}
  ELSE IF c \notin DOMAIN file.comps THEN {Change("removed_component", c, NoName, NoName)}
  ELSE IF ~CanBecome(dom.tables[c], file.comps[c])
  THEN {Change("removed_component", c, NoName, NoName), Change("added_component", c, NoName, NoName)}
  ELSE ColumnChanges(c, dom.tables[c], file.comps[c])

Diff(found, file) ==
  LET dom == ApplyRenames(found, file)
  IN  RenameChanges(found, file)
      \cup (UNION {TableChanges(c, dom, file) : c \in DOMAIN dom.tables \cup DOMAIN file.comps})
      \cup {Change("added_entity_type", NoName, t, NoName) : t \in DOMAIN file.types \ dom.types}
      \cup {Change("removed_entity_type", NoName, t, NoName) : t \in dom.types \ DOMAIN file.types}

\* Renames, additions, modifications, removals; by name within each.
Phase(ch) ==
  CASE ch.kind \in {"renamed_component", "renamed_property", "renamed_entity_type"} -> 0
    [] ch.kind \in {"added_component", "added_property", "added_entity_type"} -> 1
    [] ch.kind \in {"changed_type", "changed_constraint", "changed_nullability"} -> 2
    [] OTHER -> 3
Place(names, n) == IF n \in ToSet(names) THEN CHOOSE i \in DOMAIN names : names[i] = n ELSE 0
Key(ch) == Phase(ch) * 100 + Place(CompNames, ch.comp) * 10 + Place(ColumnNames, ch.prop)

-----------------------------------------------------------------------------
(* The generator *)

Statement(kind, ch, cols, subs) ==
  [kind |-> kind, comp |-> ch.comp, prop |-> ch.prop, old |-> ch.old, cols |-> cols, subs |-> subs]

CausesRebuild(ch) ==
  ch.kind \in {"removed_property", "changed_type", "changed_constraint", "changed_nullability"}

\* The columns a rebuild reads through COALESCE: they refuse a NULL the old ones
\* allow, and have a default to put there.
Substituted(cols, old) ==
  {p \in DOMAIN cols : p # Target /\ ~cols[p].null /\ p \in DOMAIN old /\ old[p].null}

GenRebuild(ch, file, dom) ==
  IF ch.comp \notin DOMAIN dom.tables THEN Statement("error", ch, <<>>, {})
  ELSE LET cols == Built(file.comps[ch.comp])
       IN  Statement("rebuild_table", ch, cols, Substituted(cols, dom.tables[ch.comp]))

GenChange(ch, file, dom) ==
  CASE ch.kind = "added_component" -> Statement("create_table", ch, Built(file.comps[ch.comp]), {})
    [] ch.kind = "added_property" ->
         Statement("alter_add_column", ch, ch.prop :> Built(file.comps[ch.comp])[ch.prop], {})
    [] ch.kind = "removed_component" -> Statement("drop_table", ch, <<>>, {})
    [] ch.kind = "renamed_component" -> Statement("rename_table", ch, <<>>, {})
    [] ch.kind = "renamed_property" -> Statement("rename_column", ch, <<>>, {})
    [] ch.kind = "renamed_entity_type" -> Statement("rename_entity_type", ch, <<>>, {})
    [] OTHER -> GenRebuild(ch, file, dom)

\* A table that is dropped and created is dropped first.
Reorder(stmts) ==
  LET Of(kind, c) == SelectSeq(stmts, LAMBDA s : s.kind = kind /\ s.comp = c)
      Emit(done, s) ==
        IF s.kind = "drop_table" /\ Of("create_table", s.comp) # <<>> THEN done
        ELSE IF s.kind = "create_table" THEN done \o Of("drop_table", s.comp) \o <<s>>
        ELSE Append(done, s)
  IN  FoldLeft(Emit, <<>>, stmts)

\* One rebuild for each table, where its first reason is, and nothing for entity
\* types but their renames.
Rebuilds(changes) ==
  LET asks == {ch \in changes : CausesRebuild(ch)}
  IN  {CHOOSE ch \in asks : ch.comp = c /\ \A other \in asks : other.comp = c => Key(ch) <= Key(other) :
         c \in {ch.comp : ch \in asks}}
Answered(changes) ==
  {ch \in changes : ~CausesRebuild(ch) /\ ch.kind \notin {"added_entity_type", "removed_entity_type"}}
  \cup Rebuilds(changes)

Generate(changes, file, dom) ==
  LET order == SetToSortSeq(Answered(changes), LAMBDA a, b : Key(a) < Key(b))
  IN  Reorder([i \in DOMAIN order |-> GenChange(order[i], file, dom)])

Destructive(s) == s.kind \in {"drop_table", "rebuild_table"}

-----------------------------------------------------------------------------
(* SQLite *)

\* CREATE TABLE IF NOT EXISTS comp_c.
CreateTable(db, s) ==
  IF s.comp \in DOMAIN db.tables THEN db
  ELSE [db EXCEPT !.tables = (s.comp :> [cols |-> s.cols, row |-> [p \in DOMAIN s.cols |-> Default]]) @@ @]

AddColumn(db, s) ==
  IF s.comp \notin DOMAIN db.tables \/ s.prop \in DOMAIN db.tables[s.comp].cols THEN Failed
  ELSE [db EXCEPT !.tables[s.comp].cols = s.cols @@ @,
                  !.tables[s.comp].row =
                     (s.prop :> IF s.cols[s.prop].null THEN Null ELSE Default) @@ @]

RenameTable(db, s) ==
  IF s.old \notin DOMAIN db.tables \/ s.comp \in DOMAIN db.tables THEN Failed
  ELSE [db EXCEPT !.tables = Move(@, s.old, s.comp)]

RenameColumn(db, s) ==
  IF \/ s.comp \notin DOMAIN db.tables
     \/ s.old \notin DOMAIN db.tables[s.comp].cols \/ s.prop \in DOMAIN db.tables[s.comp].cols
  THEN Failed
  ELSE [db EXCEPT !.tables[s.comp] = [cols |-> Move(@.cols, s.old, s.prop),
                                      row  |-> Move(@.row, s.old, s.prop)]]

\* The new table of a rebuild is comp_x_new, and created without IF NOT EXISTS.
NewNameTaken(db, comp) == comp \in DOMAIN Scratch /\ Scratch[comp] \in DOMAIN db.tables

\* A new table, the rows copied, the old one dropped, the new one renamed.
RebuildTable(db, s) ==
  IF \/ s.comp \notin DOMAIN db.tables \/ NewNameTaken(db, s.comp)
     \/ ~(DOMAIN s.cols \subseteq DOMAIN db.tables[s.comp].cols)
  THEN Failed
  ELSE LET row == db.tables[s.comp].row
           copy == [p \in DOMAIN s.cols |->
                      IF p \in s.subs /\ row[p] = Null THEN Default ELSE row[p]]
       IN  IF \E p \in DOMAIN copy : copy[p] = Null /\ ~s.cols[p].null THEN Failed
           ELSE [db EXCEPT !.tables[s.comp] = [cols |-> s.cols, row |-> copy]]

Exec(db, s) ==
  IF db = Failed THEN Failed
  ELSE CASE s.kind = "create_table" -> CreateTable(db, s)
         [] s.kind = "alter_add_column" -> AddColumn(db, s)
         [] s.kind = "rename_table" -> RenameTable(db, s)
         [] s.kind = "rename_column" -> RenameColumn(db, s)
         [] s.kind = "rename_entity_type" -> [db EXCEPT !.types = (@ \ {s.old}) \cup {s.prop}]
         [] s.kind = "drop_table" -> [db EXCEPT !.tables = Without(@, {s.comp})]
         [] s.kind = "rebuild_table" -> RebuildTable(db, s)
         [] OTHER -> Failed

\* What the engine makes where there is no database.
Bootstrapped(file) ==
  [version |-> file.version, types |-> {},
   tables |-> [c \in DOMAIN file.comps |->
                 LET cols == Built(file.comps[c])
                 IN  [cols |-> cols, row |-> [p \in DOMAIN cols |-> Default]]]]

\* Every statement and the new version, in one transaction.
Migrated(db, stmts, version) ==
  LET after == FoldLeft(Exec, db, stmts)
  IN  IF after = Failed THEN Failed
      ELSE [version |-> version, tables |-> after.tables, types |-> after.types]
=============================================================================
