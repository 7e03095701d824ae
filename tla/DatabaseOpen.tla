----------------------------- MODULE DatabaseOpen -----------------------------
(***************************************************************************)
(* The database of a game over its life: somebody edits schema.json, the   *)
(* engine opens the database -- NewSQLiteStoreWithConfig: bootstrap, or    *)
(* plan, back up, prune, migrate -- the game writes, and the process may   *)
(* die at any step.                                                        *)
(*                                                                         *)
(* SQLite's transactions are taken as whole: Bootstrap and Apply are one   *)
(* step each.  The backup (VACUUM INTO) and the pruning of old backups are *)
(* steps of their own, outside any transaction.  A backup is remembered by *)
(* the number of changes the database had seen when it was taken.          *)
(***************************************************************************)
EXTENDS SchemaDiff

CONSTANTS Schemas,       \* the schema files somebody may write
          Older,         \* databases an older engine left
          Policies,      \* subset of {"auto", "confirm"}
          Retention,     \* StoreConfig.BackupRetention
          NoDatabase,
          MaxOpens, MaxWrites   \* bounds: opens, writes by the game

ASSUME PoliciesAssumption == Policies \subseteq {"auto", "confirm"}
ASSUME CountsAssumption == {Retention, MaxOpens, MaxWrites} \subseteq Nat

IsDatabase(d) ==
  d = [version |-> d.version, tables |-> d.tables, types |-> d.types] /\ d.version \in Int
ASSUME VersionsAssumption ==
  (\A s \in Schemas : s.version \in Int) /\ (\A d \in Older : IsDatabase(d))

VARIABLES file,      \* schema.json
          db,        \* the database, or NoDatabase
          backups,   \* those beside it: [version, stamp, of]
          changes,   \* the changes the database has seen
          opens, writes,
          open       \* the process: [at], and while it opens [at, policy, saved]

vars == <<file, db, backups, changes, opens, writes, open>>

Closed == [at |-> "closed"]
Refused == [at |-> "refused"]
Broken == [at |-> "broken"]
Running == [at |-> "running"]
Opening(at, policy, saved) == [at |-> at, policy |-> policy, saved |-> saved]
Down == open.at \in {"closed", "refused", "broken"}

-----------------------------------------------------------------------------
(* The plan *)

\* Faulty variant: the generator sees the database as it was found.
StatementsUnrenamed(d, f) == Generate(Diff(Introspect(d), f), f, Introspect(d))

\* Plan: the generator sees the database as the renames leave it.
Statements(d, f) ==
  LET found == Introspect(d)
  IN  Generate(Diff(found, f), f, ApplyRenames(found, f))

\* Empty: nothing to do, whatever the changes.
UpToDate(d, f) == Statements(d, f) = <<>> /\ d.version = f.version

-----------------------------------------------------------------------------
(* Opening *)

Init == /\ file \in Schemas
        /\ db \in Older \cup {NoDatabase}
        /\ backups = {} /\ changes = 0 /\ opens = 0 /\ writes = 0
        /\ open = Closed

EditSchema == /\ Down
              /\ opens < MaxOpens
              /\ \E s \in Schemas \ {file} : file' = s
              /\ UNCHANGED <<db, backups, changes, opens, writes, open>>

\* bootstrapDatabase: one transaction, meta included.
Bootstrap ==
  /\ Down /\ opens < MaxOpens
  /\ db = NoDatabase
  /\ db' = Bootstrapped(file)
  /\ changes' = changes + 1 /\ opens' = opens + 1
  /\ open' = Running
  /\ UNCHANGED <<file, backups, writes>>

\* A database that matches is opened as it is.
OpenAsIs ==
  /\ Down /\ opens < MaxOpens
  /\ db # NoDatabase
  /\ UpToDate(db, file)
  /\ opens' = opens + 1
  /\ open' = Running
  /\ UNCHANGED <<file, db, backups, changes, writes>>

OpenToMigrate ==
  /\ Down /\ opens < MaxOpens
  /\ db # NoDatabase
  /\ ~UpToDate(db, file)
  /\ opens' = opens + 1
  /\ \E policy \in Policies :
       open' = Opening(IF Retention > 0 THEN "backup" ELSE "apply", policy, FALSE)
  /\ UNCHANGED <<file, db, backups, changes, writes>>

\* backupDatabase, named by the version the database records and the time.
TakeBackup ==
  /\ open.at = "backup"
  /\ backups' = backups \cup {[version |-> db.version, stamp |-> opens, of |-> changes]}
  /\ open' = Opening("prune", open.policy, TRUE)
  /\ UNCHANGED <<file, db, changes, opens, writes>>

\* A backup that fails is a warning, and nothing is pruned.
BackupFails ==
  /\ open.at = "backup"
  /\ open' = Opening("apply", open.policy, FALSE)
  /\ UNCHANGED <<file, db, backups, changes, opens, writes>>

\* Faulty variant: newest first.
NewerThan(a, b) == a.version > b.version \/ (a.version = b.version /\ a.stamp > b.stamp)

\* Oldest first: by version, then by time.
OlderThan(a, b) == a.version < b.version \/ (a.version = b.version /\ a.stamp < b.stamp)
Doomed(bs) == {b \in bs : Cardinality({c \in bs : OlderThan(b, c)}) >= Retention}

\* pruneBackups; a file that cannot be removed is a warning.
Prune ==
  /\ open.at = "prune"
  /\ \E removed \in SUBSET Doomed(backups) : backups' = backups \ removed
  /\ open' = Opening("apply", open.policy, open.saved)
  /\ UNCHANGED <<file, db, changes, opens, writes>>

MustAsk == /\ open.policy = "confirm"
           /\ \E i \in DOMAIN Statements(db, file) : Destructive(Statements(db, file)[i])

\* Apply under the confirm policy, with something destructive in the plan.
Refuse ==
  /\ open.at = "apply"
  /\ MustAsk
  /\ open' = Refused
  /\ UNCHANGED <<file, db, backups, changes, opens, writes>>

\* Apply.  A statement that fails rolls everything back, and the open fails.
Apply ==
  /\ open.at = "apply"
  /\ ~MustAsk
  /\ LET after == Migrated(db, Statements(db, file), file.version)
     IN  IF after = Failed
         THEN open' = Broken /\ UNCHANGED <<db, changes>>
         ELSE open' = Running /\ db' = after /\ changes' = changes + 1
  /\ UNCHANGED <<file, backups, opens, writes>>

-----------------------------------------------------------------------------
(* The game, and the end of the process *)

\* A row gets new contents everywhere, a nullable column perhaps none, and an
\* entity of some type of the schema is there.  What is written is named for the
\* column it is written to.
Write ==
  /\ open.at = "running"
  /\ writes < MaxWrites
  /\ \E blank \in BOOLEAN, types \in SUBSET DOMAIN file.types :
       db' = [db EXCEPT
                !.tables = [c \in DOMAIN @ |->
                   [@[c] EXCEPT !.row = [p \in DOMAIN @ |->
                      IF blank /\ db.tables[c].cols[p].null THEN Null ELSE <<c, p>>]]],
                !.types = @ \cup types]
  /\ changes' = changes + 1 /\ writes' = writes + 1
  /\ UNCHANGED <<file, backups, opens, open>>

\* An orderly end, or a crash at any step.
Stop == /\ ~Down
        /\ open' = Closed
        /\ UNCHANGED <<file, db, backups, changes, opens, writes>>

Next == \/ EditSchema \/ Bootstrap \/ OpenAsIs \/ OpenToMigrate
        \/ TakeBackup \/ BackupFails \/ Prune \/ Refuse \/ Apply
        \/ Write \/ Stop

Spec == Init /\ [][Next]_vars

-----------------------------------------------------------------------------
(* Properties *)

\* Whatever the database was built from and whatever the file has become since,
\* one open leaves nothing to do: the migration repairs everything the diff can
\* see, so that the next open neither migrates nor backs up again.  And of all the
\* schemas the validator accepts, one kind alone makes a database of the engine's
\* own -- of this version or an older one -- refuse to open: the plan rebuilds the
\* table of a component x while there is, by then, one of a component x_new.  The
\* validator lets such names through, no statement of any other plan fails, and
\* with these every open fails until the file is changed.
\* (ddlgen.go:400, buildCreateTable; validateIdentifiers)
RebuildsOverAnother(d, f) ==
  LET renamed == ApplyRenames(Introspect(d), f)
      stmts == Statements(d, f)
  IN  \E i \in DOMAIN stmts :
        /\ stmts[i].kind = "rebuild_table" /\ stmts[i].comp \in DOMAIN Scratch
        /\ Scratch[stmts[i].comp] \in DOMAIN renamed.tables \cup DOMAIN f.comps
OneOpenIsEnough ==
  /\ open.at = "running" => UpToDate(db, file)
  /\ open.at = "apply" /\ ~MustAsk =>
       (Migrated(db, Statements(db, file), file.version) = Failed <=> RebuildsOverAnother(db, file))

\* Where the file keeps what is in table c, or column p of it: under the same
\* name, or under one declared to be renamed from it.
TableFor(c) == {n \in DOMAIN file.comps :
                  n = c \/ (file.comps[n].from = c /\ n \notin DOMAIN db.tables)}
ColumnFor(c, p, n) ==
  LET comp == file.comps[n]
  IN  IF IsObject(comp)
      THEN {q \in DOMAIN comp.props :
              q = p \/ (comp.props[q].from = p /\ q \notin DOMAIN db.tables[c].cols)}
      ELSE {p} \cap (IF CanBecome(db.tables[c].cols, comp) THEN {LayoutColumn(comp)} ELSE {})

\* A migration loses nothing the new file still has a place for: renames,
\* retyped columns, new constraints and rebuilds carry every value over.  Under
\* the confirm policy one that runs loses nothing at all.
Contents(d) == UNION {{d.tables[c].row[p] : p \in DOMAIN d.tables[c].row} : c \in DOMAIN d.tables}
               \ {Null, Default}
DataSurvives ==
  [][open.at = "apply" /\ open'.at = "running" =>
       /\ \A c \in DOMAIN db.tables : \A p \in DOMAIN db.tables[c].row :
            \A n \in TableFor(c) : \A q \in ColumnFor(c, p, n) :
              db.tables[c].row[p] \notin {Null, Default} =>
                db'.tables[n].row[q] = db.tables[c].row[p]
       /\ open.policy = "confirm" => Contents(db) \subseteq Contents(db')]_vars

\* As long as the version of the schema never goes down, pruning leaves the
\* backup just made: what the migration is about to change can be restored.
SafeToMigrate ==
  open.at = "apply" /\ open.saved /\ (\A b \in backups : b.version <= db.version) =>
    \E b \in backups : b.of = changes

\* One open is enough, and what it does can be taken back.
OneSafeOpen == OneOpenIsEnough /\ SafeToMigrate
=============================================================================
