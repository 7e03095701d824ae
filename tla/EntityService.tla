----------------------------- MODULE EntityService -----------------------------
(***************************************************************************)
(* Entities and what is attached to them: the world service, which checks  *)
(* the type's contract and then writes in a transaction; the writer of a    *)
(* tick's machines, which checks nothing; deletion, which takes what       *)
(* points at the entity along; and the engine's own tables, which are made *)
(* and rebuilt at every start, killed between any two statements.          *)
(*                                                                         *)
(* A row is a function from columns to values, Nothing being NULL.  A      *)
(* caller of the service reads on one connection and writes on another, so  *)
(* each of its reads is a step of its own.                                 *)
(***************************************************************************)
EXTENDS Integers, FiniteSets, Functions

CONSTANTS Contracts,     \* entity type -> [required, optional, extras, strict]
          Layouts,       \* declared component -> "object", "ref", "array", "scalar"
          Columns,       \* object component -> its columns
          RefColumns,    \* those that refer to an entity, and may be NULL
          Offered,       \* <<component, values>> callers give
          ByMachines,    \* <<component, values>> machines give
          Creations,     \* <<type, components with their values>> callers create
          MapObjects,    \* objects a map may spawn from
          Found,         \* databases a start may find
          Callers,
          Nothing, Standard,   \* NULL, and the column's own default
          MaxEntities, MaxCommits, MaxCrashes

VARIABLES world,    \* type, rows, machines, queue, spawns, next; bare: those a machine spawned
          spawnsTable,   \* made, cascades, column: how spawns was created
          stage,    \* of a start: "open", "rebuilt", "made", "up"
          calls,    \* what each caller of the service is doing
          tick,     \* open, seen: the machines it has read, stale
          commits, kills

worldVars == <<world, spawnsTable, stage, calls, tick, commits, kills>>

Live(d) == DOMAIN d.type
Has(d, e, c) == <<e, c>> \in DOMAIN d.rows
Declared == DOMAIN Layouts
NoTick == [open |-> FALSE, seen |-> {}, stale |-> FALSE]
Extend(f, x, v) == [y \in DOMAIN f \cup {x} |-> IF y = x THEN v ELSE f[y]]
Denied == [refused |-> TRUE]

-----------------------------------------------------------------------------
(* Rows *)

ColumnsOf(c) ==
  CASE Layouts[c] = "object" -> Columns[c] [] Layouts[c] = "ref" -> {"target_entity_id"} [] OTHER -> {"value"}
References(c) == IF Layouts[c] = "ref" THEN {"target_entity_id"} ELSE RefColumns[c]
MayBeNull(c, f) == Layouts[c] = "object" /\ f \in RefColumns[c]

Sound(d, c, row) ==
  \A f \in ColumnsOf(c) : /\ row[f] = Nothing => MayBeNull(c, f)
                          /\ f \in References(c) /\ row[f] # Nothing => row[f] \in Live(d)

Under(v, f) == IF f \in DOMAIN v THEN v[f] ELSE Nothing

\* insertComponent: a column that is not given is NULL, a name that is no column
\* is passed over; one value may come under any name.
NewRow(c, v) ==
  CASE Layouts[c] = "object" -> [f \in Columns[c] |-> Under(v, f)]
    [] Layouts[c] = "ref" ->
         [f \in {"target_entity_id"} |-> IF f \in DOMAIN v THEN v[f] ELSE Under(v, "target")]
    [] Layouts[c] = "array" -> [f \in {"value"} |-> IF f \in DOMAIN v THEN v[f] ELSE Range(v)]
    [] OTHER -> [f \in {"value"} |-> IF f \in DOMAIN v THEN v[f]
                                     ELSE IF Cardinality(DOMAIN v) = 1 THEN CHOOSE x \in Range(v) : TRUE
                                     ELSE Nothing]

\* What SQLite says of an INSERT; the foreign keys are checked last.
Error(d, e, c, row) ==
  CASE \E f \in ColumnsOf(c) : row[f] = Nothing /\ ~MayBeNull(c, f) -> "NOT NULL"
    [] Has(d, e, c) -> "PRIMARY KEY"
    [] OTHER -> "FOREIGN KEY"

\* Faulty variant: the row that is there is replaced.
Upserted(d, e, c, row) ==
  IF e \in Live(d) /\ Sound(d, c, row) THEN [d EXCEPT !.rows = Extend(@, <<e, c>>, row)] ELSE Denied

\* INSERT: the entity has to exist, its primary key must be free, and what is
\* referred to has to exist.
Inserted(d, e, c, row) ==
  IF e \in Live(d) /\ ~Has(d, e, c) /\ Sound(d, c, row)
  THEN [d EXCEPT !.rows = Extend(@, <<e, c>>, row)] ELSE Denied

\* SetComponentValues: the columns named, and no others; nothing at all where
\* nothing is named.
CanSet(c, v) ==
  CASE Layouts[c] = "object" -> DOMAIN v \subseteq Columns[c]
    [] Layouts[c] = "ref" -> Under(NewRow(c, v), "target_entity_id") # Nothing
    [] OTHER -> "value" \in DOMAIN v
Changes(c, v) == IF Layouts[c] = "object" THEN v ELSE NewRow(c, v)
SetTo(d, e, c, v) ==
  IF v = <<>> THEN d
  ELSE IF ~CanSet(c, v) \/ ~Has(d, e, c) THEN Denied
  ELSE LET row == [f \in ColumnsOf(c) |-> IF f \in DOMAIN Changes(c, v) THEN Changes(c, v)[f] ELSE d.rows[<<e, c>>][f]]
       IN  IF Sound(d, c, row) THEN [d EXCEPT !.rows[<<e, c>>] = row] ELSE Denied

-----------------------------------------------------------------------------
(* Contracts *)

AllowedOn(ty, c) == Contracts[ty].extras \/ c \in Contracts[ty].required \cup Contracts[ty].optional

\* ValidateEntityCreation.
MayCreate(ty, names) ==
  /\ names \subseteq Declared
  /\ Contracts[ty].strict => Contracts[ty].required \subseteq names /\ \A c \in names : AllowedOn(ty, c)

\* ValidateAttachComponent.
MayAttach(ty, c, has) == c \in Declared /\ (Contracts[ty].strict => AllowedOn(ty, c)) /\ ~has

\* ValidateDetachComponent: what a type requires stays, whatever its level.
MayDetach(ty, c) == c \in Declared /\ c \notin Contracts[ty].required

-----------------------------------------------------------------------------
(* Entities *)

Created(d, ty, given) ==
  LET e == d.next
      new == [d EXCEPT !.type = Extend(@, e, ty), !.next = e + 1]
      rows == [c \in DOMAIN given |-> NewRow(c, given[c])]
  IN  IF \A c \in DOMAIN given : Sound(new, c, rows[c])
      THEN [new EXCEPT !.rows = [x \in DOMAIN @ \cup {<<e, c>> : c \in DOMAIN given} |->
                                   IF x[1] = e THEN rows[x[2]] ELSE @[x]]]
      ELSE Denied

PointsAt(d, x, e) == \E f \in References(x[2]) : d.rows[x][f] = e

\* What the database takes along when the row of an entity goes.
Cascade(d, e) ==
  [d EXCEPT !.type = [x \in DOMAIN @ \ {e} |-> @[x]],
            !.rows = Restrict(@, {x \in DOMAIN @ : x[1] # e /\ ~PointsAt(d, x, e)}),
            !.machines = @ \ {e},
            !.spawns = Restrict(@, {o \in DOMAIN @ : @[o].ent # e})]

\* Faulty variant: the cascade does it.
DeletedByCascade(d, e) == Cascade(d, e)
\* DeleteEntity: the queue has no foreign key.
Deleted(d, e) == Cascade([d EXCEPT !.queue = @ \ {e}], e)

\* RecordSpawn and SetSpawnComponents.
Recorded(d, o, e) == [d EXCEPT !.spawns = Extend(@, o, [ent |-> e, known |-> TRUE])]

-----------------------------------------------------------------------------
(* Start-up: EnsureInterpreterTables *)

Keeping(said) == UNCHANGED <<calls, tick, commits, kills>> /\ stage' = said

\* Faulty variant: rows without an entity are carried across.
RebuildAll ==
  /\ stage = "open" /\ Keeping("rebuilt")
  /\ spawnsTable' = [spawnsTable EXCEPT !.cascades = @ \/ spawnsTable.made] /\ UNCHANGED world

\* migrateSpawns, in one transaction with foreign keys off: a table whose key did
\* not cascade is copied, but for rows without an entity.
Rebuild ==
  LET old == spawnsTable.made /\ ~spawnsTable.cascades
  IN  /\ stage = "open" /\ Keeping("rebuilt")
      /\ spawnsTable' = [spawnsTable EXCEPT !.cascades = @ \/ old]
      /\ world' = IF old THEN [world EXCEPT !.spawns = Restrict(@, {o \in DOMAIN @ : @[o].ent # Nothing})] ELSE world

MakeTables ==
  /\ stage = "rebuilt" /\ Keeping("made")
  /\ spawnsTable' = IF spawnsTable.made THEN spawnsTable ELSE [made |-> TRUE, cascades |-> TRUE, column |-> TRUE]
  /\ UNCHANGED world

AddSnapshots == stage = "made" /\ Keeping("up") /\ spawnsTable' = [spawnsTable EXCEPT !.column = TRUE] /\ UNCHANGED world

Idle == [at |-> "idle", said |-> "nothing"]
Off == stage' = "open" /\ calls' = [k \in Callers |-> Idle] /\ tick' = NoTick
Killed ==
  /\ kills < MaxCrashes /\ kills' = kills + 1 /\ Off
  /\ UNCHANGED <<world, spawnsTable, commits>>

-----------------------------------------------------------------------------
(* The service *)

\* A transaction that is committed, or rolled back as a whole: the tick that has
\* read before it cannot write any more.
Commit(d) ==
  /\ stage = "up"
  /\ IF d = Denied THEN UNCHANGED <<world, commits, tick>>
     ELSE /\ commits < MaxCommits /\ commits' = commits + 1 /\ world' = d
          /\ tick' = [tick EXCEPT !.stale = @ \/ tick.open]
  /\ UNCHANGED <<spawnsTable, stage, kills>>

Answer(k, said) == calls' = [calls EXCEPT ![k] = [Idle EXCEPT !.said = said]]
Reads == stage = "up" /\ UNCHANGED <<world, spawnsTable, stage, tick, commits, kills>>

CreateEntity(k, ty, given) ==
  /\ calls[k].at = "idle" /\ world.next <= MaxEntities /\ MayCreate(ty, DOMAIN given)
  /\ LET d == Created(world, ty, given)
     IN  Commit(d) /\ Answer(k, IF d = Denied THEN "refused" ELSE "done")

\* GetEntityType; a detach validates what it has read at once.
Ask(k, op, e, c, v) ==
  /\ calls[k].at = "idle" /\ Reads /\ e < world.next
  /\ IF e \in Live(world) /\ (op = "detach" => MayDetach(world.type[e], c))
     THEN calls' = [calls EXCEPT ![k] = [at |-> IF op = "attach" THEN "typed" ELSE "checked", said |-> "nothing",
                                          op |-> op, ent |-> e, comp |-> c, val |-> v, type |-> world.type[e]]]
     ELSE calls[k].said # "refused" /\ Answer(k, "refused")

\* HasComponent, and the validation of an attach.
Check(k) ==
  /\ calls[k].at = "typed" /\ Reads
  /\ IF MayAttach(calls[k].type, calls[k].comp, Has(world, calls[k].ent, calls[k].comp))
     THEN calls' = [calls EXCEPT ![k].at = "checked"]
     ELSE Answer(k, "refused")

\* AttachComponent of the adapter: the one error it gives a name of its own is
\* that of a UNIQUE constraint.
Said(error) == IF error = "UNIQUE" THEN "already attached" ELSE "refused"

AttachComponent(k) ==
  LET call == calls[k]
      row == NewRow(call.comp, call.val)
      d == Inserted(world, call.ent, call.comp, row)
  IN  /\ call.at = "checked" /\ call.op = "attach" /\ Commit(d)
      /\ Answer(k, IF d # Denied THEN "done" ELSE Said(Error(world, call.ent, call.comp, row)))

DetachComponent(k) ==
  LET x == <<calls[k].ent, calls[k].comp>>
  IN  /\ calls[k].at = "checked" /\ calls[k].op = "detach"
      /\ IF x \in DOMAIN world.rows
         THEN Commit([world EXCEPT !.rows = Restrict(@, DOMAIN @ \ {x})]) /\ Answer(k, "done")
         ELSE Commit(Denied) /\ Answer(k, "refused")

\* The importer: an object becomes an entity, is updated, or goes with its entity.
SpawnObject(o, ty, given) ==
  /\ o \notin DOMAIN world.spawns /\ world.next <= MaxEntities /\ MayCreate(ty, DOMAIN given)
  /\ LET d == Created(world, ty, given) IN d # Denied /\ Commit(Recorded(d, o, world.next))
  /\ UNCHANGED calls

SetOrAttach(e, c, v) ==
  LET set == SetTo(world, e, c, v)
      d == IF set = Denied /\ CanSet(c, v) /\ ~Has(world, e, c) THEN Inserted(world, e, c, NewRow(c, v)) ELSE set
  IN  /\ e \in Live(world) /\ MayAttach(world.type[e], c, FALSE)
      /\ d \notin {Denied, world} /\ Commit(d) /\ UNCHANGED calls

DeleteEntity(e) == e \in Live(world) /\ Commit(Deleted(world, e)) /\ UNCHANGED calls

-----------------------------------------------------------------------------
(* A tick: its machines write without asking *)

StartMachine(e) ==
  /\ e \in Live(world) \ world.machines /\ UNCHANGED calls
  /\ Commit([world EXCEPT !.machines = @ \cup {e}])

BeginTick ==
  /\ stage = "up" /\ ~tick.open /\ world.machines # {}
  /\ tick' = [open |-> TRUE, seen |-> world.machines, stale |-> FALSE]
  /\ UNCHANGED <<world, spawnsTable, stage, calls, commits, kills>>

MachineRow(c, v) ==
  [f \in ColumnsOf(c) |-> IF f \in DOMAIN v THEN v[f] ELSE IF Layouts[c] \in {"array", "scalar"} THEN Standard ELSE Nothing]

MachineSets(d, e, c, v) ==
  IF ~Has(d, e, c) THEN d
  ELSE LET row == [f \in ColumnsOf(c) |-> IF f \in DOMAIN v THEN v[f] ELSE d.rows[<<e, c>>][f]]
       IN  IF Sound(d, c, row) THEN [d EXCEPT !.rows[<<e, c>>] = row] ELSE Denied

\* What a machine of e may leave: the event of a timer, a component attached,
\* detached or written, an entity of a type and with nothing on it.
MachineWrites(d, e) ==
  {[d EXCEPT !.queue = @ \cup {e}]}
  \cup {Inserted(d, e, cv[1], MachineRow(cv[1], cv[2])) : cv \in ByMachines}
  \cup {MachineSets(d, e, cv[1], cv[2]) : cv \in ByMachines}
  \cup {[d EXCEPT !.rows = Restrict(@, DOMAIN @ \ {<<e, cv[1]>>})] : cv \in ByMachines}
  \cup {[d EXCEPT !.type = Extend(@, d.next, ty), !.next = @ + 1, !.bare = @ \cup {d.next}] :
           ty \in {t \in DOMAIN Contracts : d.next <= MaxEntities}}

\* Faulty variant: it writes all the same.
TickOverOthers ==
  /\ tick.open /\ commits < MaxCommits
  /\ \E e \in tick.seen : \E d \in MachineWrites(world, e) : d # Denied /\ world' = d
  /\ tick' = NoTick /\ commits' = commits + 1 /\ UNCHANGED <<calls, stage, spawnsTable, kills>>

\* A tick commits as a whole; one that cannot, because a machine's write is
\* refused or somebody has committed since it read, ends the process.
Tick ==
  /\ tick.open
  /\ \/ /\ ~tick.stale /\ commits < MaxCommits
        /\ \E e \in tick.seen : \E d \in MachineWrites(world, e) : d # Denied /\ world' = d
        /\ tick' = NoTick /\ commits' = commits + 1 /\ UNCHANGED <<calls, stage>>
     \/ /\ tick.stale \/ \E e \in tick.seen : Denied \in MachineWrites(world, e)
        /\ Off /\ UNCHANGED <<world, commits>>
  /\ UNCHANGED <<spawnsTable, kills>>

-----------------------------------------------------------------------------
(* What belongs together *)

LeftToMachines == {cv[1] : cv \in ByMachines}
MayPoint(c) == References(c) # {}

RowsAreSound(d) == \A x \in DOMAIN d.rows : x[1] \in Live(d) /\ Sound(d, x[2], d.rows[x])

\* An entity the service has made has what its type requires and, where the type
\* is strict, nothing else; but for what machines take and give, and what went with
\* the entity it referred to.
ContractsHold(d) ==
  \A e \in Live(d) \ d.bare :
    LET type == Contracts[d.type[e]]
    IN  /\ \A c \in type.required \ LeftToMachines : Has(d, e, c) \/ MayPoint(c) \/ ~type.strict
        /\ \A c \in Declared \ LeftToMachines : Has(d, e, c) /\ type.strict => AllowedOn(d.type[e], c)

\* A table of spawns whose key does not cascade, of an earlier version, has rows of
\* nobody in it.
SpawnsOf(d, orphans) ==
  \A o \in DOMAIN d.spawns : d.spawns[o].ent \in Live(d) \/ (orphans /\ d.spawns[o].ent = Nothing)
Old(table) == table.made /\ ~table.cascades

\* A start finds a database that this program, or an earlier one, has left.
ASSUME FoundAssumption == \A found \in Found :
  LET d == found.world
  IN  /\ DOMAIN d = {"type", "rows", "machines", "queue", "spawns", "next", "bare"}
      /\ DOMAIN found.table = {"made", "cascades", "column"}
      /\ found.table.made \in BOOLEAN /\ found.table.cascades \in BOOLEAN
      /\ d.next \in Nat \ {0} /\ Live(d) \cup d.bare \subseteq 1..(d.next - 1)
      /\ \A x \in DOMAIN d.rows : x = <<x[1], x[2]>>
      /\ RowsAreSound(d) /\ ContractsHold(d)
      /\ d.machines \cup d.queue \subseteq Live(d) /\ SpawnsOf(d, Old(found.table))

-----------------------------------------------------------------------------
WorldInit ==
  /\ \E found \in Found : world = found.world /\ spawnsTable = found.table
  /\ stage = "open" /\ calls = [k \in Callers |-> Idle] /\ tick = NoTick /\ commits = 0 /\ kills = 0

WorldNext ==
  \/ Rebuild \/ MakeTables \/ AddSnapshots \/ Killed \/ BeginTick \/ Tick
  \/ \E k \in Callers :
       \/ Check(k) \/ AttachComponent(k) \/ DetachComponent(k)
       \/ \E birth \in Creations : CreateEntity(k, birth[1], birth[2])
       \/ \E e \in 1..MaxEntities, cv \in Offered : Ask(k, "attach", e, cv[1], cv[2])
       \/ \E e \in 1..MaxEntities, c \in Declared : Ask(k, "detach", e, c, <<>>)
  \/ \E o \in MapObjects, birth \in Creations : SpawnObject(o, birth[1], birth[2])
  \/ \E e \in Live(world) :
       \/ DeleteEntity(e) \/ StartMachine(e)
       \/ \E cv \in Offered : SetOrAttach(e, cv[1], cv[2])

WorldSpec == WorldInit /\ [][WorldNext]_worldVars

-----------------------------------------------------------------------------
\* What is in the database belongs together, whoever wrote it and in whatever
\* order: rows, machines, events and spawns are of entities that exist and refer to
\* such, no column is empty that may not be, and types keep their contracts.
EntitiesAreWhole ==
  /\ RowsAreSound(world) /\ ContractsHold(world)
  /\ world.machines \cup world.queue \subseteq Live(world)
  /\ stage = "up" => SpawnsOf(world, FALSE)

StartsKeepRecords ==
  stage' # stage =>
    /\ world'.rows = world.rows
    /\ \A o \in DOMAIN world.spawns : world.spawns[o].ent # Nothing =>
         o \in DOMAIN world'.spawns /\ world'.spawns[o] = world.spawns[o]
CallsOverwriteNothing ==
  calls' # calls => \A x \in DOMAIN world.rows \cap DOMAIN world'.rows : world'.rows[x] = world.rows[x]
DeletionsTakeTheirOwn ==
  LET gone == Live(world) \ Live(world')
  IN  gone # {} =>
        /\ \A x \in DOMAIN world.rows :
             \/ x[1] \in gone \/ \E e \in gone : PointsAt(world, x, e)
             \/ x \in DOMAIN world'.rows /\ world'.rows[x] = world.rows[x]
        /\ world.machines \ gone = world'.machines /\ world.queue \ gone = world'.queue
        /\ \A o \in DOMAIN world.spawns : world.spawns[o].ent \in gone \/ o \in DOMAIN world'.spawns
TouchesItsOwn == StartsKeepRecords /\ CallsOverwriteNothing /\ DeletionsTakeTheirOwn

\* Nothing is touched that was not asked for.  Of two attaches that overlap one
\* is refused, and overwrites nothing; a deletion takes the entity and what pointed at it;
\* a start loses no record of a spawn that lives.
NothingElseIsTouched == [][TouchesItsOwn]_worldVars

\* "Returns errors.Is(err, ErrAlreadyAttached) if the component is already
\* present": an attach that loses the race says so.  It does not.
\* (world/port.go; storage/entity.go, AttachComponent)
DuplicatesAreSaid ==
  [][\A k \in Callers :
       calls[k].at = "checked" /\ calls'[k].at = "idle" /\ stage' = stage
       /\ calls[k].op = "attach" /\ Has(world, calls[k].ent, calls[k].comp)
         => calls'[k].said = "already attached"]_worldVars
==============================================================================
