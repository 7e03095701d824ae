# ecs-db: what the engine does, in TLA+

ecs-db is a game engine whose state is a SQLite database and whose behaviors are
state machines written in JSON. This directory holds its specification: TLA+
modules translated from the Go code, TLC runs that check them on small
instances, and TLAPS proofs of what matters most for every value of the constants. Paths are
relative to the repository's root (`src/` here).

## 1. Inventory

### The parts, their state and their operations

**Statechart interpreter** (`internal/agent`: `interpreter.go`, `agent.go`,
`scheduler.go`, `machine_writer.go`). It keeps nothing in memory between two
calls: `LoadAgent` rebuilds an agent from `behavior_components.current_states`
(the ids of the active leaves), `SendEvent` chooses transitions, runs exit,
transition and entry actions, cancels and schedules `after` timers as
`event_queue` rows, stores the new leaves. Everything is written to the caller's
transaction as it happens. *Hard*: timers must follow states over any run of
transitions, self-transitions, re-entries and history; an action may fail
between any two writes, and the caller commits what was written; ids are leaf
names, and ancestors are implicit; parallel regions share one configuration.
*Correct when*: a pending timer belongs to an active state and every timed state
that is entered has its timer; exactly one leaf without parallel states; what
entry actions set up is torn down once; a timed state is left in the end.

**Machine definitions** (`machine.go`, `validator.go`): parsing JSON to a tree of
StateNodes and refusing what the interpreter could not run. *Correct when*: every
accepted definition satisfies what the interpreter takes for granted.

**Tick loop** (`internal/renderer/tick.go`, `game.go`): every third frame
`RunTick` opens a transaction, hands the pending `input_events` to the player's
handler, drains the due `event_queue` rows of the active map, delivers them, sends TICK to
every running machine of the map, advances `current_tick`, commits. The frames in
between insert inputs. An error of `RunTick` ends the process. *Hard*: the
process may die between two statements; other goroutines (watchers) commit
between its reads and its first write, which SQLite refuses; one batch is drained
before any of it is delivered; one queue and one clock serve all maps.
*Correct when*: the database goes through whole ticks only, inputs take effect
once and in order, other maps' machines are untouched.

**Start-up** (`cmd/ecs-db/run.go`, `internal/game/behaviors.go`): scans behavior
files, starts machines for the entities that lack one (`SyncBehaviors`), each in
a transaction of its own. *Correct when*: a restart leaves running machines where
they were.

**Loader, watcher, reconciler** (`internal/agent/loader.go`, `watcher.go`,
`reconcile.go`): fsnotify events debounced per file by a timer, a goroutine per
timer that reads, validates and swaps the definition, then resets entities whose
stored states the new one lacks. *Hard*: it runs beside the tick loop and beside
other reloads. *Correct when*: only validated definitions run, nobody is left in
a state the definition lacks, nothing the ticks did is undone.

**Interpreter tables and adapters** (`internal/storage/tables.go`,
`world_adapter.go`): the tables above and the SQL on them.

**Built-in actions and guards** (`internal/agent/builtins`): effects on
components of the world (walk a path, set an animation, test a distance). *Hard*:
the entities of a tick move one after the other, on a view of the world that must
include those that have moved already; a restart keeps what a machine attached
and not where it stood. *Correct when*: nobody stands in what denies it, paths are
shortest, walls hold, a walker arrives.

**Schema, storage, migration, backup** (`internal/schema`, `internal/storage`):
a database is opened, its version compared with the schema's, the difference
classified, a backup taken (`VACUUM INTO`), the migration applied in a
transaction, old backups pruned. *Hard*: a crash between any two of these steps.
Renames, changes of layout and repairs of what older versions built all go through
one plan of statements. *Correct when*: afterwards there is a database at the old
version or one at the new with a usable backup; the next open finds nothing to do;
no plan fails; nothing is lost that the file has a place for.

**World service** (`internal/world`, `storage/entity.go`): creates entities, attaches,
detaches and sets components, validated against the contract of the entity's type,
one transaction each; machines write the same tables without it. *Hard*: what is
validated is read on one connection before the transaction of the write; tables
refer to entities, and one, the event queue, is not told of a deletion by a foreign key;
the engine's own tables are rebuilt at a start that may be killed. *Correct when*:
rows, events and spawns are of entities that exist and nobody touches what it was
not asked for.

**Map import** (`internal/tilemap`: `loader.go`, `layered.go`, `spawn.go`,
`tile_links.go`): the tiles and objects of a Tiled map become entities; re-imports
update, create and delete them against the `spawns` table; the tiles are
one transaction, every object one, the links one. *Hard*: a kill between any two of them, objects that are
refused, a map that gets an id, machines that change what was imported. *Correct
when*: a finished load is the file, nothing the importer made is out of its reach,
a second load writes nothing, and what machines did survives.

**Occupancy, pathfinding, line of sight** (`internal/tilemap`): pure algorithms
on grids.

**Forge** (`internal/forge`): the web editor. File sessions
(`editable/editable.go`) hold a file's snapshot and the edited value, detect that
somebody else changed the file, save atomically, discard, reload; the event bus
and the push hub (`eventbus`, `server/push.go`, `server/pagestate.go`) tell open
pages what changed. *Hard*: an outside editor between any two steps; dropped
events; streams that reconnect while the one they replace closes. *Correct when*:
unsaved work and unread changes are given up only on request, and every page ends
up showing what is.

Three editors work on those sessions. SCHEMA and ENTS (`server/schemaedit.go`,
`server/entsedit.go`, `session`) edit a schema and, before they save it, ask
whether the engine would drop data at its next start. AGENTS (`machines/states.go`,
`machines/transitions.go`, `server/canvasedit.go`, `chart/chart.go`) edits a
statechart whose states are referred to by spelling and drawn where their own meta
or a grid puts them. *Hard*: everything that names what is renamed or
deleted must follow it; pages show a thing by its name and select a transition by
its place; the canvas shifts what would be off it, and a drag outlasts the edits of
other pages. *Correct when*: an edit leaves what could be saved savable, references
keep their meaning, the panel edits what the user selected, a box stays where it was
let go, and whatever is drawn can be clicked. MAP
(`server/paintedit.go`, `spawnedit.go`, `tilelinkedit.go`, `mapmenu.go` over
`paint`, `spawn`, `tilelinks` and `tiled`) edits the layers and objects of a Tiled
map. *Hard*: a page paints on a layer it chose long before; a context menu is
opened, drawn and acted on by requests that overlap others; objects link to tiles
by cells relative to themselves; ids are handed out by a counter in the file.
*Correct when*: the engine can import whatever was edited, links lead where they
led, an edit lands where it was aimed, no id means two objects in turn.

SPRITES (`animations/session.go`, `server/animationedit.go`) edits one file,
`animations.toml`, publishes imported images at once, and keeps a trail of renames
by which a page finds what it shows. *Correct when*: a page finds the animation it
chose under the name it knows.

Behind MAP and TILES (`maps/maps.go`, `tilesets/session.go`, `server/tilesetedit.go`)
are two sessions with a mutex each: the project's maps, and one working value of
every tileset those maps name, by which both are drawn. *Hard*: who holds the maps
asks for tilesets, and the list of tilesets is made from the maps; files vanish or
stop being named while they have unsaved work. *Correct when*: no two requests wait
for each other, and unsaved work stays and can be found.

Both write through a tree of XML (`tiled/xmltree.go`) that keeps what it does not know:
an element is written as it was read unless it is marked. *Correct when*: what
is written can be read and says what was edited, and nothing else is touched.

What is in such a file is read by three: the engine, which takes the map or refuses
it (`tilemap/loader.go`, over the readers of package `tiled`), MAP, which draws what it
can of it and marks the rest (`forge/mapcanvas`, `forge/mapvalidation`), and TILES, which says
of a tile whether it can be painted with (`forge/tilesetvalidation`). *Hard*: cells are written in
seven ways, ids are words with flags, tilesets overlap, are missing and change behind
the page. *Correct when*: a mark says what the engine does, a tile is drawn where it
stands and turned as it is, and what the palette hands out is what is painted.

**Animation loader** (`internal/renderer/anim_loader.go`): the engine loads
`animations.toml`, stamps the sheets of its bindings on sprites in a transaction,
and watches the file. *Hard*: the timers of several saves and the goroutines they
start overlap; the transaction may fail. *Correct when*: what is saved reaches the
sprites, and a binding that is taken out is cleared, also after a failure.

**Renderer, templates**: reading and drawing.

### How they interact

The tick loop is the interpreter's only caller at run time, on the Ebitengine
goroutine; start-up calls it before the loop begins. They share the database:
`behavior_components`, `event_queue`, `input_events`. The watcher goroutines share
the *definition* with the tick loop (a map under a RWMutex, read once per delivery) and
the database through SQLite's single-writer rule. Forge is a process of its own
that shares only files: schema, behaviors, maps.

The list of what is hard to test, each item at its line, is `hazards` in
`PROJECT.json`.

## 2. Plan

| Order | Module | What | Status |
|---|---|---|---|
| 1 | `Statechart` | the tree questions of the interpreter, as operators on a chart | done |
| 1 | `Interpreter` | StartAgent and SendEvent as sets of possible results | done |
| 1 | `AgentRuntime` | one entity, one machine: the interpreter's own promises | done |
| 1 | `AgentRuntimeProofs` | types, one legal chain of states; timers and set-up follow it | done |
| 2 | `TickLoop` | start-up, frames, RunTick, crashes | done |
| 2 | `AtomicWorld` | whole ticks only; `TickLoop` implements it | done |
| 2 | `HotReload` | `TickLoop` composed with watcher, loader, reconciler | done |
| 3 | `MachineFiles` | Forge: the machine session, its files, and somebody else in the directory | done |
| 3 | `MachineFilesProofs` | types, no unsaved work and no unread change lost | done |
| 3 | `LiveUpdates` | Forge: event bus, shared poller, reconnecting streams | done |
| 4 | `SchemaDiff` | from a file and a database to statements, and what they do | done |
| 4 | `DatabaseOpen` | open, plan, back up, prune, migrate, with crashes | done |
| 4 | `EntityService` | entities, components and contracts, written by several; the engine's own tables at a start | done |
| 4 | `MapImport` | LoadMap transaction by transaction, with kills | done |
| 5 | `Pathfinding` | A*, flood fill, ray | done |
| 5 | `Movement` | the entities of a map that move, in each other's way | done |
| 6 | `SchemaEdits`, `SchemaSession` | Forge: edits of a schema, renames, confirmed saves | done |
| 6 | `ChartEdits` | Forge: edits of a statechart and the page's selection | done |
| 6 | `ChartLayout` | Forge: where the canvas draws a machine, and what a drag records | done |
| 6 | `MapDocument`, `MapEdits` | Forge: painting, links, spawns, layers and menus of a map | done |
| 6 | `SpriteSession`, `SpriteSync` | Forge: editing animations; the engine that loads them | done |
| 6 | `TilesetSessions` | Forge: the files behind MAP and TILES, with two mutexes and requests that overlap | done |
| 6 | `TiledText`, `TiledEdits` | Forge: the text of a TMX or TSX file and what edits make of it | done |
| 6 | `TiledMaps` | reading maps and tilesets of either format, and where each tile is drawn | done |
| 6 | `MapReports` | one map and what the engine, MAP and TILES make of it, with a page and a palette that age | done |
| 7 | `TickLoopProofs` | whole ticks for any chart, what is saved is whole, reloads are sound | done |
| 7 | `StorageProofs` | what is in the database belongs together; the backup survives | done |
| 7 | `TilesetSessionsProofs`, `LiveUpdatesProofs` | unsaved work, mutexes, what imports keep; the poller, selections | done |
| 7 | `MovementProofs` | all stand apart, ways are shortest, walls hold | done |
| 7 | `ForgeProofs` | names find what they were given for; marks and boxes are true; maps stay importable | done |
| 8 | -- | rounding of delays to ticks | later |

`Interpreter` EXTENDS `Statechart`; `AgentRuntime` and `TickLoop` EXTEND
`Interpreter`; `HotReload` EXTENDS `TickLoop`, so that its engine steps are
those of the tick loop. `DatabaseOpen` and `SchemaSession` (through `SchemaEdits`)
EXTEND `SchemaDiff`: the engine migrates, and Forge predicts, with the same diff.
`Movement` EXTENDS `Pathfinding`, `MapEdits` EXTENDS `MapDocument`,
`TiledEdits` EXTENDS `TiledText`, `MapReports` EXTENDS `TiledMaps`,
`SpriteSync` EXTENDS `SpriteSession`: the engine watches the file Forge saves. `MachineFiles`, `LiveUpdates`, `ChartEdits`,
`ChartLayout`, `EntityService`, `TilesetSessions` and `MapImport` stand alone. The abstract specification is `AtomicWorld`.

Theorems still worth proving: `LegalConfiguration` with parallel regions; what the
statements of a plan do to a database, on which the first half of `OneSafeOpen` rests;
`EverythingCanBeClicked` of the canvas; and that a finished load is the file (`FinishedLoads`).

## 3. Modules and code

**`Statechart`**: a chart is a record of functions on nodes. The chain of
`Parent` pointers is the *set* `anc[n]`, which in a tree determines it, so that
`lcaNode`, `computeExitSet`, `expandEntry` and `selectEligibleTransitions` are
set expressions without recursion (and can be proved about). `IsChart` says what
the parser and the validator guarantee. `id` and `found` are separate from the
nodes because the code stores `machine.leaf` ids, which two nodes may share, and
`alike` says whose rows the LIKE pattern of an id matches besides its own.

**`Interpreter`**: an entity is `[cfg, timers, entered]`: `current_states`, its
`event_queue` rows, and the states whose entry actions have run and whose exit
actions have not since. `SendEvent(c, m, e, tick)` is the set of machines one
call can leave behind: one for every outcome of the guards, every order
`sortByDepthDesc` may produce, and every prefix of writes before a failing
action. Context values are not modelled: what a guard reads may change at
any time, so each evaluation may go either way. `Cancel` takes the rows of alike
ids with those of the states that are left, as the DELETE of `CancelAfterEvents` does.

**`AgentRuntime`**: Start, Deliver (an event), Fire (a due row), Advance (a tick
passes).

**`TickLoop`**: `db` is what is committed; `tx` the open transaction with the
view it read, in the phases inputs, drain, deliver, ticks; `stale` says that
somebody committed after its first read, so that its first write is refused.
`BootWith`/`StartBehavior`/`RunGame` are start-up, `Frame` is a frame that
samples a key, `Begin` to `Commit` are RunTick statement by statement, `Crash`,
`Busy` and `OtherCommit` what goes wrong.

**`AtomicWorld`**: start a machine, insert an input, one whole tick of the active
map, another map. Inputs are numbered as they come, so that a tick which lost one
or took one twice would be no tick of it.

**`HotReload`**: `file` is what is on disk, `def` what the loader holds,
`timers` the watcher's map, `reload` each edit's timer and goroutine with a
program counter: armed, fired, read, store, select, reset.

**`MachineFiles`**: `disk` is a behaviors directory, `files` the session's table
of `editable.File`s (working value `cur`, snapshot `snap`), `listed` its
resolved order. A file's contents are an id, a body out of a small set, some of
which do not validate, and whether the layout is the emitter's own, on which the
difference between "unsaved" and "would be reformatted" rests. Every operation is one
step, as it holds the session's mutex, with the handler's check of the path in front
of it; only `Save` is split (`SaveBegins`, per file `Check` and `Write`,
`SaveEnds`), because `Outside`, somebody else changing the directory, does not
know the mutex. A re-resolve and the opening of what it found are one step.

**`ChartEdits`**: `def` is the working value of one machine: the authored order of
every level, each state's name, own id and initial, and its transitions by key.
States are nodes, the pointers of the code, so that a rename changes a name and
moves nothing; paths are computed, as `chart.Build` does. Targets and initials are
sequences of words, and `Resolve` is the engine's own resolver: head of a dotted
path, then a name or id of the level, then descent in order. `sel` is the page's
selected transition, its state's path with key and place, as `EdgeID` spells it.
One action per operation of the canvas, its menu and the panel, with what
`handleTransitionEdit` then does to the selection.

**`ChartLayout`**: `doc` has the order of every level, each state's recorded place or
none, how many entry actions it shows, and its transitions. `Build` is `chart.Build`:
sizes from the innermost box out, places, lines fanned out between the same two
boxes and cut off at them, labels moved down until they are apart, and the shift of
it all. Coordinates are whole pixels where the code has floats. `drag` is the state a
page drags, which is no request until it is dropped; the drop says by how much.
`asked` is the last request. What highlights a selection or a fault is not drawn.

**`LiveUpdates`**: a page is three regions: what is outside Forge, what the server
holds, what the page has selected. `conns[c].at` walks `handleModeEvents`
(subscribe, render, send, wait), `pollers[k]` walks `pollEngine` (first look, wait
for a tick, gone), `records` are the page states with their count of streams,
`stamps` the versions a page load rendered, `buffered` the events in a
subscription, cut off at `Buffer`. `Edit` and `Publish` are the two halves of a
request; `LetGo`, `Connect`, `Hangup` and `Leave` let a reconnect overlap the
close of the stream it replaces in either order.

**`SchemaDiff`**: a schema file and a database as functions from components to
layouts and columns; `Diff` is `schema.Diff` on the copy with the renames applied,
`Generate` the statements of `ddlgen.go`, and `Exec` what SQLite does with each,
failures included: a rebuild of x creates `comp_x_new`, which fails where a component
x_new (`Scratch`) has that table. One row stands for all rows of a table.

**`DatabaseOpen`**: `open.at` walks `openStore` (plan, back up, prune, apply), the
backup and the pruning outside any transaction, `Apply` as a whole; `changes`
counts what the database has seen, so that a backup knows what it is of; `Stop` is
a crash or an exit anywhere. Databases an older engine built are among the initial
ones. The engine itself opens through `NewSQLiteStore`, which migrates
automatically and keeps no backups (`BackupRetention` is 0), although
`docs/stories/epic-2/06-backup.md:26` says the default is 3: the runs with a
retention are about the configurable constructor. Forge only reads the database.

**`EntityService`**: `world` has the entities with their types, a row for every
attached component (a function from columns to values, `Nothing` being NULL), the
machines, the events that wait and the spawns. A component is of one of four
layouts, and `NewRow` and `SetTo` say what the values a caller gives become in
each. `Ask`, `Check` and the write are three steps of a caller of the service
(`calls`); an importer writes in one transaction; a tick (`tick`) reads, and what
its machines write is refused if somebody committed since, which ends the process.
`stage` walks `EnsureInterpreterTables` after `storage` has opened, a kill between
any two statements. Keys and cascades are what SQLite does.
`MCStorage` checks it in one run with `DatabaseOpen` (`side`).

**`MapImport`**: `pc` walks `LoadMap`, one step for each transaction: after the checks
up front the tiles with their art, the adoption of spawns recorded by path, each
object in turn, the spawns that are gone, the links. `db` has entities with component fields, the
spawns table with what was authored, and the art table. The branch in which
`syncTileReferences` fails is no action: a part of `LoadedIsFile` shows that it is
never taken.

**`Pathfinding`**: `AStar` is the search behind `computePath` with the code's queue order, as a recursive
function on its state; `Reachable` the flood fill; `Ray` the steps of `inLineOfSight`,
`Cast` where they end.

**`Movement`**: positions in parts of a cell, `CellOf` by floor and `Int2` by
truncation, as the two places of the code do. A tick is the input, then due
timers, then every machine once, in any order, then `Commit` or `Fail`; `saved` is
what is committed, `Restart` puts movers back where the map has them. An entity
occupies the cells of its footprint, which need not contain the cell it stands in:
`Places` are the cells from which the whole footprint is on the map, `Open` those of
them it may enter.

**`SchemaEdits`, `SchemaSession`**: edits as functions from schemas to schemas
with what `jsonorder` makes of the order; `cur`, `snap` and `disk` of the
`editable.File`; a save in two steps, the preview against `db` and the write;
`held`, the save that waits for an answer; `trail`, the renames by which a page
still finds what it shows; and the engine, which may start and migrate. `Reserved` are the
names `unusableAsColumn` lists: the editors take them and `Valid` does not.

**`MapDocument`**: a document is its tile layers in drawing order, its objects by
id and the counter `nextobjectid`; painting, moving, copying and deleting are
functions on documents. A layer has a `key` that says which it is whatever its id
says, for ids may be missing or doubled. `Imports` is no code of Forge: it is what
the engine's importer asks of a map.

**`MapEdits`**: `doc` is the working document, `saved` the file, `aim` the layer the
page chose; `seq`, `menu`, `opening`, `drawn` and `acting` are a context menu on its
way through three requests; `asked` is what the last edit was for and `gone` the
ids of objects the file does not have any more. An edit is one step, as it holds
the session's mutex.

**`SpriteSession`, `SpriteSync`**: `toml` is `animations.toml`, `draft` and `snap` the
one `editable.File` on it, `images` the sheets that are there, `trail` the renames, `page`
the animation a page chose; an edit and the record of its rename are one step,
though the code makes them under two mutexes. `engine` is what `AnimLoader` holds,
`reloads` its timer, the goroutines that wait for `reloadMu` and the one that has it.

**`TilesetSessions`**: `mapFiles` and `sheetFiles` are the files of the two sessions
(`editable.File`s), `tabs`, `unresolved` and `told` the maps the project has, those whose
tilesets do not resolve and what the panel reports, `entries` the list of tilesets
with whether they may be written. `serving[r]` is a request between two points at
which it takes or leaves a mutex: `RefreshMaps`, `ReadTileset` and `LeaveMaps` are a
refresh of the maps, `Collect` to `RebuildTilesets` the list of tilesets, `Preview` the
canvas; an operation on a file is looked up first (`AskFor`) and done later.

**`TiledText`, `TiledEdits`**: a tree is a sequence of elements with attributes and
children, and `src`, `dirty` and `selfClose` of `xelem`; text is a sequence of tokens,
of which only whose spelling it is and whether it is space or a comment matters.
`Render` and `Loaded` are `render` and `parseTree`; `Parsed`, a reader of tokens, is
no code of Forge but what any reader makes of the text.

**`TiledMaps`, `MapReports`**: a file is what a reader of XML or JSON makes of its text:
records and sequences, layers and folders in the order of the text, each with the folder it
stands in. A global tile id is a word of a number and four flags; the data of a layer is a
list of numbers, commas, or packed bytes, and `DecodeCSV` and its like say what each reader
refuses. `Takes` is the engine's loader, `Preview` and `Build` are MAP's reading and its
marks, `Check` the findings of TILES; `EntityMade` is what importing the entity of a cell
asks for: the footprint on the map, the contract of the type, and rows that are whole. `mapPage` is what MAP last sent: map, marks, canvas.
`RenderMap` sends it, `PaintSome` paints with a tile of its palette, `TheyChange` is somebody
else with the tilesets. `meant`, the map the file was written to hold, and `strokes`, what was
painted where, are no variables of the program but what its answers are compared with.

`MCForgeModes` checks MAP, SPRITES, the text and the reports in one run: they share no state,
so that a behaviour is about one of them (`mode`). `MCAgentsMode` does the same for
`MachineFiles`, `ChartEdits` and `ChartLayout`, and `MCMapFiles` for `MapImport` and
`TilesetSessions` (`side`).

**`ChartLibrary`, `MC*`**: charts taken from the repository's behaviors and
tests or drawn to bring the cases together (`Soldier` is `Guard` and `Posture`
under one root), and the constants of the runs.

## 4. Runs

| Run | What is checked |
|---|---|
| `agent` | the interpreter on one machine of a nested part with overlapping guards, two timers on one state and a history state, and a part with parallel regions, deep history and failing actions: types, timers belong to active states, what was entered is active, the configuration is one the chart allows, entering arms |
| `ticks` | the tick loop with two entities on two maps, crashes at any step and commits by another goroutine; it implements `AtomicWorld`, inputs are handled and timed states are left in the end |
| `reload` | edits at any moment of a tick, of another reload, or while the game is down |
| `reload_race` | a violation: a tick that commits between the reconciler's query and its transaction strands an entity (`findings` quotes the document that rules it out) |
| `agents_mode` | every operation of the machine session on any directory of two files while somebody else changes it twice; or any two edits of a machine that spells its targets in every way, with any selections before and between; or any two gestures on the canvas of one, with a drag under way: boxes land where they were let go and all that is drawn can be clicked |
| `forge_modes` | two requests of MAP on four maps, with a stale choice of layer and menus under way: importable, links kept, edits land where aimed, ids not used again; or edits of SPRITES beside an outside writer and an engine that reloads and is restarted: pages find what they chose, sheets are remembered, bindings arrive; or two edits of the text of two tilesets and a map; or a map in seven ways of writing, its page and a stroke: all readers agree on it, marks say what the engine does, tiles are drawn on their cells, the palette paints what was chosen |
| `live_updates` | a page that reconnects, with a request, a change outside, other pages' loads, dropped events, a shutdown |
| `storage` | every pair of 28 schemas over databases this engine or an older one built, crashes anywhere; or two callers of the world service, an importer and a tick, over databases with older tables of the engine |
| `attach_race` | a violation: of two attaches of one component the later is refused as any error is, not with the one the port names |
| `map_files` | three starts over any versions of a map, killed between any two transactions; or three requests over two maps and two tilesets, two of them at a time, and a change by somebody else |
| `schema_edits` | two edits around saves, confirmations, an outside writer and an engine that migrates |
| `movement` | a player, a walker and a chaser in each other's way, crashes and restarts |

Some properties hold only where the code is right, and say so: the conditions are
in their definitions and comments, and the behaviour beyond them is a note of the
hazard in `PROJECT.json`. So `EnteringArms` is checked on charts whose targets are
siblings of a source or its ancestors, `EnteredAreActive` is an equality only where
nothing fails and nothing is parallel, `LegalConfiguration` on a parallel state
that is left as a whole, `PagesFollowRenames` while no name comes back,
`CheckedSavesLoseNothing` for a save that nothing came between and where no
rename of a table is pending, `EditsKeepItValid` for schemas without interaction
rules and declared renames, of edits that give no field a name that can be no column,
`OneOpenIsEnough` unless the plan rebuilds the table of a component x beside one of a component
x_new, `SafeToMigrate` (in `OneSafeOpen`) while versions do not go down,
`ReferencesAreKept` for targets that can mean one state only, by its name, its id
or its whole path, `SelectionFollows` for the page that makes the edit,
`EverythingCanBeClicked` for states of the top level and, of labels, while there are
five,
`FitForTheEngine` for maps whose layers have ids of their own, and in it `IdsAreNotReused` for ids that the counter of the file was past: a counter that
is behind its objects starts above the highest one left, although
`src/internal/tiled/document.go:376` says that ids are never used again.
`MarksAreTheEngines`, in `PagesTellTheTruth`, speaks of a page nothing has changed behind, and
`CleanTilesCanBePainted`, in `FilesReadBack`, of tiles TILES finds nothing wrong with: the cells where such
a tile becomes its entity are exactly those where its footprint lies on the map, if no component of its
template is half filled. `NamesAreFound` leaves out animations that came
with an image (`handleSpriteImport` keeps the trail away from their name, which
`handleAnimationNew` clears), and `BindingsArrive` a transaction that failed, which
is tried again only after the next save, and what is saved before the watcher starts.
The rest of `FilesReadBack` is that what an edit wrote is read as what was edited, and that
every reader of a map reads what it was written to hold.

Four of these conditions are what the code does against what it says, and the properties
say exactly when. **A rebuild beside x_new**: `src/internal/storage/ddlgen.go:400` creates the
new table without IF NOT EXISTS and under a name that `validateIdentifiers`
(`src/internal/schema/identifier.go:128`) leaves to another component; with both, every open
fails until the file is changed. `storage` has such schemas (`MCStorage` makes b the new table
of a), and `OneOpenIsEnough` is an equivalence: no statement of any other plan fails.
**Reserved field names**: `validFieldName` (`src/internal/forge/server/schemaedit.go:352`,
"rejects what the generator cannot express") accepts `order` or `entity_id`, which
`validateIdentifiers` refuses at every save from then on. In `schema_edits` one of the three
field names is reserved, and `EditsKeepItValid` says that only adding a field or renaming one
to such a name makes a schema unsavable, and that giving it up makes it savable again.
**Templates**: TILES checks a template field by field
(`src/internal/tilemap/spawn.go:971`, which leaves the cells of `OccupiedCells` to the import). It does not
see that a component lacks a field, or is one the importer adds itself, which only the INSERT
refuses (`src/internal/storage/entity.go:79`); `ValidateSpawnFields` sees it for spawns.
**LIKE**: `src/internal/storage/machine_writer.go:89` deletes the rows of a state by LIKE, which
takes A for a, so that leaving one of two states whose ids differ only so takes the timers of
both. `Soldier` has such a pair. No pending row belongs to an inactive state for it
(`TimersFollowStates`), but an active one may lose its own: `SavedIsWhole` is about ids
that LIKE tells apart (`NoneAlike`).

Where MAP and TILES differ from what is said of them, the model follows the code: the size that
`src/internal/tiled/data.go:126` calls "only ever a hint" is at `:120` the limit of what is
read of a packed layer; the marks on cells never ask the schema about a tile that is an entity,
which the engine does, although `src/internal/forge/mapvalidation/report.go:1` speaks of the
engine's refusals; and the palette (`src/internal/forge/mapcanvas/mapcanvas.go:328`) offers ids of
tilesets that overlap, which then mean a tile of the other.

**Bounds.** Charts have two to twenty-one nodes; `Soldier` has three levels, a history
state and a state with two timers, which are the cases the code distinguishes
(self, sibling, ancestor and history targets; leaf and inner timers), and parallel
regions with deep history. Time is
relative (`due` counts down), so the number of ticks is not bounded. `MaxInputs`
(2) lets inputs fall before, in and after a tick that fails. `MaxFaults` (2) lets a
crash hit a tick and the restart after it. In `reload` both are 1 and `MaxEdits` is
2: the debounce race and overlapping reload goroutines need two edits.
`NumFiles` (2) has a file and a free name or two files that may declare one id, and
starts on every directory with them; `MaxOutside` (2) lets a change fall on each
side of a conflict check. The edits of `agents_mode` have two branches of three levels counting
the root, a lone own id, and may be any two: what one edit
leaves behind is where the next one starts; selections are not counted. Its canvas
has a compound state beside two others, one of them off the canvas, or a state alone;
one distance leads off the canvas and one does not.
`live_updates` has one tab with two connections, so that one overlaps the other's
close, two pollers for the same reason, and a buffer of one, so that any second
event is lost. `storage` changes the file before each of two opens, retention
1, one write between; its schemas have one of every layout and every change of
one. Its other side has a strict type and one that takes anything, an object that may
refer to an entity, a reference and a scalar, two entities, two callers, two
transactions and one kill: an attach that is overtaken needs the two callers, a
reference that dies with its entity the two entities. `map_files` has two objects, two cells and two maps, one with and without
its id; three starts are a load, a load of something else, and one after a kill. Its other side has
two maps that name one or two of two tilesets, of which one is missing, broken or a
directory at the start; the third request is what finds the work two others left.
`forge_modes` has a map of two cells, two layers
and two objects: one whose objects link to each other's tiles, one in which ground
is shown by another object, one without ids, one with doubled ids and a counter
that is behind. Two requests are an edit and what comes after it; actions of menus,
drawing and saving are not counted. For SPRITES it has one file or none, three names, two
sheets, two types, and budgets: three edits; two and an outsider; one with an
outsider, an engine and a failure; one with two starts of the engine and a failure. Its
texts have a tile without an element, attributes and elements no edit knows, a value that
is text, comments, an empty element that gets children, and groups in groups; of two edits
the second may be inside what the first has made. The maps of its reports have two by two
cells in each of the seven ways, three layers (one in a folder, one transparent) and two tilesets; a byte has two bits
(`Byte` 4, `Span` 16), so that a word is one of 16 ids with four flags and still has four
bytes; `Most` (4) is the largest layer read, `PageSize` (3) is less than a tileset, and one tile
is painted (`MaxPaints`): the page it was chosen from may be older than the tilesets.
`movement` needs no counter: a room of four by three cells with two parts of a
cell to each is finite. `schema_edits` has three names, two of them taken, and two
edits, as a rename and its successor are the trail's interesting case.

**Fairness.** `RunTick` is called by `Update` every third frame, and once begun
runs to its end: hence a tick begins again and again and each of its steps
follows. A delivery always has a result, so "some tick step is taken infinitely
often unless there is no tick" is weak fairness with the enabling condition written
out; TLC would otherwise enumerate every result of `SendEvent` to evaluate ENABLED.
`Boot` is fair because liveness of a save file is about a player who comes back.
In `movement` ticks keep coming (the input and the commit are fair), each gives
every machine its turn, and a timer that is due is delivered (`Wake` strongly: a
crash in between takes the tick back). In `live_updates` the server's goroutines
are fair -- a request publishes what it changed, streams and pollers run -- while
users, browsers and other processes need not do anything. Crashes, edits and
foreign commits are never fair. In `forge_modes` the reload timers of
the engine run out and its goroutines go on; in `map_files` a request goes on and gets the
mutex it waits for (Go's mutexes do not starve anybody). `agent`, `reload`, `agents_mode`
and the schema, storage and import runs check safety only.

## 5. Proofs

`AgentRuntimeProofs` proves, for every machine that meets `ChartAssumption` and
`LeafAssumption` (what the parser and validator guarantee):

* `TypeCorrect`: TypeOK. No invariant beside it is needed.
* `AlwaysOneLeaf`: under `Sequential` (no two nodes share an id, no parallel
  states, a history state's default lies inside its parent) the entity is in
  exactly one leaf, whichever actions fail.
* `AlwaysLegal`: under the same conditions the active states are one root and, below
  each compound state, one child (`LegalConfiguration`).
* `EnteringArmsAll`: with near targets in addition (`TargetsNear`: what is around a target is
  around its source, or is it) a state that becomes active has its timers in the same
  step, whichever actions fail.
* `EnteredFollow`: if moreover targets are beside their source or a state around it
  and no entry action fails (`EntersWhole`), what entry actions set up is that of the active
  states. The conditions are necessary: the code enters a target, not what is around it, so
  a transition into another state's child leaves the parent active and never entered.
* `TimersFollow`: in addition to `Sequential` no entry action fails; then every pending timer
  belongs to an active state. The conditions are necessary: a failing entry action
  leaves the timers of states it has entered and rolls nothing back.

The inductive invariant `IInv` says of a started machine that it *rests in* a leaf:
its configuration is that leaf's id and, unless entry actions fail, all its rows
belong to states on the leaf's chain, and so does what its actions have set up. That
nothing on the chain is missing is kept only where nothing can fail, which is a property
of a whole tree of states (`CalmSpreads`): a step from another tree starts afresh. One leaf alone is not inductive: cancelling is
by id along the exit set, and whether that covers all rows depends on where they
are. The argument: the deepest eligible state gives one transition
(`OneTransition`), what it enters is a chain to one leaf (`ExpandIsChain`,
`OneRoot`, `TargetedStep`), what it cancels is everything below the LCA, and what
remains is above it, hence above the new leaf too (`ResultsRest`). The way from what remains
to the new leaf has been entered (`ExpandReaches`), since a history state that is a
near target has nothing recorded (`NothingRecorded`). That one chain is legal is a
fact about trees (`OneTop`, `ChildToward`, `OneRegion`).

`MachineFilesProofs` proves, for any number of file names, any contents and any
number of changes from outside, `UnsavedWorkIsKept` and `TheirWorkIsKept`, two
of the properties `agents_mode` checks, and two invariants: `TypeCorrect` and
`HeldOnlyForAReason`, that a file the session holds is one it lists or has unsaved
work. The inductive invariant adds to them that no trace of a save is left when the
mutex is free (`Quiet`; without it an operation could leave a file on a save's list
that is not open any more) and that a check that has passed read the snapshot or
nothing (`CheckPassed`, which is what makes the write behind it harmless). The
argument rests on one lemma about the re-resolve, `ReopenedKeeps`: every operation
either changes listed files only (`EditingPreserves`) or ends in a re-resolve that
establishes the invariant from any typed table (`ReloadEstablishes`).

`TickLoopProofs` proves `TickRefines`: for any charts, entities, maps, inputs,
crashes and restarts, `TickLoop` implements `AtomicWorld`. The inductive invariant
says what an open transaction has done so far, phase by phase (`UnderWay`): what has
been handled of the inputs, and of every machine that its view is one that
delivering the rows already taken, or also TICK, can leave of the machine that is
saved. It needs that a machine that runs has leaves and finitely many rows
(`Typed`), and that starting up concerns machines that do not run yet
(`StartsTheRest`), from which `RunningKept` follows too. `AtomicWorld` takes what
the interpreter does to one machine as parameters, and defines what a set of due rows
can leave by recursion on the set: `DeliveredEquation` unfolds it, by induction on
the sets themselves. `LatestRows` says that a tick works on what is saved.

`SavedWhole` is about what is saved, for definitions that wait (`Waits`): `Sequential`, near
targets that are beside their source and lead somewhere, no failing action, after entries
that end in one without a guard, and no two ids that LIKE takes for one another. (TLC evaluates `Waits` on a chart of the library, as an ASSUME
of `MCAgent`: charts like it exist.) Then every machine that is saved has exactly the rows and
the set-up of its active states, whatever crashes and on whatever map. Because of
`TickRefines` it is enough to look at the steps of `AtomicWorld`. Inside a tick the statement is
false, as rows are drained before they are delivered: the invariant is that the rows which
an active state lacks are among those drained and not delivered (`Waiting`), kept by each
delivery (`EventWaits`), and carried over a batch of any size by induction on the set
delivered (`DeliveringWaits`). An after entry without a way out would break it: its row is
gone and its state is still there.

`SoundReloads` rests on two facts: what the loader holds has
been validated (`Validated`), whichever reloads overlap, and the view of a tick is
what is saved until it writes (`ViewIsSaved`), so that a reset that comes between is
never undone.

`StorageProofs` proves `EntitiesWhole` and `NothingElse` for any schema, any
contracts, any values, any number of callers, transactions and kills. Every write is
shown to make a whole database of a whole one (`InsertKeeps`, `SetKeeps`,
`CreationKeeps`, `DeletionKeeps`, `MachinesKeep`, ...). The invariant has in
addition what makes late checks good ones: what a caller was told of an entity's type
still holds if the entity is there (`CallHolds`), because ids are not given twice and
types do not change (`Aged`); a tick that is not stale has seen only machines that
are still there (`TickHolds`), without which its events would be of nobody; and a
table of spawns has rows of nobody only until it is rebuilt.

It also proves `BackupSurvives`, the half of `OneSafeOpen` that says that a migration about to
be applied can be undone: for any schemas, any retention, any number of opens, kills and
failing backups, the backup just made is still there after pruning, unless the database was
moved to an older version. The invariant (`OpenInv`) says that until pruning the one just
made is there, and afterwards it or one of a later version (`MadeOrNewer`), which pruning
prefers (`PruneKeeps`; `NewestAbove`: of what is preferred, something is the newest and is not
taken).

`TilesetSessionsProofs` proves that unsaved work stays (`UnsavedWorkIsKept`) and in
reach (`UnsavedStaysInReach`), and that nobody waits in a circle (`NoCircleOfWaits`).
In the invariant every open file is in reach, changed or not (`OpenIsInReach`: a
request may be about to change it), and each mutex is held by exactly the request
that stands where it is held (`HoldersAreKnown`).

The module goes on to the engine's loads of those maps, for any files, databases, kills and
machines. `NothingStranded` is the first half of `LoadsAreSound`: what the importer made is a Tile
alone on its cell, the one art of a Tile that is there, or the entity of exactly one row. The
invariant (`Tidy`) says more than that: who is owned and who has a row exclude each other, and
deleting a set that holds its own art leaves no owner pointing at nothing (`DeleteTidy`), which
every path through `PaintCell` has to see to. That nothing is painted twice rests on
`SingleNow`: what `SyncLayerTiles` refuses leaves at most one Tile in a cell. The tiles are a
fold over the cells: what is there after the first of them is a function on the sets of positions
(`Unrolled`), and `CellsKeep` goes over their sizes. `EntitiesKept` says what no step of a load
gives up or overwrites. It needs of the fold that it touches only Tiles of this map and their art
(`Untouched`, `Ours`); of a painted cell, that it has its Tile from the moment the tiles are
through until the links are set, for otherwise it is open which Tile a link is written to
(`AllHave`); and of what a row names, that its components have all their fields (`Filled`), so
that overwriting those the file gives leaves the others. A file may use an id twice: the first
object with it that can be spawned is then the one that speaks for the row.

`LiveUpdatesProofs` proves `OnePoller`: the count of streams is the number of
connections that have not hung up, there is a poller in charge exactly while it is
not zero, and it is the only one nobody told to stop (`InCharge`); and
`SelectionKept`, from an invariant of its own on records and the streams they count.

`MovementProofs` proves `AllStandApart` on any grid, with any map, footprints and
rules: positions, saved ones too, are points at which all stand apart, and paths are
moves between points (`Placed`). And `WaysClear`, that the ways are those one would take:

* *Ways are shortest.* Whenever a walker computes a path, it gets one if and only if the
  flood fill finds the target, one cell at a time over cells it may enter, and none is shorter.
  The search knows only real distances (`Sound`); no open entry is worse than its estimate says
  and every closed cell has told its neighbours (`Best`), so that on any way to the target
  some open cell lies (`WaitsOnTheWay`) with an estimate no larger than that way: what
  is popped at the target is shortest (`AStarIsShortest`). It does end (`SearchEnds`), because
  the moves left and the open entries get fewer with each expansion (`Spent`). The flood
  asks only the cells of its last round, and visits what a spread would that asks all it has
  reached (`FloodSpreads`); and a spread on a finite set is complete after as many rounds as
  the set has elements (`Saturates`).
* *Walls hold.* A chaser's stride is sampled often enough that two samples are in neighbouring
  cells (`FloorsAreNear`, `ChainJoins`), so that what it may not enter holds it up
  (`StridesAreClear`); and it aims at the player only along a chain of cells nothing opaque stands in
  (`SightIsClear`): the Bresenham ray goes from a cell to one next to it and comes to its end
  in as many rounds as the two are apart (`RayAt`, `Slope`, `RayJoins`).

`ForgeProofs` proves `NamesFound` for any names, sheets, files, outsiders and restarts: a page
finds the animation it chose under the name it knows, and the engine the sheets it has
stamped. The inductive invariant says that the trail of renames is one step deep and leads away
from no name that is declared (`TrailIsShort`, from which `OneStepIsAll`: following it
however long is following it once), and that nobody else has the name a page knows
(`PageFinds`). Keys of animations, which no file has, are distinct and fresh.

`PagesTrue`, for any map in any writing, any tilesets, sizes, drawing orders and turns, is what
the pages of MAP say of it:

* *Marks are the engine's refusals.* The engine reads one map and stops at the first fault; MAP
  draws each cell by itself and goes on. The two agree because every tile of every layer has its
  place in the flattened sequence of placements (`TilesArePlaced`, `FlattenedHas`), a cell is
  marked for what the engine would refuse of its tile (`BadCells`), layers are told by their names
  (`LayersAreNamed`) and objects by their shapes (`ShapesAreTold`) on both sides, and a tileset
  that opened has been resolved (`OpenedIsResolved`). `ErrorsOfAPage` puts them together.
* *Boxes stand.* A box that has a picture stands on the cell it is for, at the bottom left as Tiled
  draws it, with its tileset's offset, and the eight turns of a tile are what the transformation
  of the page makes of them (`BoxStands`, `TurnedInOrder`).

The invariant of both says that a file is one a reader can return and that a page is of
such a map.

`FitAlways` is about the editor of MAP: whatever strokes, links, spawns, menus, saves and reloads
come from pages that are behind, a map that was importable stays so, and no id of the file comes
back. Forge checks links by its own rules, one object at a time, and the engine reads them
by others, one cell at a time; `CheckedImports` shows that the first imply the second, and
`SameToTheEngine` that what is not checked, new names and another order of layers, is nothing to
the engine. The invariant (`MapInv`) adds that the counter of the map is never behind that of the
file (`Grows`), past which are all ids that were ever in it.

**Assumptions.** They are ASSUMEs of the modules, and TLC evaluates them on the
runs. The code guarantees those on charts (`IsChart`, `Settles`), on what a loader and a
start find (`BrokenAssumption`: a game is first started with a file that loads),
on names, on what the files of MAP and SPRITES are once they are read (`ReportFilesAssumption`: layers have numbers for ids, nodes and tilesets are sequences;
`FilesAssumption`), and on footprints: finitely many cells and at least one (`MoverAssumption`;
`ParseOccupiedCells` refuses an empty list, and so it is of `FootprintsAssumption`).
`ScratchAssumption` and `ReservedAssumption` say what `x_new` and a reserved name are. Beyond it go `StoresNoHistory`, in `VersionsAssumption`, which leaves out charts whose stored leaf may be a
history state; `HomesAssumption`: nobody starts in somebody else or in a wall, which nothing checks when a map is loaded;
and `FoundAssumption`, that the database a start finds was left by this
program or by the one before it, whose spawns did not cascade. `DocsAssumption`, that a map Forge is started on can be imported if
its layers can be told apart, is what `FitAlways` is about: Forge does not mend maps. `ImportAssumption` says that the databases
a load may find are like those it leaves, that components there have all their fields,
and that no file and no machine makes a Tile or gives an entity a `TileEntityOwner`: nothing in the
code forbids it, and then a Tile of the author's would be taken for the importer's. `ConnsAssumption`,
finitely many connections, is of the model.

**Only model-checked.** Liveness and ENABLED are out of the prover's reach:
`NothingIsLost`, `WalkersArrive`, `RequestsEnd`, `ChangesArrive`, `ShutdownReturns` and
`BindingsArrive`. So is induction on data with the
library's theorems, which take an operator; where a proof needs one it goes over a set of
numbers or a set of sets (`AllNumbers`, from well-foundedness). Left to TLC because what they
speak of is computed by recursion over trees of data: `EverythingCanBeClicked`,
`GesturesLand` and `AimsAreKept` (charts and their layout), `FilesReadBack` and `EditsAreNarrow`
(texts, trees of elements and readings of maps) and `EditsLand` (layers and palettes). Left to it because the arguments are long: what a plan of
statements leaves (`DataSurvives` and the first half of `OneSafeOpen`), that a finished import is the file and is not written again (`FinishedLoads`,
the second half of `LoadsAreSound`), the edits of a schema (`EditsAreFollowed`, `CheckedSavesLoseNothing`), and
`LegalConfiguration` and timers where states are parallel.

## 6. Not modelled

See `components` in `PROJECT.json` for every part. Within the modelled parts:
guards and actions are abstracted to their outcome (those that move are in
`Movement`); delays are in ticks, and those of one state are distinct; history is
what one microstep sees, because the code keeps no more than that; the watcher sees
every edit of a running process, while in the code it starts shortly after the first
scan. Several mods, which override each other's machines, are in `HotReload` and not
in `MachineFiles`. In the editors of schemas, names are taken as folded to lower
case, and behaviors, validation levels, extras and the version number have no edits;
in that of machines, guards and the parameters of actions have none, and dotted state names
and ids that equal another state's name do not occur; in that of schemas, names that are no
identifiers do not. Entities placed through
`TileReferences` and several maps are left out of `Movement`. In the editor of maps,
values of properties, new maps, map ids, hidden layers and rotated tiles are left
out, and conflicts with what others save are as in `MachineFiles`.

In `TilesetSessions` the contents of a map are the tilesets it names, which Forge
does not edit, and the rest; images and links inside the directory are left out. In
`TiledEdits` what a value says is open, and the bytes inside a tag, escapes and
indentation are left out. In `MapReports` what a reader of XML or JSON makes of a text is
given, and so is what base64, zlib and gzip make of packed bytes; what is said of objects that
are spawns is in `MapImport`. Fields of its templates are no references to entities.

Not modelled at all: the JSON emitter, which rewrites bytes; the renderer, the configuration, and the
generated templates. Layout of JSON, SQL text and logging are left out everywhere.
