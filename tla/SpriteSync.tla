------------------------------ MODULE SpriteSync ------------------------------
(***************************************************************************)
(* The engine beside SPRITES: AnimLoader loads animations.toml, stamps the *)
(* sheets of its bindings on the sprites in the database, and watches the  *)
(* file.  Every event stops the timer there is and starts one; a timer     *)
(* that has run out is a goroutine, and the goroutines take turns under    *)
(* reloadMu.  A load replaces the definitions at once; the database is     *)
(* stamped in a transaction, which may fail, and is only tried again after *)
(* the next save.                                                          *)
(***************************************************************************)
EXTENDS SpriteSession

CONSTANT NoSheet

VARIABLES sheets,    \* comp_sprite.sheet of the entities of each type
          engine,    \* [up, bound, synced]: down, started or watching;
                     \* entitySheets and syncedSheets
          reloads,   \* [armed, waiting, at]: the timer, the goroutines that wait
                     \* for reloadMu, and what the one that holds it is about to do
          before,    \* the sheets there were when the engine started
          failed     \* whether the last transaction failed

syncVars == <<sheets, engine, reloads, before, failed>>
spriteSyncVars == <<spriteVars, syncVars>>

NoReload == [armed |-> FALSE, waiting |-> 0, at |-> "none"]
Down == [up |-> "down", bound |-> <<>>, synced |-> <<>>]

SyncInit ==
  /\ SpriteInit
  /\ sheets = [t \in EntityTypes |-> NoSheet] /\ before = sheets
  /\ engine = Down /\ reloads = NoReload
  /\ failed = FALSE

-----------------------------------------------------------------------------
\* The sheets after a transaction: what is bound, and nothing where a binding this
\* process had stamped is gone.
Stamped(bound) ==
  [t \in EntityTypes |->
     IF t \in DOMAIN bound THEN bound[t]
     ELSE IF t \in DOMAIN engine.synced /\ sheets[t] = engine.synced[t] THEN NoSheet
     ELSE sheets[t]]

\* Faulty variant: the bindings are taken as applied before they are.
SyncRecordedFirst(e, bound, rest) ==
  /\ engine' = [e EXCEPT !.synced = bound]
  /\ \/ sheets' = Stamped(bound) /\ failed' = FALSE /\ left' = rest
     \/ /\ left.failures > 0 /\ failed' = TRUE /\ left' = [rest EXCEPT !.failures = @ - 1]
        /\ UNCHANGED sheets

\* SyncToDatabase: all or nothing, and only what was applied is remembered.
Sync(e, bound, rest) ==
  \/ /\ sheets' = Stamped(bound) /\ engine' = [e EXCEPT !.synced = bound]
     /\ failed' = FALSE /\ left' = rest
  \/ /\ left.failures > 0 /\ failed' = TRUE /\ left' = [rest EXCEPT !.failures = @ - 1]
     /\ engine' = e /\ UNCHANGED sheets

\* The engine starts: it loads and stamps before it watches, in a goroutine.
StartEngine ==
  /\ engine.up = "down" /\ left.starts > 0 /\ before' = sheets
  /\ LET rest == [left EXCEPT !.starts = @ - 1]
     IN  IF Decodes(toml) THEN Sync([up |-> "started", bound |-> toml.binds, synced |-> <<>>], toml.binds, rest)
         ELSE /\ engine' = [Down EXCEPT !.up = "started"] /\ left' = rest
              /\ UNCHANGED <<sheets, failed>>
  /\ UNCHANGED reloads /\ UNCHANGED forgeVars

StartWatching ==
  /\ engine.up = "started" /\ engine' = [engine EXCEPT !.up = "watching"]
  /\ UNCHANGED <<sheets, reloads, before, failed, left>> /\ UNCHANGED forgeVars

StopEngine ==
  /\ engine.up # "down" /\ engine' = Down /\ reloads' = NoReload
  /\ UNCHANGED <<sheets, before, failed, left>> /\ UNCHANGED forgeVars

\* A write reaches the watcher; a deletion does not.
Noticed ==
  reloads' = [reloads EXCEPT !.armed =
    @ \/ (engine.up = "watching" /\ toml' # toml /\ toml' # Absent)]

ForgeStep == SpriteNext /\ Noticed /\ UNCHANGED <<sheets, engine, before, failed>>

-----------------------------------------------------------------------------
(* Reloading *)

Reloading(r) == reloads' = r /\ UNCHANGED before /\ UNCHANGED forgeVars

\* Faulty variant: a timer that runs out during a reload leaves it at that.
TimerSkips ==
  /\ reloads.armed
  /\ Reloading([reloads EXCEPT !.armed = FALSE, !.waiting = IF reloads.at = "none" THEN @ + 1 ELSE @])
  /\ UNCHANGED <<sheets, engine, failed, left>>

Timer ==
  /\ reloads.armed
  /\ Reloading([reloads EXCEPT !.armed = FALSE, !.waiting = @ + 1])
  /\ UNCHANGED <<sheets, engine, failed, left>>

TakeTurn ==
  /\ reloads.at = "none" /\ reloads.waiting > 0
  /\ Reloading([reloads EXCEPT !.waiting = @ - 1, !.at = "load"])
  /\ UNCHANGED <<sheets, engine, failed, left>>

\* Load: what does not decode leaves the definitions as they are.
Load ==
  /\ reloads.at = "load"
  /\ Reloading([reloads EXCEPT !.at = IF Decodes(toml) THEN "sync" ELSE "none"])
  /\ engine' = [engine EXCEPT !.bound = IF Decodes(toml) THEN toml.binds ELSE @]
  /\ UNCHANGED <<sheets, failed, left>>

Apply ==
  /\ reloads.at = "sync"
  /\ Reloading([reloads EXCEPT !.at = "none"])
  /\ Sync(engine, engine.bound, left)

SyncNext ==
  \/ ForgeStep
  \/ StartEngine
  \/ StartWatching
  \/ StopEngine
  \/ Timer
  \/ TakeTurn
  \/ Load
  \/ Apply

SyncSpec == SyncInit /\ [][SyncNext]_spriteSyncVars

\* Timers run out and goroutines go on.
ReloadsGoOn == WF_spriteSyncVars(Timer) /\ WF_spriteSyncVars(TakeTurn \/ Load \/ Apply)

-----------------------------------------------------------------------------
\* A binding that is taken out of the file is cleared in the database, also when
\* the transaction that should have done it failed: every sheet this process has
\* stamped is one it remembers, and where it remembers none the sheet is what the
\* engine found, or nothing.
SheetsAreRemembered ==
  engine.up # "down" => \A t \in EntityTypes :
    IF t \in DOMAIN engine.synced THEN sheets[t] = engine.synced[t]
    ELSE sheets[t] \in {NoSheet, before[t]}

\* The loader has the file, or has been told of it.
Underway ==
  engine.up = "watching" /\ Decodes(toml)
  /\ (engine.bound = toml.binds \/ reloads.armed \/ reloads.waiting > 0 \/ reloads.at = "load")

InDatabase == \A t \in DOMAIN toml.binds : sheets[t] = toml.binds[t]

\* What is saved while the engine watches reaches the sprites, however timers and
\* reloads overlap, unless the last transaction failed.
BindingsArrive ==
  Underway ~> (engine.up # "watching" \/ ~Decodes(toml) \/ failed \/ InDatabase)

\* Names lead to what they were given for, on a page and in the database: a page
\* finds the animation it chose, and a process the sheets it has stamped.
\* (animationedit.go, the trail of renames; anim_loader.go, syncBindings)
NamesAreFound == PagesFindAnimations /\ SheetsAreRemembered
=============================================================================
