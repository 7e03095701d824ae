------------------------------ MODULE HotReload ------------------------------
(***************************************************************************)
(* Behavior files edited while the game runs: the watcher debounces each   *)
(* file, a timer goroutine reads, validates and swaps the definition and   *)
(* then reconciles the entities, while RunTick goes on in its own          *)
(* goroutine.  Several mods may define the machine.                        *)
(***************************************************************************)
EXTENDS TickLoop

CONSTANTS Mods,       \* number of mods that define the machine, in load order
          Broken,     \* versions that ParseMachine or ValidateMachine refuse
          MaxEdits,   \* bound: edits, each with a timer and a goroutine
          EditsWhileDown  \* files may be edited while the game is not running

ASSUME ModsAssumption == Mods \in Nat \ {0} /\ MaxEdits \in Nat /\ EditsWhileDown \in BOOLEAN

\* The files start out with a version that loads.
ASSUME BrokenAssumption == Broken \subseteq DOMAIN Versions \ {1}

VARIABLES file,       \* the version in each mod's behavior file
          source,     \* the mod whose file the loaded definition came from
          edits,      \* edits so far
          timers,     \* Watcher.timers: for each file the edit whose timer the
                      \* map holds, or 0
          reload      \* for each edit its timer and goroutine: pc, file, the
                      \* version read, the entities to reset and where to

watchVars == <<file, source, edits, timers, reload>>
hotVars == <<vars, watchVars>>

Idle == [pc |-> "none", mod |-> 1, ver |-> 0, resets |-> {}, to |-> NoNode]
Nobody == [i \in 1..MaxEdits |-> Idle]
ValidIds(v) == IdsOf(Versions[v], Versions[v].nodes)

\* ScanDir for every mod in order: the last file that validates wins.
Scanned(f) ==
  LET ok == {k \in 1..Mods : f[k] \notin Broken}
  IN  IF ok = {} THEN 0 ELSE CHOOSE k \in ok : \A j \in ok : j <= k

HotInit ==
  /\ Init
  /\ file = [k \in 1..Mods |-> 1] /\ source = Mods /\ edits = 0
  /\ timers = [k \in 1..Mods |-> 0] /\ reload = Nobody

HotBoot ==
  /\ BootWith(IF Scanned(file) = 0 THEN 0 ELSE file[Scanned(file)])
  /\ source' = Scanned(file)
  /\ UNCHANGED <<file, edits, timers, reload>>

-----------------------------------------------------------------------------
(* The watcher *)

\* A file is saved.  scheduleReload stops the timer it knows of for the file --
\* which does nothing once it has fired -- and starts one.
Edit(k, v) ==
  /\ edits < MaxEdits /\ (run # "down" \/ EditsWhileDown)
  /\ edits' = edits + 1
  /\ file' = [file EXCEPT ![k] = v]
  /\ IF run = "down" THEN UNCHANGED <<timers, reload>>
     ELSE /\ timers' = [timers EXCEPT ![k] = edits + 1]
          /\ reload' = [i \in 1..MaxEdits |->
               IF i = edits + 1 THEN [Idle EXCEPT !.pc = "armed", !.mod = k]
               ELSE IF i = timers[k] /\ reload[i].pc = "armed" THEN Idle ELSE reload[i]]
  /\ UNCHANGED source /\ UNCHANGED vars

\* The timer runs out.
Expire(i) ==
  /\ reload[i].pc = "armed"
  /\ reload' = [reload EXCEPT ![i].pc = "fired"]
  /\ UNCHANGED <<file, source, edits, timers>> /\ UNCHANGED vars

\* Its function takes the lock and deletes the file's entry, whosever it is now.
Forget(i) ==
  /\ reload[i].pc = "fired"
  /\ timers' = [timers EXCEPT ![reload[i].mod] = 0]
  /\ reload' = [reload EXCEPT ![i].pc = "read"]
  /\ UNCHANGED <<file, source, edits>> /\ UNCHANGED vars

-----------------------------------------------------------------------------
(* ReloadFile *)

Read(i) ==
  /\ reload[i].pc = "read"
  /\ reload' = [reload EXCEPT ![i].pc = "store", ![i].ver = file[reload[i].mod]]
  /\ UNCHANGED <<file, source, edits, timers>> /\ UNCHANGED vars

\* Faulty variant: the definition is swapped in before it is validated.
StoreUnchecked(i) ==
  /\ reload[i].pc = "store"
  /\ def' = reload[i].ver /\ source' = reload[i].mod
  /\ reload' = [reload EXCEPT ![i].pc = "select"]
  /\ UNCHANGED <<file, edits, timers>>
  /\ UNCHANGED <<db, tx, stale, sent, faults>> /\ UNCHANGED procVars

\* LoadMachine: a file that validates replaces the definition, another leaves it.
Store(i) ==
  /\ reload[i].pc = "store"
  /\ IF reload[i].ver \in Broken
     THEN reload' = [reload EXCEPT ![i] = Idle] /\ UNCHANGED <<def, source>>
     ELSE /\ def' = reload[i].ver /\ source' = reload[i].mod
          /\ reload' = [reload EXCEPT ![i].pc = "select"]
  /\ UNCHANGED <<file, edits, timers>>
  /\ UNCHANGED <<db, tx, stale, sent, faults>> /\ UNCHANGED procVars

\* ReconcileOnReload and the query of Reconcile: the initial state is that of the
\* definition loaded now, the states are those of the one read.
Select(i) ==
  /\ reload[i].pc = "select"
  /\ LET valid == ValidIds(reload[i].ver)
         to == Loaded.id[Loaded.start]
         lost == {e \in Entities : ~(db.row[e].cfg \subseteq valid)}
     IN  reload' = [reload EXCEPT ![i] =
           IF to \notin valid \/ lost = {} THEN Idle
           ELSE [@ EXCEPT !.pc = "reset", !.resets = lost, !.to = to]]
  /\ UNCHANGED <<file, source, edits, timers>> /\ UNCHANGED vars

\* The transaction of Reconcile: its first statement writes, so it waits for a
\* tick that is writing and is never refused.  current_states is overwritten and
\* the entity's queue emptied; no action runs, nothing is scheduled.
Reset(i) ==
  /\ reload[i].pc = "reset" /\ ~Writing
  /\ db' = [db EXCEPT !.row = [e \in Entities |->
       IF e \in reload[i].resets
       THEN [cfg |-> {reload[i].to}, timers |-> {}, entered |-> @[e].entered] ELSE @[e]]]
  /\ stale' = (tx.phase = "inputs")
  /\ reload' = [reload EXCEPT ![i] = Idle]
  /\ UNCHANGED <<file, source, edits, timers>>
  /\ UNCHANGED <<tx, def, sent, faults>> /\ UNCHANGED procVars

-----------------------------------------------------------------------------
\* The goroutines and the watcher's timers end with the process.
HotCrash == Crash /\ reload' = Nobody /\ timers' = [k \in 1..Mods |-> 0] /\ UNCHANGED <<file, source, edits>>
HotBusy == Busy /\ reload' = Nobody /\ timers' = [k \in 1..Mods |-> 0] /\ UNCHANGED <<file, source, edits>>

ReloadStep(i) == Expire(i) \/ Forget(i) \/ Read(i) \/ Store(i) \/ Select(i) \/ Reset(i)

HotNext ==
  \/ HotBoot
  \/ EngineStep /\ run' # "down" /\ UNCHANGED watchVars
  \/ OtherCommit /\ UNCHANGED watchVars
  \/ HotCrash
  \/ HotBusy
  \/ \E k \in 1..Mods, v \in DOMAIN Versions : Edit(k, v)
  \/ \E i \in 1..MaxEdits : ReloadStep(i)

HotSpec == HotInit /\ [][HotNext]_hotVars

-----------------------------------------------------------------------------
\* Through edits, overlapping reloads and restarts, a tick works on the rows that
\* are saved and never undoes a reset behind its back, and by a definition that has
\* been validated.
ReloadsAreSound == TicksWorkOnTheLatest /\ def \notin Broken

\* No reload is under way or due, and no tick.
Settled == (\A i \in 1..MaxEdits : reload[i].pc = "none") /\ tx.phase = "none" /\ run = "running"

\* Once a reload has settled no entity is left in a state the definition lacks.
NobodyIsStranded ==
  Settled /\ def # 0 => \A e \in Entities : db.row[e].cfg \subseteq ValidIds(def)
=============================================================================
