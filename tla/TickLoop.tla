------------------------------ MODULE TickLoop -------------------------------
(***************************************************************************)
(* The engine around the interpreter: start-up (SyncBehaviors), the frame  *)
(* loop that inserts input events, and RunTick, which takes a snapshot of  *)
(* the database, works on it in one transaction -- inputs, due events,     *)
(* TICKs -- and commits.  The process may die at any step and be started   *)
(* again, on the same map or another one.                                  *)
(*                                                                         *)
(* SQLite is modelled as the code depends on it: a transaction reads the   *)
(* snapshot of its first statement, its writes are seen by nobody before   *)
(* the commit, there is one writer at a time, and a transaction that has   *)
(* read before another one committed cannot write any more                 *)
(* (SQLITE_BUSY_SNAPSHOT, which no busy_timeout waits out).                *)
(***************************************************************************)
EXTENDS Interpreter

CONSTANTS Entities,     \* entities whose type declares a behavior
          Versions,     \* the definitions of that behavior, a sequence
          Scopes,       \* sets of entities a map may make the active ones
          MaxInputs,    \* bound: key samples inserted in a behaviour
          MaxFaults     \* bound: crashes, and commits by other writers

ASSUME VersionsAssumption ==
  /\ Len(Versions) \in Nat \ {0} /\ DOMAIN Versions = 1..Len(Versions)
  /\ \A v \in DOMAIN Versions :
       IsChart(Versions[v]) /\ Settles(Versions[v]) /\ StoresNoHistory(Versions[v])
ASSUME ScopesAssumption == Scopes \subseteq SUBSET Entities /\ Scopes # {}
ASSUME BoundsAssumption == MaxInputs \in Nat /\ MaxFaults \in Nat

VARIABLES db,        \* what is committed: row (the machine of each entity, its
                     \* timers with it), inputs (not consumed), handled
          tx,        \* RunTick's transaction: phase, and its view of db
          stale,     \* somebody committed since tx read its first row
          run,       \* the process: down, starting or running
          toStart,   \* the entities SyncBehaviors has still to start
          startDef,  \* the version it looked up to start them with
          scope,     \* the entities of the active map
          def,       \* version of the definition the loader holds, 0 for none
          sent,      \* input events inserted so far
          faults     \* crashes and foreign commits so far

vars == <<db, tx, stale, run, toStart, startDef, scope, def, sent, faults>>
procVars == <<run, toStart, startDef, scope>>
envVars == <<def, sent, faults>>

Loaded == Versions[def]

\* An event for a machine that is not loaded is dropped.
Send(m, e) == IF def = 0 THEN {m} ELSE SendEvent(Loaded, m, e, 0)
NoTx == [phase |-> "none", row |-> <<>>, inputs |-> <<>>, handled |-> <<>>, due |-> {}, todo |-> {}]
HasRow(rows, e) == rows[e] # NotStarted
Writing == tx.phase \in {"drain", "deliver", "ticks"}

-----------------------------------------------------------------------------
Init ==
  /\ db = [row |-> [e \in Entities |-> NotStarted], inputs |-> <<>>, handled |-> <<>>]
  /\ tx = NoTx /\ stale = FALSE
  /\ run = "down" /\ toStart = {} /\ startDef = 1 /\ scope \in Scopes
  /\ def = 1 /\ sent = 0 /\ faults = 0

(* Start-up *)

\* Faulty variant: entities that run the machine already are listed too.
Listed(S) == S

\* entitiesWithout: the entities in scope that do not run the machine.
Missing(S) == {e \in S : ~HasRow(db.row, e)}

\* The process comes up on some map with version v loaded, and SyncBehaviors
\* lists what to start.  A binding to a machine that is not loaded is reported.
BootWith(v) ==
  /\ run = "down"
  /\ run' = "starting"
  /\ def' = v /\ startDef' = v
  /\ scope' \in Scopes
  /\ toStart' = IF v = 0 THEN {} ELSE Missing(scope')
  /\ UNCHANGED <<db, tx, stale, sent, faults>>

\* startBehavior, in a transaction of its own: both the machine and what its
\* entry actions did, or neither when one of them fails.
StartBehavior(e) ==
  LET c == Versions[startDef] IN
  /\ run = "starting" /\ e \in toStart
  /\ toStart' = toStart \ {e}
  /\ \/ db' = [db EXCEPT !.row[e] = StartAgent(c, NotStarted, 0)]
     \/ Expand(c, c.start) \cap c.failEntry # {} /\ UNCHANGED db
  /\ UNCHANGED <<tx, stale, run, startDef, scope>> /\ UNCHANGED envVars

RunGame ==
  /\ run = "starting" /\ toStart = {}
  /\ run' = "running"
  /\ UNCHANGED <<db, tx, stale, toStart, startDef, scope>> /\ UNCHANGED envVars

-----------------------------------------------------------------------------
(* The frame loop and RunTick share a goroutine: they alternate. *)

\* Update samples a held key into input_events, in a transaction per frame.
Frame ==
  /\ run = "running" /\ tx.phase = "none" /\ sent < MaxInputs
  /\ sent' = sent + 1
  /\ db' = [db EXCEPT !.inputs = Append(@, sent + 1)]
  /\ UNCHANGED <<tx, stale, def, faults>> /\ UNCHANGED procVars

\* Begin, and the first reads: current_tick and the pending inputs.
Begin ==
  /\ run = "running" /\ tx.phase = "none"
  /\ tx' = [phase |-> "inputs", row |-> db.row, inputs |-> db.inputs, handled |-> db.handled,
            due |-> {}, todo |-> {}]
  /\ stale' = FALSE
  /\ UNCHANGED db /\ UNCHANGED procVars /\ UNCHANGED envVars

\* Faulty variant: the inputs are consumed in a transaction of their own.
HandleInputsApart ==
  /\ tx.phase = "inputs" /\ ~stale
  /\ tx' = [tx EXCEPT !.phase = "drain", !.inputs = <<>>, !.handled = @ \o tx.inputs]
  /\ db' = [db EXCEPT !.inputs = <<>>]
  /\ UNCHANGED stale /\ UNCHANGED procVars /\ UNCHANGED envVars

\* Faulty variant: what it read, it read outside the transaction.
HandleInputsAnyway ==
  /\ tx.phase = "inputs"
  /\ tx' = [tx EXCEPT !.phase = "drain", !.inputs = <<>>, !.handled = @ \o tx.inputs]
  /\ UNCHANGED <<db, stale>> /\ UNCHANGED procVars /\ UNCHANGED envVars

\* The handler sees every pending input in id order; then all are consumed, which
\* is the first write.
HandleInputs ==
  /\ tx.phase = "inputs" /\ ~stale
  /\ tx' = [tx EXCEPT !.phase = "drain", !.inputs = <<>>, !.handled = @ \o tx.inputs]
  /\ UNCHANGED <<db, stale>> /\ UNCHANGED procVars /\ UNCHANGED envVars

\* Faulty variant: the queue is drained for every map.
DueOfAll(rows, S) ==
  UNION {{[ent |-> e, row |-> r] : r \in {q \in rows[e].timers : q.due <= 0}} : e \in Entities}

\* The event_queue rows of entities in S that are due.
Due(rows, S) ==
  UNION {{[ent |-> e, row |-> r] : r \in {q \in rows[e].timers : q.due <= 0}} : e \in S}

\* Faulty variant: the queue is drained in a transaction of its own.
DrainApart ==
  /\ tx.phase = "drain"
  /\ LET due == Due(tx.row, scope)
         drained == [e \in Entities |->
           WithTimers(tx.row[e], tx.row[e].timers \ {d.row : d \in {x \in due : x.ent = e}})]
     IN  /\ tx' = [tx EXCEPT !.phase = "deliver", !.due = due, !.row = drained]
         /\ db' = [db EXCEPT !.row = drained]
  /\ UNCHANGED stale /\ UNCHANGED procVars /\ UNCHANGED envVars

\* All that is due is read and deleted before any of it is delivered.
Drain ==
  /\ tx.phase = "drain"
  /\ LET due == Due(tx.row, scope)
     IN  tx' = [tx EXCEPT !.phase = "deliver", !.due = due,
                  !.row = [e \in Entities |->
                     WithTimers(tx.row[e], tx.row[e].timers \ {d.row : d \in {x \in due : x.ent = e}})]]
  /\ UNCHANGED <<db, stale>> /\ UNCHANGED procVars /\ UNCHANGED envVars

\* One due event.  The query has no order; the entity is loaded as the earlier
\* deliveries left it, an error is logged, and what was written until it stays.
Deliver(d) ==
  /\ tx.phase = "deliver" /\ d \in tx.due
  /\ \E m \in Send(tx.row[d.ent], AfterEvent(d.row)) :
       tx' = [tx EXCEPT !.due = @ \ {d}, !.row[d.ent] = m]
  /\ UNCHANGED <<db, stale>> /\ UNCHANGED procVars /\ UNCHANGED envVars

\* The running machines of the active map are listed for TICK.
ListRunning ==
  /\ tx.phase = "deliver" /\ tx.due = {}
  /\ tx' = [tx EXCEPT !.phase = "ticks", !.todo = {e \in scope : HasRow(tx.row, e)}]
  /\ UNCHANGED <<db, stale>> /\ UNCHANGED procVars /\ UNCHANGED envVars

Tick(e) ==
  /\ tx.phase = "ticks" /\ e \in tx.todo
  /\ \E m \in Send(tx.row[e], OnEvent("TICK")) :
       tx' = [tx EXCEPT !.todo = @ \ {e}, !.row[e] = m]
  /\ UNCHANGED <<db, stale>> /\ UNCHANGED procVars /\ UNCHANGED envVars

\* current_tick advances: every pending row is one tick nearer, those of other
\* maps too.  An overdue row stays at 0.
Aged(m) == WithTimers(m, {IF r.due > 0 THEN Sooner(r) ELSE r : r \in m.timers})

Commit ==
  /\ tx.phase = "ticks" /\ tx.todo = {}
  /\ db' = [row |-> [e \in Entities |-> Aged(tx.row[e])], inputs |-> tx.inputs, handled |-> tx.handled]
  /\ tx' = NoTx
  /\ UNCHANGED stale /\ UNCHANGED procVars /\ UNCHANGED envVars

-----------------------------------------------------------------------------
(* What goes wrong *)

\* Faulty variant: what the transaction has written is kept.
DownKeeping ==
  /\ run' = "down" /\ tx' = NoTx /\ stale' = FALSE /\ toStart' = {} /\ UNCHANGED <<startDef, scope, def, sent>>
  /\ db' = IF Writing THEN [row |-> tx.row, inputs |-> tx.inputs, handled |-> tx.handled] ELSE db

\* The process ends and the open transaction with it.
Down == run' = "down" /\ tx' = NoTx /\ stale' = FALSE /\ toStart' = {} /\ UNCHANGED <<db, startDef, scope, def, sent>>

Crash == run # "down" /\ faults < MaxFaults /\ faults' = faults + 1 /\ Down

\* The first write of a tick that somebody committed behind: RunTick returns the
\* error, Update returns it, RunGame ends.
Busy == tx.phase = "inputs" /\ stale /\ Down /\ UNCHANGED faults

\* Another goroutine commits a transaction on other tables: the animation
\* watcher's SyncToDatabase.
OtherCommit ==
  /\ run = "running" /\ ~Writing /\ faults < MaxFaults
  /\ faults' = faults + 1
  /\ stale' = (tx.phase = "inputs")
  /\ UNCHANGED <<db, tx, def, sent>> /\ UNCHANGED procVars

-----------------------------------------------------------------------------
TickStep ==
  \/ Begin
  \/ HandleInputs
  \/ Drain
  \/ \E d \in tx.due : Deliver(d)
  \/ ListRunning
  \/ \E e \in tx.todo : Tick(e)
  \/ Commit
  \/ Busy

\* What the process does by itself.
EngineStep ==
  \/ \E e \in toStart : StartBehavior(e)
  \/ RunGame
  \/ Frame
  \/ TickStep

\* With behavior files that do not change, every start loads the same version.
Boot == BootWith(def)

Next == Boot \/ EngineStep \/ Crash \/ OtherCommit

\* The game loop runs: a tick begins every third frame, and once begun goes on
\* to its end (a delivery always has a result, so some step of it is possible).
\* A game that stopped is started again, sooner or later.
StepsOn ==
  /\ WF_vars(RunGame)
  /\ []<>(toStart = {}) \/ []<><<\E e \in toStart : StartBehavior(e)>>_vars
  /\ WF_vars(Begin)
  /\ []<>(tx.phase = "none") \/ []<><<TickStep>>_vars

Spec == Init /\ [][Next]_vars
FairSpec == Spec /\ WF_vars(Boot) /\ StepsOn

-----------------------------------------------------------------------------
Now(m) == Active(Loaded, Resolve(Loaded, m.cfg))

\* However ticks, crashes and restarts interleave, what is saved is a machine
\* that stopped between ticks: the pending rows are those of the active states,
\* each of which has all of its own, and the states set up are the active ones.
\* (Of a machine without ids that LIKE takes for one another, see Statechart: of
\* two such states, leaving the one takes the other's rows.)
SavedIsWhole ==
  \A e \in Entities : LET m == db.row[e] IN def # 0 /\ HasRow(db.row, e) =>
    /\ \A r \in m.timers : \E n \in Now(m) : Loaded.id[n] = r.id
    /\ \A n \in Now(m) : \A d \in AfterDelays(Loaded, n) :
         \E r \in m.timers : r.id = Loaded.id[n] /\ r.delay = d
    /\ m.entered = Now(m)

\* What a tick works on is what is saved: a transaction that somebody committed
\* behind never comes to write, so it undoes nothing.
TicksWorkOnTheLatest == tx.phase = "drain" => tx.row = db.row

\* Starting up again leaves a machine that was running where it was.
RunningMachinesAreKept ==
  [][run # "running" => \A e \in Entities : HasRow(db.row, e) => db'.row[e] = db.row[e]]_vars

World == INSTANCE AtomicWorld WITH Chart <- Versions[1]

\* Ticks are atomic: the database goes through whole ticks only, a tick is about
\* the active map only, and every input takes effect exactly once and in order.
TicksAreAtomic == World!Spec

\* An input is handled in the end.  And on a map that stays loaded a timed state is
\* left in the end: no crash between draining its row and committing loses the timer.
NothingIsLost ==
  /\ \A i \in 1..MaxInputs : (sent >= i) ~> (Len(db.handled) >= i)
  /\ \A e \in Entities : <>[](e \in scope) =>
       \A n \in UNION {Versions[v].nodes : v \in DOMAIN Versions} :
         (n \in TimedStates(Loaded) /\ n \in Now(db.row[e])) ~> (n \notin Now(db.row[e]))
=============================================================================
