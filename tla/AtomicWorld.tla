----------------------------- MODULE AtomicWorld -----------------------------
(***************************************************************************)
(* What the engine promises about the database, without transactions or    *)
(* crashes: a machine is started, an input is inserted, or a whole tick    *)
(* happens -- every pending input handled, every due event of the active   *)
(* map delivered, then TICK, and the clock advanced.  Nothing in between   *)
(* is ever there to see.                                                   *)
(***************************************************************************)
EXTENDS Integers, Sequences

\* What the interpreter does to one machine is a parameter here, under the names
\* that Interpreter gives it.
CONSTANTS Entities, Chart, Scopes,
          NotStarted, StartAgent(_,_,_), SendEvent(_,_,_,_),
          WithTimers(_,_), Sooner(_), AfterEvent(_), OnEvent(_)

VARIABLES db,
          scope       \* the entities of the active map

DueOf(m) == {r \in m.timers : r.due <= 0}

\* The machines that delivering the rows of S to m can leave, in any order: all
\* that is due is taken off the queue first.
DeliveredOf(m) ==
  LET after[S \in SUBSET DueOf(m)] ==
        IF S = {} THEN {WithTimers(m, m.timers \ DueOf(m))}
        ELSE UNION {UNION {SendEvent(Chart, k, AfterEvent(r), 0) : k \in after[S \ {r}]} : r \in S}
  IN  after
Delivered(m) == DeliveredOf(m)[DueOf(m)]

Ticked(m) == UNION {SendEvent(Chart, k, OnEvent("TICK"), 0) : k \in Delivered(m)}

Aged(m) == WithTimers(m, {IF r.due > 0 THEN Sooner(r) ELSE r : r \in m.timers})

Init ==
  /\ db = [row |-> [e \in Entities |-> NotStarted], inputs |-> <<>>, handled |-> <<>>]
  /\ scope \in Scopes

StartMachine(e) ==
  /\ db.row[e] = NotStarted
  /\ db' = [db EXCEPT !.row[e] = StartAgent(Chart, NotStarted, 0)]
  /\ UNCHANGED scope

\* Inputs are numbered as they come; each is handled once, in that order.
InsertInput ==
  /\ db' = [db EXCEPT !.inputs = Append(@, Len(db.handled) + Len(db.inputs) + 1)]
  /\ UNCHANGED scope

\* Other maps' machines are not touched; their timers grow older with all others.
WholeTick ==
  /\ DOMAIN db'.row = Entities
  /\ \A e \in Entities \ scope : db'.row[e] = Aged(db.row[e])
  /\ \A e \in scope :
       db'.row[e] \in {Aged(m) : m \in IF db.row[e] = NotStarted THEN {NotStarted} ELSE Ticked(db.row[e])}
  /\ db'.inputs = <<>>
  /\ db'.handled = db.handled \o db.inputs
  /\ UNCHANGED scope

\* The game comes up again, on another map.
OtherMap == scope' \in Scopes /\ UNCHANGED db

Next ==
  \/ \E e \in scope : StartMachine(e)
  \/ InsertInput
  \/ WholeTick
  \/ OtherMap

Spec == Init /\ [][Next]_<<db, scope>>
=============================================================================
