---------------------------- MODULE AgentRuntime ----------------------------
(***************************************************************************)
(* One entity running one machine, with nothing around it going wrong: the *)
(* machine is started, events and due timers are delivered to it one at a  *)
(* time, ticks pass.  What the engine around the interpreter adds (the     *)
(* batch drained at the head of a tick, crashes, hot reload) is in         *)
(* TickLoop; this module is what the interpreter itself promises.          *)
(*                                                                         *)
(* Time is relative: row.due is target_tick - current_tick, which is all   *)
(* the code compares, so behaviours are infinite and the state finite.     *)
(***************************************************************************)
EXTENDS Interpreter

CONSTANTS Chart,      \* the machine definition
          OnEvents    \* names of the events delivered from outside

ASSUME ChartAssumption == IsChart(Chart)
ASSUME LeafAssumption == Settles(Chart)

\* Conditions on a chart that not every accepted machine meets, named by the
\* properties and theorems that need them.

\* No two nodes share an id, so what is stored finds its node again.
UniqueIds(c) == \A n \in c.nodes : c.found[c.id[n]] = n

\* Entering a state settles in one leaf: there are no parallel states.
SingleBranch(c) ==
  \A n \in c.nodes, k, l \in Leaf(c) : k \in Expand(c, n) /\ l \in Expand(c, n) => k = l

\* The default of a history state lies inside the state the history is of.
DefaultsInside(c) ==
  \A n \in c.nodes : c.type[n] = "history" /\ c.default[n] # NoNode =>
    c.anc[n] \subseteq AncSelf(c, c.default[n])

\* What lies around a target lies around its source, or is the source; a history
\* default is a sibling of the history state.
TargetsNear(c) ==
  /\ \A i \in 1..Len(c.trans) : c.trans[i].target # NoNode =>
       c.anc[c.trans[i].target] \subseteq AncSelf(c, c.trans[i].src)
  /\ \A n \in c.nodes : c.type[n] = "history" /\ c.default[n] # NoNode =>
       c.anc[c.default[n]] = c.anc[n]

\* A target is a sibling of its source or of a state around it, or the source, and
\* always leads somewhere.
TargetsBeside(c) ==
  \A i \in 1..Len(c.trans) : c.trans[i].target # NoNode =>
    /\ c.anc[c.trans[i].target] \subseteq c.anc[c.trans[i].src]
    /\ c.type[c.trans[i].target] = "history" => c.default[c.trans[i].target] # NoNode

\* No two ids differ only in what LIKE does not tell apart.
NoneAlike(c) == \A i \in DOMAIN c.alike : c.alike[i] = {}

\* Nothing is parallel and no action fails.
AllCalm(c) ==
  /\ \A n \in c.nodes : c.type[n] # "parallel"
  /\ c.failExit = {} /\ c.failEntry = {} /\ c.failAct = {}

\* Every after entry leads to a target, the last of its list without a guard.
TimersLeadOut(c) ==
  \A i \in 1..Len(c.trans) : c.trans[i].name = "after" =>
    /\ c.trans[i].target # NoNode
    /\ \E j \in 1..Len(c.trans) :
         /\ c.trans[j].src = c.trans[i].src /\ c.trans[j].name = "after"
         /\ c.trans[j].delay = c.trans[i].delay /\ ~c.trans[j].guarded

VARIABLES machine,    \* the entity's rows, see Interpreter
          started     \* whether it has a behavior_components row

vars == <<machine, started>>

Ids == {Chart.id[n] : n \in Chart.nodes}
Delays == {Chart.trans[i].delay : i \in 1..Len(Chart.trans)}

\* Stored ids and rows belong to the chart.
RowOK(r) ==
  /\ DOMAIN r = {"id", "delay", "due", "copy"}
  /\ r.id \in Ids /\ r.delay \in Delays /\ r.due \in Int
MachineOK(m) ==
  /\ m = [cfg |-> m.cfg, timers |-> m.timers, entered |-> m.entered]
  /\ m.cfg \subseteq Ids
  /\ m.entered \subseteq Chart.nodes
  /\ \A r \in m.timers : RowOK(r)

\* Types: no handler leaves the entity an id, a row or a node its chart lacks.
TypeOK == started \in BOOLEAN /\ MachineOK(machine)

Init == machine = NotStarted /\ started = FALSE

\* startBehavior
Start ==
  /\ ~started
  /\ machine' = StartAgent(Chart, machine, 0)
  /\ started' = TRUE

\* An event from outside the machine: TICK, or one named in an On map.
Deliver(name) ==
  /\ started
  /\ machine' \in SendEvent(Chart, machine, OnEvent(name), 0)
  /\ UNCHANGED started

\* A due event_queue row is taken off the queue and delivered.
Fire(row) ==
  /\ row.due <= 0
  /\ machine' \in SendEvent(Chart, WithTimers(machine, machine.timers \ {row}), AfterEvent(row), 0)
  /\ UNCHANGED started

\* The tick advances once everything due has been delivered.
Advance ==
  /\ started
  /\ machine.timers # {}
  /\ \A r \in machine.timers : r.due > 0
  /\ machine' = WithTimers(machine, {Sooner(r) : r \in machine.timers})
  /\ UNCHANGED started

Next ==
  \/ Start
  \/ \E name \in OnEvents : Deliver(name)
  \/ \E row \in machine.timers : Fire(row)
  \/ Advance

Spec == Init /\ [][Next]_vars

-----------------------------------------------------------------------------
Atoms == Resolve(Chart, machine.cfg)
Now == Active(Chart, Atoms)

\* A pending timer belongs to an active state: leaving a state cancels its
\* timers, and no path through the microstep arms one for a state that the
\* stored configuration does not include.
TimersFollowStates == \A r \in machine.timers : \E n \in Now : Chart.id[n] = r.id

\* A machine without parallel states is in exactly one leaf from the start on.
OneLeaf == started => Cardinality(machine.cfg) = 1

\* States below a root under which nothing is parallel and no action fails.
Calm(c) ==
  {n \in c.nodes : \A k \in c.nodes : AncSelf(c, k) \cap AncSelf(c, n) # {} =>
     /\ c.type[k] # "parallel" /\ k \notin c.failExit \cup c.failEntry
     /\ \A i \in c.failAct : c.trans[i].src # k}

\* A state whose entry actions have run and not been undone by its exit actions
\* is active: what they set up does not outlive the state, whatever fails.  And
\* where nothing fails they have run for every active state, ancestors included.
EnteredAreActive ==
  Atoms # {} =>
    /\ machine.entered \subseteq Now
    /\ Now \subseteq Calm(Chart) => machine.entered = Now

\* A state that becomes active in a step has a row for each of its after
\* entries when the step is over.
EnteringArms ==
  [][\A n \in Chart.nodes : n \in Now' /\ n \notin Now =>
       \A d \in AfterDelays(Chart, n) :
         \E r \in machine'.timers : r.id = Chart.id[n] /\ r.delay = d]_vars

\* One state is active at the top, one child of an active compound state and every
\* region of an active parallel state: transitions of several regions on one event,
\* failing or not, leave a configuration that the chart allows.
LegalConfiguration ==
  /\ started => Cardinality({n \in Now : Chart.anc[n] = {}}) = 1
  /\ \A p \in Now :
       LET active == {k \in Now : ChildOf(Chart, k, p)}
       IN  /\ Chart.type[p] = "parallel" => active = {k \in Chart.nodes : ChildOf(Chart, k, p)}
           /\ Chart.type[p] = "compound" => Cardinality(active) = 1
=============================================================================
