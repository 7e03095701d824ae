---------------------------- MODULE Interpreter -----------------------------
(***************************************************************************)
(* SendEvent and StartAgent of internal/agent, as the set of results they  *)
(* can leave behind in the transaction they run in.                        *)
(*                                                                         *)
(* An entity's machine is a record                                         *)
(*   cfg      behavior_components.current_states: ids of the active leaves *)
(*   timers   its event_queue rows [id, delay, due, copy] -- event type    *)
(*            xstate.after(delay).id at target_tick due; the table has no  *)
(*            uniqueness, copy tells equal rows apart                      *)
(*   entered  the states whose entry actions have run and whose exit       *)
(*            actions have not since: what the actions set up in the world *)
(*            and have not yet torn down                                   *)
(*                                                                         *)
(* Every write goes to the caller's transaction as it happens, and the     *)
(* caller commits whatever SendEvent returned: a result is either complete *)
(* or what was written before an action failed.                            *)
(***************************************************************************)
EXTENDS Statechart

\* The After keys of n, in ticks.
AfterDelays(c, n) ==
  {c.trans[i].delay : i \in {j \in 1..Len(c.trans) : c.trans[j].src = n /\ c.trans[j].name = "after"}}

\* States with an unconditional after entry that leads somewhere.
TimedStates(c) ==
  {n \in c.nodes : \E i \in 1..Len(c.trans) :
     /\ c.trans[i].src = n /\ c.trans[i].name = "after"
     /\ ~c.trans[i].guarded /\ c.trans[i].target # NoNode}

\* The event types SendEvent is called with: a due row's, and any other.
AfterEvent(row) == [name |-> "after", delay |-> row.delay, id |-> row.id]
OnEvent(name) == [name |-> name, delay |-> 0, id |-> NoNode]

\* Rows taken off the queue, and rows one tick nearer to their target.
WithTimers(m, T) == [cfg |-> m.cfg, timers |-> T, entered |-> m.entered]
Sooner(r) == [id |-> r.id, delay |-> r.delay, due |-> r.due - 1, copy |-> r.copy]

-----------------------------------------------------------------------------
(* The writes of one microstep *)

\* Faulty variants: nothing is cancelled, every row of the entity is.
CancelNothing(c, timers, X) == timers
CancelAll(c, timers, X) == IF X = {} THEN timers ELSE {}

\* CancelAfterEvents for every state of X.  The rows are deleted by a LIKE on
\* their text, which matches those of an alike id too, whether its state is left
\* or not.
LikeIdsOf(c, X) == IdsOf(c, X) \cup UNION {c.alike[i] : i \in IdsOf(c, X)}
Cancel(c, timers, X) == {r \in timers : r.id \notin LikeIdsOf(c, X)}

\* Faulty variant: the delay in the event type is rounded up to ticks twice.
RowRounded(c, timers, n, d, tick) ==
  [id |-> c.id[n], delay |-> d + 1, due |-> tick + d, copy |-> 1]

\* ScheduleAfterEvent: a plain INSERT.
Row(c, timers, n, d, tick) ==
  [id |-> c.id[n], delay |-> d, due |-> tick + d,
   copy |-> CHOOSE k \in 1..(Cardinality(timers) + 1) :
              \A r \in timers : r.id = c.id[n] /\ r.delay = d => r.copy # k]

\* Faulty variant: only the leaves entered schedule their after entries.
ArmLeaves(c, timers, N, tick) ==
  timers \cup UNION {{Row(c, timers, n, d, tick) : d \in AfterDelays(c, n)} : n \in N \cap Leaf(c)}

\* One row for every After entry of every state of N.
Arm(c, timers, N, tick) ==
  timers \cup UNION {{Row(c, timers, n, d, tick) : d \in AfterDelays(c, n)} : n \in N}

\* Faulty variant: the leaves entered join those stored.
AddLeaves(c, cfg, N) == cfg \cup IdsOf(c, N \cap Leaf(c))

\* The Configuration SetMachineState stores: the leaves entered, or the old one
\* when nothing was.
NewCfg(c, cfg, N) == IF N = {} THEN cfg ELSE IdsOf(c, N \cap Leaf(c))

\* The machine after the states of X were exited and those of N entered.
Left(c, m, X) ==
  [cfg |-> m.cfg, timers |-> Cancel(c, m.timers, X), entered |-> m.entered \ X]
Joined(c, m, N, tick) ==
  [cfg |-> m.cfg, timers |-> Arm(c, m.timers, N, tick), entered |-> m.entered \cup N]

\* SendEvent ran to its end.
Moved(c, m, X, N, tick) ==
  LET done == Joined(c, Left(c, m, X), N, tick)
  IN  [cfg |-> NewCfg(c, m.cfg, N), timers |-> done.timers, entered |-> done.entered]

-----------------------------------------------------------------------------
(* What is left when an action returns an error *)

\* A prefix of S in an order deepest first that stops at n.
Deeper(c, S, n, P) ==
  /\ P \subseteq {k \in S \ {n} : Depth(c, k) >= Depth(c, n)}
  /\ {k \in S : Depth(c, k) > Depth(c, n)} \subseteq P

Shallower(c, S, n, P) ==
  /\ P \subseteq {k \in S \ {n} : Depth(c, k) <= Depth(c, n)}
  /\ {k \in S : Depth(c, k) < Depth(c, n)} \subseteq P

\* An exit action of n failed: n's timers are cancelled already, and every state
\* before n has left.
ExitFailed(c, m, X) ==
  UNION {{[cfg |-> m.cfg, timers |-> Cancel(c, m.timers, P \cup {n}), entered |-> m.entered \ P] :
            P \in {Q \in SUBSET X : Deeper(c, X, n, Q)}} : n \in X \cap c.failExit}

\* A transition action failed: everything has been exited, nothing entered.
ActionFailed(c, m, X, sel) == IF sel \cap c.failAct = {} THEN {} ELSE {Left(c, m, X)}

\* An entry action of n failed: n and the states after it are not entered.
EntryFailed(c, m, X, N, tick) ==
  UNION {{Joined(c, Left(c, m, X), P, tick) :
            P \in {Q \in SUBSET N : Shallower(c, N, n, Q)}} : n \in N \cap c.failEntry}

-----------------------------------------------------------------------------
(* SendEvent and StartAgent *)

\* The microsteps open to a machine with these active leaves for event e: which
\* transitions, what they exit and enter.  Guards read components of the world,
\* so any of those that are asked may hold.
Guarded(c, atoms, e) ==
  {i \in UNION {Candidates(c, n, e) : n \in Active(c, atoms)} : c.trans[i].guarded}
Microsteps(c, atoms, e) ==
  {[sel |-> sel, exit |-> ExitSet(c, atoms, sel),
    entry |-> EntrySet(c, atoms, ExitSet(c, atoms, sel), sel)] :
     sel \in UNION {Selections(c, atoms, e, g) : g \in SUBSET Guarded(c, atoms, e)}}

\* What microstep s leaves behind.  No eligible transition: nothing is written.
Results(c, m, s, tick) ==
  IF s.sel = {} THEN {m}
  ELSE {Moved(c, m, s.exit, s.entry, tick)}
         \cup ExitFailed(c, m, s.exit)
         \cup ActionFailed(c, m, s.exit, s.sel)
         \cup EntryFailed(c, m, s.exit, s.entry, tick)

SendEvent(c, m, e, tick) ==
  UNION {Results(c, m, s, tick) : s \in Microsteps(c, Resolve(c, m.cfg), e)}

\* No behavior_components row: the entity runs no machine.
NotStarted == [cfg |-> {}, timers |-> {}, entered |-> {}]

\* StartAgent for an entity without a row.  Its caller rolls everything back on
\* an error, so only the complete result is left.
StartAgent(c, m, tick) == Moved(c, m, {}, Expand(c, c.start), tick)
=============================================================================
