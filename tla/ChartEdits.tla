----------------------------- MODULE ChartEdits ------------------------------
(***************************************************************************)
(* What Forge's AGENTS mode does to the states and transitions of an open  *)
(* machine, and to what the page that does it has selected.                *)
(*                                                                         *)
(* A machine refers to its states by spelling: a transition's target and a *)
(* container's initial are words joined with dots, here sequences of       *)
(* words, and mean what the engine's resolver makes of them.  A state is   *)
(* its node, the pointer the code holds, and a transition has a number, so *)
(* that the properties can ask what a spelling meant before an edit and    *)
(* means after it; no operation reads the number.                          *)
(*                                                                         *)
(* Left out: positions, guards and actions, which say nothing of where a   *)
(* transition goes, history defaults, which no edit of a state touches,    *)
(* and the order of event keys in the file.                                *)
(***************************************************************************)
EXTENDS Integers, FiniteSets, SequencesExt

CONSTANTS Nodes,          \* numbers for the states
          Trans,          \* numbers for the transitions
          StateNames,     \* the words a state may be renamed to
          FreshNames,     \* state, state2, ...: a sequence
          FreshEvents,    \* EVENT, EVENT2, ...: a sequence
          Events,         \* the other event names that are typed
          Delays,         \* the after keys that are typed
          MachineIds,     \* the ids the machine may be given
          Charts,         \* machines as they are opened
          MaxEdits        \* bound: the edits of a behavior

Root == 0
NoNode == -1
None == <<>>              \* no initial, no own id, no target, nothing selected
NoTrans == 0

ASSUME NumbersAssumption == Nodes \subseteq Nat \ {Root} /\ Trans \subseteq Nat \ {NoTrans}

VARIABLES
  def,    \* order: the states of the root and of each state; name; own: the id
          \* the author gave it; initial; on: by state and key, on and after, the
          \* transitions; id
  sel,    \* the transition this page has selected: its state's path, key, place
  edits

editsVars == <<def, sel, edits>>

-----------------------------------------------------------------------------
(* The tree of states *)

States(d) == DOMAIN d.name
Level(d, n) == CHOOSE l \in DOMAIN d.order : n \in ToSet(d.order[l])
NamesAt(d, l) == {d.name[m] : m \in ToSet(d.order[l])}

\* A state's dotted path, and the states at and above it.
Path(d, n) ==
  LET path[m \in States(d)] ==
        IF Level(d, m) = Root THEN <<d.name[m]>> ELSE Append(path[Level(d, m)], d.name[m])
  IN path[n]

Within(d, n) ==
  LET inside[m \in States(d)] ==
        m = n \/ (Level(d, m) # Root /\ inside[Level(d, m)])
  IN {m \in States(d) : inside[m]}

\* parseStateNode derives an id where the author gave none.
IdOf(d, n) == IF d.own[n] # None THEN d.own[n] ELSE <<d.id, d.name[n]>>

\* StateResolver.find: through the first word, then a name or an id of this
\* level, then one of the levels below it in the authored order.
Resolve(d, target) ==
  LET ends == 1..Len(target)
      find[l \in DOMAIN d.order, from \in ends] ==
        LET rest == SubSeq(target, from, Len(target))
            kids == d.order[l]
            head == {m \in ToSet(kids) : d.name[m] = rest[1]}
            dotted == IF Len(rest) = 1 THEN {}
                      ELSE {find[m, from + 1] : m \in head} \ {NoNode}
            here == {m \in ToSet(kids) : rest \in {<<d.name[m]>>, IdOf(d, m)}}
            below == {m \in ToSet(kids) : find[m, from] # NoNode}
            First(S) == SelectSeq(kids, LAMBDA m : m \in S)[1]
        IN IF dotted # {} THEN CHOOSE m \in dotted : TRUE
           ELSE IF here # {} THEN First(here)
           ELSE IF below # {} THEN find[First(below), from] ELSE NoNode
  IN IF target = None THEN NoNode ELSE find[Root, 1]

\* Every transition, by the state, the key and the place it has there.
Places(d) ==
  UNION {UNION {{<<n, k, i>> : i \in DOMAIN d.on[n][k]} : k \in DOMAIN d.on[n]} : n \in States(d)}
TransAt(d, p) == d.on[p[1]][p[2]][p[3]]
Numbers(d) == {TransAt(d, p).num : p \in Places(d)}
Numbered(d, num) == TransAt(d, CHOOSE p \in Places(d) : TransAt(d, p).num = num)

\* The selection names a transition by its place, and nothing if none has it.
Named(d, s) ==
  IF s = None THEN {}
  ELSE {p \in Places(d) : s = <<Path(d, p[1]), p[2], p[3]>>}

-----------------------------------------------------------------------------
(* Editing states *)

FirstName(d, left) == IF left = <<>> THEN None ELSE <<d.name[left[1]]>>

\* def with a list of transitions under a key, which goes when none is left.
WithList(d, n, key, list) ==
  [d EXCEPT !.on[n] = IF list = <<>> THEN [k \in DOMAIN d.on[n] \ {key} |-> d.on[n][k]]
                      ELSE [k \in DOMAIN d.on[n] \cup {key} |-> IF k = key THEN list ELSE d.on[n][k]]]

Added(d, n, name) ==
  LET With(f, v) == [m \in DOMAIN f \cup {n} |-> IF m = n THEN v ELSE f[m]]
      order == With(d.order, <<>>)
      initial == With(d.initial, None)
  IN [d EXCEPT
        !.order = [order EXCEPT ![Root] = Append(d.order[Root], n)],
        !.name = With(d.name, name), !.own = With(d.own, None),
        !.initial = [initial EXCEPT ![Root] = IF d.initial[Root] = None THEN <<name>> ELSE d.initial[Root]],
        !.on = With(d.on, <<>>)]

\* Faulty variant: what is inside the renamed state is not followed.
RetargetedItself(d, n, to, target) ==
  IF Resolve(d, target) # n THEN target
  ELSE IF Len(target) > 1 THEN Append(Front(Path(d, n)), to) ELSE <<to>>

\* retarget: where a target goes that the engine took for a state, by its
\* meaning and not its spelling, when n is renamed.
Retargeted(d, n, to, target) ==
  LET aim == Resolve(d, target)
      old == Path(d, n)
      new == Append(Front(old), to)
  IN IF aim = n THEN IF Len(target) > 1 THEN new ELSE <<to>>
     ELSE IF aim \in Within(d, n) /\ IsStrictPrefix(old, target)
       THEN new \o SubSeq(target, Len(old) + 1, Len(target))
     ELSE target

Renamed(d, n, to) ==
  LET l == Level(d, n)
  IN [d EXCEPT
        !.name[n] = to,
        !.initial[l] = IF d.initial[l] = <<d.name[n]>> THEN <<to>> ELSE d.initial[l],
        !.on = [m \in States(d) |-> [k \in DOMAIN d.on[m] |-> [i \in DOMAIN d.on[m][k] |->
                  [d.on[m][k][i] EXCEPT !.to = Retargeted(d, n, to, d.on[m][k][i].to)]]]]]

Deleted(d, n) ==
  LET l == Level(d, n)
      gone == Within(d, n)
      left == SelectSeq(d.order[l], LAMBDA m : m # n)
      Keep(f) == [m \in DOMAIN f \ gone |-> f[m]]
      order == [d.order EXCEPT ![l] = left]
      initial == [d.initial EXCEPT
                    ![l] = IF d.initial[l] = <<d.name[n]>> THEN FirstName(d, left) ELSE d.initial[l]]
  IN [d EXCEPT !.order = Keep(order), !.name = Keep(d.name), !.own = Keep(d.own),
               !.initial = Keep(initial), !.on = Keep(d.on)]

EditOf(d) == edits < MaxEdits /\ edits' = edits + 1 /\ def' = d

\* Canvas: a state where the pointer was, under a name its level has free.
AddState ==
  \E i \in DOMAIN FreshNames, n \in Nodes \ States(def) :
    /\ FreshNames[i] \notin NamesAt(def, Root)
    /\ \A j \in 1..i - 1 : FreshNames[j] \in NamesAt(def, Root)
    /\ \A m \in Nodes \ States(def) : n <= m
    /\ EditOf(Added(def, n, FreshNames[i]))
    /\ UNCHANGED sel

RenameState(n, to) ==
  /\ to \notin NamesAt(def, Level(def, n)) \ {def.name[n]}
  /\ EditOf(Renamed(def, n, to))
  /\ UNCHANGED sel

DeleteState(n) ==
  /\ ~ (Level(def, n) = Root /\ Len(def.order[Root]) = 1)
  /\ EditOf(Deleted(def, n))
  /\ UNCHANGED sel

SetInitial(n) ==
  /\ EditOf([def EXCEPT !.initial[Level(def, n)] = <<def.name[n]>>])
  /\ UNCHANGED sel

\* RenameMachine: derived ids follow, because they are derived.
RenameMachine(to) == EditOf([def EXCEPT !.id = to]) /\ UNCHANGED sel

-----------------------------------------------------------------------------
(* Editing transitions *)

UsedEvents(d) == (UNION {DOMAIN d.on[n] : n \in States(d)}) \ Delays

\* Canvas: a transition under an event that nothing in the machine answers to.
AddTransition(from, to) ==
  \E i \in DOMAIN FreshEvents, num \in Trans \ Numbers(def) :
    /\ FreshEvents[i] \notin UsedEvents(def)
    /\ \A j \in 1..i - 1 : FreshEvents[j] \in UsedEvents(def)
    /\ \A other \in Trans \ Numbers(def) : num <= other
    /\ EditOf(WithList(def, from, FreshEvents[i], <<[num |-> num, to |-> Path(def, to)]>>))
    /\ UNCHANGED sel

\* Faulty variant: the page's selection stays at its place.
DeleteTransitionOnly(p) ==
  /\ EditOf(WithList(def, p[1], p[2], RemoveAt(def.on[p[1]][p[2]], p[3])))
  /\ UNCHANGED sel

\* The menu of any edge, or the panel of the selected one: nothing is selected
\* after it.
DeleteTransition(p) ==
  /\ EditOf(WithList(def, p[1], p[2], RemoveAt(def.on[p[1]][p[2]], p[3])))
  /\ sel' = None

\* The transition under another key of its kind: last there.
Moved(d, p, to) ==
  LET without == WithList(d, p[1], p[2], RemoveAt(d.on[p[1]][p[2]], p[3]))
      there == IF to \in DOMAIN without.on[p[1]] THEN without.on[p[1]][to] ELSE <<>>
  IN WithList(without, p[1], to, Append(there, TransAt(d, p)))

\* The panel's edits are about the transition that is selected.  Those that give
\* it another place take the selection along.
SetTransitionEvent(p, to) ==
  /\ to # p[2] /\ (to \in Delays <=> p[2] \in Delays)
  /\ EditOf(Moved(def, p, to))
  /\ sel' = <<sel[1], to, Len(def'.on[p[1]][to])>>

SetTransitionTarget(p, target) ==
  /\ EditOf([def EXCEPT !.on[p[1]][p[2]][p[3]].to = target])
  /\ UNCHANGED sel

MoveTransition(p, place) ==
  /\ place \in DOMAIN def.on[p[1]][p[2]] /\ place \in {p[3] - 1, p[3] + 1}
  /\ EditOf([def EXCEPT !.on[p[1]][p[2]] =
             [@ EXCEPT ![p[3]] = def.on[p[1]][p[2]][place], ![place] = TransAt(def, p)]])
  /\ sel' = [sel EXCEPT ![3] = place]

Select(p) ==
  /\ sel' = <<Path(def, p[1]), p[2], p[3]>> /\ sel' # sel
  /\ UNCHANGED <<def, edits>>

-----------------------------------------------------------------------------
EditsInit == def \in Charts /\ sel = None /\ edits = 0

TreeEdit ==
  \/ AddState
  \/ \E n \in States(def) : DeleteState(n) \/ \E to \in StateNames : RenameState(n, to)

PanelEdit ==
  \E p \in Named(def, sel) :
    \/ \E to \in Events \cup Delays : SetTransitionEvent(p, to)
    \/ SetTransitionTarget(p, None)
    \/ \E n \in States(def) : SetTransitionTarget(p, Path(def, n))
    \/ \E place \in {p[3] - 1, p[3] + 1} : MoveTransition(p, place)

EditsNext ==
  \/ TreeEdit
  \/ \E n \in States(def) : SetInitial(n)
  \/ \E id \in MachineIds \ {def.id} : RenameMachine(id)
  \/ \E from \in States(def), to \in States(def) : AddTransition(from, to)
  \/ \E p \in Places(def) : DeleteTransition(p) \/ Select(p)
  \/ PanelEdit

EditsSpec == EditsInit /\ [][EditsNext]_editsVars

-----------------------------------------------------------------------------
(* Properties *)

\* The states that a target may mean: by name, id or whole path.
Meant(d, target) == {n \in States(d) : target \in {<<d.name[n]>>, IdOf(d, n), Path(d, n)}}

\* Adding, renaming and deleting states leaves every transition that can mean one
\* state only aiming at that very state, whatever it and those around it are
\* called now, or at nothing when it is gone -- a new name that another state
\* has too aside.  The state a level enters by name is entered still; if it is
\* gone and others are left, the level enters one of them.
ReferencesAreKept ==
  [][TreeEdit =>
       /\ \A num \in Numbers(def) \cap Numbers(def') :
            LET before == Numbered(def, num).to
                after == Numbered(def', num).to
                aim == Resolve(def, before)
            IN Cardinality(Meant(def, before)) = 1 =>
                 IF aim \in States(def')
                 THEN Cardinality(Meant(def', after)) <= 1 => Resolve(def', after) = aim
                 ELSE Resolve(def', after) = NoNode
       /\ \A l \in DOMAIN def.order \cap DOMAIN def'.order, n \in States(def) :
            Level(def, n) = l /\ def.initial[l] = <<def.name[n]>> =>
              IF n \in States(def') THEN def'.initial[l] = <<def'.name[n]>>
              ELSE def'.order[l] # <<>> =>
                     \E m \in ToSet(def'.order[l]) : def'.initial[l] = <<def'.name[m]>>]_editsVars

\* After an edit of its own, what a page had selected is the transition it still
\* has selected, or nothing is: the next edit of the panel is never of another.
SelectionFollows ==
  [][edits' # edits =>
       \A p \in Named(def, sel), q \in Named(def', sel') :
         TransAt(def', q).num = TransAt(def, p).num]_editsVars

\* Both, of every edit: what aims at a state or a transition, in the file or on
\* the page that edits, aims at the same one afterwards.  (states.go,
\* renameState and deleteState; canvasedit.go, the selection after an edit)
AimsAreKept == ReferencesAreKept /\ SelectionFollows
=============================================================================
