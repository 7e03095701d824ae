----------------------------- MODULE Statechart -----------------------------
(***************************************************************************)
(* The static part of internal/agent: a parsed machine definition and the  *)
(* tree questions the interpreter asks of it.                              *)
(*                                                                         *)
(* A chart is a record:                                                    *)
(*   nodes     the StateNodes of the machine                               *)
(*   anc[n]    the nodes met by following n.Parent to the root             *)
(*   type[n]   atomic | compound | parallel | final | history              *)
(*   id[n]     StateNode.ID: the machine id and the leaf name, so two      *)
(*             nodes may share one                                         *)
(*   found[i]  the node FindState answers for id i                         *)
(*   alike[i]  the other ids whose rows the LIKE pattern that cancels i's  *)
(*             matches: LIKE takes A for a, so "Goblin.Idle" for           *)
(*             "goblin.idle", and its % any text before the id             *)
(*   initial   compound node -> the child its "initial" names              *)
(*   default   history node -> its default target, or NoNode               *)
(*   deep      the history nodes that record leaves at any depth           *)
(*   start     the node the machine's own "initial" names                  *)
(*   trans     the transitions, a sequence of records                      *)
(*             [src, name, delay, target, guarded] in document order;      *)
(*             name = "after" for an after entry (delay in ticks),         *)
(*             target = NoNode for a targetless transition                 *)
(*   failExit, failEntry   nodes with an exit / entry action that may      *)
(*             return an error                                             *)
(*   failAct   indices of transitions with an action that may              *)
(*                                                                         *)
(* The chain of Parent pointers is represented by the set anc[n] of the    *)
(* nodes on it: in a tree the set determines the chain, and every walk of  *)
(* the code becomes a set expression.  The chain of a nil node is {}.      *)
(***************************************************************************)
EXTENDS Integers, FiniteSets, Sequences

CONSTANT NoNode      \* a nil *StateNode, an empty target

Leaf(c)    == {n \in c.nodes : c.type[n] \in {"atomic", "final"}}
AncSelf(c, n) == c.anc[n] \cup {n}
Depth(c, n) == Cardinality(c.anc[n])
ChildOf(c, k, p) == p \in c.anc[k] /\ c.anc[k] = AncSelf(c, p)

\* The states that are active when the leaves in S are: the configuration
\* stores leaves only, their ancestors are active with them.
Active(c, S) == UNION {AncSelf(c, n) : n \in S}

\* What ParseMachine and ValidateMachine leave possible, as far as the
\* interpreter depends on it.  History nodes are neither an initial child nor a
\* region of a parallel state: the bound of these models.
IsChart(c) ==
  /\ NoNode \notin c.nodes /\ IsFiniteSet(c.nodes) /\ Len(c.trans) \in Nat
  /\ c.anc \in [c.nodes -> SUBSET c.nodes]
  /\ \A n \in c.nodes :
       /\ n \notin c.anc[n]
       /\ \A m \in c.anc[n] :
            /\ c.anc[m] \subseteq c.anc[n]
            /\ c.type[m] \in {"compound", "parallel"}
            /\ \A k \in c.anc[n] : k = m \/ k \in c.anc[m] \/ m \in c.anc[k]
  /\ c.type \in [c.nodes -> {"atomic", "compound", "parallel", "final", "history"}]
  /\ \A n \in c.nodes : c.type[n] = "compound" =>
       /\ c.initial[n] \in c.nodes
       /\ ChildOf(c, c.initial[n], n)
       /\ c.type[c.initial[n]] # "history"
  /\ \A n \in c.nodes : c.type[n] = "history" =>
       /\ c.default[n] \in c.nodes \cup {NoNode}
       /\ c.default[n] # NoNode => c.type[c.default[n]] # "history"
       /\ \A p \in c.nodes : ChildOf(c, n, p) => c.type[p] = "compound"
       /\ \A k \in c.nodes : c.type[k] = "history" /\ c.id[k] = c.id[n] => k = n
  /\ c.deep \subseteq {n \in c.nodes : c.type[n] = "history"}
  /\ c.start \in c.nodes /\ c.type[c.start] # "history" /\ c.anc[c.start] = {}
  /\ DOMAIN c.found = {c.id[n] : n \in c.nodes}
  /\ c.alike \in [DOMAIN c.found -> SUBSET DOMAIN c.found]
  /\ \A n \in c.nodes : c.found[c.id[n]] \in c.nodes /\ c.id[c.found[c.id[n]]] = c.id[n]
  /\ \A i \in 1..Len(c.trans) :
       /\ c.trans[i].src \in c.nodes
       /\ c.trans[i].target \in c.nodes \cup {NoNode}
       /\ c.trans[i].delay \in Nat
       /\ c.trans[i].guarded \in BOOLEAN

-----------------------------------------------------------------------------
(* Entering a state *)

\* Entering k's parent enters k: k is the initial child of a compound state or
\* a region of a parallel one.
ByDefault(c, k) ==
  \E p \in c.anc[k] :
    /\ ChildOf(c, k, p)
    /\ \/ c.type[p] = "parallel"
       \/ c.type[p] = "compound" /\ c.initial[p] = k

\* Faulty variant: of a parallel state's regions only the first one is entered.
ExpandOneRegion(c, n) ==
  LET first(p) == CHOOSE k \in c.nodes : ChildOf(c, k, p)
  IN  {m \in c.nodes : n \in AncSelf(c, m) /\
         \A k \in AncSelf(c, m) \ AncSelf(c, n) :
           \A p \in c.anc[k] : ChildOf(c, k, p) =>
             k = IF c.type[p] = "parallel" THEN first(p) ELSE c.initial[p]}

\* expandEntry: n and everything entering n enters with it.  A state further
\* down is entered when each state on the way to it is.
Expand(c, n) ==
  {m \in c.nodes : n \in AncSelf(c, m) /\ \A k \in AncSelf(c, m) \ AncSelf(c, n) : ByDefault(c, k)}

\* Entering any state settles in some leaf, on every branch entered: what
\* requiresInitial is for.  A parallel state without regions would not.
Settles(c) == \A n \in c.nodes : c.type[n] # "history" => Expand(c, n) \cap Leaf(c) # {}

\* No id that is stored finds a history state, as it could where a history state
\* shares its id with a leaf: a bound of these models, like those of IsChart.
StoresNoHistory(c) == \A n \in Leaf(c) : c.type[c.found[c.id[n]]] # "history"

\* The nodes LoadAgent finds for the stored ids; an id the definition does not
\* have is dropped.
Resolve(c, ids) == {c.found[i] : i \in ids \cap DOMAIN c.found}
IdsOf(c, S) == {c.id[n] : n \in S}

-----------------------------------------------------------------------------
(* Leaving a state *)

\* The ancestor-or-self chain of lcaNode(a, b): the states that contain both a
\* and b, and are neither of them.
LcaChain(c, a, b) == IF a = b THEN c.anc[a] ELSE c.anc[a] \cap c.anc[b]

\* Faulty variant: only the leaves are exited.
ExitLeaves(c, atoms, sel) ==
  UNION {{x \in atoms : LcaChain(c, c.trans[i].src, c.trans[i].target) \subseteq AncSelf(c, x)} :
           i \in {j \in sel : c.trans[j].target # NoNode}}
\* computeExitSet: under each targeted transition's LCA, every active state up
\* to the LCA.
ExitSet(c, atoms, sel) ==
  UNION {UNION {AncSelf(c, x) \ LcaChain(c, c.trans[i].src, c.trans[i].target) :
                  x \in {y \in atoms : LcaChain(c, c.trans[i].src, c.trans[i].target)
                                         \subseteq AncSelf(c, y)}} :
           i \in {j \in sel : c.trans[j].target # NoNode}}

\* recordHistoryNodes: what the history node h knows when the states of X are
\* exited -- the atoms inside its parent, if that is one of X.  LoadAgent starts
\* every delivery with an empty History, so this is all it ever knows, and only
\* this microstep can use it.
Recorded(c, atoms, X, h) ==
  {x \in atoms : \E p \in X : ChildOf(c, h, p) /\ p \in c.anc[x] /\ (h \in c.deep \/ ChildOf(c, x, p))}

\* expandEntryWithHistory: a history target stands for what it recorded, else
\* for its default, else for nothing.
EntryRoots(c, atoms, X, n) ==
  IF c.type[n] # "history" THEN {n}
  ELSE IF Recorded(c, atoms, X, n) # {} THEN Recorded(c, atoms, X, n)
  ELSE {c.default[n]} \ {NoNode}
ExpandTarget(c, atoms, X, n) == UNION {Expand(c, k) : k \in EntryRoots(c, atoms, X, n)}

\* computeEntrySet: what the targets expand to.  The ancestors of a target are
\* not added, even when they are not active.
EntrySet(c, atoms, X, sel) ==
  UNION {ExpandTarget(c, atoms, X, c.trans[i].target) : i \in {j \in sel : c.trans[j].target # NoNode}}

-----------------------------------------------------------------------------
(* Choosing transitions *)

\* The transitions n offers for event e: its On list, or the After list whose
\* synthetic event type is e.
Candidates(c, n, e) ==
  {i \in 1..Len(c.trans) :
     /\ c.trans[i].src = n
     /\ c.trans[i].name = e.name
     /\ c.trans[i].delay = e.delay
     /\ e.name = "after" => c.id[n] = e.id}

\* With the guards in g holding, the candidate n takes: the first eligible one.
FirstEligible(c, n, e, g) ==
  LET ok == {i \in Candidates(c, n, e) : c.trans[i].guarded => i \in g}
  IN  {i \in ok : \A j \in ok : i <= j}

\* The candidate found walking up from atom a: the deepest state that has one.
Pick(c, a, e, g) ==
  UNION {FirstEligible(c, n, e, g) :
           n \in {m \in AncSelf(c, a) :
                    \A k \in AncSelf(c, a) :
                      m \in c.anc[k] => FirstEligible(c, k, e, g) = {}}}

\* The orders sortByDepthDesc may give the atoms: deepest first, ties in any
\* order (the stored order of siblings comes from a map iteration).
Orders(c, atoms) ==
  {o \in [atoms -> 1..Cardinality(atoms)] :
     \A a, b \in atoms : a # b => o[a] # o[b] /\ (Depth(c, a) > Depth(c, b) => o[a] < o[b])}

\* With order o and choices pick, the atoms that get to take theirs are those of
\* T: an atom below the source of a transition an earlier one took is skipped.
Takers(c, atoms, pick, o, T) ==
  \A a \in atoms :
    a \in T <=>
      /\ pick[a] # {}
      /\ \A b \in T : o[b] < o[a] =>
           \A i \in pick[b] : c.trans[i].src \notin AncSelf(c, a)

\* selectEligibleTransitions, for every order and the guards of g holding.
Selections(c, atoms, e, g) ==
  LET pick == [a \in atoms |-> Pick(c, a, e, g)]
  IN  {UNION {pick[a] : a \in T} :
         T \in {U \in SUBSET atoms : \E o \in Orders(c, atoms) : Takers(c, atoms, pick, o, U)}}
=============================================================================
