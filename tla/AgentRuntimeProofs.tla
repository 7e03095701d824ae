------------------------- MODULE AgentRuntimeProofs -------------------------
(***************************************************************************)
(* For every chart: no handler leaves ids, rows or nodes the chart lacks.  *)
(* For every chart with unique ids, no parallel states and history         *)
(* defaults inside their parents: what is active is one chain of states    *)
(* from a root to a leaf, whichever actions fail; and as far as targets    *)
(* bring with them what is around them, and entry actions do not fail,     *)
(* timers and what actions set up are those of the active states.          *)
(***************************************************************************)
EXTENDS AgentRuntime, FiniteSetTheorems, WellFoundedInduction, NaturalsInduction, TLAPS

Sequential ==
  /\ UniqueIds(Chart)
  /\ SingleBranch(Chart)
  /\ DefaultsInside(Chart)

\* Every target brings all the states around it with it, and no entry fails.
EntersWhole ==
  /\ TargetsNear(Chart)
  /\ TargetsBeside(Chart)
  /\ Chart.failEntry = {}

\* What the actions of m have set up is that of l and of the states around l.
SetUp(m, l) ==
  /\ m.entered \subseteq AncSelf(Chart, l)
  /\ AncSelf(Chart, l) \subseteq Calm(Chart) => m.entered = AncSelf(Chart, l)

\* m rests in leaf l: l is its configuration, and if no entry action fails its
\* timers are those of l and of the states around l.
RestsIn(m, l) ==
  /\ l \in Leaf(Chart)
  /\ m.cfg = {Chart.id[l]}
  /\ Chart.failEntry = {} => \A r \in m.timers : \E n \in AncSelf(Chart, l) : Chart.id[n] = r.id
  /\ EntersWhole => SetUp(m, l)

\* m has a row for each after entry of n.
Armed(m, n) ==
  \A d \in AfterDelays(Chart, n) : \E r \in m.timers : r.id = Chart.id[n] /\ r.delay = d

\* m has rows for the states of k that are not states of l.
ArmedSince(m, k, l) ==
  TargetsNear(Chart) => \A n \in AncSelf(Chart, k) \ AncSelf(Chart, l) : Armed(m, n)

\* The inductive invariant behind the properties of a machine without parallel states.
IInv ==
  /\ ~started => machine = NotStarted
  /\ started => \E l \in Leaf(Chart) : RestsIn(machine, l)

-----------------------------------------------------------------------------
(* The tree *)

\* The chain above a node: what is above an ancestor is above the node.
LEMMA AncestorChain ==
  ASSUME NEW n \in Chart.nodes, NEW m \in AncSelf(Chart, n)
  PROVE  /\ m \in Chart.nodes
         /\ AncSelf(Chart, m) \subseteq AncSelf(Chart, n)
         /\ Chart.anc[m] \subseteq Chart.anc[n]
  BY ChartAssumption DEF IsChart, AncSelf

\* Two states on one chain are one inside the other.
LEMMA ChainIsLinear ==
  ASSUME NEW a \in Chart.nodes, NEW m \in AncSelf(Chart, a), NEW n \in AncSelf(Chart, a)
  PROVE  m = n \/ m \in Chart.anc[n] \/ n \in Chart.anc[m]
  BY ChartAssumption DEF IsChart, AncSelf

\* Among some states there is one with none of the others around it.
LEMMA Outermost ==
  ASSUME NEW S \in SUBSET Chart.nodes, S # {}
  PROVE  \E n \in S : \A k \in S : k \notin Chart.anc[n]
<1> DEFINE above(n) == Cardinality(Chart.anc[n])
           L == {ss \in Nat \X Nat : ss[1] < ss[2]}
           T == {above(n) : n \in S}
<1>1. \A n \in S : IsFiniteSet(Chart.anc[n]) /\ above(n) \in Nat
  BY ChartAssumption, FS_Subset, FS_CardinalityType DEF IsChart
<1>2. T \subseteq Nat /\ T # {}
  BY <1>1
<1>3. IsWellFoundedOn(L, Nat)
  BY NatLessThanWellFounded DEF OpToRel
<1>4. \A k, n \in Nat : <<k, n>> \in L <=> k < n
  OBVIOUS
<1>5. \A n \in S : above(n) \in T
  OBVIOUS
<1>6. \A x \in T : \E n \in S : x = above(n)
  OBVIOUS
<1> HIDE DEF L, T
<1>7. PICK x \in T : \A y \in T : ~ (<<y, x>> \in L)
  BY <1>2, <1>3, WFMin
<1>8. PICK n \in S : x = above(n)
  BY <1>6
<1>9. ASSUME NEW k \in S, k \in Chart.anc[n] PROVE FALSE
  <2>1. Chart.anc[k] \subseteq Chart.anc[n] /\ k \notin Chart.anc[k]
    BY <1>9, ChartAssumption DEF IsChart
  <2>2. above(k) < above(n)
    BY <1>1, <1>9, <2>1, FS_Subset
  <2>3. QED
    BY <1>1, <1>2, <1>4, <1>5, <1>7, <1>8, <2>2
<1>10. QED
  BY <1>9

\* The chain of a state starts at one root.
LEMMA OneTop ==
  ASSUME NEW l \in Chart.nodes
  PROVE  \E n \in AncSelf(Chart, l) : {k \in AncSelf(Chart, l) : Chart.anc[k] = {}} = {n}
<1>1. AncSelf(Chart, l) \in SUBSET Chart.nodes /\ l \in AncSelf(Chart, l)
  BY ChartAssumption DEF IsChart, AncSelf
<1>2. PICK n \in AncSelf(Chart, l) : \A k \in AncSelf(Chart, l) : k \notin Chart.anc[n]
  BY <1>1, Outermost
<1>3. Chart.anc[n] = {}
  <2>1. Chart.anc[n] \subseteq AncSelf(Chart, l)
    BY AncestorChain DEF AncSelf
  <2>2. QED
    BY <1>2, <2>1
<1>4. ASSUME NEW k \in AncSelf(Chart, l), Chart.anc[k] = {} PROVE k = n
  BY <1>3, <1>4, ChainIsLinear
<1>5. QED
  BY <1>3, <1>4

\* Below each state on the chain of l there is one of its children on the chain.
LEMMA ChildToward ==
  ASSUME NEW l \in Chart.nodes, NEW p \in Chart.anc[l]
  PROVE  \E k \in AncSelf(Chart, l) : {j \in AncSelf(Chart, l) : ChildOf(Chart, j, p)} = {k}
<1> DEFINE C == AncSelf(Chart, l)
           S == {j \in C : p \in Chart.anc[j]}
<1>1. C \in SUBSET Chart.nodes /\ l \in C /\ p \in C /\ l \in S
  BY ChartAssumption DEF IsChart, AncSelf
<1>2. PICK k \in S : \A j \in S : j \notin Chart.anc[k]
  BY <1>1, Outermost
<1>3. ChildOf(Chart, k, p)
  <2>1. p \in Chart.anc[k] /\ k \in C
    OBVIOUS
  <2>2. ASSUME NEW x \in Chart.anc[k] PROVE x \in AncSelf(Chart, p)
    <3>1. x \in C
      BY <2>1, <2>2, AncestorChain DEF AncSelf
    <3>2. p \notin Chart.anc[x]
      BY <1>2, <2>2, <3>1
    <3>3. QED
      BY <1>1, <3>1, <3>2, ChainIsLinear DEF AncSelf
  <2>3. p \in AncSelf(Chart, k)
    BY <2>1 DEF AncSelf
  <2>4. AncSelf(Chart, p) \subseteq Chart.anc[k]
    BY <1>1, <2>1, <2>3, AncestorChain DEF AncSelf
  <2>5. QED
    BY <2>1, <2>2, <2>4 DEF ChildOf
<1>4. ASSUME NEW j \in C, ChildOf(Chart, j, p) PROVE j = k
  <2>1. j \in S /\ k \in C
    BY <1>4 DEF ChildOf
  <2>2. j \notin Chart.anc[k]
    BY <1>2, <2>1
  <2>3. SUFFICES ASSUME k \in Chart.anc[j] PROVE FALSE
    BY <1>1, <2>1, <2>2, ChainIsLinear
  <2>4. k \in AncSelf(Chart, p)
    BY <1>4, <2>3 DEF ChildOf
  <2>5. p \in Chart.anc[k]
    OBVIOUS
  <2>6. QED
    BY <1>1, <2>4, <2>5, ChartAssumption DEF IsChart, AncSelf
<1>5. QED
  BY <1>3, <1>4

\* What entering a state enters is inside it, and is never a history node.
LEMMA ExpandInside ==
  ASSUME NEW n \in Chart.nodes, Chart.type[n] # "history", NEW m \in Expand(Chart, n)
  PROVE  m \in Chart.nodes /\ n \in AncSelf(Chart, m) /\ Chart.type[m] # "history"
<1>1. m \in Chart.nodes /\ n \in AncSelf(Chart, m)
  BY DEF Expand
<1>2. CASE m = n
  BY <1>1, <1>2
<1>3. CASE m # n
  <2>1. m \notin AncSelf(Chart, n)
    BY <1>1, <1>3, ChartAssumption DEF IsChart, AncSelf
  <2>2. ByDefault(Chart, m)
    BY <2>1, <1>1 DEF Expand, AncSelf
  <2>3. PICK p \in Chart.anc[m] :
          /\ ChildOf(Chart, m, p)
          /\ \/ Chart.type[p] = "parallel"
             \/ Chart.type[p] = "compound" /\ Chart.initial[p] = m
    BY <2>2 DEF ByDefault
  <2>4. p \in Chart.nodes
    BY <1>1, ChartAssumption DEF IsChart
  <2>5. QED
    BY <1>1, <2>3, <2>4, ChartAssumption DEF IsChart
<1>4. QED
  BY <1>2, <1>3

\* Every state entered has, among the states entered, a leaf inside it.
LEMMA ExpandCovered ==
  ASSUME NEW n \in Chart.nodes, Chart.type[n] # "history", NEW m \in Expand(Chart, n)
  PROVE  \E l \in Expand(Chart, n) \cap Leaf(Chart) : m \in AncSelf(Chart, l)
<1>1. m \in Chart.nodes /\ n \in AncSelf(Chart, m) /\ Chart.type[m] # "history"
  BY ExpandInside
<1>2. PICK l \in Expand(Chart, m) \cap Leaf(Chart) : TRUE
  BY <1>1, LeafAssumption DEF Settles
<1>3. l \in Chart.nodes /\ m \in AncSelf(Chart, l)
  BY <1>2 DEF Expand
<1>4. n \in AncSelf(Chart, l)
  BY <1>1, <1>3, AncestorChain
<1>5. \A k \in AncSelf(Chart, l) \ AncSelf(Chart, n) : ByDefault(Chart, k)
  BY <1>1, <1>2 DEF Expand
<1>6. QED
  BY <1>2, <1>3, <1>4, <1>5 DEF Expand

\* Without parallel states, entering a state enters one chain, down to one leaf.
LEMMA ExpandIsChain ==
  ASSUME Sequential, NEW n \in Chart.nodes, Chart.type[n] # "history"
  PROVE  \E l \in Leaf(Chart) :
           /\ Expand(Chart, n) \cap Leaf(Chart) = {l}
           /\ n \in AncSelf(Chart, l)
           /\ \A m \in Expand(Chart, n) : m \in AncSelf(Chart, l)
<1>1. PICK l \in Expand(Chart, n) \cap Leaf(Chart) : TRUE
  BY LeafAssumption DEF Settles
<1>2. Expand(Chart, n) \cap Leaf(Chart) = {l}
  BY <1>1 DEF Sequential, SingleBranch
<1>3. n \in AncSelf(Chart, l)
  BY <1>1, ExpandInside
<1>4. ASSUME NEW m \in Expand(Chart, n) PROVE m \in AncSelf(Chart, l)
  BY <1>2, <1>4, ExpandCovered
<1>5. QED
  BY <1>1, <1>2, <1>3, <1>4

\* Without parallel states a parallel state has no second region.
LEMMA OneRegion ==
  ASSUME SingleBranch(Chart), NEW p \in Chart.nodes, Chart.type[p] = "parallel",
         NEW j \in Chart.nodes, ChildOf(Chart, j, p), NEW k \in Chart.nodes, ChildOf(Chart, k, p)
  PROVE  j = k
<1>1. ASSUME NEW r \in Chart.nodes, ChildOf(Chart, r, p)
      PROVE  \E l \in Expand(Chart, p) \cap Leaf(Chart) : l \in Chart.nodes /\ r \in AncSelf(Chart, l)
  <2>1. Chart.type[r] # "history"
    BY <1>1, ChartAssumption DEF IsChart
  <2>2. PICK l \in Expand(Chart, r) \cap Leaf(Chart) : TRUE
    BY <2>1, LeafAssumption DEF Settles
  <2>3. l \in Chart.nodes /\ r \in AncSelf(Chart, l)
    BY <2>2 DEF Expand
  <2>4. p \in AncSelf(Chart, l)
    BY <1>1, <2>3, AncestorChain DEF ChildOf, AncSelf
  <2>5. ByDefault(Chart, r)
    BY <1>1 DEF ByDefault, ChildOf
  <2>6. AncSelf(Chart, l) \ AncSelf(Chart, p) \subseteq (AncSelf(Chart, l) \ AncSelf(Chart, r)) \cup {r}
    BY <1>1 DEF ChildOf, AncSelf
  <2>7. \A n \in AncSelf(Chart, l) \ AncSelf(Chart, r) : ByDefault(Chart, n)
    BY <2>2 DEF Expand
  <2>8. l \in Expand(Chart, p)
    BY <2>3, <2>4, <2>5, <2>6, <2>7 DEF Expand
  <2>9. QED
    BY <2>2, <2>3, <2>8
<1>2. PICK l \in Expand(Chart, p) \cap Leaf(Chart) : l \in Chart.nodes /\ j \in AncSelf(Chart, l)
  BY <1>1
<1>3. PICK m \in Expand(Chart, p) \cap Leaf(Chart) : m \in Chart.nodes /\ k \in AncSelf(Chart, m)
  BY <1>1
<1>4. m = l
  BY <1>2, <1>3 DEF SingleBranch
<1>5. j = k \/ j \in Chart.anc[k] \/ k \in Chart.anc[j]
  BY <1>2, <1>3, <1>4, ChainIsLinear
<1>6. ASSUME NEW x \in Chart.nodes, NEW y \in Chart.nodes, ChildOf(Chart, x, p), ChildOf(Chart, y, p),
             x \in Chart.anc[y]
      PROVE  FALSE
  BY <1>6, ChartAssumption DEF IsChart, ChildOf, AncSelf
<1>7. QED
  BY <1>5, <1>6

\* The way down from a state entered to what it enters is entered with it.
LEMMA ExpandReaches ==
  ASSUME NEW n \in Chart.nodes, NEW k \in Expand(Chart, n)
  PROVE  AncSelf(Chart, k) \subseteq Chart.anc[n] \cup Expand(Chart, n)
<1>1. k \in Chart.nodes /\ n \in AncSelf(Chart, k)
  BY DEF Expand
<1>2. ASSUME NEW m \in AncSelf(Chart, k), m \notin Chart.anc[n] PROVE m \in Expand(Chart, n)
  <2>1. m \in Chart.nodes /\ AncSelf(Chart, m) \subseteq AncSelf(Chart, k)
    BY <1>1, AncestorChain
  <2>2. n \in AncSelf(Chart, m)
    BY <1>1, <1>2, ChainIsLinear DEF AncSelf
  <2>3. QED
    BY <2>1, <2>2 DEF Expand
<1>3. QED
  BY <1>2

\* The states of one tree are calm together.
LEMMA CalmSpreads ==
  ASSUME NEW k \in Chart.nodes, NEW l \in Chart.nodes, AncSelf(Chart, k) \subseteq Calm(Chart),
         NEW x \in AncSelf(Chart, k), x \in AncSelf(Chart, l)
  PROVE  AncSelf(Chart, l) \subseteq Calm(Chart)
<1> SUFFICES ASSUME NEW n \in AncSelf(Chart, l), NEW y \in Chart.nodes,
                    AncSelf(Chart, y) \cap AncSelf(Chart, n) # {}
             PROVE  AncSelf(Chart, y) \cap AncSelf(Chart, x) # {}
  <2>1. x \in Calm(Chart)
    OBVIOUS
  <2>2. AncSelf(Chart, l) \subseteq Chart.nodes
    BY AncestorChain
  <2>3. QED
    BY <2>1, <2>2 DEF Calm
<1>1. PICK z \in AncSelf(Chart, y) : z \in AncSelf(Chart, n)
  OBVIOUS
<1>2. n \in Chart.nodes /\ z \in Chart.nodes /\ z \in AncSelf(Chart, l)
  BY <1>1, AncestorChain
<1>3. PICK r \in AncSelf(Chart, z) : Chart.anc[r] = {}
  BY <1>2, OneTop
<1>4. r \in AncSelf(Chart, y) /\ r \in AncSelf(Chart, l)
  BY <1>1, <1>2, <1>3, AncestorChain
<1>5. r \in AncSelf(Chart, x)
  BY <1>3, <1>4, ChainIsLinear DEF AncSelf
<1>6. QED
  BY <1>4, <1>5

-----------------------------------------------------------------------------
(* The transition chosen *)

\* A walk up from an atom takes at most one transition, of a state it passes.
LEMMA PickIsOne ==
  ASSUME NEW a \in Chart.nodes, NEW e, NEW g, NEW i \in Pick(Chart, a, e, g)
  PROVE  /\ i \in 1..Len(Chart.trans)
         /\ Chart.trans[i].src \in AncSelf(Chart, a)
         /\ \A j \in Pick(Chart, a, e, g) : j = i
<1>1. ASSUME NEW j \in Pick(Chart, a, e, g)
      PROVE  \E n \in AncSelf(Chart, a) :
               /\ j \in FirstEligible(Chart, n, e, g)
               /\ \A k \in AncSelf(Chart, a) :
                    n \in Chart.anc[k] => FirstEligible(Chart, k, e, g) = {}
  BY <1>1 DEF Pick
<1>2. PICK n \in AncSelf(Chart, a) :
        /\ i \in FirstEligible(Chart, n, e, g)
        /\ \A k \in AncSelf(Chart, a) : n \in Chart.anc[k] => FirstEligible(Chart, k, e, g) = {}
  BY <1>1
<1>3. i \in 1..Len(Chart.trans) /\ Chart.trans[i].src = n
  BY <1>2 DEF FirstEligible, Candidates
<1>4. ASSUME NEW j \in Pick(Chart, a, e, g) PROVE j = i
  <2>1. PICK m \in AncSelf(Chart, a) :
          /\ j \in FirstEligible(Chart, m, e, g)
          /\ \A k \in AncSelf(Chart, a) : m \in Chart.anc[k] => FirstEligible(Chart, k, e, g) = {}
    BY <1>1, <1>4
  <2>2. m = n
    BY <1>2, <2>1, ChainIsLinear
  <2>3. j \in FirstEligible(Chart, n, e, g) /\ j \in 1..Len(Chart.trans)
    BY <2>1, <2>2 DEF FirstEligible, Candidates
  <2>4. i <= j /\ j <= i
    BY <1>2, <2>3 DEF FirstEligible
  <2>5. QED
    BY <1>3, <2>3, <2>4
<1>5. QED
  BY <1>3, <1>4, <1>2

\* In a single leaf, a microstep takes at most the one transition picked there.
LEMMA OneTransition ==
  ASSUME NEW l \in Chart.nodes, NEW e, NEW s \in Microsteps(Chart, {l}, e)
  PROVE  /\ s.exit = ExitSet(Chart, {l}, s.sel)
         /\ s.entry = EntrySet(Chart, {l}, ExitSet(Chart, {l}, s.sel), s.sel)
         /\ \/ s.sel = {}
            \/ \E i \in 1..Len(Chart.trans) :
                 s.sel = {i} /\ Chart.trans[i].src \in AncSelf(Chart, l)
<1>1. PICK g \in SUBSET Guarded(Chart, {l}, e) : \E sel \in Selections(Chart, {l}, e, g) :
        s = [sel |-> sel, exit |-> ExitSet(Chart, {l}, sel),
             entry |-> EntrySet(Chart, {l}, ExitSet(Chart, {l}, sel), sel)]
  BY DEF Microsteps
<1>2. PICK sel \in Selections(Chart, {l}, e, g) :
        s = [sel |-> sel, exit |-> ExitSet(Chart, {l}, sel),
             entry |-> EntrySet(Chart, {l}, ExitSet(Chart, {l}, sel), sel)]
  BY <1>1
<1>3. sel \subseteq Pick(Chart, l, e, g)
  BY <1>2 DEF Selections
<1>4. CASE sel = {}
  BY <1>2, <1>4
<1>5. CASE sel # {}
  <2>1. PICK i \in sel : TRUE
    BY <1>5
  <2>2. sel = {i} /\ i \in 1..Len(Chart.trans) /\ Chart.trans[i].src \in AncSelf(Chart, l)
    BY <1>3, <2>1, PickIsOne
  <2>3. QED
    BY <1>2, <2>2
<1>6. QED
  BY <1>4, <1>5

\* Entering target tgt out of leaf l, when the states of X are left, is entering ent.
EntersAt(ent, l, X, tgt) ==
  /\ Chart.type[ent] # "history"
  /\ ExpandTarget(Chart, {l}, X, tgt) = Expand(Chart, ent)
  /\ ent = l \/ Chart.anc[tgt] \subseteq AncSelf(Chart, ent)
  /\ TargetsNear(Chart) =>
       \/ Chart.anc[ent] = Chart.anc[tgt]
       \/ ent = l /\ Chart.type[tgt] = "history" /\ Recorded(Chart, {l}, X, tgt) # {}

\* A target that leads somewhere is entered at one state, which is not a history
\* state and lies inside every ancestor of the target, or is the leaf left.
LEMMA OneRoot ==
  ASSUME Sequential, NEW l \in Leaf(Chart), NEW X, NEW tgt \in Chart.nodes,
         ExpandTarget(Chart, {l}, X, tgt) # {}
  PROVE  \E ent \in Chart.nodes : EntersAt(ent, l, X, tgt)
<1>1. CASE Chart.type[tgt] # "history"
  <2>1. EntryRoots(Chart, {l}, X, tgt) = {tgt}
    BY <1>1 DEF EntryRoots
  <2>2. ExpandTarget(Chart, {l}, X, tgt) = Expand(Chart, tgt)
    BY <2>1 DEF ExpandTarget
  <2>3. QED
    BY <1>1, <2>2 DEF EntersAt, AncSelf
<1>2. CASE Chart.type[tgt] = "history" /\ Recorded(Chart, {l}, X, tgt) # {}
  <2>1. EntryRoots(Chart, {l}, X, tgt) = {l}
    BY <1>2 DEF EntryRoots, Recorded
  <2>2. ExpandTarget(Chart, {l}, X, tgt) = Expand(Chart, l)
    BY <2>1 DEF ExpandTarget
  <2>3. QED
    BY <1>2, <2>2 DEF EntersAt, Leaf
<1>3. CASE Chart.type[tgt] = "history" /\ Recorded(Chart, {l}, X, tgt) = {}
  <2> DEFINE d == Chart.default[tgt]
  <2>1. EntryRoots(Chart, {l}, X, tgt) = {d} \ {NoNode}
    BY <1>3 DEF EntryRoots
  <2>2. d # NoNode
    BY <2>1 DEF ExpandTarget
  <2>3. d \in Chart.nodes /\ Chart.type[d] # "history"
    BY <1>3, <2>2, ChartAssumption DEF IsChart
  <2>4. Chart.anc[tgt] \subseteq AncSelf(Chart, d)
    BY <1>3, <2>2 DEF Sequential, DefaultsInside
  <2>5. ExpandTarget(Chart, {l}, X, tgt) = Expand(Chart, d)
    BY <2>1, <2>2 DEF ExpandTarget
  <2>6. TargetsNear(Chart) => Chart.anc[d] = Chart.anc[tgt]
    BY <1>3, <2>2 DEF TargetsNear
  <2>7. QED
    BY <2>3, <2>4, <2>5, <2>6 DEF EntersAt
<1>4. QED
  BY <1>1, <1>2, <1>3

\* A target that leads somewhere enters something.
LEMMA LeadsSomewhere ==
  ASSUME NEW atoms, NEW X, NEW i \in 1..Len(Chart.trans), Chart.trans[i].target # NoNode,
         TargetsBeside(Chart), atoms \subseteq Chart.nodes
  PROVE  EntrySet(Chart, atoms, X, {i}) # {}
<1> DEFINE tgt == Chart.trans[i].target
<1>1. tgt \in Chart.nodes
  BY ChartAssumption DEF IsChart
<1>2. \E n \in EntryRoots(Chart, atoms, X, tgt) : n \in Chart.nodes
  <2>1. CASE Chart.type[tgt] # "history"
    BY <1>1, <2>1 DEF EntryRoots
  <2>2. CASE Chart.type[tgt] = "history" /\ Recorded(Chart, atoms, X, tgt) # {}
    BY <2>2 DEF EntryRoots, Recorded
  <2>3. CASE Chart.type[tgt] = "history" /\ Recorded(Chart, atoms, X, tgt) = {}
    <3>1. Chart.default[tgt] # NoNode
      BY <2>3 DEF TargetsBeside
    <3>2. Chart.default[tgt] \in Chart.nodes
      BY <1>1, <2>3, <3>1, ChartAssumption DEF IsChart
    <3>3. QED
      BY <2>3, <3>1, <3>2 DEF EntryRoots
  <2>4. QED
    BY <2>1, <2>2, <2>3
<1>3. \A n \in Chart.nodes : n \in Expand(Chart, n)
  BY DEF Expand, AncSelf
<1>4. ExpandTarget(Chart, atoms, X, tgt) # {}
  BY <1>2, <1>3 DEF ExpandTarget
<1>5. EntrySet(Chart, atoms, X, {i}) = ExpandTarget(Chart, atoms, X, tgt)
  BY DEF EntrySet
<1>6. QED
  BY <1>4, <1>5

\* The states that contain the source and the target of a transition.
Kept(i) == LcaChain(Chart, Chart.trans[i].src, Chart.trans[i].target)

\* The states a transition out of leaf l leaves: those around l that do not
\* contain both its source and its target.
LEMMA ExitedStates ==
  ASSUME NEW l \in Chart.nodes, NEW i \in 1..Len(Chart.trans),
         Chart.trans[i].src \in AncSelf(Chart, l), Chart.trans[i].target # NoNode
  PROVE  /\ Kept(i) \subseteq AncSelf(Chart, l)
         /\ Kept(i) \subseteq Chart.anc[Chart.trans[i].target]
         /\ ExitSet(Chart, {l}, {i}) = AncSelf(Chart, l) \ Kept(i)
         /\ TargetsBeside(Chart) => Kept(i) = Chart.anc[Chart.trans[i].target]
<1>1. Kept(i) \subseteq AncSelf(Chart, l) /\ Kept(i) \subseteq Chart.anc[Chart.trans[i].target]
  BY AncestorChain DEF Kept, LcaChain, AncSelf
<1>2. ExitSet(Chart, {l}, {i}) = AncSelf(Chart, l) \ Kept(i)
  BY <1>1 DEF ExitSet, Kept
<1>3. TargetsBeside(Chart) => Kept(i) = Chart.anc[Chart.trans[i].target]
  BY DEF Kept, TargetsBeside, LcaChain
<1>4. QED
  BY <1>1, <1>2, <1>3

\* A history state whose parent is not left has nothing recorded.
LEMMA NothingRecorded ==
  ASSUME TargetsBeside(Chart), NEW l \in Chart.nodes, NEW i \in 1..Len(Chart.trans),
         Chart.trans[i].src \in AncSelf(Chart, l), Chart.trans[i].target # NoNode
  PROVE  Recorded(Chart, {l}, ExitSet(Chart, {l}, {i}), Chart.trans[i].target) = {}
<1> DEFINE X == ExitSet(Chart, {l}, {i})
           tgt == Chart.trans[i].target
<1>1. X = AncSelf(Chart, l) \ Kept(i) /\ Kept(i) = Chart.anc[tgt]
  BY ExitedStates
<1>2. QED
  BY <1>1 DEF Recorded, ChildOf

\* A targeted transition out of leaf l enters one chain that ends in a leaf inside
\* every state that stays active, and with near targets nothing on the way to that
\* leaf is left out.
LEMMA TargetedStep ==
  ASSUME Sequential, NEW l \in Leaf(Chart), NEW i \in 1..Len(Chart.trans), NEW X,
         Chart.trans[i].src \in AncSelf(Chart, l), Chart.trans[i].target # NoNode,
         EntrySet(Chart, {l}, X, {i}) # {}
  PROVE  \E k \in Leaf(Chart) :
           /\ EntrySet(Chart, {l}, X, {i}) \cap Leaf(Chart) = {k}
           /\ EntrySet(Chart, {l}, X, {i}) \subseteq AncSelf(Chart, k)
           /\ AncSelf(Chart, l) \ ExitSet(Chart, {l}, {i}) \subseteq AncSelf(Chart, k)
           /\ TargetsNear(Chart) =>
                AncSelf(Chart, k) \subseteq AncSelf(Chart, l) \cup EntrySet(Chart, {l}, X, {i})
           /\ TargetsNear(Chart) /\ TargetsBeside(Chart) /\ X = ExitSet(Chart, {l}, {i}) =>
                AncSelf(Chart, k) \subseteq (AncSelf(Chart, l) \ X) \cup EntrySet(Chart, {l}, X, {i})
<1> DEFINE src == Chart.trans[i].src
           tgt == Chart.trans[i].target
           N == EntrySet(Chart, {l}, X, {i})
<1>1. tgt \in Chart.nodes /\ src \in Chart.nodes /\ l \in Chart.nodes
  BY ChartAssumption DEF IsChart, Leaf
<1>2. EntrySet(Chart, {l}, X, {i}) = ExpandTarget(Chart, {l}, X, tgt)
  BY DEF EntrySet
<1>3. PICK ent \in Chart.nodes : EntersAt(ent, l, X, tgt)
  <2>1. ExpandTarget(Chart, {l}, X, tgt) # {}
    BY <1>2
  <2> HIDE DEF tgt, N
  <2>2. QED
    BY <1>1, <2>1, OneRoot
<1>4. PICK k \in Leaf(Chart) :
        /\ Expand(Chart, ent) \cap Leaf(Chart) = {k}
        /\ ent \in AncSelf(Chart, k)
        /\ \A m \in Expand(Chart, ent) : m \in AncSelf(Chart, k)
  BY <1>3, ExpandIsChain DEF EntersAt
<1>5. Kept(i) \subseteq AncSelf(Chart, l) /\ Kept(i) \subseteq Chart.anc[tgt]
  BY <1>1, ExitedStates
<1>6. ExitSet(Chart, {l}, {i}) = AncSelf(Chart, l) \ Kept(i)
  BY <1>1, ExitedStates
<1>7. k \in Chart.nodes /\ AncSelf(Chart, ent) \subseteq AncSelf(Chart, k)
  BY <1>4, AncestorChain DEF Leaf
<1>8. Kept(i) \subseteq AncSelf(Chart, ent)
  BY <1>3, <1>5 DEF EntersAt
<1>9. AncSelf(Chart, k) \subseteq Chart.anc[ent] \cup N
  BY <1>2, <1>3, <1>4, ExpandReaches DEF EntersAt
<1>10. ASSUME TargetsNear(Chart) PROVE AncSelf(Chart, k) \subseteq AncSelf(Chart, l) \cup N
  <2>1. Chart.anc[tgt] \subseteq AncSelf(Chart, src)
    BY <1>10 DEF TargetsNear
  <2>2. AncSelf(Chart, src) \subseteq AncSelf(Chart, l)
    BY <1>1, AncestorChain
  <2>3. Chart.anc[ent] \subseteq AncSelf(Chart, l)
    BY <1>3, <1>10, <2>1, <2>2 DEF EntersAt, AncSelf
  <2>4. QED
    BY <1>9, <2>3
<1>11. ASSUME TargetsNear(Chart), TargetsBeside(Chart), X = ExitSet(Chart, {l}, {i})
       PROVE  AncSelf(Chart, k) \subseteq (AncSelf(Chart, l) \ X) \cup N
  <2>1. Recorded(Chart, {l}, X, tgt) = {}
    BY <1>1, <1>11, NothingRecorded
  <2>2. Chart.anc[ent] = Kept(i)
    BY <1>1, <1>3, <1>11, <2>1, ExitedStates DEF EntersAt
  <2>3. QED
    BY <1>5, <1>6, <1>9, <1>11, <2>2
<1>12. QED
  BY <1>2, <1>3, <1>4, <1>6, <1>7, <1>8, <1>10, <1>11 DEF EntersAt

\* Cancelling removes the rows of the states left, and adds none.
LEMMA CancelKeeps ==
  ASSUME NEW timers, NEW X, NEW r \in Cancel(Chart, timers, X)
  PROVE  r \in timers /\ \A n \in X : Chart.id[n] # r.id
  BY DEF Cancel, LikeIdsOf, IdsOf

\* Arming adds rows of the states entered only.
LEMMA ArmAdds ==
  ASSUME NEW timers, NEW N, NEW tick, NEW r \in Arm(Chart, timers, N, tick), r \notin timers
  PROVE  \E n \in N : Chart.id[n] = r.id
<1>1. PICK n \in N : r \in {Row(Chart, timers, n, d, tick) : d \in AfterDelays(Chart, n)}
  BY DEF Arm
<1>2. PICK d \in AfterDelays(Chart, n) : r = Row(Chart, timers, n, d, tick)
  BY <1>1
<1>3. Row(Chart, timers, n, d, tick).id = Chart.id[n]
  BY DEF Row
<1>4. QED
  BY <1>2, <1>3

\* Every state entered gets its rows.
LEMMA ArmsAll ==
  ASSUME NEW m, NEW timers, NEW N, NEW tick, m.timers = Arm(Chart, timers, N, tick), NEW n \in N
  PROVE  Armed(m, n)
<1> SUFFICES ASSUME NEW d \in AfterDelays(Chart, n)
             PROVE  \E r \in m.timers : r.id = Chart.id[n] /\ r.delay = d
  BY DEF Armed
<1>1. Row(Chart, timers, n, d, tick) \in m.timers
  BY DEF Arm
<1>2. Row(Chart, timers, n, d, tick).id = Chart.id[n] /\ Row(Chart, timers, n, d, tick).delay = d
  BY DEF Row
<1>3. QED
  BY <1>1, <1>2

\* What one microstep leaves of a machine resting in l rests in some leaf.
LEMMA ResultsRest ==
  ASSUME Sequential, NEW m, NEW l, RestsIn(m, l),
         NEW e, NEW s \in Microsteps(Chart, {l}, e), NEW m2 \in Results(Chart, m, s, 0)
  PROVE  \E k \in Leaf(Chart) : RestsIn(m2, k) /\ ArmedSince(m2, k, l)
<1>1. l \in Leaf(Chart) /\ l \in Chart.nodes
  BY DEF RestsIn, Leaf
<1>2. CASE s.sel = {}
  BY <1>1, <1>2 DEF Results, ArmedSince
<1>3. ASSUME m2.cfg = m.cfg, Chart.failEntry = {} => m2.timers \subseteq m.timers,
             EntersWhole => SetUp(m2, l)
      PROVE  \E k \in Leaf(Chart) : RestsIn(m2, k) /\ ArmedSince(m2, k, l)
  BY <1>1, <1>3 DEF RestsIn, ArmedSince
<1>4. CASE s.sel # {}
  <2>1. PICK i \in 1..Len(Chart.trans) : s.sel = {i} /\ Chart.trans[i].src \in AncSelf(Chart, l)
    BY <1>1, <1>4, OneTransition
  <2>2. s.exit = ExitSet(Chart, {l}, {i}) /\ s.entry = EntrySet(Chart, {l}, s.exit, {i})
    <3>1. /\ s.exit = ExitSet(Chart, {l}, s.sel)
          /\ s.entry = EntrySet(Chart, {l}, ExitSet(Chart, {l}, s.sel), s.sel)
      BY <1>1, OneTransition
    <3>2. QED
      BY <3>1, <2>1
  <2>3. m2 \in {Moved(Chart, m, s.exit, s.entry, 0)} \cup ExitFailed(Chart, m, s.exit)
                 \cup ActionFailed(Chart, m, s.exit, s.sel)
                 \cup EntryFailed(Chart, m, s.exit, s.entry, 0)
    BY <1>4 DEF Results
  <2>4. s.exit \subseteq AncSelf(Chart, l)
    BY <2>2 DEF ExitSet
  <2>5. AncSelf(Chart, l) \subseteq Calm(Chart) =>
           s.exit \cap Chart.failExit = {} /\ s.sel \cap Chart.failAct = {}
    BY <1>1, <2>1, <2>4 DEF Calm, AncSelf
  <2>6. \A Y : Left(Chart, m, Y).cfg = m.cfg /\ Left(Chart, m, Y).timers = Cancel(Chart, m.timers, Y)
    BY DEF Left
  <2>7. CASE m2 \in ExitFailed(Chart, m, s.exit)
    <3>1. PICK n \in s.exit \cap Chart.failExit :
            m2 \in {[cfg |-> m.cfg, timers |-> Cancel(Chart, m.timers, P \cup {n}),
                     entered |-> m.entered \ P] : P \in {Q \in SUBSET s.exit : Deeper(Chart, s.exit, n, Q)}}
      BY <2>7 DEF ExitFailed
    <3>2. PICK P \in SUBSET s.exit :
            m2 = [cfg |-> m.cfg, timers |-> Cancel(Chart, m.timers, P \cup {n}), entered |-> m.entered \ P]
      BY <3>1
    <3>3. m2.cfg = m.cfg /\ m2.timers = Cancel(Chart, m.timers, P \cup {n})
      BY <3>2
    <3>4. m2.timers \subseteq m.timers
      BY <3>3, CancelKeeps
    <3>5. m2.entered = m.entered \ P
      BY <3>2
    <3>6. EntersWhole => SetUp(m2, l)
      BY <2>5, <3>1, <3>5 DEF RestsIn, SetUp
    <3>7. QED
      BY <3>3, <3>4, <3>6, <1>1, <1>3
  <2>8. CASE m2 \in ActionFailed(Chart, m, s.exit, s.sel)
    <3>1. m2 = Left(Chart, m, s.exit)
      BY <2>8 DEF ActionFailed
    <3>2. m2.cfg = m.cfg /\ m2.timers \subseteq m.timers
      BY <3>1, <2>6, CancelKeeps
    <3>3. m2.entered = m.entered \ s.exit /\ s.sel \cap Chart.failAct # {}
      BY <2>8, <3>1 DEF ActionFailed, Left
    <3>4. EntersWhole => SetUp(m2, l)
      BY <2>5, <3>3 DEF RestsIn, SetUp
    <3>5. QED
      BY <3>2, <3>4, <1>1, <1>3
  <2>9. CASE m2 \in EntryFailed(Chart, m, s.exit, s.entry, 0)
    <3>1. Chart.failEntry # {}
      BY <2>9 DEF EntryFailed
    <3>2. PICK n \in s.entry \cap Chart.failEntry :
            m2 \in {Joined(Chart, Left(Chart, m, s.exit), P, 0) :
                      P \in {Q \in SUBSET s.entry : Shallower(Chart, s.entry, n, Q)}}
      BY <2>9 DEF EntryFailed
    <3>3. PICK P \in SUBSET s.entry : m2 = Joined(Chart, Left(Chart, m, s.exit), P, 0)
      BY <3>2
    <3>4. m2.cfg = m.cfg
      BY <3>3, <2>6 DEF Joined
    <3>5. QED
      BY <3>1, <3>4, <1>1, <1>3 DEF EntersWhole
  <2>10. CASE m2 = Moved(Chart, m, s.exit, s.entry, 0)
    <3> DEFINE kept == Cancel(Chart, m.timers, s.exit)
    <3>1. /\ m2.cfg = NewCfg(Chart, m.cfg, s.entry)
          /\ m2.timers = Arm(Chart, kept, s.entry, 0)
          /\ m2.entered = (m.entered \ s.exit) \cup s.entry
      BY <2>10, <2>6 DEF Moved, Joined, Left
    <3>2. Chart.failEntry = {} =>
            \A r \in kept : \E n \in AncSelf(Chart, l) \ s.exit : Chart.id[n] = r.id
      BY CancelKeeps DEF RestsIn
    <3>3. \A r \in m2.timers \ kept : \E n \in s.entry : Chart.id[n] = r.id
      BY <3>1, ArmAdds
    <3> HIDE DEF kept
    <3>4. CASE s.entry = {}
      <4>1. ASSUME EntersWhole PROVE s.exit = {}
        <5>1. Chart.trans[i].target = NoNode
          BY <1>1, <2>2, <3>4, <4>1, LeadsSomewhere DEF EntersWhole
        <5>2. QED
          BY <2>2, <5>1 DEF ExitSet
      <4>2. EntersWhole => SetUp(m2, l)
        BY <3>1, <3>4, <4>1 DEF RestsIn, SetUp
      <4>3. m2.cfg = m.cfg
        BY <3>1, <3>4 DEF NewCfg
      <4>4. Chart.failEntry = {} => \A r \in m2.timers : \E n \in AncSelf(Chart, l) : Chart.id[n] = r.id
        BY <3>2, <3>3, <3>4
      <4>5. RestsIn(m2, l)
        BY <1>1, <4>2, <4>3, <4>4 DEF RestsIn
      <4>6. QED
        BY <1>1, <4>5 DEF ArmedSince
    <3>5. CASE s.entry # {}
      <4>1. Chart.trans[i].target # NoNode
        BY <2>2, <3>5 DEF EntrySet
      <4>2. PICK k \in Leaf(Chart) :
              /\ s.entry \cap Leaf(Chart) = {k}
              /\ s.entry \subseteq AncSelf(Chart, k)
              /\ AncSelf(Chart, l) \ s.exit \subseteq AncSelf(Chart, k)
              /\ TargetsNear(Chart) => AncSelf(Chart, k) \subseteq AncSelf(Chart, l) \cup s.entry
              /\ EntersWhole => AncSelf(Chart, k) \subseteq (AncSelf(Chart, l) \ s.exit) \cup s.entry
        <5> DEFINE N == EntrySet(Chart, {l}, s.exit, {i})
        <5>1. N # {}
          BY <2>2, <3>5
        <5>2. \E k \in Leaf(Chart) :
                /\ N \cap Leaf(Chart) = {k}
                /\ N \subseteq AncSelf(Chart, k)
                /\ AncSelf(Chart, l) \ ExitSet(Chart, {l}, {i}) \subseteq AncSelf(Chart, k)
                /\ TargetsNear(Chart) => AncSelf(Chart, k) \subseteq AncSelf(Chart, l) \cup N
                /\ TargetsNear(Chart) /\ TargetsBeside(Chart) /\ s.exit = ExitSet(Chart, {l}, {i}) =>
                     AncSelf(Chart, k) \subseteq (AncSelf(Chart, l) \ s.exit) \cup N
          BY <1>1, <2>1, <4>1, <5>1, TargetedStep
        <5>3. QED
          BY <5>2, <2>2 DEF EntersWhole
      <4>3. m2.cfg = {Chart.id[k]}
        BY <3>1, <3>5, <4>2 DEF NewCfg, IdsOf
      <4>4. Chart.failEntry = {} =>
              \A r \in m2.timers : \E n \in AncSelf(Chart, k) : Chart.id[n] = r.id
        BY <3>2, <3>3, <4>2
      <4>5. k \in Chart.nodes
        BY DEF Leaf
      <4>6. ASSUME EntersWhole PROVE SetUp(m2, k)
        <5>1. m.entered \subseteq AncSelf(Chart, l)
          BY <4>6 DEF RestsIn, SetUp
        <5>2. m2.entered \subseteq AncSelf(Chart, k)
          BY <3>1, <4>2, <5>1
        <5>3. CASE AncSelf(Chart, l) \ s.exit = {}
          BY <3>1, <4>2, <4>6, <5>2, <5>3 DEF SetUp
        <5>4. ASSUME AncSelf(Chart, l) \ s.exit # {}, AncSelf(Chart, k) \subseteq Calm(Chart)
              PROVE  m2.entered = AncSelf(Chart, k)
          <6>1. PICK x \in AncSelf(Chart, l) : x \in AncSelf(Chart, k)
            BY <4>2, <5>4
          <6>2. AncSelf(Chart, l) \subseteq Calm(Chart)
            BY <1>1, <4>5, <5>4, <6>1, CalmSpreads
          <6>3. m.entered = AncSelf(Chart, l)
            BY <4>6, <6>2 DEF RestsIn, SetUp
          <6>4. QED
            BY <3>1, <4>2, <4>6, <5>2, <6>3
        <5>5. QED
          BY <5>2, <5>3, <5>4 DEF SetUp
      <4>7. ASSUME TargetsNear(Chart), NEW n \in AncSelf(Chart, k) \ AncSelf(Chart, l)
            PROVE  Armed(m2, n)
        <5>1. n \in s.entry
          BY <4>2, <4>7
        <5>2. QED
          BY <3>1, <5>1, ArmsAll
      <4>8. QED
        BY <4>2, <4>3, <4>4, <4>6, <4>7 DEF RestsIn, ArmedSince
    <3>6. QED
      BY <3>4, <3>5
  <2>11. QED
    BY <2>3, <2>7, <2>8, <2>9, <2>10
<1>5. QED
  BY <1>2, <1>4

\* The stored configuration of a machine resting in l is read back as l.
LEMMA RestingAtom ==
  ASSUME Sequential, NEW m, NEW l, RestsIn(m, l)
  PROVE  Resolve(Chart, m.cfg) = {l}
<1>1. l \in Chart.nodes /\ Chart.found[Chart.id[l]] = l /\ Chart.id[l] \in DOMAIN Chart.found
  BY ChartAssumption DEF RestsIn, Leaf, Sequential, UniqueIds, IsChart
<1>2. QED
  BY <1>1 DEF RestsIn, Resolve

\* An event delivered to a machine resting in a leaf leaves it resting in one.
LEMMA SendEventRests ==
  ASSUME Sequential, NEW m, NEW l, RestsIn(m, l), NEW e, NEW m2 \in SendEvent(Chart, m, e, 0)
  PROVE  \E k \in Leaf(Chart) : RestsIn(m2, k) /\ ArmedSince(m2, k, l)
<1>1. PICK s \in Microsteps(Chart, Resolve(Chart, m.cfg), e) : m2 \in Results(Chart, m, s, 0)
  BY DEF SendEvent
<1>2. s \in Microsteps(Chart, {l}, e)
  BY <1>1, RestingAtom
<1>3. QED
  BY <1>1, <1>2, ResultsRest

\* Starting the machine enters one chain of states from its initial one.
LEMMA StartRests ==
  ASSUME Sequential, NEW m, m = NotStarted
  PROVE  \E k \in Leaf(Chart) :
           /\ RestsIn(StartAgent(Chart, m, 0), k)
           /\ \A n \in AncSelf(Chart, k) : Armed(StartAgent(Chart, m, 0), n)
<1> DEFINE N == Expand(Chart, Chart.start)
           m2 == StartAgent(Chart, m, 0)
<1>1. Chart.start \in Chart.nodes /\ Chart.type[Chart.start] # "history"
  BY ChartAssumption DEF IsChart
<1>2. PICK k \in Leaf(Chart) :
        /\ N \cap Leaf(Chart) = {k}
        /\ \A n \in N : n \in AncSelf(Chart, k)
  BY <1>1, ExpandIsChain
<1>3. N = AncSelf(Chart, k)
  <2>1. k \in N
    BY <1>2
  <2>2. AncSelf(Chart, k) \subseteq Chart.anc[Chart.start] \cup N
    BY <1>1, <2>1, ExpandReaches
  <2>3. Chart.anc[Chart.start] = {}
    BY ChartAssumption DEF IsChart
  <2>4. QED
    BY <1>2, <2>2, <2>3
<1>4. m.timers = {} /\ Cancel(Chart, m.timers, {}) = {}
  BY DEF NotStarted, Cancel
<1>5. m2.cfg = NewCfg(Chart, m.cfg, N) /\ m2.timers = Arm(Chart, {}, N, 0) /\ m2.entered = N
  BY <1>4 DEF StartAgent, Moved, Joined, Left, NotStarted
<1> HIDE DEF m2, N
<1>6. m2.cfg = {Chart.id[k]}
  BY <1>2, <1>5 DEF NewCfg, IdsOf
<1>7. \A r \in m2.timers : \E n \in AncSelf(Chart, k) : Chart.id[n] = r.id
  BY <1>2, <1>5, ArmAdds
<1>8. SetUp(m2, k)
  BY <1>5, <1>3 DEF SetUp
<1>9. \A n \in AncSelf(Chart, k) : Armed(m2, n)
  BY <1>5, <1>3, ArmsAll
<1>10. RestsIn(m2, k)
  BY <1>2, <1>6, <1>7, <1>8 DEF RestsIn
<1>11. QED
  BY <1>9, <1>10 DEF m2

-----------------------------------------------------------------------------
(* The invariant *)

LEMMA IInvInit == Init => IInv
  BY DEF Init, IInv

LEMMA IInvStep == Sequential /\ IInv /\ [Next]_vars => IInv'
<1> SUFFICES ASSUME Sequential, IInv, [Next]_vars PROVE IInv'
  OBVIOUS
<1>1. CASE Start
  <2>1. machine = NotStarted /\ started' = TRUE /\ machine' = StartAgent(Chart, machine, 0)
    BY <1>1 DEF Start, IInv
  <2>2. QED
    BY <2>1, StartRests DEF IInv
<1>2. ASSUME NEW name \in OnEvents, Deliver(name) PROVE IInv'
  <2>1. /\ started /\ started' = started
        /\ machine' \in SendEvent(Chart, machine, OnEvent(name), 0)
    BY <1>2 DEF Deliver
  <2>2. PICK l \in Leaf(Chart) : RestsIn(machine, l)
    BY <2>1 DEF IInv
  <2>3. QED
    BY <2>1, <2>2, SendEventRests DEF IInv
<1>3. ASSUME NEW row \in machine.timers, Fire(row) PROVE IInv'
  <2> DEFINE m == WithTimers(machine, machine.timers \ {row})
  <2>1. started /\ started' = started
    BY <1>3 DEF Fire, IInv, NotStarted
  <2>2. PICK l \in Leaf(Chart) : RestsIn(machine, l)
    BY <2>1 DEF IInv
  <2>3. RestsIn(m, l)
    BY <2>2 DEF RestsIn, SetUp, WithTimers
  <2>4. machine' \in SendEvent(Chart, m, AfterEvent(row), 0)
    BY <1>3 DEF Fire
  <2>5. QED
    BY <2>1, <2>3, <2>4, SendEventRests DEF IInv
<1>4. CASE Advance
  <2>1. /\ started /\ started' = started
        /\ machine' = WithTimers(machine, {Sooner(r) : r \in machine.timers})
    BY <1>4 DEF Advance
  <2>2. PICK l \in Leaf(Chart) : RestsIn(machine, l)
    BY <2>1 DEF IInv
  <2>3. RestsIn(machine', l)
    BY <2>1, <2>2 DEF RestsIn, SetUp, WithTimers, Sooner
  <2>4. QED
    BY <2>1, <2>2, <2>3 DEF IInv
<1>5. CASE UNCHANGED vars
  BY <1>5 DEF vars, IInv
<1>6. QED
  BY <1>1, <1>2, <1>3, <1>4, <1>5 DEF Next

-----------------------------------------------------------------------------
(* Types, for every chart *)

\* What a microstep enters are nodes of the chart.
LEMMA EntryIsNodes ==
  ASSUME NEW atoms, NEW e, NEW s \in Microsteps(Chart, atoms, e)
  PROVE  s.entry \subseteq Chart.nodes
<1>1. PICK g \in SUBSET Guarded(Chart, atoms, e) : \E sel \in Selections(Chart, atoms, e, g) :
        s = [sel |-> sel, exit |-> ExitSet(Chart, atoms, sel),
             entry |-> EntrySet(Chart, atoms, ExitSet(Chart, atoms, sel), sel)]
  BY DEF Microsteps
<1>2. PICK sel, X : s.entry = EntrySet(Chart, atoms, X, sel)
  BY <1>1
<1>3. \A n : Expand(Chart, n) \subseteq Chart.nodes
  BY DEF Expand
<1>4. \A n : ExpandTarget(Chart, atoms, X, n) \subseteq Chart.nodes
  BY <1>3 DEF ExpandTarget
<1>5. QED
  BY <1>2, <1>4 DEF EntrySet

\* Arming for nodes of the chart adds well-formed rows to well-formed rows.
LEMMA ArmTypes ==
  ASSUME NEW timers, \A r \in timers : RowOK(r), NEW N \in SUBSET Chart.nodes,
         NEW r \in Arm(Chart, timers, N, 0)
  PROVE  RowOK(r)
<1>1. CASE r \in timers
  BY <1>1
<1>2. CASE r \notin timers
  <2>1. PICK n \in N : r \in {Row(Chart, timers, n, d, 0) : d \in AfterDelays(Chart, n)}
    BY <1>2 DEF Arm
  <2>2. PICK d \in AfterDelays(Chart, n) : r = Row(Chart, timers, n, d, 0)
    BY <2>1
  <2>3. d \in Delays /\ d \in Int
    BY <2>2, ChartAssumption DEF AfterDelays, Delays, IsChart
  <2>4. r.id \in Ids /\ r.delay = d /\ r.due = 0 + d
    BY <2>2 DEF Row, Ids
  <2>5. DOMAIN r = {"id", "delay", "due", "copy"}
    BY <2>2 DEF Row
  <2>6. QED
    BY <2>3, <2>4, <2>5 DEF RowOK
<1>3. QED
  BY <1>1, <1>2

\* Leaving and joining states keep a machine well-formed.
LEMMA MovingTypes ==
  ASSUME NEW m, MachineOK(m), NEW X, NEW N \in SUBSET Chart.nodes
  PROVE  /\ MachineOK(Left(Chart, m, X))
         /\ MachineOK(Joined(Chart, m, N, 0))
         /\ MachineOK(Moved(Chart, m, X, N, 0))
<1>1. ASSUME NEW k, MachineOK(k) PROVE MachineOK(Joined(Chart, k, N, 0))
  <2>1. \A r \in Arm(Chart, k.timers, N, 0) : RowOK(r)
    BY <1>1, ArmTypes DEF MachineOK
  <2>2. QED
    BY <1>1, <2>1 DEF MachineOK, Joined
<1>2. MachineOK(Left(Chart, m, X))
  BY CancelKeeps DEF MachineOK, Left
<1>3. NewCfg(Chart, m.cfg, N) \subseteq Ids
  BY DEF NewCfg, IdsOf, Ids, MachineOK
<1>4. MachineOK(Moved(Chart, m, X, N, 0))
  BY <1>1, <1>2, <1>3 DEF MachineOK, Moved
<1>5. QED
  BY <1>1, <1>2, <1>4

LEMMA SendEventTypes ==
  ASSUME NEW m, MachineOK(m), NEW e, NEW m2 \in SendEvent(Chart, m, e, 0)
  PROVE  MachineOK(m2)
<1>1. PICK s \in Microsteps(Chart, Resolve(Chart, m.cfg), e) : m2 \in Results(Chart, m, s, 0)
  BY DEF SendEvent
<1>2. s.entry \in SUBSET Chart.nodes
  BY <1>1, EntryIsNodes
<1>3. CASE m2 = m
  BY <1>3
<1>4. CASE m2 = Moved(Chart, m, s.exit, s.entry, 0)
  BY <1>2, <1>4, MovingTypes
<1>5. CASE m2 \in ExitFailed(Chart, m, s.exit)
  <2>1. PICK n \in s.exit \cap Chart.failExit :
          m2 \in {[cfg |-> m.cfg, timers |-> Cancel(Chart, m.timers, P \cup {n}),
                   entered |-> m.entered \ P] : P \in {Q \in SUBSET s.exit : Deeper(Chart, s.exit, n, Q)}}
    BY <1>5 DEF ExitFailed
  <2>2. PICK P \in SUBSET s.exit :
          m2 = [cfg |-> m.cfg, timers |-> Cancel(Chart, m.timers, P \cup {n}), entered |-> m.entered \ P]
    BY <2>1
  <2>3. QED
    BY <2>2, CancelKeeps DEF MachineOK
<1>6. CASE m2 \in ActionFailed(Chart, m, s.exit, s.sel)
  BY <1>2, <1>6, MovingTypes DEF ActionFailed
<1>7. CASE m2 \in EntryFailed(Chart, m, s.exit, s.entry, 0)
  <2>1. PICK n \in s.entry \cap Chart.failEntry :
          m2 \in {Joined(Chart, Left(Chart, m, s.exit), P, 0) :
                    P \in {Q \in SUBSET s.entry : Shallower(Chart, s.entry, n, Q)}}
    BY <1>7 DEF EntryFailed
  <2>2. PICK P \in SUBSET s.entry : m2 = Joined(Chart, Left(Chart, m, s.exit), P, 0)
    BY <2>1
  <2>3. MachineOK(Left(Chart, m, s.exit)) /\ P \in SUBSET Chart.nodes
    BY <1>2, MovingTypes
  <2>4. QED
    BY <2>2, <2>3, MovingTypes
<1>8. QED
  BY <1>1, <1>3, <1>4, <1>5, <1>6, <1>7 DEF Results

LEMMA TypeStep == TypeOK /\ [Next]_vars => TypeOK'
<1> SUFFICES ASSUME TypeOK, [Next]_vars PROVE TypeOK'
  OBVIOUS
<1>1. CASE Start
  <2>1. Expand(Chart, Chart.start) \in SUBSET Chart.nodes
    BY DEF Expand
  <2>2. QED
    BY <1>1, <2>1, MovingTypes DEF Start, StartAgent, TypeOK
<1>2. ASSUME NEW name \in OnEvents, Deliver(name) PROVE TypeOK'
  BY <1>2, SendEventTypes DEF Deliver, TypeOK
<1>3. ASSUME NEW row \in machine.timers, Fire(row) PROVE TypeOK'
  <2>1. MachineOK(WithTimers(machine, machine.timers \ {row}))
    BY DEF WithTimers, TypeOK, MachineOK
  <2>2. QED
    BY <1>3, <2>1, SendEventTypes DEF Fire, TypeOK
<1>4. CASE Advance
  <2>1. \A r \in machine.timers : RowOK(Sooner(r))
    BY DEF TypeOK, MachineOK, RowOK, Sooner
  <2>2. MachineOK(WithTimers(machine, {Sooner(r) : r \in machine.timers}))
    BY <2>1 DEF WithTimers, TypeOK, MachineOK
  <2>3. QED
    BY <1>4, <2>2 DEF Advance, TypeOK
<1>5. CASE UNCHANGED vars
  BY <1>5 DEF vars, TypeOK
<1>6. QED
  BY <1>1, <1>2, <1>3, <1>4, <1>5 DEF Next

-----------------------------------------------------------------------------
(* The theorems *)

\* No handler leaves the entity an id, a timer row or an entered state that its
\* chart does not have: for every chart, whichever actions fail.
THEOREM TypeCorrect == Spec => []TypeOK
<1>1. Init => TypeOK
  <2> SUFFICES ASSUME Init PROVE TypeOK
    OBVIOUS
  <2>1. machine = [cfg |-> {}, timers |-> {}, entered |-> {}] /\ started = FALSE
    BY DEF Init, NotStarted
  <2>2. QED
    BY <2>1 DEF TypeOK, MachineOK
<1>2. QED
  BY <1>1, TypeStep, PTL DEF Spec

LEMMA Resting == ASSUME Sequential PROVE Spec => []IInv
<1>1. IInv /\ [Next]_vars => IInv'
  BY IInvStep
<1>2. QED
  BY <1>1, IInvInit, PTL DEF Spec

\* A machine without parallel states, once started, is in exactly one leaf,
\* whichever of its actions fail (SendEvent and StartAgent).
THEOREM AlwaysOneLeaf == ASSUME Sequential PROVE Spec => []OneLeaf
<1>1. IInv => OneLeaf
  BY FS_Singleton DEF IInv, RestsIn, OneLeaf
<1>2. QED
  BY <1>1, Resting, PTL

\* What is active: the leaf the machine rests in and all around it, or nothing.
LEMMA ActiveChain ==
  ASSUME Sequential, IInv
  PROVE  \/ ~started /\ machine = NotStarted /\ Atoms = {} /\ Now = {}
         \/ \E l \in Leaf(Chart) : RestsIn(machine, l) /\ Atoms = {l} /\ Now = AncSelf(Chart, l)
<1>1. CASE ~started
  <2>1. machine = NotStarted /\ machine.cfg = {}
    BY <1>1 DEF IInv, NotStarted
  <2>2. Atoms = {}
    BY <2>1 DEF Atoms, Resolve
  <2>3. QED
    BY <1>1, <2>1, <2>2 DEF Now, Active
<1>2. CASE started
  <2>1. PICK l \in Leaf(Chart) : RestsIn(machine, l)
    BY <1>2 DEF IInv
  <2>2. Atoms = {l}
    BY <2>1, RestingAtom DEF Atoms
  <2>3. QED
    BY <2>1, <2>2 DEF Now, Active
<1>3. QED
  BY <1>1, <1>2

\* One chain of states is legal.
LEMMA ChainIsLegal ==
  ASSUME Sequential, NEW l \in Leaf(Chart), Now = AncSelf(Chart, l)
  PROVE  LegalConfiguration
<1>1. l \in Chart.nodes /\ Now \subseteq Chart.nodes
  BY AncestorChain DEF Leaf
<1>2. Cardinality({n \in Now : Chart.anc[n] = {}}) = 1
  BY <1>1, OneTop, FS_Singleton
<1>3. ASSUME NEW p \in Now, Chart.type[p] \in {"parallel", "compound"}
      PROVE  \E k \in Now : {j \in Now : ChildOf(Chart, j, p)} = {k}
  <2>1. p \in Chart.anc[l]
    BY <1>3 DEF Leaf, AncSelf
  <2>2. QED
    BY <1>1, <2>1, ChildToward
<1>4. ASSUME NEW p \in Now, Chart.type[p] = "parallel"
      PROVE  {j \in Now : ChildOf(Chart, j, p)} = {j \in Chart.nodes : ChildOf(Chart, j, p)}
  <2>1. PICK k \in Now : {j \in Now : ChildOf(Chart, j, p)} = {k}
    BY <1>3, <1>4
  <2>2. \A j \in Chart.nodes : ChildOf(Chart, j, p) => j = k
    BY <1>1, <1>4, <2>1, OneRegion DEF Sequential
  <2>3. QED
    BY <1>1, <2>1, <2>2
<1>5. ASSUME NEW p \in Now, Chart.type[p] = "compound"
      PROVE  Cardinality({j \in Now : ChildOf(Chart, j, p)}) = 1
  BY <1>3, <1>5, FS_Singleton
<1>6. QED
  BY <1>2, <1>4, <1>5 DEF LegalConfiguration

\* What is active is one root state, below each compound state one child of it, and
\* nothing else: no order of events, timers and failing actions leaves a state active
\* without its parent or beside its sibling.
THEOREM AlwaysLegal == ASSUME Sequential PROVE Spec => []LegalConfiguration
<1>1. IInv => LegalConfiguration
  <2> SUFFICES ASSUME IInv PROVE LegalConfiguration
    OBVIOUS
  <2>1. CASE ~started /\ Now = {}
    BY <2>1 DEF LegalConfiguration
  <2>2. QED
    BY <2>1, ActiveChain, ChainIsLegal
<1>2. QED
  BY <1>1, Resting, PTL

\* If besides no entry action of it can fail, a pending event_queue row always
\* belongs to an active state: leaving a state has cancelled its timers, even
\* when the microstep that left it stopped at an exit or transition action.
THEOREM TimersFollow ==
  ASSUME Sequential, Chart.failEntry = {} PROVE Spec => []TimersFollowStates
<1>1. IInv => TimersFollowStates
  <2> SUFFICES ASSUME IInv, NEW r \in machine.timers
               PROVE  \E n \in Now : Chart.id[n] = r.id
    BY DEF TimersFollowStates
  <2>1. PICK l \in Leaf(Chart) : RestsIn(machine, l)
    BY DEF IInv, NotStarted
  <2>2. Atoms = {l}
    BY <2>1, RestingAtom DEF Atoms
  <2>3. Now = AncSelf(Chart, l)
    BY <2>2 DEF Now, Active
  <2>4. QED
    BY <2>1, <2>3 DEF RestsIn
<1>2. QED
  BY <1>1, Resting, PTL

\* If besides every target is entered with all that is around it, what entry actions
\* have set up is that of active states, and of every active state where no action
\* can fail.
THEOREM EnteredFollow ==
  ASSUME Sequential, EntersWhole PROVE Spec => []EnteredAreActive
<1>1. IInv => EnteredAreActive
  BY ActiveChain DEF RestsIn, SetUp, EnteredAreActive
<1>2. QED
  BY <1>1, Resting, PTL

LEMMA RestingChain ==
  ASSUME Sequential, NEW m, NEW l, RestsIn(m, l)
  PROVE  Active(Chart, Resolve(Chart, m.cfg)) = AncSelf(Chart, l)
<1>1. Resolve(Chart, m.cfg) = {l}
  BY RestingAtom
<1>2. QED
  BY <1>1 DEF Active

LEMMA ArmingStep ==
  ASSUME Sequential, TargetsNear(Chart), IInv, Next, NEW n \in Now', n \notin Now
  PROVE  Armed(machine', n)
<1>1. Now = Active(Chart, Resolve(Chart, machine.cfg)) /\ Now' = Active(Chart, Resolve(Chart, machine'.cfg))
  BY DEF Now, Atoms
<1>2. ASSUME NEW k, RestsIn(machine', k) PROVE n \in AncSelf(Chart, k)
  BY <1>1, <1>2, RestingChain
<1>3. ASSUME NEW l, RestsIn(machine, l) PROVE n \notin AncSelf(Chart, l)
  BY <1>1, <1>3, RestingChain
<1>4. ASSUME NEW l, RestsIn(machine, l), NEW k, RestsIn(machine', k), ArmedSince(machine', k, l)
      PROVE  Armed(machine', n)
  BY <1>2, <1>3, <1>4 DEF ArmedSince
<1>5. CASE Start
  <2>1. machine = NotStarted /\ machine' = StartAgent(Chart, machine, 0)
    BY <1>5 DEF Start, IInv
  <2>2. PICK k \in Leaf(Chart) : RestsIn(machine', k) /\ \A j \in AncSelf(Chart, k) : Armed(machine', j)
    BY <2>1, StartRests
  <2>3. QED
    BY <1>2, <2>2
<1>6. ASSUME NEW name \in OnEvents, Deliver(name) PROVE Armed(machine', n)
  <2>1. started /\ machine' \in SendEvent(Chart, machine, OnEvent(name), 0)
    BY <1>6 DEF Deliver
  <2>2. PICK l \in Leaf(Chart) : RestsIn(machine, l)
    BY <2>1 DEF IInv
  <2>3. QED
    BY <1>4, <2>1, <2>2, SendEventRests
<1>7. ASSUME NEW row \in machine.timers, Fire(row) PROVE Armed(machine', n)
  <2> DEFINE m == WithTimers(machine, machine.timers \ {row})
  <2>1. PICK l \in Leaf(Chart) : RestsIn(machine, l)
    BY <1>7 DEF IInv, NotStarted
  <2>2. RestsIn(m, l)
    BY <2>1 DEF RestsIn, SetUp, WithTimers
  <2>3. machine' \in SendEvent(Chart, m, AfterEvent(row), 0)
    BY <1>7 DEF Fire
  <2> HIDE DEF m
  <2>4. QED
    BY <1>4, <2>1, <2>2, <2>3, SendEventRests
<1>8. CASE Advance
  <2>1. machine'.cfg = machine.cfg
    BY <1>8 DEF Advance, WithTimers
  <2>2. QED
    BY <1>1, <2>1
<1>9. QED
  BY <1>5, <1>6, <1>7, <1>8 DEF Next

\* With near targets, a state that becomes active has a row for each of its after
\* entries in the same step, failing actions included: one that fails before the row
\* is there leaves the old configuration active.
THEOREM EnteringArmsAll ==
  ASSUME Sequential, TargetsNear(Chart) PROVE Spec => EnteringArms
<1>1. IInv /\ [Next]_vars =>
        [\A n \in Chart.nodes : n \in Now' /\ n \notin Now =>
           \A d \in AfterDelays(Chart, n) :
             \E r \in machine'.timers : r.id = Chart.id[n] /\ r.delay = d]_vars
  BY ArmingStep DEF Armed
<1>2. QED
  BY <1>1, Resting, PTL DEF Spec, EnteringArms

-----------------------------------------------------------------------------
(* Nothing is lost of what a machine waits for *)

\* What a tick needs of a chart so that no row is missing when it is over.
Waits ==
  /\ Sequential /\ TargetsNear(Chart) /\ TargetsBeside(Chart)
  /\ AllCalm(Chart) /\ TimersLeadOut(Chart) /\ NoneAlike(Chart)

\* m rests in l, set up as it should be, and has its rows, but for some that are
\* taken off the queue and still to be delivered.
WaitsIn(m, l, taken) ==
  /\ RestsIn(m, l)
  /\ m.entered = AncSelf(Chart, l)
  /\ \A n \in AncSelf(Chart, l) : \A d \in AfterDelays(Chart, n) :
       \E r \in m.timers \cup taken : r.id = Chart.id[n] /\ r.delay = d

\* Microstep s takes one transition, of n, to a target.
TakenAt(s, n) ==
  \E i \in 1..Len(Chart.trans) : s.sel = {i} /\ Chart.trans[i].src = n /\ Chart.trans[i].target # NoNode

\* A due row of an active state is an event that one transition of that state
\* takes, to a target.
LEMMA TimerIsTaken ==
  ASSUME Waits, NEW l \in Chart.nodes, NEW n \in AncSelf(Chart, l), NEW d \in AfterDelays(Chart, n),
         NEW e, e.name = "after", e.delay = d, e.id = Chart.id[n], NEW s \in Microsteps(Chart, {l}, e)
  PROVE  TakenAt(s, n)
<1>1. e.name = "after" /\ e.delay = d /\ e.id = Chart.id[n] /\ n \in Chart.nodes
  BY AncestorChain
<1>2. PICK g : \E sel \in Selections(Chart, {l}, e, g) : s.sel = sel
  BY DEF Microsteps
<1>3. ASSUME NEW k \in AncSelf(Chart, l), k # n PROVE FirstEligible(Chart, k, e, g) = {}
  <2>1. k \in Chart.nodes
    BY <1>3, AncestorChain
  <2>2. Chart.id[k] # e.id
    BY <1>1, <1>3, <2>1 DEF Waits, Sequential, UniqueIds
  <2>3. QED
    BY <1>1, <2>2 DEF FirstEligible, Candidates
<1>4. \E i \in FirstEligible(Chart, n, e, g) : i \in Candidates(Chart, n, e)
  <2> DEFINE ok == {i \in Candidates(Chart, n, e) : Chart.trans[i].guarded => i \in g}
             L == {ss \in Nat \X Nat : ss[1] < ss[2]}
  <2>1. ok \subseteq 1..Len(Chart.trans) /\ ok \subseteq Candidates(Chart, n, e) /\ Len(Chart.trans) \in Nat
    BY ChartAssumption DEF Candidates, IsChart
  <2>2. ok # {}
    <3>1. PICK i \in 1..Len(Chart.trans) :
            Chart.trans[i].src = n /\ Chart.trans[i].name = "after" /\ d = Chart.trans[i].delay
      BY DEF AfterDelays
    <3>2. PICK j \in 1..Len(Chart.trans) :
            /\ Chart.trans[j].src = n /\ Chart.trans[j].name = "after"
            /\ Chart.trans[j].delay = d /\ ~Chart.trans[j].guarded
      BY <3>1 DEF Waits, TimersLeadOut
    <3>3. j \in ok
      BY <1>1, <3>2 DEF Candidates
    <3>4. QED
      BY <3>3
  <2>3. FirstEligible(Chart, n, e, g) = {i \in ok : \A j \in ok : i <= j}
    BY DEF FirstEligible
  <2> HIDE DEF ok
  <2>4. IsWellFoundedOn(L, Nat)
    BY NatLessThanWellFounded DEF OpToRel
  <2>5. \A a, b \in Nat : <<a, b>> \in L <=> a < b
    OBVIOUS
  <2> HIDE DEF L
  <2>6. ok \subseteq Nat
    BY <2>1
  <2>7. PICK i \in ok : \A j \in ok : ~ (<<j, i>> \in L)
    BY <2>2, <2>4, <2>6, WFMin
  <2>8. \A j \in ok : i <= j
    <3>1. \A j \in ok : i \in Nat /\ j \in Nat /\ ~ (j < i)
      BY <2>5, <2>6, <2>7
    <3>2. QED
      BY <3>1
  <2>9. QED
    BY <2>1, <2>3, <2>8
<1>5. PICK i \in FirstEligible(Chart, n, e, g) : i \in Candidates(Chart, n, e)
  BY <1>4
<1>6. i \in Pick(Chart, l, e, g)
  <2>1. \A k \in AncSelf(Chart, l) : n \in Chart.anc[k] => FirstEligible(Chart, k, e, g) = {}
    <3>1. n \notin Chart.anc[n]
      BY <1>1, ChartAssumption DEF IsChart
    <3>2. QED
      BY <1>3, <3>1
  <2>2. QED
    BY <2>1 DEF Pick
<1>7. Pick(Chart, l, e, g) = {i}
  BY <1>6, PickIsOne
<1>8. s.sel = {i}
  <2> DEFINE pick == [a \in {l} |-> Pick(Chart, a, e, g)]
  <2>1. PICK T \in SUBSET {l} : /\ \E o \in Orders(Chart, {l}) : Takers(Chart, {l}, pick, o, T)
                                /\ s.sel = UNION {pick[a] : a \in T}
    BY <1>2 DEF Selections
  <2>2. pick[l] = {i}
    BY <1>7
  <2> HIDE DEF pick
  <2>3. PICK o \in Orders(Chart, {l}) : Takers(Chart, {l}, pick, o, T)
    BY <2>1
  <2>4. o[l] \in Int
    BY FS_Singleton DEF Orders
  <2>5. l \in T
    BY <2>2, <2>3, <2>4 DEF Takers
  <2>6. QED
    BY <2>1, <2>2, <2>5
<1>9. /\ i \in 1..Len(Chart.trans) /\ Chart.trans[i].src = n /\ Chart.trans[i].name = "after"
  BY <1>1, <1>5 DEF Candidates
<1>10. Chart.trans[i].target # NoNode
  BY <1>9 DEF Waits, TimersLeadOut
<1>11. QED
  BY <1>8, <1>9, <1>10 DEF TakenAt

\* A delivery takes its event off those still to be delivered, and loses no row
\* of a state that stays or becomes active.
LEMMA DeliveryWaits ==
  ASSUME Waits, NEW m, NEW l, NEW taken, WaitsIn(m, l, taken), NEW e, NEW m2 \in SendEvent(Chart, m, e, 0)
  PROVE  \E k \in Leaf(Chart) : WaitsIn(m2, k, {r \in taken : AfterEvent(r) # e})
<1> DEFINE left == {r \in taken : AfterEvent(r) # e}
<1>1. /\ Sequential /\ TargetsNear(Chart) /\ TargetsBeside(Chart) /\ Chart.failEntry = {}
      /\ l \in Leaf(Chart) /\ l \in Chart.nodes /\ RestsIn(m, l) /\ m.cfg = {Chart.id[l]}
  BY DEF Waits, AllCalm, WaitsIn, RestsIn, Leaf
<1>2. PICK s \in Microsteps(Chart, {l}, e) : m2 \in Results(Chart, m, s, 0)
  BY <1>1, RestingAtom DEF SendEvent
<1>3. \A n, k \in Chart.nodes : Chart.id[n] = Chart.id[k] => n = k
  BY <1>1 DEF Sequential, UniqueIds
<1>4. \A n \in AncSelf(Chart, l) : n \in Chart.nodes
  BY <1>1, AncestorChain
\* A row that was taken and is this event makes its state take a transition:
<1>5. ASSUME NEW n \in AncSelf(Chart, l), NEW d \in AfterDelays(Chart, n), NEW r \in taken,
             r.id = Chart.id[n], r.delay = d, r \notin left
      PROVE  TakenAt(s, n)
  <2>1. e.name = "after" /\ e.delay = d /\ e.id = Chart.id[n]
    BY <1>5 DEF AfterEvent
  <2>2. l \in Chart.nodes
    BY <1>1
  <2>3. QED
    BY <2>1, <2>2, TimerIsTaken
<1>6. ASSUME NEW k \in Leaf(Chart), RestsIn(m2, k), m2.entered = AncSelf(Chart, k),
             \A n \in AncSelf(Chart, k) : Armed(m2, n) \/
               /\ n \in AncSelf(Chart, l) /\ \A r \in m.timers : r.id = Chart.id[n] => r \in m2.timers
               /\ ~TakenAt(s, n)
      PROVE  \E j \in Leaf(Chart) : WaitsIn(m2, j, left)
  <2>1. ASSUME NEW n \in AncSelf(Chart, k), NEW d \in AfterDelays(Chart, n)
        PROVE  \E r \in m2.timers \cup left : r.id = Chart.id[n] /\ r.delay = d
    <3>1. CASE Armed(m2, n)
      BY <3>1 DEF Armed
    <3>2. CASE /\ n \in AncSelf(Chart, l) /\ \A r \in m.timers : r.id = Chart.id[n] => r \in m2.timers
               /\ ~TakenAt(s, n)
      <4>1. PICK r \in m.timers \cup taken : r.id = Chart.id[n] /\ r.delay = d
        BY <3>2 DEF WaitsIn
      <4>2. CASE r \in m.timers
        BY <3>2, <4>1, <4>2
      <4>3. CASE r \in taken
        <5>1. r \in left
          BY <1>5, <3>2, <4>1, <4>3
        <5>2. QED
          BY <4>1, <5>1
      <4>4. QED
        BY <4>2, <4>3
    <3>3. QED
      BY <1>6, <3>1, <3>2
  <2>2. QED
    BY <1>6, <2>1 DEF WaitsIn
<1> HIDE DEF left
<1>7. CASE s.sel = {}
  <2>1. m2 = m
    BY <1>2, <1>7 DEF Results
  <2>2. \A n : ~TakenAt(s, n)
    BY <1>7 DEF TakenAt
  <2>3. QED
    BY <1>1, <1>6, <2>1, <2>2 DEF left, WaitsIn
<1>8. CASE s.sel # {}
  <2>1. PICK i \in 1..Len(Chart.trans) : s.sel = {i} /\ Chart.trans[i].src \in AncSelf(Chart, l)
    BY <1>1, <1>8, OneTransition
  <2>2. s.exit = ExitSet(Chart, {l}, {i}) /\ s.entry = EntrySet(Chart, {l}, s.exit, {i})
    <3>1. /\ s.exit = ExitSet(Chart, {l}, s.sel)
          /\ s.entry = EntrySet(Chart, {l}, ExitSet(Chart, {l}, s.sel), s.sel)
      BY <1>1, OneTransition
    <3>2. QED
      BY <3>1, <2>1
  <2>3. m2 = Moved(Chart, m, s.exit, s.entry, 0)
    <3>1. Chart.failExit = {} /\ Chart.failEntry = {} /\ Chart.failAct = {}
      BY DEF Waits, AllCalm
    <3>2. QED
      BY <1>2, <1>8, <3>1 DEF Results, ExitFailed, ActionFailed, EntryFailed
  <2> DEFINE kept == Cancel(Chart, m.timers, s.exit)
  <2>4. /\ m2.cfg = NewCfg(Chart, m.cfg, s.entry)
        /\ m2.timers = Arm(Chart, kept, s.entry, 0)
        /\ m2.entered = (m.entered \ s.exit) \cup s.entry
    BY <2>3 DEF Moved, Joined, Left
  <2>5. PICK k \in Leaf(Chart) : RestsIn(m2, k)
    BY <1>1, <1>2, ResultsRest
  <2>6. kept \subseteq m2.timers
    BY <2>4 DEF Arm
  <2> HIDE DEF kept
  <2>7. CASE Chart.trans[i].target = NoNode
    <3>1. s.exit = {} /\ s.entry = {}
      <4>1. {j \in {i} : Chart.trans[j].target # NoNode} = {}
        BY <2>7
      <4>2. s.exit = {}
        BY <2>2, <4>1 DEF ExitSet
      <4>3. s.entry = {}
        BY <2>2, <4>1 DEF EntrySet
      <4>4. QED
        BY <4>2, <4>3
    <3>2. m2.cfg = {Chart.id[l]} /\ m2.entered = AncSelf(Chart, l) /\ m.timers \subseteq m2.timers
      <4>1. LikeIdsOf(Chart, s.exit) = {}
        BY <3>1 DEF LikeIdsOf, IdsOf
      <4>2. m.timers \subseteq kept
        BY <4>1 DEF Cancel, kept
      <4>3. QED
        BY <1>1, <2>4, <2>6, <3>1, <4>2 DEF NewCfg, WaitsIn
    <3>3. k = l
      BY <1>1, <1>3, <2>5, <3>2 DEF RestsIn, Leaf
    <3>4. \A n : ~TakenAt(s, n)
      BY <2>1, <2>7 DEF TakenAt
    <3>5. QED
      BY <1>6, <2>5, <3>2, <3>3, <3>4 DEF left
  <2>8. CASE Chart.trans[i].target # NoNode
    <3>1. s.entry # {}
      <4>1. EntrySet(Chart, {l}, s.exit, {i}) # {}
        BY <1>1, <2>8, LeadsSomewhere
      <4>2. QED
        BY <2>2, <4>1
    <3>2. PICK j \in Leaf(Chart) :
            /\ s.entry \cap Leaf(Chart) = {j}
            /\ s.entry \subseteq AncSelf(Chart, j)
            /\ AncSelf(Chart, l) \ s.exit \subseteq AncSelf(Chart, j)
            /\ AncSelf(Chart, j) \subseteq (AncSelf(Chart, l) \ s.exit) \cup s.entry
      <4> DEFINE N == EntrySet(Chart, {l}, s.exit, {i})
      <4>1. N # {}
        BY <2>2, <3>1
      <4>2. \E j \in Leaf(Chart) :
              /\ N \cap Leaf(Chart) = {j}
              /\ N \subseteq AncSelf(Chart, j)
              /\ AncSelf(Chart, l) \ ExitSet(Chart, {l}, {i}) \subseteq AncSelf(Chart, j)
              /\ TargetsNear(Chart) => AncSelf(Chart, j) \subseteq AncSelf(Chart, l) \cup N
              /\ TargetsNear(Chart) /\ TargetsBeside(Chart) /\ s.exit = ExitSet(Chart, {l}, {i}) =>
                   AncSelf(Chart, j) \subseteq (AncSelf(Chart, l) \ s.exit) \cup N
        BY <1>1, <2>1, <2>8, <4>1, TargetedStep
      <4>3. QED
        BY <1>1, <4>2, <2>2
    <3>3. k = j
      <4>1. m2.cfg = {Chart.id[j]}
        BY <2>4, <3>1, <3>2 DEF NewCfg, IdsOf
      <4>2. QED
        BY <1>3, <2>5, <4>1 DEF RestsIn, Leaf
    <3>4. m2.entered = AncSelf(Chart, k)
      BY <2>4, <3>2, <3>3 DEF WaitsIn
    <3>5. Chart.trans[i].src \in s.exit
      <4>1. Chart.trans[i].src \notin Kept(i)
        BY ChartAssumption DEF Kept, LcaChain, IsChart
      <4>2. s.exit = AncSelf(Chart, l) \ Kept(i)
        BY <1>1, <2>1, <2>2, <2>8, ExitedStates
      <4>3. QED
        BY <2>1, <4>1, <4>2
    <3>6. ASSUME NEW n \in AncSelf(Chart, k)
          PROVE  Armed(m2, n) \/
            /\ n \in AncSelf(Chart, l) /\ \A r \in m.timers : r.id = Chart.id[n] => r \in m2.timers
            /\ ~TakenAt(s, n)
      <4>1. CASE n \in s.entry
        BY <2>4, <4>1, ArmsAll
      <4>2. CASE n \in AncSelf(Chart, l) \ s.exit
        <5>1. s.exit \subseteq AncSelf(Chart, l)
          BY <2>2 DEF ExitSet
        <5>2. Chart.id[n] \notin LikeIdsOf(Chart, s.exit)
          <6>1. Chart.id[n] \notin IdsOf(Chart, s.exit)
            BY <1>3, <1>4, <4>2, <5>1 DEF IdsOf
          <6>2. s.exit \subseteq Chart.nodes
            BY <1>4, <5>1
          <6>3. \A x \in IdsOf(Chart, s.exit) : Chart.alike[x] = {}
            BY <6>2, ChartAssumption DEF IdsOf, IsChart, Waits, NoneAlike
          <6>4. QED
            BY <6>1, <6>3 DEF LikeIdsOf
        <5>3. \A r \in m.timers : r.id = Chart.id[n] => r \in m2.timers
          BY <2>6, <5>2 DEF kept, Cancel
        <5>4. ~TakenAt(s, n)
          BY <2>1, <3>5, <4>2 DEF TakenAt
        <5>5. QED
          BY <4>2, <5>3, <5>4
      <4>3. QED
        BY <3>2, <3>3, <4>1, <4>2
    <3>7. QED
      BY <1>6, <2>5, <3>4, <3>6 DEF left
  <2>9. QED
    BY <2>7, <2>8
<1>9. QED
  BY <1>7, <1>8

\* A machine that is started has all its rows.
LEMMA StartWaits ==
  ASSUME Waits PROVE \E k \in Leaf(Chart) : WaitsIn(StartAgent(Chart, NotStarted, 0), k, {})
<1> DEFINE m == StartAgent(Chart, NotStarted, 0)
<1>1. PICK k \in Leaf(Chart) : RestsIn(m, k) /\ \A n \in AncSelf(Chart, k) : Armed(m, n)
  BY StartRests DEF Waits
<1> HIDE DEF m
<1>2. AncSelf(Chart, k) \subseteq Calm(Chart)
  <2>1. \A n \in AncSelf(Chart, k) : n \in Chart.nodes
    BY AncestorChain DEF Leaf
  <2>2. QED
    BY <2>1 DEF Waits, AllCalm, Calm
<1>3. EntersWhole
  BY DEF EntersWhole, Waits, AllCalm
<1>4. m.entered = AncSelf(Chart, k)
  BY <1>1, <1>2, <1>3 DEF RestsIn, SetUp
<1>5. WaitsIn(m, k, {})
  BY <1>1, <1>4 DEF WaitsIn, Armed
<1>6. QED
  BY <1>5 DEF m

=============================================================================
