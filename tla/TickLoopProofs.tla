--------------------------- MODULE TickLoopProofs ----------------------------
(***************************************************************************)
(* For any charts, entities and maps, any number of inputs, crashes and    *)
(* restarts: a tick works on the latest rows, starting up leaves running   *)
(* machines alone, and the engine implements AtomicWorld, in which whole   *)
(* ticks happen at once.  From that, for charts in which every timer leads *)
(* somewhere, what is saved is whole.  And, last, reloads that overlap     *)
(* ticks and each other.                                                   *)
(***************************************************************************)
EXTENDS HotReload, FiniteSetTheorems, SequenceTheorems, TLAPS

C == Versions[1]

\* What is known of one machine that runs this definition.
Agent == INSTANCE AgentRuntimeProofs
           WITH Chart <- Versions[1], OnEvents <- {}, machine <- db.row, started <- TRUE

\* A machine that runs: its record, rows that can be counted, and leaves.
Runs(m) ==
  /\ m = [cfg |-> m.cfg, timers |-> m.timers, entered |-> m.entered]
  /\ IsFiniteSet(m.timers)
  /\ m.cfg # {} /\ m.cfg \subseteq IdsOf(C, Leaf(C))

-----------------------------------------------------------------------------
(* Numbers and functions *)

\* Induction, for a set of numbers.
LEMMA AllNumbers ==
  ASSUME NEW T, 0 \in T, \A n \in Nat : n \in T => n + 1 \in T
  PROVE  Nat \subseteq T
<1> DEFINE L == {ss \in Nat \X Nat : ss[1] < ss[2]}
<1>1. IsWellFoundedOn(L, Nat)
  BY NatLessThanWellFounded DEF OpToRel
<1>2. \A k, n \in Nat : <<k, n>> \in L <=> k < n
  OBVIOUS
<1> HIDE DEF L
<1>3. SUFFICES ASSUME Nat \ T # {} PROVE FALSE
  OBVIOUS
<1>4. PICK n \in Nat \ T : \A k \in Nat \ T : ~ (<<k, n>> \in L)
  BY <1>1, <1>3, WFMin
<1>5. n - 1 \in Nat /\ n - 1 < n
  BY <1>4
<1>6. n - 1 \in T
  BY <1>2, <1>4, <1>5
<1>7. QED
  BY <1>4, <1>5, <1>6

\* What a function makes of a finite set is finite.
LEMMA FiniteImage ==
  ASSUME NEW S, IsFiniteSet(S), NEW f, DOMAIN f = S
  PROVE  IsFiniteSet({f[x] : x \in S})
<1> DEFINE T == {f[x] : x \in S}
           g == [x \in S |-> f[x]]
<1>1. g \in Surjection(S, T)
  BY DEF Surjection
<1>2. QED
  BY <1>1, FS_Surjection

-----------------------------------------------------------------------------
(* What the interpreter leaves *)

LEMMA ChartFacts ==
  /\ IsChart(C) /\ Settles(C) /\ StoresNoHistory(C)
  /\ IsFiniteSet(C.nodes) /\ IsFiniteSet(1..Len(C.trans))
<1>1. 1 \in DOMAIN Versions
  BY VersionsAssumption
<1>2. IsChart(C) /\ Settles(C) /\ StoresNoHistory(C)
  BY <1>1, VersionsAssumption DEF C
<1>3. IsFiniteSet(C.nodes) /\ Len(C.trans) \in Nat
  BY <1>2 DEF IsChart
<1>4. QED
  BY <1>2, <1>3, FS_Interval

\* The rows written for finitely many states are finitely many.
LEMMA ArmIsFinite ==
  ASSUME NEW queue, IsFiniteSet(queue), NEW N \in SUBSET C.nodes, NEW tick
  PROVE  IsFiniteSet(Arm(C, queue, N, tick))
<1> DEFINE P == N \X (1..Len(C.trans))
           f == [p \in P |-> Row(C, queue, p[1], C.trans[p[2]].delay, tick)]
           W == UNION {{Row(C, queue, n, d, tick) : d \in AfterDelays(C, n)} : n \in N}
<1>1. IsFiniteSet(N) /\ IsFiniteSet(P)
  BY ChartFacts, FS_Subset, FS_Product
<1>2. IsFiniteSet({f[p] : p \in P})
  <2> HIDE DEF P
  <2>1. DOMAIN f = P
    OBVIOUS
  <2> HIDE DEF f
  <2>2. QED
    BY <1>1, <2>1, FiniteImage
<1>3. W \subseteq {f[p] : p \in P}
  <2>1. ASSUME NEW w \in W PROVE w \in {f[p] : p \in P}
    <3>1. PICK n \in N : w \in {Row(C, queue, n, d, tick) : d \in AfterDelays(C, n)}
      OBVIOUS
    <3>2. PICK d \in AfterDelays(C, n) : w = Row(C, queue, n, d, tick)
      BY <3>1
    <3>3. PICK i \in 1..Len(C.trans) : d = C.trans[i].delay
      BY DEF AfterDelays
    <3>4. <<n, i>> \in P /\ f[<<n, i>>] = w
      BY <3>2, <3>3
    <3>5. QED
      BY <3>4
  <2>2. QED
    BY <2>1
<1>4. IsFiniteSet(W)
  BY <1>2, <1>3, FS_Subset
<1>5. QED
  BY <1>4, FS_Union DEF Arm

\* A state entered is one of the chart's, and with it some leaf is entered.
LEMMA EntrySettles ==
  ASSUME NEW cfg \in SUBSET IdsOf(C, Leaf(C)), NEW X,
         NEW sel \in SUBSET (1..Len(C.trans))
  PROVE  LET N == EntrySet(C, Resolve(C, cfg), X, sel) IN
         N \subseteq C.nodes /\ (N # {} => N \cap Leaf(C) # {})
<1> DEFINE atoms == Resolve(C, cfg)
<1>1. ASSUME NEW x \in atoms PROVE x \in C.nodes /\ C.type[x] # "history"
  <2>1. PICK l \in Leaf(C) : C.id[l] \in DOMAIN C.found /\ x = C.found[C.id[l]]
    BY DEF Resolve, IdsOf
  <2>2. l \in C.nodes /\ C.type[l] # "history"
    BY <2>1 DEF Leaf
  <2>3. x \in C.nodes
    BY <2>1, <2>2, ChartFacts DEF IsChart
  <2>4. QED
    BY <2>1, <2>3, ChartFacts DEF StoresNoHistory
<1>2. ASSUME NEW i \in sel, C.trans[i].target # NoNode,
             NEW k \in EntryRoots(C, atoms, X, C.trans[i].target)
      PROVE  k \in C.nodes /\ C.type[k] # "history"
  <2>1. C.trans[i].target \in C.nodes
    BY <1>2, ChartFacts DEF IsChart
  <2>2. Recorded(C, atoms, X, C.trans[i].target) \subseteq atoms
    BY DEF Recorded
  <2>3. CASE C.type[C.trans[i].target] # "history"
    BY <1>2, <2>1, <2>3 DEF EntryRoots
  <2>4. CASE C.type[C.trans[i].target] = "history" /\ k \in Recorded(C, atoms, X, C.trans[i].target)
    BY <1>1, <2>2, <2>4
  <2>5. CASE C.type[C.trans[i].target] = "history" /\ k \notin Recorded(C, atoms, X, C.trans[i].target)
    <3>1. k = C.default[C.trans[i].target] /\ k # NoNode
      BY <1>2, <2>5 DEF EntryRoots
    <3>2. QED
      BY <2>1, <2>5, <3>1, ChartFacts DEF IsChart
  <2>6. QED
    BY <2>3, <2>4, <2>5
<1> HIDE DEF atoms
<1>3. \A k : Expand(C, k) \subseteq C.nodes
  BY DEF Expand
<1>4. EntrySet(C, atoms, X, sel) \subseteq C.nodes
  BY <1>3 DEF EntrySet, ExpandTarget
<1>5. ASSUME NEW n \in EntrySet(C, atoms, X, sel)
      PROVE  EntrySet(C, atoms, X, sel) \cap Leaf(C) # {}
  <2>1. PICK i \in sel : C.trans[i].target # NoNode /\ n \in ExpandTarget(C, atoms, X, C.trans[i].target)
    BY DEF EntrySet
  <2>2. PICK k \in EntryRoots(C, atoms, X, C.trans[i].target) : n \in Expand(C, k)
    BY <2>1 DEF ExpandTarget
  <2>3. PICK l \in Leaf(C) : l \in Expand(C, k)
    BY <1>2, <2>1, ChartFacts DEF Settles
  <2>4. l \in EntrySet(C, atoms, X, sel)
    BY <2>1, <2>2, <2>3 DEF EntrySet, ExpandTarget
  <2>5. QED
    BY <2>3, <2>4
<1>6. QED
  BY <1>4, <1>5 DEF atoms

\* Whatever an event does to a machine that runs, failing actions included, it
\* runs.
LEMMA EventKeepsRunning ==
  ASSUME NEW m, Runs(m), NEW e, NEW k \in SendEvent(C, m, e, 0)
  PROVE  Runs(k)
<1> DEFINE atoms == Resolve(C, m.cfg)
<1>1. PICK s \in Microsteps(C, atoms, e) : k \in Results(C, m, s, 0)
  BY DEF SendEvent
<1>2. PICK sel : /\ s.sel = sel /\ s.exit = ExitSet(C, atoms, sel)
                 /\ s.entry = EntrySet(C, atoms, s.exit, sel)
                 /\ \E g : sel \in Selections(C, atoms, e, g)
  BY <1>1 DEF Microsteps
<1>3. sel \subseteq 1..Len(C.trans)
  <2>1. PICK g : sel \in Selections(C, atoms, e, g)
    BY <1>2
  <2>2. \A a : Pick(C, a, e, g) \subseteq 1..Len(C.trans)
    BY DEF Pick, FirstEligible, Candidates
  <2> DEFINE pick == [a \in atoms |-> Pick(C, a, e, g)]
  <2>3. PICK T \in SUBSET atoms : sel = UNION {pick[a] : a \in T}
    BY <2>1 DEF Selections
  <2>4. \A a \in T : pick[a] = Pick(C, a, e, g)
    OBVIOUS
  <2> HIDE DEF pick
  <2>5. QED
    BY <2>2, <2>3, <2>4
<1> DEFINE N == s.entry
           X == s.exit
<1>4. N \subseteq C.nodes /\ (N # {} => N \cap Leaf(C) # {})
  BY <1>2, <1>3, EntrySettles DEF Runs
<1> HIDE DEF atoms, N, X
<1>5. \A Y : IsFiniteSet(Cancel(C, m.timers, Y))
  BY FS_Subset DEF Cancel, Runs
<1>6. \A Y : IsFiniteSet(Left(C, m, Y).timers) /\ Left(C, m, Y).cfg = m.cfg
  BY <1>5 DEF Left
<1>7. \A P \in SUBSET N : IsFiniteSet(Joined(C, Left(C, m, X), P, 0).timers)
  BY <1>4, <1>6, ArmIsFinite DEF Joined
<1>8. ASSUME k = Moved(C, m, X, N, 0) PROVE Runs(k)
  <2>1. /\ k.cfg = NewCfg(C, m.cfg, N) /\ k.timers = Joined(C, Left(C, m, X), N, 0).timers
        /\ k = [cfg |-> k.cfg, timers |-> k.timers, entered |-> k.entered]
    BY <1>8 DEF Moved
  <2>2. k.cfg # {} /\ k.cfg \subseteq IdsOf(C, Leaf(C))
    BY <2>1, <1>4 DEF NewCfg, IdsOf, Runs
  <2>3. QED
    BY <1>7, <2>1, <2>2 DEF Runs
<1>9. ASSUME k.cfg = m.cfg, IsFiniteSet(k.timers),
             k = [cfg |-> k.cfg, timers |-> k.timers, entered |-> k.entered]
      PROVE  Runs(k)
  BY <1>9 DEF Runs
<1>10. CASE k \in ExitFailed(C, m, X)
  <2>1. PICK Y, P : k = [cfg |-> m.cfg, timers |-> Cancel(C, m.timers, Y), entered |-> m.entered \ P]
    BY <1>10 DEF ExitFailed
  <2>2. QED
    BY <1>5, <1>9, <2>1
<1>11. CASE k \in ActionFailed(C, m, X, sel)
  <2>1. k = Left(C, m, X)
    BY <1>11 DEF ActionFailed
  <2>2. QED
    BY <1>6, <1>9, <2>1 DEF Left
<1>12. CASE k \in EntryFailed(C, m, X, N, 0)
  <2>1. PICK P \in SUBSET N : k = Joined(C, Left(C, m, X), P, 0)
    BY <1>12 DEF EntryFailed
  <2>2. k.cfg = m.cfg /\ k = [cfg |-> k.cfg, timers |-> k.timers, entered |-> k.entered]
    BY <2>1 DEF Joined, Left
  <2>3. QED
    BY <1>7, <1>9, <2>1, <2>2
<1>13. QED
  BY <1>1, <1>2, <1>8, <1>10, <1>11, <1>12 DEF Results, N, X

-----------------------------------------------------------------------------
(* What AtomicWorld's tick leaves *)

\* The function that AtomicWorld defines by recursion is what its equation says.
LEMMA DeliveredEquation ==
  ASSUME NEW m, IsFiniteSet(m.timers)
  PROVE  LET D == World!DueOf(m)
             f == World!DeliveredOf(m)
         IN  f = [S \in SUBSET D |->
                    IF S = {} THEN {WithTimers(m, m.timers \ D)}
                    ELSE UNION {UNION {SendEvent(C, k, AfterEvent(r), 0) : k \in f[S \ {r}]} : r \in S}]
<1> DEFINE D == World!DueOf(m)
           W == {WithTimers(m, m.timers \ D)}
           H(f, S, r) == UNION {SendEvent(C, k, AfterEvent(r), 0) : k \in f[S \ {r}]}
           G(f, S) == IF S = {} THEN W ELSE UNION {H(f, S, r) : r \in S}
           Small(n) == {S \in SUBSET D : Cardinality(S) < n}
           Defined == {n \in Nat : \E f : f = [S \in Small(n) |-> G(f, S)]}
<1>1. IsFiniteSet(D)
  BY FS_Subset DEF World!DueOf
<1>2. ASSUME NEW f, NEW g, NEW S, \A r \in S : f[S \ {r}] = g[S \ {r}]
      PROVE  G(f, S) = G(g, S)
  <2>1. \A r \in S : H(f, S, r) = H(g, S, r)
    BY <1>2
  <2> HIDE DEF H
  <2>2. QED
    BY <2>1
<1>3. ASSUME NEW S \in SUBSET D
      PROVE  /\ IsFiniteSet(S) /\ Cardinality(S) \in Nat
             /\ \A r \in S : S \ {r} \in SUBSET D /\ Cardinality(S \ {r}) = Cardinality(S) - 1
  BY <1>1, FS_Subset, FS_RemoveElement, FS_CardinalityType
<1> HIDE DEF D, G, H
<1>4. 0 \in Defined
  <2>1. Small(0) = {}
    BY <1>3
  <2> HIDE DEF Small
  <2>2. PICK f : f = [S \in Small(0) |-> W]
    OBVIOUS
  <2>3. f = [S \in Small(0) |-> G(f, S)]
    BY <2>1, <2>2
  <2>4. QED
    BY <2>3
<1>5. ASSUME NEW n \in Nat, n \in Defined PROVE n + 1 \in Defined
  <2>1. PICK f : f = [S \in Small(n) |-> G(f, S)]
    BY <1>5
  <2>2. PICK g : g = [S \in Small(n + 1) |-> G(f, S)]
    OBVIOUS
  <2>3. ASSUME NEW S \in Small(n + 1) PROVE G(f, S) = G(g, S)
    <3>1. ASSUME NEW r \in S PROVE f[S \ {r}] = g[S \ {r}]
      <4>1. S \ {r} \in Small(n) /\ S \ {r} \in Small(n + 1)
        BY <1>3
      <4>2. f[S \ {r}] = G(f, S \ {r}) /\ g[S \ {r}] = G(f, S \ {r})
        BY <2>1, <2>2, <4>1
      <4>3. QED
        BY <4>2
    <3>2. QED
      BY <1>2, <3>1
  <2> HIDE DEF Small
  <2>4. g = [S \in Small(n + 1) |-> G(g, S)]
    BY <2>2, <2>3
  <2>5. QED
    BY <2>4
<1>6. Cardinality(D) + 1 \in Defined
  <2>1. Nat \subseteq Defined
    BY <1>4, <1>5, AllNumbers
  <2>2. Cardinality(D) \in Nat
    BY <1>1, FS_CardinalityType
  <2> HIDE DEF Defined
  <2>3. QED
    BY <2>1, <2>2
<1>7. Small(Cardinality(D) + 1) = SUBSET D
  <2>1. ASSUME NEW S \in SUBSET D PROVE Cardinality(S) < Cardinality(D) + 1
    BY <1>1, FS_Subset, FS_CardinalityType
  <2>2. QED
    BY <2>1
<1>8. PICK f : f = [S \in SUBSET D |-> G(f, S)]
  BY <1>6, <1>7
<1>9. World!DeliveredOf(m) = CHOOSE g : g = [S \in SUBSET D |-> G(g, S)]
  BY DEF World!DeliveredOf, G, H, D, C
<1>10. PICK d : d = World!DeliveredOf(m)
  OBVIOUS
<1>11. d = [S \in SUBSET D |-> G(d, S)]
  BY <1>8, <1>9, <1>10
<1>12. World!DeliveredOf(m) = [S \in SUBSET D |-> G(World!DeliveredOf(m), S)]
  BY <1>10, <1>11
<1>13. QED
  BY <1>12, Zenon DEF G, H, D

\* Taking the rows off the queue comes before the first delivery ...
LEMMA NothingDelivered ==
  ASSUME NEW m, IsFiniteSet(m.timers)
  PROVE  World!DeliveredOf(m)[{}] = {WithTimers(m, m.timers \ World!DueOf(m))}
BY DeliveredEquation

\* ... and each row may be the next.
LEMMA OneMoreDelivered ==
  ASSUME NEW m, IsFiniteSet(m.timers), NEW S \in SUBSET World!DueOf(m), NEW r \in S,
         NEW k \in World!DeliveredOf(m)[S \ {r}], NEW j \in SendEvent(C, k, AfterEvent(r), 0)
  PROVE  j \in World!DeliveredOf(m)[S]
<1> DEFINE H(q) == UNION {SendEvent(C, i, AfterEvent(q), 0) : i \in World!DeliveredOf(m)[S \ {q}]}
<1>1. World!DeliveredOf(m)[S] = UNION {H(q) : q \in S}
  BY DeliveredEquation
<1>2. j \in H(r)
  OBVIOUS
<1> HIDE DEF H
<1>3. QED
  BY <1>1, <1>2

-----------------------------------------------------------------------------
(* The inductive invariant *)

RowsAre(rows) ==
  /\ rows = [e \in Entities |-> rows[e]]
  /\ \A e \in Entities : rows[e] = NotStarted \/ Runs(rows[e])

\* What is saved.
Typed ==
  /\ def = 1 /\ startDef = 1 /\ scope \in Scopes
  /\ DOMAIN db = {"row", "inputs", "handled"}
  /\ DOMAIN tx = {"phase", "row", "inputs", "handled", "due", "todo"}
  /\ RowsAre(db.row)
  /\ db.inputs \in Seq(Nat) /\ db.handled \in Seq(Nat)
  /\ sent = Len(db.handled) + Len(db.inputs)

\* Nothing that runs is started, and nothing ticks before all is started.
StartsTheRest ==
  /\ run # "running" => tx.phase = "none"
  /\ run # "starting" => toStart = {}
  /\ toStart \subseteq scope
  /\ \A e \in toStart : db.row[e] = NotStarted

\* The rows of e that are drained and not delivered.
Still(e) == {d.row : d \in {x \in tx.due : x.ent = e}}

\* The view of the transaction is a tick that began from what is saved and got
\* this far.
Begun == tx.row = db.row /\ tx.inputs = db.inputs /\ tx.handled = db.handled
InputsHandled == tx.inputs = <<>> /\ tx.handled = db.handled \o db.inputs
OthersUntouched ==
  /\ RowsAre(tx.row)
  /\ \A e \in Entities : tx.row[e] = NotStarted <=> db.row[e] = NotStarted
  /\ \A e \in Entities \ scope : tx.row[e] = db.row[e]
Delivering ==
  /\ \A d \in tx.due : /\ d = [ent |-> d.ent, row |-> d.row]
                       /\ d.ent \in scope /\ d.row \in World!DueOf(db.row[d.ent])
  /\ \A e \in scope :
       tx.row[e] \in World!DeliveredOf(db.row[e])[World!DueOf(db.row[e]) \ Still(e)]
Ticking ==
  /\ \A e \in tx.todo : e \in scope /\ db.row[e] # NotStarted
  /\ \A e \in scope :
       tx.row[e] \in IF db.row[e] = NotStarted THEN {NotStarted}
                     ELSE IF e \in tx.todo THEN World!Delivered(db.row[e]) ELSE World!Ticked(db.row[e])

UnderWay ==
  /\ tx.phase \in {"none", "inputs", "drain", "deliver", "ticks"}
  /\ tx.phase = "inputs" => Begun
  /\ tx.phase = "drain" => tx.row = db.row
  /\ tx.phase \in {"deliver", "ticks"} => OthersUntouched
  /\ Writing => InputsHandled
  /\ tx.phase = "deliver" => Delivering
  /\ tx.phase = "ticks" => Ticking

IInv == Typed /\ StartsTheRest /\ UnderWay

LEMMA NotStartedFacts ==
  /\ NotStarted = [cfg |-> NotStarted.cfg, timers |-> NotStarted.timers, entered |-> NotStarted.entered]
  /\ NotStarted.timers = {} /\ IsFiniteSet(NotStarted.timers) /\ World!DueOf(NotStarted) = {}
  /\ WithTimers(NotStarted, {}) = NotStarted /\ ~Runs(NotStarted)
BY FS_EmptySet DEF NotStarted, WithTimers, Runs, World!DueOf

LEMMA ScopeFacts == ASSUME Typed PROVE scope \subseteq Entities /\ Loaded = C
BY ScopesAssumption DEF Typed, Loaded, C

LEMMA SendFacts == ASSUME Typed, NEW m, NEW e PROVE Send(m, e) = SendEvent(C, m, e, 0)
BY ScopeFacts DEF Typed, Send

LEMMA RowFacts ==
  ASSUME NEW rows, RowsAre(rows), NEW e \in Entities
  PROVE  /\ IsFiniteSet(rows[e].timers)
         /\ rows[e] # NotStarted <=> Runs(rows[e])
         /\ World!DueOf(rows[e]) # {} => Runs(rows[e])
BY NotStartedFacts DEF RowsAre, Runs

\* A machine just started runs.
LEMMA StartedRuns ==
  LET m == StartAgent(C, NotStarted, 0) IN Runs(m) /\ m # NotStarted
<1> DEFINE N == Expand(C, C.start)
           m == StartAgent(C, NotStarted, 0)
<1>1. N \in SUBSET C.nodes /\ N \cap Leaf(C) # {} /\ N # {}
  BY ChartFacts DEF Expand, Settles, IsChart
<1>2. IsFiniteSet(Left(C, NotStarted, {}).timers)
  BY NotStartedFacts, FS_Subset DEF Left, Cancel
<1>3. IsFiniteSet(Joined(C, Left(C, NotStarted, {}), N, 0).timers)
  BY <1>1, <1>2, ArmIsFinite DEF Joined
<1>4. /\ m.cfg = IdsOf(C, N \cap Leaf(C)) /\ m.timers = Joined(C, Left(C, NotStarted, {}), N, 0).timers
      /\ m = [cfg |-> m.cfg, timers |-> m.timers, entered |-> m.entered]
  BY <1>1 DEF StartAgent, Moved, NewCfg
<1>5. m.cfg # {} /\ m.cfg \subseteq IdsOf(C, Leaf(C))
  BY <1>1, <1>4 DEF IdsOf
<1>6. QED
  BY <1>3, <1>4, <1>5, NotStartedFacts DEF Runs

\* A tick later it still runs.
LEMMA AgedRuns ==
  ASSUME NEW m, IsFiniteSet(m.timers)
  PROVE  /\ Runs(m) => Runs(Aged(m))
         /\ Aged(NotStarted) = NotStarted
         /\ World!Aged(m) = Aged(m)
<1> DEFINE f == [r \in m.timers |-> IF r.due > 0 THEN Sooner(r) ELSE r]
<1>1. IsFiniteSet({f[r] : r \in m.timers})
  <2>1. DOMAIN f = m.timers
    OBVIOUS
  <2> HIDE DEF f
  <2>2. QED
    BY <2>1, FiniteImage
<1>2. {f[r] : r \in m.timers} = {IF r.due > 0 THEN Sooner(r) ELSE r : r \in m.timers}
  OBVIOUS
<1>3. Runs(m) => Runs(Aged(m))
  BY <1>1, <1>2 DEF Aged, WithTimers, Runs
<1>4. Aged(NotStarted) = NotStarted
  BY NotStartedFacts DEF Aged
<1>5. World!Aged(m) = Aged(m)
  BY DEF Aged, World!Aged
<1>6. QED
  BY <1>3, <1>4, <1>5

-----------------------------------------------------------------------------
(* Steps outside a tick *)

\* The process comes up, is done starting, ends, or somebody else commits: rows
\* and transaction stay as they are, or the transaction is gone.
LEMMA OutsidePreserves ==
  ASSUME IInv, Boot \/ RunGame \/ Busy \/ Crash \/ OtherCommit
  PROVE  IInv'
<1>1. NoTx.phase = "none" /\ DOMAIN NoTx = {"phase", "row", "inputs", "handled", "due", "todo"}
  BY DEF NoTx
<1>2. CASE Boot
  <2>1. /\ run' = "starting" /\ toStart' = Missing(scope') /\ scope' \in Scopes
        /\ def' = 1 /\ startDef' = 1 /\ UNCHANGED <<db, tx, sent>> /\ tx.phase = "none"
    BY <1>2 DEF Boot, BootWith, IInv, Typed, StartsTheRest
  <2>2. toStart' \subseteq scope' /\ \A e \in toStart' : db.row[e] = NotStarted
    BY <2>1 DEF Missing, HasRow
  <2>3. QED
    BY <2>1, <2>2 DEF IInv, Typed, StartsTheRest, UnderWay, Writing
<1>3. CASE RunGame \/ OtherCommit
  <2>1. UNCHANGED <<db, tx, toStart, startDef, scope, def, sent>> /\ toStart = {} /\ run' = "running"
    BY <1>3 DEF RunGame, OtherCommit, envVars, procVars, IInv, StartsTheRest
  <2>2. Typed' /\ StartsTheRest'
    BY <2>1 DEF IInv, Typed, StartsTheRest
  <2>3. UnderWay'
    BY <2>1 DEF IInv, UnderWay, Begun, InputsHandled, OthersUntouched, Delivering, Ticking, Still, Writing
  <2>4. QED
    BY <2>2, <2>3 DEF IInv
<1>4. CASE Busy \/ Crash
  <2>1. run' = "down" /\ tx' = NoTx /\ toStart' = {} /\ UNCHANGED <<db, startDef, scope, def, sent>>
    BY <1>4 DEF Busy, Crash, Down
  <2>2. QED
    BY <1>1, <2>1 DEF IInv, Typed, StartsTheRest, UnderWay, Writing
<1>5. QED
  BY <1>2, <1>3, <1>4 DEF Boot

\* A machine is started that was not.
LEMMA StartPreserves ==
  ASSUME IInv, NEW e \in toStart, StartBehavior(e)
  PROVE  /\ IInv' /\ scope' = scope /\ e \in scope /\ db.row[e] = NotStarted
         /\ db' = db \/ db' = [db EXCEPT !.row[e] = StartAgent(C, NotStarted, 0)]
         /\ \A d \in Entities : db.row[d] # NotStarted => db'.row[d] = db.row[d]
<1>1. /\ run = "starting" /\ toStart' = toStart \ {e}
      /\ UNCHANGED <<tx, run, startDef, scope, def, sent>>
      /\ db' = db \/ db' = [db EXCEPT !.row[e] = StartAgent(C, NotStarted, 0)]
  BY DEF StartBehavior, envVars, IInv, Typed, C
<1>2. e \in scope /\ e \in Entities /\ db.row[e] = NotStarted /\ tx.phase = "none"
  BY <1>1, ScopeFacts DEF IInv, StartsTheRest
<1> DEFINE new == StartAgent(C, NotStarted, 0)
<1>3. Runs(new) /\ new # NotStarted
  BY StartedRuns
<1> HIDE DEF new
<1>4. /\ DOMAIN db' = DOMAIN db /\ db'.inputs = db.inputs /\ db'.handled = db.handled
      /\ db'.row = db.row \/ db'.row = [db.row EXCEPT ![e] = new]
  BY <1>1 DEF IInv, Typed, new
<1>5. RowsAre(db'.row) /\ \A d \in Entities \ {e} : db'.row[d] = db.row[d]
  BY <1>2, <1>3, <1>4 DEF IInv, Typed, RowsAre
<1>6. Typed'
  BY <1>1, <1>4, <1>5 DEF IInv, Typed
<1>7. StartsTheRest' /\ UnderWay'
  <2>1. \A d \in toStart' : db'.row[d] = NotStarted
    BY <1>1, <1>5, ScopeFacts DEF IInv, StartsTheRest
  <2>2. QED
    BY <1>1, <1>2, <2>1 DEF IInv, StartsTheRest, UnderWay, Writing
<1>8. QED
  BY <1>1, <1>2, <1>5, <1>6, <1>7 DEF IInv

LEMMA FramePreserves ==
  ASSUME IInv, Frame
  PROVE  IInv' /\ World!InsertInput /\ db'.row = db.row
<1>1. /\ run = "running" /\ tx.phase = "none" /\ sent' = sent + 1
      /\ db' = [db EXCEPT !.inputs = Append(@, sent + 1)]
      /\ UNCHANGED <<tx, run, toStart, startDef, scope, def>>
  BY DEF Frame, procVars
<1>2. /\ DOMAIN db' = DOMAIN db /\ db'.row = db.row /\ db'.handled = db.handled
      /\ db'.inputs = Append(db.inputs, sent + 1)
  BY <1>1 DEF IInv, Typed
<1>3. sent + 1 \in Nat /\ sent + 1 = Len(db.handled) + Len(db.inputs) + 1
      /\ Len(db.inputs) \in Nat /\ Len(db.handled) \in Nat
  BY DEF IInv, Typed
<1>4. db'.inputs \in Seq(Nat) /\ Len(db'.inputs) = Len(db.inputs) + 1
  BY <1>2, <1>3 DEF IInv, Typed
<1>5. Typed'
  BY <1>1, <1>2, <1>3, <1>4 DEF IInv, Typed
<1>6. StartsTheRest' /\ UnderWay'
  BY <1>1, <1>2 DEF IInv, StartsTheRest, UnderWay, Writing
<1>7. World!InsertInput
  BY <1>1, <1>3 DEF World!InsertInput
<1>8. QED
  BY <1>2, <1>5, <1>6, <1>7 DEF IInv

-----------------------------------------------------------------------------
(* Steps of a tick *)

\* What every step of a tick before its commit has in common.
LEMMA TickStepKeeps ==
  ASSUME IInv, DOMAIN tx' = DOMAIN tx, UNCHANGED <<db, run, toStart, startDef, scope, def, sent>>,
         run = "running", UnderWay'
  PROVE  IInv'
BY DEF IInv, Typed, StartsTheRest

LEMMA BeginPreserves ==
  ASSUME IInv, Begin \/ HandleInputs
  PROVE  IInv' /\ UNCHANGED <<db, scope>>
<1>1. UNCHANGED <<db, run, toStart, startDef, scope, def, sent>> /\ run = "running"
  BY DEF Begin, HandleInputs, procVars, envVars, IInv, StartsTheRest
<1>2. CASE Begin
  <2>1. tx'.phase = "inputs" /\ DOMAIN tx' = DOMAIN tx
        /\ tx'.row = db.row /\ tx'.inputs = db.inputs /\ tx'.handled = db.handled
    BY <1>2 DEF Begin, IInv, Typed
  <2>2. UnderWay'
    BY <1>1, <2>1 DEF UnderWay, Begun, Writing
  <2>3. QED
    BY <1>1, <2>1, <2>2, TickStepKeeps
<1>3. CASE HandleInputs
  <2>1. tx.phase = "inputs" /\ tx' = [tx EXCEPT !.phase = "drain", !.inputs = <<>>, !.handled = @ \o tx.inputs]
    BY <1>3 DEF HandleInputs
  <2>2. tx'.phase = "drain" /\ DOMAIN tx' = DOMAIN tx /\ tx'.row = tx.row
        /\ tx'.inputs = <<>> /\ tx'.handled = tx.handled \o tx.inputs
    BY <2>1 DEF IInv, Typed
  <2>3. UnderWay'
    BY <1>1, <2>1, <2>2 DEF IInv, UnderWay, Begun, InputsHandled, Writing
  <2>4. QED
    BY <1>1, <2>2, <2>3, TickStepKeeps
<1>4. QED
  BY <1>1, <1>2, <1>3

LEMMA DrainPreserves ==
  ASSUME IInv, Drain
  PROVE  IInv' /\ UNCHANGED <<db, scope>>
<1> DEFINE due == Due(tx.row, scope)
           drained == [e \in Entities |->
             WithTimers(tx.row[e], tx.row[e].timers \ {d.row : d \in {x \in due : x.ent = e}})]
<1>1. UNCHANGED <<db, run, toStart, startDef, scope, def, sent>> /\ run = "running"
      /\ tx.phase = "drain" /\ tx.row = db.row /\ InputsHandled
  BY DEF Drain, procVars, envVars, IInv, StartsTheRest, UnderWay, Writing
<1>2. tx' = [tx EXCEPT !.phase = "deliver", !.due = due, !.row = drained]
  BY DEF Drain
<1> HIDE DEF drained, due
<1>3. tx'.phase = "deliver" /\ tx'.due = due /\ tx'.row = drained /\ DOMAIN tx' = DOMAIN tx
      /\ tx'.inputs = tx.inputs /\ tx'.handled = tx.handled
  BY <1>2 DEF IInv, Typed
<1>4. \A d : d \in due <=> \E e \in scope : \E r \in World!DueOf(db.row[e]) : d = [ent |-> e, row |-> r]
  BY <1>1 DEF due, Due, World!DueOf
<1>5. ASSUME NEW e \in Entities
      PROVE  {d.row : d \in {x \in due : x.ent = e}} = IF e \in scope THEN World!DueOf(db.row[e]) ELSE {}
  <2>1. \A w : w \in {d.row : d \in {x \in due : x.ent = e}} <=> \E d \in due : d.ent = e /\ d.row = w
    OBVIOUS
  <2>2. ASSUME NEW w
        PROVE  (\E d \in due : d.ent = e /\ d.row = w) <=> e \in scope /\ w \in World!DueOf(db.row[e])
    <3>1. ASSUME NEW d \in due, d.ent = e, d.row = w
          PROVE  e \in scope /\ w \in World!DueOf(db.row[e])
      <4>1. PICK f \in scope : \E r \in World!DueOf(db.row[f]) : d = [ent |-> f, row |-> r]
        BY <1>4
      <4>2. f = e
        BY <3>1, <4>1
      <4>3. QED
        BY <3>1, <4>1, <4>2
    <3>2. ASSUME e \in scope, w \in World!DueOf(db.row[e])
          PROVE  \E d \in due : d.ent = e /\ d.row = w
      <4>1. [ent |-> e, row |-> w] \in due
        BY <1>4, <3>2
      <4>2. QED
        BY <4>1
    <3>3. QED
      BY <3>1, <3>2
  <2>3. QED
    BY <2>1, <2>2
<1>6. ASSUME NEW e \in Entities
      PROVE  /\ drained[e] = NotStarted <=> db.row[e] = NotStarted
             /\ drained[e] = NotStarted \/ Runs(drained[e])
             /\ e \notin scope => drained[e] = db.row[e]
             /\ e \in scope => drained[e] \in World!DeliveredOf(db.row[e])[{}]
  <2> DEFINE m == db.row[e]
             off == {d.row : d \in {x \in due : x.ent = e}}
  <2>1. drained[e] = WithTimers(m, m.timers \ off)
    BY <1>1 DEF drained
  <2>2. off = IF e \in scope THEN World!DueOf(m) ELSE {}
    BY <1>5
  <2>3. IsFiniteSet(m.timers) /\ (m = NotStarted \/ Runs(m))
    BY RowFacts DEF IInv, Typed, RowsAre
  <2> HIDE DEF m, off
  <2>4. Runs(m) => Runs(drained[e])
    BY <2>1, <2>3, FS_Subset DEF Runs, WithTimers
  <2>5. m = NotStarted => drained[e] = NotStarted
    BY <2>1, NotStartedFacts
  <2>6. e \notin scope => drained[e] = m
    BY <2>1, <2>2, <2>3, NotStartedFacts DEF Runs, WithTimers
  <2>7. e \in scope => drained[e] \in World!DeliveredOf(m)[{}]
    BY <2>1, <2>2, <2>3, NothingDelivered
  <2>8. QED
    BY <2>3, <2>4, <2>5, <2>6, <2>7, NotStartedFacts DEF m
<1>7. OthersUntouched'
  <2>1. drained = [e \in Entities |-> drained[e]]
    BY DEF drained
  <2>2. QED
    BY <1>1, <1>3, <1>6, <2>1 DEF OthersUntouched, RowsAre
<1>8. Delivering'
  <2>1. ASSUME NEW d \in due
        PROVE  d = [ent |-> d.ent, row |-> d.row] /\ d.ent \in scope /\ d.row \in World!DueOf(db.row[d.ent])
    BY <1>4
  <2>2. ASSUME NEW e \in scope
        PROVE  drained[e] \in World!DeliveredOf(db.row[e])[World!DueOf(db.row[e]) \ Still(e)']
    <3>1. e \in Entities
      BY ScopeFacts DEF IInv
    <3>2. Still(e)' = World!DueOf(db.row[e])
      BY <1>3, <1>5, <3>1 DEF Still
    <3>3. World!DueOf(db.row[e]) \ Still(e)' = {}
      BY <3>2
    <3>4. QED
      BY <1>6, <3>1, <3>3
  <2>3. QED
    BY <1>1, <1>3, <2>1, <2>2 DEF Delivering
<1>9. UnderWay'
  BY <1>1, <1>3, <1>7, <1>8 DEF UnderWay, InputsHandled, Writing
<1>10. QED
  BY <1>1, <1>3, <1>9, TickStepKeeps

\* The machine that e had becomes k, and runs.
LEMMA RowChanges ==
  ASSUME RowsAre(tx.row), OthersUntouched, UNCHANGED <<db, scope>>, NEW e \in scope, e \in Entities, NEW k,
         Runs(k), db.row[e] # NotStarted, tx'.row = [tx.row EXCEPT ![e] = k]
  PROVE  /\ OthersUntouched' /\ tx'.row[e] = k
         /\ \A d \in Entities \ {e} : tx'.row[d] = tx.row[d]
<1>1. tx'.row[e] = k /\ \A d \in Entities \ {e} : tx'.row[d] = tx.row[d]
  BY DEF RowsAre
<1>2. RowsAre(tx'.row)
  BY <1>1 DEF RowsAre
<1>3. k # NotStarted
  BY NotStartedFacts
<1>4. QED
  BY <1>1, <1>2, <1>3 DEF OthersUntouched

LEMMA DeliverPreserves ==
  ASSUME IInv, NEW d \in tx.due, Deliver(d)
  PROVE  IInv' /\ UNCHANGED <<db, scope>>
<1> DEFINE e == d.ent
           r == d.row
           m == db.row[e]
<1>1. UNCHANGED <<db, run, toStart, startDef, scope, def, sent>> /\ run = "running"
      /\ tx.phase = "deliver" /\ OthersUntouched /\ InputsHandled /\ Delivering
  BY DEF Deliver, procVars, envVars, IInv, StartsTheRest, UnderWay, Writing
<1>2. d = [ent |-> e, row |-> r] /\ e \in scope /\ e \in Entities /\ r \in World!DueOf(m)
  BY <1>1, ScopeFacts DEF Delivering, IInv
<1>3. Runs(m) /\ IsFiniteSet(m.timers) /\ m # NotStarted
  BY <1>2, RowFacts DEF IInv, Typed
<1>4. Runs(tx.row[e])
  BY <1>1, <1>2, <1>3 DEF OthersUntouched, RowsAre
<1>5. PICK k \in SendEvent(C, tx.row[e], AfterEvent(r), 0) :
        tx' = [tx EXCEPT !.due = @ \ {d}, !.row[e] = k]
  <2>1. Send(tx.row[e], AfterEvent(r)) = SendEvent(C, tx.row[e], AfterEvent(r), 0)
    BY SendFacts DEF IInv
  <2>2. \E k \in Send(tx.row[e], AfterEvent(r)) : tx' = [tx EXCEPT !.due = @ \ {d}, !.row[e] = k]
    BY DEF Deliver
  <2>3. QED
    BY <2>1, <2>2
<1>6. Runs(k)
  BY <1>4, <1>5, EventKeepsRunning
<1> HIDE DEF e, r, m
<1>7. /\ tx'.phase = tx.phase /\ tx'.due = tx.due \ {d} /\ tx'.row = [tx.row EXCEPT ![e] = k]
      /\ DOMAIN tx' = DOMAIN tx /\ tx'.inputs = tx.inputs /\ tx'.handled = tx.handled
  BY <1>5 DEF IInv, Typed
<1>8. /\ OthersUntouched' /\ tx'.row[e] = k
      /\ \A f \in Entities \ {e} : tx'.row[f] = tx.row[f]
  BY <1>1, <1>2, <1>3, <1>6, <1>7, RowChanges DEF OthersUntouched, m
<1>9. r \in Still(e) /\ Still(e)' = Still(e) \ {r} /\ \A f : f # e => Still(f)' = Still(f)
  <2>1. \A x \in tx.due : x = [ent |-> x.ent, row |-> x.row]
    BY <1>1 DEF Delivering
  <2>2. d.ent = e /\ d.row = r
    BY DEF e, r
  <2>3. r \in Still(e)
    BY <2>2 DEF Still
  <2>4. \A f, w : /\ w \in Still(f) <=> \E x \in tx.due : x.ent = f /\ x.row = w
                  /\ w \in Still(f)' <=> \E x \in tx.due \ {d} : x.ent = f /\ x.row = w
    BY <1>7 DEF Still
  <2>5. ASSUME NEW w PROVE w \in Still(e)' <=> w \in Still(e) /\ w # r
    BY <1>2, <2>1, <2>2, <2>4
  <2>6. Still(e)' = Still(e) \ {r}
    BY <2>5
  <2>7. ASSUME NEW f, f # e PROVE Still(f)' = Still(f)
    <3>1. \A w : w \in Still(f)' <=> w \in Still(f)
      BY <2>2, <2>4, <2>7
    <3>2. QED
      BY <3>1
  <2>8. QED
    BY <2>3, <2>6, <2>7
<1>10. Delivering'
  <2>1. ASSUME NEW f \in scope
        PROVE  tx'.row[f] \in World!DeliveredOf(db.row[f])[World!DueOf(db.row[f]) \ Still(f)']
    <3>1. CASE f = e
      <4> DEFINE S == World!DueOf(m) \ Still(e)'
      <4>1. r \in S /\ S \ {r} = World!DueOf(m) \ Still(e)
        BY <1>2, <1>9
      <4>2. tx.row[e] \in World!DeliveredOf(m)[S \ {r}]
        BY <1>1, <1>2, <4>1 DEF Delivering, m
      <4>3. k \in World!DeliveredOf(m)[S]
        BY <1>3, <1>5, <4>1, <4>2, OneMoreDelivered
      <4>4. QED
        BY <1>8, <3>1, <4>3 DEF m
    <3>2. CASE f # e
      <4>1. f \in Entities
        BY ScopeFacts DEF IInv
      <4>2. QED
        BY <1>1, <1>8, <1>9, <3>2, <4>1 DEF Delivering
    <3>3. QED
      BY <3>1, <3>2
  <2>2. QED
    BY <1>1, <1>7, <2>1 DEF Delivering
<1>11. UnderWay'
  BY <1>1, <1>7, <1>8, <1>10 DEF UnderWay, InputsHandled, Writing
<1>12. QED
  BY <1>1, <1>7, <1>11, TickStepKeeps

LEMMA ListRunningPreserves ==
  ASSUME IInv, ListRunning
  PROVE  IInv' /\ UNCHANGED <<db, scope>>
<1>1. UNCHANGED <<db, run, toStart, startDef, scope, def, sent>> /\ run = "running"
      /\ tx.phase = "deliver" /\ tx.due = {} /\ OthersUntouched /\ InputsHandled /\ Delivering
  BY DEF ListRunning, procVars, envVars, IInv, StartsTheRest, UnderWay, Writing
<1>2. tx' = [tx EXCEPT !.phase = "ticks", !.todo = {e \in scope : HasRow(tx.row, e)}]
  BY DEF ListRunning
<1>3. tx'.phase = "ticks" /\ tx'.todo = {e \in scope : HasRow(tx.row, e)} /\ tx'.row = tx.row
      /\ DOMAIN tx' = DOMAIN tx /\ tx'.inputs = tx.inputs /\ tx'.handled = tx.handled
  BY <1>2 DEF IInv, Typed
<1>4. ASSUME NEW e \in scope
      PROVE  /\ e \in tx'.todo <=> db.row[e] # NotStarted
             /\ db.row[e] = NotStarted => tx.row[e] = NotStarted
             /\ tx.row[e] \in World!Delivered(db.row[e])
  <2>1. tx.row[e] = NotStarted <=> db.row[e] = NotStarted
    BY <1>1, ScopeFacts DEF OthersUntouched, IInv
  <2>2. Still(e) = {}
    BY <1>1 DEF Still
  <2>3. World!DueOf(db.row[e]) \ Still(e) = World!DueOf(db.row[e])
    BY <2>2
  <2>4. tx.row[e] \in World!Delivered(db.row[e])
    BY <1>1, <2>3 DEF Delivering, World!Delivered
  <2>5. QED
    BY <1>3, <2>1, <2>4 DEF HasRow
<1>5. Ticking'
  BY <1>1, <1>3, <1>4 DEF Ticking, HasRow
<1>6. UnderWay'
  BY <1>1, <1>3, <1>5 DEF UnderWay, InputsHandled, OthersUntouched, Writing
<1>7. QED
  BY <1>1, <1>3, <1>6, TickStepKeeps

LEMMA TickPreserves ==
  ASSUME IInv, NEW e \in tx.todo, Tick(e)
  PROVE  IInv' /\ UNCHANGED <<db, scope>>
<1>1. UNCHANGED <<db, run, toStart, startDef, scope, def, sent>> /\ run = "running"
      /\ tx.phase = "ticks" /\ OthersUntouched /\ InputsHandled /\ Ticking
  BY DEF Tick, procVars, envVars, IInv, StartsTheRest, UnderWay, Writing
<1>2. e \in scope /\ e \in Entities /\ db.row[e] # NotStarted
      /\ tx.row[e] \in World!Delivered(db.row[e])
  BY <1>1, ScopeFacts DEF Ticking, IInv
<1>3. Runs(tx.row[e])
  BY <1>1, <1>2 DEF OthersUntouched, RowsAre
<1>4. PICK k \in SendEvent(C, tx.row[e], OnEvent("TICK"), 0) :
        tx' = [tx EXCEPT !.todo = @ \ {e}, !.row[e] = k]
  <2>1. Send(tx.row[e], OnEvent("TICK")) = SendEvent(C, tx.row[e], OnEvent("TICK"), 0)
    BY SendFacts DEF IInv
  <2>2. \E k \in Send(tx.row[e], OnEvent("TICK")) : tx' = [tx EXCEPT !.todo = @ \ {e}, !.row[e] = k]
    BY DEF Tick
  <2>3. QED
    BY <2>1, <2>2
<1>5. Runs(k)
  BY <1>3, <1>4, EventKeepsRunning
<1>6. k \in World!Ticked(db.row[e])
  <2> DEFINE H(j) == SendEvent(C, j, OnEvent("TICK"), 0)
  <2>1. World!Ticked(db.row[e]) = UNION {H(j) : j \in World!Delivered(db.row[e])}
    BY DEF World!Ticked, C
  <2>2. k \in H(tx.row[e])
    BY <1>4
  <2> HIDE DEF H
  <2>3. QED
    BY <1>2, <2>1, <2>2
<1>7. /\ tx'.phase = tx.phase /\ tx'.todo = tx.todo \ {e} /\ tx'.row = [tx.row EXCEPT ![e] = k]
      /\ DOMAIN tx' = DOMAIN tx /\ tx'.inputs = tx.inputs /\ tx'.handled = tx.handled
  BY <1>4 DEF IInv, Typed
<1>8. /\ OthersUntouched' /\ tx'.row[e] = k
      /\ \A f \in Entities \ {e} : tx'.row[f] = tx.row[f]
  BY <1>1, <1>2, <1>5, <1>7, RowChanges DEF OthersUntouched
<1>9. Ticking'
  <2>1. ASSUME NEW f \in scope
        PROVE  tx'.row[f] \in IF db.row[f] = NotStarted THEN {NotStarted}
                              ELSE IF f \in tx'.todo THEN World!Delivered(db.row[f])
                              ELSE World!Ticked(db.row[f])
    <3>1. CASE f = e
      BY <1>2, <1>6, <1>7, <1>8, <3>1
    <3>2. CASE f # e
      <4>1. f \in Entities
        BY ScopeFacts DEF IInv
      <4>2. QED
        BY <1>1, <1>7, <1>8, <3>2, <4>1 DEF Ticking
    <3>3. QED
      BY <3>1, <3>2
  <2>2. QED
    BY <1>1, <1>7, <2>1 DEF Ticking
<1>10. UnderWay'
  BY <1>1, <1>7, <1>8, <1>9 DEF UnderWay, InputsHandled, Writing
<1>11. QED
  BY <1>1, <1>7, <1>10, TickStepKeeps

\* What is committed is one whole tick of AtomicWorld.
LEMMA CommitStep ==
  ASSUME IInv, Commit
  PROVE  IInv' /\ World!WholeTick
<1>1. UNCHANGED <<run, toStart, startDef, scope, def, sent>> /\ run = "running" /\ toStart = {}
      /\ tx.phase = "ticks" /\ tx.todo = {} /\ OthersUntouched /\ InputsHandled /\ Ticking
  BY DEF Commit, procVars, envVars, IInv, StartsTheRest, UnderWay, Writing
<1> DEFINE new == [e \in Entities |-> Aged(tx.row[e])]
<1>2. db' = [row |-> new, inputs |-> tx.inputs, handled |-> tx.handled] /\ tx' = NoTx
  BY DEF Commit
<1>3. \A e \in Entities : new[e] = Aged(tx.row[e])
  OBVIOUS
<1>4. new = [e \in Entities |-> new[e]] /\ DOMAIN new = Entities
  OBVIOUS
<1> HIDE DEF new
<1>5. /\ DOMAIN db' = {"row", "inputs", "handled"} /\ db'.row = new
      /\ db'.inputs = <<>> /\ db'.handled = db.handled \o db.inputs
  BY <1>1, <1>2 DEF InputsHandled
<1>6. tx'.phase = "none" /\ DOMAIN tx' = {"phase", "row", "inputs", "handled", "due", "todo"}
  BY <1>2 DEF NoTx
<1>7. ASSUME NEW e \in Entities
      PROVE  /\ new[e] = NotStarted \/ Runs(new[e])
             /\ World!Aged(tx.row[e]) = new[e] /\ World!Aged(db.row[e]) = Aged(db.row[e])
  <2>1. IsFiniteSet(tx.row[e].timers) /\ IsFiniteSet(db.row[e].timers)
    BY <1>1, RowFacts DEF OthersUntouched, IInv, Typed
  <2>2. tx.row[e] = NotStarted \/ Runs(tx.row[e])
    BY <1>1 DEF OthersUntouched, RowsAre
  <2>3. QED
    BY <1>3, <2>1, <2>2, AgedRuns
<1>8. RowsAre(new)
  BY <1>4, <1>7 DEF RowsAre
<1>9. /\ db'.inputs \in Seq(Nat) /\ db'.handled \in Seq(Nat)
      /\ sent' = Len(db'.handled) + Len(db'.inputs)
  <2>1. db.inputs \in Seq(Nat) /\ db.handled \in Seq(Nat) /\ sent = Len(db.handled) + Len(db.inputs)
    BY DEF IInv, Typed
  <2>2. db.handled \o db.inputs \in Seq(Nat)
        /\ Len(db.handled \o db.inputs) = Len(db.handled) + Len(db.inputs)
    BY <2>1, ConcatProperties
  <2>3. Len(<<>>) = 0 /\ <<>> \in Seq(Nat)
    BY EmptySeq
  <2>4. Len(db.handled \o db.inputs) \in Nat
    BY <2>2, LenProperties
  <2>5. QED
    BY <1>1, <1>5, <2>1, <2>2, <2>3, <2>4
<1>10. IInv'
  <2>1. Typed'
    BY <1>1, <1>5, <1>6, <1>8, <1>9 DEF IInv, Typed
  <2>2. StartsTheRest' /\ UnderWay'
    BY <1>1, <1>6 DEF IInv, StartsTheRest, UnderWay, Writing
  <2>3. QED
    BY <2>1, <2>2 DEF IInv
<1>11. World!WholeTick
  <2>1. \A e \in Entities \ scope : db'.row[e] = World!Aged(db.row[e])
    BY <1>1, <1>3, <1>5, <1>7 DEF OthersUntouched
  <2>2. ASSUME NEW e \in scope
        PROVE  \E m \in IF db.row[e] = NotStarted THEN {NotStarted} ELSE World!Ticked(db.row[e]) :
                 db'.row[e] = World!Aged(m)
    <3>1. e \in Entities
      BY ScopeFacts DEF IInv
    <3>2. tx.row[e] \in IF db.row[e] = NotStarted THEN {NotStarted} ELSE World!Ticked(db.row[e])
      BY <1>1 DEF Ticking
    <3>3. db'.row[e] = World!Aged(tx.row[e])
      BY <1>5, <1>7, <3>1
    <3>4. QED
      BY <3>2, <3>3
  <2>3. QED
    BY <1>1, <1>4, <1>5, <2>1, <2>2 DEF World!WholeTick
<1>12. QED
  BY <1>10, <1>11

-----------------------------------------------------------------------------
(* The theorems *)

LEMMA InvInit == ASSUME Init PROVE IInv
<1>1. /\ DOMAIN db = {"row", "inputs", "handled"} /\ db.row = [e \in Entities |-> NotStarted]
      /\ db.inputs = <<>> /\ db.handled = <<>> /\ tx = NoTx /\ toStart = {}
      /\ startDef = 1 /\ def = 1 /\ scope \in Scopes /\ sent = 0 /\ run = "down"
  BY DEF Init
<1>2. tx.phase = "none" /\ DOMAIN tx = {"phase", "row", "inputs", "handled", "due", "todo"}
  BY <1>1 DEF NoTx
<1>3. RowsAre(db.row)
  BY <1>1 DEF RowsAre
<1>4. Len(<<>>) = 0 /\ <<>> \in Seq(Nat)
  BY EmptySeq
<1>5. Typed
  BY <1>1, <1>2, <1>3, <1>4 DEF Typed
<1>6. StartsTheRest /\ UnderWay
  BY <1>1, <1>2 DEF StartsTheRest, UnderWay, Writing
<1>7. QED
  BY <1>5, <1>6 DEF IInv

\* A step keeps the invariant, and is a step of AtomicWorld or none.
LEMMA EveryStep ==
  ASSUME IInv, [Next]_vars
  PROVE  IInv' /\ (World!Next \/ UNCHANGED <<db, scope>>)
<1>1. CASE Boot
  <2>1. UNCHANGED db /\ scope' \in Scopes
    BY <1>1 DEF Boot, BootWith
  <2>2. QED
    BY <1>1, <2>1, OutsidePreserves DEF World!Next, World!OtherMap
<1>2. CASE \E e \in toStart : StartBehavior(e)
  <2>1. PICK e \in toStart : StartBehavior(e)
    BY <1>2
  <2>2. /\ IInv' /\ scope' = scope /\ e \in scope /\ db.row[e] = NotStarted
        /\ db' = db \/ db' = [db EXCEPT !.row[e] = StartAgent(C, NotStarted, 0)]
    BY <2>1, StartPreserves
  <2>3. CASE db' = db
    BY <2>2, <2>3
  <2>4. CASE db' = [db EXCEPT !.row[e] = StartAgent(C, NotStarted, 0)]
    <3>1. World!StartMachine(e)
      BY <2>2, <2>4 DEF World!StartMachine, C
    <3>2. QED
      BY <2>2, <3>1 DEF World!Next
  <2>5. QED
    BY <2>2, <2>3, <2>4
<1>3. CASE RunGame \/ Busy \/ Crash \/ OtherCommit
  <2>1. UNCHANGED <<db, scope>>
    BY <1>3 DEF RunGame, Busy, Crash, Down, OtherCommit, procVars
  <2>2. QED
    BY <1>3, <2>1, OutsidePreserves
<1>4. CASE Frame
  BY <1>4, FramePreserves DEF World!Next
<1>5. CASE Begin \/ HandleInputs
  BY <1>5, BeginPreserves
<1>6. CASE Drain
  BY <1>6, DrainPreserves
<1>7. CASE \E d \in tx.due : Deliver(d)
  BY <1>7, DeliverPreserves
<1>8. CASE ListRunning
  BY <1>8, ListRunningPreserves
<1>9. CASE \E e \in tx.todo : Tick(e)
  BY <1>9, TickPreserves
<1>10. CASE Commit
  BY <1>10, CommitStep DEF World!Next
<1>11. CASE UNCHANGED vars
  <2>1. UNCHANGED <<db, tx, stale, run, toStart, startDef, scope, def, sent, faults>>
    BY <1>11 DEF vars
  <2>2. Typed' /\ StartsTheRest'
    BY <2>1 DEF IInv, Typed, StartsTheRest
  <2>3. UnderWay'
    BY <2>1 DEF IInv, UnderWay, Begun, InputsHandled, OthersUntouched, Delivering, Ticking, Still, Writing
  <2>4. QED
    BY <2>1, <2>2, <2>3 DEF IInv
<1>12. QED
  BY <1>1, <1>2, <1>3, <1>4, <1>5, <1>6, <1>7, <1>8, <1>9, <1>10, <1>11 DEF Next, EngineStep, TickStep

\* In every state that can be reached the rows are machines that have not started
\* or run, and an open transaction is a tick that began from what is saved and got
\* as far as its phase says (RunTick).
THEOREM InvariantHolds == Spec => []IInv
<1>1. Init => IInv
  BY InvInit
<1>2. IInv /\ [Next]_vars => IInv'
  BY EveryStep
<1>3. QED
  BY <1>1, <1>2, PTL DEF Spec

\* What a transaction goes on to write was computed from the rows that are saved:
\* with SQLite's snapshots no commit of anybody else is undone (RunTick).
THEOREM LatestRows == Spec => []TicksWorkOnTheLatest
<1>1. IInv => TicksWorkOnTheLatest
  BY DEF IInv, UnderWay, TicksWorkOnTheLatest
<1>2. QED
  BY <1>1, InvariantHolds, PTL

\* Outside the game loop -- at start-up, after a crash, on another map -- no step
\* touches the row of a machine that runs (SyncBehaviors, entitiesWithout).
THEOREM RunningKept == Spec => RunningMachinesAreKept
<1>1. ASSUME IInv, Next, run # "running", NEW e \in Entities, HasRow(db.row, e)
      PROVE  db'.row[e] = db.row[e]
  <2>1. tx.phase = "none"
    BY <1>1 DEF IInv, StartsTheRest
  <2>2. CASE Boot \/ RunGame \/ Crash \/ OtherCommit
    <3>1. UNCHANGED db
      BY <2>2 DEF Boot, BootWith, RunGame, Crash, Down, OtherCommit
    <3>2. QED
      BY <3>1
  <2>3. CASE \E d \in toStart : StartBehavior(d)
    BY <1>1, <2>3, StartPreserves DEF HasRow
  <2>4. CASE Frame
    BY <1>1, <2>4 DEF Frame
  <2>5. CASE TickStep
    BY <1>1, <2>1, <2>5 DEF TickStep, Begin, HandleInputs, Drain, Deliver, ListRunning, Tick, Commit, Busy
  <2>6. QED
    BY <1>1, <2>2, <2>3, <2>4, <2>5 DEF Next, EngineStep
<1>2. IInv /\ [Next]_vars
        => [run # "running" => \A e \in Entities : HasRow(db.row, e) => db'.row[e] = db.row[e]]_vars
  BY <1>1
<1>3. QED
  BY <1>2, InvariantHolds, PTL DEF Spec, RunningMachinesAreKept

\* Transactions, crashes and restarts do not show: the database only ever moves
\* by whole ticks, inputs inserted and machines started (RunTick, Update,
\* startBehavior).
THEOREM TickRefines == Spec => TicksAreAtomic
<1>1. Init => World!Init
  BY DEF Init, World!Init
<1>2. IInv /\ [Next]_vars => [World!Next]_<<db, scope>>
  BY EveryStep
<1>3. QED
  BY <1>1, <1>2, InvariantHolds, PTL DEF Spec, TicksAreAtomic, World!Spec

-----------------------------------------------------------------------------
(* What is saved is whole *)

\* The same interpreter, under two names.
LEMMA SameSend == \A c, m, e, tick : Agent!SendEvent(c, m, e, tick) = SendEvent(c, m, e, tick)
BY DEF Agent!AncSelf, AncSelf, Agent!Leaf, Leaf, Agent!Depth, Depth, Agent!Cardinality, Cardinality,
       Agent!ChildOf, ChildOf, Agent!Active, Active, Agent!ByDefault, ByDefault, Agent!Expand, Expand,
       Agent!Resolve, Resolve, Agent!IdsOf, IdsOf, Agent!LcaChain, LcaChain, Agent!ExitSet, ExitSet,
       Agent!Recorded, Recorded, Agent!EntryRoots, EntryRoots, Agent!ExpandTarget, ExpandTarget,
       Agent!EntrySet, EntrySet, Agent!Candidates, Candidates, Agent!FirstEligible, FirstEligible,
       Agent!Pick, Pick, Agent!Orders, Orders, Agent!Takers, Takers, Agent!Selections, Selections,
       Agent!Guarded, Guarded, Agent!Microsteps, Microsteps, Agent!AfterDelays, AfterDelays,
       Agent!LikeIdsOf, LikeIdsOf, Agent!Cancel, Cancel, Agent!Row, Row, Agent!Arm, Arm, Agent!NewCfg, NewCfg, Agent!Left, Left,
       Agent!Joined, Joined, Agent!Moved, Moved, Agent!Deeper, Deeper, Agent!Shallower, Shallower,
       Agent!ExitFailed, ExitFailed, Agent!ActionFailed, ActionFailed, Agent!EntryFailed, EntryFailed,
       Agent!Results, Results, Agent!SendEvent, SendEvent

LEMMA SameStart == \A c, tick : Agent!StartAgent(c, Agent!NotStarted, tick) = StartAgent(c, NotStarted, tick)
BY DEF Agent!AncSelf, AncSelf, Agent!Leaf, Leaf, Agent!Cardinality, Cardinality, Agent!ChildOf, ChildOf,
       Agent!ByDefault, ByDefault, Agent!Expand, Expand, Agent!IdsOf, IdsOf,
       Agent!AfterDelays, AfterDelays, Agent!LikeIdsOf, LikeIdsOf, Agent!Cancel, Cancel, Agent!Row, Row, Agent!Arm, Arm,
       Agent!NewCfg, NewCfg, Agent!Left, Left, Agent!Joined, Joined, Agent!Moved, Moved,
       Agent!NotStarted, NotStarted, Agent!StartAgent, StartAgent

LEMMA SameReading ==
  /\ \A c, S : Agent!Active(c, S) = Active(c, S)
  /\ \A c, ids : Agent!Resolve(c, ids) = Resolve(c, ids)
  /\ \A c, n : Agent!AncSelf(c, n) = AncSelf(c, n) /\ Agent!AfterDelays(c, n) = AfterDelays(c, n)
  /\ \A r : Agent!AfterEvent(r) = AfterEvent(r)
BY DEF Agent!AncSelf, AncSelf, Agent!Active, Active, Agent!Resolve, Resolve,
       Agent!AfterDelays, AfterDelays, Agent!AfterEvent, AfterEvent

\* The definition is one that AgentRuntime speaks of.
LEMMA AgentFacts == Agent!IsChart(C) /\ Agent!Settles(C)
<1>1. Agent!IsChart(C)
  BY ChartFacts
  DEF Agent!IsChart, IsChart, Agent!AncSelf, AncSelf, Agent!ChildOf, ChildOf, Agent!IsFiniteSet, IsFiniteSet
<1>2. Agent!Settles(C)
  BY ChartFacts
  DEF Agent!Settles, Settles, Agent!Expand, Expand, Agent!ByDefault, ByDefault, Agent!ChildOf, ChildOf,
      Agent!AncSelf, AncSelf, Agent!Leaf, Leaf
<1>3. QED
  BY <1>1, <1>2

\* m rests in some leaf with all its rows, but for those that are taken off the
\* queue and still to be delivered.
Waiting(m, taken) == \E l \in Agent!Leaf(C) : Agent!WaitsIn(m, l, taken)

LEMMA EventWaits ==
  ASSUME Agent!Waits, NEW m, NEW taken, Waiting(m, taken), NEW e, NEW k \in SendEvent(C, m, e, 0)
  PROVE  Waiting(k, {r \in taken : AfterEvent(r) # e})
<1>1. PICK l \in Agent!Leaf(C) : Agent!WaitsIn(m, l, taken)
  BY DEF Waiting
<1>2. k \in Agent!SendEvent(C, m, e, 0)
  BY SameSend
<1>3. {r \in taken : Agent!AfterEvent(r) # e} = {r \in taken : AfterEvent(r) # e}
  BY SameReading
<1>4. \E j \in Agent!Leaf(C) : Agent!WaitsIn(k, j, {r \in taken : Agent!AfterEvent(r) # e})
  BY <1>1, <1>2, AgentFacts, Agent!DeliveryWaits
  DEF C, Agent!ChartAssumption, Agent!LeafAssumption
<1>5. QED
  BY <1>3, <1>4 DEF Waiting

LEMMA StartedWaits == ASSUME Agent!Waits PROVE Waiting(StartAgent(C, NotStarted, 0), {})
<1>1. \E k \in Agent!Leaf(C) : Agent!WaitsIn(Agent!StartAgent(C, Agent!NotStarted, 0), k, {})
  BY AgentFacts, Agent!StartWaits DEF C, Agent!ChartAssumption, Agent!LeafAssumption
<1>2. QED
  BY <1>1, SameStart DEF Waiting

\* Rows may be taken off, if it is known that they are, and others grow older.
LEMMA TakingWaits ==
  ASSUME NEW m, NEW T, NEW taken, Waiting(m, {}), \A r \in m.timers : r \in T \cup taken,
         T \subseteq m.timers
  PROVE  Waiting(WithTimers(m, T), taken)
<1>1. PICK l \in Agent!Leaf(C) : Agent!WaitsIn(m, l, {})
  BY DEF Waiting
<1> DEFINE k == WithTimers(m, T)
<1>2. k.cfg = m.cfg /\ k.timers = T /\ k.entered = m.entered
  BY DEF WithTimers
<1> HIDE DEF k
<1>3. Agent!RestsIn(k, l)
  BY <1>1, <1>2 DEF Agent!WaitsIn, Agent!RestsIn, Agent!SetUp
<1>4. Agent!WaitsIn(k, l, taken)
  BY <1>1, <1>2, <1>3 DEF Agent!WaitsIn
<1>5. QED
  BY <1>4 DEF Waiting, k

LEMMA AgedWaits == ASSUME NEW m, Waiting(m, {}) PROVE Waiting(World!Aged(m), {})
<1>1. PICK l \in Agent!Leaf(C) : Agent!WaitsIn(m, l, {})
  BY DEF Waiting
<1> DEFINE k == World!Aged(m)
           older(r) == IF r.due > 0 THEN Sooner(r) ELSE r
<1>2. k.cfg = m.cfg /\ k.entered = m.entered /\ k.timers = {older(r) : r \in m.timers}
  BY DEF World!Aged, WithTimers
<1>3. \A r : older(r).id = r.id /\ older(r).delay = r.delay
  BY DEF Sooner
<1> HIDE DEF k, older
<1>4. Agent!RestsIn(k, l)
  BY <1>1, <1>2, <1>3 DEF Agent!WaitsIn, Agent!RestsIn, Agent!SetUp
<1>5. Agent!WaitsIn(k, l, {})
  BY <1>1, <1>2, <1>3, <1>4 DEF Agent!WaitsIn
<1>6. QED
  BY <1>5 DEF Waiting, k

LEMMA MoreTaken ==
  ASSUME NEW m, NEW taken, NEW more, Waiting(m, taken), taken \subseteq more PROVE Waiting(m, more)
BY DEF Waiting, Agent!WaitsIn

\* After each delivery the rows of active states are in the queue or among those
\* not yet delivered.
LEMMA DeliveringWaits ==
  ASSUME Agent!Waits, NEW m, IsFiniteSet(m.timers), Waiting(m, {})
  PROVE  \A S \in SUBSET World!DueOf(m) :
           \A k \in World!DeliveredOf(m)[S] : Waiting(k, World!DueOf(m) \ S)
<1> DEFINE D == World!DueOf(m)
           f == World!DeliveredOf(m)
           Good(S) == \A k \in f[S] : Waiting(k, D \ S)
           T == {n \in Nat : \A S \in SUBSET D : Cardinality(S) < n => Good(S)}
<1>1. D \subseteq m.timers /\ IsFiniteSet(D)
  BY FS_Subset DEF World!DueOf
<1>2. f[{}] = {WithTimers(m, m.timers \ D)}
  BY NothingDelivered
<1>3. ASSUME NEW S \in SUBSET D, S # {}, NEW k \in f[S]
      PROVE  \E r \in S : \E j \in f[S \ {r}] : k \in SendEvent(C, j, AfterEvent(r), 0)
  <2>1. f[S] = UNION {UNION {SendEvent(C, j, AfterEvent(r), 0) : j \in f[S \ {r}]} : r \in S}
    BY <1>3, DeliveredEquation
  <2> HIDE DEF f
  <2>2. QED
    BY <1>3, <2>1
<1> HIDE DEF D, f
<1>4. ASSUME NEW S \in SUBSET D
      PROVE  /\ IsFiniteSet(S) /\ Cardinality(S) \in Nat
             /\ \A r \in S : S \ {r} \in SUBSET D /\ Cardinality(S \ {r}) = Cardinality(S) - 1
  BY <1>1, FS_Subset, FS_RemoveElement, FS_CardinalityType
<1>5. Good({})
  <2>1. Waiting(WithTimers(m, m.timers \ D), D)
    BY <1>1, TakingWaits
  <2>2. QED
    BY <1>2, <2>1
<1>6. ASSUME NEW S \in SUBSET D, S # {}, \A r \in S : Good(S \ {r}) PROVE Good(S)
  <2>1. SUFFICES ASSUME NEW k \in f[S] PROVE Waiting(k, D \ S)
    OBVIOUS
  <2>2. PICK r \in S : \E j \in f[S \ {r}] : k \in SendEvent(C, j, AfterEvent(r), 0)
    BY <1>3, <1>6
  <2>3. PICK j \in f[S \ {r}] : k \in SendEvent(C, j, AfterEvent(r), 0)
    BY <2>2
  <2>4. Waiting(j, D \ (S \ {r}))
    BY <1>6
  <2>5. Waiting(k, {q \in D \ (S \ {r}) : AfterEvent(q) # AfterEvent(r)})
    BY <2>3, <2>4, EventWaits
  <2>6. {q \in D \ (S \ {r}) : AfterEvent(q) # AfterEvent(r)} \subseteq D \ S
    OBVIOUS
  <2>7. QED
    BY <2>5, <2>6, MoreTaken
<1> HIDE DEF Good
<1>7. 0 \in T
  BY <1>4
<1>8. ASSUME NEW n \in Nat, n \in T PROVE n + 1 \in T
  <2>1. ASSUME NEW S \in SUBSET D, Cardinality(S) < n + 1 PROVE Good(S)
    <3>1. CASE S = {}
      BY <1>5, <3>1
    <3>2. CASE S # {}
      <4>1. \A r \in S : Good(S \ {r})
        BY <1>4, <1>8, <2>1
      <4>2. QED
        BY <1>6, <3>2, <4>1
    <3>3. QED
      BY <3>1, <3>2
  <2>2. QED
    BY <2>1
<1>9. Nat \subseteq T
  BY <1>7, <1>8, AllNumbers
<1>10. ASSUME NEW S \in SUBSET D PROVE Good(S)
  <2>1. Cardinality(S) + 1 \in T /\ Cardinality(S) < Cardinality(S) + 1
    BY <1>4, <1>9
  <2>2. QED
    BY <2>1
<1>11. QED
  BY <1>10 DEF Good, D, f

\* At the end of a tick no row is missing.
LEMMA TickedWaits ==
  ASSUME Agent!Waits, NEW m, IsFiniteSet(m.timers), Waiting(m, {}), NEW k \in World!Ticked(m)
  PROVE  Waiting(k, {})
<1>1. PICK j \in World!Delivered(m) : k \in SendEvent(C, j, OnEvent("TICK"), 0)
  BY DEF World!Ticked, C
<1>2. Waiting(j, World!DueOf(m) \ World!DueOf(m))
  BY <1>1, DeliveringWaits DEF World!Delivered
<1>3. Waiting(j, {})
  BY <1>2, MoreTaken
<1>4. Waiting(k, {r \in {} : AfterEvent(r) # OnEvent("TICK")})
  BY <1>1, <1>3, EventWaits
<1>5. QED
  BY <1>4, MoreTaken

\* Every machine that is saved waits for what it should.
AllWait == \A e \in Entities : db.row[e] # NotStarted => Waiting(db.row[e], {})

LEMMA WaitingKept ==
  ASSUME Agent!Waits, IInv, AllWait, World!Next \/ UNCHANGED <<db, scope>>
  PROVE  AllWait'
<1>1. RowsAre(db.row) /\ DOMAIN db = {"row", "inputs", "handled"} /\ scope \subseteq Entities
  BY ScopeFacts DEF IInv, Typed
<1>2. CASE UNCHANGED db
  BY <1>2 DEF AllWait
<1>3. ASSUME NEW d \in scope, World!StartMachine(d) PROVE AllWait'
  <2>1. \A e \in Entities : db'.row[e] = db.row[e] \/ db'.row[e] = StartAgent(C, NotStarted, 0)
    <3>1. db' = [db EXCEPT !.row[d] = StartAgent(C, NotStarted, 0)]
      BY <1>3 DEF World!StartMachine, C
    <3>2. db'.row = [db.row EXCEPT ![d] = StartAgent(C, NotStarted, 0)]
      BY <1>1, <3>1
    <3>3. QED
      BY <1>1, <3>2 DEF RowsAre
  <2>2. QED
    BY <2>1, StartedWaits DEF AllWait
<1>4. CASE World!InsertInput
  <2>1. db'.row = db.row
    BY <1>1, <1>4 DEF World!InsertInput
  <2>2. QED
    BY <2>1 DEF AllWait
<1>5. CASE World!WholeTick
  <2>1. ASSUME NEW e \in Entities, db'.row[e] # NotStarted PROVE Waiting(db'.row[e], {})
    <3>1. World!Aged(NotStarted) = NotStarted
      BY NotStartedFacts DEF World!Aged
    <3>2. \E m : db'.row[e] = World!Aged(m) /\ (m = NotStarted \/ Waiting(m, {}))
      <4>1. CASE e \notin scope
        BY <1>5, <4>1 DEF World!WholeTick, AllWait
      <4>2. CASE e \in scope
        <5>1. PICK m \in IF db.row[e] = NotStarted THEN {NotStarted} ELSE World!Ticked(db.row[e]) :
                db'.row[e] = World!Aged(m)
          BY <1>5, <4>2 DEF World!WholeTick
        <5>2. CASE db.row[e] = NotStarted
          BY <5>1, <5>2
        <5>3. CASE db.row[e] # NotStarted
          <6>1. IsFiniteSet(db.row[e].timers) /\ Waiting(db.row[e], {})
            BY <1>1, <5>3, RowFacts DEF AllWait
          <6>2. QED
            BY <5>1, <5>3, <6>1, TickedWaits
        <5>4. QED
          BY <5>2, <5>3
      <4>3. QED
        BY <4>1, <4>2
    <3>3. QED
      BY <2>1, <3>1, <3>2, AgedWaits
  <2>2. QED
    BY <2>1 DEF AllWait
<1>6. QED
  BY <1>2, <1>3, <1>4, <1>5 DEF World!Next, World!OtherMap

\* A machine that waits for what it should is whole.
LEMMA WaitingIsWhole ==
  ASSUME Agent!Waits, NEW m, Waiting(m, {})
  PROVE  LET active == Active(C, Resolve(C, m.cfg)) IN
         /\ \A r \in m.timers : \E n \in active : C.id[n] = r.id
         /\ \A n \in active : \A d \in AfterDelays(C, n) :
              \E r \in m.timers : r.id = C.id[n] /\ r.delay = d
         /\ m.entered = active
<1>1. PICK l \in Agent!Leaf(C) : Agent!WaitsIn(m, l, {})
  BY DEF Waiting
<1>2. Agent!RestsIn(m, l) /\ Agent!Sequential /\ C.failEntry = {}
  BY <1>1 DEF Agent!WaitsIn, Agent!Waits, Agent!AllCalm, C
<1>3. Agent!Active(C, Agent!Resolve(C, m.cfg)) = Agent!AncSelf(C, l)
  BY <1>2, AgentFacts, Agent!RestingChain DEF C, Agent!ChartAssumption, Agent!LeafAssumption
<1>4. Active(C, Resolve(C, m.cfg)) = Agent!AncSelf(C, l)
  BY <1>3, SameReading
<1>5. \A r \in m.timers : \E n \in Agent!AncSelf(C, l) : C.id[n] = r.id
  BY <1>2 DEF Agent!RestsIn, C
<1>6. m.entered = Agent!AncSelf(C, l)
  BY <1>1 DEF Agent!WaitsIn, C
<1>7. \A n \in Agent!AncSelf(C, l) : \A d \in AfterDelays(C, n) :
        \E r \in m.timers : r.id = C.id[n] /\ r.delay = d
  BY <1>1, SameReading DEF Agent!WaitsIn, C
<1>8. QED
  BY <1>4, <1>5, <1>6, <1>7

\* For every definition in which nothing is parallel, no action fails, targets are
\* near and an after entry always leads to one: whatever crashes between draining
\* the queue and committing, and on whatever map an entity is, what is saved has
\* exactly the rows of its active states, all of them, and those states and no
\* others are set up (DrainQueue, SendEvent, RunTick).
THEOREM SavedWhole == ASSUME Agent!Waits PROVE Spec => []SavedIsWhole
<1>1. Init => AllWait
  <2>1. Init => db.row = [e \in Entities |-> NotStarted]
    BY DEF Init
  <2>2. QED
    BY <2>1 DEF AllWait
<1>2. IInv /\ AllWait /\ [Next]_vars => AllWait'
  BY EveryStep, WaitingKept
<1>3. IInv /\ AllWait => SavedIsWhole
  <2>1. ASSUME IInv, AllWait, NEW e \in Entities, HasRow(db.row, e)
        PROVE  /\ \A r \in db.row[e].timers : \E n \in Now(db.row[e]) : Loaded.id[n] = r.id
               /\ \A n \in Now(db.row[e]) : \A d \in AfterDelays(Loaded, n) :
                    \E r \in db.row[e].timers : r.id = Loaded.id[n] /\ r.delay = d
               /\ db.row[e].entered = Now(db.row[e])
    <3>1. Loaded = C
      BY <2>1, ScopeFacts DEF IInv
    <3>2. Waiting(db.row[e], {})
      BY <2>1 DEF AllWait, HasRow
    <3>3. Now(db.row[e]) = Active(C, Resolve(C, db.row[e].cfg))
      BY <3>1 DEF Now
    <3>4. QED
      BY <3>1, <3>2, <3>3, WaitingIsWhole
  <2>2. QED
    BY <2>1 DEF SavedIsWhole
<1>4. QED
  BY <1>1, <1>2, <1>3, InvariantHolds, PTL DEF Spec

-----------------------------------------------------------------------------
(* Reloads: for any number of mods, versions, edits, overlapping reloads and *)
(* restarts a tick writes what it computed from the rows that are saved, and *)
(* the loader holds a definition that was validated.                         *)

\* The definition is a valid one, or none is loaded.
Validated == def \notin Broken

\* A tick is open in the game loop only, and unless a commit was noticed behind
\* it, its view is what is saved until it drains the queue.
ViewIsSaved ==
  /\ DOMAIN tx = {"phase", "row", "inputs", "handled", "due", "todo"}
  /\ stale \in BOOLEAN
  /\ run # "running" => tx.phase = "none"
  /\ tx.phase = "inputs" /\ ~stale => tx.row = db.row
  /\ tx.phase = "drain" => tx.row = db.row

ReloadInv == Validated /\ ViewIsSaved

\* Version 0, no definition at all, is not among the broken ones, nor is the first.
LEMMA BrokenFacts == 0 \notin Broken /\ 1 \notin Broken
BY BrokenAssumption, VersionsAssumption

\* What ScanDir leaves loaded is a file that validates.
LEMMA ScannedIsValid ==
  ASSUME NEW f, Scanned(f) # 0
  PROVE  f[Scanned(f)] \notin Broken
<1> DEFINE ok == {k \in 1..Mods : f[k] \notin Broken}
           L == {ss \in Nat \X Nat : ss[1] < ss[2]}
           T == {n \in Nat : \E k \in ok : n = Mods - k}
<1>1. Scanned(f) = CHOOSE k \in ok : \A j \in ok : j <= k
  BY DEF Scanned
<1>2. Mods \in Nat /\ \A k \in ok : k \in 1..Mods /\ f[k] \notin Broken
  BY ModsAssumption
<1>3. ok # {}
  BY DEF Scanned
<1> HIDE DEF ok
<1>4. PICK k \in ok : \A j \in ok : j <= k
  <2>1. IsWellFoundedOn(L, Nat)
    BY NatLessThanWellFounded DEF OpToRel
  <2>2. \A a, b \in Nat : <<a, b>> \in L <=> a < b
    OBVIOUS
  <2>3. \A k \in ok : Mods - k \in T
    BY <1>2
  <2>4. T # {} /\ T \subseteq Nat
    BY <1>3, <2>3
  <2>5. \A n \in T : \E k \in ok : n = Mods - k
    OBVIOUS
  <2> HIDE DEF L, T
  <2>6. PICK n \in T : \A m \in T : ~ (<<m, n>> \in L)
    BY <2>1, <2>4, WFMin
  <2>7. PICK k \in ok : n = Mods - k
    BY <2>5
  <2>8. ASSUME NEW j \in ok PROVE j <= k
    <3>1. Mods - j \in T /\ ~ (Mods - j < n)
      BY <2>2, <2>3, <2>4, <2>6
    <3>2. QED
      BY <1>2, <2>7, <3>1
  <2>9. QED
    BY <2>8
<1>5. QED
  BY <1>1, <1>2, <1>4

LEMMA ReloadInvInit == ASSUME HotInit PROVE ReloadInv
<1>1. tx = NoTx /\ stale = FALSE /\ run = "down" /\ def = 1
  BY DEF HotInit, Init
<1>2. ViewIsSaved
  BY <1>1 DEF ViewIsSaved, NoTx
<1>3. QED
  BY <1>1, <1>2, BrokenFacts DEF ReloadInv, Validated

\* A step of the engine itself changes no definition, and begins, carries on or
\* ends a tick.
LEMMA EnginePreserves ==
  ASSUME ReloadInv, EngineStep \/ OtherCommit \/ Crash
  PROVE  ReloadInv'
<1>1. Validated'
  <2>1. def' = def
    BY DEF EngineStep, StartBehavior, RunGame, Frame, TickStep, Begin, HandleInputs, Drain, Deliver,
           ListRunning, Tick, Commit, Busy, Crash, Down, OtherCommit, envVars
  <2>2. QED
    BY <2>1 DEF ReloadInv, Validated
<1>2. CASE \E e \in toStart : StartBehavior(e)
  <2>1. run = "starting" /\ UNCHANGED <<run, tx, stale>>
    BY <1>2 DEF StartBehavior
  <2>2. QED
    BY <1>1, <2>1 DEF ReloadInv, ViewIsSaved
<1>3. CASE RunGame
  <2>1. run = "starting" /\ UNCHANGED <<db, tx, stale>>
    BY <1>3 DEF RunGame
  <2>2. QED
    BY <1>1, <2>1 DEF ReloadInv, ViewIsSaved
<1>4. CASE Frame
  <2>1. tx.phase = "none" /\ UNCHANGED <<tx, stale>>
    BY <1>4 DEF Frame
  <2>2. QED
    BY <1>1, <2>1 DEF ReloadInv, ViewIsSaved
<1>5. CASE Begin
  <2>1. run' = "running" /\ tx'.row = db'.row /\ tx'.phase = "inputs" /\ stale' = FALSE
        /\ DOMAIN tx' = {"phase", "row", "inputs", "handled", "due", "todo"}
    BY <1>5 DEF Begin, procVars
  <2>2. QED
    BY <1>1, <2>1 DEF ReloadInv, ViewIsSaved
<1>6. CASE HandleInputs
  <2>1. tx.phase = "inputs" /\ ~stale /\ UNCHANGED <<db, stale, run>>
        /\ tx' = [tx EXCEPT !.phase = "drain", !.inputs = <<>>, !.handled = @ \o tx.inputs]
    BY <1>6 DEF HandleInputs, procVars
  <2>2. tx'.phase = "drain" /\ tx'.row = tx.row /\ DOMAIN tx' = DOMAIN tx
    BY <2>1 DEF ReloadInv, ViewIsSaved
  <2>3. QED
    BY <1>1, <2>1, <2>2 DEF ReloadInv, ViewIsSaved
<1>7. CASE \/ Drain \/ ListRunning
           \/ (\E d \in tx.due : Deliver(d)) \/ (\E e \in tx.todo : Tick(e))
  <2>1. /\ tx.phase \in {"drain", "deliver", "ticks"} /\ UNCHANGED <<stale, run>>
        /\ tx'.phase \in {"deliver", "ticks"} /\ DOMAIN tx' = DOMAIN tx
    BY <1>7 DEF Drain, ListRunning, Deliver, Tick, procVars, ReloadInv, ViewIsSaved
  <2>2. QED
    BY <1>1, <2>1 DEF ReloadInv, ViewIsSaved
<1>8. CASE Commit \/ Busy \/ Crash
  <2>1. tx' = NoTx /\ stale' \in BOOLEAN
    BY <1>8 DEF Commit, Busy, Crash, Down, ReloadInv, ViewIsSaved
  <2>2. QED
    BY <1>1, <2>1 DEF ReloadInv, ViewIsSaved, NoTx
<1>9. CASE OtherCommit
  <2>1. UNCHANGED <<db, tx, run>> /\ stale' = (tx.phase = "inputs")
    BY <1>9 DEF OtherCommit, procVars
  <2>2. QED
    BY <1>1, <2>1 DEF ReloadInv, ViewIsSaved
<1>10. QED
  BY <1>2, <1>3, <1>4, <1>5, <1>6, <1>7, <1>8, <1>9 DEF EngineStep, TickStep

\* A reload swaps in what it validated, and a reset that commits while a tick has
\* only read is noticed by that tick's first write.
LEMMA ReloadPreserves ==
  ASSUME ReloadInv, NEW i \in 1..MaxEdits, ReloadStep(i)
  PROVE  ReloadInv'
<1>1. CASE Expire(i) \/ Forget(i) \/ Read(i) \/ Select(i)
  <2>1. UNCHANGED <<db, tx, stale, run, def>>
    BY <1>1 DEF Expire, Forget, Read, Select, vars
  <2>2. QED
    BY <2>1 DEF ReloadInv, Validated, ViewIsSaved
<1>2. CASE Store(i)
  <2>1. UNCHANGED <<db, tx, stale, run>> /\ (def' = def \/ (reload[i].ver \notin Broken /\ def' = reload[i].ver))
    BY <1>2 DEF Store, procVars
  <2>2. QED
    BY <2>1 DEF ReloadInv, Validated, ViewIsSaved
<1>3. CASE Reset(i)
  <2>1. UNCHANGED <<tx, run, def>> /\ stale' = (tx.phase = "inputs") /\ tx.phase # "drain"
    BY <1>3 DEF Reset, Writing, procVars
  <2>2. QED
    BY <2>1 DEF ReloadInv, Validated, ViewIsSaved
<1>4. QED
  BY <1>1, <1>2, <1>3 DEF ReloadStep

\* In every state that can be reached what is loaded is valid or nothing, and the
\* view of a tick that has not drained is what is saved, unless somebody has
\* committed behind it (LoadMachine, RunTick).
THEOREM ReloadInvHolds == HotSpec => []ReloadInv
<1>1. HotInit => ReloadInv
  BY ReloadInvInit
<1>2. ReloadInv /\ [HotNext]_hotVars => ReloadInv'
  <2> SUFFICES ASSUME ReloadInv, [HotNext]_hotVars PROVE ReloadInv'
    OBVIOUS
  <2>1. CASE HotBoot
    <3>1. /\ run = "down" /\ run' = "starting" /\ UNCHANGED <<db, tx, stale>>
          /\ def' = IF Scanned(file) = 0 THEN 0 ELSE file[Scanned(file)]
      BY <2>1 DEF HotBoot, BootWith
    <3>2. Validated'
      BY <3>1, BrokenFacts, ScannedIsValid DEF Validated
    <3>3. ViewIsSaved'
      BY <3>1 DEF ReloadInv, ViewIsSaved
    <3>4. QED
      BY <3>2, <3>3 DEF ReloadInv
  <2>2. CASE EngineStep \/ OtherCommit \/ HotCrash \/ HotBusy
    BY <2>2, EnginePreserves DEF HotCrash, HotBusy, EngineStep, TickStep
  <2>3. CASE \/ UNCHANGED hotVars
             \/ \E k \in 1..Mods : \E v \in DOMAIN Versions : Edit(k, v)
    <3>1. UNCHANGED <<db, tx, stale, run, def>>
      BY <2>3 DEF Edit, hotVars, vars
    <3>2. QED
      BY <3>1 DEF ReloadInv, Validated, ViewIsSaved
  <2>4. CASE \E i \in 1..MaxEdits : ReloadStep(i)
    BY <2>4, ReloadPreserves
  <2>5. QED
    BY <2>1, <2>2, <2>3, <2>4 DEF HotNext
<1>3. QED
  BY <1>1, <1>2, PTL DEF HotSpec

\* However edits, reloads, resets, ticks and restarts overlap, no tick undoes a
\* reset behind its back, and no tick runs by a definition that does not validate
\* (ReloadFile, Reconcile, RunTick).
THEOREM SoundReloads == HotSpec => []ReloadsAreSound
<1>1. ReloadInv => ReloadsAreSound
  BY DEF ReloadInv, Validated, ViewIsSaved, ReloadsAreSound, TicksWorkOnTheLatest
<1>2. QED
  BY <1>1, ReloadInvHolds, PTL
=============================================================================
