-------------------------------- MODULE Movement --------------------------------
(***************************************************************************)
(* Entities moving over the grid of one map: the player by its keys, a     *)
(* walker by the machine of behaviors/goblin.json (pickRandomTarget,       *)
(* computePath, stepAlongPath, pathComplete), a chaser by a machine that   *)
(* aims at the player when it sees it (inLineOfSight, setPursueTarget) and *)
(* otherwise runs for where it aimed (moveTowardTarget), and doors whose   *)
(* machines attach and detach what makes them an obstacle.  A tick is one  *)
(* transaction: the input first, then the timers that are due, then every  *)
(* machine once.  Each movement reads the occupants (ReadSpace) with what  *)
(* the tick has already moved, none of it committed.                       *)
(*                                                                         *)
(* A position is in 1/Scale of a cell.  A mover is [kind, cells, pass, see, *)
(* able, home]: its footprint as offsets, its Passability and Visibility    *)
(* labels, its capabilities and the cell the map file gives it.  A fixture  *)
(* is [at, pass, see].  Rules maps a label to the capabilities it lets by. *)
(***************************************************************************)
EXTENDS Pathfinding

CONSTANTS Width, Height, Scale,
          Mover,        \* name -> mover
          Fixture,      \* name -> fixture
          Doors,        \* the fixtures that open and close
          Rules,        \* label -> capabilities
          NoLabel,      \* the component is not there
          Player,
          Targets       \* bound: the points pickRandomTarget picks

ASSUME GridAssumption == Width \in Nat /\ Height \in Nat /\ Scale \in Nat \ {0}
ASSUME MoverAssumption ==
  /\ \A m \in DOMAIN Mover :
       /\ Mover[m].home \in Int \X Int /\ Mover[m].cells \subseteq Int \X Int
       /\ IsFiniteSet(Mover[m].cells) /\ Mover[m].cells # {}
  /\ Player \in DOMAIN Mover /\ Targets \subseteq Int \X Int

VARIABLES pos, target, path, mode, shut, saved, pc, due
vars == <<pos, target, path, mode, shut, saved, pc, due>>

Movers == DOMAIN Mover
Walkers == {m \in Movers : Mover[m].kind = "walker"}
Chasers == {m \in Movers : Mover[m].kind = "chaser"}
Agents == Walkers \cup Chasers \cup Doors
Cells == (0..(Width - 1)) \X (0..(Height - 1))

\* math.Floor where the occupants are read, int() where a machine converts.
CellOf(p) == <<p[1] \div Scale, p[2] \div Scale>>
Truncated(v) == Sign(v) * (Size(v) \div Scale)
Int2(p) == <<Truncated(p[1]), Truncated(p[2])>>
Corner(c) == <<c[1] * Scale, c[2] * Scale>>

-----------------------------------------------------------------------------
(* Occupants *)

\* AllowsInteraction; an entity without the component is no obstacle.
Lets(label, m) == label # NoLabel => Rules[label] \cap Mover[m].able # {}

Footprint(m, c) == {Add(c, o) : o \in Mover[m].cells}
Body(m) == Footprint(m, CellOf(pos[m]))
Standing == (DOMAIN Fixture \ Doors) \cup shut

\* Faulty variant: the occupants are read outside the tick's transaction.
CanEnterCommitted(m, c) ==
  /\ Footprint(m, c) \subseteq Cells
  /\ \A n \in Movers \ {m} :
       Footprint(n, CellOf(saved.pos[n])) \cap Footprint(m, c) # {} => Lets(Mover[n].pass, m)
  /\ \A f \in Standing : Fixture[f].at \in Footprint(m, c) => Lets(Fixture[f].pass, m)
CanEnter(m, c) ==
  /\ Footprint(m, c) \subseteq Cells
  /\ \A n \in Movers \ {m} : Body(n) \cap Footprint(m, c) # {} => Lets(Mover[n].pass, m)
  /\ \A f \in Standing : Fixture[f].at \in Footprint(m, c) => Lets(Fixture[f].pass, m)

\* A footprint need not have a cell where its mover is: that may be off the map.
Places(m) == {<<c[1] - o[1], c[2] - o[2]>> : c \in Cells, o \in Mover[m].cells}
Open(m) == {c \in Places(m) : CanEnter(m, c)}

\* What stands at a cell of the ray does not hide the target from the
\* observer; the target itself never does where the ray ends.
Clear(m, t, c, end) ==
  /\ \A n \in Movers \ {m} : (c \in Body(n) /\ ~(c = end /\ n = t)) => Lets(Mover[n].see, m)
  /\ \A f \in Standing : Fixture[f].at = c => Lets(Fixture[f].see, m)

\* Every cell of the ray is looked at; nothing is seen from or to outside the map.
CanSee(m, t) ==
  LET start == Int2(pos[m])
      end == Int2(pos[t])
  IN  {start, end} \subseteq Cells /\ \A c \in ToSet(Ray(start, end)) : Clear(m, t, c, end)

-----------------------------------------------------------------------------
(* The tick's transaction *)

World == [pos |-> pos, target |-> target, path |-> path, mode |-> mode, shut |-> shut]
NoPath == [way |-> <<>>, at |-> 0]

Init ==
  /\ pos = [m \in Movers |-> Corner(Mover[m].home)]
  /\ target = pos
  /\ path = [m \in Walkers |-> NoPath]
  /\ mode = [m \in Walkers |-> "idle"]
  /\ shut = Doors
  /\ saved = World /\ pc = "input" /\ due = {}

AfterInput == pc = "input" /\ pc' = "agents" /\ due' = Agents /\ UNCHANGED <<target, path, mode, shut, saved>>

\* PlayerInputHandler.Handle: the last key decides.
Press(d) ==
  LET c == Add(Int2(pos[Player]), d)
  IN  /\ AfterInput
      /\ pos' = IF CanEnter(Player, c) THEN [pos EXCEPT ![Player] = Corner(c)] ELSE pos
NoKey == AfterInput /\ UNCHANGED pos

\* A due timer's event comes before the first TICK.
Wake(m) ==
  /\ pc = "agents" /\ due = Agents /\ mode[m] = "idle"
  /\ mode' = [mode EXCEPT ![m] = "wandering"]
  /\ UNCHANGED <<pos, target, path, shut, saved, pc, due>>

Turn(m) == pc = "agents" /\ m \in due /\ due' = due \ {m} /\ UNCHANGED <<pc, saved>>
Rest(m) == Turn(m) /\ (m \in Walkers => mode[m] = "idle") /\ UNCHANGED <<pos, target, path, mode, shut>>

PathComplete(m) == path[m].at >= Len(path[m].way)

\* Faulty variant: the search looks at the map and not at who stands on it.
ComputedOnTheMap(m, t) ==
  LET free == {c \in Cells : \A f \in Standing : Fixture[f].at = c => Lets(Fixture[f].pass, m)}
      way == AStar(free, Int2(pos[m]), Int2(t))
  IN  IF way = <<>> THEN path[m] ELSE [way |-> way, at |-> 0]
\* computePath: where there is no way, the path that was there stays.
Computed(m, t) ==
  LET way == AStar(Open(m), Int2(pos[m]), Int2(t))
  IN  IF way = <<>> THEN path[m] ELSE [way |-> way, at |-> 0]

\* The path is at its end: idle again, whose entry picks a target.
Arrive(m, t) ==
  /\ Turn(m) /\ mode[m] = "wandering" /\ PathComplete(m)
  /\ mode' = [mode EXCEPT ![m] = "idle"]
  /\ target' = [target EXCEPT ![m] = t]
  /\ path' = [path EXCEPT ![m] = Computed(m, t)]
  /\ UNCHANGED <<pos, shut>>

\* Faulty variant: the index stays where it was.
StepInPlace(m) == path
Advanced(m) == [path EXCEPT ![m].at = @ + 1]

StepAlongPath(m) ==
  LET next == path[m].way[path[m].at + 1]
  IN  /\ Turn(m) /\ mode[m] = "wandering" /\ ~PathComplete(m)
      /\ IF CanEnter(m, next)
           THEN /\ pos' = [pos EXCEPT ![m] = Corner(next)]
                /\ path' = Advanced(m)
           ELSE UNCHANGED <<pos, path>>
      /\ UNCHANGED <<target, mode, shut>>

\* setPursueTarget, under the guard inLineOfSight.
SetPursueTarget(m) ==
  /\ Turn(m) /\ m \in Chasers /\ CanSee(m, Player)
  /\ target' = [target EXCEPT ![m] = pos[Player]]
  /\ UNCHANGED <<pos, path, mode, shut>>

\* What a speed can bring it to: a point on the way to its target.
Longest(p, q) == Max({Size(q[1] - p[1]), Size(q[2] - p[2])})
Part(v, k, n) == (v * k) \div n
Ahead(p, t) ==
  LET n == Longest(p, t)
      on(k) == ((t[1] - p[1]) * k) % n = 0 /\ ((t[2] - p[2]) * k) % n = 0
  IN  {<<p[1] + Part(t[1] - p[1], k, n), p[2] + Part(t[2] - p[2], k, n)>> : k \in {i \in 1..n : on(i)}}

\* The cells moveTowardTarget asks about: a sample every half cell.
Samples(p, q) == Max({1, (2 * Longest(p, q) + Scale - 1) \div Scale})
\* Faulty variant: the landing cell.
LandingCell(p, q) == {CellOf(q)}
SampledCells(p, q) ==
  LET n == Samples(p, q)
      at(i, k) == (p[k] * n + (q[k] - p[k]) * i) \div (n * Scale)
  IN  {<<at(i, 1), at(i, 2)>> : i \in 1..n}

MoveTowardTarget(m) ==
  /\ Turn(m) /\ m \in Chasers /\ target[m] # pos[m]
  /\ \E q \in Ahead(pos[m], target[m]) :
       pos' = IF \A c \in SampledCells(pos[m], q) : CanEnter(m, c) THEN [pos EXCEPT ![m] = q] ELSE pos
  /\ UNCHANGED <<target, path, mode, shut>>

\* A door's machine detaches Passability and Visibility, or attaches them.
Swing(d) ==
  /\ Turn(d) /\ shut' = IF d \in shut THEN shut \ {d} ELSE shut \cup {d}
  /\ UNCHANGED <<pos, target, path, mode>>

Commit ==
  /\ pc = "agents" /\ due = {}
  /\ saved' = World /\ pc' = "input"
  /\ UNCHANGED <<pos, target, path, mode, shut, due>>

-----------------------------------------------------------------------------
(* Failures *)

Become(w) == pos' = w.pos /\ target' = w.target /\ path' = w.path /\ mode' = w.mode /\ shut' = w.shut

\* The process ends, killed or by an error in the tick, and the transaction
\* rolls back.
Fail == pc = "agents" /\ Become(saved) /\ pc' = "down" /\ due' = {} /\ UNCHANGED saved

\* The next start loads the map: what the file authors is as the file says,
\* and what machines attached or the file does not say stays (MapImport).
Reloaded(w) == [w EXCEPT !.pos = [m \in Movers |-> Corner(Mover[m].home)], !.shut = Doors]

Restart == pc = "down" /\ Become(Reloaded(saved)) /\ saved' = Reloaded(saved) /\ pc' = "input" /\ UNCHANGED due

Next ==
  \/ NoKey \/ Commit \/ Fail \/ Restart
  \/ \E d \in Directions : Press(d)
  \/ \E m \in Agents : Rest(m)
  \/ \E d \in Doors : Swing(d)
  \/ \E m \in Walkers : Wake(m) \/ StepAlongPath(m) \/ \E t \in Targets : Arrive(m, t)
  \/ \E m \in Chasers : SetPursueTarget(m) \/ MoveTowardTarget(m)

\* The game is started again, ticks keep coming, each gives every machine its TICK, and a timer that is
\* due is delivered.
Fairness ==
  /\ WF_vars(NoKey \/ \E d \in Directions : Press(d)) /\ WF_vars(Commit) /\ WF_vars(Restart)
  /\ \A m \in Agents : WF_due(Turn(m))
  /\ \A m \in Walkers : SF_vars(Wake(m))

Safety == Init /\ [][Next]_vars
Spec == Safety /\ Fairness

-----------------------------------------------------------------------------
(* Properties *)

\* Every mover is on the map with all of its cells.  Two that deny each other never
\* share a cell of their footprints, and none stands in a fixture that denies it.
Apart(at) ==
  /\ \A m \in Movers : Footprint(m, CellOf(at[m])) \subseteq Cells
  /\ \A m, n \in Movers :
       (m # n /\ ~Lets(Mover[n].pass, m) /\ ~Lets(Mover[m].pass, n)) =>
         Footprint(m, CellOf(at[m])) \cap Footprint(n, CellOf(at[n])) = {}
  /\ \A m \in Movers, f \in DOMAIN Fixture \ Doors :
       ~Lets(Fixture[f].pass, m) => Fixture[f].at \notin Footprint(m, CellOf(at[m]))

\* The map file sets nobody where it may not be: nothing checks it at a load.
ASSUME HomesAssumption == Apart([m \in Movers |-> Corner(Mover[m].home)])

\* All stay apart, whatever order a tick moves them in, whatever becomes of the
\* tick and wherever the next start puts them.
\* (occupancy.go, CanEnter; grid.go, SpaceFromSnapshot)
NoOverlap == Apart(pos) /\ Apart(saved.pos)

\* The way computePath writes goes from where the walker is to its target in
\* steps to the next cell, each of which it may enter as the world is then,
\* and no way is shorter; where the flood fill reaches the target there is a
\* way, and where it does not the old path stays.
\* (astar.go against reach.go; actions.go, computePath)
ComputesAWay(m) ==
  LET start == Int2(pos[m])
      goal == Int2(target'[m])
      way == path'[m].way
      far == Cardinality(Open(m))
  IN  IF start = goal \/ goal \notin Reachable(Open(m), start, far) THEN path'[m] = path[m]
      ELSE /\ path'[m].at = 0 /\ way # <<>> /\ way[Len(way)] = goal /\ ToSet(way) \subseteq Open(m)
           /\ \A i \in DOMAIN way : Manhattan(way[i], IF i = 1 THEN start ELSE way[i - 1]) = 1
           /\ goal \notin Reachable(Open(m), start, Len(way) - 1)
ShortestWays == [][\A m \in Walkers : (mode[m] = "wandering" /\ mode'[m] = "idle" /\ pc' = "agents") => ComputesAWay(m)]_vars

\* Cells one can walk between, corners included, without leaving S.
Around(c) == {Add(c, <<i, j>>) : i \in -1..1, j \in -1..1}
Joined(a, b, S) ==
  LET Wider(T) == T \cup ((UNION {Around(c) : c \in T}) \cap S)
      grow[k \in Nat] == IF k = 0 THEN {a} ELSE Wider(grow[k - 1])
  IN  b \in grow[Cardinality(S)]

\* However fast a chaser is, it never gets past what it may not enter: from
\* where it was to where it lands there is a chain of cells it may.  And it aims
\* at the player only past cells nothing opaque stands in: a closed ring around
\* either of them hides it.
\* (actions.go, moveTowardTarget: "so a fast entity cannot jump an obstructing
\* wall"; guards.go, inLineOfSight; occupancy.go, CanSee)
WallsHold ==
  [][\A m \in Chasers : (pc = "agents" /\ pc' = "agents") =>
       /\ pos'[m] # pos[m] => Joined(CellOf(pos[m]), CellOf(pos'[m]), Open(m))
       /\ target'[m] # target[m] =>
            Joined(Int2(pos[m]), Int2(pos[Player]),
                   {c \in Cells : Clear(m, Player, c, Int2(pos[Player]))})]_vars

\* Both, of every step: who looks for a way finds a shortest one, and who runs or
\* looks straight ahead is held up by what is in between.
WaysAreClear == ShortestWays /\ WallsHold

\* A walker comes to the end of its path again and again, unless the
\* process ends again and again or its next cell is denied to it again and again.
\* (behaviors/goblin.json; guards.go, pathComplete)
Held(m) == ~PathComplete(m) /\ ~CanEnter(m, path[m].way[path[m].at + 1])
WalkersArrive == \A m \in Walkers : []<>(mode[m] = "idle") \/ []<>(pc = "down") \/ []<>Held(m)
=============================================================================
