------------------------------ MODULE Pathfinding ------------------------------
(***************************************************************************)
(* The searches of internal/tilemap over a grid of cells <<x, y>>: the A*  *)
(* search behind computePath, the flood fill ReachableFor, and the ray a   *)
(* line of sight follows.  ok is the set of the cells the mover may enter. *)
(***************************************************************************)
EXTENDS Integers, Sequences, FiniteSets, FiniteSetsExt, SequencesExt, TLC

Add(a, b) == <<a[1] + b[1], a[2] + b[2]>>
Directions == {<<1, 0>>, <<-1, 0>>, <<0, 1>>, <<0, -1>>}
Neighbours(c) == {Add(c, d) : d \in Directions}

Size(n) == IF n < 0 THEN -n ELSE n
Sign(n) == IF n > 0 THEN 1 ELSE IF n < 0 THEN -1 ELSE 0
Manhattan(a, b) == Size(a[1] - b[1]) + Size(a[2] - b[2])

-----------------------------------------------------------------------------
(* A*: open holds <<cell, estimate>>; the heap hands out one of the least. *)

\* A map after f[x] = v for every x of S.
Assigned(f, S, v) == [x \in S \cup DOMAIN f |-> IF x \in S THEN v ELSE f[x]]

StartSearch(start, goal) ==
  [open |-> {<<start, Manhattan(start, goal)>>}, closed |-> {}, found |-> FALSE,
   g |-> [c \in {start} |-> 0], parent |-> <<>>]

Cheapest(open) == CHOOSE e \in open : \A o \in open : e[2] <= o[2]

Better(s, cell, ok) ==
  {n \in (Neighbours(cell) \cap ok) \ s.closed : n \notin DOMAIN s.g \/ s.g[cell] + 1 < s.g[n]}

Expand(s, ok, goal) ==
  LET e == Cheapest(s.open)
      cell == e[1]
      better == Better(s, cell, ok)
  IN  IF s.found \/ s.open = {} THEN s
      ELSE IF cell = goal THEN [s EXCEPT !.found = TRUE]
      ELSE IF cell \in s.closed THEN [s EXCEPT !.open = @ \ {e}]
      ELSE [s EXCEPT !.open = (@ \ {e}) \cup {<<n, s.g[cell] + 1 + Manhattan(n, goal)>> : n \in better},
                     !.closed = @ \cup {cell},
                     !.g = Assigned(@, better, s.g[cell] + 1),
                     !.parent = Assigned(@, better, cell)]

\* Every cell is pushed at most once from each side.
Search(ok, start, goal) ==
  LET last == 4 * Cardinality(ok) + 2
      after[k \in 0..last] == IF k = 0 THEN StartSearch(start, goal) ELSE Expand(after[k - 1], ok, goal)
  IN  after[last]

\* The cells after the start, up to the goal.
ReconstructPath(parent, start, goal) ==
  LET to[c \in DOMAIN parent \cup {start}] == IF c = start THEN <<>> ELSE Append(to[parent[c]], c)
  IN  to[goal]

\* The empty path is the code's nil: nowhere to go, or no way there.
AStar(ok, start, goal) ==
  LET s == Search(ok, start, goal)
  IN  IF start = goal \/ goal \notin ok \/ ~s.found THEN <<>>
      ELSE ReconstructPath(s.parent, start, goal)

-----------------------------------------------------------------------------
(* ReachableFor: the cells within n moves, the start excluded. *)

Reachable(ok, start, n) ==
  LET Grow(s) ==
        LET next == ((UNION {Neighbours(c) : c \in s.frontier}) \cap ok) \ s.visited
        IN  [visited |-> s.visited \cup next, frontier |-> next]
      flood[k \in Nat] == IF k = 0 THEN [visited |-> {start}, frontier |-> {start}] ELSE Grow(flood[k - 1])
  IN  flood[n].visited \ {start}

-----------------------------------------------------------------------------
(* The ray of CanSee: the cells after the start, to the end. *)

\* One round of the loop, which comes nearer to the end by a cell at least.
Cast(s, end, dx, dy, sign) ==
  LET right == 2 * s.err > -dy
      down == 2 * s.err < dx
      next == <<s.at[1] + (IF right THEN sign[1] ELSE 0), s.at[2] + (IF down THEN sign[2] ELSE 0)>>
  IN  IF s.at = end THEN s
      ELSE [at |-> next, seen |-> Append(s.seen, next),
            err |-> s.err - (IF right THEN dy ELSE 0) + (IF down THEN dx ELSE 0)]

Ray(start, end) ==
  LET dx == Size(end[1] - start[1])
      dy == Size(end[2] - start[2])
      sign == <<Sign(end[1] - start[1]), Sign(end[2] - start[2])>>
      after[k \in 0..(dx + dy)] ==
        IF k = 0 THEN [at |-> start, seen |-> <<>>, err |-> dx - dy]
        ELSE Cast(after[k - 1], end, dx, dy, sign)
  IN  after[dx + dy].seen
=============================================================================
