--------------------------- MODULE MovementProofs ----------------------------
(***************************************************************************)
(* For any grid, map, movers and rules: no two entities that deny each     *)
(* other ever share a cell; what A* answers is a shortest way, and it      *)
(* answers one where the flood fill finds the target; a chaser is held up  *)
(* by what it may not enter and sees past nothing opaque.                  *)
(***************************************************************************)
EXTENDS Movement, FiniteSetTheorems, SequenceTheorems, TLAPS

Points == Int \X Int

-----------------------------------------------------------------------------
(* Numbers *)

LEMMA SmallerIsWellFounded ==
  ASSUME NEW T \in SUBSET Nat, T # {}
  PROVE  \E n \in T : \A k \in T : n <= k
<1> DEFINE L == {ss \in Nat \X Nat : ss[1] < ss[2]}
<1>1. IsWellFoundedOn(L, Nat)
  BY NatLessThanWellFounded DEF OpToRel
<1>2. \A k, n \in Nat : <<k, n>> \in L <=> k < n
  OBVIOUS
<1> HIDE DEF L
<1>3. PICK n \in T : \A k \in T : ~ (<<k, n>> \in L)
  BY <1>1, WFMin
<1>4. ASSUME NEW k \in T PROVE n <= k
  <2>1. k \in Nat /\ n \in Nat /\ ~ (k < n)
    BY <1>2, <1>3
  <2>2. QED
    BY <2>1
<1>5. QED
  BY <1>4

\* Induction, for a set of numbers.
LEMMA AllNumbers ==
  ASSUME NEW T, 0 \in T, \A n \in Nat : n \in T => n + 1 \in T
  PROVE  Nat \subseteq T
<1>1. SUFFICES ASSUME Nat \ T # {} PROVE FALSE
  OBVIOUS
<1>2. PICK n \in Nat \ T : \A k \in Nat \ T : n <= k
  BY <1>1, SmallerIsWellFounded
<1>3. n - 1 \in Nat /\ n - 1 \in T
  BY <1>2
<1>4. QED
  BY <1>2, <1>3

LEMMA ImageIsFinite ==
  ASSUME NEW S, IsFiniteSet(S), NEW f, DOMAIN f = S, f = [x \in S |-> f[x]]
  PROVE  /\ IsFiniteSet({f[x] : x \in S}) /\ Cardinality({f[x] : x \in S}) \in Nat
         /\ Cardinality({f[x] : x \in S}) <= Cardinality(S)
<1> DEFINE T == {f[x] : x \in S}
<1>1. f \in Surjection(S, T)
  <2>1. f \in [S -> T]
    OBVIOUS
  <2>2. QED
    BY <2>1 DEF Surjection
<1> HIDE DEF T
<1>2. IsFiniteSet(T) /\ Cardinality(T) <= Cardinality(S)
  BY <1>1, FS_Surjection
<1>3. QED
  BY <1>2, FS_CardinalityType DEF T

\* A step taken again and again, as often as one likes.
LEMMA Iterates ==
  ASSUME NEW S, NEW a \in S, NEW step \in [S -> S]
  PROVE  \E f \in [Nat -> S] : f[0] = a /\ \A k \in Nat : f[k + 1] = step[f[k]]
<1> DEFINE Begun(n) == {f \in [0..n -> S] : f[0] = a /\ \A k \in 0..(n - 1) : f[k + 1] = step[f[k]]}
           Defined == {n \in Nat : Begun(n) # {}}
           Same == {k \in Nat : \A n, j \in Nat : \A f \in Begun(n), g \in Begun(j) :
                                  (k <= n /\ k <= j) => f[k] = g[k]}
<1>1. 0 \in Defined
  <2>1. [k \in 0..0 |-> a] \in Begun(0)
    OBVIOUS
  <2>2. QED
    BY <2>1
<1>2. ASSUME NEW n \in Nat, n \in Defined PROVE n + 1 \in Defined
  <2>1. PICK f \in Begun(n) : TRUE
    BY <1>2
  <2>2. f \in [0..n -> S] /\ f[0] = a /\ \A k \in 0..(n - 1) : f[k + 1] = step[f[k]]
    BY <2>1
  <2> DEFINE g == [k \in 0..(n + 1) |-> IF k = n + 1 THEN step[f[n]] ELSE f[k]]
  <2>3. g \in [0..(n + 1) -> S] /\ g[0] = a
    BY <2>2
  <2>4. \A k \in 0..n : g[k + 1] = step[g[k]]
    <3>1. ASSUME NEW k \in 0..(n - 1) PROVE g[k + 1] = step[g[k]]
      <4>1. g[k + 1] = f[k + 1] /\ g[k] = f[k]
        OBVIOUS
      <4>2. QED
        BY <2>2, <4>1
    <3>2. g[n + 1] = step[g[n]]
      OBVIOUS
    <3>3. QED
      BY <3>1, <3>2
  <2> HIDE DEF g
  <2>5. g \in Begun(n + 1)
    BY <2>3, <2>4
  <2>6. QED
    BY <2>5
<1>3. \A n \in Nat : Begun(n) # {}
  <2>1. Nat \subseteq Defined
    BY <1>1, <1>2, AllNumbers
  <2>2. QED
    BY <2>1
<1>4. 0 \in Same
  OBVIOUS
<1>5. ASSUME NEW k \in Nat, k \in Same PROVE k + 1 \in Same
  <2>1. ASSUME NEW n \in Nat, NEW j \in Nat, NEW f \in Begun(n), NEW g \in Begun(j), k + 1 <= n, k + 1 <= j
        PROVE  f[k + 1] = g[k + 1]
    <3>1. k \in 0..(n - 1) /\ k \in 0..(j - 1) /\ k <= n /\ k <= j
      BY <2>1
    <3>2. f[k + 1] = step[f[k]] /\ g[k + 1] = step[g[k]]
      BY <3>1
    <3>3. f[k] = g[k]
      BY <1>5, <3>1
    <3>4. QED
      BY <3>2, <3>3
  <2> HIDE DEF Begun
  <2>2. QED
    BY <2>1
<1>6. Nat \subseteq Same
  BY <1>4, <1>5, AllNumbers
<1> DEFINE part == [n \in Nat |-> CHOOSE f \in Begun(n) : TRUE]
           whole == [n \in Nat |-> part[n][n]]
<1>7. \A n \in Nat : part[n] \in Begun(n)
  BY <1>3
<1>8. \A n \in Nat : whole[n] \in S
  BY <1>7
<1>9. whole[0] = a
  BY <1>7
<1>10. ASSUME NEW k \in Nat PROVE whole[k + 1] = step[whole[k]]
  <2> k + 1 \in Nat
    OBVIOUS
  <2>1. part[k + 1] \in Begun(k + 1) /\ part[k] \in Begun(k)
    <3> HIDE DEF Begun, part
    <3>1. QED
      BY <1>7
  <2>2. k \in 0..((k + 1) - 1) /\ k <= k + 1
    OBVIOUS
  <2> HIDE DEF part
  <2>3. part[k + 1][k + 1] = step[part[k + 1][k]]
    BY <2>1, <2>2
  <2>4. part[k + 1][k] = part[k][k]
    <3>1. k \in Same
      BY <1>6
    <3> HIDE DEF Begun
    <3>2. QED
      BY <2>1, <2>2, <3>1
  <2>5. QED
    BY <2>3, <2>4
<1> HIDE DEF part
<1>11. whole \in [Nat -> S]
  BY <1>8
<1>12. QED
  BY <1>9, <1>10, <1>11

\* What has stopped growing once has stopped for good, and what grows by a cell
\* at least each time stops when there are no more.
LEMMA Saturates ==
  ASSUME NEW V, IsFiniteSet(V), NEW N \in Nat, Cardinality(V) <= N + 1,
         NEW step \in [SUBSET V -> SUBSET V], \A T \in SUBSET V : T \subseteq step[T],
         NEW f \in [Nat -> SUBSET V], f[0] # {}, \A k \in Nat : f[k + 1] = step[f[k]]
  PROVE  \A n \in Nat : f[n] \subseteq f[N]
<1> DEFINE Large == {k \in Nat : Cardinality(f[k]) >= k + 1 \/ f[k + 1] = f[k]}
<1>1. \A k \in Nat : f[k] \in SUBSET V /\ f[k] \subseteq f[k + 1] /\ f[k + 1] \in SUBSET V
  OBVIOUS
<1>2. \A T \in SUBSET V : IsFiniteSet(T) /\ Cardinality(T) \in Nat /\ Cardinality(T) <= Cardinality(V)
  BY FS_Subset, FS_CardinalityType
<1>3. \A T, W \in SUBSET V : (T \subseteq W /\ T # W) => Cardinality(W) >= Cardinality(T) + 1
  <2>1. SUFFICES ASSUME NEW T \in SUBSET V, NEW W \in SUBSET V, T \subseteq W, T # W
                 PROVE  Cardinality(W) >= Cardinality(T) + 1
    OBVIOUS
  <2>2. IsFiniteSet(W) /\ T \in SUBSET W /\ Cardinality(W) \in Nat /\ Cardinality(T) \in Nat
    BY <1>2, <2>1
  <2>3. Cardinality(T) <= Cardinality(W) /\ (Cardinality(W) = Cardinality(T) => W = T)
    BY <2>2, FS_Subset
  <2>4. QED
    BY <2>1, <2>2, <2>3
<1>4. 0 \in Large
  <2>1. Cardinality(f[0]) # 0 /\ Cardinality(f[0]) \in Nat
    BY <1>1, <1>2, FS_EmptySet
  <2>2. QED
    BY <2>1
<1>5. ASSUME NEW k \in Nat, k \in Large PROVE k + 1 \in Large
  <2>1. k + 1 \in Nat /\ f[k + 1] = step[f[k]] /\ f[(k + 1) + 1] = step[f[k + 1]]
    OBVIOUS
  <2>2. CASE f[k + 1] = f[k]
    BY <2>1, <2>2
  <2>3. CASE f[k + 1] # f[k]
    <3>1. Cardinality(f[k]) >= k + 1
      BY <1>5, <2>3
    <3>2. Cardinality(f[k + 1]) >= Cardinality(f[k]) + 1
      BY <1>1, <1>3, <2>3
    <3>3. Cardinality(f[k]) \in Nat /\ Cardinality(f[k + 1]) \in Nat
      BY <1>1, <1>2
    <3>4. Cardinality(f[k + 1]) >= (k + 1) + 1
      BY <3>1, <3>2, <3>3
    <3>5. QED
      BY <2>1, <3>4
  <2>4. QED
    BY <2>2, <2>3
<1>6. N \in Large
  <2>1. Nat \subseteq Large
    BY <1>4, <1>5, AllNumbers
  <2>2. QED
    BY <2>1
<1>7. f[N + 1] = f[N]
  <2>1. CASE f[N + 1] # f[N]
    <3>1. Cardinality(f[N]) >= N + 1
      BY <1>6, <2>1
    <3>2. Cardinality(f[N + 1]) >= Cardinality(f[N]) + 1
      BY <1>1, <1>3, <2>1
    <3>3. /\ Cardinality(f[N]) \in Nat /\ Cardinality(f[N + 1]) \in Nat /\ Cardinality(V) \in Nat
          /\ Cardinality(f[N + 1]) <= Cardinality(V)
      BY <1>1, <1>2
    <3>4. QED
      BY <3>1, <3>2, <3>3
  <2>2. QED
    BY <2>1
<1> DEFINE Still == {k \in Nat : f[k] \subseteq f[N] /\ (k >= N => f[k] = f[N])}
           Below == {d \in Nat : d <= N => f[N - d] \subseteq f[N]}
<1>8. \A k \in Nat : k <= N => f[k] \subseteq f[N]
  <2>1. 0 \in Below
    OBVIOUS
  <2>2. ASSUME NEW d \in Nat, d \in Below PROVE d + 1 \in Below
    <3>1. ASSUME d + 1 <= N PROVE f[N - (d + 1)] \subseteq f[N]
      <4>1. N - (d + 1) \in Nat /\ (N - (d + 1)) + 1 = N - d /\ d <= N
        BY <3>1
      <4>2. f[N - (d + 1)] \subseteq f[N - d]
        BY <1>1, <4>1
      <4>3. QED
        BY <2>2, <4>1, <4>2
    <3>2. QED
      BY <3>1
  <2>3. Nat \subseteq Below
    BY <2>1, <2>2, AllNumbers
  <2>4. ASSUME NEW k \in Nat, k <= N PROVE f[k] \subseteq f[N]
    <3>1. N - k \in Nat /\ N - k <= N /\ N - (N - k) = k
      BY <2>4
    <3>2. N - k \in Below
      BY <2>3, <3>1
    <3>3. QED
      BY <3>1, <3>2
  <2>5. QED
    BY <2>4
<1>9. 0 \in Still
  <2>1. 0 <= N /\ (0 >= N => N = 0)
    OBVIOUS
  <2>2. QED
    BY <1>8, <2>1
<1>10. ASSUME NEW k \in Nat, k \in Still PROVE k + 1 \in Still
  <2>1. CASE k + 1 <= N
    <3>1. k + 1 >= N => k + 1 = N
      BY <2>1
    <3>2. f[k + 1] \subseteq f[N]
      BY <1>8, <2>1
    <3>3. QED
      BY <3>1, <3>2
  <2>2. CASE k >= N
    <3>1. f[k] = f[N] /\ f[k + 1] = step[f[k]] /\ f[N + 1] = step[f[N]]
      BY <1>10, <2>2
    <3>2. QED
      BY <1>7, <3>1
  <2>3. QED
    BY <2>1, <2>2
<1>11. QED
  BY <1>9, <1>10, AllNumbers

-----------------------------------------------------------------------------
(* A* *)

LEMMA ManhattanIsNat == \A a, b \in Points : Manhattan(a, b) \in Nat
BY DEF Manhattan, Size, Points

LEMMA LeastIsOpen ==
  ASSUME NEW open, open # {}, \A e \in open : e[2] \in Nat
  PROVE  \E e \in open : \A o \in open : e[2] <= o[2]
<1> DEFINE T == {e[2] : e \in open}
<1>1. T # {} /\ T \in SUBSET Nat
  OBVIOUS
<1>2. \A n \in T : \E e \in open : n = e[2]
  OBVIOUS
<1>3. \A e \in open : e[2] \in T
  OBVIOUS
<1> HIDE DEF T
<1>4. PICK n \in T : \A k \in T : n <= k
  BY <1>1, SmallerIsWellFounded
<1>5. QED
  BY <1>2, <1>3, <1>4

LEMMA CheapestIsOpen ==
  ASSUME NEW open, open # {}, \A e \in open : e[2] \in Nat
  PROVE  Cheapest(open) \in open
BY LeastIsOpen DEF Cheapest

\* What the search knows: the cells it has reached, each but the start from a
\* neighbour that is done, at one move more.
Sound(s, ok, start, goal) ==
  /\ DOMAIN s = {"open", "closed", "found", "g", "parent"}
  /\ DOMAIN s.g = DOMAIN s.parent \cup {start}
  /\ start \notin DOMAIN s.parent /\ s.g[start] = 0
  /\ \A c \in DOMAIN s.g : s.g[c] \in Nat
  /\ \E n \in Nat : \A c \in DOMAIN s.g : s.g[c] < n
  /\ \A c \in DOMAIN s.parent :
       /\ c \in ok /\ c \in Neighbours(s.parent[c])
       /\ s.parent[c] \in s.closed /\ s.g[c] = s.g[s.parent[c]] + 1
  /\ s.closed \subseteq DOMAIN s.g
  /\ \A e \in s.open : e[1] \in DOMAIN s.g /\ e[2] \in Nat
  /\ start \in s.closed \/ \A e \in s.open : e[1] = start
  /\ s.found => goal \in DOMAIN s.g

LEMMA SearchStartsSound ==
  ASSUME NEW ok, NEW start \in Points, NEW goal \in Points
  PROVE  Sound(StartSearch(start, goal), ok, start, goal)
<1> DEFINE s == StartSearch(start, goal)
<1>1. /\ DOMAIN s = {"open", "closed", "found", "g", "parent"}
      /\ s.open = {<<start, Manhattan(start, goal)>>} /\ s.closed = {} /\ s.found = FALSE
      /\ s.g = [c \in {start} |-> 0] /\ s.parent = <<>>
  BY DEF StartSearch
<1>2. DOMAIN s.g = {start} /\ s.g[start] = 0
  BY <1>1
<1>3. DOMAIN s.parent = {}
  BY <1>1
<1>4. Manhattan(start, goal) \in Nat /\ 1 \in Nat /\ 0 < 1
  BY ManhattanIsNat
<1>5. QED
  BY <1>1, <1>2, <1>3, <1>4 DEF Sound

\* A cell popped in vain, and the end of the search.
LEMMA LessIsSound ==
  ASSUME NEW ok, NEW start, NEW goal, NEW s, NEW t, Sound(s, ok, start, goal),
         DOMAIN t = DOMAIN s, t.g = s.g, t.parent = s.parent, t.closed = s.closed,
         t.open \subseteq s.open, t.found => goal \in DOMAIN s.g
  PROVE  Sound(t, ok, start, goal)
<1>1. /\ DOMAIN t = {"open", "closed", "found", "g", "parent"}
      /\ DOMAIN t.g = DOMAIN t.parent \cup {start}
      /\ start \notin DOMAIN t.parent /\ t.g[start] = 0
  BY DEF Sound
<1>2. /\ \A c \in DOMAIN t.g : t.g[c] \in Nat
      /\ \E n \in Nat : \A c \in DOMAIN t.g : t.g[c] < n
  BY DEF Sound
<1>3. \A c \in DOMAIN t.parent :
       /\ c \in ok /\ c \in Neighbours(t.parent[c])
       /\ t.parent[c] \in t.closed /\ t.g[c] = t.g[t.parent[c]] + 1
  BY DEF Sound
<1>4. /\ t.closed \subseteq DOMAIN t.g
      /\ \A e \in t.open : e[1] \in DOMAIN t.g /\ e[2] \in Nat
      /\ start \in t.closed \/ \A e \in t.open : e[1] = start
  BY DEF Sound
<1>5. QED
  BY <1>1, <1>2, <1>3, <1>4 DEF Sound

LEMMA ExpandKeepsSound ==
  ASSUME NEW ok, ok \subseteq Points, NEW start \in Points, NEW goal \in Points,
         NEW s, Sound(s, ok, start, goal)
  PROVE  Sound(Expand(s, ok, goal), ok, start, goal)
<1> DEFINE e == Cheapest(s.open)
           cell == e[1]
           better == Better(s, cell, ok)
           t == Expand(s, ok, goal)
<1> SUFFICES Sound(t, ok, start, goal)
  OBVIOUS
<1>1. CASE s.found \/ s.open = {}
  BY <1>1 DEF Expand
<1>2. CASE ~(s.found \/ s.open = {})
  <2>1. e \in s.open /\ cell \in DOMAIN s.g /\ s.g[cell] \in Nat
    BY <1>2, CheapestIsOpen DEF Sound
  <2>2. CASE cell = goal
    <3>1. t = [s EXCEPT !.found = TRUE]
      BY <1>2, <2>2 DEF Expand
    <3>2. /\ DOMAIN t = DOMAIN s /\ t.open = s.open /\ t.closed = s.closed /\ t.g = s.g
          /\ t.parent = s.parent
      BY <3>1 DEF Sound
    <3> HIDE DEF t
    <3>3. QED
      BY <2>1, <2>2, <3>2, LessIsSound
  <2>3. CASE cell # goal /\ cell \in s.closed
    <3>1. t = [s EXCEPT !.open = @ \ {e}]
      BY <1>2, <2>3 DEF Expand
    <3>2. /\ DOMAIN t = DOMAIN s /\ t.open = s.open \ {e} /\ t.closed = s.closed /\ t.g = s.g
          /\ t.parent = s.parent /\ t.found = s.found
      BY <3>1 DEF Sound
    <3>3. s.found => goal \in DOMAIN s.g
      BY DEF Sound
    <3> HIDE DEF t
    <3>4. QED
      BY <3>2, <3>3, LessIsSound
  <2>4. CASE cell # goal /\ cell \notin s.closed
    <3> DEFINE pushed == {<<n, s.g[cell] + 1 + Manhattan(n, goal)>> : n \in better}
               g == Assigned(s.g, better, s.g[cell] + 1)
               parent == Assigned(s.parent, better, cell)
    <3>1. t = [s EXCEPT !.open = (@ \ {e}) \cup pushed, !.closed = @ \cup {cell}, !.g = g, !.parent = parent]
      BY <1>2, <2>4 DEF Expand
    <3>2. /\ DOMAIN g = better \cup DOMAIN s.g
          /\ \A n \in better : g[n] = s.g[cell] + 1
          /\ \A n \in DOMAIN s.g \ better : g[n] = s.g[n]
      BY DEF Assigned
    <3>3. /\ DOMAIN parent = better \cup DOMAIN s.parent
          /\ \A n \in better : parent[n] = cell
          /\ \A n \in DOMAIN s.parent \ better : parent[n] = s.parent[n]
      BY DEF Assigned
    <3>4. \A n \in better : n \in ok /\ n \in Neighbours(cell) /\ n \notin s.closed /\ n # cell
      BY <2>1 DEF Better
    <3>5. \A x \in pushed : \E n \in better : x = <<n, s.g[cell] + 1 + Manhattan(n, goal)>>
      OBVIOUS
    <3> HIDE DEF g, parent, better, pushed
    <3>6. /\ DOMAIN t = DOMAIN s /\ t.open = (s.open \ {e}) \cup pushed
          /\ t.closed = s.closed \cup {cell} /\ t.g = g /\ t.parent = parent /\ t.found = s.found
      BY <3>1 DEF Sound
    <3>7. start \notin better /\ start \in s.closed \cup {cell}
      BY <2>1, <3>4 DEF Sound
    <3> HIDE DEF t, e
    <3>8. \A x \in pushed : x[1] \in better /\ x[2] \in Nat
      BY <2>1, <3>4, <3>5, ManhattanIsNat
    <3>9. \A c \in s.closed \cup {cell} : c \in DOMAIN s.g /\ c \notin better /\ g[c] = s.g[c]
      BY <2>1, <3>2, <3>4 DEF Sound
    <3>10. \A c \in DOMAIN parent : /\ c \in ok /\ c \in Neighbours(parent[c])
                                    /\ parent[c] \in s.closed \cup {cell} /\ g[c] = g[parent[c]] + 1
      <4>1. ASSUME NEW c \in better
            PROVE  /\ c \in ok /\ c \in Neighbours(parent[c])
                   /\ parent[c] \in s.closed \cup {cell} /\ g[c] = g[parent[c]] + 1
        BY <3>2, <3>3, <3>4, <3>9
      <4>2. ASSUME NEW c \in DOMAIN s.parent \ better
            PROVE  /\ c \in ok /\ c \in Neighbours(parent[c])
                   /\ parent[c] \in s.closed \cup {cell} /\ g[c] = g[parent[c]] + 1
        BY <3>2, <3>3, <3>9 DEF Sound
      <4>3. QED
        BY <3>3, <4>1, <4>2
    <3>11. /\ \A c \in DOMAIN g : g[c] \in Nat
           /\ \E n \in Nat : \A c \in DOMAIN g : g[c] < n
      <4>1. PICK n \in Nat : \A c \in DOMAIN s.g : s.g[c] < n
        BY DEF Sound
      <4>2. \A c \in DOMAIN g : g[c] \in Nat /\ g[c] < n + 1
        BY <2>1, <3>2, <4>1 DEF Sound
      <4>3. QED
        BY <4>2
    <3>12. DOMAIN g = DOMAIN parent \cup {start} /\ start \notin DOMAIN parent /\ g[start] = 0
      BY <3>2, <3>3, <3>7 DEF Sound
    <3>13. \A x \in t.open : x[1] \in DOMAIN g /\ x[2] \in Nat
      BY <3>2, <3>6, <3>8 DEF Sound
    <3>14. t.closed \subseteq DOMAIN g /\ (t.found => goal \in DOMAIN g)
      BY <2>1, <3>2, <3>6 DEF Sound
    <3>15. DOMAIN t = {"open", "closed", "found", "g", "parent"}
      BY <3>6 DEF Sound
    <3> HIDE DEF cell
    <3>16. QED
      BY <3>6, <3>7, <3>10, <3>11, <3>12, <3>13, <3>14, <3>15 DEF Sound
  <2>5. QED
    BY <2>2, <2>3, <2>4
<1>3. QED
  BY <1>1, <1>2

\* The search is as many expansions, one after the other.
LEMMA SearchUnrolls ==
  ASSUME NEW ok, IsFiniteSet(ok), NEW start, NEW goal
  PROVE  /\ 4 * Cardinality(ok) + 2 \in Nat
         /\ \E a : /\ a[0] = StartSearch(start, goal)
                   /\ \A k \in Nat : k < 4 * Cardinality(ok) + 2 => a[k + 1] = Expand(a[k], ok, goal)
                   /\ Search(ok, start, goal) = a[4 * Cardinality(ok) + 2]
<1> DEFINE last == 4 * Cardinality(ok) + 2
           G(f, k) == IF k = 0 THEN StartSearch(start, goal) ELSE Expand(f[k - 1], ok, goal)
           after == CHOOSE f : f = [k \in 0..last |-> G(f, k)]
           Defined == {n \in Nat : \E f : f = [k \in 0..n |-> G(f, k)]}
<1>1. last \in Nat
  BY FS_CardinalityType
<1>2. Search(ok, start, goal) = after[last]
  BY DEF Search
<1> HIDE DEF last
<1>3. 0 \in Defined
  <2>1. PICK f : f = [k \in 0..0 |-> StartSearch(start, goal)]
    OBVIOUS
  <2>2. f = [k \in 0..0 |-> G(f, k)]
    BY <2>1
  <2>3. QED
    BY <2>2
<1>4. ASSUME NEW n \in Nat, n \in Defined PROVE n + 1 \in Defined
  <2>1. PICK f : f = [k \in 0..n |-> G(f, k)]
    BY <1>4
  <2>2. PICK g : g = [k \in 0..(n + 1) |-> G(f, k)]
    OBVIOUS
  <2>3. ASSUME NEW k \in 0..(n + 1) PROVE G(f, k) = G(g, k)
    <3>1. CASE k = 0
      BY <3>1
    <3>2. CASE k # 0
      <4>1. k - 1 \in 0..n /\ k - 1 \in 0..(n + 1)
        BY <3>2
      <4>2. f[k - 1] = G(f, k - 1) /\ g[k - 1] = G(f, k - 1)
        BY <2>1, <2>2, <4>1
      <4>3. f[k - 1] = g[k - 1]
        BY <4>2
      <4>4. QED
        BY <4>3
    <3>3. QED
      BY <3>1, <3>2
  <2> HIDE DEF G
  <2>4. g = [k \in 0..(n + 1) |-> G(g, k)]
    BY <2>2, <2>3
  <2>5. QED
    BY <2>4
<1>5. last \in Defined
  BY <1>1, <1>3, <1>4, AllNumbers
<1>6. PICK f : f = [k \in 0..last |-> G(f, k)]
  BY <1>5
<1>7. after = [k \in 0..last |-> G(after, k)]
  <2> HIDE DEF G
  <2>1. QED
    BY <1>6
<1> HIDE DEF after
<1>8. after[0] = StartSearch(start, goal)
  BY <1>1, <1>7
<1>9. ASSUME NEW k \in Nat, k < last PROVE after[k + 1] = Expand(after[k], ok, goal)
  <2>1. k + 1 \in 0..last /\ k + 1 # 0 /\ (k + 1) - 1 = k
    BY <1>1, <1>9
  <2>2. QED
    BY <1>7, <2>1
<1>10. QED
  BY <1>1, <1>2, <1>8, <1>9 DEF last

LEMMA SearchIsSound ==
  ASSUME NEW ok, IsFiniteSet(ok), ok \subseteq Points, NEW start \in Points, NEW goal \in Points
  PROVE  Sound(Search(ok, start, goal), ok, start, goal)
<1>1. PICK a : /\ a[0] = StartSearch(start, goal)
               /\ \A k \in Nat : k < 4 * Cardinality(ok) + 2 => a[k + 1] = Expand(a[k], ok, goal)
               /\ Search(ok, start, goal) = a[4 * Cardinality(ok) + 2]
  BY SearchUnrolls
<1> DEFINE last == 4 * Cardinality(ok) + 2
           T == {k \in Nat : k <= last => Sound(a[k], ok, start, goal)}
<1>2. last \in Nat
  BY SearchUnrolls
<1> HIDE DEF last
<1>3. 0 \in T
  BY <1>1, SearchStartsSound
<1>4. ASSUME NEW k \in Nat, k \in T PROVE k + 1 \in T
  <2>1. ASSUME k + 1 <= last PROVE Sound(a[k + 1], ok, start, goal)
    <3>1. k < last /\ k <= last
      BY <1>2, <2>1
    <3>2. a[k + 1] = Expand(a[k], ok, goal) /\ Sound(a[k], ok, start, goal)
      BY <1>1, <1>4, <3>1 DEF last
    <3>3. QED
      BY <3>2, ExpandKeepsSound
  <2>2. QED
    BY <2>1
<1>5. last \in T
  <2>1. Nat \subseteq T
    BY <1>3, <1>4, AllNumbers
  <2> HIDE DEF T
  <2>2. QED
    BY <1>2, <2>1
<1>6. QED
  BY <1>1, <1>2, <1>5 DEF last

\* From cell to cell, each a move from the one before, within ok, and to b.
IsWay(w, ok, a, b) ==
  /\ w \in Seq(ok)
  /\ IF w = <<>> THEN a = b ELSE w[Len(w)] = b
  /\ \A i \in 1..Len(w) : w[i] \in Neighbours(IF i = 1 THEN a ELSE w[i - 1])

LEMMA OneMoveMore ==
  ASSUME NEW ok, NEW a, NEW b, NEW w, IsWay(w, ok, a, b), NEW c \in ok, c \in Neighbours(b)
  PROVE  IsWay(Append(w, c), ok, a, c)
<1> DEFINE v == Append(w, c)
<1>1. w \in Seq(ok) /\ Len(w) \in Nat
  BY DEF IsWay
<1>2. /\ v \in Seq(ok) /\ Len(v) = Len(w) + 1 /\ v[Len(w) + 1] = c
      /\ \A i \in 1..Len(w) : v[i] = w[i]
  BY <1>1, AppendProperties
<1>3. v # <<>> /\ v[Len(v)] = c
  BY <1>1, <1>2, EmptySeq
<1>4. ASSUME NEW i \in 1..Len(v) PROVE v[i] \in Neighbours(IF i = 1 THEN a ELSE v[i - 1])
  <2>1. CASE i <= Len(w)
    <3>1. i \in 1..Len(w) /\ v[i] = w[i] /\ (i # 1 => v[i - 1] = w[i - 1])
      BY <1>1, <1>2, <2>1
    <3>2. QED
      BY <3>1 DEF IsWay
  <2>2. CASE i = Len(w) + 1 /\ Len(w) = 0
    <3>1. w = <<>> /\ i = 1 /\ v[i] = c
      BY <1>1, <1>2, <2>2, EmptySeq
    <3>2. QED
      BY <3>1 DEF IsWay
  <2>3. CASE i = Len(w) + 1 /\ Len(w) # 0
    <3>1. i # 1 /\ v[i - 1] = w[Len(w)] /\ v[i] = c /\ w # <<>>
      BY <1>1, <1>2, <2>3, EmptySeq
    <3>2. QED
      BY <3>1 DEF IsWay
  <2>4. QED
    BY <1>1, <1>2, <2>1, <2>2, <2>3
<1> HIDE DEF v
<1>5. IsWay(v, ok, a, c)
  BY <1>2, <1>3, <1>4 DEF IsWay
<1>6. QED
  BY <1>5 DEF v

\* Following the parents back ends at the start: each is at one move less.  The
\* way has as many moves as the search has counted.
LEMMA ParentsLeadBack ==
  ASSUME NEW ok, NEW start, NEW goal, NEW s, Sound(s, ok, start, goal),
         NEW c \in DOMAIN s.g
  PROVE  /\ IsWay(ReconstructPath(s.parent, start, c), ok, start, c)
         /\ Len(ReconstructPath(s.parent, start, c)) = s.g[c]
<1> DEFINE P == s.parent
           D == DOMAIN P \cup {start}
           G(f, x) == IF x = start THEN <<>> ELSE Append(f[P[x]], x)
           to == CHOOSE f : f = [x \in D |-> G(f, x)]
           Near(n) == {x \in D : s.g[x] < n}
           Defined == {n \in Nat : \E f : f = [x \in Near(n) |-> G(f, x)]}
           Back == {n \in Nat : \A x \in Near(n) : IsWay(to[x], ok, start, x) /\ Len(to[x]) = s.g[x]}
<1>1. /\ DOMAIN s.g = D /\ s.g[start] = 0 /\ \A x \in D : s.g[x] \in Nat
      /\ \A x \in D \ {start} : /\ x \in ok /\ P[x] \in D
                                /\ x \in Neighbours(P[x]) /\ s.g[x] = s.g[P[x]] + 1
  BY DEF Sound
<1>2. ReconstructPath(P, start, c) = to[c]
  BY DEF ReconstructPath
<1> HIDE DEF D, P
<1>3. ASSUME NEW n \in Nat, NEW x \in Near(n + 1), x # start PROVE P[x] \in Near(n) /\ P[x] \in Near(n + 1)
  <2>1. P[x] \in D /\ s.g[x] = s.g[P[x]] + 1 /\ s.g[P[x]] \in Nat /\ s.g[x] < n + 1
    BY <1>1, <1>3
  <2>2. QED
    BY <2>1
<1>4. \A n \in Nat : Near(0) = {} /\ Near(n) \subseteq Near(n + 1) /\ Near(n) \subseteq D
  BY <1>1
<1>5. 0 \in Defined
  <2>1. PICK f : f = [x \in Near(0) |-> <<>>]
    OBVIOUS
  <2> HIDE DEF Near, G
  <2>2. f = [x \in Near(0) |-> G(f, x)]
    BY <1>4, <2>1
  <2>3. QED
    BY <2>2
<1>6. ASSUME NEW n \in Nat, n \in Defined PROVE n + 1 \in Defined
  <2>1. PICK f : f = [x \in Near(n) |-> G(f, x)]
    BY <1>6
  <2>2. PICK g : g = [x \in Near(n + 1) |-> G(f, x)]
    OBVIOUS
  <2>3. ASSUME NEW x \in Near(n + 1) PROVE G(f, x) = G(g, x)
    <3>1. CASE x = start
      BY <3>1
    <3>2. CASE x # start
      <4>1. P[x] \in Near(n) /\ P[x] \in Near(n + 1)
        BY <1>3, <3>2
      <4> HIDE DEF Near
      <4>2. f[P[x]] = G(f, P[x]) /\ g[P[x]] = G(f, P[x])
        BY <2>1, <2>2, <4>1
      <4>3. f[P[x]] = g[P[x]]
        BY <4>2
      <4>4. QED
        BY <4>3
    <3>3. QED
      BY <3>1, <3>2
  <2> HIDE DEF G, Near
  <2>4. g = [x \in Near(n + 1) |-> G(g, x)]
    BY <2>2, <2>3
  <2>5. QED
    BY <2>4
<1>7. ASSUME NEW n \in Nat PROVE n \in Defined
  <2>1. Nat \subseteq Defined
    BY <1>5, <1>6, AllNumbers
  <2> HIDE DEF Defined
  <2>2. QED
    BY <2>1
<1>8. to = [x \in D |-> G(to, x)]
  <2>1. PICK n \in Nat : \A x \in D : s.g[x] < n
    BY <1>1 DEF Sound
  <2>2. Near(n) = D
    BY <2>1
  <2>3. PICK f : f = [x \in D |-> G(f, x)]
    BY <1>7, <2>2
  <2> HIDE DEF G
  <2>4. QED
    BY <2>3
<1> HIDE DEF to
<1>9. 0 \in Back
  BY <1>4
<1>10. ASSUME NEW n \in Nat, n \in Back PROVE n + 1 \in Back
  <2>1. ASSUME NEW x \in Near(n + 1) PROVE IsWay(to[x], ok, start, x) /\ Len(to[x]) = s.g[x]
    <3>1. CASE x = start
      <4>1. to[x] = <<>> /\ Len(<<>>) = 0 /\ <<>> \in Seq(ok)
        BY <1>8, <3>1, EmptySeq
      <4>2. QED
        BY <1>1, <3>1, <4>1 DEF IsWay
    <3>2. CASE x # start
      <4>1. P[x] \in Near(n) /\ x \in D
        BY <1>3, <3>2
      <4>2. IsWay(to[P[x]], ok, start, P[x]) /\ Len(to[P[x]]) = s.g[P[x]]
        BY <1>10, <4>1
      <4>3. to[x] = Append(to[P[x]], x)
        BY <1>8, <3>2, <4>1
      <4>4. x \in ok /\ x \in Neighbours(P[x])
        BY <1>1, <3>2, <4>1
      <4> HIDE DEF Near
      <4>5. to[P[x]] \in Seq(ok) /\ s.g[x] = s.g[P[x]] + 1
        BY <1>1, <3>2, <4>1, <4>2 DEF IsWay
      <4>6. Len(to[x]) = s.g[x]
        BY <4>2, <4>3, <4>4, <4>5, AppendProperties
      <4>7. QED
        BY <4>2, <4>3, <4>4, <4>6, OneMoveMore
    <3>3. QED
      BY <3>1, <3>2
  <2> HIDE DEF Near
  <2>2. QED
    BY <2>1
<1>11. s.g[c] + 1 \in Back /\ c \in Near(s.g[c] + 1)
  <2>1. s.g[c] \in Nat /\ c \in D
    BY <1>1
  <2>2. Nat \subseteq Back
    BY <1>9, <1>10, AllNumbers
  <2>3. c \in Near(s.g[c] + 1)
    BY <2>1
  <2> HIDE DEF Back
  <2>4. QED
    BY <2>1, <2>2, <2>3
<1>12. IsWay(to[c], ok, start, c) /\ Len(to[c]) = s.g[c]
  <2> HIDE DEF Near
  <2>1. QED
    BY <1>11
<1>13. QED
  BY <1>2, <1>12 DEF P

\* What A* answers, if it answers, can be walked from the start to the goal.
LEMMA AStarIsAWay ==
  ASSUME NEW ok, IsFiniteSet(ok), ok \subseteq Points, NEW start \in Points, NEW goal \in Points,
         AStar(ok, start, goal) # <<>>
  PROVE  start # goal /\ goal \in ok /\ IsWay(AStar(ok, start, goal), ok, start, goal)
<1> DEFINE s == Search(ok, start, goal)
<1>1. Sound(s, ok, start, goal)
  BY SearchIsSound
<1>2. start # goal /\ goal \in ok /\ s.found /\ AStar(ok, start, goal) = ReconstructPath(s.parent, start, goal)
  BY DEF AStar
<1> HIDE DEF s
<1>3. goal \in DOMAIN s.g
  BY <1>1, <1>2 DEF Sound
<1>4. QED
  BY <1>1, <1>2, <1>3, ParentsLeadBack

-----------------------------------------------------------------------------
(* The flood fill *)

\* What the flood fill has visited after k rounds, as a spread from the start
\* that asks all it has reached again: only the last round's cells bring more.
Spreads(f, ok, start) ==
  /\ f \in [Nat -> SUBSET (ok \cup {start})] /\ f[0] = {start}
  /\ \A k \in Nat : f[k + 1] = f[k] \cup ((UNION {Neighbours(c) : c \in f[k]}) \cap ok)

LEMMA FloodSpreads ==
  ASSUME NEW ok, IsFiniteSet(ok), NEW start
  PROVE  \E f : /\ Spreads(f, ok, start)
                /\ \A n \in Nat : f[n] \subseteq f[Cardinality(ok)]
                /\ \A n \in Nat : Reachable(ok, start, n) = f[n] \ {start}
<1> DEFINE V == ok \cup {start}
           Wider(T) == T \cup ((UNION {Neighbours(c) : c \in T}) \cap ok)
           step == [T \in SUBSET V |-> Wider(T)]
           N == Cardinality(ok)
<1>1. step \in [SUBSET V -> SUBSET V] /\ {start} \in SUBSET V
      /\ \A T \in SUBSET V : T \subseteq step[T] /\ step[T] = Wider(T)
  OBVIOUS
<1> HIDE DEF step
<1>2. PICK f \in [Nat -> SUBSET V] : f[0] = {start} /\ \A k \in Nat : f[k + 1] = step[f[k]]
  <2> DEFINE sets == SUBSET V
             first == {start}
  <2>1. step \in [sets -> sets] /\ first \in sets
    BY <1>1
  <2> HIDE DEF sets, first
  <2>2. \E f \in [Nat -> sets] : f[0] = first /\ \A k \in Nat : f[k + 1] = step[f[k]]
    BY <2>1, Iterates
  <2>3. QED
    BY <2>2 DEF sets, first
<1>3. \A k \in Nat : f[k + 1] = Wider(f[k])
  <2> HIDE DEF V, Wider
  <2>1. QED
    BY <1>1, <1>2
<1>4. N \in Nat /\ IsFiniteSet(V) /\ Cardinality(V) <= N + 1
  <2>1. IsFiniteSet(V) /\ Cardinality(V) = IF start \in ok THEN N ELSE N + 1
    BY FS_AddElement
  <2>2. N \in Nat
    BY FS_CardinalityType
  <2> HIDE DEF V, N
  <2>3. QED
    BY <2>1, <2>2
<1>5. \A n \in Nat : f[n] \subseteq f[N]
  <2>1. f[0] # {}
    BY <1>2
  <2> HIDE DEF V, N, Wider
  <2>2. QED
    BY <1>1, <1>2, <1>4, <2>1, Saturates
<1> DEFINE Next2(s) == ((UNION {Neighbours(c) : c \in s.frontier}) \cap ok) \ s.visited
           Grow(s) == [visited |-> s.visited \cup Next2(s), frontier |-> Next2(s)]
           first == [visited |-> {start}, frontier |-> {start}]
           G(F, k) == IF k = 0 THEN first ELSE Grow(F[k - 1])
           flood == CHOOSE F : F = [k \in Nat |-> G(F, k)]
           edge(k) == IF k = 0 THEN {start} ELSE f[k] \ f[k - 1]
           h == [k \in Nat |-> [visited |-> f[k], frontier |-> edge(k)]]
<1>6. \A n : Reachable(ok, start, n) = flood[n].visited \ {start}
  BY DEF Reachable
<1>7. ASSUME NEW k \in Nat PROVE h[k + 1] = Grow(h[k])
  <2>0. k + 1 \in Nat /\ k + 1 # 0 /\ (k + 1) - 1 = k
    OBVIOUS
  <2>1. h[k].visited = f[k] /\ h[k].frontier = edge(k)
    <3> HIDE DEF edge
    <3>1. QED
      OBVIOUS
  <2>2. ASSUME NEW c \in f[k], c \notin edge(k) PROVE Neighbours(c) \cap ok \subseteq f[k]
    <3>1. k # 0
      BY <1>2, <2>2
    <3>2. k - 1 \in Nat /\ (k - 1) + 1 = k /\ c \in f[k - 1]
      BY <2>2, <3>1
    <3>3. f[k] = Wider(f[k - 1])
      BY <1>3, <3>2
    <3>4. QED
      BY <3>2, <3>3
  <2>3. edge(k) \subseteq f[k]
    BY <1>2
  <2> HIDE DEF edge, h
  <2>4. Next2(h[k]) = f[k + 1] \ f[k]
    <3>1. f[k + 1] = Wider(f[k])
      BY <1>3
    <3>2. ASSUME NEW x \in Next2(h[k]) PROVE x \in f[k + 1] \ f[k]
      BY <2>1, <2>3, <3>1, <3>2
    <3>3. ASSUME NEW x \in f[k + 1] \ f[k] PROVE x \in Next2(h[k])
      <4>1. x \in ok /\ \E c \in f[k] : x \in Neighbours(c)
        BY <3>1
      <4>2. PICK c \in f[k] : x \in Neighbours(c)
        BY <4>1
      <4>3. c \in edge(k)
        BY <2>2, <4>1, <4>2
      <4>4. QED
        BY <2>1, <4>1, <4>2, <4>3
    <3>4. QED
      BY <3>2, <3>3
  <2>5. f[k] \subseteq f[k + 1]
    BY <1>3
  <2>6. h[k + 1] = [visited |-> f[k + 1], frontier |-> f[k + 1] \ f[k]]
    BY <2>0 DEF h, edge
  <2>7. f[k] \cup (f[k + 1] \ f[k]) = f[k + 1]
    BY <2>5
  <2> HIDE DEF Next2
  <2>8. QED
    BY <2>1, <2>4, <2>6, <2>7
<1>8. h[0] = first
  BY <1>2
<1>9. ASSUME NEW k \in Nat PROVE h[k] = G(h, k)
  <2>1. CASE k = 0
    BY <1>8, <2>1
  <2>2. CASE k # 0
    <3>1. k - 1 \in Nat /\ (k - 1) + 1 = k
      BY <2>2
    <3> HIDE DEF h, Grow, first
    <3>2. h[k] = Grow(h[k - 1])
      BY <1>7, <3>1
    <3>3. QED
      BY <2>2, <3>2
  <2> HIDE DEF h, G
  <2>3. QED
    BY <2>1, <2>2
<1>10. flood = [k \in Nat |-> G(flood, k)]
  <2> HIDE DEF G, edge
  <2>1. h = [k \in Nat |-> h[k]]
    OBVIOUS
  <2> HIDE DEF h
  <2>2. h = [k \in Nat |-> G(h, k)]
    BY <1>9, <2>1
  <2>3. QED
    BY <2>2
<1> HIDE DEF flood
<1> DEFINE Same == {k \in Nat : flood[k] = h[k]}
<1>11. 0 \in Same
  <2>1. flood[0] = first
    BY <1>10
  <2> HIDE DEF h, first
  <2>2. QED
    BY <1>8, <2>1
<1>12. ASSUME NEW k \in Nat, k \in Same PROVE k + 1 \in Same
  <2>1. k + 1 \in Nat /\ k + 1 # 0 /\ (k + 1) - 1 = k /\ flood[k] = h[k]
    BY <1>12
  <2> HIDE DEF h, Grow, first
  <2>2. flood[k + 1] = Grow(flood[k])
    BY <1>10, <2>1
  <2>3. QED
    BY <1>7, <2>1, <2>2
<1>13. \A k \in Nat : flood[k].visited = f[k]
  <2>1. Nat \subseteq Same
    <3> HIDE DEF Same
    <3>1. QED
      BY <1>11, <1>12, AllNumbers
  <2>2. \A k \in Nat : h[k].visited = f[k]
    OBVIOUS
  <2> HIDE DEF h
  <2>3. QED
    BY <2>1, <2>2
<1> HIDE DEF h
<1>14. \A n \in Nat : Reachable(ok, start, n) = f[n] \ {start}
  BY <1>6, <1>13
<1>15. \A k \in Nat : f[k + 1] = f[k] \cup ((UNION {Neighbours(c) : c \in f[k]}) \cap ok)
  BY <1>3
<1> HIDE DEF Wider
<1>16. Spreads(f, ok, start)
  BY <1>2, <1>15 DEF Spreads
<1>17. QED
  BY <1>5, <1>14, <1>16

-----------------------------------------------------------------------------
(* A* finds a shortest way *)

\* The estimate never falls by more than a move takes (manhattan).
LEMMA EstimatesAgree ==
  ASSUME NEW a \in Points, NEW b \in Points, NEW c \in Neighbours(b)
  PROVE  /\ c \in Points /\ c # b
         /\ Manhattan(b, a) <= Manhattan(c, a) + 1 /\ Manhattan(c, a) <= Manhattan(b, a) + 1
         /\ Manhattan(a, c) <= Manhattan(a, b) + 1
         /\ Manhattan(a, a) = 0
<1>1. PICK d \in Directions : c = Add(b, d)
  BY DEF Neighbours
<1>2. /\ a[1] \in Int /\ a[2] \in Int /\ b[1] \in Int /\ b[2] \in Int
      /\ b = <<b[1], b[2]>>
  BY DEF Points
<1>3. \/ c = <<b[1] + 1, b[2]>> \/ c = <<b[1] - 1, b[2]>>
      \/ c = <<b[1], b[2] + 1>> \/ c = <<b[1], b[2] - 1>>
  BY <1>1, <1>2 DEF Directions, Add
<1>4. c \in Points /\ c # b
  BY <1>2, <1>3 DEF Points
<1>5. Manhattan(a, a) = 0
  BY <1>2 DEF Manhattan, Size
<1>6. \A x, y \in Int : /\ Size(x - y) = Size(y - x) /\ Size(x) \in Nat
                        /\ Size(x + 1 - y) <= Size(x - y) + 1 /\ Size(x - y) <= Size(x + 1 - y) + 1
                        /\ Size(x - 1 - y) <= Size(x - y) + 1 /\ Size(x - y) <= Size(x - 1 - y) + 1
  BY DEF Size
<1>7. Manhattan(b, a) <= Manhattan(c, a) + 1 /\ Manhattan(c, a) <= Manhattan(b, a) + 1
  <2>1. CASE c[2] = b[2] /\ (c[1] = b[1] + 1 \/ c[1] = b[1] - 1)
    <3>1. Size(c[1] - a[1]) <= Size(b[1] - a[1]) + 1 /\ Size(b[1] - a[1]) <= Size(c[1] - a[1]) + 1
      <4>1. CASE c[1] = b[1] + 1
        BY <1>2, <1>6, <4>1
      <4>2. CASE c[1] = b[1] - 1
        BY <1>2, <1>6, <4>2
      <4>3. QED
        BY <2>1, <4>1, <4>2
    <3>2. Size(c[2] - a[2]) = Size(b[2] - a[2])
      BY <2>1
    <3>3. Size(c[1] - a[1]) \in Int /\ Size(b[1] - a[1]) \in Int /\ Size(b[2] - a[2]) \in Int
      BY <1>2, <2>1 DEF Size
    <3>4. \A p, q : Manhattan(p, q) = Size(p[1] - q[1]) + Size(p[2] - q[2])
      BY DEF Manhattan
    <3>5. QED
      BY <3>1, <3>2, <3>3, <3>4
  <2>2. CASE c[1] = b[1] /\ (c[2] = b[2] + 1 \/ c[2] = b[2] - 1)
    <3>1. Size(c[2] - a[2]) <= Size(b[2] - a[2]) + 1 /\ Size(b[2] - a[2]) <= Size(c[2] - a[2]) + 1
      <4>1. CASE c[2] = b[2] + 1
        BY <1>2, <1>6, <4>1
      <4>2. CASE c[2] = b[2] - 1
        BY <1>2, <1>6, <4>2
      <4>3. QED
        BY <2>2, <4>1, <4>2
    <3>2. Size(c[1] - a[1]) = Size(b[1] - a[1])
      BY <2>2
    <3>3. Size(c[2] - a[2]) \in Int /\ Size(b[2] - a[2]) \in Int /\ Size(b[1] - a[1]) \in Int
      BY <1>2, <2>2 DEF Size
    <3>4. \A p, q : Manhattan(p, q) = Size(p[1] - q[1]) + Size(p[2] - q[2])
      BY DEF Manhattan
    <3>5. QED
      BY <3>1, <3>2, <3>3, <3>4
  <2>3. QED
    BY <1>3, <2>1, <2>2
<1>8. \A p, q \in Points : Manhattan(p, q) = Manhattan(q, p)
  BY <1>6 DEF Manhattan, Points
<1>9. Manhattan(a, c) <= Manhattan(a, b) + 1
  BY <1>4, <1>7, <1>8
<1>10. QED
  BY <1>4, <1>5, <1>7, <1>9

\* What makes the first way found a shortest one.  Whatever has been reached and
\* is not done waits with its estimate; no entry is below the estimate of its
\* cell, or of one that is done; what is done has told its neighbours.
Best(s, ok, goal) ==
  /\ \A y \in DOMAIN s.g \ s.closed : <<y, s.g[y] + Manhattan(y, goal)>> \in s.open
  /\ \A e \in s.open : s.g[e[1]] + Manhattan(e[1], goal) <= e[2]
  /\ \A x \in s.closed : \A e \in s.open : s.g[x] + Manhattan(x, goal) <= e[2]
  /\ \A x \in s.closed : \A y \in Neighbours(x) \cap ok : y \in DOMAIN s.g /\ s.g[y] <= s.g[x] + 1
  /\ s.found => \A e \in s.open : s.g[goal] <= e[2]
  /\ goal \notin s.closed

LEMMA SearchStartsBest ==
  ASSUME NEW ok, NEW start \in Points, NEW goal \in Points
  PROVE  Best(StartSearch(start, goal), ok, goal)
<1> DEFINE s == StartSearch(start, goal)
<1>1. /\ s.open = {<<start, Manhattan(start, goal)>>} /\ s.closed = {} /\ s.found = FALSE
      /\ s.g = [c \in {start} |-> 0]
  BY DEF StartSearch
<1>2. DOMAIN s.g = {start} /\ s.g[start] = 0
  BY <1>1
<1>3. Manhattan(start, goal) \in Nat
  BY ManhattanIsNat
<1> HIDE DEF s
<1>4. 0 + Manhattan(start, goal) = Manhattan(start, goal)
  BY <1>3
<1>5. Best(s, ok, goal)
  BY <1>1, <1>2, <1>3, <1>4 DEF Best
<1>6. QED
  BY <1>5 DEF s

LEMMA ReachedArePoints ==
  ASSUME NEW ok, ok \subseteq Points, NEW start \in Points, NEW goal, NEW s, Sound(s, ok, start, goal)
  PROVE  DOMAIN s.g \subseteq Points
BY DEF Sound

LEMMA ExpandKeepsBest ==
  ASSUME NEW ok, ok \subseteq Points, NEW start \in Points, NEW goal \in Points,
         NEW s, Sound(s, ok, start, goal), Best(s, ok, goal)
  PROVE  Best(Expand(s, ok, goal), ok, goal)
<1> DEFINE e == Cheapest(s.open)
           cell == e[1]
           better == Better(s, cell, ok)
           t == Expand(s, ok, goal)
<1> SUFFICES Best(t, ok, goal)
  OBVIOUS
<1>0. DOMAIN s = {"open", "closed", "found", "g", "parent"}
      /\ DOMAIN s.g \subseteq Points /\ \A c \in DOMAIN s.g : s.g[c] \in Nat /\ Manhattan(c, goal) \in Nat
  BY ReachedArePoints, ManhattanIsNat DEF Sound
<1>1. CASE s.found \/ s.open = {}
  BY <1>1 DEF Expand
<1>2. CASE ~(s.found \/ s.open = {})
  <2>1. e \in s.open /\ cell \in DOMAIN s.g /\ s.g[cell] \in Nat /\ cell \in Points /\ e[2] \in Nat
    BY <1>0, <1>2, CheapestIsOpen DEF Sound
  <2>0. \A o \in s.open : e[2] <= o[2]
    <3>1. \E c \in s.open : \A o \in s.open : c[2] <= o[2]
      BY <1>2, LeastIsOpen DEF Sound
    <3>2. QED
      BY <3>1 DEF Cheapest
  <2>2. CASE cell = goal
    <3>1. t = [s EXCEPT !.found = TRUE]
      BY <1>2, <2>2 DEF Expand
    <3>2. t.open = s.open /\ t.closed = s.closed /\ t.g = s.g
      BY <3>1 DEF Sound
    <3>3. \A o \in s.open : s.g[goal] <= o[2]
      <4>1. s.g[goal] + Manhattan(goal, goal) <= e[2] /\ Manhattan(goal, goal) = 0
        <5>1. Manhattan(goal, goal) = 0
          BY DEF Manhattan, Size, Points
        <5>2. QED
          BY <2>1, <2>2, <5>1 DEF Best
      <4>2. s.g[goal] <= e[2]
        BY <2>1, <2>2, <4>1
      <4>3. \A o \in s.open : o[2] \in Nat
        BY DEF Sound
      <4> HIDE DEF e, cell
      <4>4. QED
        BY <2>0, <2>1, <2>2, <4>2, <4>3
    <3> HIDE DEF t, e
    <3>4. QED
      BY <3>2, <3>3 DEF Best
  <2>3. CASE cell # goal /\ cell \in s.closed
    <3>1. t = [s EXCEPT !.open = @ \ {e}]
      BY <1>2, <2>3 DEF Expand
    <3>2. /\ t.open = s.open \ {e} /\ t.closed = s.closed /\ t.g = s.g
          /\ t.found = s.found
      BY <1>0, <3>1
    <3>3. \A y \in DOMAIN s.g \ s.closed : <<y, s.g[y] + Manhattan(y, goal)>> # e
      BY <2>3
    <3> HIDE DEF t, e
    <3>4. QED
      BY <3>2, <3>3 DEF Best
  <2>4. CASE cell # goal /\ cell \notin s.closed
    <3> DEFINE new(n) == s.g[cell] + 1 + Manhattan(n, goal)
               pushed == {<<n, new(n)>> : n \in better}
               g == Assigned(s.g, better, s.g[cell] + 1)
               parent == Assigned(s.parent, better, cell)
    <3>1. t = [s EXCEPT !.open = (@ \ {e}) \cup pushed, !.closed = @ \cup {cell}, !.g = g, !.parent = parent]
      BY <1>2, <2>4 DEF Expand
    <3>2. /\ DOMAIN g = better \cup DOMAIN s.g
          /\ \A n \in better : g[n] = s.g[cell] + 1
          /\ \A n \in DOMAIN s.g \ better : g[n] = s.g[n]
      BY DEF Assigned
    <3>3. \A n \in better : /\ n \in ok /\ n \in Neighbours(cell) /\ n \notin s.closed /\ n # cell
                            /\ n \in DOMAIN s.g => s.g[cell] + 1 < s.g[n]
      BY <2>1 DEF Better
    <3>4. \A n \in Neighbours(cell) \cap ok : n \notin s.closed /\ n \notin better => n \in DOMAIN s.g /\ s.g[n] <= s.g[cell] + 1
      <4>1. ASSUME NEW n \in Neighbours(cell) \cap ok, n \notin s.closed, n \notin better
            PROVE  n \in DOMAIN s.g /\ ~(s.g[cell] + 1 < s.g[n])
        BY <4>1 DEF Better
      <4>2. QED
        BY <1>0, <2>1, <4>1
    <3>5. /\ t.open = (s.open \ {e}) \cup pushed
          /\ t.closed = s.closed \cup {cell} /\ t.g = g /\ t.found = s.found
      BY <1>0, <3>1
    <3>6. ~s.found
      BY <1>2
    <3>7. \A x \in pushed : \E n \in better : x = <<n, new(n)>>
      OBVIOUS
    <3>8. \A n \in better : <<n, new(n)>> \in pushed
      OBVIOUS
    <3>9. e[2] = s.g[cell] + Manhattan(cell, goal)
      <4>1. <<cell, s.g[cell] + Manhattan(cell, goal)>> \in s.open
        BY <2>1, <2>4 DEF Best
      <4>2. e[2] <= s.g[cell] + Manhattan(cell, goal)
        <5>1. <<cell, s.g[cell] + Manhattan(cell, goal)>>[2] = s.g[cell] + Manhattan(cell, goal)
          OBVIOUS
        <5> HIDE DEF e, cell
        <5>2. QED
          BY <2>0, <4>1, <5>1
      <4>3. s.g[cell] + Manhattan(cell, goal) <= e[2]
        BY <2>1 DEF Best
      <4>4. QED
        BY <1>0, <2>1, <4>2, <4>3
    <3> HIDE DEF g, parent, better, pushed, t, e, cell
    <3>10. \A n \in better : n \in Points /\ Manhattan(n, goal) \in Nat /\ new(n) \in Nat /\ e[2] <= new(n)
                             /\ g[n] + Manhattan(n, goal) = new(n)
      <4>1. SUFFICES ASSUME NEW n \in better
                     PROVE  n \in Points /\ Manhattan(n, goal) \in Nat /\ new(n) \in Nat /\ e[2] <= new(n)
                            /\ g[n] + Manhattan(n, goal) = new(n)
        OBVIOUS
      <4>2. n \in Points /\ Manhattan(cell, goal) <= Manhattan(n, goal) + 1
        BY <2>1, <3>3, EstimatesAgree
      <4>3. Manhattan(n, goal) \in Nat /\ Manhattan(cell, goal) \in Nat
        BY <2>1, <4>2, ManhattanIsNat
      <4>4. g[n] = s.g[cell] + 1
        BY <3>2
      <4>5. QED
        BY <2>1, <3>9, <4>2, <4>3, <4>4
    <3>11. \A c \in s.closed \cup {cell} : c \in DOMAIN s.g /\ c \notin better /\ g[c] = s.g[c]
      BY <2>1, <3>2, <3>3 DEF Sound
    <3>12. \A y \in DOMAIN s.g : g[y] <= s.g[y] /\ g[y] \in Nat
      <4>1. SUFFICES ASSUME NEW y \in DOMAIN s.g PROVE g[y] <= s.g[y] /\ g[y] \in Nat
        OBVIOUS
      <4>2. CASE y \in better
        BY <1>0, <2>1, <3>2, <3>3, <4>2
      <4>3. CASE y \notin better
        BY <1>0, <3>2, <4>3
      <4>4. QED
        BY <4>2, <4>3
    <3>13. \A y \in DOMAIN t.g \ t.closed : <<y, t.g[y] + Manhattan(y, goal)>> \in t.open
      <4>1. SUFFICES ASSUME NEW y \in DOMAIN g, y \notin s.closed, y # cell
                     PROVE  <<y, g[y] + Manhattan(y, goal)>> \in (s.open \ {e}) \cup pushed
        BY <3>5
      <4>2. CASE y \in better
        BY <3>8, <3>10, <4>2
      <4>3. CASE y \notin better
        <5>1. y \in DOMAIN s.g /\ g[y] = s.g[y]
          BY <3>2, <4>3
        <5>2. <<y, s.g[y] + Manhattan(y, goal)>> \in s.open
          BY <4>1, <5>1 DEF Best
        <5>3. <<y, s.g[y] + Manhattan(y, goal)>> # e
          BY <4>1 DEF cell
        <5>4. QED
          BY <5>1, <5>2, <5>3
      <4>4. QED
        BY <4>2, <4>3
    <3>14. \A o \in t.open : /\ t.g[o[1]] + Manhattan(o[1], goal) <= o[2]
                             /\ e[2] <= o[2] /\ o[2] \in Nat
      <4>1. ASSUME NEW o \in s.open
            PROVE  g[o[1]] + Manhattan(o[1], goal) <= o[2] /\ e[2] <= o[2] /\ o[2] \in Nat
        <5>1. o[1] \in DOMAIN s.g /\ o[2] \in Nat
          BY DEF Sound
        <5>2. s.g[o[1]] + Manhattan(o[1], goal) <= o[2]
          BY DEF Best
        <5>3. g[o[1]] + Manhattan(o[1], goal) <= o[2]
          BY <1>0, <3>12, <5>1, <5>2
        <5>4. QED
          BY <2>0, <5>1, <5>3
      <4>2. ASSUME NEW o \in pushed
            PROVE  g[o[1]] + Manhattan(o[1], goal) <= o[2] /\ e[2] <= o[2] /\ o[2] \in Nat
        <5>1. PICK n \in better : o = <<n, new(n)>>
          BY <3>7
        <5>2. o[1] = n /\ o[2] = new(n)
          BY <5>1
        <5> HIDE DEF new
        <5>3. QED
          BY <3>10, <5>2
      <4>3. QED
        BY <3>5, <4>1, <4>2
    <3>15. \A x \in t.closed : \A o \in t.open : t.g[x] + Manhattan(x, goal) <= o[2]
      <4>1. SUFFICES ASSUME NEW x \in s.closed \cup {cell}, NEW o \in t.open
                     PROVE  g[x] + Manhattan(x, goal) <= o[2]
        BY <3>5
      <4>2. x \in DOMAIN s.g /\ g[x] = s.g[x]
        BY <3>11
      <4>3. s.g[x] + Manhattan(x, goal) <= e[2]
        BY <2>1, <3>9 DEF Best
      <4>4. e[2] <= o[2] /\ o[2] \in Nat
        BY <3>14
      <4>5. QED
        BY <1>0, <2>1, <4>2, <4>3, <4>4
    <3>16. \A x \in t.closed : \A y \in Neighbours(x) \cap ok : y \in DOMAIN t.g /\ t.g[y] <= t.g[x] + 1
      <4>1. SUFFICES ASSUME NEW x \in s.closed \cup {cell}, NEW y \in Neighbours(x) \cap ok
                     PROVE  y \in DOMAIN g /\ g[y] <= g[x] + 1
        BY <3>5
      <4>2. x \in DOMAIN s.g /\ g[x] = s.g[x] /\ s.g[x] \in Nat
        BY <1>0, <3>11
      <4>3. CASE x \in s.closed
        <5>1. y \in DOMAIN s.g /\ s.g[y] <= s.g[x] + 1
          BY <4>3 DEF Best
        <5>2. g[y] <= s.g[y] /\ g[y] \in Nat /\ s.g[y] \in Nat
          BY <1>0, <3>12, <5>1
        <5>3. QED
          BY <3>2, <4>2, <5>1, <5>2
      <4>4. CASE x = cell
        <5>1. CASE y \in better
          <6>1. y \in DOMAIN g /\ g[y] = s.g[cell] + 1
            BY <3>2, <5>1
          <6>2. QED
            BY <2>1, <4>2, <4>4, <6>1
        <5>2. CASE y \notin better /\ y \notin s.closed
          <6>1. y \in DOMAIN s.g /\ s.g[y] <= s.g[cell] + 1
            BY <3>4, <4>4, <5>2
          <6>2. y \in DOMAIN g /\ g[y] = s.g[y]
            BY <3>2, <5>2, <6>1
          <6>3. QED
            BY <4>2, <4>4, <6>1, <6>2
        <5>3. CASE y \in s.closed
          <6>1. y \in DOMAIN s.g /\ g[y] = s.g[y] /\ s.g[y] \in Nat /\ Manhattan(y, goal) \in Nat
            BY <1>0, <3>11, <5>3
          <6>2. s.g[y] + Manhattan(y, goal) <= s.g[cell] + Manhattan(cell, goal)
            BY <2>1, <3>9, <5>3 DEF Best
          <6>3. Manhattan(cell, goal) <= Manhattan(y, goal) + 1
            BY <2>1, <4>4, EstimatesAgree
          <6>4. Manhattan(cell, goal) \in Nat
            BY <2>1, ManhattanIsNat
          <6>5. s.g[y] <= s.g[cell] + 1
            BY <2>1, <6>1, <6>2, <6>3, <6>4
          <6>6. QED
            BY <3>2, <4>2, <4>4, <6>1, <6>5
        <5>4. QED
          BY <5>1, <5>2, <5>3
      <4>5. QED
        BY <4>3, <4>4
    <3>17. ~t.found /\ goal \notin t.closed
      BY <2>4, <3>5, <3>6 DEF Best
    <3>18. \A o \in t.open : t.g[o[1]] + Manhattan(o[1], goal) <= o[2]
      BY <3>14
    <3>19. QED
      BY <3>13, <3>15, <3>16, <3>17, <3>18 DEF Best
  <2>5. QED
    BY <2>2, <2>3, <2>4
<1>3. QED
  BY <1>1, <1>2

-----------------------------------------------------------------------------
(* The search ends *)

\* The moves that still lead out of what is done.
Left(s, ok) == {x \in ok \X Directions : Add(x[1], x[2]) \notin s.closed}

\* k expansions, or the end: what is left and what waits become less each time.
Spent(s, ok, k) ==
  /\ IsFiniteSet(s.open)
  /\ s.found \/ s.open = {} \/ Cardinality(s.open) + Cardinality(Left(s, ok)) + k <= 4 * Cardinality(ok) + 1

LEMMA DirectionsAreFour == IsFiniteSet(Directions) /\ Cardinality(Directions) = 4
<1> DEFINE a == <<1, 0>>
           b == <<-1, 0>>
           c == <<0, 1>>
           d == <<0, -1>>
<1>1. a # b /\ a # c /\ a # d /\ b # c /\ b # d /\ c # d
  OBVIOUS
<1>2. Directions = ((({} \cup {a}) \cup {b}) \cup {c}) \cup {d}
  BY DEF Directions
<1> HIDE DEF a, b, c, d
<1> DEFINE A == {} \cup {a}
           B == A \cup {b}
           C == B \cup {c}
           D == C \cup {d}
<1>3. IsFiniteSet(A) /\ Cardinality(A) = 1
  <2>1. IsFiniteSet({}) /\ Cardinality({}) = 0 /\ a \notin {}
    BY FS_EmptySet
  <2>2. Cardinality({} \cup {a}) = 0 + 1 /\ IsFiniteSet({} \cup {a})
    BY <2>1, FS_AddElement
  <2>3. QED
    BY <2>2
<1>4. b \notin A /\ c \notin B /\ d \notin C
  BY <1>1
<1> HIDE DEF A
<1>5. IsFiniteSet(B) /\ Cardinality(B) = 2
  BY <1>3, <1>4, FS_AddElement
<1> HIDE DEF B
<1>6. IsFiniteSet(C) /\ Cardinality(C) = 3
  BY <1>4, <1>5, FS_AddElement
<1> HIDE DEF C
<1>7. IsFiniteSet(D) /\ Cardinality(D) = 4
  BY <1>4, <1>6, FS_AddElement
<1>8. Directions = D
  BY <1>2 DEF A, B, C
<1> HIDE DEF D
<1>9. QED
  BY <1>7, <1>8

LEMMA LeftIsFinite ==
  ASSUME NEW ok, IsFiniteSet(ok), NEW s
  PROVE  /\ IsFiniteSet(Left(s, ok)) /\ Cardinality(Left(s, ok)) \in Nat
         /\ Cardinality(Left(s, ok)) <= 4 * Cardinality(ok)
<1> DEFINE all == ok \X Directions
<1>1. IsFiniteSet(all) /\ Cardinality(all) = Cardinality(ok) * Cardinality(Directions)
  BY DirectionsAreFour, FS_Product
<1>2. Cardinality(ok) \in Nat /\ Cardinality(all) = 4 * Cardinality(ok)
  BY <1>1, DirectionsAreFour, FS_CardinalityType
<1>3. Left(s, ok) \subseteq all
  BY DEF Left
<1> HIDE DEF all
<1>4. QED
  BY <1>1, <1>2, <1>3, FS_Subset, FS_CardinalityType

LEMMA ExpandSpends ==
  ASSUME NEW ok, IsFiniteSet(ok), ok \subseteq Points, NEW start \in Points, NEW goal \in Points,
         NEW s, Sound(s, ok, start, goal), NEW k \in Nat, Spent(s, ok, k)
  PROVE  Spent(Expand(s, ok, goal), ok, k + 1)
<1> DEFINE e == Cheapest(s.open)
           cell == e[1]
           better == Better(s, cell, ok)
           t == Expand(s, ok, goal)
           N == Cardinality(ok)
<1> SUFFICES Spent(t, ok, k + 1)
  OBVIOUS
<1>0. DOMAIN s = {"open", "closed", "found", "g", "parent"} /\ IsFiniteSet(s.open) /\ N \in Nat
  BY FS_CardinalityType DEF Sound, Spent
<1>1. CASE s.found \/ s.open = {}
  <2>1. t = s
    BY <1>1 DEF Expand
  <2>2. QED
    BY <1>0, <1>1, <2>1 DEF Spent
<1>2. CASE ~(s.found \/ s.open = {})
  <2>1. e \in s.open
    BY <1>2, CheapestIsOpen DEF Sound
  <2>2. Cardinality(s.open) + Cardinality(Left(s, ok)) + k <= 4 * N + 1
    BY <1>2 DEF Spent
  <2>3. /\ Cardinality(s.open) \in Nat /\ IsFiniteSet(s.open \ {e})
        /\ Cardinality(s.open \ {e}) = Cardinality(s.open) - 1 /\ Cardinality(Left(s, ok)) \in Nat
    <3> HIDE DEF e
    <3>1. QED
      BY <1>0, <2>1, FS_RemoveElement, FS_CardinalityType, LeftIsFinite
  <2>4. CASE cell = goal
    <3>1. t = [s EXCEPT !.found = TRUE]
      BY <1>2, <2>4 DEF Expand
    <3>2. t.open = s.open /\ t.found
      BY <1>0, <3>1
    <3> HIDE DEF t
    <3>3. QED
      BY <1>0, <3>2 DEF Spent
  <2>5. CASE cell # goal /\ cell \in s.closed
    <3>1. t = [s EXCEPT !.open = @ \ {e}]
      BY <1>2, <2>5 DEF Expand
    <3>2. t.open = s.open \ {e} /\ t.closed = s.closed
      BY <1>0, <3>1
    <3> HIDE DEF t, e
    <3>3. Left(t, ok) = Left(s, ok)
      BY <3>2 DEF Left
    <3>4. Cardinality(t.open) + Cardinality(Left(t, ok)) + (k + 1) <= 4 * N + 1
      BY <1>0, <2>2, <2>3, <3>2, <3>3
    <3>5. QED
      BY <2>3, <3>2, <3>4 DEF Spent
  <2>6. CASE cell # goal /\ cell \notin s.closed
    <3> DEFINE new == [n \in better |-> <<n, s.g[cell] + 1 + Manhattan(n, goal)>>]
               pushed == {<<n, s.g[cell] + 1 + Manhattan(n, goal)>> : n \in better}
               g == Assigned(s.g, better, s.g[cell] + 1)
               parent == Assigned(s.parent, better, cell)
               lost == {x \in ok \X Directions : Add(x[1], x[2]) = cell}
               from == [x \in lost |-> x[1]]
    <3>1. t = [s EXCEPT !.open = (@ \ {e}) \cup pushed, !.closed = @ \cup {cell}, !.g = g, !.parent = parent]
      BY <1>2, <2>6 DEF Expand
    <3>2. t.open = (s.open \ {e}) \cup pushed /\ t.closed = s.closed \cup {cell}
      <4> HIDE DEF t, pushed, g, parent, e
      <4>1. QED
        BY <1>0, <3>1
    <3>3. cell \in Points /\ better \subseteq ok /\ better \subseteq Neighbours(cell)
      BY <2>1, ReachedArePoints DEF Sound, Better
    <3>4. lost \subseteq Left(s, ok) /\ Left(t, ok) = Left(s, ok) \ lost
      <4> HIDE DEF t, e
      <4>1. QED
        BY <2>6, <3>2 DEF Left
    <3>5. IsFiniteSet(lost) /\ Cardinality(Left(t, ok)) = Cardinality(Left(s, ok)) - Cardinality(lost)
          /\ Cardinality(lost) \in Nat
      <4> HIDE DEF lost, t
      <4>1. IsFiniteSet(Left(s, ok))
        BY LeftIsFinite
      <4>2. IsFiniteSet(lost) /\ Cardinality(lost) \in Nat /\ Cardinality(Left(s, ok)) \in Nat
        BY <3>4, <4>1, FS_Subset, FS_CardinalityType
      <4>3. Left(s, ok) \cap lost = lost
        BY <3>4
      <4>4. Cardinality(Left(s, ok) \ lost) = Cardinality(Left(s, ok)) - Cardinality(lost)
        BY <4>1, <4>3, FS_Difference
      <4>5. QED
        BY <3>4, <4>2, <4>4
    <3>6. better \subseteq {from[x] : x \in lost}
      <4>1. SUFFICES ASSUME NEW n \in better PROVE n \in {from[x] : x \in lost}
        OBVIOUS
      <4>2. PICK d \in Directions : n = Add(cell, d)
        BY <3>3 DEF Neighbours
      <4> DEFINE b == <<-d[1], -d[2]>>
      <4>3. b \in Directions /\ Add(n, b) = cell
        BY <3>3, <4>2 DEF Directions, Add, Points
      <4>4. <<n, b>> \in lost
        BY <3>3, <4>3
      <4>5. from[<<n, b>>] = n
        BY <4>4
      <4> HIDE DEF lost, from
      <4>6. QED
        BY <4>4, <4>5
    <3>7. IsFiniteSet(better) /\ Cardinality(better) <= Cardinality(lost) /\ Cardinality(better) \in Nat
      <4>1. DOMAIN from = lost /\ from = [x \in lost |-> from[x]]
        OBVIOUS
      <4> HIDE DEF lost, from, better
      <4>2. IsFiniteSet({from[x] : x \in lost}) /\ Cardinality({from[x] : x \in lost}) <= Cardinality(lost)
            /\ Cardinality({from[x] : x \in lost}) \in Nat
        BY <3>5, <4>1, ImageIsFinite
      <4>3. IsFiniteSet(better) /\ Cardinality(better) <= Cardinality({from[x] : x \in lost})
        BY <3>6, <4>2, FS_Subset
      <4>4. QED
        BY <3>5, <4>2, <4>3, FS_CardinalityType
    <3>8. IsFiniteSet(pushed) /\ Cardinality(pushed) <= Cardinality(better) /\ Cardinality(pushed) \in Nat
      <4>1. DOMAIN new = better /\ new = [n \in better |-> new[n]] /\ pushed = {new[n] : n \in better}
        <5> HIDE DEF better, cell
        <5>1. QED
          OBVIOUS
      <4> HIDE DEF new, pushed, better
      <4>2. QED
        BY <3>7, <4>1, ImageIsFinite
    <3> HIDE DEF t, e, better, pushed, lost, from, new, cell
    <3>9. /\ IsFiniteSet(t.open) /\ Cardinality(t.open) \in Nat
          /\ Cardinality(t.open) <= Cardinality(s.open \ {e}) + Cardinality(pushed)
      <4> DEFINE A == s.open \ {e}
      <4>1. IsFiniteSet(A)
        BY <2>3
      <4>2. t.open = A \cup pushed
        BY <3>2
      <4> HIDE DEF A
      <4>3. /\ IsFiniteSet(A \cup pushed)
            /\ Cardinality(A \cup pushed) = Cardinality(A) + Cardinality(pushed) - Cardinality(A \cap pushed)
        BY <3>8, <4>1, FS_Union
      <4>4. IsFiniteSet(A \cap pushed)
        BY <4>1, FS_Intersection
      <4>5. Cardinality(A \cap pushed) \in Nat /\ Cardinality(A) \in Nat /\ Cardinality(A \cup pushed) \in Nat
        BY <4>1, <4>3, <4>4, FS_CardinalityType
      <4>6. QED
        BY <3>8, <4>2, <4>3, <4>5 DEF A
    <3>10. Cardinality(t.open) + Cardinality(Left(t, ok)) + (k + 1) <= 4 * N + 1
      BY <1>0, <2>2, <2>3, <3>5, <3>7, <3>8, <3>9
    <3>11. QED
      BY <3>9, <3>10 DEF Spent
  <2>7. QED
    BY <2>4, <2>5, <2>6
<1>3. QED
  BY <1>1, <1>2

\* At the last expansion there is an answer, and all that is known holds of it.
LEMMA SearchEnds ==
  ASSUME NEW ok, IsFiniteSet(ok), ok \subseteq Points, NEW start \in Points, NEW goal \in Points
  PROVE  /\ Best(Search(ok, start, goal), ok, goal)
         /\ Search(ok, start, goal).found \/ Search(ok, start, goal).open = {}
<1>1. PICK a : /\ a[0] = StartSearch(start, goal)
               /\ \A k \in Nat : k < 4 * Cardinality(ok) + 2 => a[k + 1] = Expand(a[k], ok, goal)
               /\ Search(ok, start, goal) = a[4 * Cardinality(ok) + 2]
  BY SearchUnrolls
<1> DEFINE last == 4 * Cardinality(ok) + 2
           Fine(s, k) == Sound(s, ok, start, goal) /\ Best(s, ok, goal) /\ Spent(s, ok, k)
           T == {k \in Nat : k <= last => Fine(a[k], k)}
<1>2. last \in Nat /\ Cardinality(ok) \in Nat
  BY SearchUnrolls, FS_CardinalityType
<1>3. Fine(a[0], 0)
  <2> DEFINE s == StartSearch(start, goal)
             entry == <<start, Manhattan(start, goal)>>
  <2>1. s.open = {entry}
    BY DEF StartSearch
  <2> HIDE DEF s, entry
  <2>2. IsFiniteSet(s.open) /\ Cardinality(s.open) = 1
    BY <2>1, FS_Singleton
  <2>3. Cardinality(Left(s, ok)) \in Nat /\ Cardinality(Left(s, ok)) <= 4 * Cardinality(ok)
    BY LeftIsFinite
  <2>4. Cardinality(s.open) + Cardinality(Left(s, ok)) + 0 <= 4 * Cardinality(ok) + 1
    BY <1>2, <2>2, <2>3
  <2>5. Spent(s, ok, 0)
    BY <2>2, <2>4 DEF Spent
  <2>6. a[0] = s
    BY <1>1 DEF s
  <2>7. Sound(s, ok, start, goal) /\ Best(s, ok, goal)
    BY SearchStartsSound, SearchStartsBest DEF s
  <2>8. QED
    BY <2>5, <2>6, <2>7
<1> HIDE DEF last
<1>4. ASSUME NEW k \in Nat, k \in T PROVE k + 1 \in T
  <2>1. ASSUME k + 1 <= last PROVE Fine(a[k + 1], k + 1)
    <3>1. k < last /\ k <= last
      BY <1>2, <2>1
    <3>2. a[k + 1] = Expand(a[k], ok, goal) /\ Fine(a[k], k)
      BY <1>1, <1>4, <3>1 DEF last
    <3>3. QED
      BY <3>2, ExpandKeepsSound, ExpandKeepsBest, ExpandSpends
  <2> HIDE DEF Fine
  <2>2. QED
    BY <2>1
<1>5. Fine(a[last], last)
  <2> HIDE DEF Fine
  <2>1. 0 \in T
    BY <1>3
  <2>2. Nat \subseteq T
    <3> HIDE DEF T
    <3>1. QED
      BY <1>4, <2>1, AllNumbers
  <2>3. QED
    BY <1>2, <2>2
<1>6. a[last].found \/ a[last].open = {}
  <2> DEFINE s == a[last]
  <2>1. SUFFICES ASSUME ~s.found, s.open # {} PROVE FALSE
    OBVIOUS
  <2>2. IsFiniteSet(s.open) /\ Cardinality(s.open) + Cardinality(Left(s, ok)) + last <= 4 * Cardinality(ok) + 1
    BY <1>5, <2>1 DEF Spent
  <2> HIDE DEF s
  <2>3. Cardinality(s.open) \in Nat /\ Cardinality(Left(s, ok)) \in Nat
    BY <2>2, FS_CardinalityType, LeftIsFinite
  <2>4. QED
    BY <1>2, <2>2, <2>3 DEF last
<1>7. Search(ok, start, goal) = a[last]
  BY <1>1 DEF last
<1>8. QED
  BY <1>5, <1>6, <1>7

\* What n moves reach, the search has reached with n moves at most, or it has
\* on the way there a cell that waits.
LEMMA WaitsOnTheWay ==
  ASSUME NEW ok, ok \subseteq Points, NEW start \in Points, NEW goal \in Points,
         NEW s, Sound(s, ok, start, goal), Best(s, ok, goal),
         NEW f, Spreads(f, ok, start)
  PROVE  \A n \in Nat : \A c \in f[n] :
           \/ c \in DOMAIN s.g /\ s.g[c] <= n
           \/ \E y \in DOMAIN s.g \ s.closed : s.g[y] + Manhattan(y, c) <= n
<1> DEFINE Known(c, n) == \/ c \in DOMAIN s.g /\ s.g[c] <= n
                          \/ \E y \in DOMAIN s.g \ s.closed : s.g[y] + Manhattan(y, c) <= n
           T == {n \in Nat : \A c \in f[n] : Known(c, n)}
<1> USE DEF Spreads
<1>0. DOMAIN s.g \subseteq Points /\ \A c \in DOMAIN s.g : s.g[c] \in Nat
  BY ReachedArePoints DEF Sound
<1>1. 0 \in T
  <2>1. start \in DOMAIN s.g /\ s.g[start] <= 0
    BY DEF Sound
  <2>2. QED
    BY <2>1
<1>2. ASSUME NEW n \in Nat, n \in T PROVE n + 1 \in T
  <2>1. SUFFICES ASSUME NEW c \in f[n + 1] PROVE Known(c, n + 1)
    OBVIOUS
  <2>2. CASE c \in f[n]
    <3>1. CASE c \in DOMAIN s.g /\ s.g[c] <= n
      <4>1. s.g[c] <= n + 1
        BY <1>0, <3>1
      <4>2. QED
        BY <3>1, <4>1
    <3>2. CASE \E y \in DOMAIN s.g \ s.closed : s.g[y] + Manhattan(y, c) <= n
      <4>1. PICK y \in DOMAIN s.g \ s.closed : s.g[y] + Manhattan(y, c) <= n
        BY <3>2
      <4>2. c \in Points
        BY <2>2
      <4>3. Manhattan(y, c) \in Nat /\ s.g[y] \in Nat
        BY <1>0, <4>2, ManhattanIsNat
      <4>4. s.g[y] + Manhattan(y, c) <= n + 1
        BY <4>1, <4>3
      <4>5. QED
        BY <4>4
    <3>3. QED
      BY <1>2, <2>2, <3>1, <3>2
  <2>3. CASE c \notin f[n]
    <3>1. c \in ok /\ \E b \in f[n] : c \in Neighbours(b)
      BY <2>1, <2>3
    <3>2. PICK b \in f[n] : c \in Neighbours(b)
      BY <3>1
    <3>3. b \in Points /\ c \in Points
      BY <3>1
    <3>4. CASE b \in DOMAIN s.g /\ s.g[b] <= n /\ b \in s.closed
      <4>1. c \in DOMAIN s.g /\ s.g[c] <= s.g[b] + 1
        BY <3>1, <3>2, <3>4 DEF Best
      <4>2. s.g[c] <= n + 1
        BY <1>0, <3>4, <4>1
      <4>3. QED
        BY <4>1, <4>2
    <3>5. CASE b \in DOMAIN s.g /\ s.g[b] <= n /\ b \notin s.closed
      <4>1. Manhattan(b, c) <= Manhattan(b, b) + 1 /\ Manhattan(b, b) = 0
        BY <3>2, <3>3, EstimatesAgree
      <4>2. Manhattan(b, c) \in Nat /\ s.g[b] \in Nat
        BY <1>0, <3>3, <3>5, ManhattanIsNat
      <4>3. s.g[b] + Manhattan(b, c) <= n + 1
        BY <3>5, <4>1, <4>2
      <4>4. QED
        BY <3>5, <4>3
    <3>6. CASE \E y \in DOMAIN s.g \ s.closed : s.g[y] + Manhattan(y, b) <= n
      <4>1. PICK y \in DOMAIN s.g \ s.closed : s.g[y] + Manhattan(y, b) <= n
        BY <3>6
      <4>2. Manhattan(y, c) <= Manhattan(y, b) + 1
        BY <1>0, <3>2, <3>3, EstimatesAgree
      <4>3. Manhattan(y, b) \in Nat /\ Manhattan(y, c) \in Nat /\ s.g[y] \in Nat
        BY <1>0, <3>3, ManhattanIsNat
      <4>4. s.g[y] + Manhattan(y, c) <= n + 1
        BY <4>1, <4>2, <4>3
      <4>5. QED
        BY <4>4
    <3>7. Known(b, n)
      BY <1>2
    <3>8. QED
      BY <3>4, <3>5, <3>6, <3>7
  <2>4. QED
    BY <2>2, <2>3
<1>3. Nat \subseteq T
  <2> HIDE DEF T
  <2>1. QED
    BY <1>1, <1>2, AllNumbers
<1>4. QED
  BY <1>3

\* A way of n moves is within n rounds of the spread.
LEMMA WaysAreReached ==
  ASSUME NEW ok, NEW a, NEW b, NEW w, IsWay(w, ok, a, b), w # <<>>,
         NEW f, Spreads(f, ok, a)
  PROVE  Len(w) \in Nat /\ b \in f[Len(w)]
<1> DEFINE at(k) == IF k = 0 THEN a ELSE w[k]
           T == {k \in Nat : k <= Len(w) => at(k) \in f[k]}
<1> USE DEF Spreads
<1>1. w \in Seq(ok) /\ Len(w) \in Nat /\ Len(w) # 0 /\ w[Len(w)] = b
  BY LenProperties, EmptySeq DEF IsWay
<1>2. 0 \in T
  OBVIOUS
<1>3. ASSUME NEW k \in Nat, k \in T PROVE k + 1 \in T
  <2>1. ASSUME k + 1 <= Len(w) PROVE w[k + 1] \in f[k + 1]
    <3>1. k + 1 \in 1..Len(w) /\ k <= Len(w) /\ (k + 1 = 1 <=> k = 0) /\ (k + 1) - 1 = k
      BY <1>1, <2>1
    <3>2. at(k) \in f[k]
      BY <1>3, <3>1
    <3>3. w[k + 1] \in Neighbours(at(k))
      BY <3>1 DEF IsWay
    <3>4. w[k + 1] \in ok
      BY <1>1, <3>1, ElementOfSeq
    <3> HIDE DEF at
    <3>5. w[k + 1] \in UNION {Neighbours(c) : c \in f[k]}
      BY <3>2, <3>3
    <3>6. QED
      BY <3>4, <3>5
  <2>2. k + 1 # 0
    OBVIOUS
  <2>3. QED
    BY <2>1, <2>2
<1>4. Nat \subseteq T
  <2> HIDE DEF T
  <2>1. QED
    BY <1>2, <1>3, AllNumbers
<1>5. at(Len(w)) \in f[Len(w)]
  BY <1>1, <1>4
<1>6. QED
  BY <1>1, <1>5

\* A* answers a way where the flood fill finds the goal, and none where it does
\* not; and in fewer moves than the way has the goal is not to be reached.
LEMMA AStarIsShortest ==
  ASSUME NEW ok, IsFiniteSet(ok), ok \subseteq Points, NEW start \in Points, NEW goal \in Points, start # goal
  PROVE  LET way == AStar(ok, start, goal)
         IN  /\ way # <<>> <=> goal \in Reachable(ok, start, Cardinality(ok))
             /\ way # <<>> => goal \notin Reachable(ok, start, Len(way) - 1)
<1> DEFINE way == AStar(ok, start, goal)
           s == Search(ok, start, goal)
<1>1. PICK f :
        /\ Spreads(f, ok, start)
        /\ \A n \in Nat : f[n] \subseteq f[Cardinality(ok)]
        /\ \A n \in Nat : Reachable(ok, start, n) = f[n] \ {start}
  BY FloodSpreads
<1>2. Sound(s, ok, start, goal) /\ Best(s, ok, goal) /\ (s.found \/ s.open = {})
  <2>1. Sound(s, ok, start, goal)
    BY SearchIsSound
  <2>2. Best(s, ok, goal) /\ (s.found \/ s.open = {})
    BY SearchEnds, Zenon
  <2>3. QED
    BY <2>1, <2>2, Zenon
<1>3. way = IF goal \notin ok \/ ~s.found THEN <<>> ELSE ReconstructPath(s.parent, start, goal)
  BY DEF AStar
<1> HIDE DEF s
<1>0. DOMAIN s.g \subseteq Points /\ (\A c \in DOMAIN s.g : s.g[c] \in Nat) /\ Cardinality(ok) \in Nat
  BY <1>2, ReachedArePoints, FS_CardinalityType DEF Sound
<1>4. \A n \in Nat : \A c \in f[n] :
        \/ c \in DOMAIN s.g /\ s.g[c] <= n
        \/ \E y \in DOMAIN s.g \ s.closed : s.g[y] + Manhattan(y, c) <= n
  BY <1>1, <1>2, WaitsOnTheWay
<1>5. ASSUME NEW n \in Nat, goal \in f[n] PROVE s.found /\ s.g[goal] <= n /\ goal \in DOMAIN s.g
  <2>1. s.open # {}
    <3>1. CASE goal \in DOMAIN s.g
      BY <1>2, <3>1 DEF Best
    <3>2. CASE \E y \in DOMAIN s.g \ s.closed : s.g[y] + Manhattan(y, goal) <= n
      BY <1>2, <3>2 DEF Best
    <3>3. QED
      BY <1>4, <1>5, <3>1, <3>2
  <2>2. s.found /\ goal \in DOMAIN s.g
    BY <1>2, <2>1 DEF Sound
  <2>3. ASSUME NEW y \in DOMAIN s.g \ s.closed, s.g[y] + Manhattan(y, goal) <= n PROVE s.g[goal] <= n
    <3>1. <<y, s.g[y] + Manhattan(y, goal)>> \in s.open
      BY <1>2 DEF Best
    <3>2. s.g[goal] <= <<y, s.g[y] + Manhattan(y, goal)>>[2]
      BY <1>2, <2>2, <3>1 DEF Best
    <3>3. s.g[goal] <= s.g[y] + Manhattan(y, goal)
      BY <3>2
    <3>4. s.g[goal] \in Nat /\ s.g[y] \in Nat /\ Manhattan(y, goal) \in Nat
      BY <1>0, <2>2, ManhattanIsNat
    <3>5. QED
      BY <2>3, <3>3, <3>4
  <2>4. QED
    BY <1>4, <1>5, <2>2, <2>3
<1>6. goal \in ok /\ s.found => way # <<>> /\ Len(way) = s.g[goal] /\ Len(way) \in Nat
  <2>1. SUFFICES ASSUME goal \in ok, s.found PROVE way # <<>> /\ Len(way) = s.g[goal] /\ Len(way) \in Nat
    OBVIOUS
  <2>2. goal \in DOMAIN s.g
    BY <1>2, <2>1 DEF Sound
  <2>3. IsWay(way, ok, start, goal) /\ Len(way) = s.g[goal]
    BY <1>2, <1>3, <2>1, <2>2, ParentsLeadBack
  <2>4. way # <<>>
    BY <2>3 DEF IsWay
  <2>5. QED
    BY <1>0, <2>2, <2>3, <2>4
<1>7. ASSUME goal \in Reachable(ok, start, Cardinality(ok)) PROVE way # <<>>
  <2>1. goal \in f[Cardinality(ok)]
    BY <1>0, <1>1, <1>7
  <2>2. goal \in ok /\ s.found
    BY <1>0, <1>1, <1>5, <2>1 DEF Spreads
  <2>3. QED
    BY <1>6, <2>2
<1>8. ASSUME way # <<>>
      PROVE  goal \in Reachable(ok, start, Cardinality(ok)) /\ goal \notin Reachable(ok, start, Len(way) - 1)
  <2>1. goal \in ok /\ s.found
    BY <1>3, <1>8
  <2>2. IsWay(way, ok, start, goal)
    BY <1>8, AStarIsAWay
  <2> HIDE DEF way
  <2>3. Len(way) \in Nat /\ goal \in f[Len(way)]
    BY <1>1, <1>8, <2>2, WaysAreReached
  <2>4. goal \in Reachable(ok, start, Cardinality(ok))
    BY <1>0, <1>1, <2>3
  <2>5. Len(way) = s.g[goal] /\ Len(way) - 1 \in Nat
    <3>1. Len(way) = s.g[goal]
      BY <1>6, <2>1 DEF way
    <3>2. Len(way) # 0
      BY <1>8, <2>2, EmptySeq DEF IsWay
    <3>3. QED
      BY <2>3, <3>1, <3>2
  <2>6. goal \notin f[Len(way) - 1]
    <3>1. SUFFICES ASSUME goal \in f[Len(way) - 1] PROVE FALSE
      OBVIOUS
    <3>2. s.g[goal] <= Len(way) - 1
      BY <1>5, <2>5, <3>1
    <3>3. QED
      BY <2>3, <2>5, <3>2
  <2>7. QED
    BY <1>1, <2>4, <2>5, <2>6
<1>9. QED
  BY <1>7, <1>8

-----------------------------------------------------------------------------
(* Cells and points *)

LEMMA Multiples == \A x \in Int, n \in Nat \ {0} : (x * n) \div n = x
OBVIOUS

LEMMA Fractions == \A x \in Int, k, n \in Nat \ {0} : (x * k) \div (k * n) = x \div n
OBVIOUS

LEMMA MaxOfTwo == \A a, b \in Int : Max({a, b}) \in Int /\ Max({a, b}) >= a /\ Max({a, b}) >= b
<1> SUFFICES ASSUME NEW a \in Int, NEW b \in Int
             PROVE  Max({a, b}) \in Int /\ Max({a, b}) >= a /\ Max({a, b}) >= b
  OBVIOUS
<1>1. \E x \in {a, b} : \A y \in {a, b} : x >= y
  OBVIOUS
<1>2. Max({a, b}) \in {a, b} /\ \A y \in {a, b} : Max({a, b}) >= y
  BY <1>1 DEF Max
<1>3. QED
  BY <1>2

LEMMA LongestIsInt == \A p, q \in Points : Longest(p, q) \in Int
<1> SUFFICES ASSUME NEW p \in Points, NEW q \in Points PROVE Longest(p, q) \in Int
  OBVIOUS
<1> DEFINE a == Size(q[1] - p[1])
           b == Size(q[2] - p[2])
<1>1. a \in Int /\ b \in Int
  BY DEF Points, Size
<1>2. Longest(p, q) = Max({a, b})
  BY DEF Longest
<1> HIDE DEF a, b
<1>3. QED
  BY <1>1, <1>2, MaxOfTwo

LEMMA PointFacts ==
  ASSUME NEW p \in Points
  PROVE  /\ CellOf(p) \in Points /\ Int2(p) \in Points
         /\ Corner(p) \in Points /\ CellOf(Corner(p)) = p
<1>1. p = <<p[1], p[2]>> /\ p[1] \in Int /\ p[2] \in Int
  BY DEF Points
<1>2. \A v \in Int : v \div Scale \in Int /\ v * Scale \in Int
  BY GridAssumption
<1>3. \A v \in Int : Truncated(v) \in Int
  <2>1. \A v \in Int : Size(v) \in Int /\ Sign(v) \in Int
    BY DEF Size, Sign
  <2>2. \A v \in Int : Size(v) \div Scale \in Int
    BY <1>2, <2>1
  <2>3. QED
    BY <2>1, <2>2 DEF Truncated
<1>4. CellOf(p) \in Points /\ Int2(p) \in Points /\ Corner(p) \in Points
  BY <1>1, <1>2, <1>3 DEF CellOf, Int2, Corner, Points
<1>5. CellOf(Corner(p)) = <<(p[1] * Scale) \div Scale, (p[2] * Scale) \div Scale>>
  BY DEF CellOf, Corner
<1>6. QED
  BY <1>1, <1>4, <1>5, Multiples, GridAssumption

LEMMA AllCells == IsFiniteSet(Cells) /\ Cells \subseteq Points
<1>1. Width - 1 \in Int /\ Height - 1 \in Int
  BY GridAssumption
<1>2. IsFiniteSet(0..(Width - 1)) /\ IsFiniteSet(0..(Height - 1))
  BY <1>1, FS_Interval
<1>3. IsFiniteSet(Cells)
  BY <1>2, FS_Product DEF Cells
<1>4. Cells \subseteq Points
  BY DEF Cells, Points
<1>5. QED
  BY <1>3, <1>4

LEMMA CellsAreFinite ==
  ASSUME NEW m \in Movers
  PROVE  IsFiniteSet(Open(m)) /\ Open(m) \subseteq Points
<1> DEFINE all == Cells \X Mover[m].cells
           f == [x \in all |-> <<x[1][1] - x[2][1], x[1][2] - x[2][2]>>]
<1>1. IsFiniteSet(Mover[m].cells) /\ Mover[m].cells \subseteq Points
  BY MoverAssumption DEF Movers, Points
<1>2. IsFiniteSet(all)
  BY <1>1, AllCells, FS_Product
<1>3. IsFiniteSet({f[x] : x \in all})
  <2> HIDE DEF all
  <2>1. DOMAIN f = all /\ f = [x \in all |-> f[x]]
    OBVIOUS
  <2> HIDE DEF f
  <2>2. QED
    BY <1>2, <2>1, ImageIsFinite
<1>4. ASSUME NEW p \in Places(m) PROVE p \in {f[x] : x \in all} /\ p \in Points
  <2>1. PICK c \in Cells, o \in Mover[m].cells : p = <<c[1] - o[1], c[2] - o[2]>>
    BY DEF Places
  <2>2. <<c, o>> \in all /\ f[<<c, o>>] = p
    BY <2>1
  <2>3. c \in Points /\ o \in Points
    BY <1>1, AllCells
  <2>4. p \in Points
    BY <2>1, <2>3 DEF Points
  <2>5. QED
    BY <2>2, <2>4
<1> HIDE DEF all, f
<1>5. IsFiniteSet(Places(m)) /\ Places(m) \subseteq Points
  <2>1. Places(m) \subseteq {f[x] : x \in all}
    BY <1>4
  <2>2. IsFiniteSet(Places(m))
    BY <1>3, <2>1, FS_Subset
  <2>3. QED
    BY <1>4, <2>2
<1>6. Open(m) \subseteq Places(m)
  BY DEF Open
<1>7. QED
  BY <1>5, <1>6, FS_Subset

\* Where a mover may be put it may go.
LEMMA EntersOpen ==
  ASSUME NEW m \in Movers, NEW p \in Points, CanEnter(m, p)
  PROVE  p \in Open(m)
<1>1. PICK o : o \in Mover[m].cells
  BY MoverAssumption DEF Movers
<1>2. o \in Points
  BY <1>1, MoverAssumption DEF Movers, Points
<1> DEFINE c == Add(p, o)
<1>3. c \in Cells
  BY <1>1 DEF CanEnter, Footprint
<1>4. p = <<c[1] - o[1], c[2] - o[2]>>
  BY <1>2 DEF Add, Points
<1> HIDE DEF c
<1>5. p \in Places(m)
  BY <1>1, <1>3, <1>4 DEF Places
<1>6. QED
  BY <1>5 DEF Open

\* Who moves to where it may enter stays apart from all others.
LEMMA MovedApart ==
  ASSUME NEW p \in [Movers -> Points], p = pos, Apart(pos), NEW m \in Movers, NEW q \in Points,
         CanEnter(m, CellOf(q))
  PROVE  Apart([pos EXCEPT ![m] = q]) /\ [pos EXCEPT ![m] = q] \in [Movers -> Points]
<1> DEFINE at == [pos EXCEPT ![m] = q]
<1>1. at[m] = q /\ \A n \in Movers \ {m} : at[n] = pos[n]
  OBVIOUS
<1>2. at \in [Movers -> Points]
  OBVIOUS
<1> HIDE DEF at
<1>3. /\ Footprint(m, CellOf(q)) \subseteq Cells
      /\ \A n \in Movers \ {m} :
           Footprint(n, CellOf(pos[n])) \cap Footprint(m, CellOf(q)) # {} => Lets(Mover[n].pass, m)
      /\ \A f \in Standing : Fixture[f].at \in Footprint(m, CellOf(q)) => Lets(Fixture[f].pass, m)
  BY DEF CanEnter, Body
<1>4. \A n \in Movers : Footprint(n, CellOf(at[n])) \subseteq Cells
  BY <1>1, <1>3 DEF Apart
<1>5. ASSUME NEW k \in Movers, NEW n \in Movers, k # n, ~Lets(Mover[n].pass, k), ~Lets(Mover[k].pass, n)
      PROVE  Footprint(k, CellOf(at[k])) \cap Footprint(n, CellOf(at[n])) = {}
  <2>1. CASE k = m
    BY <1>1, <1>3, <1>5, <2>1
  <2>2. CASE n = m
    BY <1>1, <1>3, <1>5, <2>2
  <2>3. CASE k # m /\ n # m
    BY <1>1, <1>5, <2>3 DEF Apart
  <2>4. QED
    BY <2>1, <2>2, <2>3
<1>6. ASSUME NEW k \in Movers, NEW f \in DOMAIN Fixture \ Doors, ~Lets(Fixture[f].pass, k)
      PROVE  Fixture[f].at \notin Footprint(k, CellOf(at[k]))
  <2>1. CASE k = m
    BY <1>1, <1>3, <1>6, <2>1 DEF Standing
  <2>2. CASE k # m
    BY <1>1, <1>6, <2>2 DEF Apart
  <2>3. QED
    BY <2>1, <2>2
<1>7. Apart(at)
  BY <1>4, <1>5, <1>6 DEF Apart
<1>8. QED
  BY <1>2, <1>7 DEF at

\* moveTowardTarget asks about the cell it lands on, among others.
LEMMA LandingIsSampled ==
  ASSUME NEW p \in Points, NEW t \in Points, NEW q \in Ahead(p, t)
  PROVE  q \in Points /\ CellOf(q) \in SampledCells(p, q)
<1>1. /\ p[1] \in Int /\ p[2] \in Int /\ t[1] \in Int /\ t[2] \in Int
  BY DEF Points
<1>2. Longest(p, t) \in Int
  BY LongestIsInt
<1>3. PICK k \in 1..Longest(p, t) :
        q = <<p[1] + Part(t[1] - p[1], k, Longest(p, t)), p[2] + Part(t[2] - p[2], k, Longest(p, t))>>
  BY DEF Ahead
<1>4. \A v \in Int : Part(v, k, Longest(p, t)) \in Int
  <2>1. Longest(p, t) \in Nat \ {0} /\ k \in Int
    BY <1>2, <1>3
  <2>2. QED
    BY <2>1 DEF Part
<1>5. q \in Points /\ q[1] \in Int /\ q[2] \in Int
  BY <1>1, <1>3, <1>4 DEF Points
<1> DEFINE n == Samples(p, q)
           at(i, j) == (p[j] * n + (q[j] - p[j]) * i) \div (n * Scale)
<1>6. n \in Nat \ {0}
  <2>1. Longest(p, q) \in Int
    BY <1>5, LongestIsInt
  <2> DEFINE halves == (2 * Longest(p, q) + Scale - 1) \div Scale
  <2>2. halves \in Int
    BY <2>1, GridAssumption
  <2>3. n = Max({1, halves})
    BY DEF Samples
  <2> HIDE DEF halves, n
  <2>4. n \in Int /\ n >= 1
    BY <2>2, <2>3, MaxOfTwo
  <2>5. QED
    BY <2>4
<1>7. <<at(n, 1), at(n, 2)>> \in SampledCells(p, q)
  BY <1>6 DEF SampledCells
<1> HIDE DEF n
<1>8. ASSUME NEW j \in {1, 2} PROVE at(n, j) = q[j] \div Scale
  <2>1. p[j] \in Int /\ q[j] \in Int
    BY <1>1, <1>5
  <2>2. p[j] * n + (q[j] - p[j]) * n = q[j] * n
    BY <1>6, <2>1
  <2>3. QED
    BY <1>6, <2>1, <2>2, Fractions, GridAssumption
<1>9. QED
  BY <1>5, <1>7, <1>8 DEF CellOf

\* What is joined to a is what a spread from it reaches, in any number of rounds.
LEMMA JoinedSpreads ==
  ASSUME NEW S, IsFiniteSet(S), NEW a
  PROVE  \E f \in [Nat -> SUBSET (S \cup {a})] :
           /\ f[0] = {a}
           /\ \A k \in Nat : f[k + 1] = f[k] \cup ((UNION {Around(c) : c \in f[k]}) \cap S)
           /\ \A n \in Nat : f[n] \subseteq f[Cardinality(S)]
           /\ \A b : Joined(a, b, S) <=> b \in f[Cardinality(S)]
<1> DEFINE V == S \cup {a}
           Wider(T) == T \cup ((UNION {Around(c) : c \in T}) \cap S)
           step == [T \in SUBSET V |-> Wider(T)]
           G(f, k) == IF k = 0 THEN {a} ELSE Wider(f[k - 1])
           grow == CHOOSE f : f = [k \in Nat |-> G(f, k)]
           N == Cardinality(S)
<1>1. \A b : Joined(a, b, S) <=> b \in grow[N]
  BY DEF Joined
<1>2. step \in [SUBSET V -> SUBSET V] /\ {a} \in SUBSET V
      /\ \A T \in SUBSET V : T \subseteq step[T] /\ step[T] = Wider(T)
  OBVIOUS
<1> HIDE DEF step
<1>3. PICK f \in [Nat -> SUBSET V] : f[0] = {a} /\ \A k \in Nat : f[k + 1] = step[f[k]]
  <2> DEFINE sets == SUBSET V
             first == {a}
  <2>1. step \in [sets -> sets] /\ first \in sets
    BY <1>2
  <2> HIDE DEF sets, first
  <2>2. \E f \in [Nat -> sets] : f[0] = first /\ \A k \in Nat : f[k + 1] = step[f[k]]
    BY <2>1, Iterates
  <2>3. QED
    BY <2>2 DEF sets, first
<1>4. ASSUME NEW k \in Nat PROVE f[k] = G(f, k)
  <2>1. CASE k = 0
    BY <1>3, <2>1
  <2>2. CASE k # 0
    <3>1. k - 1 \in Nat /\ (k - 1) + 1 = k
      BY <2>2
    <3>2. f[k - 1] \in SUBSET V /\ f[(k - 1) + 1] = step[f[k - 1]]
      BY <1>3, <3>1
    <3> HIDE DEF V, Wider
    <3>3. f[k] = Wider(f[k - 1])
      BY <1>2, <3>1, <3>2
    <3>4. QED
      BY <2>2, <3>3
  <2>3. QED
    BY <2>1, <2>2
<1>5. grow = [k \in Nat |-> G(grow, k)]
  <2> HIDE DEF G
  <2>1. f = [k \in Nat |-> f[k]]
    BY <1>3
  <2>2. f = [k \in Nat |-> G(f, k)]
    BY <1>4, <2>1
  <2>3. QED
    BY <2>2
<1> HIDE DEF grow
<1> DEFINE T == {k \in Nat : grow[k] = f[k]}
<1>6. 0 \in T
  <2>1. grow[0] = {a}
    BY <1>5
  <2>2. QED
    BY <1>3, <2>1
<1>7. ASSUME NEW k \in Nat, k \in T PROVE k + 1 \in T
  <2>1. grow[k] = f[k] /\ k + 1 \in Nat /\ (k + 1) - 1 = k /\ k + 1 # 0
    BY <1>7
  <2> HIDE DEF Wider
  <2>2. grow[k + 1] = Wider(grow[k])
    BY <1>5, <2>1
  <2>3. f[k + 1] = Wider(f[k])
    BY <1>4, <2>1
  <2>4. QED
    BY <2>1, <2>2, <2>3
<1>8. N \in Nat /\ IsFiniteSet(V) /\ Cardinality(V) <= N + 1
  <2>2. IsFiniteSet(S) /\ Cardinality(S) <= N
    BY FS_CardinalityType
  <2>3. Cardinality(S) \in Nat /\ N \in Nat
    BY FS_CardinalityType
  <2>4. IsFiniteSet(V) /\ Cardinality(V) = IF a \in S THEN Cardinality(S) ELSE Cardinality(S) + 1
    BY <2>2, FS_AddElement
  <2> HIDE DEF V, N
  <2>5. QED
    BY <2>2, <2>3, <2>4
<1>9. \A n \in Nat : f[n] \subseteq f[N]
  <2>1. f[0] # {}
    BY <1>3
  <2> HIDE DEF V, N, Wider
  <2>2. QED
    BY <1>2, <1>3, <1>8, <2>1, Saturates
<1>10. grow[N] = f[N]
  <2>1. Nat \subseteq T
    BY <1>6, <1>7, AllNumbers
  <2>2. QED
    BY <1>8, <2>1
<1>11. \A k \in Nat : f[k + 1] = Wider(f[k])
  <2> HIDE DEF V, Wider
  <2>1. QED
    BY <1>2, <1>3
<1> HIDE DEF N
<1>12. \A b : Joined(a, b, S) <=> b \in f[N]
  BY <1>1, <1>10
<1>13. QED
  BY <1>3, <1>9, <1>11, <1>12 DEF N

\* A chain of cells joins its ends.
LEMMA ChainJoins ==
  ASSUME NEW S, IsFiniteSet(S), NEW n \in Nat, NEW w,
         \A i \in 1..n : w[i] \in S /\ w[i] \in Around(w[i - 1])
  PROVE  Joined(w[0], w[n], S)
<1>1. PICK f \in [Nat -> SUBSET (S \cup {w[0]})] :
           /\ f[0] = {w[0]}
           /\ \A k \in Nat : f[k + 1] = f[k] \cup ((UNION {Around(c) : c \in f[k]}) \cap S)
           /\ \A k \in Nat : f[k] \subseteq f[Cardinality(S)]
           /\ \A b : Joined(w[0], b, S) <=> b \in f[Cardinality(S)]
  BY JoinedSpreads
<1> DEFINE T == {k \in Nat : k <= n => w[k] \in f[k]}
<1>2. 0 \in T
  BY <1>1
<1>3. ASSUME NEW k \in Nat, k \in T PROVE k + 1 \in T
  <2>1. ASSUME k + 1 <= n PROVE w[k + 1] \in f[k + 1]
    <3>1. k + 1 \in 1..n /\ (k + 1) - 1 = k /\ k <= n
      BY <2>1
    <3>2. w[k + 1] \in S /\ w[k + 1] \in Around(w[k]) /\ w[k] \in f[k]
      BY <1>3, <3>1
    <3>3. w[k + 1] \in UNION {Around(c) : c \in f[k]}
      BY <3>2
    <3>4. QED
      BY <1>1, <3>2, <3>3
  <2>2. QED
    BY <2>1
<1>4. w[n] \in f[n]
  <2>1. Nat \subseteq T
    BY <1>2, <1>3, AllNumbers
  <2>2. QED
    BY <2>1
<1>5. QED
  BY <1>1, <1>4

-----------------------------------------------------------------------------
(* A chaser's stride *)

LEMMA FloorsAreNear ==
  ASSUME NEW a \in Int, NEW d \in Int, NEW D \in Nat \ {0}, -D <= d, d <= D
  PROVE  ((a + d) \div D) - (a \div D) \in -1..1
<1> DEFINE x == a \div D
           y == (a + d) \div D
<1>1. x \in Int /\ y \in Int
  OBVIOUS
<1>2. x * D <= a /\ a < (x + 1) * D /\ y * D <= a + d /\ a + d < (y + 1) * D
  OBVIOUS
<1> HIDE DEF x, y
<1>3. (x + 2) * D = (x + 1) * D + D /\ (x - 1) * D = x * D - D
  BY <1>1
<1>4. y < x + 2
  <2>1. y * D < (x + 2) * D
    BY <1>1, <1>2, <1>3
  <2>2. QED
    BY <1>1, <2>1
<1>5. x - 1 < y + 1
  <2>1. (x - 1) * D < (y + 1) * D
    BY <1>1, <1>2, <1>3
  <2>2. QED
    BY <1>1, <2>1
<1>6. y - x \in -1..1
  BY <1>1, <1>4, <1>5
<1>7. QED
  BY <1>6 DEF x, y

LEMMA NextCell ==
  ASSUME NEW c \in Points, NEW d \in Points, d[1] - c[1] \in -1..1, d[2] - c[2] \in -1..1
  PROVE  d \in Around(c)
<1> DEFINE i == d[1] - c[1]
           j == d[2] - c[2]
<1>1. c[1] \in Int /\ c[2] \in Int /\ d[1] \in Int /\ d[2] \in Int /\ d = <<d[1], d[2]>>
  BY DEF Points
<1>2. d[1] = c[1] + i /\ d[2] = c[2] + j
  BY <1>1
<1>3. d = Add(c, <<i, j>>)
  BY <1>1, <1>2 DEF Add
<1> HIDE DEF i, j
<1>4. QED
  BY <1>3 DEF Around, i, j

\* Two samples in a row are at most half a cell apart, in each direction.
LEMMA SamplesAreClose ==
  ASSUME NEW p \in Points, NEW q \in Points, NEW j \in {1, 2}
  PROVE  /\ Samples(p, q) \in Nat \ {0}
         /\ -(Samples(p, q) * Scale) <= q[j] - p[j] /\ q[j] - p[j] <= Samples(p, q) * Scale
<1> DEFINE L == Longest(p, q)
           n == Samples(p, q)
           halves == (2 * L + Scale - 1) \div Scale
           a == Size(q[1] - p[1])
           b == Size(q[2] - p[2])
<1>1. Scale \in Nat \ {0} /\ p[j] \in Int /\ q[j] \in Int
  BY GridAssumption DEF Points
<1>2. a \in Int /\ b \in Int /\ L = Max({a, b})
  BY DEF Points, Size, Longest
<1>3. L \in Int /\ L >= a /\ L >= b
  <2> HIDE DEF a, b, L
  <2>1. QED
    BY <1>2, MaxOfTwo
<1>4. -L <= q[j] - p[j] /\ q[j] - p[j] <= L /\ 0 <= L
  <2>1. a = Size(q[1] - p[1]) /\ b = Size(q[2] - p[2])
    OBVIOUS
  <2> HIDE DEF a, b, L
  <2>2. j = 1 \/ j = 2
    OBVIOUS
  <2>3. QED
    BY <1>2, <1>3, <2>1, <2>2 DEF Points, Size
<1> HIDE DEF a, b, L
<1>5. halves \in Int /\ 2 * L + Scale - 1 < (halves + 1) * Scale
  BY <1>1, <1>3
<1>6. n = Max({1, halves})
  BY DEF Samples, L
<1> HIDE DEF halves, n
<1>7. n \in Int /\ n >= 1 /\ n >= halves
  <2>1. halves \in Int /\ 1 \in Int
    BY <1>5
  <2>2. Max({1, halves}) \in Int /\ Max({1, halves}) >= 1 /\ Max({1, halves}) >= halves
    BY <2>1, MaxOfTwo
  <2>3. QED
    BY <1>6, <2>2
<1>8. 2 * L <= halves * Scale
  <2>1. (halves + 1) * Scale = halves * Scale + Scale
    BY <1>1, <1>5
  <2>2. QED
    BY <1>1, <1>3, <1>5, <2>1
<1>9. halves * Scale <= n * Scale
  BY <1>1, <1>5, <1>7
<1>10. n \in Nat \ {0} /\ L <= n * Scale /\ n * Scale \in Int
  <2>1. n * Scale \in Int /\ halves * Scale \in Int /\ n \in Nat \ {0}
    BY <1>1, <1>5, <1>7
  <2>2. L <= 2 * L
    BY <1>3, <1>4
  <2>3. QED
    BY <1>3, <1>8, <1>9, <2>1, <2>2
<1>11. -(n * Scale) <= q[j] - p[j] /\ q[j] - p[j] <= n * Scale
  BY <1>1, <1>3, <1>4, <1>10
<1>12. QED
  BY <1>10, <1>11 DEF n

\* The cells moveTowardTarget asks about lead from where it is to where it lands.
LEMMA SamplesJoin ==
  ASSUME NEW p \in Points, NEW q \in Points, NEW S, IsFiniteSet(S), SampledCells(p, q) \subseteq S
  PROVE  Joined(CellOf(p), CellOf(q), S)
<1> DEFINE n == Samples(p, q)
           D == n * Scale
           num(i, j) == p[j] * n + (q[j] - p[j]) * i
           at(i, j) == num(i, j) \div D
           w == [i \in 0..n |-> <<at(i, 1), at(i, 2)>>]
<1>1. n \in Nat \ {0} /\ \A j \in {1, 2} : -D <= q[j] - p[j] /\ q[j] - p[j] <= D
  BY SamplesAreClose
<1>2. \A j \in {1, 2} : p[j] \in Int /\ q[j] \in Int
  BY DEF Points
<1>3. {w[i] : i \in 1..n} = SampledCells(p, q)
  <2>1. \A i \in 1..n : w[i] = <<at(i, 1), at(i, 2)>>
    OBVIOUS
  <2>2. SampledCells(p, q) = {<<at(i, 1), at(i, 2)>> : i \in 1..n}
    BY DEF SampledCells
  <2> HIDE DEF w, at
  <2>3. QED
    BY <2>1, <2>2
<1> HIDE DEF n
<1>4. D \in Nat \ {0}
  BY <1>1, GridAssumption
<1>5. \A i \in 0..n, j \in {1, 2} : num(i, j) \in Int /\ at(i, j) \in Int
  <2>1. \A i \in 0..n, j \in {1, 2} : num(i, j) \in Int
    BY <1>1, <1>2
  <2> HIDE DEF num, D
  <2>2. QED
    BY <1>4, <2>1
<1>6. ASSUME NEW i \in 1..n, NEW j \in {1, 2} PROVE at(i, j) - at(i - 1, j) \in -1..1
  <2> DEFINE d == q[j] - p[j]
             before == num(i - 1, j)
  <2>1. d \in Int /\ -D <= d /\ d <= D /\ i - 1 \in 0..n /\ i \in Int /\ p[j] * n \in Int
    BY <1>1, <1>2
  <2>2. num(i, j) = before + d
    <3>1. d * i = d * (i - 1) + d
      BY <2>1
    <3>2. num(i, j) = p[j] * n + d * i /\ before = p[j] * n + d * (i - 1)
      OBVIOUS
    <3>3. d * (i - 1) \in Int
      BY <2>1
    <3> HIDE DEF num, before, d
    <3>4. QED
      BY <2>1, <3>1, <3>2, <3>3
  <2>3. before \in Int
    BY <1>5, <2>1
  <2> HIDE DEF num, d, before, D
  <2>4. ((before + d) \div D) - (before \div D) \in -1..1
    BY <1>4, <2>1, <2>3, FloorsAreNear
  <2>5. QED
    BY <2>2, <2>4 DEF before
<1>7. ASSUME NEW i \in 1..n PROVE w[i] \in S /\ w[i] \in Around(w[i - 1])
  <2>1. w[i] \in S
    <3> HIDE DEF w
    <3>1. QED
      BY <1>3
  <2>2. i - 1 \in 0..n /\ i \in 0..n
    BY <1>1
  <2> HIDE DEF at
  <2>3. w[i] = <<at(i, 1), at(i, 2)>> /\ w[i - 1] = <<at(i - 1, 1), at(i - 1, 2)>>
    BY <2>2
  <2>4. w[i] \in Points /\ w[i - 1] \in Points
    BY <1>5, <2>2, <2>3 DEF Points
  <2>5. w[i][1] - w[i - 1][1] \in -1..1 /\ w[i][2] - w[i - 1][2] \in -1..1
    BY <1>6, <2>3
  <2> HIDE DEF w
  <2>6. QED
    BY <2>1, <2>4, <2>5, NextCell
<1>8. w[0] = CellOf(p) /\ w[n] = CellOf(q)
  <2>1. ASSUME NEW j \in {1, 2} PROVE at(0, j) = p[j] \div Scale /\ at(n, j) = q[j] \div Scale
    <3>1. num(0, j) = p[j] * n /\ num(n, j) = q[j] * n
      BY <1>1, <1>2
    <3> HIDE DEF num
    <3>2. QED
      BY <1>1, <1>2, <3>1, Fractions, GridAssumption
  <2>2. 0 \in 0..n /\ n \in 0..n
    BY <1>1
  <2> HIDE DEF at
  <2>3. QED
    BY <2>1, <2>2 DEF CellOf
<1> HIDE DEF w
<1>9. n \in Nat
  BY <1>1
<1>10. Joined(w[0], w[n], S)
  BY <1>7, <1>9, ChainJoins
<1>11. QED
  BY <1>8, <1>10

-----------------------------------------------------------------------------
(* The ray of a line of sight *)

\* One step of the ray: the longer side goes on by one, the shorter side follows
\* when it is due.
LEMMA RayStep ==
  ASSUME NEW M \in Nat, NEW m \in Nat, m <= M, 0 < M, NEW k \in Nat, NEW j \in Nat, NEW e \in Int,
         e = M - m - k * m + j * M, -m < 2 * e, 2 * e < 3 * M - 2 * m,
         NEW i \in Nat, i = IF 2 * e < M THEN j + 1 ELSE j,
         NEW f \in Int, f = IF 2 * e < M THEN e - m + M ELSE e - m
  PROVE  f = M - m - (k + 1) * m + i * M /\ -m < 2 * f /\ 2 * f < 3 * M - 2 * m
<1>1. (k + 1) * m = k * m + m /\ (j + 1) * M = j * M + M /\ k * m \in Int /\ j * M \in Int
  OBVIOUS
<1>2. f = M - m - (k + 1) * m + i * M
  <2>1. CASE 2 * e < M
    BY <1>1, <2>1
  <2>2. CASE ~(2 * e < M)
    BY <1>1, <2>2
  <2>3. QED
    BY <2>1, <2>2
<1>3. -m < 2 * f /\ 2 * f < 3 * M - 2 * m
  <2>1. CASE 2 * e < M
    BY <2>1
  <2>2. CASE ~(2 * e < M)
    BY <2>2
  <2>3. QED
    BY <2>1, <2>2
<1>4. QED
  BY <1>2, <1>3

\* The shorter side never goes too far, and is there when the longer one is.
LEMMA RayEnds ==
  ASSUME NEW M \in Nat, NEW m \in Nat, m <= M, 0 < M, NEW k \in 0..M, NEW j \in Nat, NEW e \in Int,
         e = M - m - k * m + j * M, -m < 2 * e, 2 * e < 3 * M - 2 * m
  PROVE  j <= m /\ (k = M => j = m)
<1>1. k * m \in Int /\ k * m <= M * m /\ j * M \in Int /\ m * M \in Int /\ M * m = m * M
  OBVIOUS
<1>2. j <= m
  <2>1. SUFFICES ASSUME j >= m + 1 PROVE FALSE
    OBVIOUS
  <2>2. j * M >= (m + 1) * M /\ (m + 1) * M = m * M + M
    BY <2>1
  <2>3. e >= 2 * M - m
    BY <1>1, <2>2
  <2>4. QED
    BY <2>3
<1>3. ASSUME k = M, j <= m - 1 PROVE FALSE
  <2>1. j * M <= (m - 1) * M /\ (m - 1) * M = m * M - M
    BY <1>3
  <2>2. e <= -m
    BY <1>1, <1>3, <2>1
  <2>3. QED
    BY <2>2
<1>4. QED
  BY <1>2, <1>3

LEMMA ProductFacts == \A a, b \in Int : a * b \in Int /\ a * (b + 1) = a * b + a
OBVIOUS

\* How far a ray has come: i cells to the side, j up or down, of which it has
\* gone k on the longer way.
RayAt(s, start, dx, dy, sign, k, i, j) ==
  /\ i \in 0..dx /\ j \in 0..dy
  /\ s.at = <<start[1] + sign[1] * i, start[2] + sign[2] * j>>
  /\ s.err \in Int /\ s.err = dx - dy - i * dy + j * dx
  /\ IF dx >= dy THEN i = k /\ -dy < 2 * s.err /\ 2 * s.err < 3 * dx - 2 * dy
     ELSE j = k /\ -dx < -2 * s.err /\ -2 * s.err < 3 * dy - 2 * dx

\* The line from start to end, and that the cell k rounds along it is not the last.
Slope(start, end, dx, dy, sign) ==
  /\ start \in Points /\ end \in Points /\ dx \in Nat /\ dy \in Nat
  /\ sign[1] \in {-1, 0, 1} /\ sign[2] \in {-1, 0, 1} /\ (sign[1] = 0 <=> dx = 0) /\ (sign[2] = 0 <=> dy = 0)
  /\ end = <<start[1] + sign[1] * dx, start[2] + sign[2] * dy>>
Short(k, dx, dy) == (k < dx \/ k < dy) /\ (k < dx \/ dy > dx) /\ (k < dy \/ dx >= dy)

LEMMA RayGoesOn ==
  ASSUME NEW start, NEW end, NEW dx, NEW dy, NEW sign, Slope(start, end, dx, dy, sign),
         NEW k \in Nat, Short(k, dx, dy), NEW s, NEW t, t = Cast(s, end, dx, dy, sign),
         NEW i, NEW j, RayAt(s, start, dx, dy, sign, k, i, j)
  PROVE  /\ s.at # end /\ t.seen = Append(s.seen, t.at)
         /\ t.at[1] - s.at[1] \in -1..1 /\ t.at[2] - s.at[2] \in -1..1
         /\ \E i2, j2 \in Nat : RayAt(t, start, dx, dy, sign, k + 1, i2, j2)
<1> USE DEF Slope, Short
<1> DEFINE right == 2 * s.err > -dy
           down == 2 * s.err < dx
           next == <<s.at[1] + (IF right THEN sign[1] ELSE 0), s.at[2] + (IF down THEN sign[2] ELSE 0)>>
           error == s.err - (IF right THEN dy ELSE 0) + (IF down THEN dx ELSE 0)
           i2 == IF right THEN i + 1 ELSE i
           j2 == IF down THEN j + 1 ELSE j
<1>1. /\ i \in 0..dx /\ j \in 0..dy /\ i \in Nat /\ j \in Nat /\ start[1] \in Int /\ start[2] \in Int
      /\ s.at = <<start[1] + sign[1] * i, start[2] + sign[2] * j>>
      /\ s.err \in Int /\ s.err = dx - dy - i * dy + j * dx
  BY DEF RayAt, Points
<1>0. sign[1] \in Int /\ sign[2] \in Int /\ i \in Int /\ j \in Int
  BY <1>1
<1>2. s.at # end
  <2>1. CASE dx >= dy
    <3>1. i = k /\ k < dx /\ sign[1] # 0
      BY <2>1 DEF RayAt
    <3>2. sign[1] * i # sign[1] * dx
      BY <1>1, <3>1
    <3>3. sign[1] * i \in Int /\ sign[1] * dx \in Int
      BY <1>0, ProductFacts
    <3>4. s.at[1] # end[1]
      BY <1>1, <3>2, <3>3
    <3>5. QED
      BY <3>4
  <2>2. CASE ~(dx >= dy)
    <3>1. j = k /\ k < dy /\ sign[2] # 0
      BY <2>2 DEF RayAt
    <3>2. sign[2] * j # sign[2] * dy
      BY <1>1, <3>1
    <3>3. sign[2] * j \in Int /\ sign[2] * dy \in Int
      BY <1>0, ProductFacts
    <3>4. s.at[2] # end[2]
      BY <1>1, <3>2, <3>3
    <3>5. QED
      BY <3>4
  <2>3. QED
    BY <2>1, <2>2
<1>3. t = [at |-> next, seen |-> Append(s.seen, next), err |-> error]
  BY <1>2 DEF Cast
<1>4. t.at = next /\ t.err = error /\ t.seen = Append(s.seen, next)
  <2> DEFINE longer == Append(s.seen, next)
  <2>1. t = [at |-> next, seen |-> longer, err |-> error]
    BY <1>3
  <2> HIDE DEF next, error, longer
  <2>2. t.at = next /\ t.err = error /\ t.seen = longer
    BY <2>1
  <2>3. QED
    BY <2>2 DEF longer
<1>5. /\ error \in Int
      /\ IF dx >= dy
           THEN /\ right /\ i2 = k + 1
                /\ error = dx - dy - (k + 1) * dy + j2 * dx /\ -dy < 2 * error /\ 2 * error < 3 * dx - 2 * dy
           ELSE /\ down /\ j2 = k + 1
                /\ -error = dy - dx - (k + 1) * dx + i2 * dy
                /\ -dx < 2 * (-error) /\ 2 * (-error) < 3 * dy - 2 * dx
  <2>0. error \in Int /\ i2 \in Nat /\ j2 \in Nat
    BY <1>1
  <2>1. CASE dx >= dy
    <3>1. i = k /\ k < dx /\ -dy < 2 * s.err /\ 2 * s.err < 3 * dx - 2 * dy
      BY <2>1 DEF RayAt
    <3>2. s.err = dx - dy - k * dy + j * dx
      BY <1>1, <3>1
    <3>3. right /\ i2 = k + 1
      BY <1>1, <3>1
    <3>4. error = IF 2 * s.err < dx THEN s.err - dy + dx ELSE s.err - dy
      BY <1>1, <3>3
    <3>5. j2 = IF 2 * s.err < dx THEN j + 1 ELSE j
      OBVIOUS
    <3> HIDE DEF error, j2, i2
    <3>6. error = dx - dy - (k + 1) * dy + j2 * dx /\ -dy < 2 * error /\ 2 * error < 3 * dx - 2 * dy
      BY <1>1, <2>0, <2>1, <3>1, <3>2, <3>4, <3>5, RayStep
    <3>7. QED
      BY <2>0, <2>1, <3>3, <3>6
  <2>2. CASE ~(dx >= dy)
    <3> DEFINE e == -s.err
               f == -error
    <3>1. j = k /\ k < dy /\ -dx < 2 * e /\ 2 * e < 3 * dy - 2 * dx /\ e \in Int
      BY <1>1, <2>2 DEF RayAt
    <3>2. e = dy - dx - k * dx + i * dy
      <4>1. i * dy \in Int /\ k * dx \in Int
        BY <1>1
      <4>2. QED
        BY <1>1, <3>1, <4>1
    <3>3. down /\ j2 = k + 1
      BY <1>1, <3>1
    <3>4. f = IF 2 * e < dy THEN e - dx + dy ELSE e - dx
      BY <1>1, <3>3
    <3>5. i2 = IF 2 * e < dy THEN i + 1 ELSE i
      BY <1>1
    <3>6. f \in Int
      BY <2>0
    <3> HIDE DEF e, f, j2, i2
    <3>7. f = dy - dx - (k + 1) * dx + i2 * dy /\ -dx < 2 * f /\ 2 * f < 3 * dy - 2 * dx
      BY <1>1, <2>0, <2>2, <3>1, <3>2, <3>4, <3>5, <3>6, RayStep
    <3>8. QED
      BY <2>0, <2>2, <3>3, <3>7 DEF f
  <2>3. QED
    BY <2>1, <2>2
<1>6. i2 \in 0..dx /\ j2 \in 0..dy /\ error = dx - dy - i2 * dy + j2 * dx
  <2>0. error \in Int /\ i2 \in Nat /\ j2 \in Nat
    BY <1>1, <1>5
  <2>1. CASE dx >= dy
    <3>1. k < dx /\ 0 < dx /\ k + 1 \in 0..dx
      BY <2>1
    <3>2. i2 = k + 1 /\ error = dx - dy - (k + 1) * dy + j2 * dx
          /\ -dy < 2 * error /\ 2 * error < 3 * dx - 2 * dy
      BY <1>5, <2>1
    <3> HIDE DEF error, i2, j2
    <3>3. j2 <= dy
      BY <2>0, <2>1, <3>1, <3>2, RayEnds
    <3>4. QED
      BY <2>0, <3>1, <3>2, <3>3
  <2>2. CASE ~(dx >= dy)
    <3> DEFINE f == -error
    <3>1. k < dy /\ 0 < dy /\ k + 1 \in 0..dy /\ dx <= dy /\ f \in Int
      BY <2>0, <2>2
    <3>2. j2 = k + 1 /\ f = dy - dx - (k + 1) * dx + i2 * dy
          /\ -dx < 2 * f /\ 2 * f < 3 * dy - 2 * dx
      BY <1>5, <2>2
    <3> HIDE DEF i2, j2
    <3>3. i2 <= dx
      <4> HIDE DEF f
      <4>1. QED
        BY <2>0, <3>1, <3>2, RayEnds
    <3>4. error = dx - dy - i2 * dy + (k + 1) * dx
      <4>1. i2 * dy \in Int /\ (k + 1) * dx \in Int
        BY <2>0
      <4> HIDE DEF error
      <4>2. QED
        BY <2>0, <3>2, <4>1
    <3>5. QED
      BY <2>0, <3>1, <3>2, <3>3, <3>4
  <2>3. QED
    BY <2>1, <2>2
<1>7. next = <<start[1] + sign[1] * i2, start[2] + sign[2] * j2>>
  <2>1. sign[1] * (i + 1) = sign[1] * i + sign[1] /\ sign[2] * (j + 1) = sign[2] * j + sign[2]
    BY <1>0, ProductFacts
  <2>2. sign[1] * i \in Int /\ sign[2] * j \in Int
    BY <1>0, ProductFacts
  <2>3. QED
    BY <1>1, <2>1, <2>2
<1>8. next[1] - s.at[1] \in -1..1 /\ next[2] - s.at[2] \in -1..1
  <2>1. sign[1] * i \in Int /\ sign[2] * j \in Int
    BY <1>0, ProductFacts
  <2>2. s.at[1] \in Int /\ s.at[2] \in Int
    BY <1>1, <2>1
  <2>3. next[1] = s.at[1] + (IF right THEN sign[1] ELSE 0) /\ next[2] = s.at[2] + (IF down THEN sign[2] ELSE 0)
    OBVIOUS
  <2> HIDE DEF next, right, down
  <2>4. QED
    BY <2>2, <2>3
<1> HIDE DEF next, error, i2, j2, right, down
<1>9. i2 \in Nat /\ j2 \in Nat
  BY <1>6
<1>10. RayAt(t, start, dx, dy, sign, k + 1, i2, j2)
  <2>1. t.err \in Int /\ t.at = <<start[1] + sign[1] * i2, start[2] + sign[2] * j2>>
    BY <1>4, <1>5, <1>7
  <2>2. t.err = dx - dy - i2 * dy + j2 * dx /\ i2 \in 0..dx /\ j2 \in 0..dy
    BY <1>4, <1>6
  <2>3. IF dx >= dy THEN i2 = k + 1 /\ -dy < 2 * t.err /\ 2 * t.err < 3 * dx - 2 * dy
        ELSE j2 = k + 1 /\ -dx < -2 * t.err /\ -2 * t.err < 3 * dy - 2 * dx
    BY <1>4, <1>5
  <2>4. QED
    BY <2>1, <2>2, <2>3 DEF RayAt
<1>11. QED
  BY <1>2, <1>4, <1>8, <1>9, <1>10

LEMMA SignAndSize ==
  ASSUME NEW v \in Int
  PROVE  Size(v) \in Nat /\ Sign(v) \in {-1, 0, 1} /\ (Sign(v) = 0 <=> Size(v) = 0) /\ v = Sign(v) * Size(v)
BY DEF Size, Sign

\* The cells of the ray lead from one end to the other.
LEMMA RayJoins ==
  ASSUME NEW start \in Cells, NEW end \in Cells, NEW S, S \subseteq Cells,
         ToSet(Ray(start, end)) \cap Cells \subseteq S
  PROVE  Joined(start, end, S)
<1> DEFINE dx == Size(end[1] - start[1])
           dy == Size(end[2] - start[2])
           sign == <<Sign(end[1] - start[1]), Sign(end[2] - start[2])>>
           last == dx + dy
           States == [at : Points, seen : Seq(Points), err : Int]
           first == [at |-> start, seen |-> <<>>, err |-> dx - dy]
           G(f, k) == IF k = 0 THEN first ELSE Cast(f[k - 1], end, dx, dy, sign)
           after == CHOOSE f : f = [k \in 0..last |-> G(f, k)]
           step == [s \in States |-> Cast(s, end, dx, dy, sign)]
<1>1. /\ start \in Points /\ end \in Points /\ start = <<start[1], start[2]>>
      /\ start[1] \in Int /\ start[2] \in Int /\ end[1] \in Int /\ end[2] \in Int
      /\ start[1] \in 0..(Width - 1) /\ start[2] \in 0..(Height - 1)
      /\ end[1] \in 0..(Width - 1) /\ end[2] \in 0..(Height - 1)
  BY AllCells DEF Points, Cells
<1>2. /\ dx \in Nat /\ dy \in Nat /\ sign[1] \in {-1, 0, 1} /\ sign[2] \in {-1, 0, 1}
      /\ sign[1] = 0 <=> dx = 0
      /\ sign[2] = 0 <=> dy = 0
      /\ end = <<start[1] + sign[1] * dx, start[2] + sign[2] * dy>>
  <2> DEFINE u == end[1] - start[1]
             v == end[2] - start[2]
  <2>1. u \in Int /\ v \in Int /\ end[1] = start[1] + u /\ end[2] = start[2] + v /\ end = <<end[1], end[2]>>
    BY <1>1 DEF Points
  <2>2. sign[1] = Sign(u) /\ sign[2] = Sign(v) /\ dx = Size(u) /\ dy = Size(v)
    OBVIOUS
  <2> HIDE DEF u, v, dx, dy, sign
  <2>3. QED
    BY <2>1, <2>2, SignAndSize
<1>3. Ray(start, end) = after[last].seen
  BY DEF Ray
<1> HIDE DEF dx, dy, sign
<1>4. last \in Nat
  BY <1>2
<1>5. first \in States
  BY <1>1, <1>2, EmptySeq
<1>6. step \in [States -> States]
  <2>1. ASSUME NEW s \in States PROVE Cast(s, end, dx, dy, sign) \in States
    <3> DEFINE next == <<s.at[1] + (IF 2 * s.err > -dy THEN sign[1] ELSE 0),
                         s.at[2] + (IF 2 * s.err < dx THEN sign[2] ELSE 0)>>
               error == s.err - (IF 2 * s.err > -dy THEN dy ELSE 0) + (IF 2 * s.err < dx THEN dx ELSE 0)
    <3>1. s.at \in Points /\ s.seen \in Seq(Points) /\ s.err \in Int
      OBVIOUS
    <3>2. next \in Points
      BY <1>2, <3>1 DEF Points
    <3>3. error \in Int
      BY <1>2, <3>1
    <3>4. Cast(s, end, dx, dy, sign) = IF s.at = end THEN s ELSE [at |-> next, seen |-> Append(s.seen, next), err |-> error]
      BY DEF Cast
    <3> HIDE DEF next, error
    <3>5. Append(s.seen, next) \in Seq(Points)
      BY <3>1, <3>2, AppendProperties
    <3>6. QED
      BY <3>2, <3>3, <3>4, <3>5
  <2> HIDE DEF States
  <2>2. QED
    BY <2>1
<1> HIDE DEF States, first
<1>7. PICK f \in [Nat -> States] : f[0] = first /\ \A k \in Nat : f[k + 1] = step[f[k]]
  <2> HIDE DEF step
  <2>1. QED
    BY <1>5, <1>6, Iterates
<1>8. \A k \in Nat : f[k] \in States /\ f[k + 1] = Cast(f[k], end, dx, dy, sign)
  BY <1>7
<1>9. ASSUME NEW k \in 0..last PROVE f[k] = G(f, k)
  <2>1. CASE k = 0
    BY <1>7, <2>1
  <2>2. CASE k # 0
    <3>1. k - 1 \in Nat /\ (k - 1) + 1 = k
      BY <1>4, <2>2
    <3> HIDE DEF last
    <3>2. QED
      BY <1>8, <2>2, <3>1
  <2>3. QED
    BY <2>1, <2>2
<1>10. after = [k \in 0..last |-> G(after, k)]
  <2> DEFINE part == [k \in 0..last |-> f[k]]
  <2>1. ASSUME NEW k \in 0..last PROVE f[k] = G(part, k)
    <3>1. k # 0 => k - 1 \in 0..last
      BY <1>4
    <3>2. k # 0 => part[k - 1] = f[k - 1]
      BY <3>1
    <3> HIDE DEF part, last
    <3>3. QED
      BY <1>9, <3>2
  <2> HIDE DEF G
  <2>2. part = [k \in 0..last |-> G(part, k)]
    BY <2>1
  <2>3. QED
    BY <2>2
<1> HIDE DEF after
<1> DEFINE Same == {k \in Nat : k <= last => after[k] = f[k]}
<1>11. after[last] = f[last]
  <2> HIDE DEF last
  <2>1. 0 \in Same
    BY <1>4, <1>7, <1>10
  <2>2. ASSUME NEW k \in Nat, k \in Same PROVE k + 1 \in Same
    <3>1. ASSUME k + 1 <= last PROVE after[k + 1] = f[k + 1]
      <4>1. k + 1 \in 0..last /\ k + 1 # 0 /\ (k + 1) - 1 = k /\ k <= last
        BY <1>4, <3>1
      <4>2. after[k] = f[k]
        BY <2>2, <4>1
      <4>3. after[k + 1] = Cast(after[k], end, dx, dy, sign) /\ f[k + 1] = Cast(f[k], end, dx, dy, sign)
        BY <1>9, <1>10, <4>1
      <4>4. QED
        BY <4>2, <4>3
    <3>2. QED
      BY <3>1
  <2>3. Nat \subseteq Same
    BY <2>1, <2>2, AllNumbers
  <2>4. QED
    BY <1>4, <2>3
<1> DEFINE n == IF dx >= dy THEN dx ELSE dy
           w == [k \in Nat |-> f[k].at]
           Known == {k \in Nat : (0 < n /\ k <= n) => \E i, j \in Nat : RayAt(f[k], start, dx, dy, sign, k, i, j)}
<1>12. n \in Nat /\ n <= last
  BY <1>2
<1>13. 0 \in Known
  <2>1. f[0].at = start /\ f[0].err = dx - dy
    BY <1>7 DEF first
  <2>2. /\ sign[1] * 0 = 0 /\ sign[2] * 0 = 0 /\ 0 * dy = 0 /\ 0 * dx = 0
        /\ start = <<start[1] + 0, start[2] + 0>>
    BY <1>1, <1>2
  <2>3. ASSUME 0 < dx \/ 0 < dy PROVE RayAt(f[0], start, dx, dy, sign, 0, 0, 0)
    <3>1. IF dx >= dy THEN -dy < 2 * (dx - dy) /\ 2 * (dx - dy) < 3 * dx - 2 * dy
          ELSE -dx < -2 * (dx - dy) /\ -2 * (dx - dy) < 3 * dy - 2 * dx
      BY <1>2, <2>3
    <3>2. 0 \in 0..dx /\ 0 \in 0..dy /\ dx - dy \in Int /\ dx - dy = dx - dy - 0 + 0
      BY <1>2
    <3>3. QED
      BY <2>1, <2>2, <3>1, <3>2 DEF RayAt
  <2>4. 0 < n => 0 < dx \/ 0 < dy
    OBVIOUS
  <2>5. QED
    BY <2>3, <2>4
<1>14. ASSUME NEW k \in Nat, k < n, k \in Known
       PROVE  /\ f[k].at # end /\ f[k + 1].seen = Append(f[k].seen, f[k + 1].at)
              /\ w[k + 1] \in Around(w[k])
              /\ \E i, j \in Nat : RayAt(f[k + 1], start, dx, dy, sign, k + 1, i, j)
  <2>1. PICK i \in Nat, j \in Nat : RayAt(f[k], start, dx, dy, sign, k, i, j)
    BY <1>12, <1>14
  <2>2. (k < dx \/ k < dy) /\ (k < dx \/ dy > dx) /\ (k < dy \/ dx >= dy)
    BY <1>2, <1>14
  <2>3. f[k + 1] = Cast(f[k], end, dx, dy, sign) /\ f[k] \in States /\ f[k + 1] \in States
    BY <1>8
  <2>4. /\ f[k].at # end /\ f[k + 1].seen = Append(f[k].seen, f[k + 1].at)
        /\ f[k + 1].at[1] - f[k].at[1] \in -1..1 /\ f[k + 1].at[2] - f[k].at[2] \in -1..1
        /\ \E i2, j2 \in Nat : RayAt(f[k + 1], start, dx, dy, sign, k + 1, i2, j2)
    <3> DEFINE s == f[k]
               t == f[k + 1]
    <3>1. t = Cast(s, end, dx, dy, sign) /\ RayAt(s, start, dx, dy, sign, k, i, j)
      BY <2>1, <2>3
    <3> HIDE DEF s, t
    <3>2. /\ s.at # end /\ t.seen = Append(s.seen, t.at)
          /\ t.at[1] - s.at[1] \in -1..1 /\ t.at[2] - s.at[2] \in -1..1
          /\ \E i2, j2 \in Nat : RayAt(t, start, dx, dy, sign, k + 1, i2, j2)
      <4>1. Slope(start, end, dx, dy, sign) /\ Short(k, dx, dy)
        BY <1>1, <1>2, <2>2 DEF Slope, Short
      <4> HIDE DEF n, last, G, step, w, Known, Same
      <4>2. QED
        BY <3>1, <4>1, RayGoesOn
    <3>3. QED
      BY <3>2 DEF s, t
  <2>5. f[k].at \in Points /\ f[k + 1].at \in Points
    BY <2>3 DEF States
  <2>6. f[k + 1].at \in Around(f[k].at)
    BY <2>4, <2>5, NextCell
  <2>7. QED
    BY <2>4, <2>6
<1> HIDE DEF n
<1>15. \A k \in Nat : (0 < n /\ k <= n) => \E i, j \in Nat : RayAt(f[k], start, dx, dy, sign, k, i, j)
  <2> HIDE DEF w
  <2>1. ASSUME NEW k \in Nat, k \in Known PROVE k + 1 \in Known
    <3>1. ASSUME k + 1 <= n PROVE \E i, j \in Nat : RayAt(f[k + 1], start, dx, dy, sign, k + 1, i, j)
      <4>1. k < n
        BY <1>12, <3>1
      <4> HIDE DEF Known
      <4>2. QED
        BY <1>14, <2>1, <4>1
    <3>2. QED
      BY <3>1
  <2>2. Nat \subseteq Known
    BY <1>13, <2>1, AllNumbers
  <2>3. QED
    BY <2>2
<1>16. ASSUME NEW k \in 1..n PROVE w[k] \in Cells
  <2>1. PICK i \in Nat, j \in Nat : RayAt(f[k], start, dx, dy, sign, k, i, j)
    BY <1>12, <1>15
  <2>2. /\ i \in 0..dx /\ j \in 0..dy
        /\ f[k].at = <<start[1] + sign[1] * i, start[2] + sign[2] * j>>
    BY <2>1 DEF RayAt
  <2>3. ASSUME NEW x \in Int, NEW W \in Int, NEW g \in {-1, 0, 1}, NEW d \in Nat, NEW h \in 0..d,
               x \in 0..W, x + g * d \in 0..W
        PROVE  x + g * h \in 0..W
    <3>1. CASE g = 0
      BY <2>3, <3>1
    <3>2. CASE g = 1
      BY <2>3, <3>2
    <3>3. CASE g = -1
      BY <2>3, <3>3
    <3>4. QED
      BY <3>1, <3>2, <3>3
  <2>4. Width - 1 \in Int /\ Height - 1 \in Int
    BY GridAssumption
  <2>5. start[1] + sign[1] * dx \in 0..(Width - 1) /\ start[2] + sign[2] * dy \in 0..(Height - 1)
    BY <1>1, <1>2
  <2>6. start[1] + sign[1] * i \in 0..(Width - 1) /\ start[2] + sign[2] * j \in 0..(Height - 1)
    BY <1>1, <1>2, <2>2, <2>3, <2>4, <2>5
  <2>7. f[k].at \in Cells
    BY <2>2, <2>6 DEF Cells
  <2>8. k \in Nat
    BY <1>12
  <2>9. QED
    BY <2>7, <2>8
<1>17. w[n] = end
  <2>1. CASE n = 0
    <3>1. dx = 0 /\ dy = 0
      BY <1>2, <2>1 DEF n
    <3>2. sign[1] * 0 = 0 /\ sign[2] * 0 = 0
      BY <1>2
    <3>3. end = start
      BY <1>1, <1>2, <3>1, <3>2
    <3>4. f[0].at = start
      BY <1>7 DEF first
    <3>5. QED
      BY <2>1, <3>3, <3>4
  <2>2. CASE n # 0
    <3>1. PICK i \in Nat, j \in Nat : RayAt(f[n], start, dx, dy, sign, n, i, j)
      BY <1>12, <1>15, <2>2
    <3>2. i = dx /\ j = dy
      <4>1. i \in 0..dx /\ j \in 0..dy /\ f[n].err \in Int /\ f[n].err = dx - dy - i * dy + j * dx
        BY <3>1 DEF RayAt
      <4>2. CASE dx >= dy
        <5>1. i = n /\ n = dx /\ 0 < dx /\ -dy < 2 * f[n].err /\ 2 * f[n].err < 3 * dx - 2 * dy
          BY <1>2, <2>2, <3>1, <4>2 DEF RayAt, n
        <5>2. dx \in 0..dx /\ f[n].err = dx - dy - dx * dy + j * dx
          BY <1>2, <4>1, <5>1
        <5>3. j = dy
          BY <1>2, <4>1, <4>2, <5>1, <5>2, RayEnds
        <5>4. QED
          BY <5>1, <5>3
      <4>3. CASE ~(dx >= dy)
        <5> DEFINE e == -f[n].err
        <5>1. j = n /\ n = dy /\ 0 < dy /\ -dx < 2 * e /\ 2 * e < 3 * dy - 2 * dx
          BY <1>2, <2>2, <3>1, <4>1, <4>3 DEF RayAt, n
        <5>2. dy \in 0..dy /\ e \in Int /\ e = dy - dx - dy * dx + i * dy /\ dx <= dy
          <6>1. i * dy \in Int /\ dy * dx \in Int
            BY <1>2, <4>1, ProductFacts
          <6>2. j * dx = dy * dx
            BY <5>1
          <6>3. QED
            BY <1>2, <4>1, <4>3, <6>1, <6>2
        <5> HIDE DEF e
        <5>3. i = dx
          BY <1>2, <4>1, <5>1, <5>2, RayEnds
        <5>4. QED
          BY <5>1, <5>3
      <4>4. QED
        BY <4>2, <4>3
    <3>3. f[n].at = end
      BY <1>2, <3>1, <3>2 DEF RayAt
    <3>4. QED
      BY <1>12, <3>3
  <2>3. QED
    BY <2>1, <2>2
\* What has been looked at once is on the list for good.
<1>18. \A k \in Nat : ToSet(f[k].seen) \subseteq ToSet(f[k + 1].seen)
  <2>1. SUFFICES ASSUME NEW k \in Nat, f[k].at # end PROVE ToSet(f[k].seen) \subseteq ToSet(f[k + 1].seen)
    BY <1>8 DEF Cast
  <2> DEFINE s == f[k].seen
             c == f[k + 1].at
  <2>2. s \in Seq(Points) /\ f[k + 1].seen = Append(s, c) /\ c \in Points
    <3>1. f[k] \in States /\ f[k + 1] \in States /\ f[k + 1] = Cast(f[k], end, dx, dy, sign)
      BY <1>8
    <3>2. f[k + 1].seen = Append(f[k].seen, f[k + 1].at)
      BY <2>1, <3>1 DEF Cast
    <3>3. QED
      BY <3>1, <3>2 DEF States
  <2> HIDE DEF s, c
  <2>3. ASSUME NEW i \in DOMAIN s PROVE s[i] \in ToSet(Append(s, c))
    <3>1. i \in 1..Len(s) /\ Len(s) \in Nat
      BY <2>2
    <3>2. i \in DOMAIN Append(s, c) /\ Append(s, c)[i] = s[i]
      BY <2>2, <3>1, AppendProperties
    <3>3. QED
      BY <3>2 DEF ToSet
  <2>4. QED
    BY <2>2, <2>3 DEF ToSet, s
<1>19. ASSUME NEW k \in 1..n PROVE w[k] \in ToSet(Ray(start, end))
  <2> DEFINE Late == {d \in Nat : w[k] \in ToSet(f[k + d].seen)}
  <2>1. w[k] \in ToSet(f[k].seen)
    <3>1. k - 1 \in Nat /\ k - 1 < n /\ (k - 1) + 1 = k /\ k \in Nat /\ k - 1 \in Known
      BY <1>12, <1>15
    <3> DEFINE s == f[k - 1].seen
               c == f[k].at
    <3>2. f[k].seen = Append(s, c) /\ s \in Seq(Points) /\ c \in Points
      <4>1. f[(k - 1) + 1].seen = Append(f[k - 1].seen, f[(k - 1) + 1].at)
        BY <1>14, <3>1
      <4>2. f[k - 1] \in States /\ f[k] \in States
        BY <1>8, <3>1
      <4>3. QED
        BY <3>1, <4>1, <4>2 DEF States
    <3> HIDE DEF s
    <3>3. Len(s) + 1 \in DOMAIN Append(s, c) /\ Append(s, c)[Len(s) + 1] = c
      <4> HIDE DEF c
      <4>1. Len(s) \in Nat /\ Append(s, c) \in Seq(Points) /\ Len(Append(s, c)) = Len(s) + 1
            /\ Append(s, c)[Len(s) + 1] = c
        BY <3>2, AppendProperties
      <4>2. QED
        BY <4>1
    <3>4. QED
      BY <3>1, <3>2, <3>3 DEF ToSet
  <2>2. 0 \in Late
    BY <2>1
  <2>3. ASSUME NEW d \in Nat, d \in Late PROVE d + 1 \in Late
    <3>1. k + d \in Nat /\ (k + d) + 1 = k + (d + 1)
      BY <1>12
    <3>2. ToSet(f[k + d].seen) \subseteq ToSet(f[k + (d + 1)].seen)
      BY <1>18, <3>1
    <3>3. QED
      BY <2>3, <3>2
  <2>4. Nat \subseteq Late
    BY <2>2, <2>3, AllNumbers
  <2>5. last - k \in Nat /\ k + (last - k) = last
    BY <1>4, <1>12
  <2>6. w[k] \in ToSet(f[last].seen)
    <3>1. last - k \in Late
      BY <2>4, <2>5
    <3>2. w[k] \in ToSet(f[k + (last - k)].seen)
      BY <3>1
    <3>3. QED
      BY <2>5, <3>2
  <2>7. QED
    BY <1>3, <1>11, <2>6
<1>20. ASSUME NEW k \in 1..n PROVE w[k] \in S /\ w[k] \in Around(w[k - 1])
  <2>1. w[k] \in S
    <3> HIDE DEF w
    <3>1. QED
      BY <1>16, <1>19
  <2>2. k - 1 \in Nat /\ k - 1 < n /\ (k - 1) + 1 = k /\ k - 1 \in Known
    BY <1>12, <1>15
  <2>3. w[(k - 1) + 1] \in Around(w[k - 1])
    <3> HIDE DEF w, Known
    <3>1. QED
      BY <1>14, <2>2
  <2>4. QED
    BY <2>1, <2>2, <2>3
<1>21. w[0] = start
  BY <1>7 DEF first
<1> HIDE DEF w
<1>22. Joined(w[0], w[n], S)
  BY <1>12, <1>20, AllCells, FS_Subset, ChainJoins
<1>23. QED
  BY <1>17, <1>21, <1>22

-----------------------------------------------------------------------------
(* The inductive invariant *)

\* A path that computePath has written: moves to come, of which some are done.
IsPath(p) == p = [way |-> p.way, at |-> p.at] /\ p.way \in Seq(Points) /\ p.at \in Nat

\* Positions and what machines remember; all stand apart.
Placed(w) ==
  /\ w.pos \in [Movers -> Points] /\ w.target \in [Movers -> Points]
  /\ w.path = [m \in Walkers |-> w.path[m]] /\ \A m \in Walkers : IsPath(w.path[m])
  /\ w.mode = [m \in Walkers |-> w.mode[m]]
  /\ Apart(w.pos)

IInv ==
  /\ Placed(World) /\ Placed(saved)
  /\ DOMAIN saved = {"pos", "target", "path", "mode", "shut"}

Homes == [m \in Movers |-> Corner(Mover[m].home)]

LEMMA WorldFields ==
  World.pos = pos /\ World.target = target /\ World.path = path /\ World.mode = mode
  /\ DOMAIN World = {"pos", "target", "path", "mode", "shut"}
BY DEF World

LEMMA HomesArePlaced == Homes \in [Movers -> Points] /\ Apart(Homes)
<1>1. \A m \in Movers : Corner(Mover[m].home) \in Points
  BY PointFacts, MoverAssumption DEF Movers, Points
<1>2. QED
  BY <1>1, HomesAssumption DEF Homes

LEMMA InvInit == ASSUME Init PROVE IInv
<1>1. pos = Homes /\ target = Homes /\ path = [m \in Walkers |-> NoPath] /\ saved = World
  BY DEF Init, Homes
<1>2. <<>> \in Seq(Points) /\ 0 \in Nat
  BY EmptySeq
<1>3. \A m \in Walkers : path[m] = NoPath /\ IsPath(NoPath)
  BY <1>1, <1>2 DEF IsPath, NoPath
<1>4. path = [m \in Walkers |-> path[m]] /\ mode = [m \in Walkers |-> mode[m]]
  BY <1>1 DEF Init
<1>5. Placed(World)
  BY <1>1, <1>3, <1>4, WorldFields, HomesArePlaced DEF Placed
<1>6. QED
  BY <1>1, <1>5, WorldFields DEF IInv

\* What computePath leaves, whether it finds a way or not, is a path.
LEMMA ComputedIsPath ==
  ASSUME IInv, NEW m \in Walkers, NEW t \in Points
  PROVE  IsPath(Computed(m, t))
<1>1. m \in Movers /\ pos[m] \in Points /\ IsPath(path[m])
  BY WorldFields DEF IInv, Placed, Walkers
<1>2. Int2(pos[m]) \in Points /\ Int2(t) \in Points /\ IsFiniteSet(Open(m)) /\ Open(m) \subseteq Points
  BY <1>1, PointFacts, CellsAreFinite
<1> DEFINE way == AStar(Open(m), Int2(pos[m]), Int2(t))
<1>3. CASE way = <<>>
  BY <1>1, <1>3 DEF Computed
<1>4. CASE way # <<>>
  <2>1. Computed(m, t) = [way |-> way, at |-> 0]
    BY <1>4 DEF Computed
  <2>2. way \in Seq(Open(m))
    BY <1>2, <1>4, AStarIsAWay DEF IsWay
  <2> HIDE DEF way
  <2>3. way \in Seq(Points)
    BY <1>2, <2>2
  <2>4. QED
    BY <2>1, <2>3 DEF IsPath
<1>5. QED
  BY <1>3, <1>4

\* Whatever a step of a tick moves, it moves where it may.
LEMMA MovesKeep ==
  ASSUME IInv, UNCHANGED <<target, path, mode, saved>>, NEW m \in Movers, NEW q \in Points,
         pos' = pos \/ (CanEnter(m, CellOf(q)) /\ pos' = [pos EXCEPT ![m] = q])
  PROVE  IInv'
<1>1. pos \in [Movers -> Points] /\ Apart(pos)
  BY WorldFields DEF IInv, Placed
<1>2. pos' \in [Movers -> Points] /\ Apart(pos')
  BY <1>1, MovedApart
<1>3. World'.pos = pos' /\ World'.target = target /\ World'.path = path /\ World'.mode = mode'
  BY DEF World
<1>4. Placed(World)'
  BY <1>2, <1>3, WorldFields DEF IInv, Placed
<1>5. QED
  BY <1>4 DEF IInv, Placed

LEMMA PressPreserves == ASSUME IInv, NEW d \in Directions, Press(d) PROVE IInv'
<1> DEFINE c == Add(Int2(pos[Player]), d)
<1>1. UNCHANGED <<target, path, mode, saved>>
      /\ pos' = IF CanEnter(Player, c) THEN [pos EXCEPT ![Player] = Corner(c)] ELSE pos
  BY DEF Press, AfterInput
<1>2. Player \in Movers /\ pos[Player] \in Points
  BY WorldFields, MoverAssumption DEF IInv, Placed, Movers
<1>3. c \in Points
  <2>1. Int2(pos[Player]) \in Points /\ d \in Points
    BY <1>2, PointFacts DEF Directions, Points
  <2>2. QED
    BY <2>1 DEF Add, Points
<1> HIDE DEF c
<1>4. Corner(c) \in Points /\ CellOf(Corner(c)) = c
  BY <1>3, PointFacts
<1>5. QED
  BY <1>1, <1>2, <1>4, MovesKeep

LEMMA StepPreserves == ASSUME IInv, NEW m \in Walkers, StepAlongPath(m) PROVE IInv'
<1> DEFINE next == path[m].way[path[m].at + 1]
<1>1. /\ UNCHANGED <<target, mode, saved>> /\ path[m].at < Len(path[m].way)
      /\ \/ UNCHANGED <<pos, path>>
         \/ CanEnter(m, next) /\ pos' = [pos EXCEPT ![m] = Corner(next)] /\ path' = Advanced(m)
  <2>1. IsPath(path[m])
    BY WorldFields DEF IInv, Placed
  <2>2. Len(path[m].way) \in Nat /\ path[m].at \in Nat
    BY <2>1, LenProperties DEF IsPath
  <2>3. QED
    BY <2>2 DEF StepAlongPath, Turn, PathComplete
<1>2. m \in Movers /\ path = [k \in Walkers |-> path[k]] /\ \A k \in Walkers : IsPath(path[k])
  BY WorldFields DEF IInv, Placed, Walkers
<1>3. next \in Points
  <2>1. path[m].at \in Nat /\ path[m].way \in Seq(Points)
    BY <1>2 DEF IsPath
  <2>2. Len(path[m].way) \in Nat
    BY <2>1, LenProperties
  <2>3. path[m].at + 1 \in 1..Len(path[m].way)
    BY <1>1, <2>1, <2>2
  <2>4. QED
    BY <2>1, <2>3, ElementOfSeq
<1>4. Corner(next) \in Points /\ CellOf(Corner(next)) = next
  BY <1>3, PointFacts
<1>5. CASE UNCHANGED <<pos, path>>
  BY <1>1, <1>2, <1>4, <1>5, MovesKeep
<1>6. CASE CanEnter(m, next) /\ pos' = [pos EXCEPT ![m] = Corner(next)] /\ path' = Advanced(m)
  <2> HIDE DEF next
  <2>1. pos' \in [Movers -> Points] /\ Apart(pos')
    BY <1>2, <1>4, <1>6, MovedApart, WorldFields DEF IInv, Placed
  <2>2. path' = [k \in Walkers |-> path'[k]] /\ \A k \in Walkers : IsPath(path'[k])
    <3>1. path' = [path EXCEPT ![m].at = @ + 1]
      BY <1>6 DEF Advanced
    <3>2. path' = [k \in Walkers |-> path'[k]] /\ \A k \in Walkers \ {m} : path'[k] = path[k]
      BY <1>2, <3>1
    <3>3. path'[m] = [path[m] EXCEPT !.at = @ + 1]
      BY <1>2, <3>1
    <3>4. IsPath(path'[m])
      BY <1>2, <3>3 DEF IsPath
    <3>5. QED
      BY <1>2, <3>2, <3>4
  <2>3. World'.pos = pos' /\ World'.target = target /\ World'.path = path' /\ World'.mode = mode'
    BY <1>1 DEF World
  <2>4. Placed(World)'
    BY <1>1, <2>1, <2>2, <2>3, WorldFields DEF IInv, Placed
  <2>5. QED
    BY <1>1, <2>4 DEF IInv, Placed
<1>7. QED
  BY <1>1, <1>5, <1>6

LEMMA ArrivePreserves == ASSUME IInv, NEW m \in Walkers, NEW t \in Targets, Arrive(m, t) PROVE IInv'
<1>1. /\ UNCHANGED <<pos, saved>> /\ target' = [target EXCEPT ![m] = t]
      /\ mode' = [mode EXCEPT ![m] = "idle"]
      /\ path' = [path EXCEPT ![m] = Computed(m, t)]
  BY DEF Arrive, Turn
<1>2. t \in Points /\ m \in Movers
  BY MoverAssumption DEF Points, Walkers
<1>3. IsPath(Computed(m, t))
  BY <1>2, ComputedIsPath
<1>4. path = [k \in Walkers |-> path[k]] /\ \A k \in Walkers : IsPath(path[k])
  BY WorldFields DEF IInv, Placed
<1>5. path' = [k \in Walkers |-> path'[k]] /\ \A k \in Walkers : IsPath(path'[k])
  <2> DEFINE new == Computed(m, t)
  <2>1. path' = [path EXCEPT ![m] = new] /\ IsPath(new)
    BY <1>1, <1>3
  <2> HIDE DEF new
  <2>2. path'[m] = new /\ path' = [k \in Walkers |-> path'[k]]
        /\ \A k \in Walkers \ {m} : path'[k] = path[k]
    BY <1>4, <2>1
  <2>3. QED
    BY <1>4, <2>1, <2>2
<1>6. target' \in [Movers -> Points]
  BY <1>1, <1>2, WorldFields DEF IInv, Placed
<1>7. World'.pos = pos /\ World'.target = target' /\ World'.path = path' /\ World'.mode = mode'
  BY <1>1 DEF World
<1>8. mode' = [k \in Walkers |-> mode'[k]]
  BY <1>1, WorldFields DEF IInv, Placed
<1>9. Placed(World)'
  BY <1>5, <1>6, <1>7, <1>8, WorldFields DEF IInv, Placed
<1>10. QED
  BY <1>1, <1>9 DEF IInv, Placed

LEMMA ChaserPreserves ==
  ASSUME IInv, NEW m \in Chasers, SetPursueTarget(m) \/ MoveTowardTarget(m)
  PROVE  IInv'
<1>1. m \in Movers /\ pos[m] \in Points /\ target[m] \in Points
  BY WorldFields DEF IInv, Placed, Chasers
<1>2. CASE SetPursueTarget(m)
  <2>1. UNCHANGED <<pos, path, mode, saved>> /\ target' = [target EXCEPT ![m] = pos[Player]]
    BY <1>2 DEF SetPursueTarget, Turn
  <2>2. target' \in [Movers -> Points]
    BY <1>1, <2>1, WorldFields, MoverAssumption DEF IInv, Placed, Movers
  <2>3. World'.pos = pos /\ World'.target = target' /\ World'.path = path /\ World'.mode = mode'
    BY <2>1 DEF World
  <2>4. Placed(World)'
    BY <2>1, <2>2, <2>3, WorldFields DEF IInv, Placed
  <2>5. QED
    BY <2>1, <2>4 DEF IInv, Placed
<1>3. CASE MoveTowardTarget(m)
  <2>1. UNCHANGED <<target, path, mode, saved>>
    BY <1>3 DEF MoveTowardTarget, Turn
  <2>2. PICK q \in Ahead(pos[m], target[m]) :
          pos' = IF \A c \in SampledCells(pos[m], q) : CanEnter(m, c) THEN [pos EXCEPT ![m] = q] ELSE pos
    BY <1>3 DEF MoveTowardTarget
  <2>3. q \in Points /\ CellOf(q) \in SampledCells(pos[m], q)
    BY <1>1, LandingIsSampled
  <2>4. pos' = pos \/ (CanEnter(m, CellOf(q)) /\ pos' = [pos EXCEPT ![m] = q])
    BY <2>2, <2>3
  <2>5. QED
    BY <1>1, <2>1, <2>3, <2>4, MovesKeep
<1>4. QED
  BY <1>2, <1>3

\* A tick that fails leaves what was saved, and a start puts everybody home.
LEMMA FailuresPreserve == ASSUME IInv, Commit \/ Fail \/ Restart PROVE IInv'
<1>1. ASSUME NEW w, Placed(w), Become(w) PROVE Placed(World)'
  <2>1. World'.pos = w.pos /\ World'.target = w.target /\ World'.path = w.path /\ World'.mode = w.mode
    BY <1>1 DEF World, Become
  <2>2. QED
    BY <1>1, <2>1 DEF Placed
<1>2. CASE Commit
  <2>1. UNCHANGED <<pos, target, path, mode, shut>> /\ saved' = World
    BY <1>2 DEF Commit
  <2>2. World' = World
    BY <2>1 DEF World
  <2>3. QED
    BY <2>1, <2>2, WorldFields DEF IInv
<1>3. CASE Fail
  <2>1. Become(saved) /\ UNCHANGED saved
    BY <1>3 DEF Fail
  <2>2. QED
    BY <1>1, <2>1 DEF IInv, Placed
<1>4. CASE Restart
  <2> DEFINE w == Reloaded(saved)
  <2>1. Become(w) /\ saved' = w
    BY <1>4 DEF Restart
  <2>2. w = [saved EXCEPT !.pos = Homes, !.shut = Doors]
    BY DEF Reloaded, Homes
  <2>3. w.pos = Homes /\ w.target = saved.target /\ w.path = saved.path /\ w.mode = saved.mode /\ DOMAIN w = DOMAIN saved
    BY <2>2 DEF IInv
  <2> HIDE DEF w
  <2>4. Placed(w)
    BY <2>3, HomesArePlaced DEF IInv, Placed
  <2>5. QED
    BY <1>1, <2>1, <2>3, <2>4 DEF IInv
<1>5. QED
  BY <1>2, <1>3, <1>4

LEMMA InvStep == ASSUME IInv, [Next]_vars PROVE IInv'
<1>1. ASSUME UNCHANGED <<pos, target, path, saved>>, mode' = [k \in Walkers |-> mode'[k]] PROVE IInv'
  <2>1. World'.pos = pos /\ World'.target = target /\ World'.path = path /\ World'.mode = mode'
    BY <1>1 DEF World
  <2>2. Placed(World)'
    BY <1>1, <2>1, WorldFields DEF IInv, Placed
  <2>3. QED
    BY <1>1, <2>2 DEF IInv, Placed
<1>2. CASE NoKey \/ (\E m \in Agents : Rest(m)) \/ (\E d \in Doors : Swing(d)) \/ (\E m \in Walkers : Wake(m)) \/ UNCHANGED vars
  <2>1. UNCHANGED <<pos, target, path, saved>>
    BY <1>2 DEF NoKey, AfterInput, Rest, Swing, Wake, Turn, vars
  <2>2. mode = [k \in Walkers |-> mode[k]]
    BY WorldFields DEF IInv, Placed
  <2>3. mode' = mode \/ \E m \in Walkers : mode' = [mode EXCEPT ![m] = "wandering"]
    BY <1>2 DEF NoKey, AfterInput, Rest, Swing, Wake, Turn, vars
  <2>4. mode' = [k \in Walkers |-> mode'[k]]
    BY <2>2, <2>3
  <2>5. QED
    BY <1>1, <2>1, <2>4
<1>3. CASE Commit \/ Fail \/ Restart
  BY <1>3, FailuresPreserve
<1>4. CASE \E d \in Directions : Press(d)
  BY <1>4, PressPreserves
<1>5. CASE \E m \in Walkers : StepAlongPath(m) \/ \E t \in Targets : Arrive(m, t)
  BY <1>5, StepPreserves, ArrivePreserves
<1>6. CASE \E m \in Chasers : SetPursueTarget(m) \/ MoveTowardTarget(m)
  BY <1>6, ChaserPreserves
<1>7. QED
  BY <1>2, <1>3, <1>4, <1>5, <1>6 DEF Next

\* In every state that can be reached positions, saved ones too, are points of
\* the grid at which all stand apart, and paths are moves between points (ReadSpace,
\* computePath).
THEOREM InvariantHolds == Safety => []IInv
<1>1. Init => IInv
  BY InvInit
<1>2. IInv /\ [Next]_vars => IInv'
  BY InvStep
<1>3. QED
  BY <1>1, <1>2, PTL DEF Safety

\* Nobody ever shares a cell with a mover that denies it and that it denies, or
\* stands in a wall, whatever order a tick moves them in, how fast they are, and
\* whether the tick fails (CanEnter, moveTowardTarget, stepAlongPath, Handle).
THEOREM AllStandApart == Spec => []NoOverlap
<1>1. IInv => NoOverlap
  BY WorldFields DEF IInv, Placed, NoOverlap
<1>2. Spec => Safety
  BY DEF Spec
<1>3. QED
  BY <1>1, <1>2, InvariantHolds, PTL

-----------------------------------------------------------------------------
(* Walls hold *)

LEMMA StridesAreClear ==
  ASSUME IInv, NEW m \in Chasers, MoveTowardTarget(m), pos'[m] # pos[m]
  PROVE  Joined(CellOf(pos[m]), CellOf(pos'[m]), Open(m))
<1>1. m \in Movers /\ pos \in [Movers -> Points] /\ pos[m] \in Points /\ target[m] \in Points
  BY WorldFields DEF IInv, Placed, Chasers
<1>2. PICK q \in Ahead(pos[m], target[m]) :
        pos' = IF \A c \in SampledCells(pos[m], q) : CanEnter(m, c) THEN [pos EXCEPT ![m] = q] ELSE pos
  BY DEF MoveTowardTarget
<1>3. q \in Points
  BY <1>1, LandingIsSampled
<1>4. pos'[m] = q /\ \A c \in SampledCells(pos[m], q) : CanEnter(m, c)
  BY <1>1, <1>2
<1>5. SampledCells(pos[m], q) \subseteq Points
  <2> DEFINE n == Samples(pos[m], q)
  <2>1. n \in Nat \ {0}
    BY <1>1, <1>3, SamplesAreClose
  <2>2. n * Scale \in Nat \ {0}
    BY <2>1, GridAssumption
  <2> DEFINE D == n * Scale
             at(i, k) == (pos[m][k] * n + (q[k] - pos[m][k]) * i) \div D
  <2>3. pos[m][1] \in Int /\ pos[m][2] \in Int /\ q[1] \in Int /\ q[2] \in Int
    BY <1>1, <1>3 DEF Points
  <2>4. SampledCells(pos[m], q) = {<<at(i, 1), at(i, 2)>> : i \in 1..n}
    BY DEF SampledCells
  <2> HIDE DEF n, D
  <2>5. \A i \in 1..n, k \in {1, 2} : at(i, k) \in Int
    <3>1. D \in Nat \ {0}
      BY <2>2 DEF D
    <3>2. \A a, b, c \in Int : (a * n + (b - a) * c) \in Int
      BY <2>1
    <3>3. \A a \in Int : a \div D \in Int
      BY <3>1
    <3>4. \A i \in 1..n, k \in {1, 2} : (pos[m][k] * n + (q[k] - pos[m][k]) * i) \in Int
      BY <2>1, <2>3, <3>2
    <3>5. QED
      BY <3>3, <3>4
  <2> HIDE DEF at
  <2>6. QED
    BY <2>4, <2>5 DEF Points
<1>6. SampledCells(pos[m], q) \subseteq Open(m)
  BY <1>1, <1>4, <1>5, EntersOpen
<1>7. QED
  BY <1>1, <1>3, <1>4, <1>6, CellsAreFinite, SamplesJoin

LEMMA SightIsClear ==
  ASSUME NEW m, CanSee(m, Player)
  PROVE  Joined(Int2(pos[m]), Int2(pos[Player]), {c \in Cells : Clear(m, Player, c, Int2(pos[Player]))})
<1> DEFINE start == Int2(pos[m])
           end == Int2(pos[Player])
           S == {c \in Cells : Clear(m, Player, c, end)}
<1>1. start \in Cells /\ end \in Cells /\ \A c \in ToSet(Ray(start, end)) : Clear(m, Player, c, end)
  BY DEF CanSee
<1>2. S \subseteq Cells /\ ToSet(Ray(start, end)) \cap Cells \subseteq S
  BY <1>1
<1> HIDE DEF start, end, S
<1>3. Joined(start, end, S)
  BY <1>1, <1>2, RayJoins
<1>4. QED
  BY <1>3 DEF start, end, S

\* What one step of the agents does to a chaser.
HeldUp(m) ==
  /\ pos'[m] # pos[m] => Joined(CellOf(pos[m]), CellOf(pos'[m]), Open(m))
  /\ target'[m] # target[m] =>
       Joined(Int2(pos[m]), Int2(pos[Player]), {c \in Cells : Clear(m, Player, c, Int2(pos[Player]))})

LEMMA WallsStep ==
  ASSUME IInv, [Next]_vars, NEW m \in Chasers, pc = "agents", pc' = "agents"
  PROVE  HeldUp(m)
<1>1. m \in Movers /\ m \notin Walkers
  BY DEF Chasers, Walkers
<1>2. pos \in [Movers -> Points] /\ target \in [Movers -> Points]
  BY WorldFields DEF IInv, Placed
<1>3. ASSUME pos'[m] = pos[m], target'[m] = target[m] PROVE HeldUp(m)
  BY <1>3 DEF HeldUp
<1>4. CASE UNCHANGED vars \/ (\E a \in Agents : Rest(a)) \/ (\E d \in Doors : Swing(d)) \/ \E w \in Walkers : Wake(w)
  <2>1. UNCHANGED <<pos, target>>
    BY <1>4 DEF vars, Rest, Swing, Wake
  <2>2. QED
    BY <1>3, <2>1
<1>5. CASE NoKey \/ Commit \/ Fail \/ Restart \/ \E d \in Directions : Press(d)
  BY <1>5 DEF NoKey, Commit, Fail, Restart, Press, AfterInput
<1>6. ASSUME NEW w \in Walkers, StepAlongPath(w) PROVE HeldUp(m)
  <2>1. UNCHANGED target /\ (UNCHANGED pos \/ pos' = [pos EXCEPT ![w] = Corner(path[w].way[path[w].at + 1])])
    BY <1>6 DEF StepAlongPath
  <2>2. pos'[m] = pos[m] /\ target'[m] = target[m]
    BY <1>1, <1>2, <2>1
  <2>3. QED
    BY <1>3, <2>2
<1>7. ASSUME NEW w \in Walkers, NEW t \in Targets, Arrive(w, t) PROVE HeldUp(m)
  <2>1. UNCHANGED pos /\ target' = [target EXCEPT ![w] = t]
    BY <1>7 DEF Arrive
  <2>2. pos'[m] = pos[m] /\ target'[m] = target[m]
    BY <1>1, <1>2, <2>1
  <2>3. QED
    BY <1>3, <2>2
<1>8. ASSUME NEW n \in Chasers, SetPursueTarget(n) PROVE HeldUp(m)
  <2>1. UNCHANGED pos /\ target' = [target EXCEPT ![n] = pos[Player]] /\ CanSee(n, Player)
    BY <1>8 DEF SetPursueTarget
  <2>2. CASE n = m
    BY <2>1, <2>2, SightIsClear DEF HeldUp
  <2>3. CASE n # m
    BY <1>1, <1>2, <1>3, <2>1, <2>3
  <2>4. QED
    BY <2>2, <2>3
<1>9. ASSUME NEW n \in Chasers, MoveTowardTarget(n) PROVE HeldUp(m)
  <2>1. UNCHANGED target /\ (UNCHANGED pos \/ \E q : pos' = [pos EXCEPT ![n] = q])
    BY <1>9 DEF MoveTowardTarget
  <2>2. CASE n = m
    BY <1>9, <2>1, <2>2, StridesAreClear DEF HeldUp
  <2>3. CASE n # m
    <3>1. pos'[m] = pos[m]
      BY <1>1, <1>2, <2>1, <2>3
    <3>2. QED
      BY <1>3, <2>1, <3>1
  <2>4. QED
    BY <2>2, <2>3
<1>10. QED
  BY <1>4, <1>5, <1>6, <1>7, <1>8, <1>9 DEF Next

-----------------------------------------------------------------------------
(* Ways are shortest *)

LEMMA ArrivalsCompute ==
  ASSUME IInv, NEW m \in Walkers, NEW t \in Targets, Arrive(m, t)
  PROVE  ComputesAWay(m)
<1> DEFINE start == Int2(pos[m])
           goal == Int2(t)
           ok == Open(m)
           way == AStar(ok, start, goal)
<1>1. m \in Movers /\ pos[m] \in Points /\ t \in Points /\ target' = [target EXCEPT ![m] = t]
      /\ path = [k \in Walkers |-> path[k]] /\ target \in [Movers -> Points]
  BY WorldFields, MoverAssumption DEF IInv, Placed, Walkers, Points, Arrive
<1>2. start \in Points /\ goal \in Points /\ IsFiniteSet(ok) /\ ok \subseteq Points
  BY <1>1, PointFacts, CellsAreFinite
<1>3. Int2(target'[m]) = goal /\ Cardinality(ok) \in Nat
  BY <1>1, <1>2, FS_CardinalityType
<1>4. path'[m] = IF way = <<>> THEN path[m] ELSE [way |-> way, at |-> 0]
  <2>1. path' = [path EXCEPT ![m] = Computed(m, t)]
    BY DEF Arrive
  <2>2. Computed(m, t) = IF way = <<>> THEN path[m] ELSE [way |-> way, at |-> 0]
    BY DEF Computed
  <2> HIDE DEF way
  <2>3. QED
    BY <1>1, <2>1, <2>2
<1>5. CASE start = goal \/ goal \notin Reachable(ok, start, Cardinality(ok))
  <2>1. way = <<>>
    <3>1. CASE start = goal
      BY <3>1 DEF AStar
    <3>2. CASE start # goal
      <4> HIDE DEF start, goal, ok
      <4>1. QED
        BY <1>2, <1>5, <3>2, AStarIsShortest
    <3>3. QED
      BY <3>1, <3>2
  <2> HIDE DEF way
  <2>2. path'[m] = path[m]
    BY <1>4, <2>1
  <2>3. QED
    BY <1>3, <1>5, <2>2 DEF ComputesAWay
<1>6. CASE ~(start = goal \/ goal \notin Reachable(ok, start, Cardinality(ok)))
  <2>1. way # <<>> /\ goal \notin Reachable(ok, start, Len(way) - 1)
    <3> HIDE DEF start, goal, ok
    <3>1. QED
      BY <1>2, <1>6, AStarIsShortest
  <2>2. IsWay(way, ok, start, goal)
    <3> HIDE DEF start, goal, ok
    <3>1. QED
      BY <1>2, <2>1, AStarIsAWay
  <2> HIDE DEF way
  <2>3. path'[m].at = 0 /\ path'[m].way = way
    BY <1>4, <2>1
  <2>4. way[Len(way)] = goal /\ way \in Seq(ok) /\ Len(way) \in Nat /\ DOMAIN way = 1..Len(way)
    BY <2>1, <2>2, LenProperties DEF IsWay
  <2>5. ToSet(way) \subseteq ok
    <3> HIDE DEF ok
    <3>1. QED
      BY <2>4, ElementOfSeq DEF ToSet
  <2>6. ASSUME NEW i \in DOMAIN way PROVE Manhattan(way[i], IF i = 1 THEN start ELSE way[i - 1]) = 1
    <3> DEFINE b == IF i = 1 THEN start ELSE way[i - 1]
    <3>1. way[i] \in Neighbours(b)
      BY <2>2, <2>4, <2>6 DEF IsWay
    <3>2. b \in Points
      <4>1. CASE i = 1
        BY <1>2, <4>1
      <4>2. CASE i # 1
        <5>1. i - 1 \in 1..Len(way)
          BY <2>4, <2>6, <4>2
        <5> HIDE DEF ok
        <5>2. way[i - 1] \in ok
          BY <2>4, <5>1, ElementOfSeq
        <5>3. QED
          BY <1>2, <4>2, <5>2
      <4>3. QED
        BY <4>1, <4>2
    <3> HIDE DEF b
    <3>3. Manhattan(way[i], b) = 1
      BY <3>1, <3>2 DEF Neighbours, Directions, Add, Points, Manhattan, Size
    <3>4. QED
      BY <3>3 DEF b
  <2> HIDE DEF start, goal, ok
  <2>7. QED
    BY <1>3, <1>6, <2>1, <2>3, <2>4, <2>5, <2>6 DEF ComputesAWay, start, goal, ok
<1>7. QED
  BY <1>5, <1>6

LEMMA WaysStep ==
  ASSUME IInv, [Next]_vars, NEW m \in Walkers, mode[m] = "wandering", mode'[m] = "idle", pc' = "agents"
  PROVE  ComputesAWay(m)
<1>1. mode = [k \in Walkers |-> mode[k]]
  BY WorldFields DEF IInv, Placed
<1>2. UNCHANGED mode => FALSE
  OBVIOUS
<1>3. CASE UNCHANGED vars \/ NoKey \/ (\E d \in Directions : Press(d)) \/ (\E a \in Agents : Rest(a))
           \/ (\E d \in Doors : Swing(d)) \/ (\E w \in Walkers : StepAlongPath(w))
           \/ \E c \in Chasers : SetPursueTarget(c) \/ MoveTowardTarget(c)
  BY <1>2, <1>3 DEF vars, NoKey, Press, AfterInput, Rest, Swing, StepAlongPath, SetPursueTarget, MoveTowardTarget
<1>4. CASE Commit \/ Fail \/ Restart
  BY <1>4 DEF Commit, Fail, Restart
<1>5. ASSUME NEW w \in Walkers, Wake(w) PROVE FALSE
  <2>1. mode' = [mode EXCEPT ![w] = "wandering"]
    BY <1>5 DEF Wake
  <2>2. mode'[m] = "wandering"
    BY <1>1, <2>1
  <2>3. QED
    BY <2>2
<1>6. ASSUME NEW w \in Walkers, NEW t \in Targets, Arrive(w, t) PROVE ComputesAWay(m)
  <2>1. mode' = [mode EXCEPT ![w] = "idle"]
    BY <1>6 DEF Arrive
  <2>2. w = m
    BY <1>1, <2>1
  <2>3. QED
    BY <1>6, <2>2, ArrivalsCompute
<1>7. QED
  BY <1>3, <1>4, <1>5, <1>6 DEF Next

\* Whoever looks for a way finds a shortest one if there is one, and keeps the
\* old path otherwise; however fast a chaser is and wherever it looks, a chain of
\* cells it may enter, or see through, leads there (astarWithAllowed, ReachableFor,
\* moveTowardTarget, CanSee).
THEOREM WaysClear == Spec => WaysAreClear
<1>1. IInv /\ [Next]_vars
        => [\A m \in Walkers : (mode[m] = "wandering" /\ mode'[m] = "idle" /\ pc' = "agents") => ComputesAWay(m)]_vars
  BY WaysStep
<1>2. IInv /\ [Next]_vars
        => [\A m \in Chasers : (pc = "agents" /\ pc' = "agents") =>
              /\ pos'[m] # pos[m] => Joined(CellOf(pos[m]), CellOf(pos'[m]), Open(m))
              /\ target'[m] # target[m] =>
                   Joined(Int2(pos[m]), Int2(pos[Player]),
                          {c \in Cells : Clear(m, Player, c, Int2(pos[Player]))})]_vars
  BY WallsStep DEF HeldUp
<1>3. Spec => Safety
  BY DEF Spec
<1>4. QED
  BY <1>1, <1>2, <1>3, InvariantHolds, PTL DEF Safety, WaysAreClear, ShortestWays, WallsHold
==============================================================================
