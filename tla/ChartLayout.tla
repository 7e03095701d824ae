----------------------------- MODULE ChartLayout ------------------------------
(***************************************************************************)
(* Where the AGENTS canvas draws a machine, and what dragging, adding and  *)
(* connecting there records.  A state's place is kept in its own meta, in  *)
(* the coordinates of the level it is on; what has none gets a slot of a   *)
(* grid.  The canvas shifts everything that would be off it, so the file's *)
(* coordinates are never those of the pointer.                             *)
(*                                                                         *)
(* doc is the working value: the states of each level in order, the place  *)
(* of each (or NoPlace), how many entry actions it shows, and its          *)
(* transitions.  Coordinates are whole pixels, <<across, down>>.  A page   *)
(* holds a drag while others edit; it says how far it dragged, not where.  *)
(***************************************************************************)
EXTENDS Integers, FiniteSets, FiniteSetsExt, Functions, SequencesExt

CONSTANTS Boxes,         \* numbers for the states
          Shorthand,     \* those drawn as a history mark
          FirstCharts,   \* machines as they are opened
          Distances,     \* how far a page drags
          Pointers,      \* where it adds a state
          Depth,         \* bound: entry actions of a state
          MaxGestures    \* bound: requests of a behavior

Ground == 0              \* the level of the root
NoPlace == <<>>
Inner == -1              \* a transition without a target
Nowhere == -2            \* one whose target no state answers to

VARIABLES doc,      \* order, place, lines, out
          canvas,   \* Build(doc), which every request draws anew
          drag,     \* the state a page drags, or Ground
          asked,    \* the last request: what, of which state, by how much or where
          gestures

canvasVars == <<doc, canvas, drag, asked, gestures>>

-----------------------------------------------------------------------------
(* Geometry *)

NodeW == 184      TitleH == 26    LineH == 14    BodyPad == 10   HistoryMark == 34
CellW == 300      CellH == 170    Gap == 132     Columns == 3    Inset == 14
PadX == 14        Margin == 28    LoopArc == 34  HalfFan == 13
ClearX == 74      ClearY == 15    LabelStep == 16  LabelTries == 8
LabelHalfW == 60  LabelHalfH == 10

Plus(p, q) == <<p[1] + q[1], p[2] + q[2]>>
Minus(p, q) == <<p[1] - q[1], p[2] - q[2]>>
Middle(p, q) == <<(p[1] + q[1]) \div 2, (p[2] + q[2]) \div 2>>
Larger(a, b) == IF a > b THEN a ELSE b
Smaller(a, b) == IF a < b THEN a ELSE b
Distant(a, b) == IF a > b THEN a - b ELSE b - a

-----------------------------------------------------------------------------
(* Boxes *)

Drawn(d) == DOMAIN d.place
Around(d, n) == CHOOSE l \in DOMAIN d.order : n \in ToSet(d.order[l])
Inside(d, n) ==
  LET inside[m \in Drawn(d)] == m = n \/ (Around(d, m) # Ground /\ inside[Around(d, m)])
  IN  {m \in Drawn(d) : inside[m]}

HeadHeight(d, n) == IF n \in Shorthand THEN HistoryMark ELSE TitleH + d.lines[n] * LineH
OwnSize(d, n) ==
  IF n \in Shorthand THEN <<HistoryMark, HistoryMark>> ELSE <<NodeW, HeadHeight(d, n) + BodyPad>>

\* The grid of a level: its step holds the biggest box there.
Cell(size, kids) ==
  FoldLeft(LAMBDA c, n : <<Larger(c[1], size[n][1] + Gap), Larger(c[2], size[n][2] + Gap)>>,
           <<CellW, CellH>>, kids)
Slot(i, cell) == <<Inset + ((i - 1) % Columns) * cell[1], Inset + ((i - 1) \div Columns) * cell[2]>>

\* Where the file has a state, or the grid: the slot is its index in authored
\* order, so that placing one moves no other.
Recorded(d, cell, kids, i) == IF d.place[kids[i]] # NoPlace THEN d.place[kids[i]] ELSE Slot(i, cell)

\* The states, each before those inside it, in authored order.
Walk(d) ==
  LET walk[l \in DOMAIN d.order] ==
        FoldLeft(LAMBDA s, n : s \o walk[n], IF l = Ground THEN <<>> ELSE <<l>>, d.order[l])
  IN  walk[Ground]

\* fit: a box holds its children, which start below its title.
Fitted(d, size, n) ==
  LET kids == d.order[n]
      cell == Cell(size, kids)
  IN  FoldLeft(LAMBDA s, i :
                 LET at == Plus(Recorded(d, cell, kids, i), <<PadX, HeadHeight(d, n)>>)
                 IN  <<Larger(s[1], at[1] + size[kids[i]][1] + PadX),
                       Larger(s[2], at[2] + size[kids[i]][2] + PadX)>>,
               OwnSize(d, n), [i \in DOMAIN kids |-> i])

Sizes(d) ==
  FoldLeft(LAMBDA size, n : [size EXCEPT ![n] = Fitted(d, size, n)],
           [n \in Drawn(d) |-> <<0, 0>>], Reverse(Walk(d)))

RecordedAt(d, size, n) ==
  LET kids == d.order[Around(d, n)]
  IN  Recorded(d, Cell(size, kids), kids, CHOOSE i \in DOMAIN kids : kids[i] = n)

\* place: absolute on the canvas, before it is shifted.
Spots(d, size) ==
  LET Corner(at, l) == IF l = Ground THEN <<0, 0>> ELSE Plus(at[l], <<PadX, HeadHeight(d, l)>>)
  IN  FoldLeft(LAMBDA at, n : [at EXCEPT ![n] = Plus(Corner(at, Around(d, n)), RecordedAt(d, size, n))],
               [n \in Drawn(d) |-> <<0, 0>>], Walk(d))

Layout(d) ==
  LET size == Sizes(d) IN [size |-> size, at |-> Spots(d, size)]

-----------------------------------------------------------------------------
(* Lines *)

Edges(d) ==
  FoldLeft(LAMBDA edges, n : FoldLeft(LAMBDA es, to : Append(es, [from |-> n, to |-> to]), edges, d.out[n]),
           <<>>, Walk(d))

IsLoop(e) == e.to \in {Inner, e.from}

\* groupKey: those that run along the same line, in either direction.
Pair(e) == IF IsLoop(e) THEN {e.from} ELSE {e.from, e.to}
Fellows(edges, i) == {j \in DOMAIN edges : Pair(edges[j]) = Pair(edges[i])}
Rank(edges, i) == Cardinality({j \in Fellows(edges, i) : j < i})
Spread(edges, i) == (2 * Rank(edges, i) - (Cardinality(Fellows(edges, i)) - 1)) * HalfFan

Centre(box) == Plus(box.at, <<box.size[1] \div 2, box.size[2] \div 2>>)

Hypot(v) ==
  LET a == Distant(v[1], 0)  b == Distant(v[2], 0)
  IN  CHOOSE l \in Larger(a, b)..(a + b) : l * l <= a * a + b * b /\ (l + 1) * (l + 1) > a * a + b * b

\* The distance from the line as a vector across it, to the same side whichever
\* way the edge runs.
Fan(src, dst, reversed, by) ==
  LET v == Minus(Centre(dst), Centre(src))
      length == Hypot(v)
      side == IF reversed THEN -by ELSE by
  IN  IF by = 0 THEN <<0, 0>>
      ELSE IF length = 0 THEN <<0, by>>
      ELSE <<(-v[2] * side) \div length, (v[1] * side) \div length>>

\* From a point in a box towards another: where the box ends.
ClipFrom(box, point, toward) ==
  LET right == Plus(box.at, box.size)
      outside == \E k \in {1, 2} : point[k] < box.at[k] \/ point[k] > right[k]
      from == IF outside THEN Centre(box) ELSE point
      d == Minus(toward, from)
      Reach(k) == [num |-> IF d[k] > 0 THEN right[k] - from[k] ELSE from[k] - box.at[k], den |-> Distant(d[k], 0)]
      t == IF d[1] = 0 THEN Reach(2) ELSE IF d[2] = 0 THEN Reach(1)
           ELSE IF Reach(1).num * Reach(2).den <= Reach(2).num * Reach(1).den THEN Reach(1) ELSE Reach(2)
  IN  IF d = <<0, 0>> THEN from
      ELSE <<from[1] + (d[1] * t.num) \div t.den, from[2] + (d[2] * t.num) \div t.den>>

\* route: the ends of a line and where its label goes.
Route(layout, edges, i) ==
  LET e == edges[i]
      Box(n) == [at |-> layout.at[n], size |-> layout.size[n]]
      src == Box(e.from)
      arc == LoopArc * (Rank(edges, i) + 1)
      off == <<src.at[1] + src.size[1] + CellW \div 2, Centre(src)[2] + Spread(edges, i)>>
      Line(p, q) == [ends |-> <<p, q>>, label |-> Middle(p, q)]
  IN  IF IsLoop(e)
      THEN [ends |-> <<Plus(src.at, <<(3 * src.size[1]) \div 10, 0>>), Plus(src.at, <<(7 * src.size[1]) \div 10, 0>>)>>,
            label |-> <<Centre(src)[1], src.at[2] - arc>>]
      ELSE IF e.to = Nowhere THEN Line(ClipFrom(src, Centre(src), off), off)
      ELSE LET dst == Box(e.to)
               by == Fan(src, dst, e.from > e.to, Spread(edges, i))
               s == Plus(Centre(src), by)
               t == Plus(Centre(dst), by)
           IN  Line(ClipFrom(src, s, t), ClipFrom(dst, t, s))

Collides(placed, p) ==
  \E k \in DOMAIN placed : Distant(placed[k][1], p[1]) < ClearX /\ Distant(placed[k][2], p[2]) < ClearY

\* separateLabels: each moves down until it is clear of those before it, or has
\* tried often enough.
Labels(lines) ==
  LET Down(p, t) == Plus(p, <<0, t * LabelStep>>)
      Clear(placed, p) ==
        Down(p, CHOOSE t \in 0..LabelTries :
                  /\ t = LabelTries \/ ~Collides(placed, Down(p, t))
                  /\ \A u \in 0..t - 1 : Collides(placed, Down(p, u)))
  IN  FoldLeft(LAMBDA placed, l : Append(placed, Clear(placed, l.label)), <<>>, lines)

-----------------------------------------------------------------------------
(* The canvas *)

\* Faulty variant: labels are not looked at.
ShiftForBoxes(d, layout, lines, labels) ==
  LET corners == {layout.at[d.order[Ground][i]] : i \in DOMAIN d.order[Ground]}
      tops == (UNION {{lines[i].ends[1], lines[i].ends[2]} : i \in DOMAIN lines}) \cup corners
      Off(k) == Larger(0, -Min({p[k] : p \in tops}))
  IN  IF tops = {} THEN <<0, 0>> ELSE <<Off(1), Off(2)>>

\* normalise: by how much everything moves so that no box of the top level, no
\* line and no label is off the canvas; to its edge and no further.
Shift(d, layout, lines, labels) ==
  LET corners == {layout.at[d.order[Ground][i]] : i \in DOMAIN d.order[Ground]}
      ends == UNION {{lines[i].ends[1], lines[i].ends[2]} : i \in DOMAIN lines}
      tops == {Minus(labels[i], <<LabelHalfW, LabelHalfH>>) : i \in DOMAIN labels} \cup ends \cup corners
      Off(k) == Larger(0, -Min({p[k] : p \in tops}))
  IN  IF tops = {} THEN <<0, 0>> ELSE <<Off(1), Off(2)>>

Build(d) ==
  LET layout == Layout(d)
      edges == Edges(d)
      lines == FoldLeft(LAMBDA s, e : Append(s, Route(layout, edges, Len(s) + 1)), <<>>, edges)
      labels == Labels(lines)
      shift == Shift(d, layout, lines, labels)
  IN  [at |-> [n \in Drawn(d) |-> Plus(layout.at[n], shift)], size |-> layout.size, shift |-> shift,
       ends |-> [i \in DOMAIN lines |-> <<Plus(lines[i].ends[1], shift), Plus(lines[i].ends[2], shift)>>],
       labels |-> [i \in DOMAIN labels |-> Plus(labels[i], shift)]]

\* extent: what the canvas has to scroll to.
Extent(d, chart, k) ==
  LET far == {chart.at[n][k] + chart.size[n][k] : n \in ToSet(d.order[Ground])}
             \cup UNION {{chart.ends[i][1][k], chart.ends[i][2][k]} : i \in DOMAIN chart.ends}
  IN  Max({p + Margin : p \in far} \cup {0})

-----------------------------------------------------------------------------
(* Gestures *)

CanvasInit ==
  /\ doc \in FirstCharts /\ canvas = Build(doc) /\ drag = Ground
  /\ asked = [what |-> "nothing", node |-> Ground, by |-> <<0, 0>>] /\ gestures = 0

Request(what, n, by, d) ==
  /\ gestures < MaxGestures /\ gestures' = gestures + 1
  /\ doc' = d /\ asked' = [what |-> what, node |-> n, by |-> by]

\* A pointer goes down on a title; the page follows it alone.
BeginDrag(n) == drag = Ground /\ drag' = n /\ UNCHANGED <<doc, asked, gestures>>

\* Escape, a drop beside the canvas or where it began: nothing is posted.
CancelDrag == drag # Ground /\ drag' = Ground /\ UNCHANGED <<doc, asked, gestures>>

\* Faulty variant: a state without a place is moved from the corner.
MovedFromMeta(d, n, by) ==
  [d EXCEPT !.place[n] = Plus(IF d.place[n] = NoPlace THEN <<0, 0>> ELSE d.place[n], by)]

\* MoveBy: from where the state is drawn, in the file's coordinates, whatever else
\* was edited since the drag began.
MovedBy(d, n, by) == [d EXCEPT !.place[n] = Plus(RecordedAt(d, canvas.size, n), by)]

Drop(by) ==
  /\ drag \in Drawn(doc) /\ by # <<0, 0>>
  /\ drag' = Ground
  /\ Request("move", drag, by, MovedBy(doc, drag, by))

\* A drop of a state that is gone is refused.
DropOfNothing == drag # Ground /\ drag \notin Drawn(doc) /\ drag' = Ground /\ UNCHANGED <<doc, asked, gestures>>

\* AddState: under the pointer, so the shift comes off.
AddBox(n, pointer) ==
  LET With(f, v) == [m \in DOMAIN f \cup {n} |-> IF m = n THEN v ELSE f[m]]
      order == With(doc.order, <<>>)
  IN  /\ n \notin Drawn(doc) /\ \A m \in Boxes \ Drawn(doc) : n <= m
      /\ Request("add", n, pointer,
           [order |-> [order EXCEPT ![Ground] = Append(@, n)],
            place |-> With(doc.place, Minus(pointer, canvas.shift)),
            lines |-> With(doc.lines, 0), out |-> With(doc.out, <<>>)])
      /\ UNCHANGED drag

\* Not the last state of its machine; what aimed at it dangles.
DeleteBox(n) ==
  LET gone == Inside(doc, n)
      left == Drawn(doc) \ gone
      Dangle(to) == IF to \in gone THEN Nowhere ELSE to
  IN  /\ doc.order[Ground] # <<n>>
      /\ Request("delete", n, <<0, 0>>,
           [order |-> [l \in left \cup {Ground} |-> SelectSeq(doc.order[l], LAMBDA m : m \notin gone)],
            place |-> Restrict(doc.place, left), lines |-> Restrict(doc.lines, left),
            out |-> [l \in left |-> [i \in DOMAIN doc.out[l] |-> Dangle(doc.out[l][i])]]])
      /\ UNCHANGED drag

\* A drop of one state's port on another.
Connect(n, m) ==
  /\ n # m /\ Request("connect", n, <<0, 0>>, [doc EXCEPT !.out[n] = Append(@, m)])
  /\ UNCHANGED drag

\* The panel gives the transition another target: its own state, or none.
Retarget(n, i, m) ==
  /\ m \in {n, Inner} /\ doc.out[n][i] # m
  /\ Request("target", n, <<0, 0>>, [doc EXCEPT !.out[n][i] = m])
  /\ UNCHANGED drag

AddEntryLine(n) ==
  /\ doc.lines[n] < Depth /\ n \notin Shorthand
  /\ Request("entry", n, <<0, 0>>, [doc EXCEPT !.lines[n] = @ + 1])
  /\ UNCHANGED drag

Gesture ==
  \/ CancelDrag
  \/ DropOfNothing
  \/ \E by \in Distances : Drop(by)
  \/ \E n \in Boxes, pointer \in Pointers : AddBox(n, pointer)
  \/ \E n \in Drawn(doc) :
       \/ BeginDrag(n)
       \/ DeleteBox(n)
       \/ AddEntryLine(n)
       \/ \E m \in Drawn(doc) : Connect(n, m)
       \/ \E i \in DOMAIN doc.out[n], m \in {n, Inner} : Retarget(n, i, m)

CanvasNext == Gesture /\ canvas' = IF doc' = doc THEN canvas ELSE Build(doc')

CanvasSpec == CanvasInit /\ [][CanvasNext]_canvasVars

-----------------------------------------------------------------------------
\* The states that draw n where it is: it and those around it.
Holders(d, n) == {m \in Drawn(d) : n \in Inside(d, m)}

LevelCell(d, chart, n) == Cell(chart.size, d.order[Around(d, n)])

\* A drag moves the box by as much as the pointer moved, also when the machine was
\* edited meanwhile, and takes what is inside along; a state that is added is
\* under the pointer.  Nothing else moves but boxes on a grid whose step has
\* grown.
GesturesLand ==
  [][gestures' # gestures =>
      LET old == canvas
          new == canvas'
          n == asked'.node
          steady == {m \in Drawn(doc) \cap Drawn(doc') :
                       \/ m = n \/ doc.place[m] # NoPlace
                       \/ LevelCell(doc, old, m) = LevelCell(doc', new, m)}
      IN  /\ asked'.what = "move" => \A m \in Drawn(doc) :
               Holders(doc, m) \subseteq steady
                 => Minus(new.at[m], new.shift)
                      = Plus(Minus(old.at[m], old.shift), IF m \in Inside(doc, n) THEN asked'.by ELSE <<0, 0>>)
          /\ asked'.what = "add" =>
               /\ new.at[n] = asked'.by
               /\ \A m \in Drawn(doc) : Holders(doc, m) \subseteq steady => new.at[m] = old.at[m]]_canvasVars

Overlapping(chart, m, n) ==
  \A k \in {1, 2} : chart.at[m][k] < chart.at[n][k] + chart.size[n][k] /\ chart.at[n][k] < chart.at[m][k] + chart.size[m][k]

\* Whatever is drawn can be clicked.  Boxes of the top level, lines and labels are on the
\* canvas; two labels are apart, as long as five transitions are all there is; boxes
\* on the grid do not cover each other.  A state inside another may be dragged out of it,
\* and then off the canvas.
EverythingCanBeClicked ==
  LET chart == canvas
      top == ToSet(doc.order[Ground])
      free == {n \in Drawn(doc) : doc.place[n] = NoPlace}
  IN  /\ \A k \in {1, 2} :
           /\ \A n \in top : chart.at[n][k] >= 0 /\ chart.at[n][k] + chart.size[n][k] <= Extent(doc, chart, k)
           /\ \A i \in DOMAIN chart.labels :
                /\ chart.labels[i][k] >= <<LabelHalfW, LabelHalfH>>[k]
                /\ \A end \in 1..2 : chart.ends[i][end][k] \in 0..Extent(doc, chart, k)
      /\ Len(chart.labels) <= 5 =>
           \A i \in DOMAIN chart.labels : ~Collides(SubSeq(chart.labels, 1, i - 1), chart.labels[i])
      /\ \A m \in free, n \in free :
           m # n /\ Around(doc, m) = Around(doc, n) => ~Overlapping(chart, m, n)
==============================================================================
