----------------------------- MODULE MapDocument ------------------------------
(***************************************************************************)
(* The edits Forge makes to a Tiled map: tiled.Document with the rules of  *)
(* paint, tilelinks and spawn on top of it.  Everything here is a function *)
(* from one document to the next; who asks for an edit is in MapEdits.     *)
(*                                                                         *)
(* A document has its tile layers in drawing order, its objects by id and  *)
(* the counter nextobjectid.  A layer is [key, id, name, cells]: key is    *)
(* which layer it is, whatever its id says.  An object is                  *)
(* [type, at, visual, link, offsets]: link is the id of the tile layer its *)
(* TileLink names, or NoLink, offsets are the linked cells relative to the *)
(* object, or Implicit for the cell it stands on, and visual is whether it *)
(* has a TileVisual.                                                       *)
(***************************************************************************)
EXTENDS Integers, Sequences, FiniteSets, FiniteSetsExt, SequencesExt

CONSTANTS Width, Height,
          Tiles, Empty,     \* what a cell may hold, flips and all
          TypeOf(_)         \* the entity type a tile stands for

ASSUME SizeAssumption == Width \in Nat \ {0} /\ Height \in Nat \ {0}

NoLink == 0
Implicit == {}

Cells == (0 .. Width - 1) \X (0 .. Height - 1)
Plus(a, b) == <<a[1] + b[1], a[2] + b[2]>>
Minus(a, b) == <<a[1] - b[1], a[2] - b[2]>>

Replaced(d, id, o) == [d EXCEPT !.objects[id] = o]

-----------------------------------------------------------------------------
(* Layers *)

Layers(d) == DOMAIN d.layers
WithId(d, id) == {i \in Layers(d) : d.layers[i].id = id}

\* mapcanvas.UniqueLayerID: the id by which a page may name a layer, or 0.
UniqueLayerID(d, i) ==
  IF d.layers[i].id > 0 /\ WithId(d, d.layers[i].id) = {i} THEN d.layers[i].id ELSE 0

UniqueLayerIDs(d) == \A i \in Layers(d) : UniqueLayerID(d, i) # 0

CanMove(d, i, step) == i \in Layers(d) /\ i + step \in Layers(d) /\ UniqueLayerIDs(d)
CanDelete(d, i) == i \in Layers(d) /\ UniqueLayerIDs(d)

RenameLayer(d, i, name) == [d EXCEPT !.layers[i].name = name]

MoveLayer(d, i, step) ==
  [d EXCEPT !.layers[i] = d.layers[i + step], !.layers[i + step] = d.layers[i]]

-----------------------------------------------------------------------------
(* What objects link to *)

\* footprint: the cells of its layer an object links to.
Footprint(o) ==
  IF o.link = NoLink THEN {}
  ELSE IF o.offsets = Implicit THEN {o.at}
  ELSE {Plus(o.at, v) : v \in o.offsets}

Unlinked(o) == [o EXCEPT !.link = NoLink, !.offsets = Implicit]

\* setFootprint: a single link to the object's own cell stays unwritten when it
\* was, and an object without any link left has no TileLink.
SetFootprint(o, layer, cells) ==
  IF cells = {} THEN Unlinked(o)
  ELSE [o EXCEPT !.link = layer,
         !.offsets = IF cells = {o.at} /\ @ = Implicit THEN Implicit
                     ELSE {Minus(c, o.at) : c \in cells}]

\* Faulty variant: an object of the type that shows it anywhere on the layer.
HasVisualOnLayer(d, layer, c, type) ==
  \E id \in DOMAIN d.objects :
    LET o == d.objects[id] IN o.visual /\ o.type = type /\ o.link = layer

\* hasVisualProvider: an object of the type that shows it in this cell.
HasVisualProvider(d, layer, c, type) ==
  \E id \in DOMAIN d.objects :
    LET o == d.objects[id] IN o.visual /\ o.type = type /\ o.link = layer /\ c \in Footprint(o)

\* ArtValidator: the object may stand for the cells it links.  What it replaces
\* must be shown by somebody, and by this object only if it all looks alike.
ArtFits(d, o, i) ==
  LET own == {c \in Footprint(o) : TypeOf(d.layers[i].cells[c]) = o.type}
  IN  /\ \A c \in own : o.visual \/ HasVisualProvider(d, o.link, c, o.type)
      /\ o.visual => \A a, b \in own : d.layers[i].cells[a] = d.layers[i].cells[b]

\* The link can be imported: one layer has that id and all linked cells are painted.
LinkFits(d, o) ==
  /\ Footprint(o) \subseteq Cells
  /\ \E i \in Layers(d) :
       /\ UniqueLayerID(d, i) = o.link
       /\ \A c \in Footprint(o) : d.layers[i].cells[c] # Empty
       /\ ArtFits(d, o, i)

\* validateMapTileLinks
LinksFit(d) ==
  \A id \in DOMAIN d.objects : d.objects[id].link # NoLink => LinkFits(d, d.objects[id])

-----------------------------------------------------------------------------
(* What the engine makes of the file, which is no code of Forge *)

\* loadMap: the objects of a painted cell's type that link it.  If there are any
\* the cell gets no art of its own.
Sharing(d, i, c) ==
  {id \in DOMAIN d.objects :
     LET o == d.objects[id]
     IN  o.link = d.layers[i].id /\ c \in Footprint(o) /\ o.type = TypeOf(d.layers[i].cells[c])}

\* tileLinksOfMap: every link leads to painted cells of a layer.
LinksLead(d) ==
  \A id \in DOMAIN d.objects :
    LET o == d.objects[id]
    IN  o.link # NoLink =>
          \E i \in WithId(d, o.link) : \A c \in Footprint(o) : c \in Cells /\ d.layers[i].cells[c] # Empty

\* loadMap: every cell has its art, and an object shows cells of one look only.
ArtIsGiven(d) ==
  \A i \in Layers(d), c \in Cells :
    /\ Sharing(d, i, c) # {} => \E id \in Sharing(d, i, c) : d.objects[id].visual
    /\ \A b \in Cells : \A id \in Sharing(d, i, b) \cap Sharing(d, i, c) :
         d.objects[id].visual => d.layers[i].cells[b] = d.layers[i].cells[c]

Imports(d) == UniqueLayerIDs(d) /\ LinksLead(d) /\ ArtIsGiven(d)

-----------------------------------------------------------------------------
(* Linking *)

\* target and validTargetCell: an object and a painted cell of the one layer
\* with that id.
IsTarget(d, id, layer, c) ==
  /\ id \in DOMAIN d.objects /\ c \in Cells
  /\ \E i \in Layers(d) : UniqueLayerID(d, i) = layer /\ d.layers[i].cells[c] # Empty

CanLink(d, id, layer, c) ==
  /\ IsTarget(d, id, layer, c)
  /\ d.objects[id].link \in {NoLink, layer}
  /\ c \notin Footprint(d.objects[id])

CanUnlink(d, id, layer, c) ==
  /\ IsTarget(d, id, layer, c)
  /\ d.objects[id].link = layer
  /\ c \in Footprint(d.objects[id])

Link(d, id, layer, c) ==
  Replaced(d, id, SetFootprint(d.objects[id], layer, Footprint(d.objects[id]) \cup {c}))

Unlink(d, id, layer, c) ==
  Replaced(d, id, SetFootprint(d.objects[id], layer, Footprint(d.objects[id]) \ {c}))

\* tilelinks.DeleteLayer: the objects stay, without their links to it.
DeleteLayer(d, i) ==
  [d EXCEPT
     !.layers = RemoveAt(@, i),
     !.objects = [id \in DOMAIN @ |-> IF @[id].link = d.layers[i].id THEN Unlinked(@[id]) ELSE @[id]]]

-----------------------------------------------------------------------------
(* Painting *)

Between(a, b, n) == (a <= n /\ n <= b) \/ (b <= n /\ n <= a)

\* rect: every cell between two corners, whichever way round.
Rect(from, to) ==
  {c \in Cells : Between(from[1], to[1], c[1]) /\ Between(from[2], to[2], c[2])}

\* cells: a fill is a rectangle; the other tools follow the pointer, when the
\* page says where it went.
Touched(kind, from, to, trail) ==
  IF kind # "fill" /\ trail # <<>> THEN Range(trail) ELSE Rect(from, to)

\* paint.Apply and tilelinks.SetLayerData: links to cells that become empty go.
Paint(d, i, cells, tile) ==
  LET erased == {c \in cells : tile = Empty /\ d.layers[i].cells[c] # Empty}
      painted == [c \in Cells |-> IF c \in cells THEN tile ELSE d.layers[i].cells[c]]
      kept(o) == IF o.link = d.layers[i].id /\ Footprint(o) \cap erased # {}
                 THEN SetFootprint(o, o.link, Footprint(o) \ erased) ELSE o
  IN  [d EXCEPT !.layers[i].cells = painted,
                !.objects = [id \in DOMAIN @ |-> kept(@[id])]]

-----------------------------------------------------------------------------
(* Objects *)

\* Faulty variant: past every object the map has.
PastTheHighest(d) == Max({1} \cup {id + 1 : id \in DOMAIN d.objects})

\* NextObjectID: past the counter, and past every object the map has.
NextObjectID(d) == Max({d.next} \cup {id + 1 : id \in DOMAIN d.objects})

\* AddObject: the id is allocated here and the counter moves past it.
AddObject(d, o) ==
  LET new == NextObjectID(d)
  IN  [d EXCEPT !.next = new + 1,
         !.objects = [id \in DOMAIN @ \cup {new} |-> IF id = new THEN o ELSE @[id]]]

\* Place: a point object with what its type requires.
Place(d, type, c) ==
  AddObject(d, [type |-> type, at |-> c, visual |-> FALSE, link |-> NoLink, offsets |-> Implicit])

\* The cell a duplicate goes to, if the map has another cell.
Beside(c) ==
  CASE c[1] + 1 < Width -> <<c[1] + 1, c[2]>>
    [] c[1] + 1 >= Width /\ c[1] > 0 -> <<c[1] - 1, c[2]>>
    [] Width = 1 /\ c[2] + 1 < Height -> <<c[1], c[2] + 1>>
    [] OTHER -> <<c[1], c[2] - 1>>

\* DuplicateObject: the whole element, links relative to the new place included.
Duplicate(d, id) == AddObject(d, [d.objects[id] EXCEPT !.at = Beside(@)])

\* RemoveObject: the counter stays.
Delete(d, id) == [d EXCEPT !.objects = [k \in DOMAIN @ \ {id} |-> @[k]]]

\* Faulty variant: the offsets of a linked object are left as they are.
MoveAnchor(d, id, c) == [d EXCEPT !.objects[id].at = c]

\* tilelinks.Move: a linked object leaves its tiles where they are.
Move(d, id, c) ==
  LET o == d.objects[id]
  IN  Replaced(d, id, [o EXCEPT !.at = c,
        !.offsets = IF o.link = NoLink \/ o.at = c THEN @ ELSE {Minus(f, c) : f \in Footprint(o)}])

\* AddComponent, DetachComponent and RepairRequired, of the two components links
\* depend on; TileLink is no component of the schema and cannot be added.
SetVisual(d, id, has) == [d EXCEPT !.objects[id].visual = has]
DetachLink(d, id) == Replaced(d, id, Unlinked(d.objects[id]))
=============================================================================
