------------------------------ MODULE MapEdits --------------------------------
(***************************************************************************)
(* MAP mode of Forge on one map: strokes, links, spawns and layers, from   *)
(* pages that see an older state of the map than the one they change.      *)
(*                                                                         *)
(* maps.Session applies an edit under its mutex, checked on a copy first,  *)
(* so an edit is one step.  What a request was composed from is older: a   *)
(* page chooses the layer to paint on once and paints long after, and a    *)
(* context menu is opened by one request, drawn by a page, and acted on by *)
(* another, which first takes the menu from the server and then edits.     *)
(* Requests are served by goroutines of their own: opening a menu and      *)
(* acting on one are taken apart, and any number may be under way.         *)
(***************************************************************************)
EXTENDS MapDocument

CONSTANTS Docs,          \* the maps Forge may be started on
          Types,         \* entity types that can be placed
          Names,         \* layer names
          MaxRequests    \* bound: edits, and menus opened or closed

IsLayer(l) == {"key", "id", "cells"} \subseteq DOMAIN l
IsDoc(d) ==
  /\ {"layers", "objects", "next"} \subseteq DOMAIN d
  /\ d.layers \in Seq(ToSet(d.layers)) /\ \A i \in DOMAIN d.layers : IsLayer(d.layers[i])
  /\ IsFiniteSet(DOMAIN d.objects) /\ DOMAIN d.objects \subseteq Int /\ d.next \in Int

\* Forge does not mend a map: one whose layers can be told apart is one the
\* engine can import when Forge is started on it.
ASSUME DocsAssumption == \A d \in Docs : IsDoc(d) /\ (UniqueLayerIDs(d) => Imports(d))

VARIABLES doc,        \* the working document
          saved,      \* the file
          aim,        \* what the page paints on: key, id and index of a layer
          seq, menu,  \* Server.mapMenuSeq and Server.mapMenu
          opening,    \* requests that open a menu: attempt, target, answer
          drawn,      \* the menu as the page drew it last
          acting,     \* requests that have taken their menu
          asked,      \* what the last edit was asked for: [what, key]
          gone,       \* ids of objects the file has had, see Retired
          requests    \* requests so far

vars == <<doc, saved, aim, seq, menu, opening, drawn, acting, asked, gone, requests>>
menuVars == <<seq, menu, opening, drawn, acting>>

NoMenu == [kind |-> "none", token |-> 0]
Open(m) == m.kind # "none"
Pending == [kind |-> "pending", token |-> 0]
Nothing == [what |-> "nothing", key |-> 0]

\* What the page remembers of the layer it paints on.
AimedAt(d, i) == [key |-> d.layers[i].key, id |-> UniqueLayerID(d, i), index |-> i]

Init ==
  /\ doc \in Docs /\ saved = doc
  /\ aim = AimedAt(doc, 1)
  /\ seq = 0 /\ menu = NoMenu /\ opening = {} /\ drawn = NoMenu /\ acting = {}
  /\ asked = Nothing /\ gone = {} /\ requests = 0

\* Session.Edit of something that changes the map.
Edit(d, what, key) ==
  /\ d # doc /\ doc' = d
  /\ asked' = [what |-> what, key |-> key]

\* Another request of a page; an action of a menu goes with its opening.
Request == requests < MaxRequests /\ requests' = requests + 1

\* editSpawn, handleTileLink and handlePaint: nothing that cannot be imported.
CheckedEdit(d, what, key) == LinksFit(d) /\ Edit(d, what, key)

-----------------------------------------------------------------------------
(* Painting *)

\* The page draws the map and chooses a layer.
ChooseLayer(i) ==
  /\ i \in Layers(doc)
  /\ aim' = AimedAt(doc, i) /\ aim' # aim
  /\ UNCHANGED <<doc, saved, asked, gone, requests>> /\ UNCHANGED menuVars

\* Faulty variant: the place the layer had when it was chosen.
ByIndex(d, a) == {a.index} \cap Layers(d)

\* The layer a stroke is for: by its id where it has one, else by its index.
Aimed(d, a) == IF a.id > 0 THEN {i \in Layers(d) : UniqueLayerID(d, i) = a.id}
               ELSE {a.index} \cap Layers(d)

\* handlePaint
Stroke(kind, from, to, trail, tile) ==
  /\ Request
  /\ trail # <<>> => trail[1] = from
  /\ kind = "erase" <=> tile = Empty
  /\ \E i \in Aimed(doc, aim) :
       CheckedEdit(Paint(doc, i, Touched(kind, from, to, trail), tile),
                   "layer", aim.key)
  /\ UNCHANGED <<saved, aim, gone>> /\ UNCHANGED menuVars

-----------------------------------------------------------------------------
(* The inspectors *)

LinkTile(id, layer, c) ==
  /\ Request
  /\ CanLink(doc, id, layer, c)
  /\ CheckedEdit(Link(doc, id, layer, c), "link", id)
  /\ UNCHANGED <<saved, aim, gone>> /\ UNCHANGED menuVars

UnlinkTile(id, layer, c) ==
  /\ Request
  /\ CanUnlink(doc, id, layer, c)
  /\ CheckedEdit(Unlink(doc, id, layer, c), "link", id)
  /\ UNCHANGED <<saved, aim, gone>> /\ UNCHANGED menuVars

PlaceSpawn(type, c) ==
  /\ Request
  /\ CheckedEdit(Place(doc, type, c), "spawn", 0)
  /\ UNCHANGED <<saved, aim, gone>> /\ UNCHANGED menuVars

MoveSpawn(id, c) ==
  /\ Request
  /\ id \in DOMAIN doc.objects
  /\ CheckedEdit(Move(doc, id, c), "spawn", id)
  /\ UNCHANGED <<saved, aim, gone>> /\ UNCHANGED menuVars

\* What the schema does not allow is refused, which is a matter of the schema.
EditComponents(id) ==
  /\ Request
  /\ id \in DOMAIN doc.objects
  /\ \/ CheckedEdit(SetVisual(doc, id, ~doc.objects[id].visual), "spawn", id)
     \/ CheckedEdit(DetachLink(doc, id), "link", id)
  /\ UNCHANGED <<saved, aim, gone>> /\ UNCHANGED menuVars

\* closeMapMenuIf: the menu on screen goes; an opening under way does not.
Closed(token) ==
  IF token # 0 /\ menu.token # token THEN menu' = menu /\ seq' = seq
  ELSE /\ menu' = NoMenu
       /\ seq' = IF token \in {0, seq} THEN seq + 1 ELSE seq

\* The inspector's delete: the menu about the same spawn closes first.
DeleteSpawn(id) ==
  /\ Request
  /\ id \in DOMAIN doc.objects
  /\ CheckedEdit(Delete(doc, id), "spawn", id)
  /\ IF menu.kind = "spawn" /\ menu.target = id THEN Closed(menu.token) ELSE UNCHANGED <<menu, seq>>
  /\ UNCHANGED <<saved, aim, gone, opening, drawn, acting>>

-----------------------------------------------------------------------------
(* Context menus *)

\* What a right click is about, as the page shows the map.
Targets ==
  [kind : {"layer"}, at : Layers(doc)] \cup [kind : {"spawn"}, at : DOMAIN doc.objects]
    \cup [kind : {"canvas"}, cell : Cells]

\* beginMapMenuOpen: attempts are numbered as they come in.
BeginOpen(t) ==
  /\ Request
  /\ seq' = seq + 1
  /\ opening' = opening \cup {[attempt |-> seq + 1, target |-> t, answer |-> Pending]}
  /\ UNCHANGED <<doc, saved, aim, menu, drawn, acting, asked, gone>>

\* What the map has there: a layer as it stands, a spawn, a tile, or nothing.
MenuFor(d, t) ==
  CASE t.kind = "layer" /\ t.at \in Layers(d) ->
         [kind |-> "layer", token |-> 0, target |-> t.at, key |-> d.layers[t.at].key,
          id |-> d.layers[t.at].id, name |-> d.layers[t.at].name]
    [] t.kind = "spawn" /\ t.at \in DOMAIN d.objects -> [kind |-> "spawn", token |-> 0, target |-> t.at]
    [] t.kind = "canvas" /\ \E i \in Layers(d) : d.layers[i].cells[t.cell] # Empty ->
         [kind |-> "canvas", token |-> 0, cell |-> t.cell]
    [] OTHER -> NoMenu

\* handleMapMenu reads the map ...
ReadMenu(o) ==
  /\ o.answer = Pending
  /\ opening' = (opening \ {o}) \cup {[o EXCEPT !.answer = MenuFor(doc, o.target)]}
  /\ UNCHANGED <<doc, saved, aim, seq, menu, drawn, acting, asked, gone, requests>>

\* ... and finishMapMenuOpen stores the answer of the latest attempt only.
FinishOpen(o) ==
  /\ o.answer # Pending
  /\ opening' = opening \ {o}
  /\ menu' = IF o.attempt # seq THEN menu
             ELSE IF Open(o.answer) THEN [o.answer EXCEPT !.token = o.attempt] ELSE NoMenu
  /\ UNCHANGED <<doc, saved, aim, seq, drawn, acting, asked, gone, requests>>

\* A page draws what the server has.
Draw ==
  /\ drawn # menu
  /\ drawn' = menu
  /\ UNCHANGED <<doc, saved, aim, seq, menu, opening, acting, asked, gone, requests>>

\* The page closes what it shows, or is loaded again.
Close(token) ==
  /\ Request /\ Closed(token)
  /\ UNCHANGED <<doc, saved, aim, opening, drawn, acting, asked, gone>>

Offered(kind) == CASE kind = "layer" -> {"rename", "up", "down", "delete"}
                   [] kind = "spawn" -> {"duplicate", "delete"}
                   [] OTHER -> {}

\* takeMapMenu: an action consumes the opening it was offered by, if that is
\* still the latest.
TakeMenu(op) ==
  /\ op \in Offered(drawn.kind)
  /\ drawn.token = menu.token /\ drawn.token = seq
  /\ acting' = acting \cup {[menu |-> menu, op |-> op]}
  /\ menu' = NoMenu /\ seq' = seq + 1
  /\ UNCHANGED <<doc, saved, aim, opening, drawn, asked, gone, requests>>

\* handleMapLayer: the layer is still the one the menu named.
StillNamed(d, m) ==
  /\ m.target \in Layers(d)
  /\ d.layers[m.target].id = m.id /\ d.layers[m.target].name = m.name

RenameTaken(d, i, name) == \E j \in Layers(d) \ {i} : d.layers[j].name = name

ActOnLayer(a, name) ==
  /\ a.menu.kind = "layer" /\ StillNamed(doc, a.menu)
  /\ LET i == a.menu.target
     IN  \/ a.op = "rename" /\ ~RenameTaken(doc, i, name)
            /\ Edit(RenameLayer(doc, i, name), "layer", a.menu.key)
         \/ a.op = "up" /\ CanMove(doc, i, -1) /\ Edit(MoveLayer(doc, i, -1), "layer", a.menu.key)
         \/ a.op = "down" /\ CanMove(doc, i, 1) /\ Edit(MoveLayer(doc, i, 1), "layer", a.menu.key)
         \/ a.op = "delete" /\ CanDelete(doc, i)
            /\ CheckedEdit(DeleteLayer(doc, i), "layer", a.menu.key)
  /\ acting' = acting \ {a}
  /\ UNCHANGED <<saved, aim, seq, menu, opening, drawn, gone, requests>>

ActOnSpawn(a) ==
  /\ a.menu.kind = "spawn" /\ a.menu.target \in DOMAIN doc.objects
  /\ \/ a.op = "duplicate" /\ Width * Height > 1
        /\ CheckedEdit(Duplicate(doc, a.menu.target), "spawn", 0)
     \/ a.op = "delete" /\ CheckedEdit(Delete(doc, a.menu.target), "spawn", a.menu.target)
  /\ acting' = acting \ {a}
  /\ UNCHANGED <<saved, aim, seq, menu, opening, drawn, gone, requests>>

\* The edit is refused: the map has changed, or does not allow it.
Refuse(a) ==
  /\ acting' = acting \ {a}
  /\ UNCHANGED <<doc, saved, aim, seq, menu, opening, drawn, asked, gone, requests>>

-----------------------------------------------------------------------------
(* The file *)

\* Ids the counter of the file is past, of objects that are not in it any more.
Retired(old, new) == {id \in DOMAIN old.objects : id < old.next} \ DOMAIN new.objects

Save ==
  /\ saved # doc
  /\ saved' = doc /\ gone' = gone \cup Retired(saved, doc)
  /\ UNCHANGED <<doc, aim, asked, requests>> /\ UNCHANGED menuVars

Discard ==
  /\ doc # saved
  /\ doc' = saved /\ asked' = Nothing
  /\ UNCHANGED <<saved, aim, gone, requests>> /\ UNCHANGED menuVars

-----------------------------------------------------------------------------
Trails == {<<>>} \cup {<<c>> : c \in Cells} \cup {<<b, c>> : b, c \in Cells}

Next ==
  \/ \E i \in Layers(doc) : ChooseLayer(i)
  \/ \E kind \in {"stamp", "fill", "erase"}, from, to \in Cells, trail \in Trails, tile \in Tiles :
       Stroke(kind, from, to, trail, tile)
  \/ \E id \in DOMAIN doc.objects, i \in Layers(doc), c \in Cells :
       LinkTile(id, doc.layers[i].id, c) \/ UnlinkTile(id, doc.layers[i].id, c)
  \/ \E type \in Types, c \in Cells : PlaceSpawn(type, c)
  \/ \E id \in DOMAIN doc.objects, c \in Cells : MoveSpawn(id, c)
  \/ \E id \in DOMAIN doc.objects : EditComponents(id)
  \/ \E id \in DOMAIN doc.objects : DeleteSpawn(id)
  \/ \E t \in Targets : BeginOpen(t)
  \/ \E o \in opening : ReadMenu(o)
  \/ \E o \in opening : FinishOpen(o)
  \/ Draw
  \/ \E token \in {0, drawn.token} : Close(token)
  \/ \E op \in {"rename", "up", "down", "delete", "duplicate"} : TakeMenu(op)
  \/ \E a \in acting, name \in Names : ActOnLayer(a, name)
  \/ \E a \in acting : ActOnSpawn(a)
  \/ \E a \in acting : Refuse(a)
  \/ Save
  \/ Discard

Spec == Init /\ [][Next]_vars

-----------------------------------------------------------------------------
\* Forge checks links by rules of its own, and not on every edit.  Whatever is
\* painted, linked, moved, copied or deleted, the engine can import the result:
\* every link leads to painted cells of a layer, every cell still has its art.
StaysImportable == UniqueLayerIDs(doc) => Imports(doc)

\* The tiles of a layer that an object links to, whichever way this is written.
LinkedTiles(d, id) ==
  {<<d.layers[i].key, c>> : i \in WithId(d, d.objects[id].link), c \in Footprint(d.objects[id])}

\* An object keeps its links through moves, strokes and the reordering of layers:
\* they change when its links are edited, and for a tile that is erased or whose
\* layer goes.
LinksAreKept ==
  [][\A id \in DOMAIN doc.objects \cap DOMAIN doc'.objects :
       \/ asked' = Nothing
       \/ asked'.what = "link" /\ asked'.key = id
       \/ /\ LinkedTiles(doc', id) \subseteq LinkedTiles(doc, id)
          /\ \A t \in LinkedTiles(doc, id) \ LinkedTiles(doc', id) :
               ~\E i \in Layers(doc') : doc'.layers[i].key = t[1] /\ doc'.layers[i].cells[t[2]] # Empty]_vars

\* The rest of a map beside one layer.
OtherLayers(d, key) == SelectSeq(d.layers, LAMBDA l : l.key # key)

\* A stroke and an action of a menu change the layer the page had chosen or the
\* menu had named, wherever it has moved since, and no other.
EditsLandWhereAimed ==
  [][doc' # doc /\ asked' # Nothing =>
       IF asked'.what = "layer" THEN OtherLayers(doc', asked'.key) = OtherLayers(doc, asked'.key)
       ELSE doc'.layers = doc.layers]_vars

\* The engine keeps entities by the id of their object: an id that the file once
\* gave to an object, and that its counter is past, never comes back in it.
IdsAreNotReused == DOMAIN saved.objects \cap gone = {}

\* The engine can take what Forge makes, and does not mistake one object for
\* another.
FitForTheEngine == StaysImportable /\ IdsAreNotReused
=============================================================================
