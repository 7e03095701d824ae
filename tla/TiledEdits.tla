------------------------------- MODULE TiledEdits -----------------------------
(***************************************************************************)
(* The edits Forge makes in a TMX or TSX file, as changes of its text: of  *)
(* a tileset the class and the properties of its tiles, of a map its id,   *)
(* its objects and the cells of a layer.                                   *)
(*                                                                         *)
(* What a value says is left to the constants, as are a file's checks of   *)
(* places and of characters.                                               *)
(***************************************************************************)
EXTENDS TiledText

CONSTANTS Texts,          \* the files, as trees that parseTree has read
          Numeral,        \* numeral -> number
          ComponentOf,    \* name of a property -> component
          EditedTiles, EditedProps, EditedTypes, EditedValues, EditedClasses,
          MaxTextEdits    \* bound

VARIABLES text,           \* the working document
          about,          \* the elements the last edit was about
          same,           \* whether it asked for what was there
          textEdits

tiledVars == <<text, about, same, textEdits>>

Root == 1
FileKind == text[Root].name
NumberOf(t, e, name) == Numeral[AttrOf(t, e, name)]
NumeralOf(n) == CHOOSE s \in DOMAIN Numeral : Numeral[s] = n

New(t, name, attrs) == Append(t, NewElem(name, attrs))

TiledInit ==
  /\ text \in Texts
  /\ about = {} /\ same = FALSE /\ textEdits = 0

\* An edit that is not refused.
EditText(t, elems, wasThere) ==
  /\ text' = t /\ about' = elems /\ same' = wasThere
  /\ textEdits' = textEdits + 1

-----------------------------------------------------------------------------
(* Properties *)

Block(t, owner) == FirstChild(t, owner, "properties")
PropsNamed(t, block, name) ==
  SelectSeq(Children(t, block, "property"), LAMBDA k : AttrOf(t, k.el, "name") = name)
Property(t, block, name) == PropsNamed(t, block, name)[1].el

\* The block, and the property, if there is one, can be told from the others.
OneProperty(t, owner, name) ==
  /\ Len(Children(t, owner, "properties")) <= 1
  /\ Block(t, owner) # 0 => Len(PropsNamed(t, Block(t, owner), name)) <= 1

HasProperty(t, owner, name) == Block(t, owner) # 0 /\ PropsNamed(t, Block(t, owner), name) # <<>>

\* What is written in it can be replaced: no markup inside a text value.
Replaceable(t, p) ==
  /\ ElemKids(t, p) = <<>>
  /\ ~HasAttr(t, p, "value") => \A i \in DOMAIN t[p].kids : t[p].kids[i].text # "comment"

TextOf(t, p) == IF t[p].kids = <<>> THEN "" ELSE t[p].kids[1].text
ValueOf(t, p) == IF HasAttr(t, p, "value") THEN AttrOf(t, p, "value") ELSE TextOf(t, p)

\* The kinds of element that come before a new block of properties.
NotYet(t, owner) ==
  CASE t[owner].name = "tile" -> {"image", "objectgroup", "animation"}
    [] t[owner].name = "map" -> {"tileset", "layer", "group", "imagelayer", "objectgroup"}
    [] OTHER -> {}
Later(t, owner) == {i \in DOMAIN t[owner].kids :
                      IsElem(t[owner].kids[i]) /\ t[t[owner].kids[i].el].name \in NotYet(t, owner)}
Earliest(S) == CHOOSE i \in S : \A j \in S : i <= j

\* Before i, and in a tile before what leads up to it.
Lead(kids, i) == LET E == {j \in 1..(i - 1) : IsElem(kids[j])} IN
  IF E = {} THEN 0 ELSE CHOOSE j \in E : \A k \in E : k <= j

WithBlock(t, owner) ==
  LET t2 == New(t, "properties", <<>>)
      b == Len(t2)
      i == Earliest(Later(t, owner))
  IN  IF Block(t, owner) # 0 THEN t
      ELSE IF Later(t, owner) = {} THEN AppendChild(t2, owner, b)
      ELSE IF t[owner].name = "tile"
           THEN InsertKids(t2, owner, Lead(t[owner].kids, i), <<Space, Kid(b)>>, b)
      ELSE InsertKids(t2, owner, i - 1, <<Kid(b), Space>>, b)

Typed(type) == IF type \in {"", "string"} THEN <<>> ELSE <<Attr("type", type)>>
WithProperty(t, block, name, type, value) ==
  LET t2 == New(t, "property", <<Attr("name", name)>> \o Typed(type) \o <<Attr("value", value)>>)
  IN  AppendChild(t2, block, Len(t2))

Retyped(t, p, type) ==
  IF type \in {"", "string"}
  THEN IF AttrOf(t, p, "type") = "string" THEN t ELSE RemoveAttr(t, p, "type")
  ELSE SetAttr(t, p, "type", type)

\* Faulty variant: a text is written again even if it says the same.
Rewritten(t, p, value) == IF HasAttr(t, p, "value") THEN SetAttr(t, p, "value", value) ELSE SetText(t, p, value)

\* Where the value is, it stays; a text that says the same is left as it is.
Revalued(t, p, value) ==
  IF HasAttr(t, p, "value") THEN SetAttr(t, p, "value", value)
  ELSE IF TextOf(t, p) = value THEN t ELSE SetText(t, p, value)

\* setElementProperty, of what is not refused.
CanSetProperty(t, owner, name) ==
  /\ OneProperty(t, owner, name)
  /\ HasProperty(t, owner, name) => Replaceable(t, Property(t, Block(t, owner), name))
SetElementProperty(t, owner, name, type, value) ==
  IF HasProperty(t, owner, name)
  THEN LET p == Property(t, Block(t, owner), name) IN Revalued(Retyped(t, p, type), p, value)
  ELSE LET t2 == WithBlock(t, owner) IN WithProperty(t2, Block(t2, owner), name, type, value)

SaysAlready(t, owner, name, type, value) ==
  /\ HasProperty(t, owner, name)
  /\ LET p == Property(t, Block(t, owner), name)
     IN  ValueOf(t, p) = value /\ AttrOf(t, p, "type") \in (IF type = "string" THEN {"", "string"} ELSE {type})

-----------------------------------------------------------------------------
(* TilesetDocument *)

Collection(t) == FirstChild(t, Root, "image") = 0
InSheet(t, local) == ~Collection(t) /\ local < NumberOf(t, Root, "tilecount")

TileElement(t, local) ==
  LET found == SelectSeq(Children(t, Root, "tile"), LAMBDA k : NumberOf(t, k.el, "id") = local)
  IN  IF found = <<>> THEN 0 ELSE found[1].el
Editable(t, local) == InSheet(t, local) \/ (Collection(t) /\ TileElement(t, local) # 0)

\* Faulty variant: a tile that had no element goes to the end.
TileAppended(t, local) ==
  LET t2 == New(t, "tile", <<Attr("id", NumeralOf(local))>>)
  IN  IF TileElement(t, local) # 0 THEN t ELSE AppendChild(t2, Root, Len(t2))

\* tileForEdit: a tile of the sheet that had no element gets one, before the
\* tiles after it and what comes after tiles.
TileForEdit(t, local) ==
  LET t2 == New(t, "tile", <<Attr("id", NumeralOf(local))>>)
      after == {i \in DOMAIN t[Root].kids :
                  LET e == t[Root].kids[i].el
                  IN  e # 0 /\ \/ t[e].name = "tile" /\ NumberOf(t, e, "id") > local
                               \/ t[e].name \in {"wangsets", "terraintypes"}}
  IN  IF TileElement(t, local) # 0 THEN t
      ELSE IF after = {} THEN AppendChild(t2, Root, Len(t2))
      ELSE InsertKids(t2, Root, Earliest(after) - 1, <<Kid(Len(t2)), Space>>, Len(t2))

ClassAmbiguous(t, e) == e # 0 /\ HasAttr(t, e, "type") /\ HasAttr(t, e, "class")
ClassName(t, e) == IF e # 0 /\ HasAttr(t, e, "class") THEN "class" ELSE "type"
ClassOf(t, e) == IF e = 0 THEN "" ELSE AttrOf(t, e, ClassName(t, e))

SetTileClass(local, class) ==
  /\ FileKind = "tileset" /\ Editable(text, local) /\ ~ClassAmbiguous(text, TileElement(text, local))
  /\ LET e == TileElement(text, local)
         t2 == TileForEdit(text, local)
         e2 == TileElement(t2, local)
     IN  EditText(IF class = "" THEN (IF e = 0 THEN text ELSE RemoveAttr(text, e, ClassName(text, e)))
                  ELSE SetAttr(t2, e2, ClassName(t2, e2), class),
                  {IF e # 0 THEN e ELSE e2}, ClassOf(text, e) = class)

SetTileProperty(local, name, type, value) ==
  /\ FileKind = "tileset" /\ Editable(text, local)
  /\ LET t2 == TileForEdit(text, local)
         e == TileElement(t2, local)
     IN  /\ CanSetProperty(t2, e, name)
         /\ EditText(SetElementProperty(t2, e, name, type, value), {e},
                     SaysAlready(t2, e, name, type, value))

-----------------------------------------------------------------------------
(* Document *)

\* collectElems, for groups of objects and for layers.
RECURSIVE Within(_, _, _)
Within(t, e, name) ==
  FlattenSeq([i \in DOMAIN ElemKids(t, e) |->
    LET k == ElemKids(t, e)[i].el
    IN  IF t[k].name = name THEN <<k>>
        ELSE IF t[k].name = "group" THEN Within(t, k, name) ELSE <<>>])
Groups(t) == Within(t, Root, "objectgroup")

Objects(t) ==
  UNION {{k.el : k \in Range(Children(t, g, "object"))} : g \in Range(Groups(t))}
ObjectsWith(t, id) == {o \in Objects(t) : AttrOf(t, o, "id") = id}
ObjectIDs(t) == {AttrOf(t, o, "id") : o \in Objects(t)}

\* objectElement: an id that two objects have is refused.
TheObject(t, id) == {o \in ObjectsWith(t, id) : Cardinality(ObjectsWith(t, id)) = 1}

\* SetMapID
SetMapID(id) ==
  /\ FileKind = "map" /\ CanSetProperty(text, Root, "mapId")
  /\ LET t2 == WithBlock(text, Root)
         b == Block(t2, Root)
         p == Property(text, b, "mapId")
         plain == RemoveAttr(text, p, "type")
     IN  EditText(IF HasProperty(text, Root, "mapId")
                  THEN IF HasAttr(text, p, "value") THEN SetAttr(plain, p, "value", id) ELSE SetText(plain, p, id)
                  ELSE WithProperty(t2, b, "mapId", "", id),
                  {b}, FALSE)

\* allocateObjectID
Allocated(t) == SetAttr(t, Root, "nextobjectid", NumeralOf(NumberOf(t, Root, "nextobjectid") + 1))
MayAllocate == NumberOf(text, Root, "nextobjectid") + 1 \in Range(Numeral)

\* AddObject and addProperties: the block is in its place before it is filled.
AddTextObject(g, props) ==
  /\ FileKind = "map" /\ g \in DOMAIN Groups(text) /\ MayAllocate
  /\ LET t2 == New(Allocated(text), "object",
                   <<Attr("id", AttrOf(text, Root, "nextobjectid")), Attr("x", "0")>>)
         o == Len(t2)
         t3 == AppendChild(t2, Groups(text)[g], o)
         t4 == AppendChild(New(t3, "properties", <<>>), o, o + 1)
         filled == FoldLeft(LAMBDA t, name : WithProperty(t, o + 1, name, "int", "1"), t4, props)
     IN  EditText(IF props = <<>> THEN t3 ELSE filled, {o}, FALSE)

RemoveTextObject(id) ==
  /\ FileKind = "map"
  /\ \E o \in TheObject(text, id) : EditText(RemoveChild(text, text[o].parent, o), {o}, FALSE)

MoveTextObject(id, x) ==
  /\ FileKind = "map"
  /\ \E o \in TheObject(text, id) :
       EditText(SetAttr(text, o, "x", x), {o}, AttrOf(text, o, "x") = x)

DuplicateTextObject(id, x) ==
  /\ FileKind = "map" /\ MayAllocate
  /\ \E o \in TheObject(text, id) :
       LET t2 == Cloned(Allocated(text), o)
           c == Len(text) + 1
           t3 == SetAttr(SetAttr(t2, c, "id", AttrOf(text, Root, "nextobjectid")), c, "x", x)
       IN  EditText(AppendChild(t3, text[o].parent, c), {c}, FALSE)

SetObjectProperty(id, name, type, value) ==
  /\ FileKind = "map"
  /\ \E o \in TheObject(text, id) :
       /\ CanSetProperty(text, o, name)
       /\ EditText(SetElementProperty(text, o, name, type, value), {o},
                   SaysAlready(text, o, name, type, value))

\* RemoveObjectComponent: a block that holds nothing any more goes too.
RemoveObjectComponent(id, component) ==
  /\ FileKind = "map"
  /\ \E o \in TheObject(text, id) :
       LET b == Block(text, o)
           going == SelectSeq(Children(text, b, "property"),
                              LAMBDA k : ComponentOf[AttrOf(text, k.el, "name")] = component)
           t2 == FoldLeft(LAMBDA t, k : RemoveChild(t, b, k.el), text, going)
       IN  /\ b # 0 /\ going # <<>>
           /\ EditText(IF t2[b].kids = <<>> THEN RemoveChild(t2, o, b) ELSE t2, {o}, FALSE)

\* SetLayerData: one element for each cell, or one text.
SetTextLayerData(i, gids) ==
  /\ FileKind = "map" /\ i \in DOMAIN Within(text, Root, "layer")
  /\ LET d == FirstChild(text, Within(text, Root, "layer")[i], "data")
         n == Len(text)
         cells == [j \in DOMAIN gids |-> [NewElem("tile", <<Attr("gid", gids[j])>>) EXCEPT !.parent = d]]
         kids == FlattenSeq([j \in DOMAIN gids |-> <<Space, Kid(n + j)>>]) \o <<Space>>
     IN  /\ d # 0
         /\ EditText(IF HasAttr(text, d, "encoding") THEN SetText(text, d, gids[1])
                     ELSE MarkDirty([(text \o cells) EXCEPT ![d].kids = kids, ![d].selfClose = FALSE], d),
                     {d}, FALSE)

-----------------------------------------------------------------------------
TiledNext ==
  /\ textEdits < MaxTextEdits
  /\ \/ \E local \in EditedTiles, class \in EditedClasses : SetTileClass(local, class)
     \/ \E local \in EditedTiles, name \in EditedProps, type \in EditedTypes, value \in EditedValues :
          SetTileProperty(local, name, type, value)
     \/ \E id \in EditedValues : SetMapID(id)
     \/ \E g \in 1..2, props \in {<<>>} \cup {<<name>> : name \in EditedProps} : AddTextObject(g, props)
     \/ \E id \in ObjectIDs(text) : RemoveTextObject(id)
     \/ \E id \in ObjectIDs(text), x \in {"0", "1"} : MoveTextObject(id, x)
     \/ \E id \in ObjectIDs(text), x \in {"0", "1"} : DuplicateTextObject(id, x)
     \/ \E id \in ObjectIDs(text), name \in EditedProps, type \in EditedTypes, value \in EditedValues :
          SetObjectProperty(id, name, type, value)
     \/ \E id \in ObjectIDs(text), component \in Range(ComponentOf) : RemoveObjectComponent(id, component)
     \/ \E i \in 1..2 : SetTextLayerData(i, <<"1", "0">>)

TiledSpec == TiledInit /\ [][TiledNext]_tiledVars

-----------------------------------------------------------------------------
\* Where tiles are in order they stay in order, and what Tiled writes after
\* them is after them.
Rank(t, k) ==
  CASE t[k.el].name = "tile" -> NumberOf(t, k.el, "id")
    [] t[k.el].name \in {"wangsets", "terraintypes"} -> 1000
    [] OTHER -> -1
InOrder(t, e) ==
  \A i, j \in DOMAIN ElemKids(t, e) : i < j => Rank(t, ElemKids(t, e)[i]) <= Rank(t, ElemKids(t, e)[j])

\* Whatever was edited, what is written is well formed and says what the edits
\* made of the file, in the spelling it had where they have not touched it.
TextReadsBack ==
  /\ Parsed(Render(text, Root)) = <<Reading(text, Root)>>
  /\ FileKind = "tileset" => InOrder(text, Root)

\* What is beside some elements, without the spaces; the counter of the map is
\* everybody's.
RECURSIVE Besides(_, _, _)
Besides(t, e, elems) ==
  [name |-> t[e].name,
   attrs |-> SelectSeq(t[e].attrs, LAMBDA a : a.name # "nextobjectid"),
   inside |-> LET kept == SelectSeq(t[e].kids, LAMBDA k : ~IsSpace(k) /\ k.el \notin elems)
              IN  [i \in DOMAIN kept |-> IF IsElem(kept[i]) THEN Besides(t, kept[i].el, elems)
                                         ELSE TextToken(kept[i])]]

\* An edit leaves everything else where it is and as it is spelled: elements
\* and attributes nobody knows, their order, comments.
OthersAreVerbatim == [][Besides(text', Root, about') = Besides(text, Root, about')]_tiledVars

\* Asking for what is there already changes nothing in the file.
SameIsNoChange == [][same' => Render(text', Root) = Render(text, Root)]_tiledVars

\* Both, of every edit: it changes what it is about, and that only if it has to.
\* (xmltree.go, the copy-on-write tree; tileset_document.go, objectedit.go)
EditsAreNarrow == OthersAreVerbatim /\ SameIsNoChange
=============================================================================
