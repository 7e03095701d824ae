----------------------------- MODULE MCForgeModes -----------------------------
(***************************************************************************)
(* MAP, SPRITES, the text of a file of MAP or TILES, and what is made of   *)
(* such a text.  The four share no state here, so a behaviour is about one *)
(* of them: the states are those of the first, of the second and so on.    *)
(*                                                                         *)
(* MAP: grass and moss are two looks of the ground; a sign is no ground    *)
(* and only says something about the cells it links.  SPRITES: a file of   *)
(* one animation and one binding; the user edits it much, or a little      *)
(* while somebody else does, or while the engine runs or is restarted.     *)
(*                                                                         *)
(* TEXT: a tileset of a sheet and one of single images, each with what no  *)
(* edit knows, and a map of nested layers.                                 *)
(***************************************************************************)
EXTENDS MapEdits, SpriteSync, TiledEdits, MapReports, TLC

CONSTANTS grass, moss

Kind(tile) == IF tile = Empty THEN "none" ELSE "ground"

Cell1 == <<0, 0>>
Cell2 == <<1, 0>>
Row(a, b) == Cell1 :> a @@ Cell2 :> b
Layer(key, id, name, row) == [key |-> key, id |-> id, name |-> name, cells |-> row]
Object(type, at, visual, link, offsets) ==
  [type |-> type, at |-> at, visual |-> visual, link |-> link, offsets |-> offsets]

\* A sign beside the tile it is about, and ground that shows itself.
Linked ==
  [layers |-> <<Layer(1, 1, "floor", Row(grass, moss)), Layer(2, 2, "wall", Row(Empty, grass))>>,
   objects |-> 1 :> Object("ground", Cell1, TRUE, 1, Implicit)
              @@ 2 :> Object("sign", Cell1, FALSE, 1, {<<1, 0>>}),
   next |-> 3]

\* Ground shown by another object.
ShownByAnother ==
  [layers |-> <<Layer(1, 1, "floor", Row(grass, grass)), Layer(2, 2, "wall", Row(Empty, Empty))>>,
   objects |-> 1 :> Object("ground", Cell1, FALSE, 1, Implicit)
              @@ 2 :> Object("ground", Cell2, TRUE, 1, {<<0, 0>>, <<-1, 0>>}),
   next |-> 5]

\* A map of no ids, and one of a counter that is behind its objects.
Idless ==
  [layers |-> <<Layer(1, 0, "floor", Row(grass, Empty)), Layer(2, 0, "wall", Row(Empty, moss))>>,
   objects |-> 1 :> Object("sign", Cell1, FALSE, NoLink, Implicit),
   next |-> 0]
Merged ==
  [layers |-> <<Layer(1, 1, "floor", Row(grass, moss)), Layer(2, 1, "floor", Row(Empty, moss))>>,
   objects |-> 1 :> Object("sign", Cell1, FALSE, NoLink, Implicit)
              @@ 2 :> Object("sign", Cell2, FALSE, NoLink, Implicit),
   next |-> 1]

Maps == {Linked, ShownByAnother, Idless, Merged}
LayerWords == {"floor", "roof"}
Placeable == {"sign"}

-----------------------------------------------------------------------------
File(anims, binds) == [anims |-> anims, binds |-> binds]
Anim(key, name, sheet) == [key |-> key, name |-> name, sheet |-> sheet, imported |-> FALSE]
Goblins == File(<<Anim(1, "walk", "goblin")>>, "Goblin" :> "goblin")
Others == File(<<Anim(2, "run", "orc")>>, "Orc" :> "orc")
Doubled == File(<<Anim(1, "walk", "goblin"), Anim(2, "walk", "goblin")>>, "Goblin" :> "orc")
SpriteFiles == {Goblins, Absent}
Outsiders == {Others, Doubled, Absent, Broken}
Budget(edits, others, starts, failures) ==
  [edits |-> edits, theirs |-> others, starts |-> starts, failures |-> failures]
Few == {Budget(3, 0, 0, 0), Budget(2, 1, 0, 0), Budget(1, 1, 1, 1), Budget(1, 0, 2, 1)}

-----------------------------------------------------------------------------
Theirs(name, value) == [name |-> name, value |-> value, by |-> "theirs"]
Authored(tag, name, attrs, inside, parent) ==
  [name |-> name, attrs |-> attrs, kids |-> inside, selfClose |-> tag = "self",
   authored |-> tag, src |-> <<>>, dirty |-> FALSE, parent |-> parent]
Line == Raw("space", "theirs")
Note == Raw("comment", "theirs")

\* A collection of no images yet.
NoImages == Loaded(<<Authored("self", "tileset", <<Theirs("tilecount", "0")>>, <<>>, 0)>>)

\* A sheet of four tiles, of which two have an element, with attributes and
\* elements nobody knows.
TileSheet == Loaded(<<
  Authored("open", "tileset", <<Theirs("tilecount", "4")>>,
           <<Line, Kid(2), Line, Kid(3), Line, Note, Kid(4), Line, Kid(8), Line>>, 0),
  Authored("self", "image", <<>>, <<>>, 1),
  Authored("self", "tile", <<Theirs("id", "1"), Theirs("class", "wall")>>, <<>>, 1),
  Authored("open", "tile", <<Theirs("id", "3"), Theirs("type", "wall"), Theirs("new", "9")>>,
           <<Line, Note, Line, Kid(5), Line>>, 1),
  Authored("open", "objectgroup", <<>>, <<Kid(6)>>, 4),
  Authored("self", "object", <<>>, <<>>, 5),
  Authored("self", "x", <<>>, <<>>, 4),
  Authored("self", "wangsets", <<>>, <<>>, 1)>>)

\* Images of their own, one with a value that is text, one of both classes.
Images == Loaded(<<
  Authored("open", "tileset", <<Theirs("tilecount", "2")>>, <<Line, Kid(2), Line, Kid(6), Line>>, 0),
  Authored("open", "tile", <<Theirs("id", "1")>>, <<Kid(3), Kid(5)>>, 1),
  Authored("open", "properties", <<>>, <<Kid(4)>>, 2),
  Authored("open", "property", <<Theirs("name", "Health.hp"), Theirs("type", "string")>>,
           <<Raw("1", "theirs")>>, 3),
  Authored("self", "image", <<>>, <<>>, 2),
  Authored("open", "tile", <<Theirs("id", "3"), Theirs("class", "wall"), Theirs("type", "wall")>>, <<>>, 1)>>)

\* A layer that is text and one in a group that is empty, two groups of objects.
LevelText == Loaded(<<
  Authored("open", "map", <<Theirs("nextobjectid", "3")>>,
           <<Line, Note, Line, Kid(2), Line, Kid(4), Line, Kid(7), Line, Kid(8), Line>>, 0),
  Authored("open", "layer", <<>>, <<Line, Kid(3), Line>>, 1),
  Authored("open", "data", <<Theirs("encoding", "csv")>>, <<Raw("1", "theirs")>>, 2),
  Authored("open", "group", <<>>, <<Line, Kid(5), Line>>, 1),
  Authored("open", "layer", <<>>, <<Line, Kid(6), Line>>, 4),
  Authored("self", "data", <<>>, <<>>, 5),
  Authored("self", "objectgroup", <<>>, <<>>, 1),
  Authored("open", "objectgroup", <<>>, <<Line, Note, Line, Kid(9), Note, Kid(11), Line>>, 1),
  Authored("open", "object", <<Theirs("id", "1"), Theirs("x", "1")>>, <<Kid(10)>>, 8),
  Authored("open", "properties", <<>>, <<Kid(12)>>, 9),
  Authored("self", "object", <<Theirs("id", "2"), Theirs("new", "9"), Theirs("x", "0")>>, <<>>, 8),
  Authored("self", "property", <<Theirs("name", "Health.hp"), Theirs("type", "int"), Theirs("value", "1")>>,
           <<>>, 10)>>)

Samples == {NoImages, TileSheet, Images, LevelText}
Digits == <<"0", "1", "2", "3", "4", "5", "6">>
Numbers == [s \in Range(Digits) |-> CHOOSE n \in 0..6 : Digits[n + 1] = s]
Comps == "Health.hp" :> "Health" @@ "Tile.image" :> "Tile" @@ "mapId" :> "none"

-----------------------------------------------------------------------------
(* What everybody makes of a map: two by two cells in seven ways of writing  *)
(* them, three layers (one in a folder, one that is transparent), two        *)
(* tilesets, and files that are no maps.  Bytes of two bits: 16 ids and four *)
(* flags.                                                                    *)
Bytes(w) == <<(w % 4), (w \div 4) % 4, (w \div 16) % 4, w \div 64>>
Prop(name, type, says) ==
  [name |-> name, type |-> type, said |-> TRUE, form |-> "string", means |-> says, spelled |-> says]
\* Between the tags, escaped; as markup; and a number with a point.
Escaped(name, says, spelled) ==
  [name |-> name, type |-> "", said |-> FALSE, form |-> "text", means |-> says, spelled |-> spelled]
Whole(name, says, spelled) ==
  [name |-> name, type |-> "int", said |-> TRUE, form |-> "whole", means |-> says, spelled |-> spelled]
Meant(type, says) == [type |-> type, value |-> says]

\* How the cells of a layer are written.
Ways == {"elements", "csv", "base64", "zlib", "list", "text", "gzip"}
XMLWays == {"elements", "csv", "base64", "zlib"}
Written(way, cells) ==
  CASE way = "elements" -> Data("elements", "", "", Fields([i \in DOMAIN cells |-> IF cells[i] = 0 THEN Blank ELSE Number(cells[i])]))
    [] way = "csv" -> Data("text", "csv", "", Fields([i \in DOMAIN cells |-> Number(cells[i])] \o <<Blank>>))
    [] way = "base64" -> Data("text", "base64", "", Base64(Packed("", FlattenSeq([i \in DOMAIN cells |-> Bytes(cells[i])]))))
    [] way = "list" -> Data("list", "", "", Fields([i \in DOMAIN cells |-> Number(cells[i])]))
    [] way = "text" -> Data("text", "", "", Base64(Packed("", FlattenSeq([i \in DOMAIN cells |-> Bytes(cells[i])]))))
    [] OTHER -> Data("text", "base64", way, Base64(Packed(way, FlattenSeq([i \in DOMAIN cells |-> Bytes(cells[i])]))))

NoData == Data("none", "", "", Fields(<<>>))
Node(kind, in, visible, id, data, opacity, objects) ==
  [kind |-> kind, in |-> in, visible |-> visible, id |-> id, name |-> kind, w |-> 2, h |-> 2,
   opacity |-> opacity, data |-> data, objects |-> objects, props |-> <<>>]
LayerTag == [xml |-> "layer", json |-> "tilelayer"]
Format(way) == IF way \in XMLWays THEN "xml" ELSE "json"

TwoObjects == <<[id |-> 1, type |-> "", class |-> "goblin", gid |-> 0, visible |-> "unsaid", props |-> <<>>],
             [id |-> 1, type |-> "", class |-> "", gid |-> 5, visible |-> "no",
              props |-> <<Prop("TileLink.cells", "", "[]")>>]>>
MeantObjects == <<[id |-> 1, type |-> "goblin", gid |-> 0, visible |-> TRUE, props |-> <<>>],
                  [id |-> 1, type |-> "", gid |-> 5, visible |-> FALSE,
                   props |-> "TileLink.cells" :> Meant("string", "[]")]>>

RefTo(first, source) == [first |-> first, source |-> source, inside |-> <<>>]
Terrain == <<"..", "tiles", "terrain">>
Things == <<"things">>

Level(way, ground, deco, ghost, ids, opacity, folder) ==
  LET fmt == Format(way)
      layer(in, id, cells, o) == Node(LayerTag[fmt], in, "unsaid", id, Written(way, cells), o, <<>>)
  IN  [opening |-> IF fmt = "xml" THEN <<"bom", "space", "<">> ELSE <<"space", "{">>, wellFormed |-> TRUE,
       root |-> "map", infinite |-> FALSE, w |-> 2, h |-> 2, tw |-> 2, th |-> 3, order |-> "left-up",
       orientation |-> "orthogonal", props |-> <<Escaped("mapId", "a&b", "a&amp;b")>>,
       nodes |-> <<layer(0, ids[1], ground, "unsaid"), Node("group", 0, folder, 7, NoData, "unsaid", <<>>),
                   layer(2, ids[2], deco, opacity), layer(2, ids[3], ghost, "none"),
                   Node("imagelayer", 0, "yes", 8, NoData, "unsaid", <<>>),
                   Node("objectgroup", 2, "yes", 9, NoData, "unsaid", TwoObjects)>>,
       tilesets |-> <<RefTo(1, Terrain), RefTo(5, Things)>>]

MeansJSON(f) == [f EXCEPT !.props = <<Prop("mapId", "", "a&b"), Whole("mapId", "9", "9.0")>>]

Means(ground, deco, ghost, ids, opacity, folder, id) ==
  LET layer(name, k, cells, o, shown) ==
        [id |-> k, name |-> name, w |-> 2, h |-> 2, visible |-> shown, opacity |-> o, data |-> cells, props |-> <<>>]
      ref(first, source) == [first |-> first, source |-> source, inside |-> <<>>, sheet |-> Unresolved]
  IN  [w |-> 2, h |-> 2, tw |-> 2, th |-> 3, order |-> "left-up", orientation |-> "orthogonal",
       layers |-> <<layer("", ids[1], ground, "full", TRUE),
                    layer("", ids[2], deco, IF opacity = "unsaid" THEN "full" ELSE opacity, folder # "no"),
                    layer("", ids[3], ghost, "none", folder # "no")>>,
       groups |-> <<[name |-> "objectgroup", visible |-> folder # "no", props |-> <<>>, objects |-> MeantObjects]>>,
       tilesets |-> <<ref(1, Terrain), ref(5, Things)>>,
       props |-> "mapId" :> id]
NamedLayers(m, fmt) == [m EXCEPT !.layers = [i \in DOMAIN @ |-> [@[i] EXCEPT !.name = LayerTag[fmt]]]]

\* Cells: an id of the sheet, one of the collection turned, nothing.
Ground == <<1, 4, 0, 7 + 16 * 15>>
Deco == <<0, 3 + 16 * 8, 5 + 16 * 2, 0>>
Ghost == <<0, 0, 2 + 16 * 6, 0>>
Hole == <<0, 6, 0, 0>>
Ids == <<1, 2, 3>>
Pair(f, m) == [file |-> f, means |-> m]
Of(way, ground, deco, ids, opacity, folder) ==
  IF Format(way) = "xml"
  THEN Pair(Level(way, ground, deco, Ghost, ids, opacity, folder),
            <<NamedLayers(Means(ground, deco, Ghost, ids, opacity, folder, Meant("string", "a&b")), "xml")>>)
  ELSE Pair(MeansJSON(Level(way, ground, deco, Ghost, ids, opacity, folder)),
            <<NamedLayers(Means(ground, deco, Ghost, ids, opacity, folder, Meant("int", "9")), "json")>>)

Base(way) == Of(way, Ground, Deco, Ids, "unsaid", "no")
Reversed(pair) ==
  Pair([pair.file EXCEPT !.tilesets = <<@[2], @[1]>>], <<[pair.means[1] EXCEPT !.tilesets = <<@[2], @[1]>>]>>)
With(pair, f(_)) == Pair(f(pair.file), Unresolved)
\* An empty file.
NoText ==
  [Base("csv").file EXCEPT !.opening = <<>>, !.nodes = <<>>, !.tilesets = <<>>, !.props = <<>>]
MCFiles ==
  {Base(way) : way \in Ways} \cup {Pair(NoText, Unresolved)}
  \cup {Of("csv", Ground, Hole, Ids, "half", "yes"), Reversed(Base("base64")), Of("elements", Ground, Deco, <<1, 2, 2>>, "unsaid", "unsaid"),
        Of("zlib", <<0, 0, 0, 0>>, Deco, <<0, 2, 3>>, "none", "no")}
  \cup {With(Base("csv"), LAMBDA f : [f EXCEPT !.opening = <<"space">>]),
        With(Base("csv"), LAMBDA f : [f EXCEPT !.infinite = TRUE]),
        With(Base("list"), LAMBDA f : [f EXCEPT !.root = "tileset"]),
        With(Base("base64"), LAMBDA f : [f EXCEPT !.nodes[3].w = 1]),
        With(Base("gzip"), LAMBDA f : [f EXCEPT !.nodes[1].data.text.packed = Torn]),
        With(Base("gzip"), LAMBDA f : [f EXCEPT !.nodes[1].data.comp = "zstd"]),
        With(Base("zlib"), LAMBDA f : [f EXCEPT !.nodes[1].data.text.packed.bytes = @ \o <<1, 0, 0, 0>>]),
        With(Base("csv"), LAMBDA f : [f EXCEPT !.nodes[4].data.text.fields = <<Junk>> \o @])}

-----------------------------------------------------------------------------
Pic(source, w, h) == [source |-> source, path |-> <<>>, w |-> w, h |-> h]
NoPic == Pic(<<>>, 0, 0)
TileIn(id, type, image, props) == [id |-> id, type |-> "", class |-> type, image |-> image, props |-> props]
Sheet(count, image, tiles, props) ==
  [opening |-> <<"<">>, wellFormed |-> TRUE, root |-> "tileset", name |-> "terrain", class |-> "ground",
   tw |-> 2, th |-> 3, count |-> count, columns |-> 2, spacing |-> 1, margin |-> 1, offset |-> <<1, -1>>,
   image |-> image, tiles |-> tiles, props |-> props]
Loose(tiles, props) ==
  [opening |-> <<"{">>, wellFormed |-> TRUE, root |-> "", name |-> "things", class |-> "",
   tw |-> 2, th |-> 3, count |-> 0, columns |-> 0, spacing |-> 0, margin |-> 0, offset |-> <<0, 0>>,
   image |-> NoPic, tiles |-> tiles, props |-> props]

Is(type) == <<Prop("entityType", "", type)>>
Sheet4 == Sheet(4, Pic(<<"t">>, 7, 9), <<TileIn(2, "lava", NoPic, Is("wall") \o <<Prop("Look.hue", "", "1")>>)>>, Is("floor"))
Short == Sheet(4, Pic(<<"t">>, 7, 5), <<>>, Is("floor"))
Grown == Sheet(6, Pic(<<"t">>, 7, 13), <<>>, Is("floor") \o <<Prop("solid", "bool", "yes")>>)
Blind == Sheet(4, Pic(<<"t">>, 7, 9), <<TileIn(0, "", NoPic, <<Prop("passable", "bool", "true")>> \o Is("floor"))>>, <<>>)
Odd == Sheet(3, Pic(<<"t">>, 7, 9), <<>>, Is("floor"))
Strange == Sheet(4, Pic(<<"t">>, 7, 9), <<>>, Is("nobody"))
Two == Loose(<<TileIn(0, "", Pic(<<"..", "a">>, 2, 6), <<>>), TileIn(2, "", Pic(<<"/", "b">>, 4, 3), <<>>)>>,
             Is("wall") \o <<Prop("Look.hue", "", "2")>>)
Bare == Loose(<<TileIn(0, "", Pic(<<"..", "a">>, 2, 6), <<Prop("Look.hue", "", "blue")>>), TileIn(2, "", NoPic, <<>>)>>,
              Is("wall"))
\* Two cells wide; no footprint; a component the importer adds; one that is half filled.
Corner == Sheet(4, Pic(<<"t">>, 7, 9),
  <<TileIn(0, "", NoPic, <<Prop("OccupiedCells.value", "", "two cells")>>),
    TileIn(1, "", NoPic, <<Prop("OccupiedCells.value", "", "none")>>),
    TileIn(2, "", NoPic, <<Prop("TileVisual.alpha", "", "1")>>),
    TileIn(3, "", NoPic, <<Prop("Glow.hue", "", "1")>>)>>,
  Is("wall") \o <<Prop("Look.hue", "", "2")>>)
Twice == Loose(<<TileIn(0, "", NoPic, <<>>), TileIn(0, "", NoPic, <<>>)>>, Is("wall"))

TerrainAt == <<"tiles", "terrain">>
ThingsAt == <<"maps", "things">>
Both(a, b) == TerrainAt :> <<a>> @@ ThingsAt :> <<b>>
MCFirstSheets ==
  {Both(Sheet4, Two), Both(Short, Two), Both(Grown, Two), Both(Blind, Bare), Both(Odd, Two), Both(Strange, Two),
   Both(Corner, Two), Both(Sheet4, Twice), ThingsAt :> <<Two>>, <<>>}

MCTheirSheets == {Both(Sheet4, Two), Both(Grown, Two)}
MCSpots == {<<1, 0, 0>>, <<2, 1, 1>>}

MCTileTypes == "floor" :> [required |-> {"TileVisual", "TileEntityOwner"}, allowed |-> {}, lenient |-> FALSE]
        @@ "wall" :> [required |-> {"Position", "Look"},
                      allowed |-> {"TileVisual", "TileEntityOwner", "OccupiedCells", "Glow"}, lenient |-> FALSE]
MCKinds == "Position" :> ("x" :> "int") @@ "Look" :> ("hue" :> "int") @@ "Glow" :> ("hue" :> "int" @@ "far" :> "int")
        @@ "OccupiedCells" :> ("value" :> "array") @@ "TileVisual" :> ("alpha" :> "int") @@ "TileEntityOwner" :> <<>>
MCFieldOf == "Look.hue" :> <<"Look", "hue">> @@ "TileVisual.alpha" :> <<"TileVisual", "alpha">> @@ "Glow.hue" :> <<"Glow", "hue">>
          @@ "OccupiedCells.value" :> <<"OccupiedCells", "value">>
MCReadsAs == "int" :> {"1", "2"} @@ "float" :> {"1", "2"} @@ "bool" :> {"true", "false"} @@ "array" :> {"two cells", "none"}
MCFootprints == "two cells" :> {<<0, 0>>, <<1, 0>>}
MCPictures == {<<"tiles", "t">>, <<"a">>, <<"/", "b">>}
MCTurns == {[h |-> FALSE, v |-> FALSE, d |-> FALSE, hex |-> FALSE], [h |-> TRUE, v |-> FALSE, d |-> TRUE, hex |-> FALSE]}
MCHome == <<"maps">>
MCOthers == <<"c">>

-----------------------------------------------------------------------------
VARIABLE mode

\* Where the others are while one of them goes on.
MapsRest == doc = Idless
SpritesRest == toml = Absent /\ left = Budget(1, 0, 2, 1)
TextRests == text = NoImages
ReportsRest == file = NoText /\ disk = <<>>

ModesInit ==
  /\ mode \in {"map", "sprites", "text", "reports"}
  /\ Init /\ SyncInit /\ TiledInit /\ ReportInit
  /\ mode # "map" => MapsRest
  /\ mode # "sprites" => SpritesRest
  /\ mode # "text" => TextRests
  /\ mode # "reports" => ReportsRest

ModesNext ==
  \/ mode = "map" /\ Next /\ UNCHANGED <<mode, spriteSyncVars, tiledVars, reportVars>>
  \/ mode = "sprites" /\ SyncNext /\ UNCHANGED <<mode, vars, tiledVars, reportVars>>
  \/ mode = "text" /\ TiledNext /\ UNCHANGED <<mode, vars, spriteSyncVars, reportVars>>
  \/ mode = "reports" /\ ReportNext /\ UNCHANGED <<mode, vars, spriteSyncVars, tiledVars>>

ModesSpec ==
  ModesInit /\ [][ModesNext]_<<mode, vars, spriteSyncVars, tiledVars, reportVars>> /\ ReloadsGoOn

-----------------------------------------------------------------------------
(* Text reads as what it was written to say: a map in every way there is of
   writing it, and a tileset or a map that was edited, whatever the edits marked;
   and what TILES reads without finding fault is a tile the engine takes
   (packages tiled and tilesetvalidation). *)
FilesReadBack ==
  TextReadsBack /\ (mode = "reports" => ReadingsAgree /\ CleanTilesCanBePainted)

(* Edits of a map land where they were aimed, on the layer, the object or the
   cell of the menu; a stroke puts down the tile that was chosen; and links stay
   at the tiles they were made for (tilelinks.go, mapmenu.go, paint.go). *)
EditsLand == EditsLandWhereAimed /\ LinksAreKept /\ PaintedIsChosen
=============================================================================
