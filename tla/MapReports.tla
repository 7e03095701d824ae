------------------------------ MODULE MapReports ------------------------------
(***************************************************************************)
(* One map and its tilesets, and what everybody makes of them: the engine, *)
(* which takes the map or refuses it; MAP, which draws what it can of it   *)
(* and marks the rest; TILES, which says of each tile whether it can be    *)
(* painted with.  They are different readers of the same files.            *)
(*                                                                         *)
(* A page is what MAP last sent: the map as it was then, its marks and its *)
(* palette.  Somebody may paint with the palette, and the tilesets may     *)
(* change behind the page.                                                 *)
(*                                                                         *)
(* meant is no variable of the program: it is the map the file was written *)
(* to hold, however it was written, as <<>> or <<m>>; nor is strokes, what *)
(* was painted where.  What is said of objects that are spawns is left to  *)
(* module MapImport.                                                       *)
(***************************************************************************)
EXTENDS TiledMaps

CONSTANTS Files,        \* [file, means]: files, and what they are meant to say
          FirstSheets, TheirSheets, \* what there is on disk, and may be: paths to tileset files
          Home,         \* the directory of the map
          OtherIds,     \* the identities of the project's other maps, one after another
          Spots,        \* bound: the cells painted, as layer, x, y
          Turns,        \* how a tile in hand is turned: records of h, v, d, hex
          Pictures,     \* the images that can be served
          TileTypes,    \* entity types: [required, allowed, lenient]
          Kinds,        \* components: their fields and what they hold, never a reference
          FieldOf,      \* names of properties that say Component.field
          ReadsAs,      \* kinds: the texts that read as one
          Footprints,   \* of those that read as JSON, what OccupiedCells may be: offsets
          PageSize,
          MaxPaints     \* bound: tiles painted

IsImage(image) == {"w", "h"} \subseteq DOMAIN image /\ {image.w, image.h} \subseteq Int
IsSheetFile(s) ==
  /\ {s.tw, s.th, s.offset[1], s.offset[2]} \subseteq Int
  /\ IsImage(s.image) /\ \A i \in DOMAIN s.tiles : IsImage(s.tiles[i].image)
IsMapFile(f) ==
  /\ {"w", "h", "tw", "th", "nodes", "tilesets"} \subseteq DOMAIN f /\ {f.w, f.h, f.tw, f.th} \subseteq Int
  /\ f.nodes \in Seq(ToSet(f.nodes))
  /\ \A i \in DOMAIN f.nodes : "id" \in DOMAIN f.nodes[i] /\ f.nodes[i].id \in Int
  /\ f.tilesets \in Seq(ToSet(f.tilesets))
  /\ \A i \in DOMAIN f.tilesets :
       /\ f.tilesets[i].first \in Int
       /\ f.tilesets[i].inside = Unresolved \/ IsSheetFile(f.tilesets[i].inside[1])
AreSheetFiles(on) == \A at \in DOMAIN on : on[at] = Unresolved \/ IsSheetFile(on[at][1])

ASSUME ReportFilesAssumption ==
  (\A f \in Files : IsMapFile(f.file)) /\ (\A on \in FirstSheets \cup TheirSheets : AreSheetFiles(on))
ASSUME FootprintsAssumption ==
  \A text \in DOMAIN Footprints : Footprints[text] # {} /\ Footprints[text] \subseteq Int \X Int

VARIABLES file, disk, meant, mapPage, strokes
reportVars == <<file, disk, meant, mapPage, strokes>>

-----------------------------------------------------------------------------
(* The engine *)

Said(props, name) == IF name \in DOMAIN props THEN props[name].value ELSE ""
TileProps(ts, local) == IF local \in DOMAIN ts.tiles THEN ts.tiles[local].props ELSE <<>>
Own(own, general) == IF own # "" THEN own ELSE general
EntityTypeOf(ts, local) == Own(Said(TileProps(ts, local), "entityType"), Said(ts.props, "entityType"))
KindOf(ts, local) == Own(IF local \in DOMAIN ts.tiles THEN ts.tiles[local].type ELSE "", ts.class)

CheckOrientation(m) == m.orientation \in {"", "orthogonal"}
MapID(path, m) == Own(Said(m.props, "mapId"), path)
Fills(m, layer) == layer.w = m.w /\ layer.h = m.h
CheckShape(m) == m.w > 0 /\ m.h > 0 /\ \A i \in DOMAIN m.layers : Fills(m, m.layers[i])

Holds(ts, local) == IF IsCollection(ts) THEN local \in DOMAIN ts.tiles ELSE local < ts.count

\* tileOf, stateOf and the picture, in this order: why the tile of a cell is
\* refused, or "".
CellRefusal(m, tile) ==
  LET i == TilesetFor(m, tile.gid)
      ref == m.tilesets[i]
      ts == ref.sheet[1]
      local == tile.gid - ref.first
  IN  CASE m.tilesets = <<>> -> "no tilesets at all"
        [] i = 0 -> "below every tileset"
        [] ref.sheet = Unresolved -> "never read"
        [] ~Holds(ts, local) -> "not held"
        [] "passable" \in DOMAIN TileProps(ts, local) \cup DOMAIN ts.props -> "passable"
        [] EntityTypeOf(ts, local) = "" -> "no entityType"
        [] OTHER -> NoDraw(m, tile).why

\* Component fields of a tile: its own, and its tileset's.
TemplateProps(ts, local) ==
  LET own == TileProps(ts, local)
  IN  [name \in (DOMAIN own \cup DOMAIN ts.props) \cap DOMAIN FieldOf |->
         IF name \in DOMAIN own THEN own[name] ELSE ts.props[name]]

LayerIdsAreGood(m) ==
  \A i, j \in DOMAIN m.layers : m.layers[i].id > 0 /\ (i # j => m.layers[i].id # m.layers[j].id)

\* LayerTilesOfTiled: every cell of every layer, shown or not, or a refusal.
TilesAreGood(m) ==
  LET all == Placements(m, TRUE)
  IN  CheckShape(m) /\ LayerIdsAreGood(m)
      /\ \A k \in DOMAIN all : CellRefusal(m, TileAt(m.layers[all[k].layer], all[k].cell[1], all[k].cell[2])) = ""
LayerTilesOfTiled(m, id) ==
  LET all == Placements(m, TRUE)
  IN  [k \in DOMAIN all |->
         LET p == all[k]
             layer == m.layers[p.layer]
             gid == TileAt(layer, p.cell[1], p.cell[2]).gid
             ref == m.tilesets[TilesetFor(m, gid)]
             local == gid - ref.first
         IN  [map |-> id, layer |-> layer.id, cell |-> p.cell, order |-> k, visible |-> layer.visible,
              kind |-> KindOf(ref.sheet[1], local), type |-> EntityTypeOf(ref.sheet[1], local),
              props |-> TemplateProps(ref.sheet[1], local),
              visual |-> [p.draw[1] EXCEPT !.x = @ - p.cell[1] * m.tw, !.y = @ - p.cell[2] * m.th]]]

\* readTiled
Takes(f, on) ==
  /\ Readable(f)
  /\ LET m == Parse(f) IN
       /\ CheckOrientation(m)
       /\ \A i \in DOMAIN m.tilesets : Opens(m.tilesets[i], Home, on)
       /\ TilesAreGood(ResolveTilesets(m, Home, on))
ReadTiled(f, on) ==
  LET m == ResolveTilesets(Parse(f), Home, on) IN LayerTilesOfTiled(m, MapID("the file", m))

\* ValidateTileTemplateField, and what spawnComponents makes of one field alone.
FieldReads(name, value) ==
  LET at == FieldOf[name]
  IN  /\ at[1] \in DOMAIN Kinds /\ at[1] # "Position"
      /\ at[2] \in DOMAIN Kinds[at[1]]
      /\ value \in ReadsAs[Kinds[at[1]][at[2]]]

\* The components a tile's entity is made with: what its fields name, what the
\* importer adds, and a place if the type wants one.
TemplateComponents(type, props) ==
  ({FieldOf[name][1] : name \in DOMAIN props} \cap DOMAIN Kinds)
    \cup {"TileVisual", "TileEntityOwner"} \cup ({"Position"} \cap TileTypes[type].required)
Missing(type, comps) == TileTypes[type].required \ comps
Foreign(type, comps) == comps \ (TileTypes[type].required \cup TileTypes[type].allowed)
MeetsContract(type, comps) ==
  comps \subseteq DOMAIN Kinds /\ (TileTypes[type].lenient \/ (Missing(type, comps) = {} /\ Foreign(type, comps) = {}))

\* ParseOccupiedCells: a footprint, all of it on the map.
OnMap(m, x, y) == x \in 0 .. m.w - 1 /\ y \in 0 .. m.h - 1
FootprintFits(props, m, x, y) ==
  \A name \in DOMAIN props : FieldOf[name] = <<"OccupiedCells", "value">> =>
    /\ props[name].value \in DOMAIN Footprints
    /\ \A by \in Footprints[props[name].value] : OnMap(m, x + by[1], y + by[2])

\* referencedTileComponents, of a tile in a cell: spawnCell, spawnComponents and
\* ValidateEntityCreation.
TemplateTaken(tile, m, x, y) ==
  /\ tile.type \in DOMAIN TileTypes
  /\ m.tw > 0 /\ m.th > 0 /\ OnMap(m, x, y)
  /\ \A name \in DOMAIN tile.props : FieldReads(name, tile.props[name].value)
  /\ FootprintFits(tile.props, m, x, y)
  /\ MeetsContract(tile.type, TemplateComponents(tile.type, tile.props))

\* insertObjectComponent, once for each component: none that the importer adds
\* itself, and with every field that may not be NULL.
RowsAreWhole(props) ==
  LET given == {FieldOf[name] : name \in DOMAIN props}
      comps == {at[1] : at \in given}
  IN  /\ comps \cap {"TileVisual", "TileEntityOwner"} = {}
      /\ \A c \in comps \cap DOMAIN Kinds : \A field \in DOMAIN Kinds[c] : <<c, field>> \in given
EntityMade(tile, m, x, y) == TemplateTaken(tile, m, x, y) /\ RowsAreWhole(tile.props)

-----------------------------------------------------------------------------
(* MAP *)

\* Preview: a reference that does not open leaves the others to be drawn.
Preview(f, on) ==
  LET m == Parse(f)
  IN  [m EXCEPT !.tilesets = [i \in DOMAIN @ |-> IF Opens(@[i], Home, on) THEN Resolved(@[i], Home, on) ELSE @[i]]]
BadRefs(f, on) == {i \in DOMAIN f.tilesets : ~Opens(RefOf(f.tilesets[i]), Home, on)}

\* An issue and the map, tileset, layer, cell or object it is about; indexes
\* are from 1.
Issue(kind, at, why) == [kind |-> kind, at |-> at, why |-> why, warning |-> FALSE]
Warning(kind, at, why) == [kind |-> kind, at |-> at, why |-> why, warning |-> TRUE]

\* Faulty variant: only what shows is looked at.
MapIssuesOfShown(m) ==
  {Issue("cell", at, CellRefusal(m, TileAt(m.layers[at[1]], at[2], at[3]))) :
     at \in {c \in (DOMAIN m.layers) \X (0 .. m.w - 1) \X (0 .. m.h - 1) :
        /\ m.layers[c[1]].visible
        /\ TileAt(m.layers[c[1]], c[2], c[3]).gid # 0
        /\ CellRefusal(m, TileAt(m.layers[c[1]], c[2], c[3])) # ""}}
MapIssues(m) ==
  (IF CheckOrientation(m) THEN {} ELSE {Issue("map", <<>>, "orientation")})
  \cup IF m.w <= 0 \/ m.h <= 0 THEN {Issue("map", <<>>, "size")}
       ELSE {Issue("layer", <<i>>, "size") : i \in {j \in DOMAIN m.layers : ~Fills(m, m.layers[j])}}
            \cup {Issue("cell", at, CellRefusal(m, TileAt(m.layers[at[1]], at[2], at[3]))) :
                    at \in {c \in (DOMAIN m.layers) \X (0 .. m.w - 1) \X (0 .. m.h - 1) :
                       /\ TileAt(m.layers[c[1]], c[2], c[3]).gid # 0
                       /\ CellRefusal(m, TileAt(m.layers[c[1]], c[2], c[3])) # ""}}

LayersWithId(m, id) == {i \in DOMAIN m.layers : m.layers[i].id = id}
LayerIdIssues(m) ==
  {Issue("layer", <<i>>, IF m.layers[i].id <= 0 THEN "no id" ELSE "shared id") :
     i \in {j \in DOMAIN m.layers : m.layers[j].id <= 0 \/ Cardinality(LayersWithId(m, m.layers[j].id)) > 1}}

IdentityIssues(m) ==
  LET id == Said(m.props, "mapId")
  IN  IF id = "" THEN {Warning("map", <<>>, "no mapId")}
      ELSE IF \E i \in DOMAIN OtherIds : OtherIds[i] = id THEN {Issue("map", <<>>, "shared mapId")} ELSE {}

TileLinkProps == {"TileLink.layerID", "TileLink.cells"}
ObjectsOf(m) == {at \in (DOMAIN m.groups) \X (1 .. 9) : at[2] \in DOMAIN m.groups[at[1]].objects}
ObjectAt(m, at) == m.groups[at[1]].objects[at[2]]
ObjectIssues(m) ==
  {Issue("object", at, "shared id") :
     at \in {a \in ObjectsOf(m) : \E b \in ObjectsOf(m) : a # b /\ ObjectAt(m, a).id = ObjectAt(m, b).id}}
  \cup {Issue("object", at, "a link without a class") :
     at \in {a \in ObjectsOf(m) :
               ObjectAt(m, a).type = "" /\ DOMAIN ObjectAt(m, a).props \cap TileLinkProps # {}}}

\* Build, but for what the schema says of spawns.
Build(m, refs) ==
  IdentityIssues(m) \cup {Issue("tileset", <<i>>, "does not open") : i \in refs}
    \cup LayerIdIssues(m) \cup MapIssues(m) \cup ObjectIssues(m)

-----------------------------------------------------------------------------
(* MAP's canvas *)

Steps == <<1, 2, 3, 4, 6, 8>>
FitCap == 4
BudgetW == 900
BudgetH == 640
FitScale(cols, rows, tw, th) ==
  IF cols <= 0 \/ rows <= 0 \/ tw <= 0 \/ th <= 0 THEN 1
  ELSE Max({1} \cup {s \in ToSet(Steps) : s <= FitCap /\ cols * tw <= BudgetW \div s /\ rows * th <= BudgetH \div s})
PaletteScale(tw) == IF tw <= 0 \/ tw >= 32 THEN 1 ELSE Min({32 \div tw, FitCap})

ShownLayerID(m, i) ==
  IF m.layers[i].id <= 0 \/ LayersWithId(m, m.layers[i].id) # {i} THEN 0 ELSE m.layers[i].id
AllEmpty(data) == \A k \in DOMAIN data : data[k] = 0
LayerRows(m) ==
  [i \in DOMAIN m.layers |->
     [id |-> ShownLayerID(m, i), hidden |-> ~m.layers[i].visible, empty |-> AllEmpty(m.layers[i].data),
      transparent |-> m.layers[i].opacity = "none"]]

\* A box of the canvas: the picture and its matrix, or a marker of a cell's size.
Box(m, p) ==
  IF p.draw = <<>> THEN [cell |-> p.cell, layer |-> p.layer, why |-> p.problem.why, from |-> <<>>,
                         matrix |-> [a |-> 1, b |-> 0, c |-> 0, d |-> 1,
                                     tx |-> p.cell[1] * m.tw, ty |-> p.cell[2] * m.th]]
  ELSE [cell |-> p.cell, layer |-> p.layer, why |-> "", from |-> <<p.draw[1].from>>,
        matrix |-> Transform(p.draw[1])]

\* What each tileset offers, in the order of the first ids.
Offers(ref) ==
  LET ts == ref.sheet[1]
      locals == IF IsCollection(ts) THEN {l \in DOMAIN ts.tiles : ts.tiles[l].image.path # <<>>}
                ELSE {l \in 0 .. ts.count - 1 : HoldsTile(ts, l)}
  IN  {[gid |-> ref.first + l, from |-> Source(ts, l)] : l \in locals}
Palette(m) ==
  LET ranked == SetToSortSeq(DOMAIN m.tilesets, LAMBDA i, j :
                  m.tilesets[i].first < m.tilesets[j].first \/ (m.tilesets[i].first = m.tilesets[j].first /\ i < j))
  IN  [k \in DOMAIN ranked |->
         LET ref == m.tilesets[ranked[k]]
         IN  IF ref.sheet = Unresolved THEN [first |-> ref.first, tiles |-> {}, problem |-> "never read"]
             ELSE [first |-> ref.first, tiles |-> Offers(ref),
                   problem |-> IF Offers(ref) = {} THEN "no pictures" ELSE ""]]

AllShown(m) == [m EXCEPT !.layers = [i \in DOMAIN @ |-> [@[i] EXCEPT !.visible = TRUE]]]
Canvas(m) ==
  LET places == Placements(AllShown(m), FALSE)
  IN  [rows |-> LayerRows(m), boxes |-> [k \in DOMAIN places |-> Box(m, places[k])],
       palette |-> Palette(m), scale |-> FitScale(m.w, m.h, m.tw, m.th), swatches |-> PaletteScale(m.tw)]

-----------------------------------------------------------------------------
(* The inspector of a cell *)

\* Inspect: the layer with an id, if there is exactly one, and its tile's template.
Inspected(m, id, x, y) ==
  LET layers == IF id <= 0 THEN {} ELSE LayersWithId(m, id)
      tile == TileAt(m.layers[CHOOSE i \in layers : TRUE], x, y)
      ref == m.tilesets[TilesetFor(m, tile.gid)]
      local == tile.gid - ref.first
      answer(kind, type) == [kind |-> kind, type |-> type]
  IN  CASE x < 0 \/ y < 0 \/ x >= m.w \/ y >= m.h -> answer("outside", "")
        [] layers = {} -> answer("no layer", "")
        [] Cardinality(layers) > 1 -> answer("shared id", "")
        [] tile.gid = 0 -> answer("empty", "")
        [] TilesetFor(m, tile.gid) = 0 -> answer("no tileset", "")
        [] ref.sheet = Unresolved -> answer("no tileset", "")
        [] EntityTypeOf(ref.sheet[1], local) = "" -> answer("no template", "")
        [] OTHER -> answer("tile", EntityTypeOf(ref.sheet[1], local))

-----------------------------------------------------------------------------
(* TILES *)

LocalIds(ts) == IF IsCollection(ts) THEN SetToSortSeq(DOMAIN ts.tiles, <) ELSE [n \in 1 .. ts.count |-> n - 1]

\* Why a tile has no picture on the page, or "".
Crop(ts, id) ==
  LET r == SourceRect(ts, id)
      own == ts.tiles[id].image
  IN  IF IsCollection(ts)
      THEN IF own.w <= 0 \/ own.h <= 0 THEN "no size" ELSE IF own.path \in Pictures THEN "" ELSE "unavailable"
      ELSE IF ts.image.w <= 0 \/ ts.image.h <= 0 THEN "no size"
      ELSE IF HoldsTile(ts, id) /\ OffTheSheet(ts, r) THEN "outside the sheet"
      ELSE IF HoldsTile(ts, id) /\ ts.image.path \in Pictures THEN "" ELSE "unavailable"

\* The page that is asked for, or the one the selected tile is on; a page and a
\* selection are <<>> or <<n>>.
Pages(ts) == IF LocalIds(ts) = <<>> THEN 0 ELSE 1 + ((Len(LocalIds(ts)) - 1) \div PageSize)
PageOf(ts, selected, asked) ==
  LET ids == LocalIds(ts)
      at == {n \in DOMAIN ids : selected # <<>> /\ ids[n] = selected[1]}
  IN  IF asked # <<>> THEN asked[1] ELSE IF at = {} THEN 0 ELSE ((CHOOSE n \in at : TRUE) - 1) \div PageSize
Surface(ts, selected, asked) ==
  LET ids == LocalIds(ts)
      bad == asked # <<>> /\ asked[1] >= Pages(ts)
      first == PageOf(ts, selected, asked) * PageSize
      last == Min({first + PageSize, Len(ids)})
      unknown == selected # <<>> /\ selected[1] \notin ToSet(ids)
  IN  IF (~IsCollection(ts) /\ ts.count > 16 * Span) \/ ids = <<>> \/ bad
      THEN [tiles |-> {}, selected |-> <<>>, refused |-> bad \/ ids # <<>> \/ selected # <<>>]
      ELSE [tiles |-> {ids[n] : n \in first + 1 .. last},
            selected |-> IF unknown THEN <<>> ELSE IF selected = <<>> THEN <<ids[first + 1]>> ELSE selected,
            refused |-> unknown]

Finding(at, why) == [at |-> at, why |-> why]

\* validateProperties
\* Faulty variant: what the game refuses is not looked for.
PropFindingsTyped(at, props) ==
  {Finding(at, "reads as no " \o props[name].type) :
     name \in {n \in DOMAIN props \ ({"entityType"} \cup DOMAIN FieldOf) :
                 /\ props[n].type \in {"int", "float", "bool"}
                 /\ props[n].value \notin ReadsAs[props[n].type]}}
PropFindings(at, props) ==
  {Finding(at, "passable") : name \in {"passable"} \cap DOMAIN props}
  \cup {Finding(at, "reads as no " \o props[name].type) :
          name \in {n \in DOMAIN props \ ({"entityType"} \cup DOMAIN FieldOf) :
                      /\ props[n].type \in {"int", "float", "bool"}
                      /\ props[n].value \notin ReadsAs[props[n].type]}}

TemplateFindings(ts, id) ==
  LET type == EntityTypeOf(ts, id)
      props == TemplateProps(ts, id)
  IN  (IF type = "" THEN {"no entityType"} ELSE IF type \notin DOMAIN TileTypes THEN {"unknown entityType"}
       ELSE IF MeetsContract(type, TemplateComponents(type, props)) THEN {} ELSE {"components"})
      \cup {"field" : name \in {n \in DOMAIN props : ~FieldReads(n, props[n].value)}}

\* Check, of what a page shows; the errors of a tile are those at its id and
\* those of its tileset.
Check(ts, view, ambiguous) ==
  LET ids == view.tiles \cup ToSet(view.selected)
  IN  PropFindings(<<>>, ts.props)
      \cup {Finding(<<id>>, "both type and class") : id \in ids \cap ambiguous}
      \cup {Finding(<<id>>, Crop(ts, id)) : id \in {i \in ids : Crop(ts, i) # ""}}
      \cup (UNION {PropFindings(<<id>>, TileProps(ts, id)) : id \in ids})
      \cup UNION {{Finding(<<id>>, why) : why \in TemplateFindings(ts, id)} : id \in ids}

-----------------------------------------------------------------------------
(* What happens *)

NoPage == <<>>
PageNow == LET m == Preview(file, disk) IN [map |-> m, issues |-> Build(m, BadRefs(file, disk)), canvas |-> Canvas(m)]

ReportInit ==
  /\ disk \in FirstSheets
  /\ \E f \in Files : file = f.file /\ meant = f.means
  /\ mapPage = NoPage /\ strokes = <<>>

\* addMapData: the page is made of the map as it stands.
RenderMap ==
  /\ Readable(file) /\ mapPage # <<PageNow>>
  /\ mapPage' = <<PageNow>>
  /\ UNCHANGED <<file, disk, meant, strokes>>

\* SetLayerData, of a file with a tile of the palette in one cell; only XML is
\* opened to be edited.
Recoded(data, gids) ==
  LET text == EncodeLayerData(data.enc, data.comp, gids)
  IN  IF data.enc = "" THEN [data EXCEPT !.text = Fields([i \in DOMAIN gids |-> Number(gids[i])])]
      ELSE [data EXCEPT !.text = text.is]
Writes(data) == data.form # "none" /\ (data.enc = "" \/ EncodeLayerData(data.enc, data.comp, <<>>).ok)

PaintTile(layer, x, y, tile, turn) ==
  LET node == OfKind(file.nodes, {"layer"})[layer]
      cells == Parse(file).layers[layer].data
      raw == RawOf([gid |-> tile.gid, h |-> turn.h, v |-> turn.v, d |-> turn.d, hex |-> turn.hex])
      k == y * mapPage[1].map.w + x + 1
      gids == [cells EXCEPT ![k] = raw]
  IN  /\ Len(strokes) < MaxPaints /\ FormatOf(file) = "xml"
      /\ Writes(file.nodes[node].data)
      /\ file' = [file EXCEPT !.nodes[node].data = Recoded(@, gids)]
      /\ meant' = <<[meant[1] EXCEPT !.layers[layer].data[k] = raw]>>
      /\ strokes' = Append(strokes, [layer |-> layer, x |-> x, y |-> y, tile |-> tile, turn |-> turn])
      /\ UNCHANGED <<disk, mapPage>>
PaintSome ==
  /\ mapPage # NoPage /\ mapPage[1].canvas.palette # <<>>
  /\ \E spot \in Spots, turn \in Turns, k \in DOMAIN mapPage[1].canvas.palette :
       \E tile \in mapPage[1].canvas.palette[k].tiles : PaintTile(spot[1], spot[2], spot[3], tile, turn)

\* Somebody changes a tileset.
TheyChange ==
  /\ disk' \in TheirSheets \ {disk}
  /\ UNCHANGED <<file, meant, mapPage, strokes>>

ReportNext == RenderMap \/ PaintSome \/ TheyChange
ReportSpec == ReportInit /\ [][ReportNext]_reportVars

-----------------------------------------------------------------------------
(* Properties *)

(* Whatever way a map is written -- in XML or in JSON, as elements, lists, text
   or bytes, packed or not, in folders or not, and written by Forge since -- it
   reads as the map it was meant to be, and a file that was never a map is
   refused.  Parse and its two parsers, decodeLayerData, encodeLayerData. *)
ReadingsAgree ==
  /\ Readable(file) <=> meant # <<>>
  /\ meant # <<>> => Parse(file) = meant[1]

UpToDate == Readable(file) /\ mapPage = <<PageNow>>

(* A page without an error on the map, a tileset, a layer or a cell is of a map
   the engine takes, and only such a page: MAP looks at a map that may be half
   open and at every cell on its own, the engine stops at the first fault.  That
   another map has the same identity is no fault of this one.
   mapvalidation.Build, MapIssues and readTiled. *)
Errors(issues) ==
  {i \in issues : ~i.warning /\ i.kind \in {"map", "tileset", "layer", "cell"} /\ i.why # "shared mapId"}
MarksAreTheEngines == UpToDate => (Errors(mapPage[1].issues) = {} <=> Takes(file, disk))

\* Tiled's order of the flips: the diagonal first, then the others about what it
\* leaves, then the move.
Flipped(r, t, x, y) ==
  LET w == IF t.d THEN r.h ELSE r.w
      h == IF t.d THEN r.w ELSE r.h
      x1 == IF t.d THEN y ELSE x
      y1 == IF t.d THEN x ELSE y
  IN  <<IF t.h THEN w - x1 ELSE x1, IF t.v THEN h - y1 ELSE y1>>

(* A box of the canvas covers its cell from the bottom left, moved by what its
   tileset says and whatever the size of the picture and however it is turned,
   and its picture is turned in Tiled's order.  drawOf, drawnHeight, Transform. *)
StandsOnItsCell(m, box) ==
  LET tile == TileAt(m.layers[box.layer], box.cell[1], box.cell[2])
      offset == m.tilesets[TilesetFor(m, tile.gid)].sheet[1].offset
      r == box.from[1]
      height == IF tile.d THEN r.w ELSE r.h
  IN  \A x \in {0, r.w}, y \in {0, r.h} :
        LET at == Flipped(r, tile, x, y) IN
          Carry(box.matrix, x, y) =
            <<box.cell[1] * m.tw + offset[1] + at[1],
              (box.cell[2] + 1) * m.th + offset[2] - height + at[2]>>
BoxesStandOnTheirCells ==
  mapPage # NoPage =>
    \A k \in DOMAIN mapPage[1].canvas.boxes :
      LET box == mapPage[1].canvas.boxes[k] IN box.from # <<>> => StandsOnItsCell(mapPage[1].map, box)

(* What MAP shows is so: its marks are what the engine would refuse, and its
   pictures stand where the engine draws them (mapvalidation, mapcanvas). *)
PagesTellTheTruth == MarksAreTheEngines /\ BoxesStandOnTheirCells

\* The ids of the tilesets do not overlap, and leave room for the flags.
Size(ts) == IF IsCollection(ts) THEN (IF DOMAIN ts.tiles = {} THEN 0 ELSE Max(DOMAIN ts.tiles) + 1) ELSE ts.count
RangesApart(m) ==
  \A i \in DOMAIN m.tilesets :
    /\ m.tilesets[i].first > 0
    /\ m.tilesets[i].sheet # Unresolved => m.tilesets[i].first + Size(m.tilesets[i].sheet[1]) <= Span
    /\ \A j \in DOMAIN m.tilesets \ {i} :
         /\ m.tilesets[i].first # m.tilesets[j].first
         /\ m.tilesets[i].first < m.tilesets[j].first /\ m.tilesets[i].sheet # Unresolved =>
              m.tilesets[i].first + Size(m.tilesets[i].sheet[1]) <= m.tilesets[j].first

(* A stroke with a tile of the palette puts that tile there and no other: the
   map as it is read next draws, in that cell of that layer, the picture the
   palette showed, turned as it was in hand -- or marks it, if the picture is
   not whole -- as long as the tilesets do not overlap and are those of the
   page.  palette, Tile.Raw, SetLayerData and TilesetFor. *)
LandsAs(stroke, m) ==
  LET landed == TileAt(m.layers[stroke.layer], stroke.x, stroke.y)
      no == NoDraw(m, landed)
      drawn == DrawOf(m, landed, stroke.x, stroke.y)
  IN  IF no.why # "" THEN no.why = "off the sheet"
      ELSE /\ drawn.from = stroke.tile.from
           /\ drawn.h = stroke.turn.h /\ drawn.v = stroke.turn.v /\ drawn.d = stroke.turn.d
PaintedIsChosen ==
  [][strokes' # strokes /\ RangesApart(mapPage[1].map) /\ mapPage[1].map.tilesets = Preview(file, disk).tilesets =>
       \A m \in {Preview(file', disk')} : LandsAs(Last(strokes'), m)]_reportVars

(* A tile that TILES finds no fault with can be painted where its footprint lies
   on the map, if its template fills the components it names.  The engine takes
   the cell, and makes the entity in exactly those cells; all else an importer
   could refuse has been found.  The rest TILES does not look for: it knows no
   cell to check OccupiedCells against, as spawn.go:971 says, nor what else is to
   be a footprint than JSON; and a component with a field left out, or one the
   importer adds itself, is refused only by the tables (ValidateSpawnFields says
   so of spawns, and is not asked of templates).  Every tile has a page on which it
   can be seen.  Check, tilesurface.Build, against tileOf, stateOf, source,
   referencedTileComponents and insertObjectComponent. *)
CleanTilesCanBePainted ==
  Readable(file) =>
    LET m == Preview(file, disk) IN
      \A i \in DOMAIN m.tilesets : m.tilesets[i].sheet # Unresolved =>
        LET ts == m.tilesets[i].sheet[1] IN
          \A n \in DOMAIN LocalIds(ts) :
            LET id == LocalIds(ts)[n]
                view == Surface(ts, <<id>>, <<>>)
                gid == m.tilesets[i].first + id
                found == {f \in Check(ts, view, {}) : f.at \in {<<>>, <<id>>}}
            IN  /\ ~view.refused /\ id \in view.tiles
                /\ found = {} /\ TilesetFor(m, gid) = i =>
                     LET tile == [type |-> EntityTypeOf(ts, id), props |-> TemplateProps(ts, id)]
                     IN  /\ CellRefusal(m, TileOf(gid)) = ""
                         /\ m.tw > 0 /\ m.th > 0 =>
                              \A x \in 0 .. m.w - 1, y \in 0 .. m.h - 1 :
                                EntityMade(tile, m, x, y) <=>
                                  FootprintFits(tile.props, m, x, y) /\ RowsAreWhole(tile.props)
=============================================================================
