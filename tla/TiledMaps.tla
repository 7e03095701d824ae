------------------------------- MODULE TiledMaps ------------------------------
(***************************************************************************)
(* The reading half of package tiled: a map in either serialisation, the   *)
(* tilesets it names, and where each of its tiles is drawn.                *)
(*                                                                         *)
(* A file is what a reader of XML or JSON makes of its text: records and   *)
(* sequences, in the spelling of the one or the other.  The layers and     *)
(* folders of a file are one sequence of nodes in the order of the text,   *)
(* each with the folder it stands in (0 for the map itself).  Numbers,     *)
(* names and paths that are only carried are left out or are values.       *)
(*                                                                         *)
(* A global tile id is a word of 4 bytes: an id below Span and four flags. *)
(* In the code Byte = 256, Span = 2^28 and Most = 2^20.                    *)
(***************************************************************************)
EXTENDS Integers, Sequences, FiniteSets, Folds, SequencesExt, FiniteSetsExt

CONSTANTS Byte, Span, Most

ASSUME WordAssumption ==
  /\ Byte \in Nat \ {0} /\ Span \in Nat \ {0} /\ Most \in Nat
  /\ Byte * Byte * Byte * Byte = 16 * Span

Words == 0 .. 16 * Span - 1

-----------------------------------------------------------------------------
(* Tiles *)

Flag(raw, weight) == (raw \div (weight * Span)) % 2 = 1
TileOf(raw) ==
  [gid |-> (raw % Span), h |-> Flag(raw, 8), v |-> Flag(raw, 4), d |-> Flag(raw, 2), hex |-> Flag(raw, 1)]

Weigh(flag, weight) == IF flag THEN weight * Span ELSE 0
RawOf(t) == (t.gid % Span) + Weigh(t.h, 8) + Weigh(t.v, 4) + Weigh(t.d, 2) + Weigh(t.hex, 1)

NoTile == TileOf(0)
TileAt(layer, x, y) ==
  IF x < 0 \/ y < 0 \/ x >= layer.w \/ y >= layer.h THEN NoTile
  ELSE TileOf(layer.data[y * layer.w + x + 1])

-----------------------------------------------------------------------------
(* The data of a layer: the text it is written as, and read from *)

No == [ok |-> FALSE, is |-> <<>>]
Yes(is) == [ok |-> TRUE, is |-> is]

\* What stands between two commas.
Number(n) == [kind |-> "number", n |-> n]
Blank == [kind |-> "blank", n |-> 0]
Junk == [kind |-> "junk", n |-> 0]
IsWord(f) == f.kind = "number" /\ f.n \in Words

\* A text is what stands between its commas, and what it is if it is base64:
\* bytes, packed by something or not.
Packed(by, bytes) == [by |-> by, bytes |-> bytes]
Torn == Packed("torn", <<>>)
Fields(fields) == [fields |-> fields, packed |-> Torn]
Base64(packed) == [fields |-> <<Junk>>, packed |-> packed]

EncodeCSV(gids) == Fields(IF gids = <<>> THEN <<Blank>> ELSE [i \in DOMAIN gids |-> Number(gids[i])])
DecodeCSV(text) ==
  LET said == SelectSeq(text.fields, LAMBDA f : f.kind # "blank")
  IN  IF \A i \in DOMAIN said : IsWord(said[i]) THEN Yes([i \in DOMAIN said |-> said[i].n]) ELSE No

\* Faulty variant: the bytes the other way round.
BigEndian(w) ==
  <<w \div (Byte * Byte * Byte), (w \div (Byte * Byte)) % Byte, (w \div Byte) % Byte, (w % Byte)>>
LittleEndian(w) ==
  <<(w % Byte), (w \div Byte) % Byte, (w \div (Byte * Byte)) % Byte, w \div (Byte * Byte * Byte)>>
WordOf(b) == b[1] + Byte * b[2] + Byte * Byte * b[3] + Byte * Byte * Byte * b[4]

Compressions == {"", "zlib", "gzip"}
EncodeBase64(comp, gids) ==
  IF comp \in Compressions
  THEN Yes(Base64(Packed(comp, FlattenSeq([i \in DOMAIN gids |-> LittleEndian(gids[i])]))))
  ELSE No

\* sane: what a file says of itself, cut down.
Sane(cells) == IF cells < 0 THEN 0 ELSE IF cells > Most THEN Most ELSE cells
\* readBounded: one byte more than the layer should have is enough to see that
\* it is too long.
Bounded(bytes, cells) ==
  LET limit == 4 * Sane(cells) + 1
  IN  SubSeq(bytes, 1, IF Len(bytes) < limit THEN Len(bytes) ELSE limit)

DecodeBase64(comp, text, cells) ==
  LET packed == text.packed
      raw == IF comp = "" THEN packed.bytes ELSE Bounded(packed.bytes, cells)
  IN  IF comp \notin Compressions \/ packed.by # comp \/ Len(raw) % 4 # 0 THEN No
      ELSE Yes([i \in 1 .. Len(raw) \div 4 |-> WordOf(SubSeq(raw, 4 * i - 3, 4 * i))])

EncodeLayerData(enc, comp, gids) ==
  CASE enc = "csv" -> IF comp = "" THEN Yes(EncodeCSV(gids)) ELSE No
    [] enc = "base64" -> EncodeBase64(comp, gids)
    [] OTHER -> No
DecodeLayerData(enc, comp, text, cells) ==
  CASE enc = "csv" -> DecodeCSV(text)
    [] enc = "base64" -> DecodeBase64(comp, text, cells)
    [] OTHER -> No

\* A data element or member: <tile> elements, a list, a text, something else,
\* or none.
Data(form, enc, comp, text) == [form |-> form, enc |-> enc, comp |-> comp, text |-> text]

\* A list of numbers, or <tile> elements, of which one without a gid is empty.
Listed(text) ==
  LET said == text.fields
  IN  IF \A i \in DOMAIN said : IsWord(said[i]) \/ said[i] = Blank THEN Yes([i \in DOMAIN said |-> said[i].n]) ELSE No

XMLCells(data, cells) ==
  IF data.enc = "" THEN Listed(data.text) ELSE DecodeLayerData(data.enc, data.comp, data.text, cells)
JSONCells(data, cells) ==
  CASE data.form = "none" -> Yes(<<>>)
    [] data.form = "list" -> Listed(data.text)
    [] data.form = "text" ->
         DecodeLayerData(IF data.enc = "" THEN "base64" ELSE data.enc, data.comp, data.text, cells)
    [] OTHER -> No

-----------------------------------------------------------------------------
(* Properties *)

\* A property as it is written.  In XML, said is whether there is a value
\* attribute; what stands in the element is text, maybe escaped, or markup.  In
\* JSON the value is absent, a string, a whole number (9 or 9.0) or anything else.
XMLValue(p) == IF p.said \/ p.form # "markup" THEN p.means ELSE p.spelled
JSONValue(p) == IF p.form \in {"string", "whole"} THEN p.means ELSE p.spelled

\* convert: a name that is said twice has what was said last.
Properties(ps, value(_)) ==
  [name \in {ps[i].name : i \in DOMAIN ps} |->
     LET p == ps[CHOOSE i \in DOMAIN ps : ps[i].name = name /\ \A j \in DOMAIN ps : ps[j].name = name => j <= i]
     IN  [type |-> IF p.type = "" THEN "string" ELSE p.type, value |-> value(p)]]

TypeOr(o) == IF o.type = "" THEN o.class ELSE o.type

-----------------------------------------------------------------------------
(* Maps *)

\* firstMeaningfulByte: past one byte-order mark, then past white space.
FirstMeaningful(text) ==
  LET rest == IF text # <<>> /\ text[1] = "bom" THEN Tail(text) ELSE text
      said == SelectSeq(rest, LAMBDA c : c # "space")
  IN  IF said = <<>> THEN "" ELSE said[1]

FormatOf(file) ==
  LET first == FirstMeaningful(file.opening) IN
  CASE first = "{" -> "json" [] first = "<" -> "xml" [] OTHER -> "neither"

\* A node is read when everything above it is a folder, and shown when nothing
\* above it is hidden.
Reached(nodes) ==
  LET in[i \in DOMAIN nodes] ==
        LET p == nodes[i].in IN p = 0 \/ (nodes[p].kind = "group" /\ in[p])
  IN  in
Shown(nodes) ==
  LET shown[i \in DOMAIN nodes] ==
        LET p == nodes[i].in IN nodes[i].visible # "no" /\ (p = 0 \/ shown[p])
  IN  shown

\* The nodes of a kind that are read, in the order of the file.
OfKind(nodes, kinds) ==
  LET reached == Reached(nodes)
  IN  FlattenSeq([i \in DOMAIN nodes |-> IF reached[i] /\ nodes[i].kind \in kinds THEN <<i>> ELSE <<>>])

LayerKinds(format) == IF format = "xml" THEN {"layer"} ELSE {"tilelayer", ""}
CellsOf(format, n) == IF format = "xml" THEN XMLCells(n.data, n.w * n.h) ELSE JSONCells(n.data, n.w * n.h)
PropsOf(format, ps) == IF format = "xml" THEN Properties(ps, XMLValue) ELSE Properties(ps, JSONValue)

CheckLayer(format, file, n) ==
  LET cells == CellsOf(format, n)
  IN  /\ cells.ok /\ Len(cells.is) = n.w * n.h          \* checkCells
      /\ n.w = file.w /\ n.h = file.h                   \* checkLayerSize
CheckSize(file) == file.w >= 0 /\ file.h >= 0 /\ file.tw > 0 /\ file.th > 0

ConvertTileLayer(format, n, shown) ==
  [id |-> n.id, name |-> n.name, w |-> n.w, h |-> n.h, visible |-> shown,
   opacity |-> IF n.opacity = "unsaid" THEN "full" ELSE n.opacity,
   data |-> CellsOf(format, n).is, props |-> PropsOf(format, n.props)]

ConvertObject(format, o) ==
  [id |-> o.id, type |-> TypeOr(o), gid |-> o.gid, visible |-> o.visible # "no",
   props |-> PropsOf(format, o.props)]
ConvertObjectGroup(format, n, shown) ==
  [name |-> n.name, visible |-> shown, props |-> PropsOf(format, n.props),
   objects |-> [i \in DOMAIN n.objects |-> ConvertObject(format, n.objects[i])]]

Unresolved == <<>>
RefOf(ref) == [first |-> ref.first, source |-> ref.source, inside |-> ref.inside, sheet |-> Unresolved]

\* The root is said by XML, and may be by JSON; then it is the one it should be,
\* or JSON gives a map by its size alone.
IsMap(format, file) ==
  /\ file.wellFormed
  /\ \/ file.root = "map"
     \/ format = "json" /\ file.root = "" /\ file.w # 0 /\ file.h # 0
  /\ ~file.infinite

\* parseTMX, parseTMJ
Readable(file) ==
  LET format == FormatOf(file)
      layers == OfKind(file.nodes, LayerKinds(format))
  IN  /\ format # "neither"
      /\ IsMap(format, file) /\ CheckSize(file)
      /\ \A i \in DOMAIN layers : CheckLayer(format, file, file.nodes[layers[i]])

\* Parse, of a map that can be read.
Parse(file) ==
  LET format == FormatOf(file)
      shown == Shown(file.nodes)
      layers == OfKind(file.nodes, LayerKinds(format))
      groups == OfKind(file.nodes, {"objectgroup"})
  IN  [w |-> file.w, h |-> file.h, tw |-> file.tw, th |-> file.th, order |-> file.order,
       orientation |-> file.orientation,
       layers |-> [i \in DOMAIN layers |-> ConvertTileLayer(format, file.nodes[layers[i]], shown[layers[i]])],
       groups |-> [i \in DOMAIN groups |-> ConvertObjectGroup(format, file.nodes[groups[i]], shown[groups[i]])],
       tilesets |-> [i \in DOMAIN file.tilesets |-> RefOf(file.tilesets[i])],
       props |-> PropsOf(format, file.props)]

-----------------------------------------------------------------------------
(* Tilesets *)

IsCollection(ts) == ts.image.source = <<>>

\* A path is a sequence of names; one that starts at the root says so.
Join(dir, ref) ==
  FoldLeft(LAMBDA at, name : IF name = ".." /\ at # <<>> /\ Last(at) # ".." THEN Front(at) ELSE Append(at, name),
           dir, ref)
ResolvePath(dir, ref) ==
  IF ref = <<>> THEN <<>> ELSE IF ref[1] = "/" THEN ref ELSE Join(dir, ref)

ImageIn(dir, image) == [image EXCEPT !.path = ResolvePath(dir, image.source)]

CheckTileset(ts) ==
  /\ ts.tw > 0 /\ ts.th > 0 /\ ts.spacing >= 0 /\ ts.margin >= 0
  /\ IsCollection(ts) \/ (ts.columns > 0 /\ ts.count % ts.columns = 0)

TilesetReadable(file) ==
  LET format == FormatOf(file)
  IN  /\ format # "neither" /\ file.wellFormed
      /\ file.root = "tileset" \/ (format = "json" /\ file.root = "")
      /\ \A i, j \in DOMAIN file.tiles : i # j => file.tiles[i].id # file.tiles[j].id  \* addTile
      /\ CheckTileset(file)

\* ParseTileset, of a tileset that can be read.
ParseTileset(file, dir) ==
  [name |-> file.name, class |-> file.class, props |-> PropsOf(FormatOf(file), file.props),
   tw |-> file.tw, th |-> file.th, count |-> file.count, columns |-> file.columns,
   spacing |-> file.spacing, margin |-> file.margin, offset |-> file.offset,
   image |-> ImageIn(dir, file.image),
   tiles |-> [id \in {file.tiles[i].id : i \in DOMAIN file.tiles} |->
                LET t == file.tiles[CHOOSE i \in DOMAIN file.tiles : file.tiles[i].id = id]
                IN  [type |-> TypeOr(t), image |-> ImageIn(dir, t.image), props |-> PropsOf(FormatOf(file), t.props)]]]

\* ResolveTilesets, one reference: what is there stays; the images of a file are
\* relative to the file, those of a tileset inside the map to the map.
FileOf(ref, dir, disk) ==
  LET at == ResolvePath(dir, ref.source)
  IN  IF ref.source = <<>> THEN ref.inside ELSE IF at \in DOMAIN disk THEN disk[at] ELSE Unresolved
From(ref, dir) == IF ref.source = <<>> THEN dir ELSE Front(ResolvePath(dir, ref.source))
Opens(ref, dir, disk) ==
  \/ ref.sheet # Unresolved
  \/ LET file == FileOf(ref, dir, disk) IN file # Unresolved /\ TilesetReadable(file[1])
Resolved(ref, dir, disk) ==
  IF ref.sheet # Unresolved THEN ref
  ELSE [ref EXCEPT !.sheet = <<ParseTileset(FileOf(ref, dir, disk)[1], From(ref, dir))>>]

\* ResolveTilesets: in order, up to the first that does not open.
ResolveTilesets(m, dir, disk) ==
  [m EXCEPT !.tilesets = [i \in DOMAIN @ |->
     IF \A j \in 1..i : Opens(@[j], dir, disk) THEN Resolved(@[i], dir, disk) ELSE @[i]]]

\* TilesetFor: the one with the highest first id that is not above it, and of
\* two such the one named first; 0 if there is none.
Owners(m, gid) == {i \in DOMAIN m.tilesets : m.tilesets[i].first <= gid}
\* Faulty variant: the last that is named and does not start above it.
TilesetForLast(m, gid) == IF gid = 0 \/ Owners(m, gid) = {} THEN 0 ELSE Max(Owners(m, gid))
TilesetFor(m, gid) ==
  LET first(i) == m.tilesets[i].first
  IN  IF gid = 0 \/ Owners(m, gid) = {} THEN 0
      ELSE CHOOSE i \in Owners(m, gid) : \A j \in Owners(m, gid) :
             first(j) < first(i) \/ (first(j) = first(i) /\ i <= j)

-----------------------------------------------------------------------------
(* Drawing *)

Piece(image, x, y, w, h) == [image |-> image, x |-> x, y |-> y, w |-> w, h |-> h]
Refusal(why, set, gid) == [why |-> why, set |-> set, gid |-> gid]

HoldsTile(ts, local) == ~IsCollection(ts) /\ ts.columns > 0 /\ local < ts.count
SourceRect(ts, local) ==
  Piece(ts.image.path, ts.margin + (local % ts.columns) * (ts.tw + ts.spacing),
       ts.margin + (local \div ts.columns) * (ts.th + ts.spacing), ts.tw, ts.th)
OffTheSheet(ts, r) ==
  ts.image.w > 0 /\ ts.image.h > 0 /\ (r.x + r.w > ts.image.w \/ r.y + r.h > ts.image.h)

\* source: why a tile has no picture, or "".
NoPicture(ts, local) ==
  IF IsCollection(ts)
  THEN IF local \notin DOMAIN ts.tiles \/ ts.tiles[local].image.path = <<>> THEN "no image of its own" ELSE ""
  ELSE IF ts.image.path = <<>> THEN "no image"
  ELSE IF ~HoldsTile(ts, local) THEN "not in the sheet"
  ELSE IF OffTheSheet(ts, SourceRect(ts, local)) THEN "off the sheet" ELSE ""
Source(ts, local) ==
  IF IsCollection(ts) THEN LET i == ts.tiles[local].image IN Piece(i.path, 0, 0, i.w, i.h)
  ELSE SourceRect(ts, local)

\* Faulty variant: aligned by the height of the picture, however it is turned.
DrawnUpright(r, d) == r.h
DrawnHeight(r, d) == IF d THEN r.w ELSE r.h

\* drawOf: why there is nothing to draw, or "".
NoDraw(m, tile) ==
  LET i == TilesetFor(m, tile.gid)
      ref == m.tilesets[i]
  IN  IF i = 0 THEN Refusal("no tileset", 0, tile.gid)
      ELSE IF ref.sheet = Unresolved THEN Refusal("unresolved", i, 0)
      ELSE LET why == NoPicture(ref.sheet[1], tile.gid - ref.first)
           IN  Refusal(why, i, IF why \in {"no image", ""} THEN 0 ELSE tile.gid)
DrawOf(m, tile, x, y) ==
  LET ref == m.tilesets[TilesetFor(m, tile.gid)]
      ts == ref.sheet[1]
      r == Source(ts, tile.gid - ref.first)
  IN  [from |-> r, h |-> tile.h, v |-> tile.v, d |-> tile.d,
       x |-> x * m.tw + ts.offset[1],
       y |-> (y + 1) * m.th - DrawnHeight(r, tile.d) + ts.offset[2]]

\* Transform: the diagonal flip first, the others of what it leaves.
Transform(d) ==
  LET w == IF d.d THEN d.from.h ELSE d.from.w
      h == IF d.d THEN d.from.w ELSE d.from.h
      sx == IF d.h THEN -1 ELSE 1
      sy == IF d.v THEN -1 ELSE 1
  IN  [a |-> IF d.d THEN 0 ELSE sx, b |-> IF d.d THEN sx ELSE 0,
       c |-> IF d.d THEN sy ELSE 0, d |-> IF d.d THEN 0 ELSE sy,
       tx |-> d.x + (IF d.h THEN w ELSE 0), ty |-> d.y + (IF d.v THEN h ELSE 0)]
Carry(t, x, y) == <<t.a * x + t.b * y + t.tx, t.c * x + t.d * y + t.ty>>

Rightward(order) == order \notin {"left-down", "left-up"}
Downward(order) == order \notin {"right-up", "left-up"}
Order(n, forward) == [i \in 1..n |-> IF forward THEN i - 1 ELSE n - i]

\* placements: every cell with a tile of every layer that shows, drawn or refused.
Placement(m, i, x, y) ==
  LET tile == TileAt(m.layers[i], x, y)
      no == NoDraw(m, tile)
  IN  [cell |-> <<x, y>>, layer |-> i, problem |-> no,
       draw |-> IF no.why = "" THEN <<DrawOf(m, tile, x, y)>> ELSE <<>>]
PlacementIfAny(m, i, x, y) == IF TileAt(m.layers[i], x, y).gid = 0 THEN <<>> ELSE <<Placement(m, i, x, y)>>
LayerPlaces(m, i) ==
  LET xs == Order(m.layers[i].w, Rightward(m.order))
      ys == Order(m.layers[i].h, Downward(m.order))
  IN  FlattenSeq([r \in DOMAIN ys |-> FlattenSeq([c \in DOMAIN xs |-> PlacementIfAny(m, i, xs[c], ys[r])])])
Showing(layer) == layer.visible /\ layer.opacity # "none"
Placements(m, includeHidden) ==
  FlattenSeq([i \in DOMAIN m.layers |->
                IF includeHidden \/ Showing(m.layers[i]) THEN LayerPlaces(m, i) ELSE <<>>])

\* DrawList: what can be drawn, and each reason once with its first cell and how
\* many cells it spoils.
Count(ps, why) == Cardinality({i \in DOMAIN ps : ps[i].problem = why})
AddProblem(list, p) ==
  IF \E i \in DOMAIN list : list[i].why = p.problem
  THEN [i \in DOMAIN list |-> IF list[i].why = p.problem THEN [list[i] EXCEPT !.count = @ + 1] ELSE list[i]]
  ELSE Append(list, [why |-> p.problem, layer |-> p.layer, cell |-> p.cell, count |-> 1])
Drawn(m) == SelectSeq(Placements(m, FALSE), LAMBDA p : p.draw # <<>>)
Problems(m) == FoldLeft(AddProblem, <<>>, SelectSeq(Placements(m, FALSE), LAMBDA p : p.draw = <<>>))
=============================================================================
