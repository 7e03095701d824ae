------------------------------- MODULE MapImport -------------------------------
(***************************************************************************)
(* Loading a Tiled map into the database when the engine starts: the tiles *)
(* (SyncLayerTiles), the spawns (SyncSpawns) and the links between them    *)
(* (syncTileReferences), each in transactions of its own, with the engine  *)
(* killed between any two of them, the file edited between two loads, and  *)
(* machines changing the world while the game runs.                        *)
(*                                                                         *)
(* A file is [path, id, objects, tiles].  id is its mapId property, or     *)
(* NoId.  An object is [id, class, at, comps, links]: comps maps the       *)
(* components its properties author to the fields they give, links is the  *)
(* cells its TileLink names.  tiles maps a painted cell to                 *)
(* [type, own, comps]: the entity type of its art, the values the Tile     *)
(* itself is given, and the components the art is given.                   *)
(*                                                                         *)
(* The database db is [ents, spawns, art, next]: ents maps an id to        *)
(* [type, comps], spawns a pair <<map, object>> to [ent, authored], art    *)
(* (tile_art_components) an art entity to what the file authored on it.    *)
(* next is the AUTOINCREMENT counter.  A Tile's three components are one,  *)
(* "Tile", with its references.                                            *)
(***************************************************************************)
EXTENDS Integers, Sequences, FiniteSets, SequencesExt

CONSTANTS Types,        \* entity type -> [required, allowed, lenient]
          Fields,       \* component -> its fields, none of them nullable
          Files,        \* what the author may leave on disk
          CellSeq,      \* the cells, in drawing order
          Databases,    \* what the first load may find
          RuntimeComps, FieldValues,     \* what machines attach, detach and write
          NoId, NoClass, Unknown,
          MaxStarts, MaxRuntime          \* bounds

-----------------------------------------------------------------------------
(* What a database of the importer's is like *)

IsFn(f) == f = [x \in DOMAIN f |-> f[x]]
Owned(r) == "TileEntityOwner" \in DOMAIN r.comps
Target(r) == r.comps["TileEntityOwner"].target
Place(r) == <<r.comps["Tile"].map, r.comps["Tile"].cell>>

\* Tiles have a place, and they and what is made by hand belong to no tile.
IsEnt(r) ==
  /\ {"type", "comps"} \subseteq DOMAIN r /\ IsFn(r) /\ IsFn(r.comps)
  /\ r.type = "Tile" => "Tile" \in DOMAIN r.comps /\ {"map", "cell"} \subseteq DOMAIN r.comps["Tile"]
  /\ r.type \in {"Tile", "ByHand"} => ~Owned(r)

\* What is neither a tile nor made by hand is the one art of a tile, or has a row.
Claimed(d, e) ==
  LET r == d.ents[e]
  IN  IF Owned(r)
      THEN /\ Target(r) \in DOMAIN d.ents /\ d.ents[Target(r)].type = "Tile"
           /\ \A a \in DOMAIN d.ents : Owned(d.ents[a]) /\ Target(d.ents[a]) = Target(r) => a = e
      ELSE \E k \in DOMAIN d.spawns : d.spawns[k].ent = e

\* A row is of one entity, which is neither a tile nor art, and no other row's.
IsRow(d, k) ==
  /\ k = <<k[1], k[2]>> /\ {"ent", "authored"} \subseteq DOMAIN d.spawns[k]
  /\ LET e == d.spawns[k].ent
     IN  e \in DOMAIN d.ents /\ d.ents[e].type \notin {"Tile", "ByHand"} /\ ~Owned(d.ents[e])
  /\ \A l \in DOMAIN d.spawns : d.spawns[l].ent = d.spawns[k].ent => l = k

Tidy(d) ==
  /\ {"ents", "spawns", "art", "next"} \subseteq DOMAIN d
  /\ IsFiniteSet(DOMAIN d.ents) /\ d.next \in Int /\ \A e \in DOMAIN d.ents : e \in Int /\ e < d.next
  /\ \A e \in DOMAIN d.ents : IsEnt(d.ents[e])
  /\ \A e \in DOMAIN d.ents : d.ents[e].type \notin {"Tile", "ByHand"} => Claimed(d, e)
  /\ \A k \in DOMAIN d.spawns : IsRow(d, k)
  /\ \A t, u \in DOMAIN d.ents :
       d.ents[t].type = "Tile" /\ d.ents[u].type = "Tile" /\ Place(d.ents[t]) = Place(d.ents[u]) => t = u

\* What a row is of has all fields of its components.
Full(comps) == \A c \in DOMAIN comps : Fields[c] \subseteq DOMAIN comps[c]
Filled(d) == \A k \in DOMAIN d.spawns : Full(d.ents[d.spawns[k].ent].comps)

\* Tiles and who they belong to are the importer's: no file and no machine gives
\* an entity an owner, or makes a Tile.
FileIsOfSpawns(f) ==
  /\ f.objects \in Seq(ToSet(f.objects))
  /\ \A o \in ToSet(f.objects) : o.class \notin {"Tile", "ByHand"} /\ "TileEntityOwner" \notin DOMAIN o.comps
  /\ \A c \in DOMAIN f.tiles : f.tiles[c].type \notin {"Tile", "ByHand"}
ASSUME ImportAssumption ==
  /\ \A d \in Databases : Tidy(d) /\ Filled(d)
  /\ \A f \in Files : FileIsOfSpawns(f)
  /\ RuntimeComps \cap {"Tile", "TileEntityOwner"} = {}
  /\ CellSeq \in Seq(ToSet(CellSeq))

VARIABLES db, file, pc, at, refused, starts, changes
vars == <<db, file, pc, at, refused, starts, changes>>

\* What f says, and g where f says nothing.
Over(f, g) == [x \in DOMAIN f \cup DOMAIN g |-> IF x \in DOMAIN f THEN f[x] ELSE g[x]]
Just(x, v) == [y \in {x} |-> v]
Without(f, S) == [x \in DOMAIN f \ S |-> f[x]]

Key == IF file.id = NoId THEN file.path ELSE file.id
Painted == DOMAIN file.tiles
Object(i) == file.objects[i]
Objects == ToSet(file.objects)
Spawnable(o) == o.class # NoClass

\* What spawnComponents makes of an object: its place is a component too.
Authored(o) == Over(Just("Position", [at |-> o.at]), o.comps)

\* ValidateEntityCreation.
Allowed(type, comps) ==
  /\ type \in DOMAIN Types
  /\ Types[type].lenient \/ /\ Types[type].required \subseteq comps
                            /\ comps \subseteq Types[type].required \cup Types[type].allowed

\* An INSERT needs every field of the component; an UPDATE takes what there is.
Whole(comps, c) == DOMAIN comps[c] = Fields[c]

-----------------------------------------------------------------------------
(* world.Tx *)

Insert(d, type, comps) ==
  [d EXCEPT !.ents = Over(Just(d.next, [type |-> type, comps |-> comps]), @), !.next = @ + 1]

\* The art a Tile owns: the entity whose TileEntityOwner points at it.
ArtOf(d, t) == {e \in DOMAIN d.ents : /\ "TileEntityOwner" \in DOMAIN d.ents[e].comps
                                      /\ d.ents[e].comps["TileEntityOwner"].target = t}

Unowned(e, gone) ==
  [e EXCEPT !.comps = Without(e.comps, {c \in DOMAIN e.comps \cap {"TileEntityOwner"} : e.comps[c].target \in gone})]

\* The spawn row, the art row and the components that refer to it go with it.
DeleteAll(d, gone) ==
  [d EXCEPT
     !.ents = [e \in DOMAIN d.ents \ gone |-> Unowned(d.ents[e], gone)],
     !.spawns = Without(d.spawns, {k \in DOMAIN d.spawns : d.spawns[k].ent \in gone}),
     !.art = Without(d.art, gone)]

Record(d, key, ent, authored) ==
  [d EXCEPT !.spawns = Over(Just(key, [ent |-> ent, authored |-> authored]), @)]
Forget(d, keys) == [d EXCEPT !.spawns = Without(d.spawns, keys)]

\* SetComponentValues where the component is there, AttachComponent where it
\* is not.
Written(comps, given) ==
  [c \in DOMAIN comps \cup DOMAIN given |->
     IF c \notin DOMAIN given THEN comps[c]
     ELSE IF c \notin DOMAIN comps THEN given[c] ELSE Over(given[c], comps[c])]
Rewrite(comps, given) == Written(comps, given)

CanRewrite(comps, given) == \A c \in DOMAIN given \ DOMAIN comps : Whole(given, c)

Differs(comps, given) ==
  \E c \in DOMAIN given : \/ c \notin DOMAIN comps
                          \/ \E f \in DOMAIN given[c] : comps[c][f] # given[c][f]

\* Faulty variant: whatever the file does not say goes.
NotGiven(authored, given, type) == (DOMAIN Fields \ DOMAIN given) \ Types[type].required
\* Once authored, not authored any more, and not locked by the type.
NoLonger(authored, given, type) ==
  IF authored = Unknown THEN {} ELSE (authored \ DOMAIN given) \ Types[type].required

-----------------------------------------------------------------------------
(* What LoadMap refuses before it writes anything *)

Linked(o) == o.links # {}
LinksTo(c) == {o \in Objects : c \in o.links}
ProvidesVisual(o) == "TileVisual" \in DOMAIN o.comps

\* A link of the tile's own type supplies its art, and the tile owns none.
Shared(c) == \E o \in LinksTo(c) : o.class = file.tiles[c].type

\* ValidateSpawn and ValidateSpawnFields.
ValidSpawn(o) == Allowed(o.class, DOMAIN Authored(o)) /\ \A c \in DOMAIN Authored(o) : Whole(Authored(o), c)

WellFormed ==
  /\ \A i \in DOMAIN file.objects : Linked(Object(i)) =>
       /\ \A j \in DOMAIN file.objects : Object(j).id = Object(i).id => j = i
       /\ Object(i).links \subseteq Painted
       /\ ValidSpawn(Object(i))
  /\ \A c \in Painted : Shared(c) =>
       \E o \in LinksTo(c) : o.class = file.tiles[c].type /\ ProvidesVisual(o)
  /\ \A o \in Objects : ProvidesVisual(o) =>
       \A c, b \in o.links : (file.tiles[c].type = o.class /\ file.tiles[b].type = o.class) =>
          file.tiles[c].comps["TileVisual"] = file.tiles[b].comps["TileVisual"]

-----------------------------------------------------------------------------
(* SyncLayerTiles *)

IsTile(d, e) == d.ents[e].type = "Tile"
MapOf(d, t) == d.ents[t].comps["Tile"].map
OurTiles(d) == {t \in DOMAIN d.ents : IsTile(d, t) /\ MapOf(d, t) \in {Key, file.path}}
TilesAt(d, c) == {t \in OurTiles(d) : d.ents[t].comps["Tile"].cell = c}

\* The components of the art of a painted cell: its template's, and its owner.
ArtComps(c, t) == Over(Just("TileEntityOwner", [target |-> t]), file.tiles[c].comps)
Art(d, t) == CHOOSE a \in ArtOf(d, t) : TRUE

\* What the file says of the Tile itself.
TileSays(c) == [map |-> Key, cell |-> c, own |-> file.tiles[c].own]
SetTile(d, t, c) == [d EXCEPT !.ents[t].comps["Tile"] = Over(TileSays(c), @)]
Refer(d, t, refs) == [d EXCEPT !.ents[t].comps["Tile"].refs = refs]

AddArt(d, t, c) ==
  LET a == d.next
      made == Insert(d, file.tiles[c].type, ArtComps(c, t))
  IN  Refer([made EXCEPT !.art = Over(Just(a, DOMAIN ArtComps(c, t)), @)], t, <<a>>)

ArtIsFile(d, t, c) ==
  LET a == Art(d, t)
      comps == d.ents[a].comps
      authored == IF a \in DOMAIN d.art THEN d.art[a] ELSE Unknown
  IN  /\ ArtOf(d, t) # {} /\ d.ents[a].type = file.tiles[c].type
      /\ ~Differs(comps, ArtComps(c, t)) /\ authored = DOMAIN ArtComps(c, t)

TileIsFile(d, t, c) ==
  /\ \A f \in {"map", "own"} : d.ents[t].comps["Tile"][f] = TileSays(c)[f]
  /\ IF Shared(c) THEN ArtOf(d, t) = {} ELSE ArtIsFile(d, t, c)

UpdateArt(d, t, c) ==
  LET a == Art(d, t)
      type == file.tiles[c].type
      old == d.ents[a].comps
      gone == NoLonger(IF a \in DOMAIN d.art THEN d.art[a] ELSE Unknown, ArtComps(c, t), type)
  IN  IF ArtOf(d, t) = {} \/ d.ents[a].type # type
        THEN AddArt(DeleteAll(d, ArtOf(d, t)), t, c)
        ELSE [d EXCEPT !.ents[a].comps = Rewrite(Without(old, gone), ArtComps(c, t)),
                       !.art = Over(Just(a, DOMAIN ArtComps(c, t)), @)]

PaintCell(d, c) ==
  IF c \notin Painted THEN DeleteAll(d, TilesAt(d, c) \cup UNION {ArtOf(d, t) : t \in TilesAt(d, c)})
  ELSE IF TilesAt(d, c) = {}
    THEN LET placed == Insert(d, "Tile", Just("Tile", Over(TileSays(c), [refs |-> <<>>])))
         IN  IF Shared(c) THEN placed ELSE AddArt(placed, d.next, c)
  ELSE LET t == CHOOSE x \in TilesAt(d, c) : TRUE
           set == SetTile(d, t, c)
       IN  IF TileIsFile(d, t, c) THEN d
           ELSE IF ~Shared(c) THEN UpdateArt(set, t, c)
           ELSE IF ArtOf(d, t) = {} THEN set
           ELSE Refer(DeleteAll(set, ArtOf(d, t)), t, <<>>)

\* Two tiles claim one cell, one under the path and one under the id; art that
\* has lost its picture; an INSERT the template cannot satisfy.
TilesRefused ==
  \/ \E c \in ToSet(CellSeq) : Cardinality(TilesAt(db, c)) > 1
  \/ \E t \in OurTiles(db) : \E a \in ArtOf(db, t) : "TileVisual" \notin DOMAIN db.ents[a].comps
  \/ \E c \in Painted :
       LET comps == ArtComps(c, 0)
           t == CHOOSE x \in TilesAt(db, c) : TRUE
           kept == TilesAt(db, c) # {} /\ ArtOf(db, t) # {} /\ db.ents[Art(db, t)].type = file.tiles[c].type
       IN  /\ ~Shared(c)
           /\ \/ ~Allowed(file.tiles[c].type, DOMAIN comps)
              \/ ~CanRewrite(IF kept THEN db.ents[Art(db, t)].comps ELSE <<>>, comps)

-----------------------------------------------------------------------------
(* SyncSpawns *)

\* adoptSpawns: rows filed under the path move to the id; where the id has
\* one already, the path's entity is a duplicate.
Adopt(d) ==
  LET old == {k \in DOMAIN d.spawns : k[1] = file.path}
      taken == {k \in old : <<Key, k[2]>> \in DOMAIN d.spawns}
      moved == [k \in {<<Key, k[2]>> : k \in old \ taken} |-> d.spawns[<<file.path, k[2]>>]]
      kept == DeleteAll(d, {d.spawns[k].ent : k \in taken})
  IN  IF Key = file.path THEN d
      ELSE [kept EXCEPT !.spawns = Over(moved, Without(kept.spawns, old))]

RowOf(o) == <<Key, o.id>>
Live(d, o) == RowOf(o) \in DOMAIN d.spawns
EntityOf(d, o) == d.ents[d.spawns[RowOf(o)].ent]
Repeats(i) == \E j \in 1..(i - 1) : Spawnable(Object(j)) /\ Object(j).id = Object(i).id
Accepted(o) == Allowed(o.class, DOMAIN Authored(o))
OtherClass(d, o) == Live(d, o) /\ EntityOf(d, o).type # o.class

Removed(d, o) == NoLonger(d.spawns[RowOf(o)].authored, Authored(o), o.class)
SpawnIsFile(d, o) ==
  /\ ~Differs(EntityOf(d, o).comps, Authored(o))
  /\ d.spawns[RowOf(o)].authored = DOMAIN Authored(o)

\* Faulty variant: what the object authors is not recorded.
UpdateUnrecorded(d, o) ==
  [d EXCEPT !.ents[d.spawns[RowOf(o)].ent].comps =
     Rewrite(Without(EntityOf(d, o).comps, Removed(d, o)), Authored(o))]
Updated(d, o) ==
  [d EXCEPT !.ents[d.spawns[RowOf(o)].ent].comps =
              Rewrite(Without(EntityOf(d, o).comps, Removed(d, o)), Authored(o)),
            !.spawns[RowOf(o)].authored = DOMAIN Authored(o)]

\* Faulty variant: the row goes and the entity stays.
DropRow(d, o) == Forget(d, {RowOf(o)})
DeleteSpawn(d, o) == Forget(DeleteAll(d, {d.spawns[RowOf(o)].ent}), {RowOf(o)})

Created(d, o) == Record(Insert(d, o.class, Authored(o)), RowOf(o), d.next, DOMAIN Authored(o))

\* Faulty variant: an object that was refused does not count as seen.
SeenAccepted == {o.id : o \in {x \in Objects : Spawnable(x) /\ Accepted(x)}}
Seen == {o.id : o \in {x \in Objects : Spawnable(x)}}

Gone(d) == {k \in DOMAIN d.spawns : k[1] = Key /\ k[2] \notin Seen}

-----------------------------------------------------------------------------
(* syncTileReferences *)

TileAt(d, c) == CHOOSE t \in {x \in TilesAt(d, c) : MapOf(d, x) = Key} : TRUE
\* The linked entities in the order of the file, after the Tile's own art.
Links(d, c) ==
  LET linking == SelectSeq(file.objects, LAMBDA o : c \in o.links)
  IN  SetToSeq(ArtOf(d, TileAt(d, c))) \o [i \in DOMAIN linking |-> d.spawns[RowOf(linking[i])].ent]

\* Every link has its entity, and every Tile something to show.
LinksHold ==
  /\ \A o \in Objects : Linked(o) => Live(db, o)
  /\ \A c \in Painted : \E e \in ToSet(Links(db, c)) : "TileVisual" \in DOMAIN db.ents[e].comps

\* Faulty variant: a Tile that owns its art refers to nothing else.
LinkShared(d, c) == IF c \in Painted /\ Shared(c) THEN Refer(d, TileAt(d, c), Links(d, c)) ELSE d
LinkCell(d, c) == IF c \in Painted THEN Refer(d, TileAt(d, c), Links(d, c)) ELSE d

-----------------------------------------------------------------------------
(* A start of the engine, one action per transaction or decision *)

Init ==
  /\ db \in Databases /\ file \in Files
  /\ pc = "stopped" /\ at = 1 /\ refused = {} /\ starts = 0 /\ changes = 0

\* The file is what the author has made of it since; the process reads it
\* once, and goes no further when it is not well formed.
Start ==
  /\ pc = "stopped" /\ starts < MaxStarts
  /\ file' \in Files /\ WellFormed'
  /\ pc' = "tiles" /\ starts' = starts + 1
  /\ UNCHANGED <<db, at, refused, changes>>

\* The process ends: a load that failed, a game that was stopped, or a kill
\* between two transactions.
Halt == pc' = "stopped" /\ at' = 1 /\ refused' = {} /\ UNCHANGED <<db, file, starts, changes>>
Go(from, to) == pc = from /\ pc' = to /\ UNCHANGED <<file, at, refused, starts, changes>>

SyncLayerTiles == Go("tiles", "adopt") /\ ~TilesRefused /\ db' = FoldLeft(PaintCell, db, CellSeq)
RefuseTiles == pc = "tiles" /\ TilesRefused /\ Halt
AdoptSpawns == Go("adopt", "objects") /\ db' = Adopt(db)

\* One object of SyncSpawns's loop.
AtObject(o) == pc = "objects" /\ at <= Len(file.objects) /\ o = Object(at)
Next1 == at' = at + 1 /\ UNCHANGED <<file, pc, starts, changes>>
Proceeds(o) == Spawnable(o) /\ ~Repeats(at) /\ Accepted(o)

SkipObject(o) == AtObject(o) /\ ~Spawnable(o) /\ Next1 /\ UNCHANGED <<db, refused>>
Refuse(o) == Next1 /\ refused' = refused \cup {at} /\ db' = db
RefuseObject(o) == AtObject(o) /\ Spawnable(o) /\ (Repeats(at) \/ ~Accepted(o)) /\ Refuse(o)

\* Another class is another entity: the old one goes in a transaction of its
\* own, and the loop goes on to create the new one.
ReplaceSpawn(o) ==
  /\ AtObject(o) /\ Proceeds(o) /\ OtherClass(db, o)
  /\ db' = DeleteSpawn(db, o)
  /\ UNCHANGED <<file, pc, at, refused, starts, changes>>

KeepSpawn(o) ==
  /\ AtObject(o) /\ Proceeds(o) /\ Live(db, o) /\ ~OtherClass(db, o) /\ SpawnIsFile(db, o)
  /\ Next1 /\ UNCHANGED <<db, refused>>

UpdateSpawn(o) ==
  /\ AtObject(o) /\ Proceeds(o) /\ Live(db, o) /\ ~OtherClass(db, o) /\ ~SpawnIsFile(db, o)
  /\ IF CanRewrite(EntityOf(db, o).comps, Authored(o))
       THEN db' = Updated(db, o) /\ Next1 /\ UNCHANGED refused
       ELSE Refuse(o)

CreateSpawn(o) ==
  /\ AtObject(o) /\ Proceeds(o) /\ ~Live(db, o)
  /\ IF CanRewrite(<<>>, Authored(o))
       THEN db' = Created(db, o) /\ Next1 /\ UNCHANGED refused
       ELSE Refuse(o)

\* Everything the file no longer has, in one transaction.
DropGone ==
  /\ Go("objects", "links") /\ at > Len(file.objects)
  /\ db' = Forget(DeleteAll(db, {db.spawns[k].ent : k \in Gone(db)}), Gone(db))

SyncTileReferences == Go("links", "loaded") /\ LinksHold /\ db' = FoldLeft(LinkCell, db, CellSeq)

Stop == pc # "stopped" /\ Halt

-----------------------------------------------------------------------------
(* The game runs, and machines change the entity they are on *)

Change(e, comps) ==
  /\ pc \in {"loaded", "running"} /\ changes < MaxRuntime
  /\ db' = [db EXCEPT !.ents[e].comps = comps]
  /\ pc' = "running" /\ changes' = changes + 1
  /\ UNCHANGED <<file, at, refused, starts>>

AttachComponent(e, c, v) ==
  c \notin DOMAIN db.ents[e].comps /\ Change(e, Over(Just(c, [f \in Fields[c] |-> v]), db.ents[e].comps))
DetachComponent(e, c) ==
  c \in DOMAIN db.ents[e].comps /\ Change(e, Without(db.ents[e].comps, {c}))
SetComponent(e, c, f, v) ==
  /\ c \in DOMAIN db.ents[e].comps /\ db.ents[e].comps[c][f] # v
  /\ Change(e, [db.ents[e].comps EXCEPT ![c][f] = v])

Actors == {e \in DOMAIN db.ents : ~IsTile(db, e)}

LoadStep ==
  \/ SyncLayerTiles \/ RefuseTiles \/ AdoptSpawns \/ DropGone \/ SyncTileReferences
  \/ \E o \in Objects : \/ SkipObject(o) \/ RefuseObject(o) \/ ReplaceSpawn(o)
                        \/ KeepSpawn(o) \/ UpdateSpawn(o) \/ CreateSpawn(o)
Next ==
  \/ Start \/ LoadStep \/ Stop
  \/ \E e \in Actors, c \in RuntimeComps :
       \/ \E v \in FieldValues : AttachComponent(e, c, v) \/ \E f \in Fields[c] : SetComponent(e, c, f, v)
       \/ DetachComponent(e, c)
Spec == Init /\ [][Next]_vars

-----------------------------------------------------------------------------
(* Properties *)

ByHand == {e \in DOMAIN db.ents : db.ents[e].type = "ByHand"}
RowsOf(e) == {k \in DOMAIN db.spawns : db.spawns[k].ent = e}

\* Whatever the engine is killed between and whatever the file becomes, an
\* entity the importer made is a Tile, the one art of a Tile that is there, or
\* named by exactly one spawn row: none is out of the importer's reach, where
\* "every later load duplicated" it, no two Tiles of a map share a cell, and no
\* spawn row names an entity that is gone.
\* (spawn.go, createSpawn, deleteSpawn, adoptSpawns; layered.go)
NothingIsStranded ==
  /\ \A k \in DOMAIN db.spawns : db.spawns[k].ent \in DOMAIN db.ents
  /\ \A e \in DOMAIN db.ents \ ByHand :
      IF IsTile(db, e)
        THEN \A t \in DOMAIN db.ents \ {e} : IsTile(db, t) =>
               \E f \in {"map", "cell"} : db.ents[t].comps["Tile"][f] # db.ents[e].comps["Tile"][f]
      ELSE IF "TileEntityOwner" \in DOMAIN db.ents[e].comps
        THEN LET t == db.ents[e].comps["TileEntityOwner"].target
             IN  t \in DOMAIN db.ents /\ IsTile(db, t) /\ ArtOf(db, t) = {e} /\ RowsOf(e) = {}
      ELSE Cardinality(RowsOf(e)) = 1

Wrote(i) == Spawnable(Object(i)) /\ i \notin refused

\* "The file wins": when a load ends, every object it did not refuse is an
\* entity of its class with the values it authors, every entity of this map is
\* one such object's or a refused one's, and every painted cell is one Tile
\* that refers to its own art, if no link supplies it, and to the entities the
\* file links to it, all of them there -- on a database of any history.  And a load
\* that has begun to write does not fail for what the file says: the spatial
\* objects were all checked first.
\* (loader.go, LoadMap)
LoadedIsFile ==
  /\ pc = "links" => LinksHold
  /\ pc = "loaded" =>
      /\ \A i \in DOMAIN file.objects : Wrote(i) =>
           LET o == Object(i)
           IN  Live(db, o) /\ EntityOf(db, o).type = o.class /\ ~Differs(EntityOf(db, o).comps, Authored(o))
      /\ \A k \in DOMAIN db.spawns : k[1] = Key => k[2] \in Seen
      /\ \A t \in OurTiles(db) : db.ents[t].comps["Tile"].cell \in Painted
      /\ \A c \in Painted : \E t \in TilesAt(db, c) :
           LET tile == db.ents[t].comps["Tile"]
               linked == {db.spawns[RowOf(o)].ent : o \in LinksTo(c)}
           IN  /\ tile.own = file.tiles[c].own
               /\ ToSet(tile.refs) = linked \cup ArtOf(db, t)
               /\ ToSet(tile.refs) \subseteq DOMAIN db.ents
               /\ Shared(c) \/ \E a \in ArtOf(db, t) : /\ db.ents[a].type = file.tiles[c].type
                                                       /\ ~Differs(db.ents[a].comps, ArtComps(c, t))

\* "A restart with no edit to the map is a read": what a load has just written
\* is not written again.  (spawn.go, needsUpdate; layered.go, SyncLayerTiles)
ReloadIsARead ==
  pc = "loaded" =>
    /\ \A i \in DOMAIN file.objects : Wrote(i) => SpawnIsFile(db, Object(i))
    /\ \A c \in Painted : \A t \in TilesAt(db, c) : TileIsFile(db, t, c) /\ LinkCell(db, c) = db
    /\ ~TilesRefused /\ Adopt(db) = db /\ Gone(db) = {}

\* Both, of every load that is through: the database is the file and the next
\* load finds nothing to do.  (loader.go, LoadMap)
FinishedLoads == LoadedIsFile /\ ReloadIsARead

\* "The entity id survives": a step of a load neither deletes the entity of an
\* object that keeps its class nor gives the object another one, unless both
\* the path and the id had one.  (spawn.go, SyncSpawns, adoptSpawns)
IdStays(o, k) ==
  (/\ k \in DOMAIN db.spawns /\ Spawnable(o)
   /\ \A j \in DOMAIN file.objects : Object(j).id = o.id => Object(j) = o
   /\ db.ents[db.spawns[k].ent].type = o.class
   /\ k # RowOf(o) => ~Live(db, o))
  => \E n \in {k, RowOf(o)} : n \in DOMAIN db'.spawns /\ db'.spawns[n].ent = db.spawns[k].ent
IdsStay == \A o \in Objects, m \in {Key, file.path} : IdStays(o, <<m, o.id>>)
KeepsIds == [][LoadStep => IdsStay]_vars

\* What the map says of an entity: of the object it was made for, or of the art
\* of a cell, with what an earlier load recorded having authored.
AuthoredOn(e) ==
  (UNION {DOMAIN Authored(o) : o \in {x \in Objects : Live(db, x) /\ db.spawns[RowOf(x)].ent = e}})
    \cup UNION {IF db.spawns[k].authored = Unknown THEN {} ELSE db.spawns[k].authored : k \in RowsOf(e)}
GivenFields(e, c) ==
  UNION {DOMAIN Authored(o)[c] : o \in {x \in Objects : /\ Live(db, x) /\ db.spawns[RowOf(x)].ent = e
                                                        /\ c \in DOMAIN Authored(x)}}

\* "What the file says nothing about, this says nothing about": a component
\* machines attached, and the fields of a component the file leaves out, are
\* as they were after every step of a load, on every spawn that survives it; and
\* an entity made by hand, and the tiles and spawns of another map, are left as
\* they are.  (spawn.go, SyncSpawns, updateSpawn, removedAuthored; layered.go)
KeptOnSpawn(k) ==
  LET e == db.spawns[k].ent
  IN  e \in DOMAIN db'.ents =>
        \A c \in DOMAIN db.ents[e].comps :
          \/ c \in DOMAIN db'.ents[e].comps
             /\ \A f \in Fields[c] : f \in GivenFields(e, c) \/ db'.ents[e].comps[c][f] = db.ents[e].comps[c][f]
          \/ /\ c \in AuthoredOn(e)
             /\ \A i \in DOMAIN file.objects :
                  RowOf(Object(i)) = k /\ Spawnable(Object(i)) /\ ~Repeats(i) => c \notin DOMAIN Authored(Object(i))
Kept(e) == e \in DOMAIN db'.ents /\ db'.ents[e] = db.ents[e]
OthersStay ==
  /\ \A k \in DOMAIN db.spawns :
       IF k[1] \in {Key, file.path} THEN KeptOnSpawn(k)
       ELSE k \in DOMAIN db'.spawns /\ db'.spawns[k] = db.spawns[k] /\ Kept(db.spawns[k].ent)
  /\ \A e \in ByHand : Kept(e)
  /\ \A t \in DOMAIN db.ents : (IsTile(db, t) /\ MapOf(db, t) \notin {Key, file.path}) =>
       \A e \in {t} \cup ArtOf(db, t) : Kept(e)
RuntimeSurvives == [][LoadStep => OthersStay]_vars

\* Both, of every step of a load: no entity is given up or overwritten that the
\* map or a machine still has a claim on.  (spawn.go, SyncSpawns)
EntitiesAreKept == KeepsIds /\ RuntimeSurvives

\* Whatever starts, kills and machines came before: nothing the importer made is
\* out of its reach, and a load that is through has made the database the file.
\* (spawn.go, layered.go; loader.go, LoadMap)
LoadsAreSound == NothingIsStranded /\ FinishedLoads
=============================================================================
