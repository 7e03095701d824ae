------------------------------ MODULE MCMapFiles -----------------------------
(***************************************************************************)
(* The files of maps, as the engine reads them at a start and as Forge     *)
(* holds them open.  The two share no state here, so a behaviour is about  *)
(* one of them.                                                            *)
(*                                                                         *)
(* Import: two objects, one layer of one or two cells, two maps, one of    *)
(* them with and without its mapId.  Sessions: two maps and the two        *)
(* tilesets they name, of which each may be missing or broken, and two     *)
(* requests at a time.                                                     *)
(***************************************************************************)
EXTENDS MapImport, TilesetSessions

CONSTANTS p1, p2, m1, c1, c2, level, cave, terrain, props

MCTypes == "goblin" :> [required |-> {"Position"}, allowed |-> {"Health"}, lenient |-> FALSE]
        @@ "ghost"  :> [required |-> {"Position", "Health"}, allowed |-> {}, lenient |-> TRUE]
        @@ "wall"   :> [required |-> {"TileVisual"}, allowed |-> {"Position", "TileEntityOwner"}, lenient |-> FALSE]
        @@ "ByHand" :> [required |-> {}, allowed |-> {}, lenient |-> FALSE]
MCFields == "Position" :> {"at"} @@ "Health" :> {"hp", "max"} @@ "TileVisual" :> {"image"}
         @@ "TileEntityOwner" :> {"target"} @@ "Tile" :> {"map", "cell", "own", "refs"}

Obj(id, class, comps) == [id |-> id, class |-> class, at |-> c1, comps |-> comps, links |-> {}]
Hp(v) == "Health" :> [hp |-> v]
Whole12 == "Health" :> [hp |-> 1, max |-> 2]
Image(v) == "TileVisual" :> [image |-> v]
Wall == [Obj(2, "wall", Image(1)) EXCEPT !.links = {c1}]
Tile(v) == [type |-> "wall", own |-> v, comps |-> Image(v)]
File(path, id, objects, tiles) == [path |-> path, id |-> id, objects |-> objects, tiles |-> tiles]

MCFiles ==
  { File(p1, NoId, <<Obj(1, "goblin", <<>>)>>, c1 :> Tile(1)),
    File(p1, m1,   <<Obj(1, "goblin", Whole12), Obj(2, "goblin", <<>>)>>, c1 :> Tile(1)),
    File(p1, m1,   <<Obj(1, "goblin", <<>>)>>, c1 :> Tile(1)),
    File(p1, m1,   <<Obj(1, "goblin", Hp(2)), Wall>>, c1 :> Tile(1)),
    File(p1, m1,   <<[Obj(1, "goblin", Whole12) EXCEPT !.links = {c1}], Obj(1, "goblin", <<>>)>>, c1 :> Tile(2)),
    File(p1, m1,   <<[Obj(1, "goblin", Whole12) EXCEPT !.at = c2, !.links = {c1}]>>, c1 :> Tile(2) @@ c2 :> Tile(1)),
    File(p1, m1,   <<Obj(1, "ghost", Whole12), Obj(1, "goblin", <<>>), Obj(2, "goblin", Image(1))>>, <<>>),
    File(p1, m1,   <<Obj(1, "ghost", Hp(1)), Wall>>, c1 :> Tile(1)),
    File(p1, m1,   <<Obj(1, NoClass, <<>>), Obj(2, "ghost", <<>>)>>, c1 :> Tile(1)),
    File(p1, m1,   <<[Obj(1, "goblin", Hp(2)) EXCEPT !.links = {c1}]>>, c1 :> Tile(1)),
    File(p2, NoId, <<Obj(1, "goblin", Whole12), Obj(2, "goblin", <<>>)>>, c1 :> Tile(1)) }

Empty == [ents |-> 1 :> [type |-> "ByHand", comps |-> Whole12], spawns |-> <<>>, art |-> <<>>, next |-> 2]
\* From before the rows said what the map had authored.
Older ==
  [Empty EXCEPT !.ents = @ @@ (2 :> [type |-> "goblin", comps |-> "Position" :> [at |-> c1] @@ Whole12]),
                !.spawns = <<p1, 1>> :> [ent |-> 2, authored |-> Unknown], !.next = 3]
MCDatabases == {Empty, Older}
MCCells == <<c1, c2>>

-----------------------------------------------------------------------------
OfMap(named, rest) == [sheets |-> named, rest |-> rest]
Dir(a, b, c, d) == level :> a @@ cave :> b @@ terrain :> c @@ props :> d
Dirs == {Dir(OfMap({props}, 0), OfMap({terrain, props}, 0), 0, Missing),
         Dir(Garbled, OfMap({terrain}, 0), Unsafe, Garbled)}
Leave == level :> {Missing, OfMap({terrain}, 1)} @@ cave :> {Missing, OfMap({terrain}, 0), Garbled}
      @@ terrain :> {Missing, 1, Unsafe} @@ props :> {Garbled, 0}

-----------------------------------------------------------------------------
VARIABLE side

\* Where the other is while one of them goes on.
ImportRests == db = Empty /\ file.id = NoId /\ file.path = p1
SessionsRest == disk[cave] # Missing /\ disk[terrain] = Unsafe

SidesInit ==
  /\ side \in {"import", "sessions"} /\ Init /\ TilesetInit
  /\ side # "import" => ImportRests
  /\ side # "sessions" => SessionsRest

SidesNext ==
  \/ side = "import" /\ Next /\ UNCHANGED <<side, tilesetVars>>
  \/ side = "sessions" /\ TilesetNext /\ UNCHANGED <<side, vars>>

SidesSpec == SidesInit /\ [][SidesNext]_<<side, vars, tilesetVars>> /\ ServingGoesOn
=============================================================================
