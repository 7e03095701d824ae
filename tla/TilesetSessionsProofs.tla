------------------------ MODULE TilesetSessionsProofs ------------------------
(***************************************************************************)
(* What the sessions behind MAP and TILES promise, for any number of maps, *)
(* tilesets, requests at a time and changes by somebody else: no unsaved   *)
(* work is lost or out of reach, and the two mutexes exclude and are never *)
(* waited for in a circle.  And what the engine's loads of those maps      *)
(* promise, for any files, databases and starts: nothing the importer made *)
(* is ever out of its reach.                                               *)
(***************************************************************************)
EXTENDS TilesetSessions, MapImport, FiniteSetTheorems, NaturalsInduction, WellFoundedInduction, TLAPS

HoldsMaps == {"resolving", "preview"}
Stages == {"idle", "refresh", "draw", "collect", "rebuild", "act"} \cup HoldsMaps
Changes == {"edit"} \cup FileOps

IsRequest(q) ==
  /\ DOMAIN q = DOMAIN Idle
  /\ q.at \in Stages
  /\ q.at = "act" => q.op \in Changes

IsTable(fs) == fs = [p \in DOMAIN fs |-> fs[p]]

Typed ==
  /\ IsTable(mapFiles) /\ IsTable(sheetFiles) /\ IsTable(entries)
  /\ serving = [r \in Handlers |-> serving[r]]
  /\ \A r \in Handlers : IsRequest(serving[r])

\* Every file that is open can be got at, be it changed or not: what a request
\* changes was open before it came to its turn.
OpenIsInReach ==
  /\ tabs \subseteq DOMAIN mapFiles
  /\ DOMAIN mapFiles \subseteq tabs \cup told
  /\ {s \in DOMAIN entries : entries[s]} \subseteq DOMAIN sheetFiles
  /\ DOMAIN sheetFiles \subseteq DOMAIN entries

\* Who holds a mutex is where it is held, and nobody else is.
HoldersAreKnown ==
  /\ mapLock \in Handlers \cup {Nobody} /\ sheetLock \in Handlers \cup {Nobody}
  /\ \A r \in Handlers : serving[r].at \in HoldsMaps <=> mapLock = r
  /\ \A r \in Handlers : At(r, "rebuild") <=> sheetLock = r

\* The inductive invariant.
IInv == Typed /\ OpenIsInReach /\ HoldersAreKnown

-----------------------------------------------------------------------------
(* The tables of files *)

\* A refresh of the maps keeps what it keeps as it was, keeps all unsaved work,
\* and leaves no open map that is neither in a tab nor among the problems.
LEMMA RefreshKeeps ==
  ASSUME NEW d, NEW fs
  PROVE  /\ IsTable(Refreshed(d, fs))
         /\ DirtyIn(fs) \subseteq DOMAIN Refreshed(d, fs)
         /\ \A m \in DOMAIN fs \cap DOMAIN Refreshed(d, fs) : Refreshed(d, fs)[m] = fs[m]
         /\ Listed(d, fs) \subseteq DOMAIN Refreshed(d, fs)
         /\ DOMAIN Refreshed(d, fs) \subseteq Listed(d, fs) \cup Troubles(d, fs)
BY DEF IsTable, Refreshed, Listed, Troubles, DirtyIn, Appeared

\* So does a rebuild of the tilesets, and it lists every one that is open.
LEMMA RebuildKeeps ==
  ASSUME NEW d, NEW fs, NEW refs, NEW bad
  PROVE  /\ IsTable(Rebuilt(d, fs, refs, bad)) /\ IsTable(WritableNow(d, fs, refs, bad))
         /\ DirtyIn(fs) \subseteq DOMAIN Rebuilt(d, fs, refs, bad)
         /\ \A s \in DOMAIN fs \cap DOMAIN Rebuilt(d, fs, refs, bad) : Rebuilt(d, fs, refs, bad)[s] = fs[s]
         /\ DOMAIN Rebuilt(d, fs, refs, bad) \subseteq DOMAIN WritableNow(d, fs, refs, bad)
         /\ \A s \in DOMAIN WritableNow(d, fs, refs, bad) :
              WritableNow(d, fs, refs, bad)[s] => s \in DOMAIN Rebuilt(d, fs, refs, bad)
BY DEF IsTable, Rebuilt, WritableNow, DirtyIn

\* Of the operations on a file only three change its working value.
LEMMA WorkSurvives ==
  ASSUME NEW op \in {"save", "overwrite"}, NEW f, NEW bytes, NEW new
  PROVE  After(op, f, bytes, new).cur = f.cur
BY DEF After, Fresh

-----------------------------------------------------------------------------
(* The requests *)

LEMMA IdleIsRequest == IsRequest(Idle) /\ Idle.at = "idle"
BY DEF IsRequest, Idle, Stages

\* A step of request r that takes it on, or ends it, leaves typed requests.
LEMMA GoingOn ==
  ASSUME Typed, NEW r \in Handlers, NEW q, IsRequest(q), serving' = [serving EXCEPT ![r] = q]
  PROVE  /\ serving' = [k \in Handlers |-> serving'[k]]
         /\ \A k \in Handlers : IsRequest(serving'[k])
         /\ serving'[r] = q /\ \A k \in Handlers \ {r} : serving'[k] = serving[k]
BY DEF Typed

\* The mutexes stay with their holders where the request neither takes nor
\* leaves one.
LEMMA HoldersStay ==
  ASSUME IInv, NEW r \in Handlers, UNCHANGED <<mapLock, sheetLock>>,
         \A k \in Handlers \ {r} : serving'[k] = serving[k],
         serving'[r].at \in HoldsMaps <=> serving[r].at \in HoldsMaps,
         serving'[r].at = "rebuild" <=> serving[r].at = "rebuild"
  PROVE  HoldersAreKnown'
BY DEF IInv, HoldersAreKnown, At

\* A page, or an operation on a file, is asked for.
LEMMA AskingPreserves ==
  ASSUME IInv, NEW r \in Handlers,
         \/ \E kind \in {"map", "tiles"} : \E m : AskForPage(r, kind, m)
         \/ \E op \in Changes : \E p, new : AskFor(r, op, p, new)
  PROVE  IInv'
<1>1. PICK q : /\ q.at \in {"refresh", "act"} /\ IsRequest(q)
               /\ serving' = [serving EXCEPT ![r] = q]
  <2> DEFINE page(kind, m) == [Idle EXCEPT !.at = "refresh", !.op = kind, !.path = m]
             op(o, p, new) == [Idle EXCEPT !.at = "act", !.op = o, !.path = p, !.new = new]
  <2>1. DOMAIN Idle = {"at", "op", "path", "new", "todo", "refs", "bad"}
    BY DEF Idle
  <2>3. \A kind, m : page(kind, m).at = "refresh" /\ IsRequest(page(kind, m))
    BY <2>1 DEF IsRequest, Stages
  <2>4. \A o \in Changes : \A p, new : op(o, p, new).at = "act" /\ IsRequest(op(o, p, new))
    BY <2>1 DEF IsRequest, Stages
  <2>5. \/ \E kind, m : serving' = [serving EXCEPT ![r] = page(kind, m)]
        \/ \E o \in Changes : \E p, new : serving' = [serving EXCEPT ![r] = op(o, p, new)]
    BY DEF AskForPage, AskFor
  <2> HIDE DEF page, op
  <2>6. QED
    BY <2>3, <2>4, <2>5
<1>2. At(r, "idle") /\ UNCHANGED <<mapFiles, tabs, told, mapLock, sheetFiles, entries, sheetLock>>
  BY DEF AskForPage, AskFor, Ask, mapVars
<1>3. Typed'
  BY <1>1, <1>2, GoingOn DEF IInv, Typed, IsTable
<1>4. HoldersAreKnown'
  BY <1>1, <1>2, GoingOn, HoldersStay DEF IInv, HoldsMaps, At
<1>5. QED
  BY <1>2, <1>3, <1>4 DEF IInv, OpenIsInReach

\* The steps of a request that change no file.
LEMMA ReadingPreserves ==
  ASSUME IInv, NEW r \in Handlers,
         \/ \E ref \in serving[r].todo : ReadTileset(r, ref)
         \/ LeaveMaps(r) \/ Preview(r)
         \/ \E m \in serving[r].todo : Collect(r, m)
         \/ LockTilesets(r)
  PROVE  IInv'
<1> DEFINE q == serving[r]
<1>1. DOMAIN Idle = {"at", "op", "path", "new", "todo", "refs", "bad"} /\ IsRequest(q)
  BY DEF Idle, IInv, Typed
<1>2. UNCHANGED <<mapFiles, tabs, sheetFiles, entries>> /\ told \subseteq told'
  BY DEF ReadTileset, LeaveMaps, Preview, Collect, LockTilesets, mapVars
<1>3. OpenIsInReach'
  BY <1>2 DEF IInv, OpenIsInReach
<1>4. ASSUME NEW ref, ReadTileset(r, ref) PROVE IInv'
  <2>1. PICK x : x = [q EXCEPT !.todo = @ \ {ref}]
    OBVIOUS
  <2>2. IsRequest(x) /\ x.at = q.at /\ serving' = [serving EXCEPT ![r] = x]
    BY <1>1, <1>4, <2>1 DEF ReadTileset, IsRequest
  <2>3. Typed'
    BY <1>2, <2>2, GoingOn DEF IInv, Typed, IsTable
  <2>4. HoldersAreKnown'
    BY <1>4, <2>2, GoingOn, HoldersStay DEF IInv, ReadTileset
  <2>5. QED
    BY <1>3, <2>3, <2>4 DEF IInv
<1>5. ASSUME LeaveMaps(r) PROVE IInv'
  <2>1. PICK x : x = AfterMaps(q)
    OBVIOUS
  <2>2. IsRequest(x) /\ x.at \in {"idle", "collect", "draw"} /\ serving' = [serving EXCEPT ![r] = x]
    <3>1. AfterMaps(q) \in {Idle, [q EXCEPT !.at = "collect", !.todo = tabs], [q EXCEPT !.at = "draw"]}
      BY DEF AfterMaps
    <3>2. QED
      BY <1>1, <1>5, <2>1, <3>1, IdleIsRequest DEF LeaveMaps, IsRequest, Stages
  <2>3. Typed'
    BY <1>2, <2>2, GoingOn DEF IInv, Typed, IsTable
  <2>4. HoldersAreKnown'
    <3>1. mapLock = r /\ mapLock' = Nobody /\ sheetLock' = sheetLock /\ sheetLock # r
      BY <1>5 DEF LeaveMaps, IInv, HoldersAreKnown, At, HoldsMaps
    <3>2. \A k \in Handlers \ {r} : serving'[k] = serving[k]
      BY <2>2, GoingOn DEF IInv
    <3>3. serving'[r].at \notin HoldsMaps \cup {"rebuild"}
      BY <2>2, GoingOn DEF IInv, HoldsMaps
    <3>4. QED
      BY <3>1, <3>2, <3>3, NobodyAssumption DEF IInv, HoldersAreKnown, At
  <2>5. QED
    BY <1>3, <2>3, <2>4 DEF IInv
<1>6. ASSUME Preview(r) PROVE IInv'
  <2>1. PICK x : x = IF q.path \in DOMAIN mapFiles
                     THEN [q EXCEPT !.at = "preview", !.todo = ReferencesOf(q.path, mapFiles)] ELSE Idle
    OBVIOUS
  <2>2. /\ IsRequest(x) /\ serving' = [serving EXCEPT ![r] = x]
        /\ \/ x.at = "preview" /\ mapLock' = r
           \/ x.at = "idle" /\ mapLock' = mapLock
    BY <1>1, <1>6, <2>1, IdleIsRequest DEF Preview, Ends, IsRequest, Stages, HoldsMaps
  <2>3. Typed'
    BY <1>2, <2>2, GoingOn DEF IInv, Typed, IsTable
  <2>4. HoldersAreKnown'
    <3>1. mapLock = Nobody /\ sheetLock' = sheetLock /\ At(r, "draw")
      BY <1>6 DEF Preview, Free
    <3>2. \A k \in Handlers \ {r} : serving'[k] = serving[k]
      BY <2>2, GoingOn DEF IInv
    <3>3. serving'[r] = x
      BY <2>2, GoingOn DEF IInv
    <3>4. QED
      BY <2>2, <3>1, <3>2, <3>3, NobodyAssumption DEF IInv, HoldersAreKnown, At, HoldsMaps
  <2>5. QED
    BY <1>3, <2>3, <2>4 DEF IInv
<1>7. ASSUME NEW m, Collect(r, m) PROVE IInv'
  <2> DEFINE found == IF m \in DOMAIN mapFiles THEN mapFiles[m].cur.sheets ELSE {}
             new == found \ q.refs
             bad == {s \in new : ~Contained(disk, s)}
  <2>1. serving' = [serving EXCEPT ![r].todo = @ \ {m}, ![r].refs = @ \cup new, ![r].bad = @ \cup bad]
    BY <1>7 DEF Collect
  <2> HIDE DEF found, new, bad
  <2>2. PICK x : x = serving'[r]
    OBVIOUS
  <2>3. IsRequest(x) /\ x.at = q.at /\ serving' = [serving EXCEPT ![r] = x]
    BY <1>1, <2>1, <2>2 DEF IsRequest, IInv, Typed
  <2>4. Typed'
    BY <1>2, <2>3, GoingOn DEF IInv, Typed, IsTable
  <2>5. UNCHANGED <<mapLock, sheetLock>>
    BY <1>7 DEF Collect
  <2>6. HoldersAreKnown'
    BY <2>3, <2>5, GoingOn, HoldersStay DEF IInv
  <2>7. QED
    BY <1>3, <2>4, <2>6 DEF IInv
<1>8. ASSUME LockTilesets(r) PROVE IInv'
  <2>1. PICK x : x = [q EXCEPT !.at = "rebuild"]
    OBVIOUS
  <2>2. IsRequest(x) /\ x.at = "rebuild" /\ serving' = [serving EXCEPT ![r] = x]
    BY <1>1, <1>8, <2>1 DEF LockTilesets, Goes, IsRequest, Stages
  <2>3. Typed'
    BY <1>2, <2>2, GoingOn DEF IInv, Typed, IsTable
  <2>4. HoldersAreKnown'
    <3>1. sheetLock = Nobody /\ sheetLock' = r /\ mapLock' = mapLock /\ At(r, "collect")
      BY <1>8 DEF LockTilesets, Free
    <3>2. serving'[r] = x /\ \A k \in Handlers \ {r} : serving'[k] = serving[k]
      BY <2>2, GoingOn DEF IInv
    <3>3. QED
      BY <2>2, <3>1, <3>2, NobodyAssumption DEF IInv, HoldersAreKnown, At, HoldsMaps
  <2>5. QED
    BY <1>3, <2>3, <2>4 DEF IInv
<1>9. QED
  BY <1>4, <1>5, <1>6, <1>7, <1>8

\* A refresh of the maps: what it leaves open is in a tab or told of.
LEMMA RefreshMapsPreserves ==
  ASSUME IInv, NEW r \in Handlers, RefreshMaps(r)
  PROVE  IInv'
<1> DEFINE q == serving[r]
           fresh == UNION {ReferencesOf(m, mapFiles') : m \in Appeared(disk, mapFiles)}
<1>1. DOMAIN Idle = {"at", "op", "path", "new", "todo", "refs", "bad"} /\ IsRequest(q)
  BY DEF Idle, IInv, Typed
<1>2. /\ mapFiles' = Refreshed(disk, mapFiles) /\ tabs' = Listed(disk, mapFiles)
      /\ told' = Troubles(disk, mapFiles)
      /\ UNCHANGED <<sheetFiles, entries, sheetLock>>
      /\ mapLock = Nobody /\ mapLock' = r /\ q.at = "refresh"
  BY DEF RefreshMaps, Free, At
<1>3. OpenIsInReach'
  BY <1>2, RefreshKeeps DEF IInv, OpenIsInReach
<1>4. serving' = [serving EXCEPT ![r].at = "resolving", ![r].todo = fresh]
  BY DEF RefreshMaps
<1> HIDE DEF fresh
<1>5. PICK x : x = serving'[r]
  OBVIOUS
<1>6. IsRequest(x) /\ x.at = "resolving" /\ serving' = [serving EXCEPT ![r] = x]
  BY <1>1, <1>4, <1>5 DEF IsRequest, IInv, Typed, Stages, HoldsMaps
<1>7. Typed'
  BY <1>2, <1>6, GoingOn, RefreshKeeps DEF IInv, Typed, IsTable
<1>8. HoldersAreKnown'
  <2>1. serving'[r] = x /\ \A k \in Handlers \ {r} : serving'[k] = serving[k]
    BY <1>6, GoingOn DEF IInv
  <2>2. QED
    BY <1>2, <1>6, <2>1, NobodyAssumption DEF IInv, HoldersAreKnown, At, HoldsMaps
<1>9. QED
  BY <1>3, <1>7, <1>8 DEF IInv

\* A rebuild of the tilesets: what it leaves open is in the list.
LEMMA RebuildPreserves ==
  ASSUME IInv, NEW r \in Handlers, RebuildTilesets(r)
  PROVE  IInv'
<1> DEFINE q == serving[r]
<1>1. /\ sheetFiles' = Rebuilt(disk, sheetFiles, q.refs, q.bad)
      /\ entries' = WritableNow(disk, sheetFiles, q.refs, q.bad)
      /\ UNCHANGED <<mapFiles, tabs, told, mapLock>>
      /\ sheetLock = r /\ sheetLock' = Nobody /\ q.at = "rebuild"
      /\ serving' = [serving EXCEPT ![r] = Idle]
  BY DEF RebuildTilesets, Ends, At, mapVars, IInv, HoldersAreKnown
<1>2. OpenIsInReach'
  BY <1>1, RebuildKeeps DEF IInv, OpenIsInReach
<1>3. Typed'
  BY <1>1, GoingOn, IdleIsRequest, RebuildKeeps DEF IInv, Typed, IsTable
<1>4. HoldersAreKnown'
  <2>1. serving'[r] = Idle /\ \A k \in Handlers \ {r} : serving'[k] = serving[k]
    BY <1>1, GoingOn, IdleIsRequest DEF IInv
  <2>2. QED
    BY <1>1, <2>1, IdleIsRequest, NobodyAssumption DEF IInv, HoldersAreKnown, At, HoldsMaps
<1>5. QED
  BY <1>2, <1>3, <1>4 DEF IInv

\* What an operation does to a file: nothing becomes open or is closed.
LEMMA ActingPreserves ==
  ASSUME IInv, NEW r \in Handlers, ActOnMap(r) \/ ActOnTileset(r)
  PROVE  IInv'
<1> DEFINE q == serving[r]
           p == q.path
<1>1. DOMAIN Idle = {"at", "op", "path", "new", "todo", "refs", "bad"} /\ IsRequest(q)
  BY DEF Idle, IInv, Typed
<1>2. q.at = "act" /\ UNCHANGED <<tabs, told, entries, sheetLock>>
  BY DEF ActOnMap, ActOnTileset, At, mapVars
<1>3. /\ DOMAIN mapFiles' = DOMAIN mapFiles /\ IsTable(mapFiles')
      /\ DOMAIN sheetFiles' = DOMAIN sheetFiles /\ IsTable(sheetFiles')
  <2>1. /\ \/ mapFiles' = mapFiles
           \/ \E f : mapFiles' = [mapFiles EXCEPT ![p] = f]
        /\ \/ sheetFiles' = sheetFiles
           \/ \E f : sheetFiles' = [sheetFiles EXCEPT ![p] = f]
    BY DEF ActOnMap, ActOnTileset, mapVars
  <2>2. QED
    BY <2>1 DEF IInv, Typed, IsTable
<1>4. OpenIsInReach'
  BY <1>2, <1>3 DEF IInv, OpenIsInReach
<1>5. PICK x : /\ IsRequest(x) /\ serving' = [serving EXCEPT ![r] = x]
               /\ \/ x.at = "idle" /\ mapLock' = mapLock
                  \/ x.at = "resolving" /\ mapLock = Nobody /\ mapLock' = r
  <2>1. CASE serving' = [serving EXCEPT ![r] = Idle] /\ mapLock' = mapLock
    BY <2>1, IdleIsRequest
  <2>2. CASE /\ mapLock = Nobody /\ mapLock' = r
             /\ serving' = [serving EXCEPT ![r].at = "resolving",
                                           ![r].todo = ReferencesOf(p, mapFiles')]
    <3>1. PICK x : x = serving'[r]
      OBVIOUS
    <3>2. IsRequest(x) /\ x.at = "resolving" /\ serving' = [serving EXCEPT ![r] = x]
      BY <1>1, <2>2, <3>1 DEF IsRequest, IInv, Typed, Stages, HoldsMaps
    <3>3. QED
      BY <2>2, <3>2
  <2>3. QED
    BY <2>1, <2>2 DEF ActOnMap, ActOnTileset, Ends, Free
<1>6. Typed'
  BY <1>2, <1>3, <1>5, GoingOn DEF IInv, Typed, IsTable
<1>7. HoldersAreKnown'
  <2>1. serving'[r] = x /\ \A k \in Handlers \ {r} : serving'[k] = serving[k]
    BY <1>5, GoingOn DEF IInv
  <2>2. QED
    BY <1>2, <1>5, <2>1, NobodyAssumption DEF IInv, HoldersAreKnown, At, HoldsMaps
<1>8. QED
  BY <1>4, <1>6, <1>7 DEF IInv

-----------------------------------------------------------------------------
(* The invariant *)

LEMMA InvInit == TilesetInit => IInv
<1> SUFFICES ASSUME TilesetInit PROVE IInv
  OBVIOUS
<1> DEFINE refs == SheetsNamed(mapFiles)
           bad == {s \in refs : ~Contained(disk, s)}
<1>1. /\ mapFiles = Refreshed(disk, <<>>) /\ tabs = DOMAIN mapFiles
      /\ sheetFiles = Rebuilt(disk, <<>>, refs, bad)
      /\ entries = WritableNow(disk, <<>>, refs, bad)
      /\ mapLock = Nobody /\ sheetLock = Nobody
      /\ serving = [r \in Handlers |-> Idle]
  BY DEF TilesetInit
<1> HIDE DEF refs, bad
<1>2. Typed
  BY <1>1, RefreshKeeps, RebuildKeeps, IdleIsRequest DEF Typed
<1>3. OpenIsInReach
  BY <1>1, RebuildKeeps DEF OpenIsInReach
<1>4. HoldersAreKnown
  BY <1>1, IdleIsRequest, NobodyAssumption DEF HoldersAreKnown, At, HoldsMaps
<1>5. QED
  BY <1>2, <1>3, <1>4 DEF IInv

LEMMA InvStep == IInv /\ [TilesetNext]_tilesetVars => IInv'
<1> SUFFICES ASSUME IInv, [TilesetNext]_tilesetVars PROVE IInv'
  OBVIOUS
<1>1. CASE UNCHANGED tilesetVars
  BY <1>1 DEF tilesetVars, IInv, Typed, OpenIsInReach, HoldersAreKnown, At
<1>2. ASSUME NEW r \in Handlers,
             (\E m \in tabs : AskForPage(r, "map", m)) \/ AskForPage(r, "tiles", Nobody)
      PROVE  IInv'
  BY <1>2, AskingPreserves
<1>3. ASSUME NEW r \in Handlers, NEW p,
             (\E new \in Contents : AskFor(r, "edit", p, new)) \/ \E op \in FileOps : AskFor(r, op, p, Nobody)
      PROVE  IInv'
  BY <1>3, AskingPreserves DEF Changes
<1>4. ASSUME NEW r \in Handlers, Serve(r) PROVE IInv'
  BY <1>4, ReadingPreserves, RefreshMapsPreserves, RebuildPreserves, ActingPreserves DEF Serve
<1>5. ASSUME NEW p, NEW bytes, SomebodyElse(p, bytes) PROVE IInv'
  BY <1>5 DEF SomebodyElse, mapVars, IInv, Typed, OpenIsInReach, HoldersAreKnown, At
<1>6. QED
  BY <1>1, <1>2, <1>3, <1>4, <1>5 DEF TilesetNext

\* However requests overlap and whatever happens to the directory, each mutex is
\* held by the handler that is past taking it, and every open file can be found
\* from a page (maps.Session, tilesets.Session).
THEOREM InvariantHolds == TilesetSpec => []IInv
BY InvInit, InvStep, PTL DEF TilesetSpec

-----------------------------------------------------------------------------
(* Unsaved work *)

\* Whatever leaves the directory, whichever maps stop naming a tileset and
\* however requests overlap, unsaved work is in a tab, among the problems or in
\* the list, and what is offered is open (maps.Session.Refresh and strand,
\* tilesets.Session.Refresh).
THEOREM UnsavedStaysInReach == TilesetSpec => []UnsavedIsInReach
<1>1. IInv => UnsavedIsInReach
  BY DEF IInv, OpenIsInReach, UnsavedIsInReach, DirtyIn
<1>2. QED
  BY <1>1, InvariantHolds, PTL

\* A request on file p leaves other files alone, and file p too unless it is
\* one that changes it.
LEMMA ActingKeeps ==
  ASSUME IInv, NEW r \in Handlers, ActOnMap(r) \/ ActOnTileset(r)
  PROVE  KeepsWork(mapFiles, mapFiles') /\ KeepsWork(sheetFiles, sheetFiles')
<1> DEFINE q == serving[r]
           p == q.path
<1>1. At(r, "act") /\ q.op \in Changes
  BY DEF ActOnMap, ActOnTileset, At, IInv, Typed, IsRequest
<1>2. serving'[r].at # "act"
  <2>1. \/ serving' = [serving EXCEPT ![r] = Idle]
        \/ serving' = [serving EXCEPT ![r].at = "resolving", ![r].todo = ReferencesOf(p, mapFiles')]
    BY DEF ActOnMap, ActOnTileset, Ends
  <2>2. DOMAIN Idle = {"at", "op", "path", "new", "todo", "refs", "bad"} /\ IsRequest(q)
    BY DEF Idle, IInv, Typed
  <2>3. QED
    BY <2>1, <2>2, IdleIsRequest DEF IInv, Typed, IsRequest
<1>3. CASE q.op \in {"edit", "discard", "reload"}
  <2>1. Changing(p)
    BY <1>1, <1>2, <1>3 DEF Changing
  <2>2. /\ \/ mapFiles' = mapFiles
           \/ \E f : mapFiles' = [mapFiles EXCEPT ![p] = f]
        /\ \/ sheetFiles' = sheetFiles
           \/ \E f : sheetFiles' = [sheetFiles EXCEPT ![p] = f]
    BY DEF ActOnMap, ActOnTileset, mapVars
  <2>3. QED
    BY <2>1, <2>2 DEF KeepsWork, DirtyIn
<1>4. CASE q.op \in {"save", "overwrite"}
  <2>1. /\ \/ mapFiles' = mapFiles
           \/ \E new : mapFiles' = [mapFiles EXCEPT ![p] = After(q.op, mapFiles[p], disk[p], new)]
        /\ \/ sheetFiles' = sheetFiles
           \/ \E new : sheetFiles' = [sheetFiles EXCEPT ![p] = After(q.op, sheetFiles[p], disk[p], new)]
    BY DEF ActOnMap, ActOnTileset, mapVars
  <2>2. \A f, bytes, new : After(q.op, f, bytes, new).cur = f.cur
    BY <1>4, WorkSurvives
  <2>3. QED
    BY <2>1, <2>2 DEF KeepsWork, DirtyIn
<1>5. QED
  BY <1>1, <1>3, <1>4 DEF Changes, FileOps

\* Unsaved work on a map or a tileset goes only where a request edits, discards
\* or reloads that file: no refresh, rebuild, save or change by somebody else
\* takes it (maps.Session.forget, tilesets.Session.Refresh).
THEOREM UnsavedWorkIsKept == TilesetSpec => UnsavedIsKept
<1>1. ASSUME IInv, TilesetNext
      PROVE  KeepsWork(mapFiles, mapFiles') /\ KeepsWork(sheetFiles, sheetFiles')
  <2>1. CASE UNCHANGED <<mapFiles, sheetFiles>>
    BY <2>1 DEF KeepsWork, DirtyIn
  <2>2. ASSUME NEW r \in Handlers, RefreshMaps(r)
        PROVE  KeepsWork(mapFiles, mapFiles') /\ KeepsWork(sheetFiles, sheetFiles')
    <3>1. mapFiles' = Refreshed(disk, mapFiles) /\ sheetFiles' = sheetFiles
      BY <2>2 DEF RefreshMaps
    <3>2. QED
      BY <3>1, RefreshKeeps DEF KeepsWork, DirtyIn
  <2>3. ASSUME NEW r \in Handlers, RebuildTilesets(r)
        PROVE  KeepsWork(mapFiles, mapFiles') /\ KeepsWork(sheetFiles, sheetFiles')
    <3>1. mapFiles' = mapFiles /\ sheetFiles' = Rebuilt(disk, sheetFiles, serving[r].refs, serving[r].bad)
      BY <2>3 DEF RebuildTilesets, mapVars
    <3>2. QED
      BY <3>1, RebuildKeeps DEF KeepsWork, DirtyIn
  <2>4. ASSUME NEW r \in Handlers, ActOnMap(r) \/ ActOnTileset(r)
        PROVE  KeepsWork(mapFiles, mapFiles') /\ KeepsWork(sheetFiles, sheetFiles')
    BY <1>1, <2>4, ActingKeeps
  <2>5. ASSUME NEW r \in Handlers,
               \/ \E ref \in serving[r].todo : ReadTileset(r, ref)
               \/ LeaveMaps(r) \/ Preview(r) \/ LockTilesets(r)
               \/ \E m \in serving[r].todo : Collect(r, m)
        PROVE  UNCHANGED <<mapFiles, sheetFiles>>
    BY <2>5 DEF ReadTileset, LeaveMaps, Preview, LockTilesets, Collect, mapVars
  <2>6. ASSUME NEW r \in Handlers,
               (\E kind, m : AskForPage(r, kind, m)) \/ \E op, p, new : AskFor(r, op, p, new)
        PROVE  UNCHANGED <<mapFiles, sheetFiles>>
    BY <2>6 DEF AskForPage, AskFor, mapVars
  <2>7. ASSUME NEW p, NEW bytes, SomebodyElse(p, bytes) PROVE UNCHANGED <<mapFiles, sheetFiles>>
    BY <2>7 DEF SomebodyElse, mapVars
  <2>8. QED
    BY <1>1, <2>1, <2>2, <2>3, <2>4, <2>5, <2>6, <2>7 DEF TilesetNext, Serve
<1>2. IInv /\ [TilesetNext]_tilesetVars =>
        [KeepsWork(mapFiles, mapFiles') /\ KeepsWork(sheetFiles, sheetFiles')]_tilesetVars
  BY <1>1
<1>3. QED
  BY <1>2, InvariantHolds, PTL DEF TilesetSpec, UnsavedIsKept

-----------------------------------------------------------------------------
(* The mutexes *)

\* The mutex a request has to get for its next step.
WaitsForMaps(r) ==
  \/ serving[r].at \in {"refresh", "draw"}
  \/ At(r, "collect") /\ serving[r].todo # {}
  \/ At(r, "act") /\ serving[r].path \in MapPaths
WaitsForSheets(r) ==
  \/ serving[r].at \in HoldsMaps /\ serving[r].todo # {}
  \/ At(r, "collect") /\ serving[r].todo = {}
  \/ At(r, "act") /\ serving[r].path \in SheetPaths

\* At most one request is where a mutex is held, and never do all of them wait:
\* while one is served, the mutex that it or another one waits for is free.
MutexesAreSound ==
  /\ \A r, k \in Handlers : serving[r].at \in HoldsMaps /\ serving[k].at \in HoldsMaps => r = k
  /\ \A r, k \in Handlers : At(r, "rebuild") /\ At(k, "rebuild") => r = k
  /\ (\E r \in Handlers : ~At(r, "idle")) =>
        \E k \in Handlers : /\ ~At(k, "idle")
                            /\ WaitsForMaps(k) => Free(mapLock)
                            /\ WaitsForSheets(k) => Free(sheetLock)

\* The mutex of the tilesets is taken under that of the maps and never the other
\* way round, so no requests wait for each other, however many there are: what
\* RequestsEnd needs besides fairness (maps.Session.Refresh, tilesets.Session.Refresh).
THEOREM NoCircleOfWaits == TilesetSpec => []MutexesAreSound
<1>1. ASSUME IInv PROVE MutexesAreSound
  <2>1. ASSUME NEW r \in Handlers, ~At(r, "idle")
        PROVE  \E k \in Handlers : /\ ~At(k, "idle")
                                   /\ WaitsForMaps(k) => Free(mapLock)
                                   /\ WaitsForSheets(k) => Free(sheetLock)
    <3>1. CASE sheetLock # Nobody
      <4>1. sheetLock \in Handlers /\ At(sheetLock, "rebuild")
        BY <1>1, <3>1 DEF IInv, HoldersAreKnown
      <4>2. QED
        BY <4>1 DEF WaitsForMaps, WaitsForSheets, At, HoldsMaps
    <3>2. CASE sheetLock = Nobody /\ mapLock # Nobody
      <4>1. mapLock \in Handlers /\ serving[mapLock].at \in HoldsMaps
        BY <1>1, <3>2 DEF IInv, HoldersAreKnown
      <4>2. QED
        BY <3>2, <4>1 DEF WaitsForMaps, At, HoldsMaps, Free
    <3>3. CASE sheetLock = Nobody /\ mapLock = Nobody
      BY <2>1, <3>3 DEF Free
    <3>4. QED
      BY <3>1, <3>2, <3>3
  <2>2. QED
    BY <1>1, <2>1 DEF IInv, HoldersAreKnown, MutexesAreSound
<1>2. QED
  BY <1>1, InvariantHolds, PTL

-----------------------------------------------------------------------------
(* What each write leaves *)

IsDb(d) == {"ents", "spawns", "art", "next"} \subseteq DOMAIN d
IsTileRec(r) == r.type = "Tile"
OfImport(r) == r.type \notin {"Tile", "ByHand"}

\* All that Tidy sees of an entity, where it is a tile but for its place.
Kin(r, q) ==
  /\ {"type", "comps"} \subseteq DOMAIN q /\ IsFn(q) /\ IsFn(q.comps) /\ q.type = r.type
  /\ Owned(q) <=> Owned(r)
  /\ Owned(r) => Target(q) = Target(r)
  /\ r.type = "Tile" => "Tile" \in DOMAIN q.comps /\ {"map", "cell"} \subseteq DOMAIN q.comps["Tile"]
Alike(r, q) == Kin(r, q) /\ (r.type = "Tile" => Place(q) = Place(r))

SameRows(d, e) ==
  /\ DOMAIN e.spawns = DOMAIN d.spawns
  /\ \A k \in DOMAIN d.spawns : {"ent", "authored"} \subseteq DOMAIN e.spawns[k] /\ e.spawns[k].ent = d.spawns[k].ent

SameKin(d, e) ==
  /\ IsDb(e) /\ e.next = d.next
  /\ DOMAIN e.ents = DOMAIN d.ents /\ \A x \in DOMAIN d.ents : Kin(d.ents[x], e.ents[x])
  /\ SameRows(d, e)

PlacesApart(d) ==
  \A t, u \in DOMAIN d.ents :
    d.ents[t].type = "Tile" /\ d.ents[u].type = "Tile" /\ Place(d.ents[t]) = Place(d.ents[u]) => t = u

LEMMA KinKeeps ==
  ASSUME NEW d, NEW e, Tidy(d), SameKin(d, e), PlacesApart(e)
  PROVE  Tidy(e)
<1>1. IsDb(e) /\ e.next = d.next /\ DOMAIN e.ents = DOMAIN d.ents /\ DOMAIN e.spawns = DOMAIN d.spawns
  BY DEF SameKin, SameRows
<1>2. \A x \in DOMAIN d.ents : Kin(d.ents[x], e.ents[x])
  BY DEF SameKin
<1>3. \A k \in DOMAIN d.spawns : {"ent", "authored"} \subseteq DOMAIN e.spawns[k] /\ e.spawns[k].ent = d.spawns[k].ent
  BY DEF SameKin, SameRows
<1>4. \A x \in DOMAIN e.ents : IsEnt(e.ents[x])
  BY <1>1, <1>2 DEF Tidy, IsEnt, Kin
<1>5. ASSUME NEW x \in DOMAIN e.ents, e.ents[x].type \notin {"Tile", "ByHand"} PROVE Claimed(e, x)
  <2>1. Claimed(d, x) /\ \A y \in DOMAIN d.ents : Kin(d.ents[y], e.ents[y])
    BY <1>1, <1>2, <1>5 DEF Tidy, Kin
  <2> QED BY <1>1, <1>3, <1>5, <2>1 DEF Claimed, Kin
<1>6. ASSUME NEW k \in DOMAIN e.spawns PROVE IsRow(e, k)
  <2>1. IsRow(d, k)
    BY <1>1 DEF Tidy
  <2> QED BY <1>1, <1>2, <1>3, <2>1 DEF IsRow, Kin
<1> QED BY <1>1, <1>4, <1>5, <1>6 DEF Tidy, IsDb, PlacesApart

SameSight(d, e) == SameKin(d, e) /\ \A x \in DOMAIN d.ents : Alike(d.ents[x], e.ents[x])

LEMMA SightKeeps ==
  ASSUME NEW d, NEW e, Tidy(d), SameSight(d, e)
  PROVE  Tidy(e)
<1>1. DOMAIN e.ents = DOMAIN d.ents
  BY DEF SameSight, SameKin
<1>2. \A x \in DOMAIN d.ents : Alike(d.ents[x], e.ents[x])
  BY DEF SameSight
<1>3. PlacesApart(e)
  <2> SUFFICES ASSUME NEW t \in DOMAIN e.ents, NEW u \in DOMAIN e.ents,
                      e.ents[t].type = "Tile", e.ents[u].type = "Tile", Place(e.ents[t]) = Place(e.ents[u])
               PROVE  t = u
    BY DEF PlacesApart
  <2> QED BY <1>1, <1>2 DEF Tidy, Alike, Kin
<1> QED BY <1>3, KinKeeps DEF SameSight

\* Entities go together with the art they own.
LEMMA DeleteTidy ==
  ASSUME NEW d, Tidy(d), NEW gone,
         \A e \in DOMAIN d.ents : Owned(d.ents[e]) /\ Target(d.ents[e]) \in gone => e \in gone
  PROVE  /\ Tidy(DeleteAll(d, gone))
         /\ DOMAIN DeleteAll(d, gone).ents = DOMAIN d.ents \ gone
         /\ \A e \in DOMAIN d.ents \ gone : DeleteAll(d, gone).ents[e] = d.ents[e]
         /\ DOMAIN DeleteAll(d, gone).spawns = {k \in DOMAIN d.spawns : d.spawns[k].ent \notin gone}
         /\ \A k \in DOMAIN DeleteAll(d, gone).spawns : DeleteAll(d, gone).spawns[k] = d.spawns[k]
         /\ DeleteAll(d, gone).next = d.next
<1> DEFINE e == DeleteAll(d, gone)
<1>0. IsDb(d)
  BY DEF Tidy, IsDb
<1>1. /\ DOMAIN e = DOMAIN d /\ e.next = d.next
      /\ DOMAIN e.ents = DOMAIN d.ents \ gone
      /\ \A x \in DOMAIN d.ents \ gone : e.ents[x] = Unowned(d.ents[x], gone)
      /\ DOMAIN e.spawns = {k \in DOMAIN d.spawns : d.spawns[k].ent \notin gone}
      /\ \A k \in DOMAIN e.spawns : e.spawns[k] = d.spawns[k]
  BY <1>0 DEF DeleteAll, Without, IsDb
<1>2. ASSUME NEW x \in DOMAIN d.ents \ gone PROVE Alike(d.ents[x], e.ents[x]) /\ e.ents[x] = d.ents[x]
  <2> DEFINE r == d.ents[x]
             q == Unowned(r, gone)
  <2>1. IsEnt(r)
    BY DEF Tidy
  <2>2. ~(Owned(r) /\ Target(r) \in gone)
    BY <1>2
  <2> HIDE DEF r
  <2>3. {c \in DOMAIN r.comps \cap {"TileEntityOwner"} : r.comps[c].target \in gone} = {}
    BY <2>2 DEF Owned, Target
  <2>4. q = r
    <3>1. Without(r.comps, {}) = [c \in DOMAIN r.comps |-> r.comps[c]]
      BY DEF Without
    <3>2. Without(r.comps, {}) = r.comps
      BY <2>1, <3>1 DEF IsEnt, IsFn
    <3>3. q = [r EXCEPT !.comps = r.comps]
      BY <2>3, <3>2 DEF Unowned
    <3> HIDE DEF q
    <3>4. DOMAIN q = DOMAIN r /\ \A f \in DOMAIN r : q[f] = r[f]
      BY <3>3
    <3>5. q = [f \in DOMAIN r |-> q[f]]
      BY <3>3
    <3> QED BY <2>1, <3>4, <3>5 DEF IsEnt, IsFn
  <2> HIDE DEF q
  <2>5. Alike(r, r)
    BY <2>1 DEF Alike, Kin, IsEnt
  <2> QED BY <1>1, <2>4, <2>5 DEF r, q
<1> HIDE DEF e
<1>3. \A x \in DOMAIN e.ents : IsEnt(e.ents[x])
  BY <1>1, <1>2 DEF Tidy, IsEnt, Alike, Kin
<1>4. ASSUME NEW x \in DOMAIN e.ents, e.ents[x].type \notin {"Tile", "ByHand"} PROVE Claimed(e, x)
  <2>1. Claimed(d, x)
    BY <1>1, <1>2, <1>4 DEF Tidy, Alike, Kin
  <2>2. Alike(d.ents[x], e.ents[x]) /\ x \in DOMAIN d.ents \ gone
    BY <1>1, <1>2, <1>4
  <2>3. CASE Owned(d.ents[x])
    <3> DEFINE t == Target(d.ents[x])
    <3>1. t \in DOMAIN d.ents /\ d.ents[t].type = "Tile"
          /\ \A a \in DOMAIN d.ents : Owned(d.ents[a]) /\ Target(d.ents[a]) = t => a = x
      BY <2>1, <2>3 DEF Claimed
    <3>2. t \notin gone
      BY <2>2, <2>3
    <3> HIDE DEF t
    <3>3. Owned(e.ents[x]) /\ Target(e.ents[x]) = t /\ t \in DOMAIN e.ents /\ e.ents[t].type = "Tile"
      BY <1>1, <1>2, <2>2, <2>3, <3>1, <3>2 DEF Alike, Kin, t
    <3>4. \A a \in DOMAIN e.ents : Owned(e.ents[a]) /\ Target(e.ents[a]) = t => a = x
      BY <1>1, <1>2, <3>1 DEF Alike, Kin
    <3> QED BY <3>3, <3>4 DEF Claimed
  <2>4. CASE ~Owned(d.ents[x])
    <3>1. PICK k \in DOMAIN d.spawns : d.spawns[k].ent = x
      BY <2>1, <2>4 DEF Claimed
    <3>2. k \in DOMAIN e.spawns /\ e.spawns[k].ent = x
      BY <1>1, <2>2, <3>1
    <3>3. ~Owned(e.ents[x])
      BY <2>2, <2>4 DEF Alike, Kin
    <3> QED BY <3>2, <3>3 DEF Claimed
  <2> QED BY <2>3, <2>4
<1>5. ASSUME NEW k \in DOMAIN e.spawns PROVE IsRow(e, k)
  <2>1. IsRow(d, k) /\ e.spawns[k] = d.spawns[k] /\ d.spawns[k].ent \notin gone
    BY <1>1, <1>5 DEF Tidy
  <2>2. d.spawns[k].ent \in DOMAIN d.ents \ gone
    BY <2>1 DEF IsRow
  <2>3. Alike(d.ents[d.spawns[k].ent], e.ents[d.spawns[k].ent])
    BY <1>2, <2>2
  <2> QED BY <1>1, <2>1, <2>2, <2>3 DEF IsRow, Alike, Kin
<1>6. ASSUME NEW t \in DOMAIN e.ents, NEW u \in DOMAIN e.ents,
             e.ents[t].type = "Tile", e.ents[u].type = "Tile", Place(e.ents[t]) = Place(e.ents[u])
      PROVE  t = u
  <2>1. Alike(d.ents[t], e.ents[t]) /\ Alike(d.ents[u], e.ents[u]) /\ t \in DOMAIN d.ents /\ u \in DOMAIN d.ents
    BY <1>1, <1>2
  <2> QED BY <1>6, <2>1 DEF Tidy, Alike, Kin
<1>7. IsFiniteSet(DOMAIN e.ents)
  BY <1>1, FS_Subset DEF Tidy
<1>8. e.next \in Int /\ \A x \in DOMAIN e.ents : x \in Int /\ x < e.next
  BY <1>1 DEF Tidy
<1>9. Tidy(e)
  BY <1>0, <1>1, <1>3, <1>4, <1>5, <1>6, <1>7, <1>8 DEF Tidy, IsDb
<1> QED BY <1>1, <1>2, <1>9 DEF e

\* Nobody is owned by what is no tile.
LEMMA DeleteArtTidy ==
  ASSUME NEW d, Tidy(d), NEW gone, \A e \in gone : e \in DOMAIN d.ents => d.ents[e].type # "Tile"
  PROVE  \A e \in DOMAIN d.ents : Owned(d.ents[e]) /\ Target(d.ents[e]) \in gone => e \in gone
<1> SUFFICES ASSUME NEW e \in DOMAIN d.ents, Owned(d.ents[e]), Target(d.ents[e]) \in gone PROVE FALSE
  OBVIOUS
<1>1. d.ents[e].type \notin {"Tile", "ByHand"}
  BY DEF Tidy, IsEnt
<1>2. Claimed(d, e)
  BY <1>1 DEF Tidy
<1> QED BY <1>2 DEF Claimed

LEMMA Inserted ==
  ASSUME NEW d, Tidy(d), NEW type, NEW comps
  PROVE  LET e == Insert(d, type, comps)
             r == e.ents[d.next]
         IN  /\ IsDb(e) /\ e.next = d.next + 1 /\ e.spawns = d.spawns
             /\ d.next \notin DOMAIN d.ents /\ DOMAIN e.ents = DOMAIN d.ents \cup {d.next}
             /\ \A x \in DOMAIN d.ents : e.ents[x] = d.ents[x]
             /\ {"type", "comps"} \subseteq DOMAIN r /\ IsFn(r) /\ r.type = type /\ r.comps = comps
             /\ IsFiniteSet(DOMAIN e.ents)
             /\ e.next \in Int /\ \A x \in DOMAIN e.ents : x \in Int /\ x < e.next
<1> DEFINE e == Insert(d, type, comps)
           r == [type |-> type, comps |-> comps]
           new == d.next
<1>1. IsDb(d) /\ new \in Int /\ IsFiniteSet(DOMAIN d.ents) /\ \A x \in DOMAIN d.ents : x \in Int /\ x < new
  BY DEF Tidy, IsDb
<1>2. new \notin DOMAIN d.ents
  BY <1>1
<1>3. e = [d EXCEPT !.ents = Over(Just(new, r), d.ents), !.next = new + 1]
  BY DEF Insert
<1> HIDE DEF e, r, new
<1>4. DOMAIN e = DOMAIN d /\ e.next = new + 1 /\ e.spawns = d.spawns /\ e.ents = Over(Just(new, r), d.ents)
  BY <1>1, <1>3 DEF IsDb
<1>5. DOMAIN e.ents = DOMAIN d.ents \cup {new} /\ e.ents[new] = r /\ \A x \in DOMAIN d.ents : e.ents[x] = d.ents[x]
  BY <1>2, <1>4 DEF Over, Just
<1>6. IsFiniteSet(DOMAIN e.ents)
  BY <1>1, <1>5, FS_AddElement
<1>7. e.next \in Int /\ \A x \in DOMAIN e.ents : x \in Int /\ x < e.next
  BY <1>1, <1>4, <1>5
<1>8. {"type", "comps"} \subseteq DOMAIN r /\ IsFn(r) /\ r.type = type /\ r.comps = comps
  BY DEF r, IsFn
<1>9. IsDb(e)
  BY <1>1, <1>4 DEF IsDb
<1> QED BY <1>2, <1>4, <1>5, <1>6, <1>7, <1>8, <1>9 DEF e, new

LEMMA InsertTile ==
  ASSUME NEW d, Tidy(d), NEW comps, IsFn(comps), DOMAIN comps = {"Tile"}, {"map", "cell"} \subseteq DOMAIN comps["Tile"],
         \A t \in DOMAIN d.ents : d.ents[t].type = "Tile" => Place(d.ents[t]) # <<comps["Tile"].map, comps["Tile"].cell>>
  PROVE  Tidy(Insert(d, "Tile", comps))
<1> DEFINE e == Insert(d, "Tile", comps)
           new == d.next
           r == e.ents[new]
<1>1. /\ IsDb(e) /\ e.next = new + 1 /\ e.spawns = d.spawns
      /\ new \notin DOMAIN d.ents /\ DOMAIN e.ents = DOMAIN d.ents \cup {new}
      /\ \A x \in DOMAIN d.ents : e.ents[x] = d.ents[x]
      /\ {"type", "comps"} \subseteq DOMAIN r /\ IsFn(r) /\ r.type = "Tile" /\ r.comps = comps
      /\ IsFiniteSet(DOMAIN e.ents)
      /\ e.next \in Int /\ \A x \in DOMAIN e.ents : x \in Int /\ x < e.next
  BY Inserted
<1> HIDE DEF e, r, new
<1>2. r = e.ents[new]
  BY DEF r
<1>3. ~Owned(r) /\ IsEnt(r) /\ Place(r) = <<comps["Tile"].map, comps["Tile"].cell>>
  BY <1>1 DEF Owned, IsEnt, Place
<1>4. \A x \in DOMAIN e.ents : IsEnt(e.ents[x])
  BY <1>1, <1>2, <1>3 DEF Tidy
<1>5. ASSUME NEW x \in DOMAIN e.ents, e.ents[x].type \notin {"Tile", "ByHand"} PROVE Claimed(e, x)
  <2>1. x \in DOMAIN d.ents /\ Claimed(d, x)
    BY <1>1, <1>2, <1>5 DEF Tidy
  <2> QED BY <1>1, <1>2, <1>3, <2>1 DEF Claimed
<1>6. ASSUME NEW k \in DOMAIN e.spawns PROVE IsRow(e, k)
  <2>1. IsRow(d, k)
    BY <1>1 DEF Tidy
  <2> QED BY <1>1, <2>1 DEF IsRow
<1>7. ASSUME NEW t \in DOMAIN e.ents, NEW u \in DOMAIN e.ents,
             e.ents[t].type = "Tile", e.ents[u].type = "Tile", Place(e.ents[t]) = Place(e.ents[u])
      PROVE  t = u
  BY <1>1, <1>2, <1>3, <1>7 DEF Tidy
<1> QED BY <1>1, <1>4, <1>5, <1>6, <1>7 DEF Tidy, IsDb, e

LEMMA InsertArt ==
  ASSUME NEW d, Tidy(d), NEW t \in DOMAIN d.ents, d.ents[t].type = "Tile",
         \A a \in DOMAIN d.ents : ~(Owned(d.ents[a]) /\ Target(d.ents[a]) = t),
         NEW type, type \notin {"Tile", "ByHand"},
         NEW comps, IsFn(comps), Owned([type |-> type, comps |-> comps]), Target([type |-> type, comps |-> comps]) = t
  PROVE  Tidy(Insert(d, type, comps))
<1> DEFINE e == Insert(d, type, comps)
           new == d.next
           r == e.ents[new]
<1>1. /\ IsDb(e) /\ e.next = new + 1 /\ e.spawns = d.spawns
      /\ new \notin DOMAIN d.ents /\ DOMAIN e.ents = DOMAIN d.ents \cup {new}
      /\ \A x \in DOMAIN d.ents : e.ents[x] = d.ents[x]
      /\ {"type", "comps"} \subseteq DOMAIN r /\ IsFn(r) /\ r.type = type /\ r.comps = comps
      /\ IsFiniteSet(DOMAIN e.ents)
      /\ e.next \in Int /\ \A x \in DOMAIN e.ents : x \in Int /\ x < e.next
  BY Inserted
<1> HIDE DEF e, r, new
<1>2. r = e.ents[new]
  BY DEF r
<1>3. Owned(r) /\ Target(r) = t /\ IsEnt(r)
  BY <1>1 DEF Owned, Target, IsEnt
<1>4. \A x \in DOMAIN e.ents : IsEnt(e.ents[x])
  BY <1>1, <1>2, <1>3 DEF Tidy
<1>5. ASSUME NEW x \in DOMAIN e.ents, e.ents[x].type \notin {"Tile", "ByHand"} PROVE Claimed(e, x)
  <2>1. CASE x = new
    BY <1>1, <1>2, <1>3, <2>1 DEF Claimed
  <2>2. CASE x # new
    <3>1. x \in DOMAIN d.ents /\ Claimed(d, x) /\ e.ents[x] = d.ents[x]
      BY <1>1, <1>5, <2>2 DEF Tidy
    <3>2. CASE Owned(d.ents[x])
      <4>1. Target(d.ents[x]) # t
        BY <3>1, <3>2
      <4> QED BY <1>1, <1>2, <1>3, <3>1, <3>2, <4>1 DEF Claimed
    <3>3. CASE ~Owned(d.ents[x])
      BY <1>1, <3>1, <3>3 DEF Claimed
    <3> QED BY <3>2, <3>3
  <2> QED BY <2>1, <2>2
<1>6. ASSUME NEW k \in DOMAIN e.spawns PROVE IsRow(e, k)
  <2>1. IsRow(d, k)
    BY <1>1 DEF Tidy
  <2> QED BY <1>1, <2>1 DEF IsRow
<1>7. ASSUME NEW u \in DOMAIN e.ents, NEW v \in DOMAIN e.ents,
             e.ents[u].type = "Tile", e.ents[v].type = "Tile", Place(e.ents[u]) = Place(e.ents[v])
      PROVE  u = v
  BY <1>1, <1>2, <1>7 DEF Tidy
<1> QED BY <1>1, <1>4, <1>5, <1>6, <1>7 DEF Tidy, IsDb, e

LEMMA InsertSpawn ==
  ASSUME NEW d, Tidy(d), NEW type, type \notin {"Tile", "ByHand"}, NEW comps, IsFn(comps), "TileEntityOwner" \notin DOMAIN comps,
         NEW key, key = <<key[1], key[2]>>, key \notin DOMAIN d.spawns, NEW authored
  PROVE  Tidy(Record(Insert(d, type, comps), key, d.next, authored))
<1> DEFINE i == Insert(d, type, comps)
           new == d.next
           e == Record(i, key, new, authored)
           r == i.ents[new]
           row == [ent |-> new, authored |-> authored]
<1>1. /\ IsDb(i) /\ i.next = new + 1 /\ i.spawns = d.spawns
      /\ new \notin DOMAIN d.ents /\ DOMAIN i.ents = DOMAIN d.ents \cup {new}
      /\ \A x \in DOMAIN d.ents : i.ents[x] = d.ents[x]
      /\ {"type", "comps"} \subseteq DOMAIN r /\ IsFn(r) /\ r.type = type /\ r.comps = comps
      /\ IsFiniteSet(DOMAIN i.ents)
      /\ i.next \in Int /\ \A x \in DOMAIN i.ents : x \in Int /\ x < i.next
  BY Inserted
<1>2. r = i.ents[new] /\ e = [i EXCEPT !.spawns = Over(Just(key, row), i.spawns)]
  BY DEF Record
<1>3. {"ent", "authored"} \subseteq DOMAIN row /\ row.ent = new
  OBVIOUS
<1> HIDE DEF i, r, new, row
<1>4. DOMAIN e = DOMAIN i /\ e.next = i.next /\ e.ents = i.ents /\ e.spawns = Over(Just(key, row), i.spawns)
  BY <1>1, <1>2 DEF IsDb
<1> HIDE DEF e
<1>5. DOMAIN e.spawns = DOMAIN d.spawns \cup {key} /\ e.spawns[key] = row /\ \A k \in DOMAIN d.spawns : e.spawns[k] = d.spawns[k]
  BY <1>1, <1>4 DEF Over, Just
<1>6. ~Owned(r) /\ IsEnt(r)
  BY <1>1 DEF Owned, IsEnt
<1>7. \A x \in DOMAIN e.ents : IsEnt(e.ents[x])
  BY <1>1, <1>2, <1>4, <1>6 DEF Tidy
<1>8. ASSUME NEW x \in DOMAIN e.ents, e.ents[x].type \notin {"Tile", "ByHand"} PROVE Claimed(e, x)
  <2>1. CASE x = new
    BY <1>2, <1>3, <1>4, <1>5, <1>6, <2>1 DEF Claimed
  <2>2. CASE x # new
    <3>1. x \in DOMAIN d.ents /\ e.ents[x] = d.ents[x]
      BY <1>1, <1>4, <2>2
    <3>2. Claimed(d, x)
      BY <1>8, <3>1 DEF Tidy
    <3>3. CASE Owned(d.ents[x])
      BY <1>1, <1>2, <1>4, <1>6, <3>1, <3>2, <3>3 DEF Claimed
    <3>4. CASE ~Owned(d.ents[x])
      BY <1>5, <3>1, <3>2, <3>4 DEF Claimed
    <3> QED BY <3>3, <3>4
  <2> QED BY <2>1, <2>2
<1>9. ASSUME NEW k \in DOMAIN e.spawns PROVE IsRow(e, k)
  <2>1. \A l \in DOMAIN d.spawns : IsRow(d, l)
    BY DEF Tidy
  <2>2. \A l \in DOMAIN d.spawns : d.spawns[l].ent # new
    BY <1>1, <2>1 DEF IsRow
  <2>3. CASE k = key
    BY <1>1, <1>2, <1>3, <1>4, <1>5, <1>6, <2>2, <2>3 DEF IsRow
  <2>4. CASE k # key
    <3>1. k \in DOMAIN d.spawns /\ IsRow(d, k) /\ e.spawns[k] = d.spawns[k] /\ d.spawns[k].ent # new
      BY <1>5, <2>1, <2>2, <2>4
    <3>2. \A l \in DOMAIN e.spawns : e.spawns[l].ent = e.spawns[k].ent => l = k
      BY <1>3, <1>5, <3>1 DEF IsRow
    <3> QED BY <1>1, <1>4, <3>1, <3>2 DEF IsRow
  <2> QED BY <2>3, <2>4
<1>10. ASSUME NEW t \in DOMAIN e.ents, NEW u \in DOMAIN e.ents,
             e.ents[t].type = "Tile", e.ents[u].type = "Tile", Place(e.ents[t]) = Place(e.ents[u])
      PROVE  t = u
  BY <1>1, <1>2, <1>4, <1>10 DEF Tidy
<1>11. Tidy(e)
  BY <1>1, <1>4, <1>7, <1>8, <1>9, <1>10 DEF Tidy, IsDb
<1> QED BY <1>11 DEF e, i, new

-----------------------------------------------------------------------------
(* Tiles and their art *)

\* All but X is as it was, and every row.
Untouched(d, e, X) ==
  /\ \A x \in DOMAIN d.ents \ X : x \in DOMAIN e.ents /\ e.ents[x] = d.ents[x]
  /\ DOMAIN e.spawns = DOMAIN d.spawns /\ \A k \in DOMAIN d.spawns : e.spawns[k] = d.spawns[k]

LEMMA UntouchedChain ==
  ASSUME NEW d, NEW e, NEW f, NEW X, Untouched(d, e, X), Untouched(e, f, X)
  PROVE  Untouched(d, f, X)
BY DEF Untouched

LEMMA UntouchedMore ==
  ASSUME NEW d, NEW e, NEW X, NEW Y, Untouched(d, e, X), X \subseteq Y
  PROVE  Untouched(d, e, Y)
BY DEF Untouched

\* Tiles are where they were.
TilesStay(d, e) ==
  \A x \in DOMAIN d.ents : d.ents[x].type = "Tile" =>
    x \in DOMAIN e.ents /\ e.ents[x].type = "Tile" /\ Place(e.ents[x]) = Place(d.ents[x])

LEMMA StayChain ==
  ASSUME NEW d, NEW e, NEW f, TilesStay(d, e), TilesStay(e, f)
  PROVE  TilesStay(d, f)
BY DEF TilesStay

LEMMA ReferKeeps ==
  ASSUME NEW d, Tidy(d), NEW t, NEW refs
  PROVE  SameSight(d, Refer(d, t, refs)) /\ Tidy(Refer(d, t, refs)) /\ Untouched(d, Refer(d, t, refs), {t})
<1> DEFINE e == Refer(d, t, refs)
           q(r) == [r EXCEPT !.comps = [r.comps EXCEPT !["Tile"] = [r.comps["Tile"] EXCEPT !.refs = refs]]]
<1>1. IsDb(d)
  BY DEF Tidy, IsDb
<1>2. e = [d EXCEPT !.ents = [d.ents EXCEPT ![t] = q(d.ents[t])]]
  BY DEF Refer
<1>3. DOMAIN e = DOMAIN d /\ e.next = d.next /\ e.spawns = d.spawns /\ DOMAIN e.ents = DOMAIN d.ents
      /\ \A x \in DOMAIN d.ents : e.ents[x] = IF x = t THEN q(d.ents[t]) ELSE d.ents[x]
  <2> HIDE DEF e, q
  <2>1. DOMAIN e = DOMAIN d /\ e.next = d.next /\ e.spawns = d.spawns /\ e.ents = [d.ents EXCEPT ![t] = q(d.ents[t])]
    BY <1>1, <1>2 DEF IsDb
  <2> QED BY <2>1
<1>4. ASSUME NEW r, IsEnt(r) PROVE Alike(r, q(r))
  <2> DEFINE tile == [r.comps["Tile"] EXCEPT !.refs = refs]
             comps == [r.comps EXCEPT !["Tile"] = tile]
  <2>1. {"type", "comps"} \subseteq DOMAIN r
    BY <1>4 DEF IsEnt
  <2>2. q(r) = [r EXCEPT !.comps = comps]
    OBVIOUS
  <2>3. /\ DOMAIN comps = DOMAIN r.comps
        /\ \A c \in DOMAIN r.comps : c # "Tile" => comps[c] = r.comps[c]
        /\ "Tile" \in DOMAIN r.comps => comps["Tile"] = tile
    OBVIOUS
  <2>4. DOMAIN tile = DOMAIN r.comps["Tile"]
        /\ \A f \in DOMAIN r.comps["Tile"] : f # "refs" => tile[f] = r.comps["Tile"][f]
    OBVIOUS
  <2>0. comps = [c \in DOMAIN comps |-> comps[c]]
    OBVIOUS
  <2> HIDE DEF tile, comps
  <2> DEFINE new == q(r)
  <2>5. DOMAIN new = DOMAIN r /\ new.type = r.type /\ new.comps = comps
    BY <2>1, <2>2
  <2> HIDE DEF new
  <2>6. Owned(new) <=> Owned(r)
    BY <2>3, <2>5 DEF Owned
  <2>7. Owned(r) => Target(new) = Target(r)
    BY <2>3, <2>5 DEF Owned, Target
  <2>8. ASSUME r.type = "Tile"
        PROVE  "Tile" \in DOMAIN new.comps /\ {"map", "cell"} \subseteq DOMAIN new.comps["Tile"] /\ Place(new) = Place(r)
    <3>1. "Tile" \in DOMAIN r.comps /\ {"map", "cell"} \subseteq DOMAIN r.comps["Tile"]
      BY <1>4, <2>8 DEF IsEnt
    <3>2. "map" \in DOMAIN r.comps["Tile"] /\ "cell" \in DOMAIN r.comps["Tile"] /\ "map" # "refs" /\ "cell" # "refs"
      BY <3>1
    <3>3. tile.map = r.comps["Tile"].map /\ tile.cell = r.comps["Tile"].cell
      BY <2>4, <3>2
    <3> QED BY <2>3, <2>4, <2>5, <3>1, <3>3 DEF Place
  <2>9. Alike(r, new)
    <3>1. IsFn(new)
      BY <2>1, <2>2 DEF IsFn, new
    <3>2. IsFn(new.comps)
      BY <2>5, <2>0 DEF IsFn
    <3> QED BY <2>1, <2>5, <2>6, <2>7, <2>8, <3>1, <3>2 DEF Alike, Kin
  <2> QED BY <2>9 DEF new
<1> HIDE DEF q
<1>5. ASSUME NEW r, IsEnt(r) PROVE Alike(r, r)
  BY <1>5 DEF Alike, Kin, IsEnt
<1>6. \A x \in DOMAIN d.ents : IsEnt(d.ents[x])
  BY DEF Tidy
<1> HIDE DEF e
<1>7. \A x \in DOMAIN d.ents : Alike(d.ents[x], e.ents[x])
  BY <1>3, <1>4, <1>5, <1>6
<1>8. SameRows(d, e)
  BY <1>3 DEF SameRows, Tidy, IsRow
<1>9. SameSight(d, e)
  BY <1>1, <1>3, <1>7, <1>8 DEF SameSight, SameKin, Alike, IsDb
<1>10. Untouched(d, e, {t})
  BY <1>3 DEF Untouched
<1> QED BY <1>9, <1>10, SightKeeps DEF e

TilesWithin(d, e) ==
  \A t \in DOMAIN e.ents : e.ents[t].type = "Tile" =>
    t \in DOMAIN d.ents /\ d.ents[t].type = "Tile" /\ Place(e.ents[t]) = Place(d.ents[t])

\* A load that was not refused has one tile of this map in a cell.
Single(d) == \A c \in ToSet(CellSeq) : \A t, u \in TilesAt(d, c) : t = u

LEMMA TilesAtFacts ==
  ASSUME NEW d, NEW c, NEW t
  PROVE  t \in TilesAt(d, c) <=> /\ t \in DOMAIN d.ents /\ d.ents[t].type = "Tile"
                                /\ Place(d.ents[t])[1] \in {Key, file.path} /\ Place(d.ents[t])[2] = c
BY DEF TilesAt, OurTiles, IsTile, MapOf, Place

LEMMA WithinSingle ==
  ASSUME NEW d, NEW e, Single(d), TilesWithin(d, e)
  PROVE  Single(e)
<1>1. ASSUME NEW c, NEW t \in TilesAt(e, c) PROVE t \in TilesAt(d, c)
  <2>1. t \in DOMAIN e.ents /\ e.ents[t].type = "Tile"
        /\ Place(e.ents[t])[1] \in {Key, file.path} /\ Place(e.ents[t])[2] = c
    BY <1>1, TilesAtFacts
  <2> QED BY <2>1, TilesAtFacts DEF TilesWithin
<1> QED BY <1>1 DEF Single

LEMMA SightWithin ==
  ASSUME NEW d, NEW e, SameSight(d, e)
  PROVE  TilesWithin(d, e)
BY DEF SameSight, SameKin, Alike, Kin, TilesWithin

LEMMA SightStay ==
  ASSUME NEW d, NEW e, SameSight(d, e)
  PROVE  TilesStay(d, e)
BY DEF SameSight, SameKin, Alike, Kin, TilesStay

LEMMA WithinChain ==
  ASSUME NEW d, NEW e, NEW f, TilesWithin(d, e), TilesWithin(e, f)
  PROVE  TilesWithin(d, f)
BY DEF TilesWithin

LEMMA DeleteWithin ==
  ASSUME NEW d, Tidy(d), NEW gone,
         \A e \in DOMAIN d.ents : Owned(d.ents[e]) /\ Target(d.ents[e]) \in gone => e \in gone
  PROVE  TilesWithin(d, DeleteAll(d, gone))
BY DeleteTidy DEF TilesWithin

\* What has no row goes, and the rows stay.
LEMMA DeleteUntouched ==
  ASSUME NEW d, Tidy(d), NEW gone,
         \A e \in DOMAIN d.ents : Owned(d.ents[e]) /\ Target(d.ents[e]) \in gone => e \in gone,
         \A k \in DOMAIN d.spawns : d.spawns[k].ent \notin gone
  PROVE  Untouched(d, DeleteAll(d, gone), gone)
<1>1. /\ DOMAIN DeleteAll(d, gone).ents = DOMAIN d.ents \ gone
      /\ \A e \in DOMAIN d.ents \ gone : DeleteAll(d, gone).ents[e] = d.ents[e]
      /\ DOMAIN DeleteAll(d, gone).spawns = {k \in DOMAIN d.spawns : d.spawns[k].ent \notin gone}
      /\ \A k \in DOMAIN DeleteAll(d, gone).spawns : DeleteAll(d, gone).spawns[k] = d.spawns[k]
  BY DeleteTidy
<1> QED BY <1>1 DEF Untouched

LEMMA ArtOfFacts ==
  ASSUME NEW d, NEW t, NEW a
  PROVE  a \in ArtOf(d, t) <=> a \in DOMAIN d.ents /\ Owned(d.ents[a]) /\ Target(d.ents[a]) = t
BY DEF ArtOf, Owned, Target

LEMMA ArtIsNoTile ==
  ASSUME NEW d, Tidy(d), NEW t, NEW a \in ArtOf(d, t)
  PROVE  a \in DOMAIN d.ents /\ d.ents[a].type \notin {"Tile", "ByHand"}
BY ArtOfFacts DEF Tidy, IsEnt

LEMMA ArtOwned ==
  ASSUME NEW c, NEW t
  PROVE  "TileEntityOwner" \in DOMAIN ArtComps(c, t) /\ ArtComps(c, t)["TileEntityOwner"] = [target |-> t]
BY DEF ArtComps, Over, Just

LEMMA MadeAreFunctions ==
  /\ \A f, g : IsFn(Over(f, g))
  /\ \A x, v : IsFn(Just(x, v))
  /\ \A f, S : IsFn(Without(f, S))
  /\ \A comps, given : IsFn(Rewrite(comps, given))
BY DEF IsFn, Over, Just, Without, Rewrite, Written

LEMMA AddArtKeeps ==
  ASSUME NEW d, Tidy(d), NEW t \in DOMAIN d.ents, d.ents[t].type = "Tile", ArtOf(d, t) = {},
         NEW c \in Painted, FileIsOfSpawns(file)
  PROVE  /\ Tidy(AddArt(d, t, c)) /\ TilesWithin(d, AddArt(d, t, c))
         /\ TilesStay(d, AddArt(d, t, c)) /\ Untouched(d, AddArt(d, t, c), {t})
<1> DEFINE type == file.tiles[c].type
           comps == ArtComps(c, t)
           r == [type |-> type, comps |-> comps]
           made == Insert(d, type, comps)
           noted == [made EXCEPT !.art = Over(Just(d.next, DOMAIN comps), @)]
<1>1. type \notin {"Tile", "ByHand"}
  BY DEF FileIsOfSpawns, Painted
<1>2. Owned(r) /\ Target(r) = t
  <2>1. r.comps = comps
    OBVIOUS
  <2>2. "TileEntityOwner" \in DOMAIN comps /\ comps["TileEntityOwner"] = [target |-> t]
    BY ArtOwned
  <2> HIDE DEF r, comps
  <2> QED BY <2>1, <2>2 DEF Owned, Target
<1>3. \A a \in DOMAIN d.ents : ~(Owned(d.ents[a]) /\ Target(d.ents[a]) = t)
  BY ArtOfFacts
<1>4. AddArt(d, t, c) = Refer(noted, t, <<d.next>>)
  BY DEF AddArt
<1>0. IsFn(comps)
  BY MadeAreFunctions DEF ArtComps
<1> HIDE DEF type, comps
<1>5. Tidy(made)
  BY <1>0, <1>1, <1>2, <1>3, InsertArt
<1>6. TilesWithin(d, made) /\ TilesStay(d, made) /\ Untouched(d, made, {t})
  <2>1. /\ DOMAIN made.ents = DOMAIN d.ents \cup {d.next} /\ made.ents[d.next].type = type
        /\ \A x \in DOMAIN d.ents : made.ents[x] = d.ents[x]
        /\ made.spawns = d.spawns
    BY Inserted
  <2> HIDE DEF made
  <2> QED BY <1>1, <2>1 DEF TilesWithin, TilesStay, Untouched
<1> HIDE DEF made
<1>7. DOMAIN noted = DOMAIN made /\ noted.ents = made.ents /\ noted.spawns = made.spawns /\ noted.next = made.next
  BY <1>5 DEF Tidy
<1> HIDE DEF noted
<1>8. Tidy(noted) /\ TilesWithin(made, noted) /\ TilesStay(made, noted) /\ Untouched(made, noted, {t})
  BY <1>5, <1>7 DEF Tidy, TilesWithin, TilesStay, Untouched, IsRow, Claimed
<1>9. /\ Tidy(Refer(noted, t, <<d.next>>)) /\ TilesWithin(noted, Refer(noted, t, <<d.next>>))
      /\ TilesStay(noted, Refer(noted, t, <<d.next>>)) /\ Untouched(noted, Refer(noted, t, <<d.next>>), {t})
  BY <1>8, ReferKeeps, SightWithin, SightStay
<1>10. TilesWithin(made, Refer(noted, t, <<d.next>>))
  BY <1>8, <1>9, WithinChain
<1>11. TilesWithin(d, Refer(noted, t, <<d.next>>))
  BY <1>6, <1>10, WithinChain
<1>12. TilesStay(d, Refer(noted, t, <<d.next>>))
  BY <1>6, <1>8, <1>9, StayChain
<1>13. Untouched(d, Refer(noted, t, <<d.next>>), {t})
  BY <1>6, <1>8, <1>9, UntouchedChain
<1> QED BY <1>4, <1>9, <1>11, <1>12, <1>13
LEMMA KinArt ==
  ASSUME NEW d, NEW e, SameKin(d, e), NEW t
  PROVE  ArtOf(e, t) = ArtOf(d, t)
BY DEF SameKin, Kin, ArtOf, Owned, Target

LEMMA SetTileKeeps ==
  ASSUME NEW d, Tidy(d), Single(d), NEW c \in ToSet(CellSeq), NEW t \in TilesAt(d, c)
  PROVE  /\ SameKin(d, SetTile(d, t, c)) /\ Tidy(SetTile(d, t, c)) /\ Single(SetTile(d, t, c))
         /\ Untouched(d, SetTile(d, t, c), {t}) /\ Place(SetTile(d, t, c).ents[t]) = <<Key, c>>
<1> DEFINE e == SetTile(d, t, c)
           r == d.ents[t]
           tile == Over(TileSays(c), r.comps["Tile"])
           comps == [r.comps EXCEPT !["Tile"] = tile]
           q == [r EXCEPT !.comps = comps]
<1>1. IsDb(d) /\ t \in DOMAIN d.ents /\ r.type = "Tile" /\ IsEnt(r)
      /\ Place(r)[1] \in {Key, file.path} /\ Place(r)[2] = c
  BY TilesAtFacts DEF Tidy, IsDb
<1>2. e = [d EXCEPT !.ents = [d.ents EXCEPT ![t] = q]]
  BY DEF SetTile
<1>3. "map" \in DOMAIN tile /\ "cell" \in DOMAIN tile /\ tile.map = Key /\ tile.cell = c
  BY DEF Over, TileSays
<1> HIDE DEF tile
<1>4. DOMAIN comps = DOMAIN r.comps /\ comps["Tile"] = tile
      /\ \A x \in DOMAIN r.comps : x # "Tile" => comps[x] = r.comps[x]
  BY <1>1 DEF IsEnt
<1>0. IsFn(comps)
  BY DEF IsFn
<1> HIDE DEF comps
<1>5. DOMAIN q = DOMAIN r /\ q.type = r.type /\ q.comps = comps /\ IsFn(q)
  BY <1>1 DEF IsEnt, IsFn
<1> HIDE DEF q, e
<1>6. DOMAIN e = DOMAIN d /\ e.next = d.next /\ e.spawns = d.spawns /\ e.ents = [d.ents EXCEPT ![t] = q]
  BY <1>1, <1>2 DEF IsDb
<1>7. DOMAIN e.ents = DOMAIN d.ents /\ \A x \in DOMAIN d.ents : e.ents[x] = IF x = t THEN q ELSE d.ents[x]
  BY <1>6
<1> HIDE DEF r
<1>8. Kin(r, q) /\ Place(q) = <<Key, c>>
  BY <1>0, <1>1, <1>3, <1>4, <1>5 DEF Kin, IsEnt, Owned, Target, Place
<1>9. \A x \in DOMAIN d.ents : IsEnt(d.ents[x])
  BY DEF Tidy
<1>10. \A x \in DOMAIN d.ents : x # t => Kin(d.ents[x], d.ents[x])
  BY <1>9 DEF Kin, IsEnt
<1>11. \A x \in DOMAIN d.ents : Kin(d.ents[x], e.ents[x])
  BY <1>7, <1>8, <1>10 DEF r
<1>12. SameRows(d, e)
  BY <1>6 DEF SameRows, Tidy, IsRow
<1>13. SameKin(d, e)
  BY <1>1, <1>6, <1>7, <1>11, <1>12 DEF SameKin, IsDb
<1>14. ASSUME NEW b, NEW u \in TilesAt(e, b) PROVE u \in TilesAt(d, b)
  <2>1. u \in DOMAIN e.ents /\ e.ents[u].type = "Tile"
        /\ Place(e.ents[u])[1] \in {Key, file.path} /\ Place(e.ents[u])[2] = b
    BY <1>14, TilesAtFacts
  <2>2. CASE u = t
    BY <1>1, <1>7, <1>8, <2>1, <2>2
  <2>3. CASE u # t
    BY <1>7, <2>1, <2>3, TilesAtFacts
  <2> QED BY <2>2, <2>3
<1>15. Single(e)
  BY <1>14 DEF Single
<1>16. PlacesApart(e)
  <2> SUFFICES ASSUME NEW u \in DOMAIN e.ents, NEW v \in DOMAIN e.ents,
                      e.ents[u].type = "Tile", e.ents[v].type = "Tile", Place(e.ents[u]) = Place(e.ents[v])
               PROVE  u = v
    BY DEF PlacesApart
  <2>1. ASSUME NEW x \in DOMAIN e.ents, e.ents[x].type = "Tile", Place(e.ents[x]) = <<Key, c>> PROVE x = t
    <3>1. x \in TilesAt(e, c)
      BY <2>1, TilesAtFacts
    <3>2. x \in TilesAt(d, c)
      BY <1>14, <3>1
    <3> QED BY <3>2 DEF Single
  <2>2. CASE u = t \/ v = t
    <3>1. Place(e.ents[t]) = <<Key, c>>
      BY <1>1, <1>7, <1>8
    <3> QED BY <2>1, <2>2, <3>1
  <2>3. CASE u # t /\ v # t
    BY <1>7, <2>3 DEF Tidy
  <2> QED BY <2>2, <2>3
<1>17. Tidy(e)
  BY <1>13, <1>16, KinKeeps
<1>18. Untouched(d, e, {t}) /\ Place(e.ents[t]) = <<Key, c>>
  BY <1>1, <1>6, <1>7, <1>8 DEF Untouched
<1> QED BY <1>13, <1>15, <1>17, <1>18 DEF e

LEMMA RewriteOwner ==
  ASSUME NEW comps, NEW c, NEW t
  PROVE  /\ "TileEntityOwner" \in DOMAIN Rewrite(comps, ArtComps(c, t))
         /\ Rewrite(comps, ArtComps(c, t))["TileEntityOwner"].target = t
<1>1. "TileEntityOwner" \in DOMAIN ArtComps(c, t) /\ ArtComps(c, t)["TileEntityOwner"] = [target |-> t]
  BY ArtOwned
<1> DEFINE given == ArtComps(c, t)
           owner == given["TileEntityOwner"]
<1>2. "target" \in DOMAIN owner /\ owner.target = t
  BY <1>1
<1> HIDE DEF given
<1>3. \A o : Over(owner, o).target = t
  BY <1>2 DEF Over
<1>4. "TileEntityOwner" \in DOMAIN Rewrite(comps, given)
      /\ Rewrite(comps, given)["TileEntityOwner"] \in {owner, Over(owner, comps["TileEntityOwner"])}
  BY <1>1 DEF Rewrite, Written, given
<1>5. "TileEntityOwner" \in DOMAIN Rewrite(comps, given) /\ Rewrite(comps, given)["TileEntityOwner"].target = t
  <2> HIDE DEF owner
  <2> QED BY <1>2, <1>3, <1>4
<1> QED BY <1>5 DEF given

\* What is neither a tile nor seen otherwise is anything.
LEMMA ChangeKeeps ==
  ASSUME NEW d, Tidy(d), NEW e, NEW a \in DOMAIN d.ents, NEW comps, IsFn(comps),
         DOMAIN e = DOMAIN d, e.next = d.next, SameRows(d, e),
         e.ents = [d.ents EXCEPT ![a].comps = comps],
         d.ents[a].type # "Tile",
         "TileEntityOwner" \in DOMAIN comps <=> Owned(d.ents[a]),
         Owned(d.ents[a]) => comps["TileEntityOwner"].target = Target(d.ents[a])
  PROVE  SameSight(d, e) /\ Tidy(e)
<1> DEFINE r == d.ents[a]
           q == [r EXCEPT !.comps = comps]
<1>1. IsEnt(r) /\ IsDb(d)
  BY DEF Tidy, IsDb
<1>2. e.ents = [d.ents EXCEPT ![a] = q]
  OBVIOUS
<1>3. DOMAIN q = DOMAIN r /\ q.type = r.type /\ q.comps = comps /\ IsFn(q)
  BY <1>1 DEF IsEnt, IsFn
<1>4. Alike(r, q)
  <2> HIDE DEF q
  <2> QED BY <1>1, <1>3 DEF Alike, Kin, Owned, Target, IsEnt
<1> HIDE DEF q
<1>5. DOMAIN e.ents = DOMAIN d.ents /\ \A x \in DOMAIN d.ents : e.ents[x] = IF x = a THEN q ELSE d.ents[x]
  BY <1>2
<1>6. \A x \in DOMAIN d.ents : IsEnt(d.ents[x])
  BY DEF Tidy
<1>7. ASSUME NEW x \in DOMAIN d.ents PROVE Alike(d.ents[x], e.ents[x])
  <2>1. CASE x = a
    BY <1>4, <1>5, <2>1
  <2>2. CASE x # a
    BY <1>5, <1>6, <2>2 DEF Alike, Kin, IsEnt
  <2> QED BY <2>1, <2>2
<1>8. SameSight(d, e)
  BY <1>1, <1>5, <1>7 DEF SameSight, SameKin, Alike, IsDb
<1> QED BY <1>8, SightKeeps
\* The art of a tile goes.
LEMMA ClearArt ==
  ASSUME NEW d, Tidy(d), NEW t \in DOMAIN d.ents, d.ents[t].type = "Tile"
  PROVE  LET e == DeleteAll(d, ArtOf(d, t))
         IN  /\ Tidy(e) /\ TilesWithin(d, e) /\ TilesStay(d, e) /\ Untouched(d, e, ArtOf(d, t))
             /\ t \in DOMAIN e.ents /\ e.ents[t].type = "Tile" /\ ArtOf(e, t) = {}
<1> DEFINE gone == ArtOf(d, t)
           e == DeleteAll(d, gone)
<1>1. \A a \in gone : a \in DOMAIN d.ents /\ d.ents[a].type # "Tile"
  BY ArtIsNoTile
<1>2. \A a \in DOMAIN d.ents : Owned(d.ents[a]) /\ Target(d.ents[a]) = t => a \in gone
  BY ArtOfFacts
<1>8. \A k \in DOMAIN d.spawns : d.spawns[k].ent \notin gone
  BY ArtOfFacts DEF Tidy, IsRow
<1> HIDE DEF gone
<1>3. \A a \in DOMAIN d.ents : Owned(d.ents[a]) /\ Target(d.ents[a]) \in gone => a \in gone
  BY <1>1, DeleteArtTidy
<1>4. /\ Tidy(e) /\ TilesWithin(d, e) /\ DOMAIN e.ents = DOMAIN d.ents \ gone
      /\ \A a \in DOMAIN d.ents \ gone : e.ents[a] = d.ents[a]
  BY <1>3, DeleteTidy, DeleteWithin
<1>5. t \in DOMAIN d.ents \ gone
  BY <1>1
<1> HIDE DEF e
<1>6. t \in DOMAIN e.ents /\ e.ents[t].type = "Tile"
  BY <1>4, <1>5
<1>7. ASSUME NEW a \in ArtOf(e, t) PROVE FALSE
  <2>1. a \in DOMAIN e.ents /\ Owned(e.ents[a]) /\ Target(e.ents[a]) = t
    BY ArtOfFacts
  <2>2. a \in DOMAIN d.ents \ gone /\ Owned(d.ents[a]) /\ Target(d.ents[a]) = t
    BY <1>4, <2>1
  <2> QED BY <1>2, <2>2
<1>9. TilesStay(d, e)
  BY <1>1, <1>4 DEF TilesStay
<1>10. Untouched(d, e, gone)
  BY <1>3, <1>8, DeleteUntouched DEF e
<1> QED BY <1>4, <1>6, <1>7, <1>9, <1>10 DEF e, gone

LEMMA UpdateArtKeeps ==
  ASSUME NEW d, Tidy(d), NEW t \in DOMAIN d.ents, d.ents[t].type = "Tile",
         NEW c \in Painted, FileIsOfSpawns(file)
  PROVE  /\ Tidy(UpdateArt(d, t, c)) /\ TilesWithin(d, UpdateArt(d, t, c))
         /\ TilesStay(d, UpdateArt(d, t, c)) /\ Untouched(d, UpdateArt(d, t, c), {t} \cup ArtOf(d, t))
<1> DEFINE a == Art(d, t)
           gone == NoLonger(IF a \in DOMAIN d.art THEN d.art[a] ELSE Unknown, ArtComps(c, t), file.tiles[c].type)
           old == d.ents[a].comps
           comps == Rewrite(Without(old, gone), ArtComps(c, t))
           art == Over(Just(a, DOMAIN ArtComps(c, t)), d.art)
           anew == ArtOf(d, t) = {} \/ d.ents[a].type # file.tiles[c].type
           cleared == DeleteAll(d, ArtOf(d, t))
<1>1. CASE anew
  <2>1. UpdateArt(d, t, c) = AddArt(cleared, t, c)
    BY <1>1 DEF UpdateArt
  <2>2. Tidy(cleared) /\ TilesWithin(d, cleared) /\ t \in DOMAIN cleared.ents
        /\ cleared.ents[t].type = "Tile" /\ ArtOf(cleared, t) = {}
        /\ TilesStay(d, cleared) /\ Untouched(d, cleared, ArtOf(d, t))
    BY ClearArt
  <2> HIDE DEF cleared
  <2>3. /\ Tidy(AddArt(cleared, t, c)) /\ TilesWithin(cleared, AddArt(cleared, t, c))
        /\ TilesStay(cleared, AddArt(cleared, t, c)) /\ Untouched(cleared, AddArt(cleared, t, c), {t})
    BY <2>2, AddArtKeeps
  <2>4. Untouched(d, AddArt(cleared, t, c), {t} \cup ArtOf(d, t))
    <3>1. Untouched(d, cleared, {t} \cup ArtOf(d, t)) /\ Untouched(cleared, AddArt(cleared, t, c), {t} \cup ArtOf(d, t))
      BY <2>2, <2>3, UntouchedMore
    <3> QED BY <3>1, UntouchedChain
  <2> QED BY <2>1, <2>2, <2>3, <2>4, WithinChain, StayChain
<1>2. CASE ~anew
  <2> DEFINE e == [d EXCEPT !.ents[a].comps = comps, !.art = art]
  <2>1. UpdateArt(d, t, c) = e
    BY <1>2 DEF UpdateArt
  <2>2. a \in ArtOf(d, t)
    BY <1>2 DEF Art
  <2>3. "TileEntityOwner" \in DOMAIN comps /\ comps["TileEntityOwner"].target = t
    BY RewriteOwner
  <2>9. IsFn(comps)
    BY MadeAreFunctions
  <2> HIDE DEF comps, art, a
  <2>4. a \in DOMAIN d.ents /\ d.ents[a].type # "Tile" /\ Owned(d.ents[a]) /\ Target(d.ents[a]) = t
    BY <2>2, ArtOfFacts, ArtIsNoTile
  <2>5. IsDb(d)
    BY DEF Tidy, IsDb
  <2>6. DOMAIN e = DOMAIN d /\ e.next = d.next /\ e.spawns = d.spawns /\ e.ents = [d.ents EXCEPT ![a].comps = comps]
    BY <2>5 DEF IsDb
  <2> HIDE DEF e
  <2>7. SameRows(d, e)
    BY <2>6 DEF SameRows, Tidy, IsRow
  <2>8. SameSight(d, e) /\ Tidy(e)
    BY <2>3, <2>4, <2>6, <2>7, <2>9, ChangeKeeps
  <2>10. Untouched(d, e, {t} \cup ArtOf(d, t))
    BY <2>2, <2>6 DEF Untouched
  <2> QED BY <2>1, <2>8, <2>10, SightWithin, SightStay
<1> QED BY <1>1, <1>2

\* What painting a cell may touch, and what it leaves there.
Mine(d, c) == TilesAt(d, c) \cup UNION {ArtOf(d, t) : t \in TilesAt(d, c)}
HasTile(d, c) == \E t \in DOMAIN d.ents : d.ents[t].type = "Tile" /\ Place(d.ents[t]) = <<Key, c>>
PaintedWell(d, e, c) ==
  /\ Tidy(e) /\ Single(e) /\ Untouched(d, e, Mine(d, c))
  /\ c \in Painted => HasTile(e, c)

LEMMA StayHas ==
  ASSUME NEW d, NEW e, TilesStay(d, e), NEW c, HasTile(d, c)
  PROVE  HasTile(e, c)
BY DEF TilesStay, HasTile

LEMMA MineHasNoRow ==
  ASSUME NEW d, Tidy(d), NEW c, NEW k \in DOMAIN d.spawns
  PROVE  d.spawns[k].ent \notin Mine(d, c)
<1> DEFINE x == d.spawns[k].ent
<1>1. d.ents[x].type # "Tile" /\ ~Owned(d.ents[x])
  BY DEF Tidy, IsRow
<1> HIDE DEF x
<1>2. x \notin TilesAt(d, c)
  BY <1>1, TilesAtFacts
<1>3. \A t : x \notin ArtOf(d, t)
  BY <1>1, ArtOfFacts
<1>4. x \notin Mine(d, c)
  BY <1>2, <1>3 DEF Mine
<1> QED BY <1>4 DEF x

LEMMA PaintCellKeeps ==
  ASSUME NEW d, Tidy(d), Single(d), NEW c \in ToSet(CellSeq), FileIsOfSpawns(file)
  PROVE  PaintedWell(d, PaintCell(d, c), c)
<1>1. CASE c \notin Painted
  <2> DEFINE gone == Mine(d, c)
  <2>1. PaintCell(d, c) = DeleteAll(d, gone)
    BY <1>1 DEF PaintCell, Mine
  <2>2. ASSUME NEW a \in DOMAIN d.ents, Owned(d.ents[a]), Target(d.ents[a]) \in gone PROVE a \in gone
    <3> DEFINE t == Target(d.ents[a])
    <3>1. d.ents[a].type \notin {"Tile", "ByHand"}
      BY <2>2 DEF Tidy, IsEnt
    <3>2. Claimed(d, a)
      BY <3>1 DEF Tidy
    <3>3. d.ents[t].type = "Tile"
      BY <2>2, <3>2 DEF Claimed
    <3>4. t \in TilesAt(d, c)
      BY <2>2, <3>3, ArtIsNoTile DEF Mine
    <3>5. a \in ArtOf(d, t)
      BY <2>2, ArtOfFacts
    <3> QED BY <3>4, <3>5 DEF Mine
  <2>4. \A k \in DOMAIN d.spawns : d.spawns[k].ent \notin gone
    BY MineHasNoRow
  <2> HIDE DEF gone
  <2>3. Tidy(DeleteAll(d, gone)) /\ TilesWithin(d, DeleteAll(d, gone))
    BY <2>2, DeleteTidy, DeleteWithin
  <2>5. Untouched(d, DeleteAll(d, gone), gone)
    BY <2>2, <2>4, DeleteUntouched
  <2>6. Single(DeleteAll(d, gone))
    BY <2>3, WithinSingle
  <2> QED BY <1>1, <2>1, <2>3, <2>5, <2>6 DEF PaintedWell, gone
<1>2. CASE c \in Painted /\ TilesAt(d, c) = {}
  <2> DEFINE comps == Just("Tile", Over(TileSays(c), [refs |-> <<>>]))
             placed == Insert(d, "Tile", comps)
             new == d.next
  <2>1. PaintCell(d, c) = IF Shared(c) THEN placed ELSE AddArt(placed, new, c)
    BY <1>2 DEF PaintCell
  <2>2. DOMAIN comps = {"Tile"} /\ {"map", "cell"} \subseteq DOMAIN comps["Tile"]
        /\ comps["Tile"].map = Key /\ comps["Tile"].cell = c
    BY DEF Just, Over, TileSays
  <2>0. IsFn(comps)
    BY MadeAreFunctions
  <2> HIDE DEF comps
  <2>3. \A t \in DOMAIN d.ents : d.ents[t].type = "Tile" => Place(d.ents[t]) # <<comps["Tile"].map, comps["Tile"].cell>>
    <3> SUFFICES ASSUME NEW t \in DOMAIN d.ents, d.ents[t].type = "Tile", Place(d.ents[t]) = <<Key, c>> PROVE FALSE
      BY <2>2
    <3>1. Place(d.ents[t])[1] = Key /\ Place(d.ents[t])[2] = c
      OBVIOUS
    <3>2. t \in TilesAt(d, c)
      BY <3>1, TilesAtFacts
    <3> QED BY <1>2, <3>2
  <2>4. Tidy(placed)
    BY <2>0, <2>2, <2>3, InsertTile
  <2>5. /\ new \notin DOMAIN d.ents /\ DOMAIN placed.ents = DOMAIN d.ents \cup {new}
        /\ \A x \in DOMAIN d.ents : placed.ents[x] = d.ents[x]
        /\ placed.ents[new].type = "Tile" /\ placed.ents[new].comps = comps
        /\ placed.spawns = d.spawns
    BY Inserted
  <2> HIDE DEF placed, new
  <2>6. Place(placed.ents[new]) = <<Key, c>>
    BY <2>2, <2>5 DEF Place
  <2>7. ASSUME NEW b, NEW t \in TilesAt(placed, b), t # new PROVE t \in TilesAt(d, b)
    BY <2>5, <2>7, TilesAtFacts
  <2>8. ASSUME NEW b, new \in TilesAt(placed, b) PROVE b = c
    BY <2>6, <2>8, TilesAtFacts
  <2>9. Single(placed)
    <3> SUFFICES ASSUME NEW b \in ToSet(CellSeq), NEW t \in TilesAt(placed, b), NEW u \in TilesAt(placed, b)
                 PROVE  t = u
      BY DEF Single
    <3>1. CASE t # new /\ u # new
      BY <2>7, <3>1 DEF Single
    <3>2. CASE t = new \/ u = new
      <4>1. b = c
        BY <2>8, <3>2
      <4> QED BY <1>2, <2>7, <4>1
    <3> QED BY <3>1, <3>2
  <2>12. Mine(d, c) = {}
    BY <1>2 DEF Mine
  <2>13. HasTile(placed, c)
    BY <2>5, <2>6 DEF HasTile
  <2>10. CASE Shared(c)
    <3>1. Untouched(d, placed, {})
      BY <2>5 DEF Untouched
    <3> QED BY <2>1, <2>4, <2>9, <2>10, <2>12, <2>13, <3>1 DEF PaintedWell
  <2>11. CASE ~Shared(c)
    <3>1. ArtOf(placed, new) = {}
      <4> SUFFICES ASSUME NEW a \in ArtOf(placed, new) PROVE FALSE
        OBVIOUS
      <4>1. a \in DOMAIN placed.ents /\ Owned(placed.ents[a]) /\ Target(placed.ents[a]) = new
            /\ placed.ents[a].type \notin {"Tile", "ByHand"}
        BY <2>4, ArtOfFacts, ArtIsNoTile
      <4>2. a \in DOMAIN d.ents /\ Owned(d.ents[a]) /\ Target(d.ents[a]) = new
            /\ d.ents[a].type \notin {"Tile", "ByHand"}
        BY <2>5, <4>1
      <4>3. Claimed(d, a)
        BY <4>2 DEF Tidy
      <4> QED BY <2>5, <4>2, <4>3 DEF Claimed
    <3> DEFINE e == AddArt(placed, new, c)
    <3>2. Tidy(e) /\ TilesWithin(placed, e) /\ TilesStay(placed, e) /\ Untouched(placed, e, {new})
      BY <1>2, <2>4, <2>5, <3>1, AddArtKeeps
    <3> HIDE DEF e
    <3>3. Single(e)
      BY <2>9, <3>2, WithinSingle
    <3>4. Untouched(d, e, {})
      BY <2>5, <3>2 DEF Untouched
    <3>5. HasTile(e, c)
      BY <2>13, <3>2, StayHas
    <3> QED BY <2>1, <2>11, <2>12, <3>2, <3>3, <3>4, <3>5 DEF PaintedWell, e
  <2> QED BY <2>10, <2>11
<1>3. CASE c \in Painted /\ TilesAt(d, c) # {}
  <2> DEFINE t == CHOOSE x \in TilesAt(d, c) : TRUE
             set == SetTile(d, t, c)
             cleared == DeleteAll(set, ArtOf(set, t))
  <2>1. t \in TilesAt(d, c)
    BY <1>3
  <2>2. /\ SameKin(d, set) /\ Tidy(set) /\ Single(set)
        /\ Untouched(d, set, {t}) /\ Place(set.ents[t]) = <<Key, c>>
    BY <2>1, SetTileKeeps
  <2>3. t \in DOMAIN d.ents /\ d.ents[t].type = "Tile" /\ Place(d.ents[t])[2] = c
    BY <2>1, TilesAtFacts
  <2>4. ArtOf(set, t) = ArtOf(d, t)
    BY <2>2, KinArt
  <2>5. PaintCell(d, c) = IF TileIsFile(d, t, c) THEN d
           ELSE IF ~Shared(c) THEN UpdateArt(set, t, c)
           ELSE IF ArtOf(d, t) = {} THEN set
           ELSE Refer(cleared, t, <<>>)
    BY <1>3, <2>4 DEF PaintCell
  <2> HIDE DEF set, t
  <2>6. t \in DOMAIN set.ents /\ set.ents[t].type = "Tile"
    BY <2>2, <2>3 DEF SameKin, Kin
  <2>7. {t} \subseteq Mine(d, c) /\ ArtOf(d, t) \subseteq Mine(d, c)
    BY <2>1 DEF Mine
  <2>8. HasTile(set, c) /\ Untouched(d, set, Mine(d, c))
    BY <2>2, <2>6, <2>7, UntouchedMore DEF HasTile
  \* Whatever else becomes of the tile and its art.
  <2>9. ASSUME NEW e, Tidy(e), TilesWithin(set, e), TilesStay(set, e), Untouched(set, e, {t} \cup ArtOf(d, t))
        PROVE  PaintedWell(d, e, c)
    <3>1. Untouched(set, e, Mine(d, c))
      BY <2>7, <2>9, UntouchedMore
    <3>2. Untouched(d, e, Mine(d, c))
      BY <2>8, <3>1, UntouchedChain
    <3>3. Single(e)
      BY <2>2, <2>9, WithinSingle
    <3>4. HasTile(e, c)
      BY <2>8, <2>9, StayHas
    <3> QED BY <2>9, <3>2, <3>3, <3>4 DEF PaintedWell
  <2>10. CASE TileIsFile(d, t, c)
    <3>1. d.ents[t].comps["Tile"]["map"] = TileSays(c)["map"]
      BY <2>10 DEF TileIsFile
    <3>2. Place(d.ents[t]) = <<Key, c>>
      BY <2>3, <3>1 DEF Place, TileSays
    <3>3. HasTile(d, c) /\ Untouched(d, d, Mine(d, c))
      BY <2>3, <3>2 DEF HasTile, Untouched
    <3> QED BY <2>5, <2>10, <3>3 DEF PaintedWell
  <2>11. CASE ~TileIsFile(d, t, c) /\ ~Shared(c)
    <3>1. /\ Tidy(UpdateArt(set, t, c)) /\ TilesWithin(set, UpdateArt(set, t, c))
          /\ TilesStay(set, UpdateArt(set, t, c)) /\ Untouched(set, UpdateArt(set, t, c), {t} \cup ArtOf(d, t))
      BY <1>3, <2>2, <2>4, <2>6, UpdateArtKeeps
    <3>2. PaintedWell(d, UpdateArt(set, t, c), c)
      BY <2>9, <3>1
    <3> QED BY <2>5, <2>11, <3>2
  <2>12. CASE ~TileIsFile(d, t, c) /\ Shared(c) /\ ArtOf(d, t) = {}
    BY <2>2, <2>5, <2>8, <2>12 DEF PaintedWell
  <2>13. CASE ~TileIsFile(d, t, c) /\ Shared(c) /\ ArtOf(d, t) # {}
    <3> DEFINE e == Refer(cleared, t, <<>>)
    <3>1. Tidy(cleared) /\ TilesWithin(set, cleared) /\ TilesStay(set, cleared) /\ Untouched(set, cleared, ArtOf(d, t))
      BY <2>2, <2>4, <2>6, ClearArt
    <3> HIDE DEF cleared
    <3>2. SameSight(cleared, e) /\ Tidy(e) /\ Untouched(cleared, e, {t})
      BY <3>1, ReferKeeps
    <3> HIDE DEF e
    <3>3. TilesWithin(cleared, e) /\ TilesStay(cleared, e)
      BY <3>2, SightWithin, SightStay
    <3>4. TilesWithin(set, e) /\ TilesStay(set, e)
      BY <3>1, <3>3, WithinChain, StayChain
    <3>5. Untouched(set, cleared, {t} \cup ArtOf(d, t)) /\ Untouched(cleared, e, {t} \cup ArtOf(d, t))
      BY <3>1, <3>2, UntouchedMore
    <3>6. Untouched(set, e, {t} \cup ArtOf(d, t))
      BY <3>5, UntouchedChain
    <3>7. PaintedWell(d, e, c)
      BY <2>9, <3>2, <3>4, <3>6
    <3> QED BY <2>5, <2>13, <3>7 DEF e
  <2> QED BY <2>10, <2>11, <2>12, <2>13
<1> QED BY <1>1, <1>2, <1>3

LEMMA LinkCellKeeps ==
  ASSUME NEW d, Tidy(d), NEW c, c \in Painted => HasTile(d, c)
  PROVE  /\ Tidy(LinkCell(d, c)) /\ TilesStay(d, LinkCell(d, c))
         /\ Untouched(d, LinkCell(d, c), Mine(d, c))
<1>1. CASE c \notin Painted
  BY <1>1 DEF LinkCell, TilesStay, Untouched
<1>2. CASE c \in Painted
  <2> DEFINE t == TileAt(d, c)
             e == Refer(d, t, Links(d, c))
  <2>1. PICK x \in DOMAIN d.ents : d.ents[x].type = "Tile" /\ Place(d.ents[x]) = <<Key, c>>
    BY <1>2 DEF HasTile
  <2>2. Place(d.ents[x])[1] = Key /\ Place(d.ents[x])[2] = c
    BY <2>1
  <2>3. x \in TilesAt(d, c)
    BY <2>1, <2>2, TilesAtFacts
  <2>4. MapOf(d, x) = Key
    BY <2>2 DEF MapOf, Place
  <2>5. t \in TilesAt(d, c)
    BY <2>3, <2>4 DEF TileAt
  <2>6. LinkCell(d, c) = e
    BY <1>2 DEF LinkCell
  <2> HIDE DEF t
  <2>7. SameSight(d, e) /\ Tidy(e) /\ Untouched(d, e, {t})
    BY ReferKeeps
  <2> HIDE DEF e
  <2>8. Untouched(d, e, Mine(d, c))
    BY <2>5, <2>7, UntouchedMore DEF Mine
  <2> QED BY <2>6, <2>7, <2>8, SightStay
<1> QED BY <1>1, <1>2

-----------------------------------------------------------------------------
(* One cell after the other *)

\* Induction, for a set of numbers.
LEMMA AllNumbers ==
  ASSUME NEW T, 0 \in T, \A n \in Nat : n \in T => n + 1 \in T
  PROVE  Nat \subseteq T
<1> DEFINE L == {ss \in Nat \X Nat : ss[1] < ss[2]}
<1>1. IsWellFoundedOn(L, Nat)
  BY NatLessThanWellFounded DEF OpToRel
<1>2. \A k, n \in Nat : <<k, n>> \in L <=> k < n
  OBVIOUS
<1> HIDE DEF L
<1>3. SUFFICES ASSUME Nat \ T # {} PROVE FALSE
  OBVIOUS
<1>4. PICK n \in Nat \ T : \A k \in Nat \ T : ~ (<<k, n>> \in L)
  BY <1>1, <1>3, WFMin
<1>5. n - 1 \in Nat /\ n - 1 < n
  BY <1>4
<1>6. n - 1 \in T
  BY <1>2, <1>4, <1>5
<1> QED BY <1>4, <1>5, <1>6

Cells == DOMAIN CellSeq

LEMMA CellsCount ==
  ASSUME NEW s \in SUBSET Cells
  PROVE  /\ IsFiniteSet(s) /\ Cardinality(s) \in Nat /\ Cardinality(s) <= Cardinality(Cells)
         /\ IsFiniteSet(Cells) /\ Cardinality(Cells) \in Nat
<1>1. Len(CellSeq) \in Nat /\ Cells = 1..Len(CellSeq)
  BY ImportAssumption DEF Cells
<1>2. IsFiniteSet(Cells)
  BY <1>1, FS_Interval
<1> QED BY <1>2, FS_Subset, FS_CardinalityType

LEMMA LastCell ==
  ASSUME NEW s \in SUBSET Cells, s # {}
  PROVE  Max(s) \in s /\ s \ {Max(s)} \in SUBSET Cells /\ Cardinality(s \ {Max(s)}) = Cardinality(s) - 1
<1> DEFINE T == {n \in Nat : \A r \in SUBSET (1..n) : r # {} => \E x \in r : \A y \in r : x >= y}
<1>1. 0 \in T
  <2>1. 1..0 = {}
    OBVIOUS
  <2> QED BY <2>1
<1>2. ASSUME NEW n \in Nat, n \in T PROVE n + 1 \in T
  <2> SUFFICES ASSUME NEW r \in SUBSET (1..(n + 1)), r # {} PROVE \E x \in r : \A y \in r : x >= y
    OBVIOUS
  <2>1. CASE n + 1 \in r
    BY <2>1
  <2>2. CASE n + 1 \notin r
    <3>1. r \in SUBSET (1..n)
      BY <2>2
    <3> QED BY <1>2, <3>1
  <2> QED BY <2>1, <2>2
<1>3. Nat \subseteq T
  <2> HIDE DEF T
  <2> QED BY <1>1, <1>2, AllNumbers
<1>4. Len(CellSeq) \in Nat /\ Cells = 1..Len(CellSeq)
  BY ImportAssumption DEF Cells
<1>5. Max(s) \in s
  <2>1. \E x \in s : \A y \in s : x >= y
    BY <1>3, <1>4
  <2> QED BY <2>1 DEF Max
<1>6. IsFiniteSet(s)
  BY CellsCount
<1> QED BY <1>5, <1>6, FS_RemoveElement

\* A cell is painted in one load of the map, and linked in another.
Step(job, d, c) == IF job = "paint" THEN PaintCell(d, c) ELSE LinkCell(d, c)
Reached(f, b, job, s) == IF s = {} THEN b ELSE Step(job, f[s \ {Max(s)}], CellSeq[Max(s)])

Unrolls(f, b, job) == f = [s \in SUBSET Cells |-> Reached(f, b, job, s)]

LEMMA Unrolled ==
  ASSUME NEW job, NEW b
  PROVE  \E f : Unrolls(f, b, job)
<1> DEFINE G(f, s) == Reached(f, b, job, s)
           Small(n) == {s \in SUBSET Cells : Cardinality(s) < n}
           Defined == {n \in Nat : \E f : f = [s \in Small(n) |-> G(f, s)]}
<1>1. ASSUME NEW f, NEW g, NEW s, s # {} => f[s \ {Max(s)}] = g[s \ {Max(s)}]
      PROVE  G(f, s) = G(g, s)
  BY <1>1 DEF Reached
<1> HIDE DEF G
<1>2. 0 \in Defined
  <2>1. Small(0) = {}
    <3>1. ASSUME NEW s \in SUBSET Cells PROVE ~(Cardinality(s) < 0)
      <4>1. Cardinality(s) \in Nat
        BY CellsCount
      <4> QED BY <4>1
    <3> QED BY <3>1
  <2> HIDE DEF Small
  <2>2. PICK f : f = [s \in Small(0) |-> b]
    OBVIOUS
  <2>3. f = [s \in Small(0) |-> G(f, s)]
    BY <2>1, <2>2
  <2> QED BY <2>3
<1>3. ASSUME NEW n \in Nat, n \in Defined PROVE n + 1 \in Defined
  <2>1. PICK f : f = [s \in Small(n) |-> G(f, s)]
    BY <1>3
  <2>2. PICK g : g = [s \in Small(n + 1) |-> G(f, s)]
    OBVIOUS
  <2>3. ASSUME NEW s \in Small(n + 1) PROVE G(f, s) = G(g, s)
    <3>1. ASSUME s # {} PROVE f[s \ {Max(s)}] = g[s \ {Max(s)}]
      <4>1. s \in SUBSET Cells /\ Cardinality(s) < n + 1
        OBVIOUS
      <4>2. Cardinality(s) \in Nat
        BY <4>1, CellsCount
      <4>3. Max(s) \in s /\ s \ {Max(s)} \in SUBSET Cells /\ Cardinality(s \ {Max(s)}) = Cardinality(s) - 1
        BY <3>1, <4>1, LastCell
      <4>4. s \ {Max(s)} \in Small(n) /\ s \ {Max(s)} \in Small(n + 1)
        BY <4>1, <4>2, <4>3
      <4>5. f[s \ {Max(s)}] = G(f, s \ {Max(s)}) /\ g[s \ {Max(s)}] = G(f, s \ {Max(s)})
        BY <2>1, <2>2, <4>4
      <4> QED BY <4>5
    <3> QED BY <1>1, <3>1
  <2> HIDE DEF Small
  <2>4. g = [s \in Small(n + 1) |-> G(g, s)]
    BY <2>2, <2>3
  <2> QED BY <2>4
<1>4. Cardinality(Cells) + 1 \in Defined
  <2>1. Nat \subseteq Defined
    BY <1>2, <1>3, AllNumbers
  <2>2. Cardinality(Cells) \in Nat
    BY CellsCount
  <2> HIDE DEF Defined
  <2> QED BY <2>1, <2>2
<1>5. Small(Cardinality(Cells) + 1) = SUBSET Cells
  <2>1. ASSUME NEW s \in SUBSET Cells PROVE Cardinality(s) < Cardinality(Cells) + 1
    <3>1. Cardinality(s) \in Nat /\ Cardinality(s) <= Cardinality(Cells) /\ Cardinality(Cells) \in Nat
      BY CellsCount
    <3> QED BY <3>1
  <2> QED BY <2>1
<1>6. PICK f : f = [s \in SUBSET Cells |-> G(f, s)]
  BY <1>4, <1>5
<1>7. Unrolls(f, b, job)
  BY <1>6 DEF G, Unrolls
<1> QED BY <1>7

Ours(d) == OurTiles(d) \cup UNION {ArtOf(d, t) : t \in OurTiles(d)}
AllHave(d) == \A c \in ToSet(CellSeq) : c \in Painted => HasTile(d, c)

Sound(f, b, job, s) ==
  /\ Tidy(f[s]) /\ Untouched(b, f[s], Ours(b))
  /\ job = "paint" => Single(f[s]) /\ \A i \in s : CellSeq[i] \in Painted => HasTile(f[s], CellSeq[i])
  /\ job = "link" => AllHave(f[s])
Parts(n) == {s \in SUBSET Cells : Cardinality(s) = n}

LEMMA OursFacts ==
  ASSUME NEW d, NEW x
  PROVE  x \in Ours(d) <=> (x \in OurTiles(d) \/ (Owned(d.ents[x]) /\ x \in DOMAIN d.ents /\ Target(d.ents[x]) \in OurTiles(d)))
<1>1. ASSUME NEW t PROVE x \in ArtOf(d, t) <=> x \in DOMAIN d.ents /\ Owned(d.ents[x]) /\ Target(d.ents[x]) = t
  BY ArtOfFacts
<1>2. x \in Ours(d) <=> x \in OurTiles(d) \/ \E t \in OurTiles(d) : x \in ArtOf(d, t)
  BY DEF Ours
<1> QED BY <1>1, <1>2

LEMMA OurTilesFacts ==
  ASSUME NEW d, NEW t
  PROVE  t \in OurTiles(d) <=> t \in DOMAIN d.ents /\ d.ents[t].type = "Tile" /\ Place(d.ents[t])[1] \in {Key, file.path}
BY DEF OurTiles, IsTile, MapOf, Place

\* What is not ours in the beginning is not at any cell later.
LEMMA OursStay ==
  ASSUME NEW b, Tidy(b), NEW d, Untouched(b, d, Ours(b)), NEW e, NEW c, Untouched(d, e, Mine(d, c))
  PROVE  Untouched(b, e, Ours(b))
<1>1. ASSUME NEW x \in DOMAIN b.ents \ Ours(b) PROVE x \notin TilesAt(d, c)
  <2>1. x \in DOMAIN d.ents /\ d.ents[x] = b.ents[x]
    BY DEF Untouched
  <2>2. x \notin OurTiles(b)
    BY OursFacts
  <2> QED BY <2>1, <2>2, TilesAtFacts, OurTilesFacts
<1>2. ASSUME NEW x \in DOMAIN b.ents \ Ours(b), NEW t \in TilesAt(d, c), x \in ArtOf(d, t) PROVE FALSE
  <2>1. x \in DOMAIN d.ents /\ d.ents[x] = b.ents[x]
    BY DEF Untouched
  <2>2. Owned(b.ents[x]) /\ Target(b.ents[x]) = t
    BY <1>2, <2>1, ArtOfFacts
  <2>3. b.ents[x].type \notin {"Tile", "ByHand"}
    BY <2>2 DEF Tidy, IsEnt
  <2>4. Claimed(b, x)
    BY <2>3 DEF Tidy
  <2>5. t \in DOMAIN b.ents /\ b.ents[t].type = "Tile"
    BY <2>2, <2>4 DEF Claimed
  <2>6. t \notin OurTiles(b)
    BY <2>2, OursFacts
  <2>7. ~Owned(b.ents[t])
    BY <2>5 DEF Tidy, IsEnt
  <2>8. t \notin Ours(b)
    BY <2>6, <2>7, OursFacts
  <2> QED BY <1>1, <2>5, <2>8
<1>3. ASSUME NEW x \in DOMAIN b.ents \ Ours(b) PROVE x \notin Mine(d, c)
  BY <1>1, <1>2 DEF Mine
<1> QED BY <1>3 DEF Untouched

LEMMA OtherCellsStay ==
  ASSUME NEW d, Tidy(d), NEW e, NEW c, Untouched(d, e, Mine(d, c)), NEW a, a # c, HasTile(d, a)
  PROVE  HasTile(e, a)
<1>1. PICK t \in DOMAIN d.ents : d.ents[t].type = "Tile" /\ Place(d.ents[t]) = <<Key, a>>
  BY DEF HasTile
<1>2. t \notin TilesAt(d, c)
  <2>1. Place(d.ents[t])[2] = a
    BY <1>1
  <2> QED BY <2>1, TilesAtFacts
<1>3. ~Owned(d.ents[t])
  BY <1>1 DEF Tidy, IsEnt
<1>4. t \notin Mine(d, c)
  BY <1>2, <1>3, ArtOfFacts DEF Mine
<1>5. t \in DOMAIN e.ents /\ e.ents[t] = d.ents[t]
  BY <1>4 DEF Untouched
<1> QED BY <1>1, <1>5 DEF HasTile

LEMMA CellsKeep ==
  ASSUME NEW b, Tidy(b), NEW job, job \in {"paint", "link"}, job = "paint" => Single(b), job = "link" => AllHave(b),
         FileIsOfSpawns(file), NEW f, Unrolls(f, b, job)
  PROVE  Sound(f, b, job, Cells)
<1> DEFINE T == {n \in Nat : \A s \in Parts(n) : Sound(f, b, job, s)}
<1>1. 0 \in T
  <2>1. ASSUME NEW s \in Parts(0) PROVE Sound(f, b, job, s)
    <3>1. s \in SUBSET Cells /\ Cardinality(s) = 0
      BY DEF Parts
    <3>2. IsFiniteSet(s)
      BY <3>1, CellsCount
    <3>3. s = {}
      BY <3>1, <3>2, FS_EmptySet
    <3>4. f[s] = b
      BY <3>1, <3>3 DEF Unrolls, Reached
    <3>5. Untouched(b, b, Ours(b))
      BY DEF Untouched
    <3> QED BY <3>3, <3>4, <3>5 DEF Sound
  <2> QED BY <2>1
<1>2. ASSUME NEW n \in Nat, n \in T PROVE n + 1 \in T
  <2>1. ASSUME NEW s \in Parts(n + 1) PROVE Sound(f, b, job, s)
    <3> DEFINE r == s \ {Max(s)}
               d == f[r]
               c == CellSeq[Max(s)]
    <3>1. s \in SUBSET Cells /\ Cardinality(s) = n + 1
      BY DEF Parts
    <3>2. s # {}
      BY <3>1, FS_EmptySet
    <3>3. Max(s) \in s /\ r \in SUBSET Cells /\ Cardinality(r) = Cardinality(s) - 1
      BY <3>1, <3>2, LastCell
    <3>4. r \in Parts(n)
      BY <3>1, <3>3 DEF Parts
    <3>5. f[s] = Step(job, d, c)
      BY <3>1, <3>2 DEF Unrolls, Reached
    <3>6. Sound(f, b, job, r)
      BY <1>2, <3>4
    <3>7. /\ Tidy(d) /\ Untouched(b, d, Ours(b)) /\ (job = "link" => AllHave(d))
          /\ job = "paint" => Single(d) /\ \A i \in r : CellSeq[i] \in Painted => HasTile(d, CellSeq[i])
      BY <3>6 DEF Sound
    <3>8. c \in ToSet(CellSeq)
      BY <3>1, <3>3 DEF ToSet, Cells
    <3>11. \A i \in s : i \in r \/ CellSeq[i] = c
      OBVIOUS
    <3> DEFINE e == f[s]
    <3> HIDE DEF d, c, r, e
    <3>9. CASE job = "paint"
      <4>1. e = PaintCell(d, c)
        BY <3>5, <3>9 DEF Step, e
      <4>2. PaintedWell(d, e, c)
        BY <3>7, <3>8, <3>9, <4>1, PaintCellKeeps
      <4>3. Untouched(b, e, Ours(b))
        BY <3>7, <4>2, OursStay DEF PaintedWell
      <4>4. ASSUME NEW i \in s, CellSeq[i] \in Painted PROVE HasTile(e, CellSeq[i])
        <5>1. CASE CellSeq[i] = c
          BY <4>2, <4>4, <5>1 DEF PaintedWell
        <5>2. CASE CellSeq[i] # c
          BY <3>7, <3>9, <3>11, <4>2, <4>4, <5>2, OtherCellsStay DEF PaintedWell
        <5> QED BY <5>1, <5>2
      <4> QED BY <3>9, <4>2, <4>3, <4>4 DEF PaintedWell, Sound, e
    <3>10. CASE job = "link"
      <4>1. e = LinkCell(d, c)
        BY <3>5, <3>10 DEF Step, e
      <4>2. c \in Painted => HasTile(d, c)
        BY <3>7, <3>8, <3>10 DEF AllHave
      <4>3. Tidy(e) /\ TilesStay(d, e) /\ Untouched(d, e, Mine(d, c))
        BY <3>7, <4>1, <4>2, LinkCellKeeps
      <4>4. Untouched(b, e, Ours(b))
        BY <3>7, <4>3, OursStay
      <4>5. AllHave(e)
        BY <3>7, <3>10, <4>3, StayHas DEF AllHave
      <4> QED BY <3>10, <4>3, <4>4, <4>5 DEF Sound, e
    <3> QED BY <3>9, <3>10
  <2> QED BY <2>1
<1>3. Nat \subseteq T
  <2> HIDE DEF T
  <2> QED BY <1>1, <1>2, AllNumbers
<1>4. Cardinality(Cells) \in Nat
  BY CellsCount
<1>5. Cells \in Parts(Cardinality(Cells))
  BY DEF Parts
<1> QED BY <1>3, <1>4, <1>5

LEMMA PaintingKeeps ==
  ASSUME NEW b, Tidy(b), Single(b), FileIsOfSpawns(file)
  PROVE  /\ Tidy(FoldLeft(PaintCell, b, CellSeq)) /\ AllHave(FoldLeft(PaintCell, b, CellSeq))
         /\ Untouched(b, FoldLeft(PaintCell, b, CellSeq), Ours(b))
<1>1. PICK f : Unrolls(f, b, "paint")
  BY Unrolled
<1>2. f = [s \in SUBSET Cells |-> IF s = {} THEN b ELSE PaintCell(f[s \ {Max(s)}], CellSeq[Max(s)])]
  BY <1>1 DEF Unrolls, Reached, Step
<1>3. PICK g : g = CHOOSE h : h = [s \in SUBSET Cells |-> IF s = {} THEN b ELSE PaintCell(h[s \ {Max(s)}], CellSeq[Max(s)])]
  OBVIOUS
<1>4. g = [s \in SUBSET Cells |-> IF s = {} THEN b ELSE PaintCell(g[s \ {Max(s)}], CellSeq[Max(s)])]
  BY <1>2, <1>3
<1>5. Unrolls(g, b, "paint")
  BY <1>4 DEF Unrolls, Reached, Step
<1>6. Sound(g, b, "paint", Cells)
  BY <1>5, CellsKeep
<1>8. AllHave(g[Cells])
  BY <1>6 DEF Sound, AllHave, ToSet, Cells
<1>7. FoldLeft(PaintCell, b, CellSeq) = g[Cells]
  BY <1>3 DEF FoldLeft, MapThenFoldSet, Cells
<1> QED BY <1>6, <1>7, <1>8 DEF Sound

LEMMA LinkingKeeps ==
  ASSUME NEW b, Tidy(b), AllHave(b), FileIsOfSpawns(file)
  PROVE  /\ Tidy(FoldLeft(LinkCell, b, CellSeq)) /\ AllHave(FoldLeft(LinkCell, b, CellSeq))
         /\ Untouched(b, FoldLeft(LinkCell, b, CellSeq), Ours(b))
<1>1. PICK f : Unrolls(f, b, "link")
  BY Unrolled
<1>2. f = [s \in SUBSET Cells |-> IF s = {} THEN b ELSE LinkCell(f[s \ {Max(s)}], CellSeq[Max(s)])]
  BY <1>1 DEF Unrolls, Reached, Step
<1>3. PICK g : g = CHOOSE h : h = [s \in SUBSET Cells |-> IF s = {} THEN b ELSE LinkCell(h[s \ {Max(s)}], CellSeq[Max(s)])]
  OBVIOUS
<1>4. g = [s \in SUBSET Cells |-> IF s = {} THEN b ELSE LinkCell(g[s \ {Max(s)}], CellSeq[Max(s)])]
  BY <1>2, <1>3
<1>5. Unrolls(g, b, "link")
  BY <1>4 DEF Unrolls, Reached, Step
<1>6. Sound(g, b, "link", Cells)
  BY <1>5, CellsKeep
<1>7. FoldLeft(LinkCell, b, CellSeq) = g[Cells]
  BY <1>3 DEF FoldLeft, MapThenFoldSet, Cells
<1> QED BY <1>6, <1>7 DEF Sound
-----------------------------------------------------------------------------
(* Spawns *)

\* A refused load goes no further, and no other has two tiles in a cell.
LEMMA SingleNow ==
  ASSUME Tidy(db), ~TilesRefused
  PROVE  Single(db)
<1> SUFFICES ASSUME NEW c \in ToSet(CellSeq), NEW t \in TilesAt(db, c), NEW u \in TilesAt(db, c), t # u PROVE FALSE
  BY DEF Single
<1> DEFINE S == TilesAt(db, c)
<1>1. S \subseteq DOMAIN db.ents /\ IsFiniteSet(DOMAIN db.ents)
  BY DEF TilesAt, OurTiles, Tidy
<1>2. ~(Cardinality(S) > 1)
  BY DEF TilesRefused
<1> HIDE DEF S
<1>3. IsFiniteSet(S) /\ Cardinality(S) \in Nat
  BY <1>1, FS_Subset, FS_CardinalityType
<1>4. IsFiniteSet({t}) /\ Cardinality({t}) = 1
  BY FS_Singleton
<1>5. Cardinality({t} \cup {u}) = 2
  <2>1. Cardinality({t} \cup {u}) = IF u \in {t} THEN Cardinality({t}) ELSE Cardinality({t}) + 1
    BY <1>4, FS_AddElement, Zenon
  <2> QED BY <1>4, <2>1
<1>6. {t} \cup {u} \subseteq S
  BY DEF S
<1>7. Cardinality({t} \cup {u}) <= Cardinality(S)
  BY <1>3, <1>6, FS_Subset
<1> QED BY <1>2, <1>3, <1>5, <1>7

\* The entities of some rows of this map are gone; every other is as it was, and
\* so are the rows of other maps.
OfThisMap(k) == k[1] \in {Key, file.path}
Cut(d, e, K) ==
  /\ K \subseteq DOMAIN d.spawns /\ \A k \in K : OfThisMap(k)
  /\ DOMAIN e.ents = DOMAIN d.ents \ {d.spawns[k].ent : k \in K}
  /\ \A x \in DOMAIN e.ents : e.ents[x] = d.ents[x]
  /\ \A k \in DOMAIN d.spawns : ~OfThisMap(k) => k \in DOMAIN e.spawns /\ e.spawns[k] = d.spawns[k]
  /\ \A j \in DOMAIN e.spawns : \E k \in DOMAIN d.spawns : e.spawns[j] = d.spawns[k]

\* Rows may be filed under another key.
Refiled(d, e, from) ==
  /\ \A j \in DOMAIN e.spawns : /\ j = <<j[1], j[2]>> /\ from[j] \in DOMAIN d.spawns
                                 /\ e.spawns[j] = d.spawns[from[j]]
  /\ \A j, l \in DOMAIN e.spawns : from[j] = from[l] => j = l
  /\ \A k \in DOMAIN d.spawns : \E j \in DOMAIN e.spawns : from[j] = k

LEMMA RowsMove ==
  ASSUME NEW d, Tidy(d), NEW e, DOMAIN e = DOMAIN d, e.ents = d.ents, e.next = d.next,
         NEW from, Refiled(d, e, from)
  PROVE  Tidy(e)
<1>0. /\ \A j \in DOMAIN e.spawns : /\ j = <<j[1], j[2]>> /\ from[j] \in DOMAIN d.spawns
                                     /\ e.spawns[j] = d.spawns[from[j]]
      /\ \A j, l \in DOMAIN e.spawns : from[j] = from[l] => j = l
      /\ \A k \in DOMAIN d.spawns : \E j \in DOMAIN e.spawns : from[j] = k
  BY DEF Refiled
<1>1. ASSUME NEW x \in DOMAIN e.ents, e.ents[x].type \notin {"Tile", "ByHand"} PROVE Claimed(e, x)
  <2>1. Claimed(d, x)
    BY <1>1 DEF Tidy
  <2>2. CASE Owned(d.ents[x])
    BY <2>1, <2>2 DEF Claimed
  <2>3. CASE ~Owned(d.ents[x])
    <3>1. PICK k \in DOMAIN d.spawns : d.spawns[k].ent = x
      BY <2>1, <2>3 DEF Claimed
    <3>2. PICK j \in DOMAIN e.spawns : from[j] = k
      BY <1>0
    <3>3. e.spawns[j].ent = x
      BY <1>0, <3>1, <3>2
    <3> QED BY <2>3, <3>3 DEF Claimed
  <2> QED BY <2>2, <2>3
<1>2. ASSUME NEW j \in DOMAIN e.spawns PROVE IsRow(e, j)
  <2>1. IsRow(d, from[j]) /\ e.spawns[j] = d.spawns[from[j]] /\ from[j] \in DOMAIN d.spawns /\ j = <<j[1], j[2]>>
    BY <1>0 DEF Tidy
  <2>2. ASSUME NEW l \in DOMAIN e.spawns, e.spawns[l].ent = e.spawns[j].ent PROVE l = j
    <3>1. from[l] \in DOMAIN d.spawns /\ d.spawns[from[l]].ent = d.spawns[from[j]].ent
      BY <1>0, <2>1, <2>2
    <3>2. from[l] = from[j]
      BY <2>1, <3>1 DEF IsRow
    <3> QED BY <1>0, <3>2
  <2> QED BY <2>1, <2>2 DEF IsRow
<1> QED BY <1>1, <1>2 DEF Tidy

LEMMA AdoptTidy ==
  ASSUME NEW d, Tidy(d)
  PROVE  /\ Tidy(Adopt(d)) /\ \E K : Cut(d, Adopt(d), K)
         /\ \A k \in DOMAIN d.spawns : OfThisMap(k) => \/ <<Key, k[2]>> \in DOMAIN d.spawns /\ k # <<Key, k[2]>>
                                                     \/ \E n \in {k, <<Key, k[2]>>} : /\ n \in DOMAIN Adopt(d).spawns
                                                                                   /\ Adopt(d).spawns[n] = d.spawns[k]
<1> DEFINE old == {k \in DOMAIN d.spawns : k[1] = file.path}
           taken == {k \in old : <<Key, k[2]>> \in DOMAIN d.spawns}
           gone == {d.spawns[k].ent : k \in taken}
           movedKeys == {<<Key, k[2]>> : k \in old \ taken}
           moved == [k \in movedKeys |-> d.spawns[<<file.path, k[2]>>]]
           kept == DeleteAll(d, gone)
           spawns == Over(moved, Without(kept.spawns, old))
           e == [kept EXCEPT !.spawns = spawns]
           from == [j \in movedKeys \cup DOMAIN d.spawns |-> IF j \in movedKeys THEN <<file.path, j[2]>> ELSE j]
<1>1. CASE Key = file.path
  <2>1. Adopt(d) = d
    BY <1>1 DEF Adopt
  <2>2. Cut(d, d, {})
    BY DEF Cut
  <2> QED BY <2>1, <2>2
<1>2. CASE Key # file.path
  <2>1. Adopt(d) = e
    BY <1>2 DEF Adopt
  <2>2. \A k \in DOMAIN d.spawns : IsRow(d, k)
    BY DEF Tidy
  <2>3. \A x \in gone : d.ents[x].type # "Tile"
    BY <2>2 DEF IsRow
  <2>4. \A x \in DOMAIN d.ents : Owned(d.ents[x]) /\ Target(d.ents[x]) \in gone => x \in gone
    <3> HIDE DEF gone
    <3> QED BY <2>3, DeleteArtTidy
  <2>5. /\ Tidy(kept) /\ DOMAIN kept.spawns = {k \in DOMAIN d.spawns : d.spawns[k].ent \notin gone}
        /\ \A k \in DOMAIN kept.spawns : kept.spawns[k] = d.spawns[k]
        /\ DOMAIN kept.ents = DOMAIN d.ents \ gone
        /\ \A x \in DOMAIN d.ents \ gone : kept.ents[x] = d.ents[x]
    <3> HIDE DEF gone
    <3> QED BY <2>4, DeleteTidy
  <2>6. \A k \in DOMAIN d.spawns : d.spawns[k].ent \in gone <=> k \in taken
    BY <2>2 DEF IsRow
  <2>7. DOMAIN kept.spawns = DOMAIN d.spawns \ taken
    BY <2>5, <2>6
  <2>8. ASSUME NEW j \in movedKeys
        PROVE  j = <<Key, j[2]>> /\ j \notin DOMAIN d.spawns /\ <<file.path, j[2]>> \in old \ taken
    <3>1. PICK k \in old \ taken : j = <<Key, k[2]>>
      OBVIOUS
    <3>2. k = <<file.path, k[2]>>
      BY <2>2 DEF IsRow
    <3> QED BY <3>1, <3>2
  <2>9. ASSUME NEW k \in old \ taken PROVE <<Key, k[2]>> \in movedKeys /\ k = <<file.path, k[2]>>
    BY <2>2 DEF IsRow
  <2>10. old \subseteq DOMAIN d.spawns /\ taken \subseteq old
    OBVIOUS
  <2>11. \A k \in old : k[1] = file.path
    OBVIOUS
  <2>24. \A k \in taken : <<Key, k[2]>> \in DOMAIN d.spawns
    OBVIOUS
  <2>12. DOMAIN moved = movedKeys /\ \A j \in movedKeys : moved[j] = d.spawns[<<file.path, j[2]>>]
    OBVIOUS
  <2>13. \A k \in DOMAIN d.spawns : k = <<k[1], k[2]>>
    BY <2>2 DEF IsRow
  <2> HIDE DEF movedKeys, old, taken, moved, kept
  <2>14. DOMAIN spawns = movedKeys \cup (DOMAIN d.spawns \ old)
         /\ (\A j \in movedKeys : spawns[j] = d.spawns[<<file.path, j[2]>>])
         /\ (\A j \in DOMAIN d.spawns \ old : spawns[j] = d.spawns[j])
    BY <2>5, <2>7, <2>8, <2>10, <2>12 DEF Over, Without
  <2> HIDE DEF spawns
  <2>15. DOMAIN e = DOMAIN kept /\ e.ents = kept.ents /\ e.next = kept.next /\ e.spawns = spawns
    BY <2>5 DEF Tidy
  <2> HIDE DEF e
  <2>16. /\ \A j \in movedKeys : from[j] = <<file.path, j[2]>>
         /\ \A j \in DOMAIN d.spawns \ old : from[j] = j
    BY <2>8
  <2> HIDE DEF from
  <2>17. ASSUME NEW j \in DOMAIN e.spawns
         PROVE  j = <<j[1], j[2]>> /\ from[j] \in DOMAIN kept.spawns /\ e.spawns[j] = kept.spawns[from[j]]
    <3>1. CASE j \in movedKeys
      <4>1. j = <<Key, j[2]>> /\ from[j] \in old \ taken /\ e.spawns[j] = d.spawns[from[j]]
        BY <2>8, <2>14, <2>15, <2>16, <3>1
      <4>2. from[j] \in DOMAIN kept.spawns
        BY <2>7, <2>10, <4>1
      <4>3. j[1] = Key
        BY <4>1
      <4> QED BY <2>5, <4>1, <4>2, <4>3
    <3>2. CASE j \notin movedKeys
      <4>1. j \in DOMAIN d.spawns \ old /\ e.spawns[j] = d.spawns[j] /\ from[j] = j
        BY <2>14, <2>15, <2>16, <3>2
      <4> QED BY <2>5, <2>7, <2>10, <2>13, <4>1
    <3> QED BY <3>1, <3>2
  <2>18. ASSUME NEW j \in DOMAIN e.spawns, NEW l \in DOMAIN e.spawns, from[j] = from[l] PROVE j = l
    <3>1. ASSUME NEW x \in DOMAIN e.spawns
          PROVE  \/ x \in movedKeys /\ from[x] = <<file.path, x[2]>> /\ x = <<Key, x[2]>> /\ from[x] \in old
                 \/ x \notin movedKeys /\ from[x] = x /\ from[x] \notin old
      BY <2>8, <2>14, <2>15, <2>16
    <3>2. CASE j \in movedKeys /\ l \in movedKeys
      <4>1. <<file.path, j[2]>> = <<file.path, l[2]>> /\ j = <<Key, j[2]>> /\ l = <<Key, l[2]>>
        BY <2>18, <3>1, <3>2
      <4> QED BY <4>1
    <3>3. CASE ~(j \in movedKeys /\ l \in movedKeys)
      BY <2>18, <3>1, <3>3
    <3> QED BY <3>2, <3>3
  <2>19. ASSUME NEW k \in DOMAIN kept.spawns PROVE \E j \in DOMAIN e.spawns : from[j] = k
    <3>1. CASE k \in old
      <4>1. <<Key, k[2]>> \in movedKeys /\ k = <<file.path, k[2]>>
        BY <2>7, <2>9, <3>1
      <4>2. from[<<Key, k[2]>>] = k
        BY <2>16, <4>1
      <4> QED BY <2>14, <2>15, <4>1, <4>2
    <3>2. CASE k \notin old
      BY <2>7, <2>14, <2>15, <2>16, <3>2
    <3> QED BY <3>1, <3>2
  <2>20. Refiled(kept, e, from)
    BY <2>17, <2>18, <2>19 DEF Refiled
  <2>21. Tidy(e)
    BY <2>5, <2>15, <2>20, RowsMove
  <2>22. Cut(d, e, taken)
    <3>1. ASSUME NEW k \in DOMAIN d.spawns, ~OfThisMap(k) PROVE k \in DOMAIN e.spawns /\ e.spawns[k] = d.spawns[k]
      BY <2>11, <2>14, <2>15, <3>1 DEF OfThisMap
    <3>2. ASSUME NEW j \in DOMAIN e.spawns PROVE \E k \in DOMAIN d.spawns : e.spawns[j] = d.spawns[k]
      BY <2>5, <2>7, <2>17
    <3>3. taken \subseteq DOMAIN d.spawns /\ \A k \in taken : OfThisMap(k)
      BY <2>10, <2>11 DEF OfThisMap
    <3>4. DOMAIN e.ents = DOMAIN d.ents \ {d.spawns[k].ent : k \in taken} /\ \A x \in DOMAIN e.ents : e.ents[x] = d.ents[x]
      BY <2>5, <2>15
    <3> QED BY <3>1, <3>2, <3>3, <3>4 DEF Cut
  <2>23. ASSUME NEW k \in DOMAIN d.spawns, OfThisMap(k)
         PROVE  \/ <<Key, k[2]>> \in DOMAIN d.spawns /\ k # <<Key, k[2]>>
                \/ \E n \in {k, <<Key, k[2]>>} : n \in DOMAIN e.spawns /\ e.spawns[n] = d.spawns[k]
    <3>1. CASE k \notin old
      BY <2>14, <2>15, <3>1
    <3>2. CASE k \in old \ taken
      <4>1. <<Key, k[2]>> \in movedKeys /\ k = <<file.path, k[2]>>
        BY <2>9, <3>2
      <4> QED BY <2>14, <2>15, <4>1
    <3>3. CASE k \in taken
      <4>1. <<Key, k[2]>> \in DOMAIN d.spawns /\ k[1] = file.path
        BY <2>10, <2>11, <2>24, <3>3
      <4>2. k # <<Key, k[2]>>
        BY <1>2, <4>1
      <4> QED BY <4>1, <4>2
    <3> QED BY <3>1, <3>2, <3>3
  <2> QED BY <2>1, <2>21, <2>22, <2>23
<1> QED BY <1>1, <1>2
\* A row that is gone already is not missed.
LEMMA ForgetTidy ==
  ASSUME NEW d, Tidy(d), NEW keys, keys \cap DOMAIN d.spawns = {}
  PROVE  /\ Tidy(Forget(d, keys)) /\ Forget(d, keys).ents = d.ents
         /\ DOMAIN Forget(d, keys).spawns = DOMAIN d.spawns
         /\ \A k \in DOMAIN d.spawns : Forget(d, keys).spawns[k] = d.spawns[k]
<1> DEFINE e == Forget(d, keys)
           spawns == Without(d.spawns, keys)
<1>1. DOMAIN spawns = DOMAIN d.spawns /\ \A k \in DOMAIN d.spawns : spawns[k] = d.spawns[k]
  BY DEF Without
<1>2. e = [d EXCEPT !.spawns = spawns]
  BY DEF Forget
<1> HIDE DEF e, spawns
<1>3. DOMAIN e = DOMAIN d /\ e.ents = d.ents /\ e.next = d.next /\ e.spawns = spawns
  BY <1>2 DEF Tidy
<1>4. Tidy(e)
  BY <1>1, <1>3 DEF Tidy, IsRow, Claimed
<1> QED BY <1>1, <1>3, <1>4 DEF e

LEMMA SpawnsGoTidy ==
  ASSUME NEW d, Tidy(d), NEW keys, NEW gone, gone = {d.spawns[k].ent : k \in keys}, keys \subseteq DOMAIN d.spawns
  PROVE  LET e == Forget(DeleteAll(d, gone), keys)
         IN  /\ Tidy(e)
             /\ (\A k \in keys : OfThisMap(k)) => Cut(d, e, keys)
             /\ \A k \in DOMAIN d.spawns \ keys : k \in DOMAIN e.spawns /\ e.spawns[k] = d.spawns[k]
<1>1. \A x \in gone : d.ents[x].type # "Tile"
  BY DEF Tidy, IsRow
<1>2. \A x \in DOMAIN d.ents : Owned(d.ents[x]) /\ Target(d.ents[x]) \in gone => x \in gone
  BY <1>1, DeleteArtTidy
<1> DEFINE c == DeleteAll(d, gone)
           e == Forget(c, keys)
<1>3. /\ Tidy(c) /\ DOMAIN c.spawns = {k \in DOMAIN d.spawns : d.spawns[k].ent \notin gone}
      /\ DOMAIN c.ents = DOMAIN d.ents \ gone
      /\ \A x \in DOMAIN d.ents \ gone : c.ents[x] = d.ents[x]
      /\ \A k \in DOMAIN c.spawns : c.spawns[k] = d.spawns[k]
  BY <1>2, DeleteTidy
<1> HIDE DEF c
<1>4. keys \cap DOMAIN c.spawns = {}
  BY <1>3
<1>5. /\ Tidy(e) /\ e.ents = c.ents /\ DOMAIN e.spawns = DOMAIN c.spawns
      /\ \A k \in DOMAIN c.spawns : e.spawns[k] = c.spawns[k]
  BY <1>3, <1>4, ForgetTidy
<1> HIDE DEF e
<1>6. \A k \in DOMAIN d.spawns \ keys : k \in DOMAIN c.spawns
  <2>1. \A k \in DOMAIN d.spawns : IsRow(d, k)
    BY DEF Tidy
  <2> QED BY <1>3, <2>1 DEF IsRow
<1>7. ASSUME \A k \in keys : OfThisMap(k) PROVE Cut(d, e, keys)
  <2>1. ASSUME NEW k \in DOMAIN d.spawns, ~OfThisMap(k) PROVE k \in DOMAIN e.spawns /\ e.spawns[k] = d.spawns[k]
    BY <1>3, <1>5, <1>6, <1>7, <2>1
  <2>2. ASSUME NEW j \in DOMAIN e.spawns PROVE \E k \in DOMAIN d.spawns : e.spawns[j] = d.spawns[k]
    BY <1>3, <1>5
  <2> QED BY <1>3, <1>5, <1>7, <2>1, <2>2 DEF Cut
<1>8. \A k \in DOMAIN d.spawns \ keys : k \in DOMAIN e.spawns /\ e.spawns[k] = d.spawns[k]
  BY <1>3, <1>5, <1>6
<1> QED BY <1>5, <1>7, <1>8 DEF e, c

\* An object authors what the file may author.
LEMMA AuthoredFacts ==
  ASSUME FileIsOfSpawns(file), NEW o \in Objects
  PROVE  o.class \notin {"Tile", "ByHand"} /\ "TileEntityOwner" \notin DOMAIN Authored(o)
BY DEF FileIsOfSpawns, Objects, Authored, Over, Just

LEMMA CreatedTidy ==
  ASSUME Tidy(db), FileIsOfSpawns(file), NEW o \in Objects, ~Live(db, o)
  PROVE  LET e == Created(db, o)
         IN  /\ Tidy(e) /\ db.next \notin DOMAIN db.ents
             /\ DOMAIN e.ents = DOMAIN db.ents \cup {db.next} /\ e.ents[db.next].comps = Authored(o)
             /\ \A x \in DOMAIN db.ents : e.ents[x] = db.ents[x]
             /\ DOMAIN e.spawns = DOMAIN db.spawns \cup {RowOf(o)} /\ e.spawns[RowOf(o)].ent = db.next
             /\ \A k \in DOMAIN db.spawns : e.spawns[k] = db.spawns[k]
<1> DEFINE key == RowOf(o)
<1>1. key = <<key[1], key[2]>> /\ key \notin DOMAIN db.spawns
  BY DEF RowOf, Live
<1> HIDE DEF key
<1>3. IsFn(Authored(o))
  BY MadeAreFunctions DEF Authored
<1>2. Tidy(Record(Insert(db, o.class, Authored(o)), key, db.next, DOMAIN Authored(o)))
  BY <1>1, <1>3, AuthoredFacts, InsertSpawn
<1> DEFINE i == Insert(db, o.class, Authored(o))
           row == [ent |-> db.next, authored |-> DOMAIN Authored(o)]
           e == Record(i, key, db.next, DOMAIN Authored(o))
<1>4. /\ db.next \notin DOMAIN db.ents /\ DOMAIN i.ents = DOMAIN db.ents \cup {db.next}
      /\ i.ents[db.next].comps = Authored(o) /\ \A x \in DOMAIN db.ents : i.ents[x] = db.ents[x]
      /\ i.spawns = db.spawns /\ IsDb(i)
  BY Inserted
<1> HIDE DEF i
<1>5. e = [i EXCEPT !.spawns = Over(Just(key, row), i.spawns)]
  BY DEF Record
<1>6. row.ent = db.next
  OBVIOUS
<1> HIDE DEF row, e
<1>7. e.ents = i.ents /\ e.spawns = Over(Just(key, row), i.spawns)
  BY <1>4, <1>5 DEF IsDb
<1>8. /\ DOMAIN e.spawns = DOMAIN db.spawns \cup {key} /\ e.spawns[key] = row
      /\ \A k \in DOMAIN db.spawns : e.spawns[k] = db.spawns[k]
  BY <1>1, <1>4, <1>7 DEF Over, Just
<1>9. Tidy(e)
  BY <1>2 DEF e, i
<1>10. Created(db, o) = e
  BY DEF Created, e, i, key
<1> QED BY <1>4, <1>6, <1>7, <1>8, <1>9, <1>10 DEF key

LEMMA UpdatedTidy ==
  ASSUME Tidy(db), FileIsOfSpawns(file), NEW o \in Objects, Live(db, o)
  PROVE  LET e == Updated(db, o)
             a == db.spawns[RowOf(o)].ent
         IN  /\ Tidy(e) /\ a \in DOMAIN db.ents /\ DOMAIN e.ents = DOMAIN db.ents
             /\ \A x \in DOMAIN db.ents : x # a => e.ents[x] = db.ents[x]
             /\ e.ents[a].comps = Rewrite(Without(db.ents[a].comps, Removed(db, o)), Authored(o))
             /\ SameRows(db, e) /\ DOMAIN e.spawns = DOMAIN db.spawns /\ \A k \in DOMAIN db.spawns : k # RowOf(o) => e.spawns[k] = db.spawns[k]
<1> DEFINE key == RowOf(o)
           row == db.spawns[key]
           a == row.ent
           comps == Rewrite(Without(EntityOf(db, o).comps, Removed(db, o)), Authored(o))
           authored == DOMAIN Authored(o)
           e == [db EXCEPT !.ents[a].comps = comps, !.spawns[key].authored = authored]
<1>1. Updated(db, o) = e
  BY DEF Updated
<1>2. key \in DOMAIN db.spawns /\ IsRow(db, key) /\ IsDb(db)
  BY DEF Live, Tidy, IsDb
<1>3. a \in DOMAIN db.ents /\ db.ents[a].type # "Tile" /\ ~Owned(db.ents[a])
  BY <1>2 DEF IsRow
<1>4. EntityOf(db, o) = db.ents[a]
  BY DEF EntityOf
<1>5. "TileEntityOwner" \notin DOMAIN comps
  BY <1>3, <1>4, AuthoredFacts DEF Rewrite, Written, Without, Owned
<1>6. \A k \in DOMAIN db.spawns : {"ent", "authored"} \subseteq DOMAIN db.spawns[k]
  BY DEF Tidy, IsRow
<1>0. IsFn(comps)
  BY MadeAreFunctions
<1> HIDE DEF comps, authored, key
<1>7. /\ DOMAIN e = DOMAIN db /\ e.next = db.next /\ e.ents = [db.ents EXCEPT ![a].comps = comps]
      /\ e.spawns = [db.spawns EXCEPT ![key].authored = authored]
  BY <1>2 DEF IsDb
<1> HIDE DEF e
<1>8. SameRows(db, e)
  <2> DEFINE new == [row EXCEPT !.authored = authored]
  <2>1. DOMAIN new = DOMAIN row /\ new.ent = row.ent
    BY <1>2, <1>6
  <2>2. e.spawns = [db.spawns EXCEPT ![key] = new]
    BY <1>7
  <2> HIDE DEF new
  <2> QED BY <1>6, <2>1, <2>2 DEF SameRows
<1>10. \A k \in DOMAIN db.spawns : k # key => e.spawns[k] = db.spawns[k]
  BY <1>7
<1>12. DOMAIN e.spawns = DOMAIN db.spawns
  BY <1>7
<1> HIDE DEF a
<1>9. Tidy(e)
  BY <1>0, <1>3, <1>5, <1>7, <1>8, ChangeKeeps
<1>11. /\ DOMAIN e.ents = DOMAIN db.ents /\ e.ents[a].comps = comps
       /\ \A x \in DOMAIN db.ents : x # a => e.ents[x] = db.ents[x]
  <2>1. "comps" \in DOMAIN db.ents[a]
    BY <1>3 DEF Tidy, IsEnt
  <2> QED BY <1>3, <1>7, <2>1
<1> QED BY <1>1, <1>3, <1>4, <1>8, <1>9, <1>10, <1>11, <1>12 DEF a, comps, key

LEMMA ChangedTidy ==
  ASSUME Tidy(db), NEW a \in Actors, NEW comps, IsFn(comps), Change(a, comps),
         "TileEntityOwner" \in DOMAIN comps <=> Owned(db.ents[a]),
         Owned(db.ents[a]) => comps["TileEntityOwner"] = db.ents[a].comps["TileEntityOwner"],
         Filled(db), Full(db.ents[a].comps) => Full(comps)
  PROVE  Tidy(db') /\ Filled(db')
<1>1. IsDb(db) /\ a \in DOMAIN db.ents /\ db.ents[a].type # "Tile"
  BY DEF Tidy, IsDb, Actors, IsTile
<1>2. PICK e : e = [db EXCEPT !.ents[a].comps = comps]
  OBVIOUS
<1>3. DOMAIN e = DOMAIN db /\ e.next = db.next /\ e.spawns = db.spawns /\ e.ents = [db.ents EXCEPT ![a].comps = comps]
  BY <1>1, <1>2 DEF IsDb
<1>4. SameRows(db, e)
  BY <1>3 DEF SameRows, Tidy, IsRow
<1>5. Owned(db.ents[a]) => comps["TileEntityOwner"].target = Target(db.ents[a])
  BY DEF Target
<1>6. Tidy(e)
  BY <1>1, <1>3, <1>4, <1>5, ChangeKeeps
<1>7. /\ e.ents[a].comps = comps
      /\ \A x \in DOMAIN db.ents : x # a => e.ents[x] = db.ents[x]
  <2>1. "comps" \in DOMAIN db.ents[a]
    BY <1>1 DEF Tidy, IsEnt
  <2> QED BY <1>1, <1>3, <2>1
<1>8. \A k \in DOMAIN db.spawns : db.spawns[k].ent \in DOMAIN db.ents
  BY DEF Tidy, IsRow
<1>9. Filled(e)
  BY <1>3, <1>7, <1>8 DEF Filled
<1> QED BY <1>2, <1>6, <1>9 DEF Change

-----------------------------------------------------------------------------
(* What a step of a load leaves alone *)

LEMMA RowFacts ==
  ASSUME Tidy(db), NEW k \in DOMAIN db.spawns
  PROVE  /\ db.spawns[k].ent \in DOMAIN db.ents
         /\ db.ents[db.spawns[k].ent].type \notin {"Tile", "ByHand"} /\ ~Owned(db.ents[db.spawns[k].ent])
         /\ \A l \in DOMAIN db.spawns : db.spawns[l].ent = db.spawns[k].ent => l = k
         /\ db.spawns[k].ent \notin Ours(db)
<1>1. IsRow(db, k)
  BY DEF Tidy
<1>2. /\ db.spawns[k].ent \in DOMAIN db.ents
      /\ db.ents[db.spawns[k].ent].type \notin {"Tile", "ByHand"} /\ ~Owned(db.ents[db.spawns[k].ent])
      /\ \A l \in DOMAIN db.spawns : db.spawns[l].ent = db.spawns[k].ent => l = k
  BY <1>1 DEF IsRow
<1>3. db.spawns[k].ent \notin Ours(db)
  BY <1>2, OursFacts, OurTilesFacts
<1> QED BY <1>2, <1>3

LEMMA SameIsKept ==
  ASSUME NEW k \in DOMAIN db.spawns,
         LET e == db.spawns[k].ent IN e \in DOMAIN db'.ents => db'.ents[e] = db.ents[e]
  PROVE  KeptOnSpawn(k)
BY DEF KeptOnSpawn

\* Everything that is no part of this map.
Foreign(x) ==
  /\ x \in DOMAIN db.ents
  /\ \/ db.ents[x].type = "ByHand"
     \/ IsTile(db, x) /\ MapOf(db, x) \notin {Key, file.path}
     \/ Owned(db.ents[x]) /\ LET t == Target(db.ents[x])
                             IN  t \in DOMAIN db.ents /\ IsTile(db, t) /\ MapOf(db, t) \notin {Key, file.path}

LEMMA ForeignFacts ==
  ASSUME Tidy(db), NEW x, Foreign(x)
  PROVE  x \notin Ours(db) /\ \A k \in DOMAIN db.spawns : db.spawns[k].ent # x
<1>1. \A t \in DOMAIN db.ents : IsTile(db, t) /\ MapOf(db, t) \notin {Key, file.path} => t \notin OurTiles(db)
  BY DEF OurTiles
<1>2. db.ents[x].type \in {"Tile", "ByHand"} => ~Owned(db.ents[x])
  BY DEF Tidy, IsEnt, Foreign
<1>3. x \notin Ours(db)
  BY <1>1, <1>2, OursFacts, OurTilesFacts DEF Foreign, IsTile
<1>4. \A k \in DOMAIN db.spawns : db.spawns[k].ent # x
  BY RowFacts DEF Foreign, IsTile
<1> QED BY <1>3, <1>4

LEMMA OthersFacts ==
  ASSUME Tidy(db),
         \A x : Foreign(x) => Kept(x),
         \A k \in DOMAIN db.spawns : OfThisMap(k) => KeptOnSpawn(k),
         \A k \in DOMAIN db.spawns : ~OfThisMap(k) =>
           k \in DOMAIN db'.spawns /\ db'.spawns[k] = db.spawns[k] /\ Kept(db.spawns[k].ent)
  PROVE  OthersStay
<1>1. \A e \in ByHand : Foreign(e)
  BY DEF ByHand, Foreign
<1>2. ASSUME NEW t \in DOMAIN db.ents, IsTile(db, t), MapOf(db, t) \notin {Key, file.path},
             NEW e \in {t} \cup ArtOf(db, t)
      PROVE  Foreign(e)
  BY <1>2, ArtOfFacts DEF Foreign
<1> QED BY <1>1, <1>2 DEF OthersStay, OfThisMap

LEMMA UntouchedStays ==
  ASSUME Tidy(db), Filled(db), Untouched(db, db', Ours(db))
  PROVE  OthersStay /\ IdsStay /\ Filled(db')
<1>1. ASSUME NEW k \in DOMAIN db.spawns
      PROVE  /\ k \in DOMAIN db'.spawns /\ db'.spawns[k] = db.spawns[k]
             /\ Kept(db.spawns[k].ent) /\ KeptOnSpawn(k)
  <2>1. Kept(db.spawns[k].ent)
    BY RowFacts DEF Untouched, Kept
  <2>2. KeptOnSpawn(k)
    BY <2>1, SameIsKept DEF Kept
  <2> QED BY <2>1, <2>2 DEF Untouched
<1>2. ASSUME NEW x, Foreign(x) PROVE Kept(x)
  BY <1>2, ForeignFacts DEF Untouched, Kept, Foreign
<1>3. OthersStay
  BY <1>1, <1>2, OthersFacts
<1>4. IdsStay
  BY <1>1 DEF IdsStay, IdStays
<1>5. Filled(db')
  BY <1>1 DEF Untouched, Filled, Kept
<1> QED BY <1>3, <1>4, <1>5

LEMMA CutStays ==
  ASSUME Tidy(db), Filled(db), NEW K, Cut(db, db', K), Tidy(db')
  PROVE  OthersStay /\ Filled(db') /\ (AllHave(db) => AllHave(db'))
<1> DEFINE X == {db.spawns[k].ent : k \in K}
<1>1. /\ K \subseteq DOMAIN db.spawns /\ \A k \in K : OfThisMap(k)
      /\ DOMAIN db'.ents = DOMAIN db.ents \ X
      /\ \A x \in DOMAIN db'.ents : db'.ents[x] = db.ents[x]
      /\ \A k \in DOMAIN db.spawns : ~OfThisMap(k) => k \in DOMAIN db'.spawns /\ db'.spawns[k] = db.spawns[k]
      /\ \A j \in DOMAIN db'.spawns : \E k \in DOMAIN db.spawns : db'.spawns[j] = db.spawns[k]
  BY DEF Cut
<1>2. ASSUME NEW k \in DOMAIN db.spawns, OfThisMap(k) PROVE KeptOnSpawn(k)
  BY <1>1, SameIsKept
<1>3. ASSUME NEW k \in DOMAIN db.spawns, ~OfThisMap(k)
      PROVE  k \in DOMAIN db'.spawns /\ db'.spawns[k] = db.spawns[k] /\ Kept(db.spawns[k].ent)
  <2>1. ASSUME NEW l \in K, db.spawns[l].ent = db.spawns[k].ent PROVE FALSE
    BY <1>1, <1>3, <2>1, RowFacts
  <2>2. db.spawns[k].ent \in DOMAIN db.ents \ X
    BY <2>1, RowFacts
  <2> QED BY <1>1, <1>3, <2>2 DEF Kept
<1>4. ASSUME NEW x, Foreign(x) PROVE Kept(x)
  <2>1. x \in DOMAIN db.ents \ X
    BY <1>1, <1>4, ForeignFacts DEF Foreign
  <2> QED BY <1>1, <2>1 DEF Kept
<1>5. OthersStay
  BY <1>2, <1>3, <1>4, OthersFacts
<1>6. Filled(db')
  <2>1. \A j \in DOMAIN db'.spawns : IsRow(db', j)
    BY DEF Tidy
  <2>2. \A j \in DOMAIN db'.spawns : db'.spawns[j].ent \in DOMAIN db'.ents
    BY <2>1 DEF IsRow
  <2> HIDE DEF X
  <2>3. ASSUME NEW j \in DOMAIN db'.spawns PROVE Full(db'.ents[db'.spawns[j].ent].comps)
    <3>1. PICK k \in DOMAIN db.spawns : db'.spawns[j] = db.spawns[k]
      BY <1>1
    <3>2. db'.ents[db'.spawns[j].ent] = db.ents[db.spawns[k].ent]
      BY <1>1, <2>2, <3>1
    <3>3. Full(db.ents[db.spawns[k].ent].comps)
      BY DEF Filled
    <3> QED BY <3>2, <3>3
  <2> QED BY <2>3 DEF Filled
<1>7. TilesStay(db, db')
  <2>1. ASSUME NEW x \in X PROVE db.ents[x].type # "Tile"
    BY <1>1, RowFacts
  <2> HIDE DEF X
  <2> QED BY <1>1, <2>1 DEF TilesStay
<1>8. ASSUME AllHave(db) PROVE AllHave(db')
  BY <1>7, <1>8, StayHas DEF AllHave
<1> QED BY <1>5, <1>6, <1>8

LEMMA CreatedStays ==
  ASSUME Tidy(db), Filled(db), FileIsOfSpawns(file), NEW o \in Objects, ~Live(db, o), CanRewrite(<<>>, Authored(o)),
         db' = Created(db, o)
  PROVE  OthersStay /\ IdsStay /\ Filled(db') /\ (AllHave(db) => AllHave(db'))
<1>1. /\ db.next \notin DOMAIN db.ents
      /\ DOMAIN db'.ents = DOMAIN db.ents \cup {db.next} /\ db'.ents[db.next].comps = Authored(o)
      /\ \A x \in DOMAIN db.ents : db'.ents[x] = db.ents[x]
      /\ DOMAIN db'.spawns = DOMAIN db.spawns \cup {RowOf(o)} /\ db'.spawns[RowOf(o)].ent = db.next
      /\ \A k \in DOMAIN db.spawns : db'.spawns[k] = db.spawns[k]
  BY CreatedTidy
<1>2. ASSUME NEW k \in DOMAIN db.spawns
      PROVE  k \in DOMAIN db'.spawns /\ db'.spawns[k] = db.spawns[k] /\ Kept(db.spawns[k].ent) /\ KeptOnSpawn(k)
  <2>1. Kept(db.spawns[k].ent)
    BY <1>1, RowFacts DEF Kept
  <2>2. KeptOnSpawn(k)
    BY <2>1, SameIsKept DEF Kept
  <2> QED BY <1>1, <2>1, <2>2
<1>3. ASSUME NEW x, Foreign(x) PROVE Kept(x)
  BY <1>1, <1>3 DEF Kept, Foreign
<1>4. OthersStay
  BY <1>2, <1>3, OthersFacts
<1>5. IdsStay
  BY <1>2 DEF IdsStay, IdStays
<1>6. Full(Authored(o))
  <2>1. \A c : c \notin DOMAIN <<>>
    OBVIOUS
  <2> QED BY <2>1 DEF CanRewrite, Whole, Full
<1>7. Filled(db')
  BY <1>1, <1>2, <1>6 DEF Filled, Kept
<1>8. TilesStay(db, db')
  BY <1>1 DEF TilesStay
<1>9. ASSUME AllHave(db) PROVE AllHave(db')
  BY <1>8, <1>9, StayHas DEF AllHave
<1> QED BY <1>4, <1>5, <1>7, <1>9

LEMMA UpdatedStays ==
  ASSUME Tidy(db), Filled(db), FileIsOfSpawns(file), at \in Nat \ {0}, NEW o \in Objects,
         AtObject(o), Proceeds(o), Live(db, o), CanRewrite(EntityOf(db, o).comps, Authored(o)),
         db' = Updated(db, o)
  PROVE  OthersStay /\ IdsStay /\ Filled(db') /\ (AllHave(db) => AllHave(db'))
<1> DEFINE row == RowOf(o)
           a == db.spawns[row].ent
           old == db.ents[a].comps
           gone == Removed(db, o)
           given == Authored(o)
           new == Rewrite(Without(old, gone), given)
<1>1. /\ a \in DOMAIN db.ents /\ DOMAIN db'.ents = DOMAIN db.ents
      /\ \A x \in DOMAIN db.ents : x # a => db'.ents[x] = db.ents[x]
      /\ db'.ents[a].comps = new
      /\ DOMAIN db'.spawns = DOMAIN db.spawns /\ \A k \in DOMAIN db.spawns : k # row => db'.spawns[k] = db.spawns[k]
      /\ \A k \in DOMAIN db.spawns : db'.spawns[k].ent = db.spawns[k].ent
  BY UpdatedTidy DEF SameRows
<1>2. row \in DOMAIN db.spawns /\ row[1] = Key /\ Full(old)
  BY DEF Live, RowOf, Filled
<1>3. gone \cap DOMAIN given = {}
  BY DEF Removed, NoLonger
<1>4. /\ DOMAIN new = (DOMAIN old \ gone) \cup DOMAIN given
      /\ \A c \in DOMAIN old \ gone : new[c] = IF c \in DOMAIN given THEN Over(given[c], old[c]) ELSE old[c]
      /\ \A c \in DOMAIN given \ DOMAIN old : new[c] = given[c]
  BY <1>3 DEF Rewrite, Written, Without
<1>5. \A c \in DOMAIN given \ DOMAIN old : DOMAIN given[c] = Fields[c]
  BY DEF CanRewrite, Whole, EntityOf
<1>6. ASSUME NEW c \in DOMAIN old, c \notin gone PROVE Fields[c] \subseteq DOMAIN new[c]
  <2>1. Fields[c] \subseteq DOMAIN old[c]
    BY <1>2 DEF Full
  <2> QED BY <1>4, <1>6, <2>1 DEF Over
<1>7. Full(new)
  <2>1. ASSUME NEW c \in DOMAIN given \ DOMAIN old PROVE Fields[c] \subseteq DOMAIN new[c]
    BY <1>4, <1>5
  <2> QED BY <1>3, <1>4, <1>6, <2>1 DEF Full
<1>8. KeptOnSpawn(row)
  <2> SUFFICES ASSUME NEW c \in DOMAIN old
               PROVE  \/ c \in DOMAIN new /\ \A f \in Fields[c] : f \in GivenFields(a, c) \/ new[c][f] = old[c][f]
                      \/ /\ c \in AuthoredOn(a)
                         /\ \A i \in DOMAIN file.objects :
                              RowOf(Object(i)) = row /\ Spawnable(Object(i)) /\ ~Repeats(i) => c \notin DOMAIN Authored(Object(i))
    BY <1>1 DEF KeptOnSpawn
  <2>1. CASE c \notin gone
    <3>1. ASSUME NEW f \in Fields[c], new[c][f] # old[c][f] PROVE f \in GivenFields(a, c)
      <4>1. f \in DOMAIN old[c]
        BY <1>2 DEF Full
      <4>2. c \in DOMAIN given /\ new[c] = Over(given[c], old[c])
        BY <1>4, <2>1, <3>1
      <4>3. f \in DOMAIN given[c]
        BY <3>1, <4>1, <4>2 DEF Over
      <4> QED BY <4>2, <4>3 DEF GivenFields
    <3> QED BY <1>4, <2>1, <3>1
  <2>2. CASE c \in gone
    <3>1. db.spawns[row].authored # Unknown /\ c \in db.spawns[row].authored /\ c \notin DOMAIN given
      BY <2>2 DEF Removed, NoLonger
    <3>2. c \in AuthoredOn(a)
      <4> DEFINE Was(k) == IF db.spawns[k].authored = Unknown THEN {} ELSE db.spawns[k].authored
      <4>1. row \in RowsOf(a) /\ c \in Was(row)
        BY <1>2, <3>1 DEF RowsOf
      <4> HIDE DEF Was
      <4>2. c \in UNION {Was(k) : k \in RowsOf(a)}
        BY <4>1
      <4> QED BY <4>2 DEF Was, AuthoredOn
    <3>3. ASSUME NEW i \in DOMAIN file.objects, RowOf(Object(i)) = row, Spawnable(Object(i)), ~Repeats(i)
          PROVE  c \notin DOMAIN Authored(Object(i))
      <4>1. i \in Nat \ {0} /\ i <= Len(file.objects)
        BY DEF FileIsOfSpawns
      <4>2. Object(i).id = o.id /\ Object(at) = o /\ Spawnable(Object(at)) /\ ~Repeats(at)
        BY <3>3 DEF RowOf, AtObject, Proceeds
      <4>3. ~(i < at)
        BY <3>3, <4>1, <4>2 DEF Repeats
      <4>4. ~(at < i)
        BY <3>3, <4>1, <4>2 DEF Repeats
      <4>5. i = at
        BY <4>1, <4>3, <4>4
      <4> QED BY <3>1, <4>2, <4>5
    <3> QED BY <3>2, <3>3
  <2> QED BY <2>1, <2>2
<1> HIDE DEF new, old, gone, given
<1>9. ASSUME NEW k \in DOMAIN db.spawns, k # row
      PROVE  /\ k \in DOMAIN db'.spawns /\ db'.spawns[k] = db.spawns[k]
             /\ Kept(db.spawns[k].ent) /\ KeptOnSpawn(k)
  <2>1. db.spawns[k].ent \in DOMAIN db.ents /\ db.spawns[k].ent # a
    BY <1>2, <1>9, RowFacts
  <2>2. Kept(db.spawns[k].ent)
    BY <1>1, <2>1 DEF Kept
  <2>3. KeptOnSpawn(k)
    BY <2>2, SameIsKept DEF Kept
  <2> QED BY <1>1, <1>9, <2>2, <2>3
<1>10. ASSUME NEW x, Foreign(x) PROVE Kept(x)
  BY <1>1, <1>2, <1>10, ForeignFacts DEF Kept, Foreign
<1>11. OthersStay
  <2>1. OfThisMap(row)
    BY <1>2 DEF OfThisMap
  <2> HIDE DEF row
  <2> QED BY <1>8, <1>9, <1>10, <2>1, OthersFacts
<1>12. IdsStay
  BY <1>1 DEF IdsStay, IdStays
<1>13. Filled(db')
  <2>1. ASSUME NEW k \in DOMAIN db.spawns PROVE Full(db'.ents[db'.spawns[k].ent].comps)
    <3>1. CASE k = row
      BY <1>1, <1>7, <3>1
    <3>2. CASE k # row
      BY <1>9, <3>2 DEF Filled, Kept
    <3> QED BY <3>1, <3>2
  <2> QED BY <1>1, <2>1 DEF Filled
<1>14. TilesStay(db, db')
  <2>1. db.ents[a].type # "Tile"
    BY <1>2, RowFacts
  <2> QED BY <1>1, <2>1 DEF TilesStay
<1>15. ASSUME AllHave(db) PROVE AllHave(db')
  BY <1>14, <1>15, StayHas DEF AllHave
<1> QED BY <1>11, <1>12, <1>13, <1>15

-----------------------------------------------------------------------------
(* Nothing is stranded *)

\* Tidy, with every field there; and once a load is past the tiles, every painted
\* cell has one that is filed under the map's key.
ImportInv ==
  /\ Tidy(db) /\ Filled(db) /\ FileIsOfSpawns(file) /\ at \in Nat \ {0}
  /\ pc \in {"adopt", "objects", "links"} => AllHave(db)

LEMMA SameFile ==
  ASSUME FileIsOfSpawns(file), file' = file, Tidy(db'), Filled(db'), at' \in Nat \ {0},
         pc' \in {"adopt", "objects", "links"} => AllHave(db')
  PROVE  ImportInv'
<1>1. AllHave(db') => AllHave(db)'
  BY DEF AllHave, HasTile, Painted, Key
<1> QED BY <1>1 DEF ImportInv

\* A step of a load leaves the database tidy, and keeps what others have a claim on.
LEMMA LoadKeeps ==
  ASSUME ImportInv, LoadStep
  PROVE  ImportInv' /\ OthersStay /\ IdsStay
<1> USE DEF ImportInv
<1>1. ASSUME db' = db PROVE OthersStay /\ IdsStay
  <2>1. Untouched(db, db', Ours(db))
    BY <1>1 DEF Untouched
  <2> QED BY <2>1, UntouchedStays
<1>2. CASE SyncLayerTiles
  <2>1. Single(db)
    BY <1>2, SingleNow DEF SyncLayerTiles
  <2>2. Tidy(db') /\ AllHave(db') /\ Untouched(db, db', Ours(db))
    BY <1>2, <2>1, PaintingKeeps DEF SyncLayerTiles
  <2>3. OthersStay /\ IdsStay /\ Filled(db')
    BY <2>2, UntouchedStays
  <2>4. file' = file /\ at' = at
    BY <1>2 DEF SyncLayerTiles, Go
  <2> QED BY <2>2, <2>3, <2>4, SameFile
<1>3. CASE RefuseTiles
  <2>1. db' = db /\ file' = file /\ at' = 1 /\ pc' = "stopped"
    BY <1>3 DEF RefuseTiles, Halt
  <2>2. ImportInv'
    BY <2>1, SameFile
  <2> QED BY <1>1, <2>1, <2>2
<1>4. CASE AdoptSpawns
  <2>1. db' = Adopt(db) /\ file' = file /\ at' = at /\ pc = "adopt"
    BY <1>4 DEF AdoptSpawns, Go
  <2>2. Tidy(db')
    BY <2>1, AdoptTidy
  <2>3. PICK K : Cut(db, db', K)
    BY <2>1, AdoptTidy
  <2>4. OthersStay /\ Filled(db') /\ AllHave(db')
    BY <2>1, <2>2, <2>3, CutStays
  <2>5. ASSUME NEW o \in Objects, NEW m \in {Key, file.path} PROVE IdStays(o, <<m, o.id>>)
    <3> DEFINE k == <<m, o.id>>
    <3>1. OfThisMap(k) /\ <<Key, k[2]>> = RowOf(o)
      BY DEF OfThisMap, RowOf
    <3> HIDE DEF k
    <3>2. k \in DOMAIN db.spawns => \/ RowOf(o) \in DOMAIN db.spawns /\ k # RowOf(o)
                                    \/ \E n \in {k, RowOf(o)} : n \in DOMAIN db'.spawns /\ db'.spawns[n] = db.spawns[k]
      BY <2>1, <3>1, AdoptTidy
    <3>3. IdStays(o, k)
      BY <3>2 DEF IdStays, Live
    <3> QED BY <3>3 DEF k
  <2> QED BY <2>1, <2>2, <2>4, <2>5, SameFile DEF IdsStay
<1>5. CASE DropGone
  <2> DEFINE keys == Gone(db)
             gone == {db.spawns[k].ent : k \in keys}
  <2>1. db' = Forget(DeleteAll(db, gone), keys) /\ file' = file /\ at' = at /\ pc = "objects"
    BY <1>5 DEF DropGone, Go
  <2>2. keys \subseteq DOMAIN db.spawns /\ \A k \in keys : OfThisMap(k) /\ k[2] \notin Seen
    BY DEF Gone, OfThisMap
  <2>3. gone = {db.spawns[k].ent : k \in keys}
    OBVIOUS
  <2> HIDE DEF keys, gone
  <2>4. /\ Tidy(db') /\ Cut(db, db', keys)
        /\ \A k \in DOMAIN db.spawns \ keys : k \in DOMAIN db'.spawns /\ db'.spawns[k] = db.spawns[k]
    BY <2>1, <2>2, <2>3, SpawnsGoTidy
  <2>5. OthersStay /\ Filled(db') /\ AllHave(db')
    BY <2>1, <2>4, CutStays
  <2>6. ASSUME NEW o \in Objects, NEW m \in {Key, file.path}, Spawnable(o) PROVE <<m, o.id>> \notin keys
    <3>1. o.id \in Seen
      BY <2>6 DEF Seen
    <3> QED BY <2>2, <3>1
  <2>7. IdsStay
    BY <2>4, <2>6 DEF IdsStay, IdStays
  <2> QED BY <2>1, <2>4, <2>5, <2>7, SameFile
<1>6. CASE SyncTileReferences
  <2>1. AllHave(db) /\ file' = file /\ at' = at
    BY <1>6 DEF SyncTileReferences, Go
  <2>2. Tidy(db') /\ AllHave(db') /\ Untouched(db, db', Ours(db))
    BY <1>6, <2>1, LinkingKeeps DEF SyncTileReferences
  <2>3. OthersStay /\ IdsStay /\ Filled(db')
    BY <2>2, UntouchedStays
  <2> QED BY <2>1, <2>2, <2>3, SameFile
<1>7. ASSUME NEW o \in Objects,
             SkipObject(o) \/ RefuseObject(o) \/ ReplaceSpawn(o) \/ KeepSpawn(o) \/ UpdateSpawn(o) \/ CreateSpawn(o)
      PROVE  ImportInv' /\ OthersStay /\ IdsStay
  <2>1. AtObject(o) /\ AllHave(db) /\ file' = file /\ at' \in Nat \ {0}
    BY <1>7 DEF AtObject, SkipObject, RefuseObject, ReplaceSpawn, KeepSpawn, UpdateSpawn, CreateSpawn, Refuse, Next1
  <2>2. ASSUME db' = db PROVE ImportInv' /\ OthersStay /\ IdsStay
    <3>1. Tidy(db') /\ Filled(db') /\ AllHave(db')
      BY <2>1, <2>2
    <3>2. ImportInv'
      BY <2>1, <3>1, SameFile
    <3> QED BY <1>1, <2>2, <3>2
  <2>3. CASE SkipObject(o) \/ RefuseObject(o) \/ KeepSpawn(o)
    BY <2>2, <2>3 DEF SkipObject, RefuseObject, KeepSpawn, Refuse
  <2>4. CASE ReplaceSpawn(o)
    <3> DEFINE keys == {RowOf(o)}
               gone == {db.spawns[RowOf(o)].ent}
    <3>1. db' = Forget(DeleteAll(db, gone), keys) /\ OtherClass(db, o)
      BY <2>4 DEF ReplaceSpawn, DeleteSpawn
    <3>2. keys \subseteq DOMAIN db.spawns /\ \A k \in keys : OfThisMap(k)
      BY <3>1 DEF OtherClass, Live, OfThisMap, RowOf
    <3>3. gone = {db.spawns[k].ent : k \in keys}
      OBVIOUS
    <3> HIDE DEF gone
    <3>4. /\ Tidy(db') /\ Cut(db, db', keys)
          /\ \A k \in DOMAIN db.spawns \ keys : k \in DOMAIN db'.spawns /\ db'.spawns[k] = db.spawns[k]
      BY <3>1, <3>2, <3>3, SpawnsGoTidy
    <3>5. OthersStay /\ Filled(db') /\ AllHave(db')
      BY <2>1, <3>4, CutStays
    <3>6. ASSUME NEW p \in Objects, NEW m \in {Key, file.path}, <<m, p.id>> = RowOf(o),
                 \A j \in DOMAIN file.objects : Object(j).id = p.id => Object(j) = p
          PROVE  db.ents[db.spawns[RowOf(o)].ent].type # p.class
      <4>1. at \in DOMAIN file.objects /\ Object(at) = o
        BY <2>1 DEF AtObject, FileIsOfSpawns
      <4>2. o = p
        BY <3>6, <4>1 DEF RowOf
      <4> QED BY <3>1, <4>2 DEF OtherClass, EntityOf
    <3>7. IdsStay
      <4> SUFFICES ASSUME NEW p \in Objects, NEW m \in {Key, file.path} PROVE IdStays(p, <<m, p.id>>)
        BY DEF IdsStay
      <4>1. CASE <<m, p.id>> = RowOf(o)
        BY <3>6, <4>1 DEF IdStays
      <4>2. CASE <<m, p.id>> # RowOf(o)
        BY <3>4, <4>2 DEF IdStays
      <4> QED BY <4>1, <4>2
    <3> QED BY <2>1, <3>4, <3>5, <3>7, SameFile
  <2>5. CASE UpdateSpawn(o)
    <3>1. CASE ~CanRewrite(EntityOf(db, o).comps, Authored(o))
      BY <2>2, <2>5, <3>1 DEF UpdateSpawn, Refuse
    <3>2. CASE CanRewrite(EntityOf(db, o).comps, Authored(o))
      <4>1. Proceeds(o) /\ Live(db, o) /\ db' = Updated(db, o)
        BY <2>5, <3>2 DEF UpdateSpawn
      <4>2. Tidy(db')
        BY <4>1, UpdatedTidy
      <4>3. OthersStay /\ IdsStay /\ Filled(db') /\ AllHave(db')
        BY <2>1, <3>2, <4>1, UpdatedStays
      <4> QED BY <2>1, <4>2, <4>3, SameFile
    <3> QED BY <3>1, <3>2
  <2>6. CASE CreateSpawn(o)
    <3>1. CASE ~CanRewrite(<<>>, Authored(o))
      BY <2>2, <2>6, <3>1 DEF CreateSpawn, Refuse
    <3>2. CASE CanRewrite(<<>>, Authored(o))
      <4>1. ~Live(db, o) /\ db' = Created(db, o)
        BY <2>6, <3>2 DEF CreateSpawn
      <4>2. Tidy(db')
        BY <4>1, CreatedTidy
      <4>3. OthersStay /\ IdsStay /\ Filled(db') /\ AllHave(db')
        BY <2>1, <3>2, <4>1, CreatedStays
      <4> QED BY <2>1, <4>2, <4>3, SameFile
    <3> QED BY <3>1, <3>2
  <2> QED BY <1>7, <2>3, <2>4, <2>5, <2>6
<1> QED BY <1>2, <1>3, <1>4, <1>5, <1>6, <1>7 DEF LoadStep

\* What a machine makes of an entity is still the entity's, and whole.
LEMMA MachinesKeep ==
  ASSUME ImportInv, NEW e \in Actors, NEW c \in RuntimeComps, NEW v,
         AttachComponent(e, c, v) \/ DetachComponent(e, c) \/ \E f \in Fields[c] : SetComponent(e, c, f, v)
  PROVE  ImportInv'
<1> USE DEF ImportInv
<1> DEFINE comps == db.ents[e].comps
<1>1. c # "TileEntityOwner"
  BY ImportAssumption
<1>2. ASSUME NEW after, Change(e, after), IsFn(after), Full(comps) => Full(after),
             "TileEntityOwner" \in DOMAIN after <=> Owned(db.ents[e]),
             Owned(db.ents[e]) => after["TileEntityOwner"] = comps["TileEntityOwner"]
      PROVE  ImportInv'
  <2>1. Tidy(db') /\ Filled(db')
    BY <1>2, ChangedTidy
  <2>2. file' = file /\ at' = at /\ pc' = "running"
    BY <1>2 DEF Change
  <2> QED BY <2>1, <2>2, SameFile
<1>3. CASE AttachComponent(e, c, v)
  <2> DEFINE made == [f \in Fields[c] |-> v]
             after == Over(Just(c, made), comps)
  <2>1. Change(e, after)
    BY <1>3 DEF AttachComponent
  <2>2. DOMAIN after = {c} \cup DOMAIN comps /\ DOMAIN made = Fields[c]
        /\ after[c] = made /\ \A x \in DOMAIN comps : x # c => after[x] = comps[x]
    BY DEF Over, Just
  <2>3. IsFn(after)
    BY MadeAreFunctions DEF IsFn
  <2> HIDE DEF after, made
  <2>4. "TileEntityOwner" \in DOMAIN after <=> Owned(db.ents[e])
    BY <1>1, <2>2 DEF Owned
  <2>5. Owned(db.ents[e]) => after["TileEntityOwner"] = comps["TileEntityOwner"]
    BY <1>1, <2>2 DEF Owned
  <2>6. Full(comps) => Full(after)
    BY <2>2 DEF Full
  <2> QED BY <1>2, <2>1, <2>3, <2>4, <2>5, <2>6
<1>4. CASE DetachComponent(e, c)
  <2> DEFINE after == Without(comps, {c})
  <2>1. Change(e, after)
    BY <1>4 DEF DetachComponent
  <2>2. DOMAIN after = DOMAIN comps \ {c} /\ \A x \in DOMAIN after : after[x] = comps[x]
    BY DEF Without
  <2>3. IsFn(after)
    BY MadeAreFunctions DEF IsFn
  <2> HIDE DEF after
  <2>4. "TileEntityOwner" \in DOMAIN after <=> Owned(db.ents[e])
    BY <1>1, <2>2 DEF Owned
  <2>5. Owned(db.ents[e]) => after["TileEntityOwner"] = comps["TileEntityOwner"]
    BY <1>1, <2>2 DEF Owned
  <2>6. Full(comps) => Full(after)
    BY <2>2 DEF Full
  <2> QED BY <1>2, <2>1, <2>3, <2>4, <2>5, <2>6
<1>5. ASSUME NEW f \in Fields[c], SetComponent(e, c, f, v) PROVE ImportInv'
  <2> DEFINE after == [comps EXCEPT ![c][f] = v]
  <2>1. Change(e, after)
    BY <1>5 DEF SetComponent
  <2>2. DOMAIN after = DOMAIN comps /\ \A x \in DOMAIN comps : /\ x # c => after[x] = comps[x]
                                                             /\ DOMAIN after[x] = DOMAIN comps[x]
    OBVIOUS
  <2>3. IsFn(after)
    BY DEF IsFn
  <2> HIDE DEF after
  <2>4. "TileEntityOwner" \in DOMAIN after <=> Owned(db.ents[e])
    BY <2>2 DEF Owned
  <2>5. Owned(db.ents[e]) => after["TileEntityOwner"] = comps["TileEntityOwner"]
    BY <1>1, <2>2 DEF Owned
  <2>6. Full(comps) => Full(after)
    BY <2>2 DEF Full
  <2> QED BY <1>2, <2>1, <2>3, <2>4, <2>5, <2>6
<1> QED BY <1>3, <1>4, <1>5

LEMMA ImportStep ==
  ASSUME ImportInv, [Next]_vars
  PROVE  ImportInv' /\ (LoadStep => OthersStay /\ IdsStay)
<1>1. CASE Start
  <2>1. db' = db /\ at' = at /\ pc' = "tiles" /\ FileIsOfSpawns(file')
    BY <1>1, ImportAssumption DEF Start
  <2> QED BY <2>1, LoadKeeps DEF ImportInv
<1>2. CASE Stop
  <2>1. db' = db /\ file' = file /\ at' = 1 /\ pc' = "stopped"
    BY <1>2 DEF Stop, Halt
  <2>2. ImportInv'
    BY <2>1, SameFile DEF ImportInv
  <2> QED BY <2>2, LoadKeeps
<1>3. CASE LoadStep
  BY <1>3, LoadKeeps
<1>4. CASE \E e \in Actors, c \in RuntimeComps :
             \/ \E v \in FieldValues : AttachComponent(e, c, v) \/ \E f \in Fields[c] : SetComponent(e, c, f, v)
             \/ DetachComponent(e, c)
  BY <1>4, MachinesKeep, LoadKeeps
<1>5. CASE UNCHANGED vars
  <2>1. ImportInv'
    BY <1>5 DEF vars, ImportInv, AllHave, HasTile, Painted, Key
  <2> QED BY <2>1, LoadKeeps
<1> QED BY <1>1, <1>2, <1>3, <1>4, <1>5 DEF Next

LEMMA TidyIsNotStranded ==
  ASSUME Tidy(db)
  PROVE  NothingIsStranded
<1>1. \A k \in DOMAIN db.spawns : IsRow(db, k)
  BY DEF Tidy
<1>2. \A k \in DOMAIN db.spawns : db.spawns[k].ent \in DOMAIN db.ents
  BY <1>1 DEF IsRow
<1>3. ASSUME NEW e \in DOMAIN db.ents, IsTile(db, e), NEW t \in DOMAIN db.ents \ {e}, IsTile(db, t)
      PROVE  \E f \in {"map", "cell"} : db.ents[t].comps["Tile"][f] # db.ents[e].comps["Tile"][f]
  <2>1. Place(db.ents[t]) # Place(db.ents[e])
    BY <1>3 DEF Tidy, IsTile
  <2> QED BY <2>1 DEF Place
<1>4. ASSUME NEW e \in DOMAIN db.ents \ ByHand, ~IsTile(db, e)
      PROVE  Claimed(db, e)
  BY <1>4 DEF Tidy, ByHand, IsTile
<1>5. ASSUME NEW e \in DOMAIN db.ents \ ByHand, ~IsTile(db, e), Owned(db.ents[e])
      PROVE  LET t == db.ents[e].comps["TileEntityOwner"].target
             IN  t \in DOMAIN db.ents /\ IsTile(db, t) /\ ArtOf(db, t) = {e} /\ RowsOf(e) = {}
  <2> DEFINE t == db.ents[e].comps["TileEntityOwner"].target
  <2>1. t = Target(db.ents[e])
    BY DEF Target
  <2> HIDE DEF t
  <2>2. t \in DOMAIN db.ents /\ IsTile(db, t)
        /\ \A a \in DOMAIN db.ents : Owned(db.ents[a]) /\ Target(db.ents[a]) = t => a = e
    BY <1>4, <1>5, <2>1 DEF Claimed, IsTile
  <2>3. ArtOf(db, t) = {e}
    BY <1>5, <2>1, <2>2, ArtOfFacts
  <2>4. RowsOf(e) = {}
    BY <1>1, <1>5 DEF RowsOf, IsRow
  <2> QED BY <2>2, <2>3, <2>4 DEF t
<1>6. ASSUME NEW e \in DOMAIN db.ents \ ByHand, ~IsTile(db, e), ~Owned(db.ents[e])
      PROVE  Cardinality(RowsOf(e)) = 1
  <2>1. PICK k \in DOMAIN db.spawns : db.spawns[k].ent = e
    BY <1>4, <1>6 DEF Claimed
  <2>2. RowsOf(e) = {k}
    BY <1>1, <2>1 DEF RowsOf, IsRow
  <2> QED BY <2>2, FS_Singleton
<1> QED BY <1>2, <1>3, <1>5, <1>6 DEF NothingIsStranded, Owned

\* Whatever the engine is killed between, whatever the file becomes and whatever
\* machines do meanwhile, what the importer made stays within its reach: a Tile
\* with a cell to itself, the one art of a Tile that is there, or the entity of
\* one spawn row.  (spawn.go, createSpawn, deleteSpawn, adoptSpawns; layered.go)
THEOREM NothingStranded == Spec => []NothingIsStranded
<1>1. Init => ImportInv
  BY ImportAssumption DEF Init, ImportInv
<1>2. ImportInv /\ [Next]_vars => ImportInv'
  BY ImportStep
<1>3. ImportInv => NothingIsStranded
  BY TidyIsNotStranded DEF ImportInv
<1> QED BY <1>1, <1>2, <1>3, PTL DEF Spec

\* No step of a load gives up or overwrites an entity that the map or a machine
\* still has a claim on: an object that keeps its class keeps its entity, what the
\* file says nothing about is as it was, and what is made by hand or is another
\* map's is left alone.  (spawn.go, SyncSpawns, updateSpawn; layered.go)
THEOREM EntitiesKept == Spec => EntitiesAreKept
<1>1. Init => ImportInv
  BY ImportAssumption DEF Init, ImportInv
<1>2. ImportInv /\ [Next]_vars => ImportInv'
  BY ImportStep
<1>3. ImportInv /\ [Next]_vars => [LoadStep => IdsStay]_vars
  BY ImportStep
<1>4. ImportInv /\ [Next]_vars => [LoadStep => OthersStay]_vars
  BY ImportStep
<1> QED BY <1>1, <1>2, <1>3, <1>4, PTL DEF Spec, EntitiesAreKept, KeepsIds, RuntimeSurvives
=============================================================================
