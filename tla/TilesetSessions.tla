---------------------------- MODULE TilesetSessions ---------------------------
(***************************************************************************)
(* The files behind MAP and TILES: maps.Session holds the project's maps,  *)
(* tilesets.Session one working value of each tileset they refer to, and   *)
(* somebody else changes the same directory at any moment.                 *)
(*                                                                         *)
(* Each session has a mutex of its own.  Whoever draws or checks a map     *)
(* holds the mutex of the maps while it asks for every tileset, which      *)
(* takes the mutex of the tilesets; the list of tilesets is found by       *)
(* reading the maps.  A request is taken apart wherever it takes or leaves *)
(* a mutex; what it does while it holds just one is a single step.         *)
(*                                                                         *)
(* A map is [sheets, rest]: the tilesets it names, which Forge does not    *)
(* edit, and everything else.  A tileset is its contents.                  *)
(***************************************************************************)
EXTENDS Integers

CONSTANTS MapPaths, SheetPaths,
          ConfiguredMap,           \* the one game.toml names
          Contents,
          Missing, Garbled,        \* no file, and one that does not parse
          Unsafe,                  \* not a regular file: a broken link, a directory
          FirstDisks,              \* the directories Forge may be started on
          TheirBytes,              \* path -> what somebody else may leave there
          Handlers,                \* requests that are served at the same time
          Nobody,
          MaxAsked, MaxTheirs      \* bounds: requests, changes by somebody else

ASSUME PathsAssumption == ConfiguredMap \in MapPaths /\ MapPaths \cap SheetPaths = {}
ASSUME NobodyAssumption == Nobody \notin Handlers

VARIABLES disk,
          mapFiles,     \* maps.Session.files: path -> editable.File [cur, snap]
          tabs,         \* order
          unresolved,   \* the maps for which tilesets holds an error
          told,         \* the paths of problems
          mapLock,      \* who holds maps.Session.mu
          sheetFiles,   \* tilesets.Session.files
          entries,      \* entries: path -> Writable
          sheetLock,    \* who holds tilesets.Session.mu
          serving,      \* the requests
          asks, theirs

tilesetVars == <<disk, mapFiles, tabs, unresolved, told, mapLock, sheetFiles,
                 entries, sheetLock, serving, asks, theirs>>
mapVars == <<mapFiles, tabs, unresolved, told>>

Reads(bytes) == bytes \notin {Missing, Garbled, Unsafe}

-----------------------------------------------------------------------------
(* editable.File *)

Fresh(bytes) == [cur |-> bytes, snap |-> bytes]
Dirty(f) == f.cur # f.snap
DirtyIn(fs) == {p \in DOMAIN fs : Dirty(fs[p])}
Conflicts(f, bytes) == bytes \notin {Missing, f.snap}

Refuses(op, f, bytes) ==
  \/ op = "save" /\ Conflicts(f, bytes)
  \/ op = "reload" /\ ~Reads(bytes)

\* What an operation that is not refused makes of a file, and of the disk.
After(op, f, bytes, new) ==
  CASE op = "edit" -> [f EXCEPT !.cur = new]
    [] op \in {"save", "overwrite"} -> Fresh(f.cur)
    [] op = "discard" -> Fresh(f.snap)
    [] op = "reload" -> Fresh(bytes)
Left(op, f, bytes) == IF op \in {"save", "overwrite"} /\ Dirty(f) THEN f.cur ELSE bytes

-----------------------------------------------------------------------------
(* maps.Session *)

\* discover
Discovered(d) == {ConfiguredMap} \cup {m \in MapPaths : d[m] # Missing}
Appeared(d, fs) == {m \in Discovered(d) \ DOMAIN fs : Reads(d[m])}

\* Faulty variant: what is not on disk any more is forgotten.
RefreshedToDisk(d, fs) ==
  [m \in (Discovered(d) \cap DOMAIN fs) \cup Appeared(d, fs) |->
     IF m \in DOMAIN fs THEN fs[m] ELSE Fresh(d[m])]

\* reload and forget: open files stay as they are, and so does unsaved work.
Refreshed(d, fs) ==
  [m \in (Discovered(d) \cap DOMAIN fs) \cup Appeared(d, fs) \cup DirtyIn(fs) |->
     IF m \in DOMAIN fs THEN fs[m] ELSE Fresh(d[m])]
Listed(d, fs) == Discovered(d) \cap DOMAIN Refreshed(d, fs)

\* Faulty variant: work for a map that is in no tab is not reported.
TroublesListed(d, fs) == Discovered(d) \ DOMAIN Refreshed(d, fs)

\* What does not open, and strand: unsaved work that is in no tab.
Troubles(d, fs) ==
  (Discovered(d) \ DOMAIN Refreshed(d, fs)) \cup (DirtyIn(fs) \ Discovered(d))

ReferencesOf(m, fs) == {m} \X fs[m].cur.sheets

-----------------------------------------------------------------------------
(* tilesets.Session *)

\* contained
Contained(d, s) == d[s] \notin {Missing, Unsafe}

\* file, for a path that is held: it may be missing, but nothing else.
Held(d, fs, s) == s \in DOMAIN fs /\ d[s] # Unsafe

\* WorkingBytes: of the tileset that is held, or else of the disk.
Resolves(d, fs, s) == IF s \in DOMAIN fs THEN Held(d, fs, s) ELSE Reads(d[s])

\* Faulty variant: a tileset that no map names any more is dropped.
RebuiltFromMaps(d, fs, refs, bad) ==
  [s \in (DOMAIN fs \cap refs) \cup {q \in refs \ (bad \cup DOMAIN fs) : Reads(d[q])} |->
     IF s \in DOMAIN fs THEN fs[s] ELSE Fresh(d[s])]

\* The files after Refresh: refs are what the maps name, bad what was not
\* contained when it was looked at.
Rebuilt(d, fs, refs, bad) ==
  [s \in (DOMAIN fs \cap refs) \cup DirtyIn(fs)
           \cup {q \in refs \ (bad \cup DOMAIN fs) : Reads(d[q])} |->
     IF s \in DOMAIN fs THEN fs[s] ELSE Fresh(d[s])]

\* Writable, of each entry: an unsafe path keeps its work and takes no writes.
WritableNow(d, fs, refs, bad) ==
  [s \in refs \cup DirtyIn(fs) |->
     /\ s \in DOMAIN Rebuilt(d, fs, refs, bad)
     /\ (s \in bad \/ s \notin refs) => d[s] # Unsafe]

-----------------------------------------------------------------------------
Idle == [at |-> "idle", op |-> "none", path |-> Nobody, new |-> Nobody,
         todo |-> {}, refs |-> {}, bad |-> {}]
At(r, stage) == serving[r].at = stage
Goes(r, stage) == serving' = [serving EXCEPT ![r].at = stage]
Ends(r) == serving' = [serving EXCEPT ![r] = Idle]
Free(lock) == lock = Nobody

SheetsNamed(fs) == UNION {fs[m].cur.sheets : m \in DOMAIN fs}

\* maps.Open, with tilesets read from disk, and tilesets.Open.
TilesetInit ==
  /\ disk \in FirstDisks
  /\ mapFiles = Refreshed(disk, <<>>) /\ tabs = DOMAIN mapFiles
  /\ unresolved = {m \in tabs : \E s \in mapFiles[m].cur.sheets : ~Reads(disk[s])}
  /\ told = Troubles(disk, <<>>) \cup unresolved
  /\ LET refs == SheetsNamed(mapFiles)
         bad == {s \in refs : ~Contained(disk, s)}
     IN  sheetFiles = Rebuilt(disk, <<>>, refs, bad) /\ entries = WritableNow(disk, <<>>, refs, bad)
  /\ mapLock = Nobody /\ sheetLock = Nobody
  /\ serving = [r \in Handlers |-> Idle] /\ asks = 0 /\ theirs = 0

Ask(r) == At(r, "idle") /\ asks < MaxAsked /\ asks' = asks + 1

-----------------------------------------------------------------------------
(* Pages *)

\* addMapData and addTilesetData
AskForPage(r, kind, m) ==
  /\ Ask(r)
  /\ serving' = [serving EXCEPT ![r] = [Idle EXCEPT !.at = "refresh", !.op = kind, !.path = m]]
  /\ UNCHANGED <<disk, mapLock, sheetFiles, entries, sheetLock, theirs>> /\ UNCHANGED mapVars

\* maps.Session.Refresh takes the mutex, and goes on to the tilesets of each
\* map it has opened.
RefreshMaps(r) ==
  /\ At(r, "refresh") /\ Free(mapLock)
  /\ mapLock' = r
  /\ mapFiles' = Refreshed(disk, mapFiles) /\ tabs' = Listed(disk, mapFiles)
  /\ unresolved' = unresolved \cap DOMAIN mapFiles'
  /\ told' = Troubles(disk, mapFiles)
  /\ serving' = [serving EXCEPT
       ![r].at = "resolving",
       ![r].todo = UNION {ReferencesOf(m, mapFiles') : m \in Appeared(disk, mapFiles)}]
  /\ UNCHANGED <<disk, sheetFiles, entries, sheetLock, asks, theirs>>

\* openTileset, for each reference of checkTilesets and of Preview.
ReadTileset(r, ref) ==
  /\ serving[r].at \in {"resolving", "preview"} /\ ref \in serving[r].todo
  /\ Free(sheetLock)
  /\ unresolved' = IF At(r, "resolving") /\ ~Resolves(disk, sheetFiles, ref[2])
                   THEN unresolved \cup {ref[1]} ELSE unresolved
  /\ serving' = [serving EXCEPT ![r].todo = @ \ {ref}]
  /\ UNCHANGED <<disk, mapFiles, tabs, told, mapLock, sheetFiles, entries, sheetLock, asks, theirs>>

AfterMaps(q) == CASE q.at = "preview" -> Idle
                  [] q.op = "tiles" -> [q EXCEPT !.at = "collect", !.todo = tabs]
                  [] q.op = "map" -> [q EXCEPT !.at = "draw"]
                  [] OTHER -> Idle

LeaveMaps(r) ==
  /\ serving[r].at \in {"resolving", "preview"} /\ serving[r].todo = {}
  /\ mapLock' = Nobody
  /\ told' = IF At(r, "resolving") /\ serving[r].op \in {"tiles", "map"}
             THEN told \cup (tabs \cap unresolved) ELSE told
  /\ serving' = [serving EXCEPT ![r] = AfterMaps(@)]
  /\ UNCHANGED <<disk, mapFiles, tabs, unresolved, sheetFiles, entries, sheetLock, asks, theirs>>

\* Preview takes the mutex of the maps again.
Preview(r) ==
  /\ At(r, "draw") /\ Free(mapLock)
  /\ IF serving[r].path \in DOMAIN mapFiles
     THEN /\ mapLock' = r
          /\ serving' = [serving EXCEPT ![r].at = "preview",
                                        ![r].todo = ReferencesOf(serving[r].path, mapFiles)]
     ELSE Ends(r) /\ UNCHANGED mapLock
  /\ UNCHANGED <<disk, sheetFiles, entries, sheetLock, asks, theirs>> /\ UNCHANGED mapVars

\* tilesets.Session.Refresh reads one map after the other ...
Collect(r, m) ==
  /\ At(r, "collect") /\ m \in serving[r].todo /\ Free(mapLock)
  /\ LET found == IF m \in DOMAIN mapFiles THEN mapFiles[m].cur.sheets ELSE {}
         new == found \ serving[r].refs
     IN  serving' = [serving EXCEPT ![r].todo = @ \ {m}, ![r].refs = @ \cup new,
                                    ![r].bad = @ \cup {s \in new : ~Contained(disk, s)}]
  /\ UNCHANGED <<disk, mapLock, sheetFiles, entries, sheetLock, asks, theirs>> /\ UNCHANGED mapVars

\* Faulty variant: the list is locked before the maps are read.
LockTilesetsFirst(r) ==
  /\ At(r, "collect")
  /\ \/ Free(sheetLock) /\ sheetLock' = r /\ UNCHANGED serving
     \/ sheetLock = r /\ serving[r].todo = {} /\ Goes(r, "rebuild") /\ UNCHANGED sheetLock
  /\ UNCHANGED <<disk, mapLock, sheetFiles, entries, asks, theirs>> /\ UNCHANGED mapVars

\* ... and only then takes the mutex of the tilesets ...
LockTilesets(r) ==
  /\ At(r, "collect") /\ serving[r].todo = {} /\ Free(sheetLock)
  /\ sheetLock' = r
  /\ Goes(r, "rebuild")
  /\ UNCHANGED <<disk, mapLock, sheetFiles, entries, asks, theirs>> /\ UNCHANGED mapVars

\* ... to open what is new and drop what is not named any more.
RebuildTilesets(r) ==
  /\ At(r, "rebuild")
  /\ sheetFiles' = Rebuilt(disk, sheetFiles, serving[r].refs, serving[r].bad)
  /\ entries' = WritableNow(disk, sheetFiles, serving[r].refs, serving[r].bad)
  /\ sheetLock' = Nobody
  /\ Ends(r)
  /\ UNCHANGED <<disk, mapLock, asks, theirs>> /\ UNCHANGED mapVars

-----------------------------------------------------------------------------
(* Edits, and everything else that is done to a file *)

\* mapShown and mapPath, mapHeld, holdsTileset: what the page named is looked
\* up before the session is asked.
MayBeAsked(op, p) ==
  IF p \in MapPaths THEN p \in (IF op \in {"edit", "reload"} THEN tabs ELSE DOMAIN mapFiles)
  ELSE p \in DOMAIN entries /\ entries[p]

AskFor(r, op, p, new) ==
  /\ Ask(r) /\ MayBeAsked(op, p)
  /\ serving' = [serving EXCEPT ![r] = [Idle EXCEPT !.at = "act", !.op = op, !.path = p, !.new = new]]
  /\ UNCHANGED <<disk, mapLock, sheetFiles, entries, sheetLock, theirs>> /\ UNCHANGED mapVars

\* Session.Edit and Session.act of the maps: what may have changed the file
\* checks its tilesets again, before the mutex is left.
ActOnMap(r) ==
  LET q == serving[r]
      p == q.path
      f == mapFiles[p]
  IN  /\ At(r, "act") /\ p \in MapPaths /\ Free(mapLock)
      /\ IF p \notin DOMAIN mapFiles \/ Refuses(q.op, f, disk[p])
         THEN Ends(r) /\ UNCHANGED <<disk, mapFiles, unresolved, mapLock>>
         ELSE /\ mapFiles' = [mapFiles EXCEPT
                    ![p] = After(q.op, f, disk[p], [f.cur EXCEPT !.rest = q.new])]
              /\ disk' = [disk EXCEPT ![p] = Left(q.op, f, @)]
              /\ IF q.op = "edit" THEN Ends(r) /\ UNCHANGED <<unresolved, mapLock>>
                 ELSE /\ mapLock' = r
                      /\ unresolved' = unresolved \ {p}
                      /\ serving' = [serving EXCEPT ![r].at = "resolving",
                                                    ![r].todo = ReferencesOf(p, mapFiles')]
      /\ UNCHANGED <<tabs, told, sheetFiles, entries, sheetLock, asks, theirs>>

ActOnTileset(r) ==
  LET q == serving[r]
      p == q.path
      f == sheetFiles[p]
  IN  /\ At(r, "act") /\ p \in SheetPaths /\ Free(sheetLock)
      /\ IF ~Held(disk, sheetFiles, p) \/ Refuses(q.op, f, disk[p])
         THEN UNCHANGED <<disk, sheetFiles>>
         ELSE /\ sheetFiles' = [sheetFiles EXCEPT ![p] = After(q.op, f, disk[p], q.new)]
              /\ disk' = [disk EXCEPT ![p] = Left(q.op, f, @)]
      /\ Ends(r)
      /\ UNCHANGED <<mapLock, entries, sheetLock, asks, theirs>> /\ UNCHANGED mapVars

-----------------------------------------------------------------------------
\* An editor, Tiled, a git checkout.
SomebodyElse(p, bytes) ==
  /\ theirs < MaxTheirs /\ theirs' = theirs + 1
  /\ bytes # disk[p] /\ disk' = [disk EXCEPT ![p] = bytes]
  /\ UNCHANGED <<mapLock, sheetFiles, entries, sheetLock, serving, asks>> /\ UNCHANGED mapVars

Serve(r) ==
  \/ RefreshMaps(r)
  \/ \E ref \in serving[r].todo : ReadTileset(r, ref)
  \/ LeaveMaps(r)
  \/ Preview(r)
  \/ \E m \in serving[r].todo : Collect(r, m)
  \/ LockTilesets(r)
  \/ RebuildTilesets(r)
  \/ ActOnMap(r)
  \/ ActOnTileset(r)

FileOps == {"save", "overwrite", "discard", "reload"}

TilesetNext ==
  \/ \E r \in Handlers, m \in tabs : AskForPage(r, "map", m)
  \/ \E r \in Handlers : AskForPage(r, "tiles", Nobody)
  \/ \E r \in Handlers, p \in MapPaths \cup SheetPaths :
       \/ \E new \in Contents : AskFor(r, "edit", p, new)
       \/ \E op \in FileOps : AskFor(r, op, p, Nobody)
  \/ \E r \in Handlers : Serve(r)
  \/ \E p \in MapPaths \cup SheetPaths : \E bytes \in TheirBytes[p] : SomebodyElse(p, bytes)

\* A goroutine goes on, and gets the mutex it waits for.
ServingGoesOn == \A r \in Handlers : WF_tilesetVars(Serve(r))

TilesetSpec == TilesetInit /\ [][TilesetNext]_tilesetVars /\ ServingGoesOn

-----------------------------------------------------------------------------
\* A request that changes the working value of a file and is being served.
Changing(p) ==
  \E r \in Handlers : /\ At(r, "act") /\ serving[r].path = p /\ serving'[r].at # "act"
                      /\ serving[r].op \in {"edit", "discard", "reload"}

KeepsWork(fs, new) ==
  \A p \in DirtyIn(fs) : Changing(p) \/ (p \in DOMAIN new /\ new[p].cur = fs[p].cur)

\* Whatever leaves the directory, and whichever maps stop naming a tileset:
\* unsaved work goes only where somebody edits, discards or reloads it.
UnsavedIsKept == [][KeepsWork(mapFiles, mapFiles') /\ KeepsWork(sheetFiles, sheetFiles')]_tilesetVars

\* Unsaved work can be found: of a map in a tab or among the problems, of a
\* tileset in the list.  Every tab, and every tileset offered for writing, is
\* of a file that is open.
UnsavedIsInReach ==
  /\ tabs \subseteq DOMAIN mapFiles
  /\ DirtyIn(mapFiles) \subseteq tabs \cup told
  /\ {s \in DOMAIN entries : entries[s]} \subseteq DOMAIN sheetFiles
  /\ DirtyIn(sheetFiles) \subseteq DOMAIN entries

\* No two requests wait for each other's mutex: each comes to its end.
RequestsEnd == \A r \in Handlers : ~At(r, "idle") ~> At(r, "idle")
=============================================================================
