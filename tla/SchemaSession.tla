----------------------------- MODULE SchemaSession -----------------------------
(***************************************************************************)
(* The one editing session Forge has on schema.json, and the pages that    *)
(* look at it: edits to the working value, saving -- which asks first when *)
(* the engine would drop data at its next start -- discarding and          *)
(* reloading, and the trail by which a page finds a component that was     *)
(* renamed.  Around it, somebody else may write the file, and the engine   *)
(* may start and migrate the database.                                     *)
(*                                                                         *)
(* Every operation of the session is one step, as its mutex makes it.  A   *)
(* request to save is two: the handler previews the migration, and only    *)
(* then writes.  The conflict check and the rename of the new file are one *)
(* step here; MachineFiles takes them apart.                               *)
(***************************************************************************)
EXTENDS SchemaEdits

CONSTANTS Pages,
          Files,               \* schemas somebody else may write
          First,               \* the one there is at first
          NoFile, NoDatabase,
          MaxEdits, MaxOutside, MaxStarts   \* bounds

ASSUME BoundsAssumption == {MaxEdits, MaxOutside, MaxStarts} \subseteq Nat
ASSUME FilesAssumption == NoFile \notin Files /\ Loadable(First)

VARIABLES cur,      \* editable.File.Current
          snap,     \* editable.File.snapshot
          disk,     \* schema.json
          db,       \* the game's database
          held,     \* Server.held: the save that waits for an answer
          saving,   \* page -> its request between the check and the write:
                    \* [kind, confirmed, stale],
                    \* stale (history): something else happened since the check
          trail,    \* renamedTo, renamedTypeTo
          pages,    \* what the URL of a page's stream names: [kind, name]
          used      \* how much of each bound is used

session == <<cur, snap, disk>>
vars == <<cur, snap, disk, db, held, saving, trail, pages, used>>

Kinds == {"component", "type"}
NotSaving == [kind |-> "none", confirmed |-> FALSE, stale |-> FALSE]
Overtaken == [p \in Pages |-> [saving[p] EXCEPT !.stale = saving[p].kind # "none"]]
NoTrail == [k \in Kinds |-> <<>>]

Declared(k) == IF k = "component" THEN DOMAIN cur.comps ELSE DOMAIN cur.types

-----------------------------------------------------------------------------
(* What the engine would do *)

\* Faulty variant: a rebuilt table keeps everything.
PreviewDrops(d, s) ==
  d # NoDatabase /\ LET found == Introspect(d)
                        stmts == Generate(Diff(found, s), s, found)
                    IN  \E i \in DOMAIN stmts : stmts[i].kind = "drop_table"

\* migration.Check, Preview.Destructive: the generator is given the database as
\* it was found.
PreviewHolds(d, s) ==
  d # NoDatabase /\ LET found == Introspect(d)
                        stmts == Generate(Diff(found, s), s, found)
                    IN  \E i \in DOMAIN stmts : Destructive(stmts[i])

\* MigrationRunner.Plan: as its renames leave it.
Plan(d, s) == LET found == Introspect(d)
              IN  Generate(Diff(found, s), s, ApplyRenames(found, s))
RenamesPending(d, s) == d # NoDatabase /\ TableRenames(Introspect(d), s) # {}
Drops(d, s) == d # NoDatabase /\ \E i \in DOMAIN Plan(d, s) : Destructive(Plan(d, s)[i])

-----------------------------------------------------------------------------
(* Editing *)

Edit(s) ==
  /\ used.edits < MaxEdits
  /\ used' = [used EXCEPT !.edits = @ + 1]
  /\ cur' = s /\ saving' = Overtaken
  /\ UNCHANGED <<snap, disk, db, held, pages>>
PlainEdit(s) == Edit(s) /\ UNCHANGED trail

\* uniqueName has found a name that is free.
AddComponent(n) == n \notin Declared("component") /\ PlainEdit(WithComponent(cur, n))

DeleteComponent(c) ==
  /\ c \in Declared("component") /\ Declared("component") # {c}
  /\ PlainEdit(WithoutComponent(cur, c))

SetShape(c, shape) == c \in Declared("component") /\ PlainEdit(Shaped(cur, c, shape))

AddField(c, p) ==
  /\ c \in Declared("component") /\ p \notin DOMAIN cur.comps[c].props
  /\ PlainEdit(WithField(cur, c, p))
RenameField(c, old, new) ==
  /\ c \in Declared("component") /\ old \in DOMAIN cur.comps[c].props
  /\ new \notin DOMAIN cur.comps[c].props
  /\ PlainEdit(FieldRenamed(cur, c, old, new))
RetypeField(c, p, type) ==
  /\ c \in Declared("component") /\ p \in DOMAIN cur.comps[c].props
  /\ PlainEdit(FieldRetyped(cur, c, p, type))
DeleteField(c, p) ==
  /\ c \in Declared("component") /\ MayDropField(cur, c, p)
  /\ PlainEdit(WithoutField(cur, c, p))

AddType(t) == t \notin Declared("type") /\ PlainEdit(WithType(cur, t))
DeleteType(t) ==
  /\ t \in Declared("type") /\ Declared("type") # {t}
  /\ PlainEdit(WithoutType(cur, t))
Require(t, c) ==
  t \in Declared("type") /\ c \in Declared("component") /\ PlainEdit(Required(cur, t, c))
Demote(t, c) ==
  t \in Declared("type") /\ c \in Declared("component") /\ PlainEdit(MadeOptional(cur, t, c))
Detach(t, c) ==
  /\ t \in Declared("type") /\ c \in cur.uses[t].opt \ cur.uses[t].req
  /\ PlainEdit(Detached(cur, t, c))

-----------------------------------------------------------------------------
(* Renaming, and finding what was renamed *)

\* recordRename.
LeftFor(k, old, new) == [trail EXCEPT ![k] = (old :> new) @@ @]

Rename(k, old, new) ==
  /\ old \in Declared(k) /\ new \notin Declared(k)
  /\ Edit(IF k = "component" THEN ComponentRenamed(cur, old, new) ELSE TypeRenamed(cur, old, new))
  /\ trail' = LeftFor(k, old, new)

\* Faulty variant: a page asks for the name it knows.
Unfollowed(way, n) == n

\* followRenames: to the end, or as many steps as could be needed.
Follow(way, n) ==
  FoldLeft(LAMBDA m, i : IF m \in DOMAIN way THEN way[m] ELSE m, n,
           [i \in 1..(Cardinality(DOMAIN way) + 1) |-> i])
Aim(p) == Follow(trail[pages[p].kind], pages[p].name)
OnTarget(p) == Aim(p) \in Declared(pages[p].kind)

\* selectComponent falls back to the first, selectEntityType too; which
\* type comes first is left open.
Shown(p) ==
  IF OnTarget(p) THEN Aim(p)
  ELSE IF pages[p].kind = "component" THEN Ordered(cur)[1]
  ELSE CHOOSE t \in DOMAIN cur.types : TRUE

\* handleMode, on a link to something that exists: the stream is opened for what
\* is shown, and what waited for an answer waits no more.
OpenPage(p, k, n) ==
  /\ n \in Declared(k)
  /\ pages' = [pages EXCEPT ![p] = [kind |-> k, name |-> Follow(trail[k], n)]]
  /\ held' = "none"
  /\ UNCHANGED <<session, db, saving, trail, used>>

-----------------------------------------------------------------------------
(* Saving *)

\* handleSchemaSave, handleSchemaOverwrite: nothing to ask.
PassCheck(p, kind) ==
  /\ saving[p].kind = "none"
  /\ ~PreviewHolds(db, cur)
  /\ held' = "none"
  /\ saving' = [saving EXCEPT ![p] = [kind |-> kind, confirmed |-> FALSE, stale |-> FALSE]]
  /\ UNCHANGED <<session, db, trail, pages, used>>

\* Something would be lost, or the database cannot be looked at.
HoldSave(p, kind) ==
  /\ saving[p].kind = "none"
  /\ db # NoDatabase
  /\ held' = kind
  /\ UNCHANGED <<session, db, saving, trail, pages, used>>

\* handleSchemaSaveConfirm, handleSchemaSaveCancel, from any page: takeHeld.
Confirm(p) ==
  /\ saving[p].kind = "none" /\ held # "none"
  /\ held' = "none"
  /\ saving' = [saving EXCEPT ![p] = [kind |-> held, confirmed |-> TRUE, stale |-> FALSE]]
  /\ UNCHANGED <<session, db, trail, pages, used>>
Cancel ==
  /\ held # "none"
  /\ held' = "none"
  /\ UNCHANGED <<session, db, saving, trail, pages, used>>

\* File.save refuses what is not valid, and what changed on disk.
MaySave(kind) == Valid(cur) /\ (kind = "overwrite" \/ disk \in {NoFile, snap})

\* Save, SaveOverwriting: bytes that are the last written are not written again.
Write(p) ==
  /\ saving[p].kind # "none"
  /\ saving' = [saving EXCEPT ![p] = NotSaving]
  /\ IF MaySave(saving[p].kind) /\ Marshal(cur) # snap
     THEN disk' = Marshal(cur) /\ snap' = Marshal(cur)
     ELSE UNCHANGED <<disk, snap>>
  /\ UNCHANGED <<cur, db, held, trail, pages, used>>

\* handleSchemaDiscard, handleSchemaReload: the trail is forgotten.
Restart(s) == cur' = s /\ snap' = s /\ trail' = NoTrail /\ saving' = Overtaken
Discard ==
  /\ Loadable(snap)
  /\ Restart(snap)
  /\ UNCHANGED <<disk, db, held, pages, used>>
Reload ==
  /\ disk # NoFile /\ Loadable(disk)
  /\ Restart(disk)
  /\ UNCHANGED <<disk, db, held, pages, used>>

-----------------------------------------------------------------------------
(* Around Forge *)

Outside ==
  /\ used.outside < MaxOutside
  /\ used' = [used EXCEPT !.outside = @ + 1]
  /\ disk' \in (Files \cup {NoFile}) \ {disk}
  /\ UNCHANGED <<cur, snap, db, held, saving, trail, pages>>

\* The engine starts on the file: InitSchema, and a store.
EngineStarts ==
  /\ used.starts < MaxStarts
  /\ disk # NoFile /\ Loadable(disk) /\ Valid(disk)
  /\ used' = [used EXCEPT !.starts = @ + 1]
  /\ db' = IF db = NoDatabase THEN Bootstrapped(disk)
           ELSE LET after == Migrated(db, Plan(db, disk), disk.version)
                IN  IF after = Failed THEN db ELSE after
  /\ saving' = Overtaken
  /\ UNCHANGED <<session, held, trail, pages>>

-----------------------------------------------------------------------------
Init ==
  /\ disk = First
  /\ cur = disk /\ snap = disk
  /\ db \in {NoDatabase, Bootstrapped(disk)}
  /\ held = "none" /\ saving = [p \in Pages |-> NotSaving]
  /\ trail = NoTrail
  /\ pages \in [Pages -> {[kind |-> "component", name |-> c] : c \in DOMAIN disk.comps}]
  /\ used = [edits |-> 0, outside |-> 0, starts |-> 0]

EditComponents ==
  \E c \in Names :
    \/ AddComponent(c) \/ DeleteComponent(c)
    \/ \E shape \in Shapes : SetShape(c, shape)
    \/ \E p \in Fields : \/ AddField(c, p) \/ DeleteField(c, p)
                         \/ \E q \in Fields : RenameField(c, p, q)
                         \/ \E type \in FieldTypes : RetypeField(c, p, type)
EditTypes ==
  \E t \in TypeNames :
    \/ AddType(t) \/ DeleteType(t)
    \/ \E c \in Names : Require(t, c) \/ Demote(t, c) \/ Detach(t, c)
RenameSomething ==
  \/ \E old, new \in Names : Rename("component", old, new)
  \/ \E old, new \in TypeNames : Rename("type", old, new)
SaveSomehow ==
  \/ \E p \in Pages : \/ \E kind \in {"save", "overwrite"} : PassCheck(p, kind) \/ HoldSave(p, kind)
                      \/ Confirm(p) \/ Write(p)
  \/ Cancel

Next == \/ EditComponents \/ EditTypes \/ RenameSomething
        \/ SaveSomehow \/ Discard \/ Reload
        \/ \E p \in Pages, k \in Kinds : \E n \in Declared(k) : OpenPage(p, k, n)
        \/ Outside \/ EngineStarts

Spec == Init /\ [][Next]_vars

-----------------------------------------------------------------------------
(* Properties *)

\* An edit makes a schema unsavable in one way only: it gives a field a name that
\* can be no column.  validFieldName, which is to reject "what the generator
\* cannot express" (schemaedit.go:352), lets such names through, and every save is
\* refused from then on, until the field is renamed or deleted, which makes the
\* schema savable again.  Whatever else is edited leaves it as good as it was.
\* (A schema with interaction rules or declared renames is another matter: no edit
\* follows either of those.)  Nor does an edit make a schema LoadSchema would
\* refuse, which ValidateSchema alone, which guards the save, does not ask for.
Plain(s) ==
  /\ s.rules = <<>>
  /\ \A c \in DOMAIN s.comps :
       /\ s.comps[c].from = NoName
       /\ \A p \in DOMAIN s.comps[c].props : s.comps[c].props[p].from = NoName
  /\ \A t \in DOMAIN s.types : s.types[t] = NoName
EditsKeepItValid ==
  [][used'.edits # used.edits =>
       /\ HoldsTogether(cur) /\ Plain(cur) => (Valid(cur') <=> NamesUsable(cur'))
       /\ NamesUsable(cur) /\ ~NamesUsable(cur') =>
            \E c \in Declared("component"), p \in Reserved :
              AddField(c, p) \/ \E old \in Fields : RenameField(c, old, p)
       /\ Loadable(Marshal(cur)) => Loadable(Marshal(cur'))]_vars

\* Every name that was renamed away is gone.
NoneCameBack == \A k \in Kinds : DOMAIN trail[k] \cap Declared(k) = {}

\* A page that shows something goes on showing it, whatever this and other
\* pages do: it follows a rename, and no other edit, no save and no start of the
\* engine moves it -- as long as no name comes back.
PagesFollowRenames ==
  [][\A p \in Pages :
       LET page == pages[p]
       IN  pages'[p] = page /\ OnTarget(p) /\ NoneCameBack /\ NoneCameBack'
             /\ DOMAIN trail[page.kind] \subseteq DOMAIN trail'[page.kind] =>
           \/ Shown(p)' = Shown(p)
           \/ Shown(p) \notin Declared(page.kind)'
              /\ (\A new \in Declared(page.kind)' \ Declared(page.kind) :
                    Rename(page.kind, Shown(p), new) => Shown(p)' = new)]_vars

\* The check sees what the engine will do, though it hands the generator another
\* domain than the engine does: a save that writes what it checked, against the
\* database it checked, and was not confirmed, costs that database nothing at
\* the engine's next start.  (Not where a declared rename of a table is pending:
\* the preview then reports the rebuild of that table as a problem and asks
\* nothing.  And a check and its write are two steps: another request may edit
\* in between, or the engine start.)
CheckedSavesLoseNothing ==
  [][\A p \in Pages :
       saving[p].kind # "none" /\ ~saving[p].confirmed /\ ~saving[p].stale
         /\ Write(p) /\ disk' # disk /\ ~RenamesPending(db, cur) => ~Drops(db, disk')]_vars

\* Both, of every step: an edit leaves a schema that can be loaded, and saved
\* unless a field of it has a name that can be no column; and the pages, this one
\* and the others, at what they showed.
\* (schemaedit.go; server.go, the trail of renames)
EditsAreFollowed == EditsKeepItValid /\ PagesFollowRenames
=============================================================================
