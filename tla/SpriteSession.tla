---------------------------- MODULE SpriteSession -----------------------------
(***************************************************************************)
(* SPRITES mode of Forge: the one session on animations.toml, with edits,  *)
(* imports of images, saves that put a deleted file back, and the trail by *)
(* which pages find an animation that was renamed.                         *)
(*                                                                         *)
(* A file is [anims, binds]: the animations in order, each                 *)
(* [key, name, sheet, imported], and the sheet of every bound entity type. *)
(* key says which animation it is, whatever its name; imported, that it    *)
(* came with an image.  Frames, rate and loop of an animation are fields   *)
(* like its sheet.  Somebody else may write the file, delete it or leave   *)
(* what is no TOML (Broken), between any two requests.  An edit and the    *)
(* record of its rename, which the code makes under two mutexes one after  *)
(* the other, are one step.                                                *)
(***************************************************************************)
EXTENDS Integers, Sequences, FiniteSets, Functions, SequencesExt

CONSTANTS AnimNames, Sheets, EntityTypes,
          FirstFiles,          \* what there is when Forge starts
          FirstImages,         \* the sheets there are then
          TheirFiles,          \* what somebody else may leave
          Absent, Broken, NotOpen,
          Budgets              \* bounds: edits, edits of others, starts of the
                               \* engine and transactions that fail

ASSUME BudgetsAssumption == Budgets \subseteq [edits : Nat, theirs : Nat, starts : Nat, failures : Nat]

VARIABLES toml,       \* animations.toml
          images,     \* the sheets under sprites/
          draft,      \* Session.file: Current, or NotOpen
          snap,       \* its snapshot
          problem,    \* Session.problem says something
          trail,      \* Server.renamedAnimationTo
          page,       \* the animation a page has chosen: the name in its URL,
                      \* its key, and whether the name is still its own
          left        \* what is left of the budget

forgeVars == <<toml, images, draft, snap, problem, trail, page>>
spriteVars == <<forgeVars, left>>

-----------------------------------------------------------------------------
(* animations.toml *)

Decodes(f) == f \notin {Absent, Broken}

\* Parse: names are unique and not empty.
NamesApart(f) == \A i, j \in DOMAIN f.anims : f.anims[i].name = f.anims[j].name => i = j
Parses(f) == Decodes(f) /\ NamesApart(f)

\* What a file that decodes is: the numbers up to OldKeys are for what was there
\* before Forge made any.
OldKeys == 10
Animations == [key : Nat, name : AnimNames, sheet : Sheets, imported : BOOLEAN]
IsFile(f) == f = [anims |-> f.anims, binds |-> f.binds] /\ f.anims \in Seq(Animations)
KeysApart(f) == \A i, j \in DOMAIN f.anims : f.anims[i].key = f.anims[j].key => i = j
ASSUME FilesAssumption ==
  \A f \in FirstFiles \cup TheirFiles :
    Decodes(f) => IsFile(f) /\ KeysApart(f) /\ \A i \in DOMAIN f.anims : f.anims[i].key <= OldKeys

WithAnimation(f, a) == [f EXCEPT !.anims = Append(@, a)]
WithBinding(f, t, sheet) == [f EXCEPT !.binds = [u \in DOMAIN @ \cup {t} |-> IF u = t THEN sheet ELSE @[u]]]
BindingRenamed(f, t, u) ==
  [f EXCEPT !.binds = [v \in (DOMAIN @ \ {t}) \cup {u} |-> IF v = u THEN @[t] ELSE @[v]]]

-----------------------------------------------------------------------------
SpriteInit ==
  /\ toml \in FirstFiles /\ images = FirstImages
  /\ draft = (IF Parses(toml) THEN toml ELSE NotOpen) /\ snap = draft
  /\ problem = ~Parses(toml)
  /\ trail = <<>> /\ page = [name |-> "", key |-> 0, own |-> FALSE]
  /\ left \in Budgets

IsOpen == draft # NotOpen

-----------------------------------------------------------------------------
(* Editing the draft *)

\* An edit is refused unless what comes of it parses.
EditSprites(f) ==
  /\ IsOpen /\ left.edits > 0
  /\ f # draft /\ Parses(f)
  /\ draft' = f
  /\ left' = [left EXCEPT !.edits = @ - 1]
  /\ UNCHANGED <<toml, snap, problem>>

NewKey == OldKeys + left.edits

\* A page whose URL has this name has lost it to another animation.
Named(name, key) == page' = [page EXCEPT !.own = @ /\ (name = page.name => key = page.key)]

\* Faulty variant: a trail that leads away from the new name stays.
TrailKept(from, to) ==
  [n \in DOMAIN trail \cup {from} |-> IF n = from \/ trail[n] = from THEN to ELSE trail[n]]

\* recordRename: nothing leads away from the new name, and what led to the old
\* one leads on.
Trail(from, to) ==
  [n \in (DOMAIN trail \ {to}) \cup {from} |-> IF n = from \/ trail[n] = from THEN to ELSE trail[n]]

RenameAnimation(i, to) ==
  /\ EditSprites([draft EXCEPT !.anims[i].name = to])
  /\ trail' = Trail(draft.anims[i].name, to)
  /\ Named(to, draft.anims[i].key)
  /\ UNCHANGED images

\* The sheet, frames, rate or loop of an animation, or the sheet of a binding.
SetField(i, sheet) ==
  EditSprites([draft EXCEPT !.anims[i].sheet = sheet]) /\ UNCHANGED <<images, trail, page>>
SetBinding(t, sheet) ==
  /\ t \in DOMAIN draft.binds /\ EditSprites(WithBinding(draft, t, sheet))
  /\ UNCHANGED <<images, trail, page>>
RenameBinding(t, u) ==
  /\ t \in DOMAIN draft.binds /\ u \notin DOMAIN draft.binds
  /\ EditSprites(BindingRenamed(draft, t, u))
  /\ UNCHANGED <<images, trail, page>>
AddBinding(t, sheet) ==
  /\ t \notin DOMAIN draft.binds /\ EditSprites(WithBinding(draft, t, sheet))
  /\ UNCHANGED <<images, trail, page>>

\* handleAnimationNew: the name is its own from now on.
AddAnimation(name, sheet) ==
  /\ EditSprites(WithAnimation(draft, [key |-> NewKey, name |-> name, sheet |-> sheet, imported |-> FALSE]))
  /\ trail' = Restrict(trail, DOMAIN trail \ {name})
  /\ Named(name, NewKey)
  /\ UNCHANGED images

\* The draft with what an image is imported for; no types, no binding.
WithImport(name, types, sheet) ==
  LET f == WithAnimation(draft, [key |-> NewKey, name |-> name, sheet |-> sheet, imported |-> TRUE])
  IN  [f EXCEPT !.binds = [u \in DOMAIN @ \cup types |-> IF u \in types THEN sheet ELSE @[u]]]

\* Import: the declarations are tried on a copy, then the image is published,
\* never over another one, and only then they become the draft.
Import(name, types, sheet) ==
  /\ sheet \notin images
  /\ types \cap DOMAIN draft.binds = {}
  /\ EditSprites(WithImport(name, types, sheet))
  /\ images' = images \cup {sheet}
  /\ Named(name, NewKey)
  /\ UNCHANGED trail

-----------------------------------------------------------------------------
(* The file *)

WriteDraft ==
  /\ toml' = draft /\ snap' = draft /\ problem' = FALSE
  /\ UNCHANGED <<images, draft, trail, page, left>>

\* Save: not over what changed since it was read.  A file that is gone is written
\* again, which editable.File does for a draft with changes and
\* restoreDeletedCleanFile for one without.
SaveSprites == IsOpen /\ toml \in {snap, Absent} /\ WriteDraft

SaveSpritesOverwriting == IsOpen /\ WriteDraft

\* What a page knew by a name need not be there any more.
Restored ==
  /\ trail' = <<>> /\ page' = [page EXCEPT !.own = FALSE]
  /\ UNCHANGED <<toml, images, left>>

DiscardSprites == IsOpen /\ draft' = snap /\ Restored /\ UNCHANGED <<snap, problem>>

\* Reload opens the file if it was not open; one that does not parse is a problem
\* and leaves the draft.
ReloadSprites ==
  \/ Parses(toml) /\ draft' = toml /\ snap' = toml /\ problem' = FALSE /\ Restored
  \/ /\ ~Parses(toml) /\ problem' = TRUE
     /\ UNCHANGED <<toml, images, draft, snap, trail, page, left>>

\* Create: only where there is no file.
CreateSprites ==
  /\ ~IsOpen /\ toml = Absent
  /\ toml' = [anims |-> <<>>, binds |-> <<>>] /\ draft' = toml' /\ snap' = toml'
  /\ problem' = FALSE
  /\ UNCHANGED <<images, trail, page, left>>

\* Somebody else writes the file or deletes it.
TheirEdit(f) ==
  /\ left.theirs > 0 /\ f # toml
  /\ toml' = f /\ left' = [left EXCEPT !.theirs = @ - 1]
  /\ UNCHANGED <<images, draft, snap, problem, trail, page>>

\* A page takes an animation from the list, which is there unless there is a
\* problem.
ChooseAnimation(i) ==
  /\ ~problem /\ page' = [name |-> draft.anims[i].name, key |-> draft.anims[i].key, own |-> TRUE]
  /\ page' # page
  /\ UNCHANGED <<toml, images, draft, snap, problem, trail, left>>

SpriteNext ==
  \/ IsOpen /\ \E i \in DOMAIN draft.anims :
       \/ \E to \in AnimNames : RenameAnimation(i, to)
       \/ \E sheet \in Sheets : SetField(i, sheet)
       \/ ChooseAnimation(i)
  \/ IsOpen /\ \E t \in EntityTypes :
       \/ \E sheet \in Sheets : SetBinding(t, sheet) \/ AddBinding(t, sheet)
       \/ \E u \in EntityTypes : RenameBinding(t, u)
  \/ IsOpen /\ \E name \in AnimNames, sheet \in Sheets :
       \/ AddAnimation(name, sheet)
       \/ Import(name, {}, sheet)
       \/ \E t \in EntityTypes : Import(name, {t}, sheet)
  \/ SaveSprites
  \/ SaveSpritesOverwriting
  \/ DiscardSprites
  \/ ReloadSprites
  \/ CreateSprites
  \/ \E f \in TheirFiles : TheirEdit(f)

-----------------------------------------------------------------------------
\* followRenames; a trail is never longer than what was renamed.
Onward(name) == IF name \in DOMAIN trail THEN trail[name] ELSE name
Followed(name) ==
  LET after[k \in Nat] == IF k = 0 THEN name ELSE Onward(after[k - 1])
  IN  after[Cardinality(DOMAIN trail) + 1]

KeysOf(f, name) == {f.anims[i].key : i \in {j \in DOMAIN f.anims : f.anims[j].name = name}}

\* However animations are renamed and added, a page finds the one it chose under
\* the name it knows, as long as no other took that name; and a name in the list
\* leads to the animation that has it.  An import leaves a trail away from its
\* name (handleAnimationNew clears it, handleSpriteImport does not).
PagesFindAnimations ==
  IsOpen =>
    /\ page.own /\ (\E i \in DOMAIN draft.anims : draft.anims[i].key = page.key /\ ~draft.anims[i].imported)
         => KeysOf(draft, Followed(page.name)) = {page.key}
    /\ \A i \in DOMAIN draft.anims :
         ~draft.anims[i].imported => Followed(draft.anims[i].name) = draft.anims[i].name
=============================================================================
