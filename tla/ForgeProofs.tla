------------------------------ MODULE ForgeProofs ------------------------------
(***************************************************************************)
(* SPRITES mode and the engine beside it, for any names, sheets and files: *)
(* a page finds the animation it chose, and the loader the sheets it has   *)
(* stamped.  MAP mode for any map: its marks are the engine's refusals,    *)
(* and the engine imports what it makes.                                   *)
(***************************************************************************)
EXTENDS SpriteSync, MapReports, MapEdits, FiniteSetTheorems, NaturalsInduction, WellFoundedInduction, TLAPS

-----------------------------------------------------------------------------
(* The inductive invariant *)

\* No animation has the number of one that is yet to be made.
Known(key) == key \in Nat /\ (key <= OldKeys \/ key > OldKeys + left.edits)
SoundFile(f) == IsFile(f) /\ KeysApart(f) /\ \A i \in DOMAIN f.anims : Known(f.anims[i].key)

Declared(i) == ~draft.anims[i].imported

\* One step of the trail is all of it, and it leads away from no name in the list.
TrailIsShort ==
  /\ IsFiniteSet(DOMAIN trail)
  /\ \A n \in DOMAIN trail : trail[n] \notin DOMAIN trail
  /\ IsOpen => \A i \in DOMAIN draft.anims : Declared(i) => draft.anims[i].name \notin DOMAIN trail

\* Nobody else has the name a page knows, and it leads where the page wants to go.
PageFinds ==
  /\ Known(page.key)
  /\ IsOpen => \A i \in DOMAIN draft.anims :
       /\ draft.anims[i].name = page.name => draft.anims[i].key = page.key
       /\ draft.anims[i].key = page.key /\ Declared(i) => draft.anims[i].name = Onward(page.name)

FilesAreSound ==
  /\ Decodes(toml) => SoundFile(toml)
  /\ IsOpen => SoundFile(draft) /\ NamesApart(draft) /\ SoundFile(snap) /\ NamesApart(snap)

SessionInv ==
  /\ left \in [edits : Nat, theirs : Nat, starts : Nat, failures : Nat]
  /\ page = [name |-> page.name, key |-> page.key, own |-> page.own]
  /\ page.own \in BOOLEAN
  /\ FilesAreSound
  /\ TrailIsShort
  /\ page.own => PageFinds

\* What is down remembers nothing and has nothing to do.
EngineInv ==
  /\ engine = [up |-> engine.up, bound |-> engine.bound, synced |-> engine.synced]
  /\ reloads = [armed |-> reloads.armed, waiting |-> reloads.waiting, at |-> reloads.at]
  /\ engine.up = "down" => engine = Down /\ reloads = NoReload
  /\ SheetsAreRemembered

SyncInv == SessionInv /\ EngineInv
-----------------------------------------------------------------------------
(* The trail *)

LEMMA AllNumbers ==
  ASSUME NEW T, 0 \in T, \A n \in Nat : n \in T => n + 1 \in T
  PROVE  Nat \subseteq T
<1> DEFINE L == {ss \in Nat \X Nat : ss[1] < ss[2]}
<1>1. IsWellFoundedOn(L, Nat)
  BY NatLessThanWellFounded DEF OpToRel
<1>2. \A k, n \in Nat : <<k, n>> \in L <=> k < n
  OBVIOUS
<1> HIDE DEF L
<1>3. SUFFICES ASSUME Nat \ T # {} PROVE FALSE
  OBVIOUS
<1>4. PICK n \in Nat \ T : \A k \in Nat \ T : ~ (<<k, n>> \in L)
  BY <1>1, <1>3, WFMin
<1>5. n - 1 \in Nat /\ n - 1 < n
  BY <1>4
<1>6. n - 1 \in T
  BY <1>2, <1>4, <1>5
<1>7. QED
  BY <1>4, <1>5, <1>6

\* However long followRenames goes on, it is where one step leads.
LEMMA OneStepIsAll == TrailIsShort => \A name : Followed(name) = Onward(name)
<1> SUFFICES ASSUME TrailIsShort, NEW name PROVE Followed(name) = Onward(name)
  OBVIOUS
<1> DEFINE IsAfter(g) == g = [k \in Nat |-> IF k = 0 THEN name ELSE Onward(g[k - 1])]
           after == CHOOSE g : IsAfter(g)
           short == [k \in Nat |-> IF k = 0 THEN name ELSE Onward(name)]
<1>1. Onward(Onward(name)) = Onward(name)
  BY DEF TrailIsShort, Onward
<1>2. IsAfter(short)
  <2>1. \A k \in Nat : short[k] = IF k = 0 THEN name ELSE Onward(name)
    OBVIOUS
  <2> HIDE DEF short
  <2>2. ASSUME NEW k \in Nat PROVE (IF k = 0 THEN name ELSE Onward(short[k - 1])) = short[k]
    <3>1. CASE k = 0
      BY <2>1, <3>1
    <3>2. CASE k # 0
      <4>1. k - 1 \in Nat
        BY <3>2
      <4>2. short[k - 1] \in {name, Onward(name)}
        BY <2>1, <4>1
      <4> QED BY <1>1, <2>1, <3>2, <4>2
    <3> QED BY <3>1, <3>2
  <2> QED BY <2>2 DEF short
<1>3. IsAfter(after)
  BY <1>2
<1> DEFINE T == {k \in Nat : after[k + 1] = Onward(name)}
<1> HIDE DEF after
<1>4. after[0] = name /\ \A k \in Nat : after[k + 1] = Onward(after[k])
  <2>1. \A k \in Nat : after[k] = IF k = 0 THEN name ELSE Onward(after[k - 1])
    BY <1>3
  <2>2. ASSUME NEW k \in Nat PROVE after[k + 1] = Onward(after[k])
    <3>1. k + 1 \in Nat /\ k + 1 # 0 /\ (k + 1) - 1 = k
      OBVIOUS
    <3> QED BY <2>1, <3>1
  <2> QED BY <2>1, <2>2
<1>5. Nat \subseteq T
  <2>1. 0 \in T
    BY <1>4
  <2>2. ASSUME NEW k \in Nat, k \in T PROVE k + 1 \in T
    BY <2>2, <1>1, <1>4
  <2> QED BY <2>1, <2>2, AllNumbers
<1>6. Cardinality(DOMAIN trail) \in Nat
  BY FS_CardinalityType DEF TrailIsShort
<1>7. Followed(name) = after[Cardinality(DOMAIN trail) + 1]
  BY DEF Followed, after
<1> QED BY <1>5, <1>6, <1>7

-----------------------------------------------------------------------------
(* Files *)

LEMMA KeysAreNumbers ==
  ASSUME NEW f, IsFile(f)
  PROVE  \A i \in DOMAIN f.anims : f.anims[i].key \in Nat
<1>1. f.anims \in Seq(Animations)
  BY DEF IsFile
<1>2. \A i \in DOMAIN f.anims : f.anims[i] \in Animations
  BY <1>1
<1> QED BY <1>2 DEF Animations

LEMMA FileRenamed ==
  ASSUME NEW f, NEW g, NEW i \in DOMAIN f.anims, NEW to \in AnimNames,
         IsFile(f), g = [f EXCEPT !.anims[i].name = to]
  PROVE  /\ IsFile(g) /\ DOMAIN g.anims = DOMAIN f.anims /\ g.anims[i].name = to
         /\ \A j \in DOMAIN f.anims :
              /\ g.anims[j].key = f.anims[j].key /\ g.anims[j].imported = f.anims[j].imported
              /\ j # i => g.anims[j].name = f.anims[j].name
<1>1. f.anims \in Seq(Animations) /\ f = [anims |-> f.anims, binds |-> f.binds]
  BY DEF IsFile
<1>2. g = [anims |-> [f.anims EXCEPT ![i] = [@ EXCEPT !.name = to]], binds |-> f.binds]
  BY <1>1
<1>3. f.anims[i] \in Animations
  BY <1>1
<1>4. [f.anims[i] EXCEPT !.name = to] \in Animations
  BY <1>3 DEF Animations
<1>5. g.anims \in Seq(Animations)
  BY <1>1, <1>2, <1>4
<1>6. IsFile(g) /\ DOMAIN g.anims = DOMAIN f.anims
  <2>1. DOMAIN g.anims = DOMAIN f.anims
    BY <1>2
  <2>2. g = [anims |-> g.anims, binds |-> g.binds]
    BY <1>2
  <2> QED BY <1>5, <2>1, <2>2 DEF IsFile
<1>7. g.anims[i] = [f.anims[i] EXCEPT !.name = to] /\ \A j \in DOMAIN f.anims \ {i} : g.anims[j] = f.anims[j]
  BY <1>1, <1>2
<1>8. g.anims[i].name = to /\ g.anims[i].key = f.anims[i].key /\ g.anims[i].imported = f.anims[i].imported
  BY <1>3, <1>7 DEF Animations
<1> QED BY <1>6, <1>7, <1>8

LEMMA FileSheeted ==
  ASSUME NEW f, NEW g, NEW i \in DOMAIN f.anims, NEW sheet \in Sheets,
         IsFile(f), g = [f EXCEPT !.anims[i].sheet = sheet]
  PROVE  /\ IsFile(g) /\ DOMAIN g.anims = DOMAIN f.anims
         /\ \A j \in DOMAIN f.anims :
              /\ g.anims[j].key = f.anims[j].key /\ g.anims[j].imported = f.anims[j].imported
              /\ g.anims[j].name = f.anims[j].name
<1>1. f.anims \in Seq(Animations) /\ f = [anims |-> f.anims, binds |-> f.binds]
  BY DEF IsFile
<1>2. g = [anims |-> [f.anims EXCEPT ![i] = [@ EXCEPT !.sheet = sheet]], binds |-> f.binds]
  BY <1>1
<1>3. f.anims[i] \in Animations
  BY <1>1
<1>4. [f.anims[i] EXCEPT !.sheet = sheet] \in Animations
  BY <1>3 DEF Animations
<1>5. g.anims \in Seq(Animations)
  BY <1>1, <1>2, <1>4
<1>6. IsFile(g) /\ DOMAIN g.anims = DOMAIN f.anims
  <2>1. DOMAIN g.anims = DOMAIN f.anims
    BY <1>2
  <2>2. g = [anims |-> g.anims, binds |-> g.binds]
    BY <1>2
  <2> QED BY <1>5, <2>1, <2>2 DEF IsFile
<1>7. g.anims[i] = [f.anims[i] EXCEPT !.sheet = sheet] /\ \A j \in DOMAIN f.anims \ {i} : g.anims[j] = f.anims[j]
  BY <1>1, <1>2
<1> QED BY <1>3, <1>6, <1>7 DEF Animations

LEMMA FileRebound ==
  ASSUME NEW f, NEW binds, IsFile(f)
  PROVE  /\ IsFile([f EXCEPT !.binds = binds])
         /\ [f EXCEPT !.binds = binds].anims = f.anims
  BY DEF IsFile

LEMMA FileExtended ==
  ASSUME NEW f, NEW a \in Animations, IsFile(f)
  PROVE  LET g == WithAnimation(f, a) IN
         /\ IsFile(g) /\ DOMAIN g.anims = DOMAIN f.anims \cup {Len(f.anims) + 1}
         /\ Len(f.anims) + 1 \notin DOMAIN f.anims
         /\ g.anims[Len(f.anims) + 1] = a
         /\ \A j \in DOMAIN f.anims : g.anims[j] = f.anims[j]
<1>1. f.anims \in Seq(Animations) /\ f = [anims |-> f.anims, binds |-> f.binds]
  BY DEF IsFile
<1>2. WithAnimation(f, a) = [anims |-> Append(f.anims, a), binds |-> f.binds]
  <2>1. f = [anims |-> f.anims, binds |-> f.binds]
    BY <1>1
  <2>2. \A x : [f EXCEPT !.anims = x] = [anims |-> x, binds |-> f.binds]
    BY <2>1
  <2> QED BY <2>2 DEF WithAnimation
<1> QED BY <1>1, <1>2 DEF IsFile
-----------------------------------------------------------------------------
(* SPRITES mode *)

\* What an edit makes is a file of names and numbers of its own.
LEMMA Drafted ==
  ASSUME SessionInv, NEW f, EditSprites(f), IsOpen, IsFile(f), KeysApart(f),
         \A i \in DOMAIN f.anims : Known(f.anims[i].key) \/ f.anims[i].key = NewKey
  PROVE  /\ FilesAreSound'
         /\ left' \in [edits : Nat, theirs : Nat, starts : Nat, failures : Nat]
         /\ \A key : Known(key) \/ key = NewKey => Known(key)'
         /\ ~Known(NewKey)
<1>1. left \in [edits : Nat, theirs : Nat, starts : Nat, failures : Nat] /\ left.edits > 0
  BY DEF SessionInv, EditSprites
<1>2. /\ left' \in [edits : Nat, theirs : Nat, starts : Nat, failures : Nat]
      /\ left'.edits = left.edits - 1
  BY <1>1 DEF EditSprites
<1>3. \A key : Known(key) \/ key = NewKey => Known(key)'
  BY <1>1, <1>2 DEF Known, NewKey, OldKeys
<1>4. ~Known(NewKey)
  BY <1>1 DEF Known, NewKey, OldKeys
<1>5. toml' = toml /\ snap' = snap /\ draft' = f /\ NamesApart(f)
  BY DEF EditSprites, Parses
<1>6. SoundFile(draft)' /\ NamesApart(draft)'
  BY <1>3, <1>5 DEF SoundFile, NamesApart, KeysApart, IsFile
<1>7. (Decodes(toml) => SoundFile(toml)') /\ SoundFile(snap)' /\ NamesApart(snap)'
  BY <1>3, <1>5 DEF SessionInv, FilesAreSound, SoundFile
<1> QED BY <1>2, <1>3, <1>4, <1>5, <1>6, <1>7 DEF FilesAreSound, Decodes

\* An edit of what is not a name.
LEMMA SameNames ==
  ASSUME SessionInv, NEW f, EditSprites(f), IsOpen, IsFile(f), UNCHANGED <<trail, page>>,
         DOMAIN f.anims = DOMAIN draft.anims,
         \A j \in DOMAIN f.anims :
           /\ f.anims[j].key = draft.anims[j].key /\ f.anims[j].imported = draft.anims[j].imported
           /\ f.anims[j].name = draft.anims[j].name
  PROVE  SessionInv'
<1>1. SoundFile(draft)
  BY DEF SessionInv, FilesAreSound
<1>2. KeysApart(f) /\ \A i \in DOMAIN f.anims : Known(f.anims[i].key)
  BY <1>1 DEF SoundFile, KeysApart
<1>3. /\ FilesAreSound'
      /\ left' \in [edits : Nat, theirs : Nat, starts : Nat, failures : Nat]
      /\ \A key : Known(key) => Known(key)'
  BY <1>2, Drafted
<1>4. draft' = f
  BY DEF EditSprites
<1>5. TrailIsShort'
  BY <1>4 DEF SessionInv, TrailIsShort, Declared
<1>6. page'.own => PageFinds'
  <2>1. \A name : Onward(name)' = Onward(name)
    BY DEF Onward
  <2>2. SUFFICES ASSUME page.own PROVE PageFinds'
    OBVIOUS
  <2>3. PageFinds
    BY <2>2 DEF SessionInv
  <2> QED BY <1>3, <1>4, <2>1, <2>3 DEF PageFinds, Declared
<1> QED BY <1>3, <1>5, <1>6 DEF SessionInv

LEMMA Renames ==
  ASSUME SessionInv, IsOpen, NEW i \in DOMAIN draft.anims, NEW to \in AnimNames, RenameAnimation(i, to)
  PROVE  SessionInv'
<1> DEFINE f == [draft EXCEPT !.anims[i].name = to]
           from == draft.anims[i].name
<1>1. SoundFile(draft) /\ NamesApart(draft) /\ IsFile(draft)
  BY DEF SessionInv, FilesAreSound, SoundFile
<1>2. /\ EditSprites(f) /\ trail' = Trail(from, to)
      /\ page' = [page EXCEPT !.own = @ /\ (to = page.name => draft.anims[i].key = page.key)]
  BY DEF RenameAnimation, Named
<1>3. /\ IsFile(f) /\ DOMAIN f.anims = DOMAIN draft.anims /\ f.anims[i].name = to
      /\ \A j \in DOMAIN draft.anims :
           /\ f.anims[j].key = draft.anims[j].key /\ f.anims[j].imported = draft.anims[j].imported
           /\ j # i => f.anims[j].name = draft.anims[j].name
  BY <1>1, FileRenamed
<1>4. draft' = f /\ NamesApart(f) /\ f # draft
  BY <1>2 DEF EditSprites, Parses
<1>5. from # to
  <2>1. SUFFICES ASSUME from = to PROVE f = draft
    BY <1>4
  <2>2. draft = [anims |-> draft.anims, binds |-> draft.binds] /\ draft.anims \in Seq(Animations)
    BY <1>1 DEF IsFile
  <2>3. draft.anims[i] \in Animations
    BY <2>2
  <2>4. [draft.anims[i] EXCEPT !.name = to] = draft.anims[i]
    BY <2>1, <2>3 DEF Animations
  <2>5. [draft.anims EXCEPT ![i] = [@ EXCEPT !.name = to]] = draft.anims
    BY <2>2, <2>4
  <2> QED BY <2>2, <2>5
<1> HIDE DEF f
<1>6. KeysApart(f) /\ \A j \in DOMAIN f.anims : Known(f.anims[j].key)
  BY <1>1, <1>3 DEF SoundFile, KeysApart
<1>7. /\ FilesAreSound'
      /\ left' \in [edits : Nat, theirs : Nat, starts : Nat, failures : Nat]
      /\ \A key : Known(key) => Known(key)'
  BY <1>2, <1>3, <1>6, Drafted
<1>8. /\ DOMAIN trail' = {from} \cup (DOMAIN trail \ {to})
      /\ trail'[from] = to
      /\ \A n \in DOMAIN trail \ {from, to} : trail'[n] = IF trail[n] = from THEN to ELSE trail[n]
  BY <1>2 DEF Trail
<1> HIDE DEF from
<1>9. TrailIsShort'
  <2>1. IsFiniteSet(DOMAIN trail')
    <3>1. IsFiniteSet(DOMAIN trail \ {to})
      BY FS_Subset DEF SessionInv, TrailIsShort
    <3> QED BY <1>8, <3>1, FS_AddElement
  <2>2. \A n \in DOMAIN trail' : trail'[n] \notin DOMAIN trail'
    <3>1. \A n \in DOMAIN trail : trail[n] \notin DOMAIN trail
      BY DEF SessionInv, TrailIsShort
    <3>2. TAKE n \in DOMAIN trail'
    <3>3. CASE n = from
      BY <1>5, <1>8, <3>3
    <3>4. CASE n # from
      BY <1>5, <1>8, <3>1, <3>4
    <3> QED BY <3>3, <3>4
  <2>3. ASSUME NEW j \in DOMAIN f.anims, ~f.anims[j].imported PROVE f.anims[j].name \notin DOMAIN trail'
    <3>1. CASE j = i
      BY <1>3, <1>5, <1>8, <3>1
    <3>2. CASE j # i
      <4>1. draft.anims[j].name # from
        BY <1>1, <1>3, <2>3, <3>2 DEF NamesApart, from
      <4>2. draft.anims[j].name \notin DOMAIN trail
        BY <1>3, <2>3 DEF SessionInv, TrailIsShort, Declared
      <4> QED BY <1>3, <1>8, <3>2, <4>1, <4>2
    <3> QED BY <3>1, <3>2
  <2> QED BY <1>4, <2>1, <2>2, <2>3 DEF TrailIsShort, Declared
<1>10. /\ page' = [name |-> page'.name, key |-> page'.key, own |-> page'.own]
       /\ page'.name = page.name /\ page'.key = page.key /\ page'.own \in BOOLEAN
       /\ page'.own => page.own /\ (to = page.name => draft.anims[i].key = page.key)
  BY <1>2 DEF SessionInv
<1>11. ASSUME page'.own PROVE PageFinds'
  <2>1. page.own /\ PageFinds /\ (to = page.name => draft.anims[i].key = page.key)
    BY <1>10, <1>11 DEF SessionInv
  <2>2. ASSUME NEW j \in DOMAIN f.anims, f.anims[j].name = page.name PROVE f.anims[j].key = page.key
    BY <1>3, <2>1, <2>2 DEF PageFinds
  <2>3. ASSUME NEW j \in DOMAIN f.anims, f.anims[j].key = page.key, ~f.anims[j].imported
        PROVE  f.anims[j].name = Onward(page.name)'
    <3>1. draft.anims[j].name = Onward(page.name) /\ draft.anims[j].name \notin DOMAIN trail
      BY <1>3, <2>1, <2>3 DEF PageFinds, Declared, SessionInv, TrailIsShort
    <3>2. CASE j = i
      <4>1. from = Onward(page.name)
        BY <3>1, <3>2 DEF from
      <4>2. CASE page.name = to
        BY <1>3, <1>5, <1>8, <1>10, <3>2, <4>2 DEF Onward
      <4>3. CASE page.name = from
        BY <1>3, <1>5, <1>8, <1>10, <3>2, <4>3 DEF Onward
      <4>4. CASE page.name \notin {from, to}
        BY <1>3, <1>8, <1>10, <3>2, <4>1, <4>4 DEF Onward
      <4> QED BY <4>2, <4>3, <4>4
    <3>3. CASE j # i
      <4>1. draft.anims[j].name # from
        BY <1>1, <1>3, <3>3 DEF NamesApart, from
      <4>2. page.name # from
        <5>1. draft.anims[i].key # page.key
          BY <1>1, <1>3, <2>3, <3>3 DEF SoundFile, KeysApart
        <5> QED BY <2>1, <5>1 DEF PageFinds, from
      <4>3. page.name # to
        BY <1>1, <1>3, <2>1, <2>3, <3>3 DEF SoundFile, KeysApart
      <4> QED BY <1>3, <1>8, <1>10, <3>1, <3>3, <4>1, <4>2, <4>3 DEF Onward
    <3> QED BY <3>2, <3>3
  <2>4. Known(page.key)'
    BY <1>7, <1>10, <2>1 DEF PageFinds
  <2> QED BY <1>4, <1>10, <2>2, <2>3, <2>4 DEF PageFinds, Declared
<1> QED BY <1>7, <1>9, <1>10, <1>11 DEF SessionInv

LEMMA Adds ==
  ASSUME SessionInv, IsOpen, NEW name \in AnimNames, NEW sheet \in Sheets, AddAnimation(name, sheet)
  PROVE  SessionInv'
<1> DEFINE a == [key |-> NewKey, name |-> name, sheet |-> sheet, imported |-> FALSE]
           f == WithAnimation(draft, a)
           n == Len(draft.anims) + 1
<1>1. SoundFile(draft) /\ NamesApart(draft) /\ IsFile(draft)
  BY DEF SessionInv, FilesAreSound, SoundFile
<1>2. /\ EditSprites(f) /\ DOMAIN trail' = DOMAIN trail \ {name}
      /\ \A m \in DOMAIN trail' : trail'[m] = trail[m]
      /\ page' = [page EXCEPT !.own = @ /\ (name = page.name => NewKey = page.key)]
  BY DEF AddAnimation, Named, Restrict
<1>3. a \in Animations /\ a.key = NewKey /\ a.name = name
  BY DEF Animations, NewKey, OldKeys, SessionInv
<1> HIDE DEF a
<1>4. /\ IsFile(f) /\ DOMAIN f.anims = DOMAIN draft.anims \cup {n} /\ n \notin DOMAIN draft.anims
      /\ f.anims[n] = a /\ \A j \in DOMAIN draft.anims : f.anims[j] = draft.anims[j]
  BY <1>1, <1>3, FileExtended
<1> HIDE DEF f, n
<1>5. draft' = f /\ NamesApart(f)
  BY <1>2 DEF EditSprites, Parses
<1>6. ~Known(NewKey)
  BY DEF SessionInv, AddAnimation, EditSprites, Known, NewKey, OldKeys
<1>7. KeysApart(f) /\ \A j \in DOMAIN f.anims : Known(f.anims[j].key) \/ f.anims[j].key = NewKey
  BY <1>1, <1>3, <1>4, <1>6 DEF SoundFile, KeysApart
<1>8. /\ FilesAreSound'
      /\ left' \in [edits : Nat, theirs : Nat, starts : Nat, failures : Nat]
      /\ \A key : Known(key) => Known(key)'
  BY <1>2, <1>4, <1>7, Drafted
<1>9. TrailIsShort'
  <2>1. IsFiniteSet(DOMAIN trail')
    BY <1>2, FS_Subset DEF SessionInv, TrailIsShort
  <2>2. \A m \in DOMAIN trail' : trail'[m] \notin DOMAIN trail'
    BY <1>2 DEF SessionInv, TrailIsShort
  <2>3. ASSUME NEW j \in DOMAIN f.anims, ~f.anims[j].imported PROVE f.anims[j].name \notin DOMAIN trail'
    BY <1>2, <1>3, <1>4, <2>3 DEF SessionInv, TrailIsShort, Declared
  <2> QED BY <1>5, <2>1, <2>2, <2>3 DEF TrailIsShort, Declared
<1>10. /\ page' = [name |-> page'.name, key |-> page'.key, own |-> page'.own]
       /\ page'.name = page.name /\ page'.key = page.key /\ page'.own \in BOOLEAN
       /\ page'.own => page.own /\ (name = page.name => NewKey = page.key)
  BY <1>2 DEF SessionInv
<1>11. ASSUME page'.own PROVE PageFinds'
  <2>1. page.own /\ PageFinds /\ name # page.name
    BY <1>6, <1>10, <1>11 DEF SessionInv, PageFinds
  <2>2. NewKey # page.key
    BY <1>6, <2>1 DEF PageFinds
  <2>3. Onward(page.name)' = Onward(page.name)
    BY <1>2, <1>10, <2>1 DEF Onward
  <2>4. \A j \in DOMAIN f.anims :
          /\ f.anims[j].name = page.name => f.anims[j].key = page.key
          /\ f.anims[j].key = page.key /\ ~f.anims[j].imported => f.anims[j].name = Onward(page.name)
    BY <1>3, <1>4, <2>1, <2>2 DEF PageFinds, Declared
  <2>5. Known(page.key)'
    BY <1>8, <1>10, <2>1 DEF PageFinds
  <2> QED BY <1>5, <1>10, <2>3, <2>4, <2>5 DEF PageFinds, Declared
<1> QED BY <1>8, <1>9, <1>10, <1>11 DEF SessionInv

LEMMA ImportKeeps ==
  ASSUME SessionInv, IsOpen, NEW name \in AnimNames, NEW types, NEW sheet \in Sheets, Import(name, types, sheet)
  PROVE  SessionInv'
<1> DEFINE a == [key |-> NewKey, name |-> name, sheet |-> sheet, imported |-> TRUE]
           g == WithAnimation(draft, a)
           f == WithImport(name, types, sheet)
           n == Len(draft.anims) + 1
<1>1. SoundFile(draft) /\ NamesApart(draft) /\ IsFile(draft)
  BY DEF SessionInv, FilesAreSound, SoundFile
<1>2. /\ EditSprites(f) /\ trail' = trail
      /\ page' = [page EXCEPT !.own = @ /\ (name = page.name => NewKey = page.key)]
  BY DEF Import, Named
<1>3. a \in Animations /\ a.key = NewKey /\ a.name = name /\ a.imported
  BY DEF Animations, NewKey, OldKeys, SessionInv
<1>4. f = [g EXCEPT !.binds = [u \in DOMAIN @ \cup types |-> IF u \in types THEN sheet ELSE @[u]]]
  BY DEF WithImport
<1> HIDE DEF a
<1>5. /\ IsFile(g) /\ DOMAIN g.anims = DOMAIN draft.anims \cup {n} /\ n \notin DOMAIN draft.anims
      /\ g.anims[n] = a /\ \A j \in DOMAIN draft.anims : g.anims[j] = draft.anims[j]
  BY <1>1, <1>3, FileExtended
<1> HIDE DEF g, f, n
<1>6. IsFile(f) /\ f.anims = g.anims
  BY <1>4, <1>5, FileRebound
<1>7. draft' = f /\ NamesApart(f)
  BY <1>2 DEF EditSprites, Parses
<1>8. ~Known(NewKey)
  BY DEF SessionInv, Import, EditSprites, Known, NewKey, OldKeys
<1>9. KeysApart(f) /\ \A j \in DOMAIN f.anims : Known(f.anims[j].key) \/ f.anims[j].key = NewKey
  BY <1>1, <1>3, <1>5, <1>6, <1>8 DEF SoundFile, KeysApart
<1>10. /\ FilesAreSound'
       /\ left' \in [edits : Nat, theirs : Nat, starts : Nat, failures : Nat]
       /\ \A key : Known(key) => Known(key)'
  BY <1>2, <1>6, <1>9, Drafted
<1>11. TrailIsShort'
  BY <1>2, <1>3, <1>5, <1>6, <1>7 DEF SessionInv, TrailIsShort, Declared
<1>12. /\ page' = [name |-> page'.name, key |-> page'.key, own |-> page'.own]
       /\ page'.name = page.name /\ page'.key = page.key /\ page'.own \in BOOLEAN
       /\ page'.own => page.own /\ (name = page.name => NewKey = page.key)
  BY <1>2 DEF SessionInv
<1>13. ASSUME page'.own PROVE PageFinds'
  <2>1. page.own /\ PageFinds /\ name # page.name
    BY <1>8, <1>12, <1>13 DEF SessionInv, PageFinds
  <2>2. Onward(page.name)' = Onward(page.name)
    BY <1>2, <1>12 DEF Onward
  <2>3. \A j \in DOMAIN f.anims :
          /\ f.anims[j].name = page.name => f.anims[j].key = page.key
          /\ f.anims[j].key = page.key /\ ~f.anims[j].imported => f.anims[j].name = Onward(page.name)
    BY <1>3, <1>5, <1>6, <2>1 DEF PageFinds, Declared
  <2>4. Known(page.key)'
    BY <1>10, <1>12, <2>1 DEF PageFinds
  <2> QED BY <1>7, <1>12, <2>2, <2>3, <2>4 DEF PageFinds, Declared
<1> QED BY <1>10, <1>11, <1>12, <1>13 DEF SessionInv

LEMMA OtherEdits ==
  ASSUME SessionInv, IsOpen, NEW t, NEW sheet \in Sheets,
         \/ \E i \in DOMAIN draft.anims : SetField(i, sheet)
         \/ SetBinding(t, sheet) \/ AddBinding(t, sheet)
  PROVE  SessionInv'
<1>1. IsFile(draft)
  BY DEF SessionInv, FilesAreSound, SoundFile
<1>2. ASSUME NEW i \in DOMAIN draft.anims, SetField(i, sheet) PROVE SessionInv'
  <2> DEFINE f == [draft EXCEPT !.anims[i].sheet = sheet]
  <2>1. EditSprites(f) /\ UNCHANGED <<trail, page>>
    BY <1>2 DEF SetField
  <2>2. /\ IsFile(f) /\ DOMAIN f.anims = DOMAIN draft.anims
        /\ \A j \in DOMAIN draft.anims :
             /\ f.anims[j].key = draft.anims[j].key /\ f.anims[j].imported = draft.anims[j].imported
             /\ f.anims[j].name = draft.anims[j].name
    BY <1>1, FileSheeted
  <2> HIDE DEF f
  <2> QED BY <2>1, <2>2, SameNames
<1>3. ASSUME NEW binds, EditSprites([draft EXCEPT !.binds = binds]), UNCHANGED <<trail, page>> PROVE SessionInv'
  <2> DEFINE f == [draft EXCEPT !.binds = binds]
  <2>1. IsFile(f) /\ f.anims = draft.anims
    BY <1>1, FileRebound
  <2>2. EditSprites(f)
    BY <1>3
  <2> HIDE DEF f
  <2> QED BY <1>3, <2>1, <2>2, SameNames
<1>4. CASE SetBinding(t, sheet) \/ AddBinding(t, sheet)
  <2> DEFINE binds == [v \in DOMAIN draft.binds \cup {t} |-> IF v = t THEN sheet ELSE draft.binds[v]]
  <2>1. [draft EXCEPT !.binds = [v \in DOMAIN @ \cup {t} |-> IF v = t THEN sheet ELSE @[v]]]
          = [draft EXCEPT !.binds = binds]
    BY <1>1 DEF IsFile
  <2>2. EditSprites([draft EXCEPT !.binds = binds]) /\ UNCHANGED <<trail, page>>
    BY <1>4, <2>1 DEF SetBinding, AddBinding, WithBinding
  <2> QED BY <1>3, <2>2
<1> QED BY <1>2, <1>4

LEMMA Chooses ==
  ASSUME SessionInv, IsOpen, NEW i \in DOMAIN draft.anims, ChooseAnimation(i)
  PROVE  SessionInv'
<1>1. /\ page'.name = draft.anims[i].name /\ page'.key = draft.anims[i].key /\ page'.own = TRUE
      /\ page' = [name |-> page'.name, key |-> page'.key, own |-> page'.own]
      /\ UNCHANGED <<toml, draft, snap, trail, left>>
  BY DEF ChooseAnimation
<1>2. SoundFile(draft) /\ NamesApart(draft)
  BY DEF SessionInv, FilesAreSound
<1>3. FilesAreSound'
  BY <1>1 DEF SessionInv, FilesAreSound, SoundFile, Known, Decodes, IsOpen
<1>4. TrailIsShort'
  BY <1>1 DEF SessionInv, TrailIsShort, Declared, IsOpen
<1>5. PageFinds'
  <2>1. Known(page.key)'
    BY <1>1, <1>2 DEF SoundFile, Known
  <2>2. ASSUME NEW j \in DOMAIN draft.anims, draft.anims[j].name = page'.name PROVE draft.anims[j].key = page'.key
    BY <1>1, <1>2, <2>2 DEF NamesApart
  <2>3. ASSUME NEW j \in DOMAIN draft.anims, draft.anims[j].key = page'.key, Declared(j)
        PROVE  draft.anims[j].name = Onward(page.name)'
    <3>1. j = i /\ draft.anims[j].name \notin DOMAIN trail
      BY <1>1, <1>2, <2>3 DEF SoundFile, KeysApart, SessionInv, TrailIsShort
    <3> QED BY <1>1, <3>1 DEF Onward
  <2> QED BY <1>1, <2>1, <2>2, <2>3 DEF PageFinds, Declared
<1> QED BY <1>1, <1>3, <1>4, <1>5 DEF SessionInv

\* What a page knew by a name is forgotten with the trail.
LEMMA Forgets ==
  ASSUME SessionInv, FilesAreSound', Restored
  PROVE  SessionInv'
<1>1. trail' = <<>> /\ DOMAIN trail' = {}
  BY DEF Restored
<1>2. TrailIsShort'
  BY <1>1, FS_EmptySet DEF TrailIsShort
<1>3. page' = [name |-> page'.name, key |-> page'.key, own |-> FALSE] /\ page'.own = FALSE /\ left' = left
  BY DEF Restored, SessionInv
<1> QED BY <1>2, <1>3 DEF SessionInv

LEMMA FileSteps ==
  ASSUME SessionInv,
         \/ SaveSprites \/ SaveSpritesOverwriting \/ DiscardSprites \/ ReloadSprites \/ CreateSprites
         \/ \E f \in TheirFiles : TheirEdit(f)
  PROVE  SessionInv'
<1>1. CASE SaveSprites \/ SaveSpritesOverwriting
  <2>1. IsOpen /\ toml' = draft /\ snap' = draft /\ UNCHANGED <<draft, trail, page, left>>
    BY <1>1 DEF SaveSprites, SaveSpritesOverwriting, WriteDraft
  <2>2. FilesAreSound'
    BY <2>1 DEF SessionInv, FilesAreSound, SoundFile, Known, Decodes, IsOpen
  <2>3. TrailIsShort' /\ (PageFinds => PageFinds')
    BY <2>1 DEF SessionInv, TrailIsShort, PageFinds, Known, Onward, Declared, IsOpen
  <2> QED BY <2>1, <2>2, <2>3 DEF SessionInv
<1>2. CASE DiscardSprites
  <2>1. IsOpen /\ draft' = snap /\ snap' = snap /\ Restored /\ toml' = toml /\ left' = left
    BY <1>2 DEF DiscardSprites, Restored
  <2>2. FilesAreSound'
    BY <2>1 DEF SessionInv, FilesAreSound, SoundFile, Known, Decodes
  <2> QED BY <2>1, <2>2, Forgets
<1>3. CASE ReloadSprites
  <2>1. CASE Parses(toml)
    <3>1. draft' = toml /\ snap' = toml /\ Restored /\ toml' = toml /\ left' = left
      BY <1>3, <2>1 DEF ReloadSprites, Restored
    <3>2. SoundFile(toml) /\ NamesApart(toml)
      BY <2>1 DEF Parses, SessionInv, FilesAreSound
    <3>3. FilesAreSound'
      BY <3>1, <3>2 DEF FilesAreSound, SoundFile, Known, Decodes
    <3> QED BY <3>1, <3>3, Forgets
  <2>2. CASE ~Parses(toml)
    <3>1. UNCHANGED <<toml, draft, snap, trail, page, left>>
      BY <1>3, <2>2 DEF ReloadSprites
    <3>2. FilesAreSound' /\ TrailIsShort' /\ (PageFinds => PageFinds')
      BY <3>1 DEF SessionInv, FilesAreSound, SoundFile, Known, Decodes, TrailIsShort, PageFinds, Onward, Declared, IsOpen
    <3> QED BY <3>1, <3>2 DEF SessionInv
  <2> QED BY <2>1, <2>2
<1>4. CASE CreateSprites
  <2> DEFINE new == [anims |-> <<>>, binds |-> <<>>]
  <2>1. ~IsOpen /\ toml' = new /\ draft' = new /\ snap' = new /\ UNCHANGED <<trail, page, left>>
    BY <1>4 DEF CreateSprites
  <2>2. new.anims = <<>> /\ DOMAIN new.anims = {} /\ new = [anims |-> new.anims, binds |-> new.binds]
    OBVIOUS
  <2>3. new.anims \in Seq(Animations)
    BY <2>2
  <2> HIDE DEF new
  <2>4. FilesAreSound'
    BY <2>1, <2>2, <2>3 DEF FilesAreSound, SoundFile, IsFile, KeysApart, NamesApart, Known
  <2>5. TrailIsShort'
    BY <2>1, <2>2 DEF SessionInv, TrailIsShort
  <2>6. PageFinds => PageFinds'
    BY <2>1, <2>2 DEF PageFinds, Known
  <2> QED BY <2>1, <2>4, <2>5, <2>6 DEF SessionInv
<1>5. ASSUME NEW f \in TheirFiles, TheirEdit(f) PROVE SessionInv'
  <2>1. /\ toml' = f /\ left' = [left EXCEPT !.theirs = @ - 1] /\ left.theirs > 0
        /\ UNCHANGED <<draft, snap, trail, page>>
    BY <1>5 DEF TheirEdit
  <2>2. /\ left' \in [edits : Nat, theirs : Nat, starts : Nat, failures : Nat]
        /\ left'.edits = left.edits
    BY <2>1 DEF SessionInv
  <2>3. Decodes(f) => IsFile(f) /\ KeysApart(f) /\ \A i \in DOMAIN f.anims : f.anims[i].key <= OldKeys
    BY <1>5, FilesAssumption
  <2>4. Decodes(toml)' => SoundFile(toml)'
    <3>1. ASSUME Decodes(f) PROVE \A i \in DOMAIN f.anims : f.anims[i].key \in Nat
      BY <2>3, <3>1, KeysAreNumbers
    <3> QED BY <2>1, <2>3, <3>1 DEF Decodes, SoundFile, Known
  <2>5. \A key : Known(key)' = Known(key)
    BY <2>2 DEF Known
  <2>6. FilesAreSound'
    BY <2>1, <2>4, <2>5 DEF SessionInv, FilesAreSound, SoundFile, IsOpen
  <2>7. TrailIsShort' /\ (PageFinds => PageFinds')
    BY <2>1, <2>5 DEF SessionInv, TrailIsShort, PageFinds, Onward, Declared, IsOpen
  <2> QED BY <2>1, <2>2, <2>6, <2>7 DEF SessionInv
<1> QED BY <1>1, <1>2, <1>3, <1>4, <1>5

LEMMA SessionInvInit == SpriteInit => SessionInv
<1> SUFFICES ASSUME SpriteInit PROVE SessionInv
  OBVIOUS
<1>1. left \in [edits : Nat, theirs : Nat, starts : Nat, failures : Nat]
  BY BudgetsAssumption DEF SpriteInit
<1>2. Decodes(toml) => SoundFile(toml)
  <2> SUFFICES ASSUME Decodes(toml) PROVE SoundFile(toml)
    OBVIOUS
  <2>1. IsFile(toml) /\ KeysApart(toml) /\ \A i \in DOMAIN toml.anims : toml.anims[i].key <= OldKeys
    BY FilesAssumption DEF SpriteInit
  <2>2. \A i \in DOMAIN toml.anims : toml.anims[i].key \in Nat
    BY <2>1, KeysAreNumbers
  <2> QED BY <2>1, <2>2 DEF SoundFile, Known
<1>3. FilesAreSound
  <2>1. IsOpen => Parses(toml) /\ draft = toml /\ snap = toml
    BY DEF SpriteInit, IsOpen
  <2> QED BY <1>2, <2>1 DEF FilesAreSound, Parses
<1>4. trail = <<>> /\ DOMAIN trail = {}
  <2>1. trail = <<>>
    BY DEF SpriteInit
  <2> QED BY <2>1
<1>5. TrailIsShort
  BY <1>4, FS_EmptySet DEF TrailIsShort
<1>6. page = [name |-> page.name, key |-> page.key, own |-> page.own] /\ page.own = FALSE
  BY DEF SpriteInit
<1> QED BY <1>1, <1>3, <1>5, <1>6 DEF SessionInv

LEMMA SessionInvStep == SessionInv /\ SpriteNext => SessionInv'
<1> SUFFICES ASSUME SessionInv, SpriteNext PROVE SessionInv'
  OBVIOUS
<1>1. ASSUME IsOpen, NEW i \in DOMAIN draft.anims, \E to \in AnimNames : RenameAnimation(i, to) PROVE SessionInv'
  BY <1>1, Renames
<1>2. ASSUME IsOpen, NEW i \in DOMAIN draft.anims, \E sheet \in Sheets : SetField(i, sheet) PROVE SessionInv'
  BY <1>2, OtherEdits
<1>3. ASSUME IsOpen, NEW i \in DOMAIN draft.anims, ChooseAnimation(i) PROVE SessionInv'
  BY <1>3, Chooses
<1>4. ASSUME IsOpen, NEW t, \E sheet \in Sheets : SetBinding(t, sheet) \/ AddBinding(t, sheet) PROVE SessionInv'
  BY <1>4, OtherEdits
<1>5. ASSUME IsOpen, NEW t, NEW u, RenameBinding(t, u) PROVE SessionInv'
  <2> DEFINE f == BindingRenamed(draft, t, u)
             binds == [v \in (DOMAIN draft.binds \ {t}) \cup {u} |-> IF v = u THEN draft.binds[t] ELSE draft.binds[v]]
  <2>1. IsFile(draft)
    BY <1>5 DEF SessionInv, FilesAreSound, SoundFile
  <2>2. f = [draft EXCEPT !.binds = binds]
    BY <2>1 DEF BindingRenamed, IsFile
  <2>3. IsFile(f) /\ f.anims = draft.anims
    BY <2>1, <2>2, FileRebound
  <2>4. EditSprites(f) /\ UNCHANGED <<trail, page>>
    BY <1>5 DEF RenameBinding
  <2> HIDE DEF f
  <2> QED BY <1>5, <2>3, <2>4, SameNames
<1>6. ASSUME IsOpen, NEW name \in AnimNames, NEW sheet \in Sheets,
             \/ AddAnimation(name, sheet) \/ Import(name, {}, sheet)
             \/ \E t \in EntityTypes : Import(name, {t}, sheet)
      PROVE  SessionInv'
  BY <1>6, Adds, ImportKeeps
<1>7. CASE \/ SaveSprites \/ SaveSpritesOverwriting \/ DiscardSprites \/ ReloadSprites \/ CreateSprites
           \/ \E f \in TheirFiles : TheirEdit(f)
  BY <1>7, FileSteps
<1> QED BY <1>1, <1>2, <1>3, <1>4, <1>5, <1>6, <1>7 DEF SpriteNext

-----------------------------------------------------------------------------
(* The engine *)

\* A transaction stamps what it remembers, and clears what it no longer does.
LEMMA SyncRemembers ==
  ASSUME NEW e, NEW bound, NEW rest, Sync(e, bound, rest),
         e = [up |-> e.up, bound |-> e.bound, synced |-> e.synced],
         e.synced = engine.synced,
         \A t \in EntityTypes :
           IF t \in DOMAIN engine.synced THEN sheets[t] = engine.synced[t] ELSE sheets[t] \in {NoSheet, before'[t]}
  PROVE  /\ engine' = [up |-> engine'.up, bound |-> engine'.bound, synced |-> engine'.synced] /\ engine'.up = e.up
         /\ \A t \in EntityTypes :
              IF t \in DOMAIN engine'.synced THEN sheets'[t] = engine'.synced[t] ELSE sheets'[t] \in {NoSheet, before'[t]}
<1>1. CASE sheets' = Stamped(bound) /\ engine' = [e EXCEPT !.synced = bound]
  <2>1. engine' = [up |-> e.up, bound |-> e.bound, synced |-> bound]
    BY <1>1
  <2>2. \A t \in EntityTypes :
          sheets'[t] = IF t \in DOMAIN bound THEN bound[t]
                       ELSE IF t \in DOMAIN engine.synced /\ sheets[t] = engine.synced[t] THEN NoSheet ELSE sheets[t]
    BY <1>1 DEF Stamped
  <2> QED BY <2>1, <2>2
<1>2. CASE engine' = e /\ sheets' = sheets
  BY <1>2
<1> QED BY <1>1, <1>2 DEF Sync

LEMMA EngineInvInit == SyncInit => EngineInv
BY DEF SyncInit, EngineInv, Down, NoReload, SheetsAreRemembered

LEMMA EngineInvStep == EngineInv /\ SyncNext => EngineInv'
<1> SUFFICES ASSUME EngineInv, SyncNext PROVE EngineInv'
  OBVIOUS
<1> USE DEF EngineInv
<1>1. CASE ForgeStep
  <2>1. UNCHANGED <<sheets, engine, before>> /\ Noticed
    BY <1>1 DEF ForgeStep
  <2>2. /\ reloads' = [armed |-> reloads'.armed, waiting |-> reloads'.waiting, at |-> reloads'.at]
        /\ engine.up = "down" => reloads' = NoReload
    <3> DEFINE armed == reloads.armed \/ (engine.up = "watching" /\ toml' # toml /\ toml' # Absent)
    <3>1. reloads' = [reloads EXCEPT !.armed = armed]
      BY <2>1 DEF Noticed
    <3>2. engine.up = "down" => armed = FALSE
      <4> SUFFICES ASSUME engine.up = "down" PROVE ~armed
        OBVIOUS
      <4>1. reloads.armed = FALSE /\ engine.up # "watching"
        BY DEF NoReload
      <4> QED BY <4>1
    <3> HIDE DEF armed
    <3>3. reloads' = [armed |-> armed, waiting |-> reloads.waiting, at |-> reloads.at]
      BY <3>1
    <3>4. reloads' = [armed |-> reloads'.armed, waiting |-> reloads'.waiting, at |-> reloads'.at]
      BY <3>3
    <3>5. ASSUME engine.up = "down" PROVE reloads' = NoReload
      <4>1. reloads.waiting = 0 /\ reloads.at = "none"
        BY <3>5 DEF NoReload
      <4> QED BY <3>2, <3>3, <3>5, <4>1, Zenon DEF NoReload
    <3> QED BY <3>4, <3>5
  <2> QED BY <2>1, <2>2 DEF SheetsAreRemembered
<1>2. CASE StartEngine
  <2>1. engine = Down /\ reloads = NoReload /\ before' = sheets /\ reloads' = reloads /\ DOMAIN engine.synced = {}
    BY <1>2 DEF StartEngine, Down
  <2>2. CASE Decodes(toml)
    <3> DEFINE e == [up |-> "started", bound |-> toml.binds, synced |-> <<>>]
    <3>1. PICK rest : Sync(e, toml.binds, rest)
      BY <1>2, <2>2 DEF StartEngine
    <3>2. e = [up |-> e.up, bound |-> e.bound, synced |-> e.synced] /\ e.synced = engine.synced /\ e.up = "started"
      BY <2>1 DEF Down
    <3> HIDE DEF e
    <3>3. /\ engine' = [up |-> engine'.up, bound |-> engine'.bound, synced |-> engine'.synced]
          /\ engine'.up = "started"
          /\ \A t \in EntityTypes :
              IF t \in DOMAIN engine'.synced THEN sheets'[t] = engine'.synced[t] ELSE sheets'[t] \in {NoSheet, before'[t]}
      BY <2>1, <3>1, <3>2, SyncRemembers
    <3> QED BY <2>1, <3>3 DEF SheetsAreRemembered, NoReload
  <2>3. CASE ~Decodes(toml)
    <3>1. engine' = [up |-> "started", bound |-> <<>>, synced |-> <<>>] /\ sheets' = sheets
      BY <1>2, <2>3 DEF StartEngine, Down
    <3>2. DOMAIN engine'.synced = {} /\ engine'.up = "started"
      BY <3>1
    <3> QED BY <2>1, <3>1, <3>2 DEF SheetsAreRemembered, NoReload
  <2> QED BY <2>2, <2>3
<1>3. CASE StartWatching
  BY <1>3 DEF StartWatching, SheetsAreRemembered
<1>4. CASE StopEngine
  <2>1. engine' = Down /\ reloads' = NoReload
    BY <1>4 DEF StopEngine
  <2> QED BY <2>1 DEF SheetsAreRemembered, Down, NoReload
<1>5. CASE Timer
  <2>1. engine.up # "down"
    BY <1>5 DEF Timer, NoReload
  <2>2. reloads' = [reloads EXCEPT !.armed = FALSE, !.waiting = @ + 1] /\ UNCHANGED <<sheets, engine, before>>
    BY <1>5 DEF Timer, Reloading
  <2>3. reloads' = [armed |-> reloads'.armed, waiting |-> reloads'.waiting, at |-> reloads'.at]
    BY <2>2
  <2> QED BY <2>1, <2>2, <2>3 DEF SheetsAreRemembered
<1>6. CASE TakeTurn
  <2>1. engine.up # "down"
    BY <1>6 DEF TakeTurn, NoReload
  <2>2. /\ reloads' = [armed |-> reloads'.armed, waiting |-> reloads'.waiting, at |-> reloads'.at]
        /\ engine' = [up |-> engine'.up, bound |-> engine'.bound, synced |-> engine'.synced]
        /\ engine'.up = engine.up /\ engine'.synced = engine.synced
        /\ UNCHANGED <<sheets, before>>
    BY <1>6 DEF TakeTurn, Reloading
  <2> QED BY <2>1, <2>2 DEF SheetsAreRemembered
<1>7. CASE Load
  <2>1. engine.up # "down"
    BY <1>7 DEF Load, NoReload
  <2>2. /\ reloads' = [armed |-> reloads'.armed, waiting |-> reloads'.waiting, at |-> reloads'.at]
        /\ engine' = [up |-> engine'.up, bound |-> engine'.bound, synced |-> engine'.synced]
        /\ engine'.up = engine.up /\ engine'.synced = engine.synced
        /\ UNCHANGED <<sheets, before>>
    BY <1>7 DEF Load, Reloading
  <2> QED BY <2>1, <2>2 DEF SheetsAreRemembered
<1>8. CASE Apply
  <2>1. engine.up # "down"
    BY <1>8 DEF Apply, NoReload
  <2>2. /\ Sync(engine, engine.bound, left) /\ before' = before
        /\ reloads' = [armed |-> reloads'.armed, waiting |-> reloads'.waiting, at |-> reloads'.at]
    BY <1>8 DEF Apply, Reloading
  <2>3. \A t \in EntityTypes :
          IF t \in DOMAIN engine.synced THEN sheets[t] = engine.synced[t] ELSE sheets[t] \in {NoSheet, before'[t]}
    BY <2>1, <2>2 DEF SheetsAreRemembered
  <2>4. /\ engine' = [up |-> engine'.up, bound |-> engine'.bound, synced |-> engine'.synced]
        /\ engine'.up = engine.up
        /\ \A t \in EntityTypes :
            IF t \in DOMAIN engine'.synced THEN sheets'[t] = engine'.synced[t] ELSE sheets'[t] \in {NoSheet, before'[t]}
    BY <2>2, <2>3, SyncRemembers
  <2> QED BY <2>1, <2>2, <2>4 DEF SheetsAreRemembered
<1> QED BY <1>1, <1>2, <1>3, <1>4, <1>5, <1>6, <1>7, <1>8 DEF SyncNext

-----------------------------------------------------------------------------
LEMMA SyncInvStep == SyncInv /\ [SyncNext]_spriteSyncVars => SyncInv'
<1> SUFFICES ASSUME SyncInv, [SyncNext]_spriteSyncVars PROVE SyncInv'
  OBVIOUS
<1>1. CASE SyncNext
  <2>1. EngineInv'
    BY <1>1, EngineInvStep DEF SyncInv
  <2>2. CASE ForgeStep
    BY <2>1, <2>2, SessionInvStep DEF ForgeStep, SyncInv
  <2>3. CASE ~ForgeStep
    <3>1. UNCHANGED forgeVars
      BY <1>1, <2>3 DEF SyncNext, StartEngine, StartWatching, StopEngine, Timer, TakeTurn, Load, Apply, Reloading
    <3>2. /\ left' \in [edits : Nat, theirs : Nat, starts : Nat, failures : Nat]
          /\ left'.edits = left.edits
      <4>1. ASSUME NEW e, NEW bound, NEW rest, Sync(e, bound, rest), rest.edits = left.edits,
                   rest \in [edits : Nat, theirs : Nat, starts : Nat, failures : Nat],
                   rest.failures = left.failures
            PROVE  left' \in [edits : Nat, theirs : Nat, starts : Nat, failures : Nat] /\ left'.edits = left.edits
        <5>1. CASE left' = rest
          BY <4>1, <5>1
        <5>2. CASE left.failures > 0 /\ left' = [rest EXCEPT !.failures = @ - 1]
          BY <4>1, <5>2
        <5> QED BY <4>1, <5>1, <5>2 DEF Sync
      <4>2. left \in [edits : Nat, theirs : Nat, starts : Nat, failures : Nat]
        BY DEF SyncInv, SessionInv
      <4>3. CASE StartEngine
        <5> DEFINE rest == [left EXCEPT !.starts = @ - 1]
        <5>1. /\ rest.edits = left.edits /\ rest.failures = left.failures
              /\ rest \in [edits : Nat, theirs : Nat, starts : Nat, failures : Nat]
          BY <4>2, <4>3 DEF StartEngine
        <5>2. left' = rest \/ \E e, bound : Sync(e, bound, rest)
          BY <4>3 DEF StartEngine
        <5> HIDE DEF rest
        <5> QED BY <4>1, <5>1, <5>2
      <4>4. CASE Apply
        BY <4>1, <4>2, <4>4 DEF Apply
      <4>5. CASE ~StartEngine /\ ~Apply
        BY <1>1, <2>3, <4>2, <4>5 DEF SyncNext, StartWatching, StopEngine, Timer, TakeTurn, Load, Reloading
      <4> QED BY <4>3, <4>4, <4>5
    <3>3. \A key : Known(key)' = Known(key)
      BY <3>2 DEF Known
    <3>4. FilesAreSound' /\ TrailIsShort' /\ (PageFinds => PageFinds')
      BY <3>1, <3>3 DEF SyncInv, SessionInv, forgeVars, FilesAreSound, SoundFile, Decodes, IsOpen,
                        TrailIsShort, PageFinds, Onward, Declared
    <3>5. SessionInv'
      BY <3>1, <3>2, <3>4 DEF SyncInv, SessionInv, forgeVars
    <3> QED BY <2>1, <3>5 DEF SyncInv
  <2> QED BY <2>2, <2>3
<1>2. CASE UNCHANGED spriteSyncVars
  <2>1. UNCHANGED <<toml, draft, snap, trail, page, left, sheets, engine, reloads, before>>
    BY <1>2 DEF spriteSyncVars, spriteVars, forgeVars, syncVars
  <2>2. SessionInv'
    BY <2>1 DEF SyncInv, SessionInv, FilesAreSound, SoundFile, Known, Decodes, IsOpen,
                TrailIsShort, PageFinds, Onward, Declared
  <2>3. EngineInv'
    BY <2>1 DEF SyncInv, EngineInv, SheetsAreRemembered
  <2> QED BY <2>2, <2>3 DEF SyncInv
<1> QED BY <1>1, <1>2

LEMMA FoundFromInv == SyncInv => NamesAreFound
<1> SUFFICES ASSUME SyncInv PROVE NamesAreFound
  OBVIOUS
<1>1. SheetsAreRemembered
  BY DEF SyncInv, EngineInv
<1>2. TrailIsShort /\ \A name : Followed(name) = Onward(name)
  BY OneStepIsAll DEF SyncInv, SessionInv
<1>3. ASSUME IsOpen PROVE \A i \in DOMAIN draft.anims :
        ~draft.anims[i].imported => Followed(draft.anims[i].name) = draft.anims[i].name
  BY <1>2, <1>3 DEF TrailIsShort, Declared, Onward
<1>4. ASSUME IsOpen, page.own, NEW i \in DOMAIN draft.anims, draft.anims[i].key = page.key, ~draft.anims[i].imported
      PROVE  KeysOf(draft, Followed(page.name)) = {page.key}
  <2>1. draft.anims[i].name = Followed(page.name)
    BY <1>2, <1>4 DEF SyncInv, SessionInv, PageFinds, Declared
  <2>2. \A j \in DOMAIN draft.anims : draft.anims[j].name = Followed(page.name) => j = i
    BY <1>4, <2>1 DEF SyncInv, SessionInv, FilesAreSound, NamesApart
  <2> QED BY <1>4, <2>1, <2>2 DEF KeysOf
<1> QED BY <1>1, <1>3, <1>4 DEF NamesAreFound, PagesFindAnimations

(* Whatever is edited, renamed, imported, saved, discarded, reloaded or written
   by somebody else, a page finds the animation it chose by the name it knows
   as long as nobody else takes that name; and however reloads of the engine
   overlap and their transactions fail, every sheet the process has stamped is
   one it remembers.  (server.go, followRenames, recordRename; anim_loader.go,
   SyncToDatabase) *)
THEOREM NamesFound == SyncSpec => []NamesAreFound
<1>1. SyncInit => SyncInv
  BY SessionInvInit, EngineInvInit DEF SyncInit, SyncInv
<1> QED BY <1>1, SyncInvStep, FoundFromInv, PTL DEF SyncSpec

-----------------------------------------------------------------------------
(* The canvas of MAP: sequences of sequences *)

IsFlat(s, n, g) == g = [i \in 1..n |-> IF i = 1 THEN s[i] ELSE g[i - 1] \o s[i]]

\* The flattened sequence is there, up to any place.
LEMMA FlatExists ==
  ASSUME NEW S, NEW s \in Seq(Seq(S)), NEW n \in Nat, n <= Len(s)
  PROVE  \E g \in [1..n -> Seq(S)] : IsFlat(s, n, g)
<1> DEFINE There(k) == k <= Len(s) => \E g \in [1..k -> Seq(S)] : IsFlat(s, k, g)
           T == {k \in Nat : There(k)}
<1>1. 0 \in T
  <2> DEFINE none == [i \in 1..0 |-> <<>>]
  <2>1. none \in [1..0 -> Seq(S)] /\ IsFlat(s, 0, none)
    BY DEF IsFlat
  <2> QED BY <2>1
<1>2. ASSUME NEW k \in Nat, k \in T PROVE k + 1 \in T
  <2> SUFFICES ASSUME k + 1 <= Len(s) PROVE \E g \in [1..(k + 1) -> Seq(S)] : IsFlat(s, k + 1, g)
    OBVIOUS
  <2>1. PICK g \in [1..k -> Seq(S)] : IsFlat(s, k, g)
    <3>1. Len(s) \in Nat
      OBVIOUS
    <3> QED BY <1>2, <3>1
  <2>2. s[k + 1] \in Seq(S) /\ (k # 0 => g[k] \in Seq(S))
    <3>1. k + 1 \in 1..Len(s)
      OBVIOUS
    <3> QED BY <3>1
  <2> DEFINE last == IF k = 0 THEN s[k + 1] ELSE g[k] \o s[k + 1]
             more == [i \in 1..(k + 1) |-> IF i = k + 1 THEN last ELSE g[i]]
  <2>3. last \in Seq(S)
    BY <2>2
  <2>4. more \in [1..(k + 1) -> Seq(S)]
    <3> HIDE DEF last
    <3> QED BY <2>3
  <2>5. ASSUME NEW i \in 1..(k + 1) PROVE more[i] = IF i = 1 THEN s[i] ELSE more[i - 1] \o s[i]
    <3>1. CASE i = k + 1
      <4>1. k # 0 => more[k] = g[k]
        BY DEF more
      <4>2. more[i] = last /\ i - 1 = k
        BY <3>1
      <4> QED BY <3>1, <4>1, <4>2
    <3>2. CASE i # k + 1
      <4>1. i \in 1..k /\ (i # 1 => i - 1 \in 1..k)
        BY <3>2
      <4>2. g[i] = IF i = 1 THEN s[i] ELSE g[i - 1] \o s[i]
        BY <2>1, <4>1 DEF IsFlat
      <4>3. more[i] = g[i] /\ (i # 1 => more[i - 1] = g[i - 1])
        BY <3>2, <4>1
      <4> QED BY <4>2, <4>3
    <3> QED BY <3>1, <3>2
  <2>6. IsFlat(s, k + 1, more)
    <3>1. more = [i \in 1..(k + 1) |-> more[i]]
      OBVIOUS
    <3> HIDE DEF more
    <3> QED BY <2>5, <3>1 DEF IsFlat
  <2> QED BY <2>4, <2>6
<1> HIDE DEF There
<1>3. Nat \subseteq T
  BY <1>1, <1>2, AllNumbers
<1> QED BY <1>3 DEF There

\* What is flattened is what has been put together at the last place.
LEMMA FlattenedLast ==
  ASSUME NEW S, NEW s \in Seq(Seq(S)), Len(s) # 0
  PROVE  \E g \in [1..Len(s) -> Seq(S)] : IsFlat(s, Len(s), g) /\ FlattenSeq(s) = g[Len(s)]
<1> DEFINE n == Len(s)
           flat == CHOOSE g : IsFlat(s, n, g)
<1>1. n \in Nat /\ n <= Len(s)
  OBVIOUS
<1>2. IsFlat(s, n, flat)
  <2>1. \E g \in [1..n -> Seq(S)] : IsFlat(s, n, g)
    <3> HIDE DEF n
    <3> QED BY <1>1, FlatExists
  <2>2. \E g : IsFlat(s, n, g)
    BY <2>1
  <2> QED BY <2>2
<1>3. FlattenSeq(s) = flat[n]
  BY DEF FlattenSeq, flat, IsFlat
<1> HIDE DEF flat
<1> DEFINE T == {k \in Nat : k \in 1..n => flat[k] \in Seq(S)}
<1>4. 0 \in T
  OBVIOUS
<1>5. ASSUME NEW k \in Nat, k \in T PROVE k + 1 \in T
  <2> SUFFICES ASSUME k + 1 \in 1..n PROVE flat[k + 1] \in Seq(S)
    OBVIOUS
  <2>1. flat[k + 1] = IF k + 1 = 1 THEN s[k + 1] ELSE flat[(k + 1) - 1] \o s[k + 1]
    BY <1>2 DEF IsFlat
  <2>2. s[k + 1] \in Seq(S)
    OBVIOUS
  <2>3. CASE k = 0
    BY <2>1, <2>2, <2>3
  <2>4. CASE k # 0
    <3>1. flat[k] \in Seq(S) /\ (k + 1) - 1 = k
      BY <1>1, <1>5, <2>4
    <3> QED BY <2>1, <2>2, <2>4, <3>1
  <2> QED BY <2>3, <2>4
<1>6. Nat \subseteq T
  BY <1>4, <1>5, AllNumbers
<1>7. flat \in [1..n -> Seq(S)]
  <2>1. \A k \in 1..n : flat[k] \in Seq(S)
    BY <1>6
  <2>2. flat = [i \in 1..n |-> IF i = 1 THEN s[i] ELSE flat[i - 1] \o s[i]]
    BY <1>2 DEF IsFlat
  <2> QED BY <2>1, <2>2
<1> QED BY <1>2, <1>3, <1>7

LEMMA FlattenedIsSeq ==
  ASSUME NEW S, NEW s \in Seq(Seq(S))
  PROVE  FlattenSeq(s) \in Seq(S)
<1>1. CASE Len(s) = 0
  BY <1>1 DEF FlattenSeq
<1>2. CASE Len(s) # 0
  <2>1. Len(s) \in 1..Len(s)
    BY <1>2
  <2>2. PICK g \in [1..Len(s) -> Seq(S)] : FlattenSeq(s) = g[Len(s)]
    BY <1>2, FlattenedLast
  <2> QED BY <2>1, <2>2
<1> QED BY <1>1, <1>2

LEMMA FirstIsKept ==
  ASSUME NEW S, NEW a \in Seq(S), NEW b \in Seq(S), NEW q \in DOMAIN a
  PROVE  q \in DOMAIN (a \o b) /\ (a \o b)[q] = a[q]
OBVIOUS

LEMMA LastIsKept ==
  ASSUME NEW S, NEW a \in Seq(S), NEW b \in Seq(S), NEW j \in DOMAIN b
  PROVE  Len(a) + j \in DOMAIN (a \o b) /\ (a \o b)[Len(a) + j] = b[j]
OBVIOUS

LEMMA SeqHas ==
  ASSUME NEW S, NEW a \in Seq(S), NEW k \in DOMAIN a
  PROVE  a[k] \in S
OBVIOUS

\* Nothing is left out.
LEMMA FlattenedHas ==
  ASSUME NEW S, NEW s \in Seq(Seq(S)), NEW i \in DOMAIN s, NEW j \in DOMAIN s[i]
  PROVE  \E k \in DOMAIN FlattenSeq(s) : FlattenSeq(s)[k] = s[i][j]
<1> DEFINE n == Len(s)
<1>1. n \in Nat /\ i \in 1..n /\ n # 0
  OBVIOUS
<1>2. PICK g \in [1..n -> Seq(S)] : IsFlat(s, n, g) /\ FlattenSeq(s) = g[n]
  BY <1>1, FlattenedLast
<1> DEFINE Has(k) == \E q \in DOMAIN g[k] : g[k][q] = s[i][j]
           T == {k \in Nat : k \in i..n => Has(k)}
<1>3. \A k \in 1..n : g[k] = IF k = 1 THEN s[k] ELSE g[k - 1] \o s[k]
  BY <1>2 DEF IsFlat
<1>4. \A k \in 1..n : s[k] \in Seq(S) /\ g[k] \in Seq(S)
  <2>1. \A k \in 1..n : s[k] \in Seq(S)
    OBVIOUS
  <2> HIDE DEF n
  <2> QED BY <1>2, <2>1
<1> HIDE DEF n
<1>5. Has(i)
  <2>1. CASE i = 1
    BY <1>1, <1>3, <2>1
  <2>2. CASE i # 1
    <3>1. i \in 1..n /\ i - 1 \in 1..n
      BY <1>1, <2>2
    <3>2. g[i] = g[i - 1] \o s[i]
      BY <1>3, <2>2, <3>1
    <3>3. g[i - 1] \in Seq(S) /\ s[i] \in Seq(S)
      BY <1>4, <3>1
    <3> DEFINE q == Len(g[i - 1]) + j
    <3>4. q \in DOMAIN (g[i - 1] \o s[i]) /\ (g[i - 1] \o s[i])[q] = s[i][j]
      BY <3>3, LastIsKept
    <3> HIDE DEF q
    <3> QED BY <3>2, <3>4
  <2> QED BY <2>1, <2>2
<1>6. ASSUME NEW k \in Nat, k \in T PROVE k + 1 \in T
  <2> SUFFICES ASSUME k + 1 \in i..n PROVE Has(k + 1)
    OBVIOUS
  <2>1. CASE k + 1 = i
    BY <1>5, <2>1
  <2>2. CASE k + 1 # i
    <3>1. k \in i..n /\ k \in 1..n /\ k + 1 \in 1..n
      BY <1>1, <2>2
    <3>2. PICK q \in DOMAIN g[k] : g[k][q] = s[i][j]
      BY <1>6, <3>1
    <3>3. g[k + 1] = g[k] \o s[k + 1]
      <4>1. k + 1 # 1 /\ (k + 1) - 1 = k
        BY <3>1
      <4> QED BY <1>3, <3>1, <4>1
    <3>4. g[k] \in Seq(S) /\ s[k + 1] \in Seq(S)
      BY <1>4, <3>1
    <3>5. q \in DOMAIN (g[k] \o s[k + 1]) /\ (g[k] \o s[k + 1])[q] = g[k][q]
      BY <3>2, <3>4, FirstIsKept
    <3> QED BY <3>2, <3>3, <3>5
  <2> QED BY <2>1, <2>2
<1>7. 0 \in T
  BY <1>1
<1> HIDE DEF Has
<1>8. Nat \subseteq T
  BY <1>6, <1>7, AllNumbers
<1>9. n \in T
  BY <1>1, <1>8
<1> QED BY <1>1, <1>2, <1>9 DEF Has

LEMMA FunctionIsSeq ==
  ASSUME NEW S, NEW n \in Int, NEW F \in [1..n -> S]
  PROVE  F \in Seq(S)
<1>1. CASE n \in Nat
  BY <1>1
<1>2. CASE n \notin Nat
  <2>1. 1..n = 1..0
    BY <1>2
  <2>2. F \in [1..0 -> S]
    BY <2>1
  <2> QED BY <2>2
<1> QED BY <1>1, <1>2

-----------------------------------------------------------------------------
(* The canvas of MAP: maps and their tilesets *)

IsSheet(ts) ==
  /\ {ts.tw, ts.th, ts.offset[1], ts.offset[2]} \subseteq Int
  /\ {ts.image.w, ts.image.h} \subseteq Int
  /\ \A id \in DOMAIN ts.tiles : {ts.tiles[id].image.w, ts.tiles[id].image.h} \subseteq Int
IsRef(ref) == ref.first \in Int /\ (ref.sheet = Unresolved \/ IsSheet(ref.sheet[1]))

\* A map that was read, as far as drawing it wants numbers.
IsMapRead(m) ==
  /\ {"w", "h", "tw", "th", "layers", "tilesets"} \subseteq DOMAIN m /\ {m.w, m.h, m.tw, m.th} \subseteq Int
  /\ \E n \in Nat : DOMAIN m.layers = 1..n
  /\ \A i \in DOMAIN m.layers :
       /\ {"w", "h", "id", "data"} \subseteq DOMAIN m.layers[i]
       /\ {m.layers[i].w, m.layers[i].h, m.layers[i].id} \subseteq Int
  /\ IsFiniteSet(DOMAIN m.tilesets) /\ DOMAIN m.tilesets \subseteq Nat \ {0}
  /\ \A i \in DOMAIN m.tilesets : IsRef(m.tilesets[i])

\* The tileset of a tile is one that starts below it.
LEMMA TilesetIsOwner ==
  ASSUME NEW m, IsMapRead(m), NEW gid, TilesetFor(m, gid) # 0
  PROVE  TilesetFor(m, gid) \in Owners(m, gid)
<1> DEFINE S == Owners(m, gid)
           first(i) == m.tilesets[i].first
           Better(i) == {j \in S : first(j) > first(i) \/ (first(j) = first(i) /\ j < i)}
           Rank(i) == Cardinality(Better(i))
           Ranks == {Rank(i) : i \in S}
           Best(i) == \A j \in S : first(j) < first(i) \/ (first(j) = first(i) /\ i <= j)
<1>1. S # {} /\ TilesetFor(m, gid) = CHOOSE i \in S : Best(i)
  BY DEF TilesetFor
<1>2. IsFiniteSet(S) /\ S \subseteq Nat
  BY FS_Subset DEF IsMapRead, Owners
<1>3. \A i \in S : first(i) \in Int
  BY DEF IsMapRead, Owners, IsRef
<1> HIDE DEF S, first
<1>4. \A i \in S : IsFiniteSet(Better(i)) /\ Rank(i) \in Nat
  BY <1>2, FS_Subset, FS_CardinalityType
<1>5. Ranks \subseteq Nat /\ Ranks # {}
  BY <1>1, <1>4
<1>6. PICK r \in Ranks : \A n \in Ranks : r <= n
  <2> DEFINE less == {ab \in Nat \X Nat : ab[1] < ab[2]}
  <2>1. IsWellFoundedOn(less, Nat)
    BY NatLessThanWellFounded DEF OpToRel
  <2>2. \A a, b \in Nat : <<a, b>> \in less <=> a < b
    OBVIOUS
  <2> HIDE DEF Ranks, less
  <2>3. PICK r \in Ranks : \A n \in Ranks : ~(<<n, r>> \in less)
    BY <1>5, <2>1, WFMin
  <2>4. ASSUME NEW n \in Ranks PROVE r <= n
    <3>1. n \in Nat /\ r \in Nat
      BY <1>5
    <3>2. ~(n < r)
      BY <2>2, <2>3, <3>1
    <3> QED BY <3>1, <3>2
  <2> QED BY <2>4
<1>7. PICK i \in S : r = Rank(i)
  BY <1>6
<1>8. ASSUME NEW j \in Better(i) PROVE FALSE
  <2>1. j \in S /\ (first(j) > first(i) \/ (first(j) = first(i) /\ j < i))
    BY <1>8
  <2>2. Better(j) \subseteq Better(i)
    <3> SUFFICES ASSUME NEW k \in S, first(k) > first(j) \/ (first(k) = first(j) /\ k < j)
                 PROVE  first(k) > first(i) \/ (first(k) = first(i) /\ k < i)
      OBVIOUS
    <3> QED BY <1>2, <1>3, <1>7, <2>1
  <2>3. j \notin Better(j)
    BY <1>2, <1>3, <2>1
  <2>4. Rank(j) < Rank(i)
    <3> HIDE DEF Better
    <3>1. IsFiniteSet(Better(i)) /\ Better(j) \subseteq Better(i) /\ Better(j) # Better(i)
      BY <1>4, <1>7, <1>8, <2>2, <2>3
    <3>2. Rank(j) <= Rank(i) /\ (Rank(j) = Rank(i) => Better(j) = Better(i))
      BY <3>1, FS_Subset
    <3> QED BY <1>4, <1>7, <2>1, <3>1, <3>2
  <2>5. Rank(j) \in Ranks
    BY <2>1
  <2>6. r \in Nat /\ Rank(j) \in Nat
    BY <1>4, <1>7, <2>1
  <2> QED
    <3> HIDE DEF Rank, Ranks
    <3> QED BY <1>6, <1>7, <2>4, <2>5, <2>6
<1>9. Best(i)
  <2> SUFFICES ASSUME NEW j \in S PROVE first(j) < first(i) \/ (first(j) = first(i) /\ i <= j)
    OBVIOUS
  <2>1. ~(first(j) > first(i) \/ (first(j) = first(i) /\ j < i))
    BY <1>8
  <2> QED BY <1>2, <1>3, <1>7, <2>1
<1> QED
  <2> HIDE DEF Best
  <2> QED BY <1>1, <1>7, <1>9 DEF S

LEMMA PictureIsSized ==
  ASSUME NEW ts, IsSheet(ts), NEW local, NoPicture(ts, local) = ""
  PROVE  Source(ts, local).w \in Int /\ Source(ts, local).h \in Int
<1>1. CASE IsCollection(ts)
  <2>1. local \in DOMAIN ts.tiles
    BY <1>1 DEF NoPicture
  <2> QED BY <1>1, <2>1 DEF Source, Piece, IsSheet
<1>2. CASE ~IsCollection(ts)
  BY <1>2 DEF Source, SourceRect, Piece, IsSheet
<1> QED BY <1>1, <1>2

\* The matrix turns in Tiled's order and moves.
LEMMA TurnedInOrder ==
  ASSUME NEW d, {d.h, d.v, d.d} \subseteq BOOLEAN, {d.x, d.y, d.from.w, d.from.h} \subseteq Int,
         NEW x \in Int, NEW y \in Int
  PROVE  Carry(Transform(d), x, y) =
           <<d.x + Flipped(d.from, d, x, y)[1], d.y + Flipped(d.from, d, x, y)[2]>>
<1> DEFINE t == Transform(d)
<1>1. CASE d.d
  <2>1. t.a = 0 /\ t.d = 0 /\ t.b = (IF d.h THEN -1 ELSE 1) /\ t.c = (IF d.v THEN -1 ELSE 1)
    BY <1>1 DEF Transform
  <2>2. t.tx = d.x + (IF d.h THEN d.from.h ELSE 0) /\ t.ty = d.y + (IF d.v THEN d.from.w ELSE 0)
    BY <1>1 DEF Transform
  <2>3. Flipped(d.from, d, x, y) = <<IF d.h THEN d.from.h - y ELSE y, IF d.v THEN d.from.w - x ELSE x>>
    BY <1>1 DEF Flipped
  <2> HIDE DEF t
  <2>4. t.a * x + t.b * y + t.tx = d.x + (IF d.h THEN d.from.h - y ELSE y)
    <3>1. CASE d.h
      BY <2>1, <2>2, <3>1
    <3>2. CASE ~d.h
      BY <2>1, <2>2, <3>2
    <3> QED BY <3>1, <3>2
  <2>5. t.c * x + t.d * y + t.ty = d.y + (IF d.v THEN d.from.w - x ELSE x)
    <3>1. CASE d.v
      BY <2>1, <2>2, <3>1
    <3>2. CASE ~d.v
      BY <2>1, <2>2, <3>2
    <3> QED BY <3>1, <3>2
  <2> QED BY <2>3, <2>4, <2>5 DEF Carry, t
<1>2. CASE ~d.d
  <2>1. t.b = 0 /\ t.c = 0 /\ t.a = (IF d.h THEN -1 ELSE 1) /\ t.d = (IF d.v THEN -1 ELSE 1)
    BY <1>2 DEF Transform
  <2>2. t.tx = d.x + (IF d.h THEN d.from.w ELSE 0) /\ t.ty = d.y + (IF d.v THEN d.from.h ELSE 0)
    BY <1>2 DEF Transform
  <2>3. Flipped(d.from, d, x, y) = <<IF d.h THEN d.from.w - x ELSE x, IF d.v THEN d.from.h - y ELSE y>>
    BY <1>2 DEF Flipped
  <2> HIDE DEF t
  <2>4. t.a * x + t.b * y + t.tx = d.x + (IF d.h THEN d.from.w - x ELSE x)
    <3>1. CASE d.h
      BY <2>1, <2>2, <3>1
    <3>2. CASE ~d.h
      BY <2>1, <2>2, <3>2
    <3> QED BY <3>1, <3>2
  <2>5. t.c * x + t.d * y + t.ty = d.y + (IF d.v THEN d.from.h - y ELSE y)
    <3>1. CASE d.v
      BY <2>1, <2>2, <3>1
    <3>2. CASE ~d.v
      BY <2>1, <2>2, <3>2
    <3> QED BY <3>1, <3>2
  <2> QED BY <2>3, <2>4, <2>5 DEF Carry, t
<1> QED BY <1>1, <1>2

LEMMA AllShownIsRead ==
  ASSUME NEW m, IsMapRead(m)
  PROVE  /\ IsMapRead(AllShown(m))
         /\ AllShown(m).tw = m.tw /\ AllShown(m).th = m.th /\ AllShown(m).tilesets = m.tilesets
         /\ \A i \in DOMAIN m.layers : \A x, y :
              TileAt(AllShown(m).layers[i], x, y) = TileAt(m.layers[i], x, y)
<1> DEFINE a == AllShown(m)
           shown == [i \in DOMAIN m.layers |-> [m.layers[i] EXCEPT !.visible = TRUE]]
<1>1. a = [m EXCEPT !.layers = shown]
  BY DEF AllShown
<1>2. DOMAIN a = DOMAIN m /\ a.layers = shown /\ a.tw = m.tw /\ a.th = m.th /\ a.tilesets = m.tilesets
      /\ a.w = m.w /\ a.h = m.h
  <2> HIDE DEF a, shown
  <2> QED BY <1>1 DEF IsMapRead
<1>3. ASSUME NEW i \in DOMAIN m.layers
      PROVE  /\ DOMAIN a.layers[i] = DOMAIN m.layers[i]
             /\ a.layers[i].w = m.layers[i].w /\ a.layers[i].h = m.layers[i].h
             /\ a.layers[i].data = m.layers[i].data /\ a.layers[i].id = m.layers[i].id
  <2>1. a.layers[i] = [m.layers[i] EXCEPT !.visible = TRUE]
    BY <1>2, <1>3
  <2>2. {"w", "h", "id", "data"} \subseteq DOMAIN m.layers[i]
    BY <1>3 DEF IsMapRead
  <2> QED BY <2>1, <2>2
<1>4. DOMAIN a.layers = DOMAIN m.layers
  BY <1>2
<1> HIDE DEF a, shown
<1>5. IsMapRead(a)
  BY <1>2, <1>3, <1>4 DEF IsMapRead
<1>6. \A i \in DOMAIN m.layers : \A x, y : TileAt(a.layers[i], x, y) = TileAt(m.layers[i], x, y)
  BY <1>3 DEF TileAt
<1> QED BY <1>2, <1>5, <1>6 DEF a

\* The cells with a tile, and what is placed for them.
Tiled(m) == {at \in (DOMAIN m.layers) \X Int \X Int : TileAt(m.layers[at[1]], at[2], at[3]).gid # 0}
Places(m) == {Placement(m, at[1], at[2], at[3]) : at \in Tiled(m)}

LEMMA PlacementSays ==
  ASSUME NEW m, NEW i, NEW x, NEW y
  PROVE  Placement(m, i, x, y).layer = i /\ Placement(m, i, x, y).cell[1] = x /\ Placement(m, i, x, y).cell[2] = y
BY DEF Placement

LEMMA IfAnyIsPlaced ==
  ASSUME NEW m, NEW i \in DOMAIN m.layers, NEW x \in Int, NEW y \in Int
  PROVE  PlacementIfAny(m, i, x, y) \in Seq(Places(m))
<1>1. CASE TileAt(m.layers[i], x, y).gid = 0
  BY <1>1 DEF PlacementIfAny
<1>2. CASE TileAt(m.layers[i], x, y).gid # 0
  <2>1. <<i, x, y>> \in Tiled(m)
    BY <1>2 DEF Tiled
  <2>2. Placement(m, <<i, x, y>>[1], <<i, x, y>>[2], <<i, x, y>>[3]) = Placement(m, i, x, y)
    OBVIOUS
  <2>3. Placement(m, i, x, y) \in Places(m)
    BY <2>1, <2>2 DEF Places
  <2> QED BY <1>2, <2>3 DEF PlacementIfAny
<1> QED BY <1>1, <1>2

LEMMA PlacesOfALayer ==
  ASSUME NEW m, IsMapRead(m), NEW i \in DOMAIN m.layers
  PROVE  LayerPlaces(m, i) \in Seq(Places(m))
<1> DEFINE w == m.layers[i].w
           h == m.layers[i].h
           xs == Order(w, Rightward(m.order))
           ys == Order(h, Downward(m.order))
           row(r) == [c \in DOMAIN xs |-> PlacementIfAny(m, i, xs[c], ys[r])]
           rows == [r \in DOMAIN ys |-> FlattenSeq(row(r))]
<1>1. w \in Int /\ h \in Int
  BY DEF IsMapRead
<1>2. DOMAIN xs = 1..w /\ DOMAIN ys = 1..h
  BY DEF Order
<1>3. (\A c \in 1..w : xs[c] \in Int) /\ (\A r \in 1..h : ys[r] \in Int)
  BY <1>1 DEF Order
<1> HIDE DEF xs, ys, w, h
<1>4. \A x, y \in Int : PlacementIfAny(m, i, x, y) \in Seq(Places(m))
  BY IfAnyIsPlaced
<1>5. ASSUME NEW r \in 1..h PROVE FlattenSeq(row(r)) \in Seq(Places(m))
  <2>1. row(r) \in [1..w -> Seq(Places(m))]
    BY <1>2, <1>3, <1>4
  <2>2. row(r) \in Seq(Seq(Places(m)))
    <3> HIDE DEF row
    <3> QED BY <1>1, <2>1, FunctionIsSeq
  <2> HIDE DEF row
  <2> QED BY <2>2, FlattenedIsSeq
<1>6. rows \in [1..h -> Seq(Places(m))]
  <2> HIDE DEF row
  <2> QED BY <1>2, <1>5
<1>7. rows \in Seq(Seq(Places(m)))
  <2> HIDE DEF rows
  <2> QED BY <1>1, <1>6, FunctionIsSeq
<1>8. FlattenSeq(rows) \in Seq(Places(m))
  <2> HIDE DEF rows
  <2> QED BY <1>7, FlattenedIsSeq
<1>9. LayerPlaces(m, i) = FlattenSeq(rows)
  BY DEF LayerPlaces, xs, ys, w, h
<1> QED BY <1>8, <1>9

LEMMA PlacementsArePlaces ==
  ASSUME NEW m, IsMapRead(m), NEW hidden
  PROVE  Placements(m, hidden) \in Seq(Places(m))
<1> DEFINE all == [i \in DOMAIN m.layers |->
                     IF hidden \/ Showing(m.layers[i]) THEN LayerPlaces(m, i) ELSE <<>>]
<1>1. PICK n \in Nat : DOMAIN m.layers = 1..n
  BY DEF IsMapRead
<1>2. all \in [1..n -> Seq(Places(m))]
  BY <1>1, PlacesOfALayer
<1>3. all \in Seq(Seq(Places(m)))
  <2> HIDE DEF all
  <2> QED BY <1>1, <1>2, FunctionIsSeq
<1>4. FlattenSeq(all) \in Seq(Places(m))
  <2> HIDE DEF all
  <2> QED BY <1>3, FlattenedIsSeq
<1> QED BY <1>4 DEF Placements

\* Every tile of a layer is placed.
LEMMA LayerIsPlaced ==
  ASSUME NEW m, IsMapRead(m), NEW i \in DOMAIN m.layers, NEW x \in Int, NEW y \in Int,
         TileAt(m.layers[i], x, y).gid # 0
  PROVE  \E k \in DOMAIN LayerPlaces(m, i) : LayerPlaces(m, i)[k] = Placement(m, i, x, y)
<1> DEFINE w == m.layers[i].w
           h == m.layers[i].h
           xs == Order(w, Rightward(m.order))
           ys == Order(h, Downward(m.order))
           row(r) == [c \in DOMAIN xs |-> PlacementIfAny(m, i, xs[c], ys[r])]
           rows == [r \in DOMAIN ys |-> FlattenSeq(row(r))]
<1>1. w \in Int /\ h \in Int
  BY DEF IsMapRead
<1>2. x \in 0..w-1 /\ y \in 0..h-1
  <2>1. 0 % Span = 0
    BY WordAssumption
  <2>2. NoTile.gid = 0
    BY <2>1 DEF NoTile, TileOf
  <2> QED BY <1>1, <2>2 DEF TileAt
<1>3. DOMAIN xs = 1..w /\ DOMAIN ys = 1..h
  BY DEF Order
<1>4. (\A c \in 1..w : xs[c] \in Int) /\ (\A r \in 1..h : ys[r] \in Int)
  BY <1>1 DEF Order
<1>5. (\E c \in 1..w : xs[c] = x) /\ (\E r \in 1..h : ys[r] = y)
  <2>1. x + 1 \in 1..w /\ w - x \in 1..w /\ y + 1 \in 1..h /\ h - y \in 1..h
    BY <1>1, <1>2
  <2>2. (x + 1) - 1 = x /\ w - (w - x) = x /\ (y + 1) - 1 = y /\ h - (h - y) = y
    BY <1>1
  <2>3. xs[x + 1] = x \/ xs[w - x] = x
    <3>1. CASE Rightward(m.order)
      BY <2>1, <2>2, <3>1 DEF Order
    <3>2. CASE ~Rightward(m.order)
      BY <2>1, <2>2, <3>2 DEF Order
    <3> QED BY <3>1, <3>2
  <2>4. ys[y + 1] = y \/ ys[h - y] = y
    <3>1. CASE Downward(m.order)
      BY <2>1, <2>2, <3>1 DEF Order
    <3>2. CASE ~Downward(m.order)
      BY <2>1, <2>2, <3>2 DEF Order
    <3> QED BY <3>1, <3>2
  <2> HIDE DEF xs, ys
  <2> QED BY <2>1, <2>3, <2>4
<1>6. PICK c \in 1..w, r \in 1..h : xs[c] = x /\ ys[r] = y
  <2> HIDE DEF xs, ys
  <2> QED BY <1>5
<1> HIDE DEF xs, ys, w, h
<1>7. ASSUME NEW q \in 1..h PROVE row(q) \in Seq(Seq(Places(m)))
  <2>1. row(q) \in [1..w -> Seq(Places(m))]
    BY <1>3, <1>4, <1>7, IfAnyIsPlaced
  <2> HIDE DEF row
  <2> QED BY <1>1, <2>1, FunctionIsSeq
<1>8. rows \in Seq(Seq(Places(m)))
  <2> HIDE DEF row
  <2>1. rows \in [1..h -> Seq(Places(m))]
    BY <1>3, <1>7, FlattenedIsSeq
  <2> HIDE DEF rows
  <2> QED BY <1>1, <2>1, FunctionIsSeq
<1>9. row(r)[c] = <<Placement(m, i, x, y)>> /\ c \in DOMAIN row(r)
  BY <1>3, <1>6 DEF PlacementIfAny
<1>10. PICK k \in DOMAIN FlattenSeq(row(r)) : FlattenSeq(row(r))[k] = Placement(m, i, x, y)
  <2>1. 1 \in DOMAIN row(r)[c] /\ row(r)[c][1] = Placement(m, i, x, y)
    BY <1>9
  <2> DEFINE list == row(r)
  <2>2. list \in Seq(Seq(Places(m)))
    BY <1>7
  <2>3. c \in DOMAIN list /\ 1 \in DOMAIN list[c] /\ list[c][1] = Placement(m, i, x, y)
    BY <1>9, <2>1
  <2> HIDE DEF row, list
  <2>4. \E k \in DOMAIN FlattenSeq(list) : FlattenSeq(list)[k] = list[c][1]
    BY <2>2, <2>3, FlattenedHas
  <2>5. \E k \in DOMAIN FlattenSeq(list) : FlattenSeq(list)[k] = Placement(m, i, x, y)
    BY <2>3, <2>4
  <2> QED BY <2>5 DEF list
<1>11. r \in DOMAIN rows /\ rows[r] = FlattenSeq(row(r))
  BY <1>3
<1>12. \E j \in DOMAIN FlattenSeq(rows) : FlattenSeq(rows)[j] = rows[r][k]
  <2> HIDE DEF row, rows
  <2> QED BY <1>8, <1>10, <1>11, FlattenedHas
<1>13. LayerPlaces(m, i) = FlattenSeq(rows)
  BY DEF LayerPlaces, xs, ys, w, h
<1> HIDE DEF row, rows
<1> QED BY <1>10, <1>11, <1>12, <1>13

LEMMA TilesArePlaced ==
  ASSUME NEW m, IsMapRead(m), NEW i \in DOMAIN m.layers, NEW x \in Int, NEW y \in Int,
         TileAt(m.layers[i], x, y).gid # 0
  PROVE  \E k \in DOMAIN Placements(m, TRUE) : Placements(m, TRUE)[k] = Placement(m, i, x, y)
<1> DEFINE all == [j \in DOMAIN m.layers |-> LayerPlaces(m, j)]
<1>1. PICK n \in Nat : DOMAIN m.layers = 1..n
  BY DEF IsMapRead
<1>2. all \in [1..n -> Seq(Places(m))]
  BY <1>1, PlacesOfALayer
<1>3. PICK k \in DOMAIN LayerPlaces(m, i) : LayerPlaces(m, i)[k] = Placement(m, i, x, y)
  BY LayerIsPlaced
<1>4. i \in DOMAIN all /\ all[i] = LayerPlaces(m, i)
  OBVIOUS
<1>5. Placements(m, TRUE) = FlattenSeq(all)
  BY DEF Placements
<1> HIDE DEF all
<1>6. all \in Seq(Seq(Places(m)))
  BY <1>1, <1>2, FunctionIsSeq
<1>7. k \in DOMAIN all[i] /\ all[i][k] = Placement(m, i, x, y)
  BY <1>3, <1>4
<1>8. PICK q \in DOMAIN FlattenSeq(all) : FlattenSeq(all)[q] = all[i][k]
  BY <1>4, <1>6, <1>7, FlattenedHas
<1> QED BY <1>5, <1>7, <1>8

\* What the box of one place says, if it shows a picture.
LEMMA BoxStands ==
  ASSUME NEW m, IsMapRead(m), NEW i \in DOMAIN m.layers, NEW x \in Int, NEW y \in Int,
         Box(m, Placement(AllShown(m), i, x, y)).from # <<>>
  PROVE  StandsOnItsCell(m, Box(m, Placement(AllShown(m), i, x, y)))
<1> DEFINE a == AllShown(m)
           p == Placement(a, i, x, y)
           tile == TileAt(a.layers[i], x, y)
           d == DrawOf(a, tile, x, y)
           box == Box(m, p)
           k == TilesetFor(m, tile.gid)
           ts == m.tilesets[k].sheet[1]
           r == d.from
<1>1. /\ a.tw = m.tw /\ a.th = m.th /\ a.tilesets = m.tilesets
      /\ tile = TileAt(m.layers[i], x, y)
  BY AllShownIsRead
<1> HIDE DEF a
<1>2. p.cell = <<x, y>> /\ p.layer = i /\ p.problem = NoDraw(a, tile)
      /\ p.draw = IF NoDraw(a, tile).why = "" THEN <<d>> ELSE <<>>
  BY DEF Placement
<1> HIDE DEF tile, d, p
<1>3. p.draw # <<>>
  BY DEF Box, box, a, p
<1>4. NoDraw(a, tile).why = "" /\ p.draw = <<d>>
  BY <1>2, <1>3
<1>5. box.cell = <<x, y>> /\ box.layer = i /\ box.from = <<d.from>> /\ box.matrix = Transform(d)
  <2>1. box = [cell |-> p.cell, layer |-> p.layer, why |-> "", from |-> <<p.draw[1].from>>,
               matrix |-> Transform(p.draw[1])]
    BY <1>3 DEF Box
  <2>2. p.draw[1] = d
    <3>1. <<d>>[1] = d
      OBVIOUS
    <3> QED BY <1>4, <3>1
  <2> HIDE DEF box
  <2>3. box.cell = p.cell /\ box.layer = p.layer /\ box.from = <<p.draw[1].from>>
        /\ box.matrix = Transform(p.draw[1])
    BY <2>1
  <2>4. p.cell = <<x, y>> /\ p.layer = i
    BY <1>2
  <2>5. box.from = <<d.from>> /\ box.matrix = Transform(d)
    BY <2>2, <2>3
  <2> QED BY <2>3, <2>4, <2>5
<1>6. TilesetFor(a, tile.gid) = k /\ Owners(a, tile.gid) = Owners(m, tile.gid)
  BY <1>1 DEF TilesetFor, Owners
<1>7. k # 0 /\ m.tilesets[k].sheet # Unresolved /\ NoPicture(ts, tile.gid - m.tilesets[k].first) = ""
  <2> HIDE DEF k
  <2> QED BY <1>1, <1>4, <1>6 DEF NoDraw, Refusal
<1>8. k \in DOMAIN m.tilesets
  BY <1>7, TilesetIsOwner DEF Owners
<1>9. IsSheet(ts)
  BY <1>7, <1>8 DEF IsMapRead, IsRef
<1>10. /\ r = Source(ts, tile.gid - m.tilesets[k].first)
       /\ d.h = tile.h /\ d.v = tile.v /\ d.d = tile.d
       /\ d.x = x * m.tw + ts.offset[1]
       /\ d.y = (y + 1) * m.th - DrawnHeight(r, tile.d) + ts.offset[2]
  <2> HIDE DEF k
  <2> QED BY <1>1, <1>6 DEF DrawOf, d
<1>11. r.w \in Int /\ r.h \in Int
  <2> HIDE DEF r, k, ts
  <2> QED BY <1>7, <1>9, <1>10, PictureIsSized
<1>12. {tile.h, tile.v, tile.d} \subseteq BOOLEAN
  BY DEF tile, TileAt, TileOf, Flag, NoTile
<1>13. {m.tw, m.th, ts.offset[1], ts.offset[2]} \subseteq Int
  BY <1>9 DEF IsMapRead, IsSheet
<1> DEFINE height == DrawnHeight(r, tile.d)
           across == x * m.tw
           below == (y + 1) * m.th
<1>14. height \in Int /\ across \in Int /\ below \in Int
  BY <1>11, <1>13 DEF DrawnHeight
<1> HIDE DEF k, ts, r, height, across, below
<1>15. d.x = across + ts.offset[1] /\ d.y = below - height + ts.offset[2]
  BY <1>10 DEF height, across, below
<1>16. {d.x, d.y} \subseteq Int
  BY <1>13, <1>14, <1>15
<1>17. ASSUME NEW px \in {0, r.w}, NEW py \in {0, r.h}
       PROVE  Carry(box.matrix, px, py) =
                <<across + ts.offset[1] + Flipped(r, tile, px, py)[1],
                  below + ts.offset[2] - height + Flipped(r, tile, px, py)[2]>>
  <2>1. px \in Int /\ py \in Int
    BY <1>11
  <2>2. Carry(box.matrix, px, py) =
          <<d.x + Flipped(r, d, px, py)[1], d.y + Flipped(r, d, px, py)[2]>>
    <3>1. {d.h, d.v, d.d} \subseteq BOOLEAN
      BY <1>10, <1>12
    <3>2. {d.x, d.y, d.from.w, d.from.h} \subseteq Int
      BY <1>11, <1>16 DEF r
    <3>3. Carry(Transform(d), px, py) =
            <<d.x + Flipped(d.from, d, px, py)[1], d.y + Flipped(d.from, d, px, py)[2]>>
      BY <2>1, <3>1, <3>2, TurnedInOrder
    <3> QED BY <1>5, <3>3 DEF r
  <2>3. Flipped(r, d, px, py) = Flipped(r, tile, px, py)
    BY <1>10 DEF Flipped
  <2>4. d.y = below + ts.offset[2] - height
    <3>1. ts.offset[2] \in Int
      BY <1>13
    <3> QED BY <1>14, <1>15, <3>1
  <2> QED BY <1>15, <2>2, <2>3, <2>4
<1>18. /\ TileAt(m.layers[box.layer], box.cell[1], box.cell[2]) = tile
       /\ box.from[1] = r /\ box.cell[1] = x /\ box.cell[2] = y
  BY <1>1, <1>5 DEF r
<1>19. height = IF tile.d THEN r.w ELSE r.h
  BY DEF height, DrawnHeight
<1> HIDE DEF box
<1>20. StandsOnItsCell(m, box)
  BY <1>17, <1>18, <1>19 DEF StandsOnItsCell, k, ts, across, below
<1> QED BY <1>20 DEF box, p, a

LEMMA OfKindIsSeq ==
  ASSUME NEW nodes, nodes \in Seq(ToSet(nodes)), NEW kinds
  PROVE  OfKind(nodes, kinds) \in Seq(DOMAIN nodes)
<1> DEFINE ones == [i \in DOMAIN nodes |->
                      IF Reached(nodes)[i] /\ nodes[i].kind \in kinds THEN <<i>> ELSE <<>>]
<1>1. Len(nodes) \in Nat /\ DOMAIN nodes = 1..Len(nodes)
  OBVIOUS
<1>2. ones \in [1..Len(nodes) -> Seq(DOMAIN nodes)]
  <2>1. ASSUME NEW i \in DOMAIN nodes PROVE ones[i] \in Seq(DOMAIN nodes)
    <3>1. <<i>> \in Seq(DOMAIN nodes) /\ <<>> \in Seq(DOMAIN nodes)
      OBVIOUS
    <3>2. ones[i] \in {<<i>>, <<>>}
      OBVIOUS
    <3> HIDE DEF ones
    <3> QED BY <3>1, <3>2
  <2>2. ones = [i \in 1..Len(nodes) |-> ones[i]]
    BY <1>1
  <2> HIDE DEF ones
  <2> QED BY <1>1, <2>1, <2>2
<1>3. ones \in Seq(Seq(DOMAIN nodes))
  <2> HIDE DEF ones
  <2> QED BY <1>1, <1>2, FunctionIsSeq
<1>4. FlattenSeq(ones) \in Seq(DOMAIN nodes)
  <2> HIDE DEF ones
  <2> QED BY <1>3, FlattenedIsSeq
<1> QED BY <1>4 DEF OfKind

LEMMA SheetIsRead ==
  ASSUME NEW s, IsSheetFile(s), NEW dir
  PROVE  IsSheet(ParseTileset(s, dir))
<1> DEFINE ts == ParseTileset(s, dir)
<1>1. ASSUME NEW image, IsImage(image)
      PROVE  {ImageIn(dir, image).w, ImageIn(dir, image).h} \subseteq Int
  BY <1>1 DEF IsImage, ImageIn
<1>2. ts.tw = s.tw /\ ts.th = s.th /\ ts.offset = s.offset /\ ts.image = ImageIn(dir, s.image)
  BY DEF ParseTileset
<1>3. DOMAIN ts.tiles = {s.tiles[i].id : i \in DOMAIN s.tiles}
  BY DEF ParseTileset
<1>4. ASSUME NEW id \in DOMAIN ts.tiles
      PROVE  {ts.tiles[id].image.w, ts.tiles[id].image.h} \subseteq Int
  <2> DEFINE i == CHOOSE j \in DOMAIN s.tiles : s.tiles[j].id = id
  <2>1. i \in DOMAIN s.tiles
    BY <1>3, <1>4
  <2>2. ts.tiles[id].image = ImageIn(dir, s.tiles[i].image)
    BY <1>3, <1>4 DEF ParseTileset
  <2> HIDE DEF i
  <2> QED BY <1>1, <2>1, <2>2 DEF IsSheetFile
<1> HIDE DEF ts
<1>5. {ts.image.w, ts.image.h} \subseteq Int
  BY <1>1, <1>2 DEF IsSheetFile
<1>6. {ts.tw, ts.th, ts.offset[1], ts.offset[2]} \subseteq Int
  BY <1>2 DEF IsSheetFile
<1> QED BY <1>4, <1>5, <1>6 DEF IsSheet, ts

LEMMA RefIsRead ==
  ASSUME NEW ref, ref.first \in Int, ref.inside = Unresolved \/ IsSheetFile(ref.inside[1]),
         NEW on, AreSheetFiles(on)
  PROVE  IsRef(IF Opens(RefOf(ref), Home, on) THEN Resolved(RefOf(ref), Home, on) ELSE RefOf(ref))
<1> DEFINE q == RefOf(ref)
           text == FileOf(q, Home, on)
<1>1. q.first = ref.first /\ q.sheet = Unresolved /\ q.inside = ref.inside
      /\ {"first", "source", "inside", "sheet"} = DOMAIN q
  BY DEF RefOf
<1> HIDE DEF q
<1>2. CASE Opens(q, Home, on)
  <2>1. text # Unresolved
    BY <1>1, <1>2 DEF Opens
  <2>2. text = Unresolved \/ IsSheetFile(text[1])
    BY <1>1 DEF FileOf, AreSheetFiles
  <2>3. IsSheet(ParseTileset(text[1], From(q, Home)))
    BY <2>1, <2>2, SheetIsRead
  <2> DEFINE sheet == ParseTileset(text[1], From(q, Home))
  <2>4. Resolved(q, Home, on) = [q EXCEPT !.sheet = <<sheet>>]
    BY <1>1 DEF Resolved
  <2> HIDE DEF sheet
  <2>5. Resolved(q, Home, on).sheet = <<sheet>> /\ Resolved(q, Home, on).first = ref.first
    BY <1>1, <2>4
  <2>6. Resolved(q, Home, on).sheet[1] = sheet
    <3>1. <<sheet>>[1] = sheet
      OBVIOUS
    <3> QED BY <2>5, <3>1
  <2>7. IsRef(Resolved(q, Home, on))
    BY <2>3, <2>5, <2>6 DEF IsRef, sheet
  <2> QED BY <1>2, <2>7 DEF q
<1>3. CASE ~Opens(q, Home, on)
  <2>1. IsRef(q)
    BY <1>1 DEF IsRef
  <2> QED BY <1>3, <2>1 DEF q
<1> QED BY <1>2, <1>3

LEMMA PreviewIsRead ==
  ASSUME NEW f, IsMapFile(f), NEW on, AreSheetFiles(on), Readable(f)
  PROVE  IsMapRead(Preview(f, on))
<1> DEFINE format == FormatOf(f)
           layers == OfKind(f.nodes, LayerKinds(format))
           shown == Shown(f.nodes)
           read == Parse(f)
           m == Preview(f, on)
           refs == [i \in DOMAIN f.tilesets |->
                      LET q == RefOf(f.tilesets[i])
                      IN  IF Opens(q, Home, on) THEN Resolved(q, Home, on) ELSE q]
<1>1. layers \in Seq(DOMAIN f.nodes)
  BY OfKindIsSeq DEF IsMapFile
<1>2. \A i \in DOMAIN layers : CheckLayer(format, f, f.nodes[layers[i]])
  BY DEF Readable
<1> HIDE DEF layers, format, shown
<1>3. /\ {"w", "h", "tw", "th", "layers", "tilesets"} \subseteq DOMAIN read
      /\ read.tw = f.tw /\ read.th = f.th /\ read.w = f.w /\ read.h = f.h
      /\ read.layers = [i \in DOMAIN layers |-> ConvertTileLayer(format, f.nodes[layers[i]], shown[layers[i]])]
      /\ read.tilesets = [i \in DOMAIN f.tilesets |-> RefOf(f.tilesets[i])]
  BY DEF Parse, layers, format, shown
<1> HIDE DEF read
<1>4. m = [read EXCEPT !.tilesets = refs]
  <2>1. m = [read EXCEPT !.tilesets =
               [i \in DOMAIN read.tilesets |->
                  IF Opens(read.tilesets[i], Home, on) THEN Resolved(read.tilesets[i], Home, on)
                  ELSE read.tilesets[i]]]
    BY DEF Preview, read
  <2>2. [i \in DOMAIN read.tilesets |->
           IF Opens(read.tilesets[i], Home, on) THEN Resolved(read.tilesets[i], Home, on)
           ELSE read.tilesets[i]] = refs
    BY <1>3
  <2> QED BY <2>1, <2>2
<1> HIDE DEF m, refs
<1>5. DOMAIN m = DOMAIN read /\ m.tw = f.tw /\ m.th = f.th /\ m.layers = read.layers /\ m.tilesets = refs
      /\ m.w = f.w /\ m.h = f.h
  BY <1>3, <1>4
<1>6. \E n \in Nat : DOMAIN m.layers = 1..n
  <2>1. Len(layers) \in Nat /\ DOMAIN layers = 1..Len(layers)
    BY <1>1
  <2>2. DOMAIN m.layers = DOMAIN layers
    BY <1>3, <1>5
  <2> QED BY <2>1, <2>2
<1>7. ASSUME NEW i \in DOMAIN m.layers
      PROVE  /\ {"w", "h", "id", "data"} \subseteq DOMAIN m.layers[i]
             /\ {m.layers[i].w, m.layers[i].h, m.layers[i].id} \subseteq Int
  <2>1. i \in DOMAIN layers /\ m.layers[i] = ConvertTileLayer(format, f.nodes[layers[i]], shown[layers[i]])
    BY <1>3, <1>5, <1>7
  <2>2. f.nodes[layers[i]].w = f.w /\ f.nodes[layers[i]].h = f.h
    BY <1>2, <2>1 DEF CheckLayer
  <2>3. {"w", "h", "id", "data"} \subseteq DOMAIN m.layers[i]
        /\ m.layers[i].w = f.nodes[layers[i]].w /\ m.layers[i].h = f.nodes[layers[i]].h
        /\ m.layers[i].id = f.nodes[layers[i]].id
    BY <2>1 DEF ConvertTileLayer
  <2>4. layers[i] \in DOMAIN f.nodes
    BY <1>1, <2>1
  <2> QED BY <2>2, <2>3, <2>4 DEF IsMapFile
<1>8. DOMAIN refs = DOMAIN f.tilesets
  BY DEF refs
<1>9. ASSUME NEW i \in DOMAIN refs PROVE IsRef(refs[i])
  <2>1. i \in DOMAIN f.tilesets
    BY <1>8, <1>9
  <2>2. f.tilesets[i].first \in Int
        /\ (f.tilesets[i].inside = Unresolved \/ IsSheetFile(f.tilesets[i].inside[1]))
    BY <2>1 DEF IsMapFile
  <2>3. refs[i] = IF Opens(RefOf(f.tilesets[i]), Home, on) THEN Resolved(RefOf(f.tilesets[i]), Home, on)
                  ELSE RefOf(f.tilesets[i])
    BY <2>1 DEF refs
  <2> QED BY <2>2, <2>3, RefIsRead
<1>10. {"w", "h", "tw", "th", "layers", "tilesets"} \subseteq DOMAIN m /\ {m.w, m.h, m.tw, m.th} \subseteq Int
  BY <1>3, <1>5 DEF IsMapFile
<1>11. IsFiniteSet(DOMAIN m.tilesets) /\ DOMAIN m.tilesets \subseteq Nat \ {0}
  <2>1. Len(f.tilesets) \in Nat /\ DOMAIN f.tilesets = 1..Len(f.tilesets)
    BY DEF IsMapFile
  <2>2. DOMAIN m.tilesets = 1..Len(f.tilesets)
    BY <1>5, <1>8, <2>1
  <2>3. 1 \in Int /\ Len(f.tilesets) \in Int
    BY <2>1
  <2>4. IsFiniteSet(1..Len(f.tilesets))
    BY <2>3, FS_Interval
  <2> QED BY <2>1, <2>2, <2>4
<1>12. IsMapRead(m)
  BY <1>5, <1>6, <1>7, <1>9, <1>10, <1>11 DEF IsMapRead
<1> QED BY <1>12 DEF m

\* A stroke leaves the shape of a file alone.
LEMMA PaintedIsMapFile ==
  ASSUME NEW f, IsMapFile(f), NEW n, NEW v,
         n \in DOMAIN f.nodes => "id" \in DOMAIN v /\ v.id \in Int
  PROVE  IsMapFile([f EXCEPT !.nodes = [f.nodes EXCEPT ![n] = v]])
<1> DEFINE painted == [f.nodes EXCEPT ![n] = v]
           g == [f EXCEPT !.nodes = painted]
<1>1. Len(f.nodes) \in Nat /\ DOMAIN f.nodes = 1..Len(f.nodes)
  BY DEF IsMapFile
<1>2. painted \in [1..Len(f.nodes) -> ToSet(painted)]
  <2>1. painted = [i \in 1..Len(f.nodes) |-> painted[i]]
    BY <1>1
  <2>2. \A i \in 1..Len(f.nodes) : painted[i] \in ToSet(painted)
    <3>1. DOMAIN painted = 1..Len(f.nodes)
      BY <1>1
    <3> HIDE DEF painted
    <3> QED BY <3>1 DEF ToSet
  <2> HIDE DEF painted
  <2> QED BY <2>1, <2>2
<1>3. \A i \in DOMAIN painted : "id" \in DOMAIN painted[i] /\ painted[i].id \in Int
  <2>1. DOMAIN painted = DOMAIN f.nodes
    BY <1>1
  <2>2. \A i \in DOMAIN f.nodes : painted[i] = IF i = n THEN v ELSE f.nodes[i]
    OBVIOUS
  <2> HIDE DEF painted
  <2> QED BY <2>1, <2>2 DEF IsMapFile
<1> HIDE DEF painted
<1>6. painted \in Seq(ToSet(painted))
  BY <1>1, <1>2, FunctionIsSeq
<1>4. DOMAIN g = DOMAIN f /\ g.nodes = painted
      /\ g.w = f.w /\ g.h = f.h /\ g.tw = f.tw /\ g.th = f.th /\ g.tilesets = f.tilesets
  BY DEF IsMapFile
<1> HIDE DEF g
<1>5. IsMapFile(g)
  BY <1>3, <1>4, <1>6 DEF IsMapFile
<1> QED BY <1>5 DEF g, painted

-----------------------------------------------------------------------------
(* The canvas of MAP: the page *)

PageIsOf(pg) == IsMapRead(pg.map) /\ pg.canvas = Canvas(pg.map)
ReportInv ==
  /\ IsMapFile(file) /\ AreSheetFiles(disk)
  /\ mapPage # NoPage => PageIsOf(mapPage[1])

LEMMA ReportInvInit == ReportInit => ReportInv
BY ReportFilesAssumption DEF ReportInit, ReportInv

LEMMA ReportInvStep == ReportInv /\ [ReportNext]_reportVars => ReportInv'
<1> SUFFICES ASSUME ReportInv, [ReportNext]_reportVars PROVE ReportInv'
  OBVIOUS
<1>1. CASE RenderMap
  <2> DEFINE m == Preview(file, disk)
  <2>1. IsMapRead(m)
    BY <1>1, PreviewIsRead DEF RenderMap, ReportInv
  <2>2. PageNow.map = m /\ PageNow.canvas = Canvas(m)
    BY DEF PageNow
  <2>3. mapPage'[1] = PageNow
    <3>1. <<PageNow>>[1] = PageNow
      OBVIOUS
    <3> QED BY <1>1, <3>1 DEF RenderMap
  <2> HIDE DEF m
  <2>4. PageIsOf(mapPage'[1])
    BY <2>1, <2>2, <2>3 DEF PageIsOf
  <2> QED BY <1>1, <2>4 DEF RenderMap, ReportInv
<1>2. CASE PaintSome
  <2>1. PICK layer, x, y, tile, turn : PaintTile(layer, x, y, tile, turn)
    BY <1>2 DEF PaintSome
  <2>2. PICK n, data : file' = [file EXCEPT !.nodes = [file.nodes EXCEPT ![n] = [file.nodes[n] EXCEPT !.data = data]]]
    BY <2>1 DEF PaintTile
  <2> DEFINE v == [file.nodes[n] EXCEPT !.data = data]
  <2>5. n \in DOMAIN file.nodes => "id" \in DOMAIN v /\ v.id \in Int
    BY DEF ReportInv, IsMapFile
  <2> HIDE DEF v
  <2>6. file' = [file EXCEPT !.nodes = [file.nodes EXCEPT ![n] = v]]
    BY <2>2 DEF v
  <2>3. IsMapFile(file')
    BY <2>5, <2>6, PaintedIsMapFile DEF ReportInv
  <2>4. UNCHANGED <<disk, mapPage>>
    BY <2>1 DEF PaintTile
  <2> QED BY <2>3, <2>4 DEF ReportInv
<1>3. CASE TheyChange
  BY <1>3, ReportFilesAssumption DEF TheyChange, ReportInv
<1>4. CASE UNCHANGED reportVars
  BY <1>4 DEF reportVars, ReportInv
<1> QED BY <1>1, <1>2, <1>3, <1>4 DEF ReportNext

-----------------------------------------------------------------------------
(* The marks of MAP *)

Told(x) == ~x.warning /\ x.kind \in {"map", "tileset", "layer", "cell"} /\ x.why # "shared mapId"

LEMMA WhatIsTold ==
  ASSUME NEW at, NEW why
  PROVE  /\ ~Told(Warning("map", at, "no mapId"))
         /\ ~Told(Issue("map", at, "shared mapId"))
         /\ ~Told(Issue("object", at, why))
         /\ Told(Issue("map", at, "orientation"))
         /\ Told(Issue("map", at, "size"))
         /\ Told(Issue("layer", at, "size"))
         /\ Told(Issue("layer", at, "no id"))
         /\ Told(Issue("layer", at, "shared id"))
         /\ Told(Issue("tileset", at, "does not open"))
         /\ why # "shared mapId" => Told(Issue("cell", at, why))
BY DEF Told, Warning, Issue

\* No refusal of a cell is the one that is left out.
LEMMA RefusalsAreTold ==
  ASSUME NEW m, NEW tile
  PROVE  CellRefusal(m, tile) # "shared mapId"
<1>1. NoDraw(m, tile).why # "shared mapId"
  <2>1. \A ts, local : NoPicture(ts, local) # "shared mapId"
    BY DEF NoPicture
  <2> QED BY <2>1 DEF NoDraw, Refusal
<1> QED BY <1>1 DEF CellRefusal

\* What is wrong with the shape and the tiles of a map, cell by cell.
IsRefused(m, i, x, y) == CellRefusal(m, TileAt(m.layers[i], x, y)) # ""
BadCells(m) ==
  {c \in (DOMAIN m.layers) \X (0 .. m.w - 1) \X (0 .. m.h - 1) :
     TileAt(m.layers[c[1]], c[2], c[3]).gid # 0 /\ IsRefused(m, c[1], c[2], c[3])}

\* In a map of the right shape the engine meets a refused cell where there is one.
LEMMA CellsAreTheSame ==
  ASSUME NEW m, IsMapRead(m), CheckShape(m)
  PROVE  LET all == Placements(m, TRUE) IN
         (\E k \in DOMAIN all : IsRefused(m, all[k].layer, all[k].cell[1], all[k].cell[2]))
         <=> BadCells(m) # {}
<1> DEFINE all == Placements(m, TRUE)
           Refused(p) == IsRefused(m, p.layer, p.cell[1], p.cell[2])
           There(at) == Placement(m, at[1], at[2], at[3])
<1>1. \A k \in DOMAIN all : all[k] \in Places(m)
  <2>1. all \in Seq(Places(m))
    BY PlacementsArePlaces
  <2> HIDE DEF all
  <2> QED BY <2>1, SeqHas
<1>2. ASSUME NEW at
      PROVE  Refused(There(at)) <=> IsRefused(m, at[1], at[2], at[3])
  BY PlacementSays
<1>3. NoTile.gid = 0
  <2>1. 0 % Span = 0
    BY WordAssumption
  <2> QED BY <2>1 DEF NoTile, TileOf
<1>4. ASSUME NEW at \in Tiled(m)
      PROVE  at \in (DOMAIN m.layers) \X (0 .. m.w - 1) \X (0 .. m.h - 1)
  <2>1. at[1] \in DOMAIN m.layers /\ at[2] \in Int /\ at[3] \in Int
        /\ TileAt(m.layers[at[1]], at[2], at[3]).gid # 0
    BY DEF Tiled
  <2>2. m.layers[at[1]].w = m.w /\ m.layers[at[1]].h = m.h
    BY <2>1 DEF CheckShape, Fills
  <2>3. m.w \in Int /\ m.h \in Int
    BY DEF IsMapRead
  <2>4. at[2] \in 0 .. m.w - 1 /\ at[3] \in 0 .. m.h - 1
    BY <1>3, <2>1, <2>2, <2>3 DEF TileAt
  <2> QED BY <2>1, <2>4 DEF Tiled
<1>5. ASSUME NEW k \in DOMAIN all, Refused(all[k]) PROVE BadCells(m) # {}
  <2>1. PICK at \in Tiled(m) : all[k] = There(at)
    BY <1>1 DEF Places
  <2>2. TileAt(m.layers[at[1]], at[2], at[3]).gid # 0
    BY DEF Tiled
  <2>3. IsRefused(m, at[1], at[2], at[3])
    <3> HIDE DEF all, Refused, There
    <3> QED BY <1>2, <1>5, <2>1
  <2>4. at \in BadCells(m)
    BY <1>4, <2>2, <2>3 DEF BadCells
  <2> QED BY <2>4
<1>6. ASSUME NEW at \in BadCells(m) PROVE \E k \in DOMAIN all : Refused(all[k])
  <2>1. at[1] \in DOMAIN m.layers /\ at[2] \in Int /\ at[3] \in Int
    BY DEF BadCells
  <2>2. TileAt(m.layers[at[1]], at[2], at[3]).gid # 0
        /\ IsRefused(m, at[1], at[2], at[3])
    BY DEF BadCells
  <2>3. PICK k \in DOMAIN all : all[k] = There(at)
    BY <2>1, <2>2, TilesArePlaced
  <2> HIDE DEF all, Refused, There
  <2> QED BY <1>2, <2>2, <2>3
<1> HIDE DEF all
<1> QED BY <1>5, <1>6 DEF all

\* What is said of a layer's id.
LEMMA LayersAreNamed ==
  ASSUME NEW m, IsMapRead(m)
  PROVE  LayerIdIssues(m) = {} <=> LayerIdsAreGood(m)
<1> DEFINE bad == {j \in DOMAIN m.layers : m.layers[j].id <= 0 \/ Cardinality(LayersWithId(m, m.layers[j].id)) > 1}
<1>1. LayerIdIssues(m) = {} <=> bad = {}
  BY DEF LayerIdIssues
<1>2. \A i \in DOMAIN m.layers : m.layers[i].id \in Int
  BY DEF IsMapRead
<1>3. IsFiniteSet(DOMAIN m.layers)
  BY FS_Interval DEF IsMapRead
<1>4. ASSUME NEW i \in DOMAIN m.layers
      PROVE  Cardinality(LayersWithId(m, m.layers[i].id)) > 1
               <=> \E j \in DOMAIN m.layers : j # i /\ m.layers[j].id = m.layers[i].id
  <2> DEFINE same == LayersWithId(m, m.layers[i].id)
  <2>1. IsFiniteSet(same) /\ i \in same /\ Cardinality(same) \in Nat
    BY <1>3, FS_Subset, FS_CardinalityType DEF LayersWithId
  <2>2. IsFiniteSet(same \ {i}) /\ Cardinality(same \ {i}) = Cardinality(same) - 1
    BY <2>1, FS_RemoveElement
  <2>3. Cardinality(same \ {i}) = 0 <=> same \ {i} = {}
    BY <2>2, FS_EmptySet
  <2>4. Cardinality(same \ {i}) \in Nat
    BY <2>2, FS_CardinalityType
  <2> QED BY <2>1, <2>2, <2>3, <2>4 DEF LayersWithId
<1>5. bad = {} <=> LayerIdsAreGood(m)
  BY <1>2, <1>4 DEF LayerIdsAreGood
<1> QED BY <1>1, <1>5

\* What is said of the rest of a map.
CellIssues(m) == {Issue("cell", at, CellRefusal(m, TileAt(m.layers[at[1]], at[2], at[3]))) : at \in BadCells(m)}

LEMMA IssuesOfAMap ==
  ASSUME NEW m
  PROVE  MapIssues(m) =
           (IF CheckOrientation(m) THEN {} ELSE {Issue("map", <<>>, "orientation")})
           \cup IF m.w <= 0 \/ m.h <= 0 THEN {Issue("map", <<>>, "size")}
                ELSE {Issue("layer", <<i>>, "size") : i \in {j \in DOMAIN m.layers : ~Fills(m, m.layers[j])}}
                     \cup CellIssues(m)
BY DEF MapIssues, CellIssues, BadCells, IsRefused

LEMMA ShapesAreTold ==
  ASSUME NEW m, IsMapRead(m)
  PROVE  MapIssues(m) = {} <=> CheckOrientation(m) /\ CheckShape(m) /\ BadCells(m) = {}
<1>1. m.w \in Int /\ m.h \in Int
  BY DEF IsMapRead
<1>2. CASE m.w <= 0 \/ m.h <= 0
  <2>1. Issue("map", <<>>, "size") \in MapIssues(m)
    BY <1>2, IssuesOfAMap
  <2>2. ~CheckShape(m)
    BY <1>1, <1>2 DEF CheckShape
  <2> QED BY <2>1, <2>2
<1>3. CASE ~(m.w <= 0 \/ m.h <= 0)
  <2> DEFINE unlike == {j \in DOMAIN m.layers : ~Fills(m, m.layers[j])}
  <2>1. CheckShape(m) <=> unlike = {}
    BY <1>1, <1>3 DEF CheckShape
  <2>2. MapIssues(m) =
          (IF CheckOrientation(m) THEN {} ELSE {Issue("map", <<>>, "orientation")})
          \cup {Issue("layer", <<i>>, "size") : i \in unlike} \cup CellIssues(m)
    BY <1>3, IssuesOfAMap
  <2>3. CellIssues(m) = {} <=> BadCells(m) = {}
    BY DEF CellIssues
  <2> HIDE DEF unlike
  <2>4. {Issue("layer", <<i>>, "size") : i \in unlike} = {} <=> unlike = {}
    OBVIOUS
  <2> QED BY <2>1, <2>2, <2>3, <2>4
<1> QED BY <1>2, <1>3

\* All of it counts, and of the rest nothing.
LEMMA ErrorsOfAPage ==
  ASSUME NEW m, NEW refs
  PROVE  Errors(Build(m, refs)) = {} <=> refs = {} /\ LayerIdIssues(m) = {} /\ MapIssues(m) = {}
<1>1. ASSUME NEW x \in IdentityIssues(m) PROVE ~Told(x)
  <2>1. x = Warning("map", <<>>, "no mapId") \/ x = Issue("map", <<>>, "shared mapId")
    BY DEF IdentityIssues
  <2> QED BY <2>1, WhatIsTold
<1>2. ASSUME NEW x \in ObjectIssues(m) PROVE ~Told(x)
  <2>1. PICK at : x = Issue("object", at, "shared id") \/ x = Issue("object", at, "a link without a class")
    BY DEF ObjectIssues
  <2> QED BY <2>1, WhatIsTold
<1>3. ASSUME NEW x \in LayerIdIssues(m) PROVE Told(x)
  <2>1. PICK i : x = Issue("layer", <<i>>, IF m.layers[i].id <= 0 THEN "no id" ELSE "shared id")
    BY DEF LayerIdIssues
  <2>2. x = Issue("layer", <<i>>, "no id") \/ x = Issue("layer", <<i>>, "shared id")
    BY <2>1
  <2> QED BY <2>2, WhatIsTold
<1>4. ASSUME NEW x \in MapIssues(m) PROVE Told(x)
  <2>1. \A at : Told(Issue("cell", at, CellRefusal(m, TileAt(m.layers[at[1]], at[2], at[3]))))
    BY RefusalsAreTold, WhatIsTold
  <2>2. Told(Issue("map", <<>>, "orientation")) /\ Told(Issue("map", <<>>, "size"))
        /\ \A i : Told(Issue("layer", <<i>>, "size"))
    BY WhatIsTold
  <2>3. CASE x \in CellIssues(m)
    BY <2>1, <2>3 DEF CellIssues
  <2>4. CASE x \notin CellIssues(m)
    BY <1>4, <2>2, <2>4, IssuesOfAMap
  <2> QED BY <2>3, <2>4
<1>5. \A i : Told(Issue("tileset", <<i>>, "does not open"))
  BY WhatIsTold
<1>6. Errors(Build(m, refs)) = {x \in Build(m, refs) : Told(x)}
  BY DEF Errors, Told
<1>7. Build(m, refs) =
        IdentityIssues(m) \cup {Issue("tileset", <<i>>, "does not open") : i \in refs}
          \cup LayerIdIssues(m) \cup MapIssues(m) \cup ObjectIssues(m)
  BY DEF Build
<1> HIDE DEF Told
<1> QED BY <1>1, <1>2, <1>3, <1>4, <1>5, <1>6, <1>7

\* What MAP reads where every tileset opens is what the engine reads.
LEMMA OpenedIsResolved ==
  ASSUME NEW f, IsMapFile(f), NEW on,
         \A i \in DOMAIN Parse(f).tilesets : Opens(Parse(f).tilesets[i], Home, on)
  PROVE  ResolveTilesets(Parse(f), Home, on) = Preview(f, on)
<1> DEFINE m == Parse(f)
           set == m.tilesets
           all == [i \in DOMAIN set |->
                     IF \A j \in 1..i : Opens(set[j], Home, on) THEN Resolved(set[i], Home, on) ELSE set[i]]
           some == [i \in DOMAIN set |-> IF Opens(set[i], Home, on) THEN Resolved(set[i], Home, on) ELSE set[i]]
<1>1. DOMAIN set = DOMAIN f.tilesets
  BY DEF Parse
<1>2. Len(f.tilesets) \in Nat /\ DOMAIN f.tilesets = 1..Len(f.tilesets)
  BY DEF IsMapFile
<1>3. ResolveTilesets(m, Home, on) = [m EXCEPT !.tilesets = all]
  BY DEF ResolveTilesets
<1>4. Preview(f, on) = [m EXCEPT !.tilesets = some]
  BY DEF Preview
<1>5. \A i \in DOMAIN set : Opens(set[i], Home, on)
  OBVIOUS
<1> HIDE DEF m, set
<1>6. \A i \in DOMAIN set : 1..i \subseteq DOMAIN set
  BY <1>1, <1>2
<1>7. all = some
  BY <1>5, <1>6
<1> HIDE DEF all, some
<1> QED BY <1>3, <1>4, <1>7 DEF m

LEMMA MarksHold ==
  ASSUME NEW f, IsMapFile(f), NEW on, AreSheetFiles(on), Readable(f)
  PROVE  Errors(Build(Preview(f, on), BadRefs(f, on))) = {} <=> Takes(f, on)
<1> DEFINE m == Preview(f, on)
           read == Parse(f)
<1>1. IsMapRead(m)
  BY PreviewIsRead
<1>2. read.tilesets = [i \in DOMAIN f.tilesets |-> RefOf(f.tilesets[i])]
      /\ {"tilesets", "orientation"} \subseteq DOMAIN read
  BY DEF Parse
<1>3. m.orientation = read.orientation
  BY <1>2 DEF Preview
<1>4. BadRefs(f, on) = {} <=> \A i \in DOMAIN read.tilesets : Opens(read.tilesets[i], Home, on)
  BY <1>2 DEF BadRefs
<1>5. CheckOrientation(m) <=> CheckOrientation(read)
  BY <1>3 DEF CheckOrientation
<1>6. Takes(f, on) <=>
        /\ CheckOrientation(read)
        /\ \A i \in DOMAIN read.tilesets : Opens(read.tilesets[i], Home, on)
        /\ TilesAreGood(ResolveTilesets(read, Home, on))
  BY DEF Takes
<1>7. (\A i \in DOMAIN read.tilesets : Opens(read.tilesets[i], Home, on))
        => ResolveTilesets(read, Home, on) = m
  BY OpenedIsResolved
<1> HIDE DEF m, read
<1>8. TilesAreGood(m) <=> CheckShape(m) /\ LayerIdsAreGood(m) /\ BadCells(m) = {}
  <2> DEFINE all == Placements(m, TRUE)
             Bad(k) == IsRefused(m, all[k].layer, all[k].cell[1], all[k].cell[2])
  <2>1. TilesAreGood(m) <=> CheckShape(m) /\ LayerIdsAreGood(m) /\ \A k \in DOMAIN all : ~Bad(k)
    BY DEF TilesAreGood, IsRefused
  <2>2. CheckShape(m) => ((\E k \in DOMAIN all : Bad(k)) <=> BadCells(m) # {})
    BY <1>1, CellsAreTheSame
  <2> HIDE DEF all, Bad
  <2> QED BY <2>1, <2>2
<1>9. Errors(Build(m, BadRefs(f, on))) = {} <=>
        /\ BadRefs(f, on) = {} /\ LayerIdsAreGood(m)
        /\ CheckOrientation(m) /\ CheckShape(m) /\ BadCells(m) = {}
  BY <1>1, ErrorsOfAPage, LayersAreNamed, ShapesAreTold
<1> QED BY <1>4, <1>5, <1>6, <1>7, <1>8, <1>9 DEF m

LEMMA MarksFromInv == ReportInv => MarksAreTheEngines
<1> SUFFICES ASSUME ReportInv, Readable(file), mapPage = <<PageNow>>
             PROVE  Errors(mapPage[1].issues) = {} <=> Takes(file, disk)
  BY DEF MarksAreTheEngines, UpToDate
<1>1. mapPage[1] = PageNow
  <2>1. <<PageNow>>[1] = PageNow
    OBVIOUS
  <2> QED BY <2>1
<1>2. PageNow.issues = Build(Preview(file, disk), BadRefs(file, disk))
  BY DEF PageNow
<1> QED BY <1>1, <1>2, MarksHold DEF ReportInv

LEMMA BoxesFromInv == ReportInv => BoxesStandOnTheirCells
<1> SUFFICES ASSUME ReportInv, mapPage # NoPage,
                    NEW k \in DOMAIN mapPage[1].canvas.boxes,
                    mapPage[1].canvas.boxes[k].from # <<>>
             PROVE  StandsOnItsCell(mapPage[1].map, mapPage[1].canvas.boxes[k])
  BY DEF BoxesStandOnTheirCells
<1> DEFINE m == mapPage[1].map
           places == Placements(AllShown(m), FALSE)
           box == mapPage[1].canvas.boxes[k]
<1>1. IsMapRead(m) /\ mapPage[1].canvas = Canvas(m)
  BY DEF ReportInv, PageIsOf
<1> HIDE DEF m
<1>2. Canvas(m).boxes = [j \in DOMAIN places |-> Box(m, places[j])]
  BY DEF Canvas
<1>3. k \in DOMAIN places /\ box = Box(m, places[k])
  BY <1>1, <1>2
<1>4. places \in Seq(Places(AllShown(m)))
  BY <1>1, AllShownIsRead, PlacementsArePlaces
<1> HIDE DEF places
<1>5. places[k] \in Places(AllShown(m))
  BY <1>3, <1>4
<1>6. PICK at \in (DOMAIN AllShown(m).layers) \X Int \X Int :
        places[k] = Placement(AllShown(m), at[1], at[2], at[3])
  BY <1>5 DEF Places, Tiled
<1>7. at[1] \in DOMAIN m.layers
  BY <1>6 DEF AllShown
<1>8. at[2] \in Int /\ at[3] \in Int
  BY <1>6
<1>9. box = Box(m, Placement(AllShown(m), at[1], at[2], at[3])) /\ box.from # <<>>
  BY <1>3, <1>6
<1> HIDE DEF box
<1>10. StandsOnItsCell(m, box)
  BY <1>1, <1>7, <1>8, <1>9, BoxStands
<1> QED BY <1>10 DEF m, box

\* However a map is written and its tilesets change: a page behind which nothing
\* has changed is without an error if and only if the engine takes the map, though
\* MAP looks at each cell by itself and the engine stops at the first fault.  And
\* whatever the sizes of tiles and pictures, the order cells are drawn in
\* and the turns of a tile, a box of the canvas with a picture covers its cell
\* from the bottom left, moved as its tileset says, and its picture is turned in
\* Tiled's order.  (mapvalidation.Build and MapIssues, readTiled and
\* LayerTilesOfTiled; draw.go, placements, drawOf, drawnHeight, Transform)
THEOREM PagesTrue == ReportSpec => []PagesTellTheTruth
<1>1. ReportInv => PagesTellTheTruth
  BY MarksFromInv, BoxesFromInv DEF PagesTellTheTruth
<1> QED BY <1>1, ReportInvInit, ReportInvStep, PTL DEF ReportSpec

-----------------------------------------------------------------------------
(* Edits of a map *)

\* What the file has had is not in it, nor in the map, and its counter is past it.
MapInv ==
  /\ IsDoc(doc) /\ IsDoc(saved)
  /\ StaysImportable /\ (UniqueLayerIDs(saved) => Imports(saved))
  /\ saved.next <= doc.next
  /\ \A id \in gone : id \in Int /\ id < saved.next /\ id \notin DOMAIN doc.objects \cup DOMAIN saved.objects

\* What checks links lets nothing through that cannot be imported.
LEMMA CheckedImports ==
  ASSUME NEW d, LinksFit(d), UniqueLayerIDs(d)
  PROVE  Imports(d)
<1>1. ASSUME NEW id \in DOMAIN d.objects, d.objects[id].link # NoLink
      PROVE  \E i \in Layers(d) :
               /\ WithId(d, d.objects[id].link) = {i}
               /\ Footprint(d.objects[id]) \subseteq Cells
               /\ \A c \in Footprint(d.objects[id]) : d.layers[i].cells[c] # Empty
               /\ ArtFits(d, d.objects[id], i)
  <2>1. LinkFits(d, d.objects[id])
    BY <1>1 DEF LinksFit
  <2>2. PICK i \in Layers(d) :
               /\ UniqueLayerID(d, i) = d.objects[id].link
               /\ Footprint(d.objects[id]) \subseteq Cells
               /\ \A c \in Footprint(d.objects[id]) : d.layers[i].cells[c] # Empty
               /\ ArtFits(d, d.objects[id], i)
    BY <2>1 DEF LinkFits
  <2>3. WithId(d, d.objects[id].link) = {i}
    BY <1>1, <2>2 DEF UniqueLayerID, NoLink
  <2> QED BY <2>2, <2>3
<1>2. LinksLead(d)
  <2> SUFFICES ASSUME NEW id \in DOMAIN d.objects, d.objects[id].link # NoLink
               PROVE  \E i \in WithId(d, d.objects[id].link) :
                        \A c \in Footprint(d.objects[id]) : c \in Cells /\ d.layers[i].cells[c] # Empty
    BY DEF LinksLead
  <2> QED BY <1>1
<1>3. ASSUME NEW i \in Layers(d), NEW c, NEW id \in Sharing(d, i, c)
      PROVE  /\ id \in DOMAIN d.objects
             /\ d.objects[id].link = d.layers[i].id
             /\ c \in Footprint(d.objects[id])
             /\ d.objects[id].type = TypeOf(d.layers[i].cells[c])
             /\ ArtFits(d, d.objects[id], i)
  <2>1. /\ id \in DOMAIN d.objects
        /\ d.objects[id].link = d.layers[i].id
        /\ c \in Footprint(d.objects[id])
        /\ d.objects[id].type = TypeOf(d.layers[i].cells[c])
    BY <1>3 DEF Sharing
  <2>2. d.objects[id].link # NoLink
    BY <2>1 DEF Footprint
  <2>3. i \in WithId(d, d.objects[id].link)
    BY <2>1 DEF WithId
  <2> QED BY <1>1, <2>1, <2>2, <2>3
<1>4. ASSUME NEW i \in Layers(d), NEW c \in Cells, NEW id \in Sharing(d, i, c)
      PROVE  \E k \in Sharing(d, i, c) : d.objects[k].visual
  <2>1. d.objects[id].visual \/ HasVisualProvider(d, d.objects[id].link, c, d.objects[id].type)
    BY <1>3, <1>4 DEF ArtFits
  <2>2. CASE d.objects[id].visual
    BY <2>2
  <2>3. CASE HasVisualProvider(d, d.objects[id].link, c, d.objects[id].type)
    <3>1. PICK k \in DOMAIN d.objects :
            /\ d.objects[k].visual
            /\ d.objects[k].type = d.objects[id].type
            /\ d.objects[k].link = d.objects[id].link
            /\ c \in Footprint(d.objects[k])
      BY <2>3 DEF HasVisualProvider
    <3>2. k \in Sharing(d, i, c)
      BY <1>3, <1>4, <3>1 DEF Sharing
    <3> QED BY <3>1, <3>2
  <2> QED BY <2>1, <2>2, <2>3
<1>5. ASSUME NEW i \in Layers(d), NEW b \in Cells, NEW c \in Cells,
             NEW id \in Sharing(d, i, b) \cap Sharing(d, i, c), d.objects[id].visual
      PROVE  d.layers[i].cells[b] = d.layers[i].cells[c]
  <2>1. id \in Sharing(d, i, b) /\ id \in Sharing(d, i, c)
    BY <1>5
  <2> QED BY <1>3, <1>5, <2>1 DEF ArtFits
<1>6. ArtIsGiven(d)
  BY <1>4, <1>5 DEF ArtIsGiven
<1> QED BY <1>2, <1>6 DEF Imports

LEMMA HighestOf ==
  ASSUME NEW S, IsFiniteSet(S), S \subseteq Int, S # {}
  PROVE  Max(S) \in S /\ \A y \in S : y <= Max(S)
<1> DEFINE Above(x) == {y \in S : y > x}
           Rank(x) == Cardinality(Above(x))
           Ranks == {Rank(x) : x \in S}
<1>1. \A x \in S : IsFiniteSet(Above(x)) /\ Rank(x) \in Nat
  BY FS_Subset, FS_CardinalityType
<1>2. Ranks \subseteq Nat /\ Ranks # {}
  BY <1>1
<1>3. PICK r \in Ranks : \A n \in Ranks : r <= n
  <2> DEFINE less == {ab \in Nat \X Nat : ab[1] < ab[2]}
  <2>1. IsWellFoundedOn(less, Nat)
    BY NatLessThanWellFounded DEF OpToRel
  <2>2. \A a, b \in Nat : <<a, b>> \in less <=> a < b
    OBVIOUS
  <2> HIDE DEF Ranks, less
  <2>3. PICK r \in Ranks : \A n \in Ranks : ~(<<n, r>> \in less)
    BY <1>2, <2>1, WFMin
  <2>4. ASSUME NEW n \in Ranks PROVE r <= n
    <3>1. n \in Nat /\ r \in Nat
      BY <1>2
    <3>2. ~(n < r)
      BY <2>2, <2>3, <3>1
    <3> QED BY <3>1, <3>2
  <2> QED BY <2>4
<1>4. PICK x \in S : r = Rank(x)
  BY <1>3
<1>5. ASSUME NEW y \in S, y > x PROVE FALSE
  <2>1. Above(y) \subseteq Above(x) /\ y \in Above(x) /\ y \notin Above(y)
    <3>1. ASSUME NEW z \in S, z > y PROVE z > x
      <4>1. x \in Int /\ y \in Int /\ z \in Int
        OBVIOUS
      <4> QED BY <1>5, <3>1, <4>1
    <3>2. ~(y > y)
      OBVIOUS
    <3> QED BY <1>5, <3>1, <3>2
  <2>2. Rank(y) < Rank(x)
    <3> HIDE DEF Above
    <3>1. Rank(y) <= Rank(x) /\ (Rank(y) = Rank(x) => Above(y) = Above(x))
      BY <1>1, <2>1, FS_Subset
    <3> QED BY <1>1, <2>1, <3>1
  <2>3. Rank(y) \in Ranks
    BY <1>5
  <2>4. Rank(x) \in Nat /\ Rank(y) \in Nat
    BY <1>1
  <2> HIDE DEF Rank, Ranks
  <2> QED BY <1>3, <1>4, <2>2, <2>3, <2>4
<1>6. \A y \in S : y <= x
  BY <1>5
<1>7. \E m \in S : \A y \in S : m >= y
  BY <1>6
<1> QED BY <1>7 DEF Max

\* The layers of e are those of d, in another order and under other names.
Shuffled(d, e, p) ==
  /\ e.objects = d.objects
  /\ p \in [Layers(e) -> Layers(d)]
  /\ \A j, k \in Layers(e) : p[j] = p[k] => j = k
  /\ \A i \in Layers(d) : \E k \in Layers(e) : p[k] = i
  /\ \A k \in Layers(e) : e.layers[k].id = d.layers[p[k]].id /\ e.layers[k].cells = d.layers[p[k]].cells

\* Names and order are nothing to the engine.
LEMMA SameToTheEngine ==
  ASSUME NEW d, NEW e, NEW p, Shuffled(d, e, p), UniqueLayerIDs(d) => Imports(d)
  PROVE  UniqueLayerIDs(e) => Imports(e)
<1> SUFFICES ASSUME UniqueLayerIDs(e) PROVE Imports(e)
  OBVIOUS
<1> USE DEF Shuffled
<1>1. ASSUME NEW i \in Layers(d)
      PROVE  d.layers[i].id > 0 /\ WithId(d, d.layers[i].id) = {i} /\ d.layers[i].id # 0
  <2>1. PICK k \in Layers(e) : p[k] = i
    OBVIOUS
  <2>2. e.layers[k].id > 0 /\ WithId(e, e.layers[k].id) = {k} /\ e.layers[k].id # 0
    BY DEF UniqueLayerIDs, UniqueLayerID
  <2>3. ASSUME NEW j \in Layers(d), d.layers[j].id = d.layers[i].id PROVE j = i
    <3>1. PICK l \in Layers(e) : p[l] = j
      OBVIOUS
    <3>2. e.layers[l].id = e.layers[k].id
      BY <2>1, <2>3, <3>1
    <3>3. l = k
      BY <2>2, <3>2 DEF WithId
    <3> QED BY <2>1, <3>1, <3>3
  <2>4. WithId(d, d.layers[i].id) = {i}
    BY <2>3 DEF WithId
  <2> QED BY <2>1, <2>2, <2>4
<1>2. UniqueLayerIDs(d)
  BY <1>1 DEF UniqueLayerIDs, UniqueLayerID
<1>3. LinksLead(d) /\ ArtIsGiven(d)
  BY <1>2 DEF Imports
<1>4. LinksLead(e)
  <2> SUFFICES ASSUME NEW id \in DOMAIN e.objects, e.objects[id].link # NoLink
               PROVE  \E i \in WithId(e, e.objects[id].link) :
                        \A c \in Footprint(e.objects[id]) : c \in Cells /\ e.layers[i].cells[c] # Empty
    BY DEF LinksLead
  <2>0. id \in DOMAIN d.objects /\ d.objects[id].link # NoLink /\ e.objects[id] = d.objects[id]
    OBVIOUS
  <2>1. PICK i \in WithId(d, d.objects[id].link) :
          \A c \in Footprint(d.objects[id]) : c \in Cells /\ d.layers[i].cells[c] # Empty
    BY <1>3, <2>0, Zenon DEF LinksLead
  <2>2. i \in Layers(d) /\ d.layers[i].id = d.objects[id].link
    BY <2>1 DEF WithId
  <2>3. PICK k \in Layers(e) : p[k] = i
    BY <2>2
  <2>4. k \in WithId(e, e.objects[id].link)
    BY <2>2, <2>3 DEF WithId
  <2>5. e.layers[k].cells = d.layers[i].cells /\ e.objects[id] = d.objects[id]
    BY <2>3
  <2>6. \A c \in Footprint(e.objects[id]) : c \in Cells /\ e.layers[k].cells[c] # Empty
    BY <2>1, <2>5
  <2> QED BY <2>4, <2>6
<1>5. \A k \in Layers(e), c \in Cells : Sharing(e, k, c) = Sharing(d, p[k], c)
  BY DEF Sharing
<1>6. ArtIsGiven(e)
  <2> SUFFICES ASSUME NEW k \in Layers(e), NEW c \in Cells
               PROVE  /\ Sharing(e, k, c) # {} => \E id \in Sharing(e, k, c) : e.objects[id].visual
                      /\ \A b \in Cells : \A id \in Sharing(e, k, b) \cap Sharing(e, k, c) :
                           e.objects[id].visual => e.layers[k].cells[b] = e.layers[k].cells[c]
    BY DEF ArtIsGiven
  <2>1. p[k] \in Layers(d)
    OBVIOUS
  <2> QED BY <1>3, <1>5, <2>1 DEF ArtIsGiven
<1> QED BY <1>4, <1>6 DEF Imports

-----------------------------------------------------------------------------
(* Edits of a map: what they leave *)

\* An id is handed out past the counter, which never goes back.
Grows(d, e) == e.next >= d.next /\ \A id \in DOMAIN e.objects \ DOMAIN d.objects : id >= d.next

LEMMA StillSeq ==
  ASSUME NEW n \in Nat, NEW s, s = [i \in 1..n |-> s[i]]
  PROVE  s \in Seq(ToSet(s))
<1>1. DOMAIN s = 1..n
  OBVIOUS
<1>2. \A i \in 1..n : s[i] \in ToSet(s)
  BY <1>1 DEF ToSet
<1>3. s \in [1..n -> ToSet(s)]
  BY <1>2
<1> QED BY <1>3, FunctionIsSeq

LEMMA ObjectsEdited ==
  ASSUME NEW d, IsDoc(d), NEW e, {"layers", "objects", "next"} \subseteq DOMAIN e,
         e.next = d.next, DOMAIN e.objects \subseteq DOMAIN d.objects,
         e.layers \in Seq(ToSet(e.layers)), \A i \in DOMAIN e.layers : IsLayer(e.layers[i])
  PROVE  IsDoc(e) /\ Grows(d, e)
<1>1. d.next \in Int /\ IsFiniteSet(DOMAIN d.objects) /\ DOMAIN d.objects \subseteq Int
  BY DEF IsDoc
<1>2. IsFiniteSet(DOMAIN e.objects)
  BY <1>1, FS_Subset
<1> QED BY <1>1, <1>2 DEF IsDoc, Grows

LEMMA LayerEdited ==
  ASSUME NEW d, IsDoc(d), NEW i \in Layers(d), NEW l, IsLayer(l),
         NEW g, g = [d.layers EXCEPT ![i] = l]
  PROVE  g \in Seq(ToSet(g)) /\ \A j \in DOMAIN g : IsLayer(g[j])
<1>1. Len(d.layers) \in Nat /\ DOMAIN d.layers = 1..Len(d.layers)
  BY DEF IsDoc
<1>2. \A j \in DOMAIN d.layers : IsLayer(d.layers[j])
  BY DEF IsDoc
<1>3. DOMAIN g = DOMAIN d.layers
  OBVIOUS
<1>4. \A j \in DOMAIN d.layers : g[j] = IF j = i THEN l ELSE d.layers[j]
  BY DEF Layers
<1>5. g = [j \in 1..Len(d.layers) |-> g[j]]
  BY <1>1
<1>6. g \in Seq(ToSet(g))
  BY <1>1, <1>5, StillSeq
<1>7. \A j \in DOMAIN g : IsLayer(g[j])
  BY <1>2, <1>3, <1>4
<1> QED BY <1>6, <1>7

LEMMA ReplacedIsDoc ==
  ASSUME NEW d, IsDoc(d), NEW id, NEW o
  PROVE  IsDoc(Replaced(d, id, o)) /\ Grows(d, Replaced(d, id, o))
<1> DEFINE e == Replaced(d, id, o)
<1>1. {"layers", "objects", "next"} \subseteq DOMAIN d
  BY DEF IsDoc
<1>2. DOMAIN e = DOMAIN d /\ e.next = d.next /\ e.layers = d.layers
      /\ e.objects = [d.objects EXCEPT ![id] = o]
  BY <1>1 DEF Replaced
<1>3. DOMAIN e.objects = DOMAIN d.objects
  BY <1>2
<1> HIDE DEF e
<1>4. e.layers \in Seq(ToSet(e.layers)) /\ \A i \in DOMAIN e.layers : IsLayer(e.layers[i])
  BY <1>2 DEF IsDoc
<1>5. IsDoc(e) /\ Grows(d, e)
  BY <1>1, <1>2, <1>3, <1>4, ObjectsEdited
<1> QED BY <1>5 DEF e

LEMMA VisualIsDoc ==
  ASSUME NEW d, IsDoc(d), NEW id, NEW has
  PROVE  IsDoc(SetVisual(d, id, has)) /\ Grows(d, SetVisual(d, id, has))
<1>1. SetVisual(d, id, has) = Replaced(d, id, [d.objects[id] EXCEPT !.visual = has])
  BY DEF SetVisual, Replaced
<1> QED BY <1>1, ReplacedIsDoc

LEMMA DeleteIsDoc ==
  ASSUME NEW d, IsDoc(d), NEW id
  PROVE  IsDoc(Delete(d, id)) /\ Grows(d, Delete(d, id))
<1> DEFINE e == Delete(d, id)
           others == [k \in DOMAIN d.objects \ {id} |-> d.objects[k]]
<1>1. {"layers", "objects", "next"} \subseteq DOMAIN d
  BY DEF IsDoc
<1>2. DOMAIN e = DOMAIN d /\ e.next = d.next /\ e.layers = d.layers /\ e.objects = others
  BY <1>1 DEF Delete
<1>3. DOMAIN others \subseteq DOMAIN d.objects
  OBVIOUS
<1> HIDE DEF e, others
<1>4. e.layers \in Seq(ToSet(e.layers)) /\ \A i \in DOMAIN e.layers : IsLayer(e.layers[i])
  BY <1>2 DEF IsDoc
<1>5. IsDoc(e) /\ Grows(d, e)
  BY <1>1, <1>2, <1>3, <1>4, ObjectsEdited
<1> QED BY <1>5 DEF e

LEMMA PaintIsDoc ==
  ASSUME NEW d, IsDoc(d), NEW i \in Layers(d), NEW cells, NEW tile
  PROVE  IsDoc(Paint(d, i, cells, tile)) /\ Grows(d, Paint(d, i, cells, tile))
<1> DEFINE e == Paint(d, i, cells, tile)
           l == [d.layers[i] EXCEPT !.cells =
                   [c \in Cells |-> IF c \in cells THEN tile ELSE d.layers[i].cells[c]]]
<1>1. {"layers", "objects", "next"} \subseteq DOMAIN d /\ IsLayer(d.layers[i])
  BY DEF IsDoc, Layers
<1>2. DOMAIN e = DOMAIN d /\ e.next = d.next /\ e.layers = [d.layers EXCEPT ![i] = l]
      /\ DOMAIN e.objects = DOMAIN d.objects
  BY <1>1 DEF Paint
<1>3. IsLayer(l)
  BY <1>1 DEF IsLayer
<1> HIDE DEF e, l
<1>4. e.layers \in Seq(ToSet(e.layers)) /\ \A j \in DOMAIN e.layers : IsLayer(e.layers[j])
  BY <1>2, <1>3, LayerEdited
<1>5. IsDoc(e) /\ Grows(d, e)
  BY <1>1, <1>2, <1>4, ObjectsEdited
<1> QED BY <1>5 DEF e

LEMMA DeleteLayerIsDoc ==
  ASSUME NEW d, IsDoc(d), NEW i \in Layers(d)
  PROVE  IsDoc(DeleteLayer(d, i)) /\ Grows(d, DeleteLayer(d, i))
<1> DEFINE e == DeleteLayer(d, i)
           n == Len(d.layers)
           S == ToSet(d.layers)
           rest == RemoveAt(d.layers, i)
<1>1. {"layers", "objects", "next"} \subseteq DOMAIN d
  BY DEF IsDoc
<1>2. DOMAIN e = DOMAIN d /\ e.next = d.next /\ e.layers = rest /\ DOMAIN e.objects = DOMAIN d.objects
  BY <1>1 DEF DeleteLayer
<1>3. d.layers \in Seq(S) /\ n \in Nat /\ i \in 1..n
  BY DEF IsDoc, Layers
<1>4. \A l \in S : IsLayer(l)
  BY DEF IsDoc, ToSet
<1> HIDE DEF S
<1>5. rest \in Seq(S)
  <2>1. SubSeq(d.layers, 1, i - 1) \in Seq(S)
    BY <1>3
  <2>2. SubSeq(d.layers, i + 1, n) \in Seq(S)
    BY <1>3
  <2> QED BY <2>1, <2>2 DEF RemoveAt
<1> HIDE DEF e, n, rest
<1>6. rest \in Seq(ToSet(rest)) /\ \A j \in DOMAIN rest : IsLayer(rest[j])
  <2>1. Len(rest) \in Nat /\ rest = [j \in 1..Len(rest) |-> rest[j]] /\ \A j \in DOMAIN rest : rest[j] \in S
    BY <1>5
  <2> QED BY <1>4, <2>1, StillSeq
<1>7. IsDoc(e) /\ Grows(d, e)
  BY <1>1, <1>2, <1>6, ObjectsEdited
<1> QED BY <1>7 DEF e

LEMMA AddIsDoc ==
  ASSUME NEW d, IsDoc(d), NEW o
  PROVE  IsDoc(AddObject(d, o)) /\ Grows(d, AddObject(d, o))
<1> DEFINE e == AddObject(d, o)
           after == [id \in DOMAIN d.objects |-> id + 1]
           new == NextObjectID(d)
           past == {d.next} \cup {id + 1 : id \in DOMAIN d.objects}
<1>1. {"layers", "objects", "next"} \subseteq DOMAIN d
  BY DEF IsDoc
<1>2. IsFiniteSet(DOMAIN d.objects) /\ DOMAIN d.objects \subseteq Int /\ d.next \in Int
  BY DEF IsDoc
<1>3. IsFiniteSet(past) /\ past \subseteq Int /\ past # {} /\ d.next \in past
  <2>1. after \in Surjection(DOMAIN d.objects, {id + 1 : id \in DOMAIN d.objects})
    BY DEF Surjection
  <2>3. IsFiniteSet({id + 1 : id \in DOMAIN d.objects})
    BY <1>2, <2>1, FS_Surjection
  <2>2. IsFiniteSet(past)
    BY <2>3, FS_AddElement
  <2> QED BY <1>2, <2>2
<1>4. new \in Int /\ d.next <= new
  <2>1. new = Max(past)
    BY DEF NextObjectID
  <2> HIDE DEF past, new
  <2> QED BY <1>3, <2>1, HighestOf
<1> HIDE DEF new
<1>5. DOMAIN e = DOMAIN d /\ e.next = new + 1 /\ e.layers = d.layers
      /\ DOMAIN e.objects = DOMAIN d.objects \cup {new}
  BY <1>1 DEF AddObject, new
<1> HIDE DEF e
<1>6. IsFiniteSet(DOMAIN e.objects) /\ DOMAIN e.objects \subseteq Int
  BY <1>2, <1>4, <1>5, FS_AddElement
<1>7. IsDoc(e)
  BY <1>1, <1>4, <1>5, <1>6 DEF IsDoc
<1>8. Grows(d, e)
  BY <1>2, <1>4, <1>5 DEF Grows
<1> QED BY <1>7, <1>8 DEF e

LEMMA RenameIsDoc ==
  ASSUME NEW d, IsDoc(d), NEW i \in Layers(d), NEW name, UniqueLayerIDs(d) => Imports(d)
  PROVE  LET e == RenameLayer(d, i, name) IN IsDoc(e) /\ Grows(d, e) /\ (UniqueLayerIDs(e) => Imports(e))
<1> DEFINE e == RenameLayer(d, i, name)
           l == [d.layers[i] EXCEPT !.name = name]
           p == [k \in Layers(d) |-> k]
<1>1. {"layers", "objects", "next"} \subseteq DOMAIN d /\ IsLayer(d.layers[i])
  BY DEF IsDoc, Layers
<1>2. DOMAIN e = DOMAIN d /\ e.next = d.next /\ e.objects = d.objects /\ e.layers = [d.layers EXCEPT ![i] = l]
  BY <1>1 DEF RenameLayer
<1>3. IsLayer(l) /\ l.id = d.layers[i].id /\ l.cells = d.layers[i].cells
  <2>1. {"key", "id", "cells"} \subseteq DOMAIN d.layers[i]
    BY <1>1 DEF IsLayer
  <2>2. DOMAIN l = DOMAIN d.layers[i] /\ \A x \in DOMAIN d.layers[i] : x # "name" => l[x] = d.layers[i][x]
    OBVIOUS
  <2>3. "id" \in DOMAIN d.layers[i] /\ "cells" \in DOMAIN d.layers[i] /\ "id" # "name" /\ "cells" # "name"
    BY <2>1
  <2> QED BY <2>1, <2>2, <2>3 DEF IsLayer
<1> HIDE DEF e, l
<1>4. e.layers \in Seq(ToSet(e.layers)) /\ \A j \in DOMAIN e.layers : IsLayer(e.layers[j])
  BY <1>2, <1>3, LayerEdited
<1>5. IsDoc(e) /\ Grows(d, e)
  <2>1. {"layers", "objects", "next"} \subseteq DOMAIN e /\ e.next = d.next /\ DOMAIN e.objects \subseteq DOMAIN d.objects
    BY <1>1, <1>2
  <2> QED BY <2>1, <1>4, ObjectsEdited
<1>6. /\ Layers(e) = Layers(d)
      /\ \A k \in Layers(e) : e.layers[k].id = d.layers[k].id /\ e.layers[k].cells = d.layers[k].cells
  BY <1>2, <1>3 DEF Layers
<1>7. /\ p \in [Layers(e) -> Layers(d)] /\ \A k \in Layers(d) : p[k] = k
  BY <1>6
<1> HIDE DEF p
<1>9. /\ \A j, k \in Layers(e) : p[j] = p[k] => j = k
      /\ \A k \in Layers(d) : \E j \in Layers(e) : p[j] = k
      /\ \A k \in Layers(e) : e.layers[k].id = d.layers[p[k]].id /\ e.layers[k].cells = d.layers[p[k]].cells
  BY <1>6, <1>7
<1>10. Shuffled(d, e, p)
  BY <1>2, <1>7, <1>9 DEF Shuffled
<1>11. UniqueLayerIDs(e) => Imports(e)
  BY <1>10, SameToTheEngine
<1> QED BY <1>5, <1>11 DEF e

LEMMA MoveIsDoc ==
  ASSUME NEW d, IsDoc(d), NEW i, NEW step \in {-1, 1}, CanMove(d, i, step), UniqueLayerIDs(d) => Imports(d)
  PROVE  LET e == MoveLayer(d, i, step) IN IsDoc(e) /\ Grows(d, e) /\ (UniqueLayerIDs(e) => Imports(e))
<1> DEFINE e == MoveLayer(d, i, step)
           j == i + step
           g == [d.layers EXCEPT ![i] = d.layers[j], ![j] = d.layers[i]]
           p == [k \in Layers(d) |-> IF k = i THEN j ELSE IF k = j THEN i ELSE k]
<1>1. {"layers", "objects", "next"} \subseteq DOMAIN d
  BY DEF IsDoc
<1>2. Len(d.layers) \in Nat /\ DOMAIN d.layers = 1..Len(d.layers) /\ \A k \in DOMAIN d.layers : IsLayer(d.layers[k])
  BY DEF IsDoc
<1>3. i \in DOMAIN d.layers /\ j \in DOMAIN d.layers /\ i # j
  BY <1>2 DEF CanMove, Layers
<1>4. DOMAIN e = DOMAIN d /\ e.next = d.next /\ e.objects = d.objects /\ e.layers = g
  BY <1>1 DEF MoveLayer
<1> HIDE DEF j
<1>5. DOMAIN g = DOMAIN d.layers
      /\ \A k \in DOMAIN d.layers : g[k] = IF k = i THEN d.layers[j] ELSE IF k = j THEN d.layers[i] ELSE d.layers[k]
  BY <1>3
<1>6. g = [k \in 1..Len(d.layers) |-> g[k]]
  BY <1>2
<1> HIDE DEF e, g
<1>7. g \in Seq(ToSet(g))
  BY <1>2, <1>6, StillSeq
<1>8. \A k \in DOMAIN g : IsLayer(g[k])
  BY <1>2, <1>3, <1>5
<1>9. IsDoc(e) /\ Grows(d, e)
  BY <1>1, <1>4, <1>7, <1>8, ObjectsEdited
<1>10. Layers(e) = Layers(d) /\ Layers(d) = DOMAIN d.layers
  BY <1>4, <1>5 DEF Layers
<1>11. /\ p \in [Layers(e) -> Layers(d)]
       /\ \A k \in Layers(d) : p[k] = IF k = i THEN j ELSE IF k = j THEN i ELSE k
  BY <1>3, <1>10
<1> HIDE DEF p
<1>12. /\ \A k, l \in Layers(e) : p[k] = p[l] => k = l
       /\ \A k \in Layers(d) : \E l \in Layers(e) : p[l] = k
  BY <1>3, <1>10, <1>11
<1>13. \A k \in Layers(e) : e.layers[k] = d.layers[p[k]]
  BY <1>4, <1>5, <1>10, <1>11
<1>14. Shuffled(d, e, p)
  BY <1>4, <1>11, <1>12, <1>13 DEF Shuffled
<1>15. UniqueLayerIDs(e) => Imports(e)
  BY <1>14, SameToTheEngine
<1> QED BY <1>9, <1>15 DEF e

-----------------------------------------------------------------------------
(* Edits of a map: every step *)

LEMMA EditKeeps ==
  ASSUME MapInv, NEW d, doc' = d, saved' = saved, gone' = gone,
         IsDoc(d), Grows(doc, d), UniqueLayerIDs(d) => Imports(d)
  PROVE  MapInv'
<1>1. IsDoc(doc') /\ IsDoc(saved') /\ StaysImportable' /\ (UniqueLayerIDs(saved') => Imports(saved'))
  BY DEF MapInv, StaysImportable
<1>2. doc.next \in Int /\ saved.next \in Int /\ d.next \in Int /\ saved.next <= doc.next /\ d.next >= doc.next
      /\ DOMAIN d.objects \subseteq Int
  BY DEF MapInv, IsDoc, Grows
<1>3. saved'.next <= doc'.next
  BY <1>2
<1>4. ASSUME NEW id \in gone
      PROVE  id \in Int /\ id < saved.next /\ id \notin DOMAIN d.objects \cup DOMAIN saved.objects
  <2>1. id \in Int /\ id < saved.next /\ id \notin DOMAIN doc.objects \cup DOMAIN saved.objects
    BY <1>4 DEF MapInv
  <2>2. ASSUME id \in DOMAIN d.objects PROVE FALSE
    <3>1. id >= doc.next
      BY <2>1, <2>2 DEF Grows
    <3> QED BY <1>2, <2>1, <3>1
  <2> QED BY <2>1, <2>2
<1> QED BY <1>1, <1>3, <1>4 DEF MapInv

LEMMA CheckedKeeps ==
  ASSUME MapInv, NEW d, NEW what, NEW key, CheckedEdit(d, what, key), IsDoc(d), Grows(doc, d),
         saved' = saved, gone' = gone
  PROVE  MapInv'
<1>1. doc' = d /\ LinksFit(d)
  BY DEF CheckedEdit, Edit
<1>2. UniqueLayerIDs(d) => Imports(d)
  BY <1>1, CheckedImports
<1> QED BY <1>1, <1>2, EditKeeps

LEMMA NoEditKeeps ==
  ASSUME MapInv, doc' = doc, saved' = saved, gone' = gone
  PROVE  MapInv'
BY DEF MapInv, StaysImportable

LEMMA MapInvInit ==
  ASSUME Init PROVE MapInv
<1>1. doc \in Docs /\ saved = doc /\ gone = {}
  BY DEF Init
<1>2. IsDoc(doc) /\ (UniqueLayerIDs(doc) => Imports(doc))
  BY <1>1, DocsAssumption
<1>3. doc.next \in Int
  BY <1>2 DEF IsDoc
<1> QED BY <1>1, <1>2, <1>3 DEF MapInv, StaysImportable

LEMMA MapInvStep ==
  ASSUME MapInv, [Next]_vars
  PROVE  MapInv'
<1>1. IsDoc(doc) /\ IsDoc(saved) /\ (UniqueLayerIDs(doc) => Imports(doc))
  BY DEF MapInv, StaysImportable
<1>2. ASSUME NEW i \in Layers(doc), ChooseLayer(i) PROVE MapInv'
  BY <1>2, NoEditKeeps DEF ChooseLayer
<1>3. ASSUME NEW kind, NEW from, NEW to, NEW way, NEW tile, Stroke(kind, from, to, way, tile) PROVE MapInv'
  <2>1. PICK i \in Aimed(doc, aim) :
          CheckedEdit(Paint(doc, i, Touched(kind, from, to, way), tile), "layer", aim.key)
    BY <1>3 DEF Stroke
  <2>2. i \in Layers(doc)
    BY DEF Aimed
  <2>3. saved' = saved /\ gone' = gone
    BY <1>3 DEF Stroke
  <2> QED BY <1>1, <2>1, <2>2, <2>3, PaintIsDoc, CheckedKeeps
<1>4. ASSUME NEW id, NEW layer, NEW c, LinkTile(id, layer, c) \/ UnlinkTile(id, layer, c) PROVE MapInv'
  <2>1. CASE LinkTile(id, layer, c)
    BY <1>1, <2>1, ReplacedIsDoc, CheckedKeeps DEF LinkTile, Link
  <2>2. CASE UnlinkTile(id, layer, c)
    BY <1>1, <2>2, ReplacedIsDoc, CheckedKeeps DEF UnlinkTile, Unlink
  <2> QED BY <1>4, <2>1, <2>2
<1>5. ASSUME NEW type, NEW c, PlaceSpawn(type, c) PROVE MapInv'
  BY <1>1, <1>5, AddIsDoc, CheckedKeeps DEF PlaceSpawn, Place
<1>6. ASSUME NEW id, NEW c, MoveSpawn(id, c) PROVE MapInv'
  BY <1>1, <1>6, ReplacedIsDoc, CheckedKeeps DEF MoveSpawn, Move
<1>7. ASSUME NEW id, EditComponents(id) PROVE MapInv'
  <2>1. saved' = saved /\ gone' = gone
    BY <1>7 DEF EditComponents
  <2>2. CASE CheckedEdit(SetVisual(doc, id, ~doc.objects[id].visual), "spawn", id)
    BY <1>1, <2>1, <2>2, VisualIsDoc, CheckedKeeps
  <2>3. CASE CheckedEdit(DetachLink(doc, id), "link", id)
    BY <1>1, <2>1, <2>3, ReplacedIsDoc, CheckedKeeps DEF DetachLink
  <2> QED BY <1>7, <2>2, <2>3 DEF EditComponents
<1>8. ASSUME NEW id, DeleteSpawn(id) PROVE MapInv'
  BY <1>1, <1>8, DeleteIsDoc, CheckedKeeps DEF DeleteSpawn
<1>9. ASSUME NEW t, BeginOpen(t) PROVE MapInv'
  BY <1>9, NoEditKeeps DEF BeginOpen
<1>10. ASSUME NEW o, ReadMenu(o) \/ FinishOpen(o) PROVE MapInv'
  BY <1>10, NoEditKeeps DEF ReadMenu, FinishOpen
<1>11. ASSUME Draw PROVE MapInv'
  BY <1>11, NoEditKeeps DEF Draw
<1>12. ASSUME NEW token, Close(token) PROVE MapInv'
  BY <1>12, NoEditKeeps DEF Close
<1>13. ASSUME NEW op, TakeMenu(op) PROVE MapInv'
  BY <1>13, NoEditKeeps DEF TakeMenu
<1>14. ASSUME NEW a, NEW name, ActOnLayer(a, name) PROVE MapInv'
  <2> DEFINE i == a.menu.target
  <2>1. saved' = saved /\ gone' = gone /\ i \in Layers(doc)
    BY <1>14 DEF ActOnLayer, StillNamed
  <2> HIDE DEF i
  <2>2. CASE Edit(RenameLayer(doc, i, name), "layer", a.menu.key)
    <3>1. doc' = RenameLayer(doc, i, name)
      BY <2>2 DEF Edit
    <3> QED BY <1>1, <2>1, <3>1, RenameIsDoc, EditKeeps
  <2>3. ASSUME NEW step \in {-1, 1}, CanMove(doc, i, step), Edit(MoveLayer(doc, i, step), "layer", a.menu.key)
        PROVE  MapInv'
    <3>1. doc' = MoveLayer(doc, i, step)
      BY <2>3 DEF Edit
    <3> QED BY <1>1, <2>1, <2>3, <3>1, MoveIsDoc, EditKeeps
  <2>4. CASE CheckedEdit(DeleteLayer(doc, i), "layer", a.menu.key)
    BY <1>1, <2>1, <2>4, DeleteLayerIsDoc, CheckedKeeps
  <2> QED BY <1>14, <2>2, <2>3, <2>4 DEF ActOnLayer, i
<1>15. ASSUME NEW a, ActOnSpawn(a) PROVE MapInv'
  <2>1. saved' = saved /\ gone' = gone
    BY <1>15 DEF ActOnSpawn
  <2>2. CASE CheckedEdit(Duplicate(doc, a.menu.target), "spawn", 0)
    BY <1>1, <2>1, <2>2, AddIsDoc, CheckedKeeps DEF Duplicate
  <2>3. CASE CheckedEdit(Delete(doc, a.menu.target), "spawn", a.menu.target)
    BY <1>1, <2>1, <2>3, DeleteIsDoc, CheckedKeeps
  <2> QED BY <1>15, <2>2, <2>3 DEF ActOnSpawn
<1>16. ASSUME NEW a, Refuse(a) PROVE MapInv'
  BY <1>16, NoEditKeeps DEF Refuse
<1>17. ASSUME Save PROVE MapInv'
  <2>1. doc' = doc /\ saved' = doc /\ gone' = gone \cup Retired(saved, doc)
    BY <1>17 DEF Save
  <2>2. doc.next \in Int /\ saved.next \in Int /\ saved.next <= doc.next /\ DOMAIN saved.objects \subseteq Int
    BY DEF MapInv, IsDoc
  <2>3. ASSUME NEW id \in gone' PROVE id \in Int /\ id < doc.next /\ id \notin DOMAIN doc.objects
    <3>1. CASE id \in gone
      BY <2>2, <3>1 DEF MapInv
    <3>2. CASE id \in Retired(saved, doc)
      BY <2>2, <3>2 DEF Retired
    <3> QED BY <2>1, <2>3, <3>1, <3>2
  <2> QED BY <1>1, <2>1, <2>2, <2>3 DEF MapInv, StaysImportable
<1>18. ASSUME Discard PROVE MapInv'
  <2>1. doc' = saved /\ saved' = saved /\ gone' = gone
    BY <1>18 DEF Discard
  <2>2. saved.next \in Int
    BY <1>1 DEF IsDoc
  <2> QED BY <2>1, <2>2 DEF MapInv, StaysImportable
<1>19. CASE UNCHANGED vars
  BY <1>19, NoEditKeeps DEF vars
<1> QED
  BY <1>2, <1>3, <1>4, <1>5, <1>6, <1>7, <1>8, <1>9, <1>10, <1>11, <1>12, <1>13, <1>14, <1>15, <1>16,
     <1>17, <1>18, <1>19 DEF Next

\* Whatever strokes, links, spawns, layer edits, saves and reloads come from
\* pages that are behind, a map the engine could import stays one: tilelinks.go
\* checks what the engine imports, layers are moved and renamed unchecked, and
\* NextObjectID of document.go hands no id of the file out again.
THEOREM FitAlways == Spec => []FitForTheEngine
<1>1. MapInv => FitForTheEngine
  BY DEF MapInv, FitForTheEngine, IdsAreNotReused
<1> QED BY <1>1, MapInvInit, MapInvStep, PTL DEF Spec
==============================================================================
