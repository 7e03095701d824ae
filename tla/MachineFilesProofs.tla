------------------------- MODULE MachineFilesProofs --------------------------
(***************************************************************************)
(* What MachineFiles promises, for any number of files, any contents and   *)
(* any number of changes by somebody else.                                 *)
(***************************************************************************)
EXTENDS MachineFiles, TLAPS

\* A table of open files.
Open(fs) == DOMAIN fs \subseteq Files /\ fs \in [DOMAIN fs -> [cur : Definitions, snap : Machines]]

\* The other operations find no trace of a Save.
Quiet == ~saving.on => saving = NotSaving

\* What a conflict check that passed has read.
CheckPassed == saving.path # 0 => saving.saw \in {Gone, files[saving.path].snap}

\* The inductive invariant.
IInv == TypeOK /\ HeldForAReason /\ Quiet /\ CheckPassed

-----------------------------------------------------------------------------
(* The parts of editable.File *)

\* Bytes that parse are a machine; reading them gives a typed file.
LEMMA OpenedIsTyped ==
  ASSUME NEW b \in Bytes, Parses(b)
  PROVE  b \in Machines /\ Opened(b) \in [cur : Definitions, snap : Machines]
<1>1. b \in Machines
  BY DEF Parses, Bytes
<1>2. Parse(b) \in Definitions
  BY <1>1 DEF Parse, Definitions, Machines
<1>3. QED
  BY <1>1, <1>2 DEF Opened

\* A machine's bytes parse.
LEMMA MachinesParse ==
  ASSUME NEW b \in Machines
  PROVE  Parses(b) /\ b \in Bytes
BY BytesAssumption DEF Parses, Bytes

\* Writing a definition gives a machine's bytes.
LEMMA EmitIsMachine ==
  ASSUME NEW def \in Definitions
  PROVE  Emit(def) \in Machines
BY DEF Emit, Definitions, Machines

\* A file that was written is typed and has no unsaved work.
LEMMA WrittenIsTyped ==
  ASSUME NEW f \in [cur : Definitions, snap : Machines]
  PROVE  /\ Written(f) \in [cur : Definitions, snap : Machines]
         /\ Written(f).cur = f.cur
BY EmitIsMachine DEF Written

-----------------------------------------------------------------------------
(* Resolving *)

\* What is held after a re-resolve is listed or has unsaved work, and no unsaved
\* work is lost by it.
LEMMA ReopenedKeeps ==
  ASSUME NEW d \in [Files -> Bytes], NEW fs, Open(fs)
  PROVE  /\ Open(Reopened(d, fs))
         /\ DOMAIN Reopened(d, fs) = Resolved(d) \cup {q \in DOMAIN fs : Unsaved(fs[q])}
         /\ \A p \in DOMAIN fs : Unsaved(fs[p]) =>
              p \in DOMAIN Reopened(d, fs) /\ Reopened(d, fs)[p] = fs[p]
         /\ IdsIn(d) \in [Resolved(d) -> Files]
<1>1. Resolved(d) \subseteq Files /\ \A p \in Resolved(d) : Parses(d[p])
  BY DEF Resolved
<1>2. DOMAIN Reopened(d, fs) = Resolved(d) \cup {q \in DOMAIN fs : Unsaved(fs[q])}
  BY DEF Reopened
<1>3. ASSUME NEW p \in DOMAIN Reopened(d, fs)
      PROVE  Reopened(d, fs)[p] \in [cur : Definitions, snap : Machines]
  <2>1. CASE p \in DOMAIN fs
    <3>1. Reopened(d, fs)[p] = fs[p]
      BY <1>2, <1>3, <2>1 DEF Reopened
    <3>2. QED
      BY <2>1, <3>1 DEF Open
  <2>2. CASE p \notin DOMAIN fs
    <3>1. Reopened(d, fs)[p] = Opened(d[p]) /\ p \in Resolved(d)
      BY <1>2, <1>3, <2>2 DEF Reopened
    <3>2. QED
      BY <1>1, <3>1, OpenedIsTyped
  <2>3. QED
    BY <2>1, <2>2
<1>4. Open(Reopened(d, fs))
  <2>1. Reopened(d, fs) = [p \in DOMAIN Reopened(d, fs) |-> Reopened(d, fs)[p]]
    BY <1>2 DEF Reopened
  <2>2. DOMAIN Reopened(d, fs) \subseteq Files
    BY <1>1, <1>2 DEF Open
  <2>3. QED
    BY <1>3, <2>1, <2>2 DEF Open
<1>5. \A p \in DOMAIN fs : Unsaved(fs[p]) =>
        p \in DOMAIN Reopened(d, fs) /\ Reopened(d, fs)[p] = fs[p]
  BY DEF Reopened
<1>6. IdsIn(d) \in [Resolved(d) -> Files]
  <2>1. \A p \in Resolved(d) : d[p].id \in Files
    BY <1>1, OpenedIsTyped DEF Machines
  <2>2. QED
    BY <2>1 DEF IdsIn
<1>7. QED
  BY <1>2, <1>4, <1>5, <1>6

\* Every operation that ends in a re-resolve establishes the invariant.
LEMMA ReloadEstablishes ==
  ASSUME NEW fs, Open(fs), disk' \in [Files -> Bytes], Reload(fs), saving' = NotSaving
  PROVE  IInv'
<1>1. files' = Reopened(disk', fs) /\ listed' = IdsIn(disk')
  BY DEF Reload
<1>2. Open(files') /\ DOMAIN listed' = Resolved(disk') /\ listed' \in [DOMAIN listed' -> Files]
  BY <1>1, ReopenedKeeps
<1>3. DOMAIN listed' \subseteq DOMAIN files'
  BY <1>1, <1>2, ReopenedKeeps
<1>4. HeldForAReason'
  <2>0. DOMAIN files' = Resolved(disk') \cup {q \in DOMAIN fs : Unsaved(fs[q])}
    BY <1>1, ReopenedKeeps
  <2>1. ASSUME NEW p \in DOMAIN files', p \notin DOMAIN listed'
        PROVE  Unsaved(files'[p])
    <3>1. p \in DOMAIN fs /\ Unsaved(fs[p])
      BY <1>2, <2>0, <2>1
    <3>2. files'[p] = fs[p]
      BY <1>1, <3>1, ReopenedKeeps
    <3>3. QED
      BY <3>1, <3>2
  <2>2. QED
    BY <2>1 DEF HeldForAReason
<1>5. /\ saving' \in [on : BOOLEAN, todo : SUBSET DOMAIN listed', path : Files \cup {0}, saw : Bytes]
      /\ saving'.path = 0
  BY DEF NotSaving, Bytes
<1>6. QED
  BY <1>2, <1>3, <1>4, <1>5 DEF IInv, TypeOK, Open, Quiet, CheckPassed

\* What changes listed files only, and neither the directory nor the list,
\* preserves it.
LEMMA EditingPreserves ==
  ASSUME IInv, Free, Open(files'), DOMAIN files' = DOMAIN files,
         \A p \in DOMAIN files \ DOMAIN listed : files'[p] = files[p],
         UNCHANGED <<disk, listed, saving>>
  PROVE  IInv'
<1>1. TypeOK'
  BY DEF IInv, TypeOK, Open
<1>2. HeldForAReason'
  BY DEF IInv, HeldForAReason
<1>3. saving' = NotSaving
  BY DEF IInv, Quiet, Free
<1>4. QED
  BY <1>1, <1>2, <1>3 DEF IInv, Quiet, CheckPassed, NotSaving

\* An open file replaced by a typed one.
LEMMA ReplacedIsOpen ==
  ASSUME NEW fs, Open(fs), NEW p, NEW f \in [cur : Definitions, snap : Machines]
  PROVE  /\ Open([fs EXCEPT ![p] = f])
         /\ DOMAIN [fs EXCEPT ![p] = f] = DOMAIN fs
         /\ \A q \in DOMAIN fs \ {p} : [fs EXCEPT ![p] = f][q] = fs[q]
BY DEF Open

\* Taking a file out of the table leaves the others.
LEMMA WithoutIsOpen ==
  ASSUME NEW fs, Open(fs), NEW p
  PROVE  /\ Open(Without(fs, p))
         /\ \A q \in DOMAIN fs \ {p} : q \in DOMAIN Without(fs, p) /\ Without(fs, p)[q] = fs[q]
BY DEF Open, Without

-----------------------------------------------------------------------------
(* The invariant *)

LEMMA InitEstablishes == Init => IInv
<1> SUFFICES ASSUME Init PROVE IInv
  OBVIOUS
<1>1. disk \in [Files -> Bytes]
  BY BytesAssumption DEF Init
<1>2. Open(<<>>)
  BY DEF Open
<1>3. files = Reopened(disk, <<>>) /\ listed = IdsIn(disk) /\ saving = NotSaving
  BY DEF Init
<1>4. /\ Open(files)
      /\ DOMAIN files = Resolved(disk) \cup {q \in DOMAIN <<>> : Unsaved(<<>>[q])}
      /\ listed \in [Resolved(disk) -> Files]
  BY <1>1, <1>2, <1>3, ReopenedKeeps
<1>5. DOMAIN files = DOMAIN listed
  BY <1>4
<1>6. /\ saving \in [on : BOOLEAN, todo : SUBSET DOMAIN listed, path : Files \cup {0}, saw : Bytes]
      /\ saving.path = 0
  BY <1>3 DEF NotSaving, Bytes
<1>7. QED
  BY <1>1, <1>3, <1>4, <1>5, <1>6 DEF IInv, TypeOK, Open, HeldForAReason, Quiet, CheckPassed

\* A listed file replaced.
LEMMA ReplacingPreserves ==
  ASSUME IInv, Free, NEW p \in DOMAIN listed, NEW f \in [cur : Definitions, snap : Machines],
         files' = [files EXCEPT ![p] = f], UNCHANGED <<disk, listed, saving>>
  PROVE  IInv'
<1>1. Open(files)
  BY DEF IInv, TypeOK, Open
<1>2. /\ Open(files') /\ DOMAIN files' = DOMAIN files
      /\ \A q \in DOMAIN files \ {p} : files'[q] = files[q]
  BY <1>1, ReplacedIsOpen
<1>3. QED
  BY <1>2, EditingPreserves

\* A file whose working value is replaced.
LEMMA NewValueIsTyped ==
  ASSUME NEW f \in [cur : Definitions, snap : Machines], NEW def \in Definitions
  PROVE  [f EXCEPT !.cur = def] \in [cur : Definitions, snap : Machines]
OBVIOUS

\* The editors of a listed file: contents, id, or what is on disk.
LEMMA EditorsPreserve ==
  ASSUME IInv, NEW p \in Files,
         \/ \E b \in Bodies : Edit(p, b)
         \/ \E i \in Files : RenameID(p, i)
         \/ ReloadOne(p)
  PROVE  IInv'
<1>1. Open(files) /\ disk \in [Files -> Bytes] /\ DOMAIN listed \subseteq DOMAIN files
  BY DEF IInv, TypeOK, Open
<1>2. p \in DOMAIN listed /\ Free /\ UNCHANGED <<disk, listed, saving>>
  BY DEF Edit, RenameID, ReloadOne
<1>3. files[p] \in [cur : Definitions, snap : Machines] /\ files[p].cur \in Definitions
  BY <1>1, <1>2 DEF Open
<1>4. files[p].cur.id \in Files /\ files[p].cur.body \in Bodies
  BY <1>3 DEF Definitions
<1>5. ASSUME NEW b \in Bodies, Edit(p, b) PROVE IInv'
  <2>1. [id |-> files[p].cur.id, body |-> b] \in Definitions
    BY <1>4 DEF Definitions
  <2> DEFINE f == [files[p] EXCEPT !.cur = [id |-> files[p].cur.id, body |-> b]]
  <2>2. f \in [cur : Definitions, snap : Machines]
    BY <1>3, <2>1, NewValueIsTyped
  <2>3. files' = [files EXCEPT ![p] = f]
    BY <1>5 DEF Edit
  <2> HIDE DEF f
  <2>4. QED
    BY <1>2, <2>2, <2>3, ReplacingPreserves
<1>6. ASSUME NEW i \in Files, RenameID(p, i) PROVE IInv'
  <2>1. [id |-> i, body |-> files[p].cur.body] \in Definitions
    BY <1>4 DEF Definitions
  <2> DEFINE f == [files[p] EXCEPT !.cur = [id |-> i, body |-> files[p].cur.body]]
  <2>2. f \in [cur : Definitions, snap : Machines]
    BY <1>3, <2>1, NewValueIsTyped
  <2>3. files' = [files EXCEPT ![p] = f]
    BY <1>6 DEF RenameID
  <2> HIDE DEF f
  <2>4. QED
    BY <1>2, <2>2, <2>3, ReplacingPreserves
<1>7. ASSUME ReloadOne(p) PROVE IInv'
  <2>1. Opened(disk[p]) \in [cur : Definitions, snap : Machines]
    BY <1>1, <1>7, OpenedIsTyped DEF ReloadOne
  <2>2. files' = [files EXCEPT ![p] = Opened(disk[p])]
    BY <1>7 DEF ReloadOne
  <2>3. QED
    BY <1>2, <2>1, <2>2, ReplacingPreserves
<1>8. QED
  BY <1>5, <1>6, <1>7

LEMMA DiscardAllPreserves == ASSUME IInv, DiscardAll PROVE IInv'
<1>1. Open(files) /\ DOMAIN listed \subseteq DOMAIN files
  BY DEF IInv, TypeOK, Open
<1>2. ASSUME NEW q \in DOMAIN files PROVE Opened(files[q].snap) \in [cur : Definitions, snap : Machines]
  <2>1. files[q].snap \in Machines
    BY <1>1, <1>2 DEF Open
  <2>2. QED
    BY <2>1, MachinesParse, OpenedIsTyped
<1>3. DOMAIN files' = DOMAIN files /\ Open(files')
  BY <1>1, <1>2 DEF DiscardAll, Open
<1>4. QED
  BY <1>1, <1>3, EditingPreserves DEF DiscardAll

\* The steps of a Save.
LEMMA SavingPreserves ==
  ASSUME IInv, NEW p \in Files, SaveBegins \/ Check(p) \/ Write(p)
  PROVE  IInv'
<1>1. /\ Open(files) /\ disk \in [Files -> Bytes]
      /\ DOMAIN listed \subseteq DOMAIN files
      /\ saving \in [on : BOOLEAN, todo : SUBSET DOMAIN listed, path : Files \cup {0}, saw : Bytes]
      /\ saving.path \in saving.todo \cup {0}
  BY DEF IInv, TypeOK, Open
<1>2. Gone \in Bytes /\ 0 \notin Files
  BY DEF Bytes, Files
<1>3. CASE SaveBegins
  <2>1. /\ saving' = [on |-> TRUE, path |-> 0, saw |-> Gone,
                      todo |-> {q \in DOMAIN listed : Unsaved(files[q]) /\ ~ReformatOnly(files[q])}]
        /\ UNCHANGED <<disk, files, listed>>
    BY <1>3 DEF SaveBegins, NotSaving
  <2>2. QED
    BY <1>2, <2>1 DEF IInv, TypeOK, HeldForAReason, Quiet, CheckPassed
<1>4. CASE Check(p)
  <2>1. p \in saving.todo /\ saving.on /\ UNCHANGED <<disk, files, listed>>
    BY <1>4 DEF Check, IsNext, IInv, Quiet, NotSaving
  <2>2. CASE saving' = [saving EXCEPT !.path = p, !.saw = disk[p]] /\ disk[p] \in {Gone, files[p].snap}
    <3>1. saving' = [on |-> saving.on, todo |-> saving.todo, path |-> p, saw |-> disk[p]]
      BY <1>1, <2>2
    <3>2. QED
      BY <1>1, <2>1, <2>2, <3>1 DEF IInv, TypeOK, HeldForAReason, Quiet, CheckPassed
  <2>3. CASE saving' = Skipped(p)
    <3>1. saving' = [on |-> saving.on, todo |-> saving.todo \ {p}, path |-> 0, saw |-> Gone]
      BY <1>1, <2>3 DEF Skipped
    <3>2. QED
      BY <1>1, <1>2, <2>1, <3>1 DEF IInv, TypeOK, HeldForAReason, Quiet, CheckPassed
  <2>4. QED
    BY <1>4, <2>2, <2>3 DEF Check, Unchanged
<1>5. CASE Write(p)
  <2>1. p = saving.path /\ p \in saving.todo /\ saving.on /\ UNCHANGED listed
    BY <1>1, <1>2, <1>5 DEF Write, IInv, Quiet, NotSaving
  <2>2. saving' = [on |-> saving.on, todo |-> saving.todo \ {p}, path |-> 0, saw |-> Gone]
    BY <1>1, <1>5 DEF Write, Skipped
  <2>3. p \in DOMAIN files /\ p \in DOMAIN listed /\ files[p] \in [cur : Definitions, snap : Machines]
    BY <1>1, <2>1 DEF Open
  <2>4. disk' \in [Files -> Bytes]
    <3>1. Emit(files[p].cur) \in Bytes
      BY <2>3, EmitIsMachine, MachinesParse
    <3>2. QED
      BY <1>1, <1>5, <3>1 DEF Write
  <2>5. Open(files') /\ DOMAIN files' = DOMAIN files /\ \A q \in DOMAIN files \ {p} : files'[q] = files[q]
    <3>1. Written(files[p]) \in [cur : Definitions, snap : Machines]
      BY <2>3, WrittenIsTyped
    <3>2. files' = files \/ files' = [files EXCEPT ![p] = Written(files[p])]
      BY <1>5 DEF Write
    <3>3. QED
      BY <1>1, <3>1, <3>2, ReplacedIsOpen
  <2>6. TypeOK'
    BY <1>1, <1>2, <2>1, <2>2, <2>4, <2>5 DEF IInv, TypeOK, Open
  <2>7. HeldForAReason'
    BY <2>1, <2>3, <2>5 DEF IInv, HeldForAReason
  <2>8. QED
    BY <2>1, <2>2, <2>6, <2>7 DEF IInv, Quiet, CheckPassed
<1>6. QED
  BY <1>3, <1>4, <1>5

\* The tables the re-resolving operations start from are typed.
LEMMA TablesAreOpen ==
  ASSUME IInv, NEW p \in Files
  PROVE  /\ Open(files)
         /\ p \in DOMAIN files => /\ Open([files EXCEPT ![p] = Written(@)])
                                 /\ Open([files EXCEPT ![p] = Opened(@.snap)])
         /\ Open([q \in {r \in DOMAIN files : Parses(disk[r])} |-> Opened(disk[q])])
<1>1. Open(files) /\ disk \in [Files -> Bytes]
  BY DEF IInv, TypeOK, Open
<1>2. ASSUME p \in DOMAIN files
      PROVE  /\ Open([files EXCEPT ![p] = Written(@)])
             /\ Open([files EXCEPT ![p] = Opened(@.snap)])
  <2>1. files[p] \in [cur : Definitions, snap : Machines] /\ files[p].snap \in Machines
    BY <1>1, <1>2 DEF Open
  <2>2. Written(files[p]) \in [cur : Definitions, snap : Machines]
    BY <2>1, WrittenIsTyped
  <2>3. Opened(files[p].snap) \in [cur : Definitions, snap : Machines]
    BY <2>1, MachinesParse, OpenedIsTyped
  <2>4. QED
    BY <1>1, <2>2, <2>3, ReplacedIsOpen
<1>3. ASSUME NEW q \in DOMAIN files, Parses(disk[q])
      PROVE  Opened(disk[q]) \in [cur : Definitions, snap : Machines]
  <2>1. disk[q] \in Bytes
    BY <1>1 DEF Open
  <2>2. QED
    BY <1>3, <2>1, OpenedIsTyped
<1>4. QED
  BY <1>1, <1>2, <1>3 DEF Open

\* The operations that end in a re-resolve.
LEMMA ReloadingPreserves ==
  ASSUME IInv, NEW p \in Files,
         \/ Create(p) \/ (\E q \in Files : RenameFile(p, q)) \/ Delete(p)
         \/ SaveEnds \/ SaveOverwriting(p) \/ Discard(p) \/ ReloadAll
  PROVE  IInv'
<1>1. /\ Open(files) /\ disk \in [Files -> Bytes] /\ DOMAIN listed \subseteq DOMAIN files
      /\ Gone \in Bytes
  BY DEF IInv, TypeOK, Open, Bytes
<1>2. Free => saving = NotSaving
  BY DEF IInv, Quiet, Free
<1>3. CASE Create(p)
  <2>1. Emit([id |-> p, body |-> NewBody]) \in Bytes
    <3>1. [id |-> p, body |-> NewBody] \in Definitions
      BY BodiesAssumption DEF Definitions
    <3>2. QED
      BY <3>1, EmitIsMachine, MachinesParse
  <2>2. disk' \in [Files -> Bytes] /\ saving' = NotSaving /\ Reload(files)
    BY <1>1, <1>2, <1>3, <2>1 DEF Create
  <2>3. QED
    BY <1>1, <2>2, ReloadEstablishes
<1>4. CASE \E q \in Files : RenameFile(p, q)
  <2>1. disk' \in [Files -> Bytes] /\ saving' = NotSaving /\ Reload(Without(files, p))
    BY <1>1, <1>2, <1>4 DEF RenameFile
  <2>2. QED
    BY <1>1, <2>1, WithoutIsOpen, ReloadEstablishes
<1>5. CASE Delete(p)
  <2>1. disk' \in [Files -> Bytes] /\ saving' = NotSaving /\ Reload(Without(files, p))
    BY <1>1, <1>2, <1>5 DEF Delete
  <2>2. QED
    BY <1>1, <2>1, WithoutIsOpen, ReloadEstablishes
<1>6. CASE SaveEnds
  BY <1>1, <1>6, ReloadEstablishes DEF SaveEnds
<1>7. CASE SaveOverwriting(p)
  <2>1. p \in DOMAIN files /\ files[p].cur \in Definitions
    BY <1>1, <1>7 DEF SaveOverwriting, Open
  <2>2. Emit(files[p].cur) \in Bytes
    BY <2>1, EmitIsMachine, MachinesParse
  <2>3. /\ disk' \in [Files -> Bytes] /\ saving' = NotSaving
        /\ Reload([files EXCEPT ![p] = Written(@)])
    BY <1>1, <1>2, <1>7, <2>2 DEF SaveOverwriting
  <2>4. QED
    BY <2>1, <2>3, TablesAreOpen, ReloadEstablishes
<1>8. CASE Discard(p)
  <2>1. /\ p \in DOMAIN files /\ disk' \in [Files -> Bytes] /\ saving' = NotSaving
        /\ Reload([files EXCEPT ![p] = Opened(@.snap)])
    BY <1>1, <1>2, <1>8 DEF Discard
  <2>2. QED
    BY <2>1, TablesAreOpen, ReloadEstablishes
<1>9. CASE ReloadAll
  <2>1. /\ disk' \in [Files -> Bytes] /\ saving' = NotSaving
        /\ Reload([q \in {r \in DOMAIN files : Parses(disk[r])} |-> Opened(disk[q])])
    BY <1>1, <1>2, <1>9 DEF ReloadAll
  <2>2. QED
    BY <2>1, TablesAreOpen, ReloadEstablishes
<1>10. QED
  BY <1>3, <1>4, <1>5, <1>6, <1>7, <1>8, <1>9

\* Somebody else changes the directory only.
LEMMA OutsidePreserves ==
  ASSUME IInv, NEW p \in Files, NEW b \in Bytes, Outside(p, b)
  PROVE  IInv'
<1>1. disk' \in [Files -> Bytes] /\ UNCHANGED <<files, listed, saving>>
  BY DEF IInv, TypeOK, Outside
<1>2. QED
  BY <1>1 DEF IInv, TypeOK, HeldForAReason, Quiet, CheckPassed

LEMMA NextPreserves == IInv /\ [Next]_vars => IInv'
<1> SUFFICES ASSUME IInv, [Next]_vars PROVE IInv'
  OBVIOUS
<1>1. CASE UNCHANGED vars
  BY <1>1 DEF vars, IInv, TypeOK, HeldForAReason, Quiet, CheckPassed
<1>2. ASSUME NEW p \in Files, NEW b \in Bodies, Edit(p, b) PROVE IInv'
  BY <1>2, EditorsPreserve
<1>3. ASSUME NEW p \in Files, NEW i \in Files, RenameID(p, i) PROVE IInv'
  BY <1>3, EditorsPreserve
<1>4. ASSUME NEW p \in Files, ReloadOne(p) PROVE IInv'
  BY <1>4, EditorsPreserve
<1>5. CASE DiscardAll
  BY <1>5, DiscardAllPreserves
<1>6. ASSUME NEW p \in Files, Check(p) \/ Write(p) PROVE IInv'
  BY <1>6, SavingPreserves
<1>7. ASSUME NEW p \in Files,
             \/ Create(p) \/ (\E q \in Files : RenameFile(p, q)) \/ Delete(p)
             \/ SaveOverwriting(p) \/ Discard(p)
      PROVE  IInv'
  BY <1>7, ReloadingPreserves
<1>8. ASSUME NEW p \in Files, NEW b \in Bytes, Outside(p, b) PROVE IInv'
  BY <1>8, OutsidePreserves
<1>9. 1 \in Files
  BY FilesAssumption DEF Files
<1>10. CASE SaveBegins
  BY <1>9, <1>10, SavingPreserves
<1>11. CASE SaveEnds \/ ReloadAll
  BY <1>9, <1>11, ReloadingPreserves
<1>12. QED
  BY <1>1, <1>2, <1>3, <1>4, <1>5, <1>6, <1>7, <1>8, <1>10, <1>11 DEF Next

-----------------------------------------------------------------------------
(* Invariants *)

THEOREM InvariantHolds == Spec => []IInv
<1>1. Init => IInv
  BY InitEstablishes
<1>2. IInv /\ [Next]_vars => IInv'
  BY NextPreserves
<1>3. QED
  BY <1>1, <1>2, PTL DEF Spec

\* Whatever somebody else does to the directory, the tables of the session stay
\* consistent: what is listed is open, and a Save only works on what is listed.
THEOREM TypeCorrect == Spec => []TypeOK
<1>1. IInv => TypeOK
  BY DEF IInv
<1>2. QED
  BY <1>1, InvariantHolds, PTL

\* No file stays in the session that is neither listed nor carries unsaved work.
THEOREM HeldOnlyForAReason == Spec => []HeldForAReason
<1>1. IInv => HeldForAReason
  BY DEF IInv
<1>2. QED
  BY <1>1, InvariantHolds, PTL

-----------------------------------------------------------------------------
(* Nobody's work is lost *)

\* A re-resolve from a table that has the file keeps its unsaved work.
LEMMA ReloadKeeps ==
  ASSUME NEW fs, Open(fs), disk' \in [Files -> Bytes], Reload(fs),
         NEW p \in DOMAIN fs, Unsaved(fs[p])
  PROVE  p \in DOMAIN files' /\ files'[p] = fs[p]
<1>1. files' = Reopened(disk', fs)
  BY DEF Reload
<1>2. QED
  BY <1>1, ReopenedKeeps

\* Unsaved work on a machine survives every step until it is on disk or an
\* operation that names the machine, or all machines, gives it up.
THEOREM UnsavedWorkIsKept == Spec => WorkIsKept
<1> DEFINE Kept(p) == p \in DOMAIN files' /\ files'[p].cur = files[p].cur
           GivenUp(p) == \/ \E b \in Bodies : Edit(p, b)
                         \/ \E i \in Files : RenameID(p, i)
                         \/ Discard(p) \/ DiscardAll
                         \/ ReloadOne(p) \/ ReloadAll
<1>1. ASSUME IInv, IInv', Next, NEW p \in DOMAIN files, Unsaved(files[p])
      PROVE  Kept(p) \/ disk'[p] = Emit(files[p].cur) \/ GivenUp(p)
  <2>1. Open(files) /\ disk \in [Files -> Bytes] /\ disk' \in [Files -> Bytes] /\ p \in Files
    BY <1>1 DEF IInv, TypeOK, Open
  <2>2. ASSUME NEW q \in Files,
               \/ \E b \in Bodies : Edit(q, b)
               \/ \E i \in Files : RenameID(q, i)
               \/ ReloadOne(q)
        PROVE  Kept(p) \/ GivenUp(p)
    BY <2>1, <2>2 DEF Edit, RenameID, ReloadOne, Open
  <2>3. ASSUME Create(p) \/ \E q \in Files : Create(q) PROVE Kept(p)
    <3>1. Reload(files)
      BY <2>3 DEF Create
    <3>2. QED
      BY <1>1, <2>1, <3>1, ReloadKeeps
  <2>4. ASSUME NEW q \in Files, Delete(q) \/ \E r \in Files : RenameFile(q, r) PROVE Kept(p)
    <3>1. Reload(Without(files, q)) /\ ~Unsaved(files[q])
      BY <2>4 DEF Delete, RenameFile
    <3>2. Open(Without(files, q)) /\ p \in DOMAIN Without(files, q) /\ Without(files, q)[p] = files[p]
      BY <1>1, <2>1, <3>1, WithoutIsOpen
    <3>3. QED
      BY <1>1, <2>1, <3>1, <3>2, ReloadKeeps
  <2>5. ASSUME SaveBegins \/ \E q \in Files : Check(q) \/ \E b \in Bytes : Outside(q, b) PROVE Kept(p)
    BY <2>5 DEF SaveBegins, Check, Outside
  <2>6. ASSUME NEW q \in Files, Write(q) PROVE Kept(p)
    BY <2>1, <2>6 DEF Write, Written, Open
  <2>7. ASSUME SaveEnds PROVE Kept(p)
    BY <1>1, <2>1, <2>7, ReloadKeeps DEF SaveEnds
  <2>8. ASSUME NEW q \in Files, SaveOverwriting(q) PROVE Kept(p) \/ disk'[p] = Emit(files[p].cur)
    <3>1. CASE q = p
      BY <1>1, <2>1, <2>8, <3>1 DEF SaveOverwriting
    <3>2. CASE q # p
      <4>1. Reload([files EXCEPT ![q] = Written(@)]) /\ q \in DOMAIN files
        BY <1>1, <2>8 DEF SaveOverwriting, IInv, TypeOK
      <4>2. Open([files EXCEPT ![q] = Written(@)]) /\ [files EXCEPT ![q] = Written(@)][p] = files[p]
        BY <1>1, <2>1, <3>2, <4>1, TablesAreOpen
      <4>3. QED
        BY <1>1, <2>1, <4>1, <4>2, ReloadKeeps
    <3>3. QED
      BY <3>1, <3>2
  <2>9. ASSUME NEW q \in Files, Discard(q) PROVE Kept(p) \/ GivenUp(p)
    <3>1. CASE q # p
      <4>1. Reload([files EXCEPT ![q] = Opened(@.snap)]) /\ q \in DOMAIN files
        BY <2>9 DEF Discard
      <4>2. Open([files EXCEPT ![q] = Opened(@.snap)]) /\ [files EXCEPT ![q] = Opened(@.snap)][p] = files[p]
        BY <1>1, <2>1, <3>1, <4>1, TablesAreOpen
      <4>3. QED
        BY <1>1, <2>1, <4>1, <4>2, ReloadKeeps
    <3>2. QED
      BY <2>9, <3>1
  <2>10. QED
    BY <1>1, <2>2, <2>3, <2>4, <2>5, <2>6, <2>7, <2>8, <2>9 DEF Next
<1>2. IInv /\ IInv' /\ [Next]_vars =>
        [\A p \in DOMAIN files : Unsaved(files[p]) =>
           \/ p \in DOMAIN files' /\ files'[p].cur = files[p].cur
           \/ disk'[p] = Emit(files[p].cur)
           \/ \E b \in Bodies : Edit(p, b)
           \/ \E i \in Files : RenameID(p, i)
           \/ Discard(p) \/ DiscardAll
           \/ ReloadOne(p) \/ ReloadAll]_vars
  BY <1>1
<1>3. QED
  BY <1>2, InvariantHolds, PTL DEF Spec, WorkIsKept

\* What somebody else wrote and the session never read is overwritten only where
\* the user asks for it, or behind a check that had passed.
THEOREM TheirWorkIsKept == Spec => TheirsAreKept
<1>1. ASSUME IInv, Next, NEW p \in Files, disk[p] # Gone, disk'[p] # disk[p]
      PROVE  \/ \E b \in Bytes : Outside(p, b)
             \/ p \in DOMAIN files /\ disk[p] = files[p].snap
             \/ p = saving.path /\ disk[p] # saving.saw
             \/ SaveOverwriting(p) \/ Delete(p)
             \/ \E q \in Files : RenameFile(p, q)
  <2>1. disk \in [Files -> Bytes]
    BY <1>1 DEF IInv, TypeOK
  <2>2. ASSUME NEW q \in Files, Create(q) PROVE FALSE
    BY <1>1, <2>1, <2>2 DEF Create
  <2>3. ASSUME NEW q \in Files, NEW r \in Files, RenameFile(q, r) PROVE RenameFile(p, r)
    BY <1>1, <2>1, <2>3 DEF RenameFile
  <2>4. ASSUME NEW q \in Files, Delete(q) \/ SaveOverwriting(q) PROVE Delete(p) \/ SaveOverwriting(p)
    BY <1>1, <2>1, <2>4 DEF Delete, SaveOverwriting
  <2>5. ASSUME NEW q \in Files, Write(q)
        PROVE  (p \in DOMAIN files /\ disk[p] = files[p].snap) \/ (p = saving.path /\ disk[p] # saving.saw)
    <3>1. p = q /\ p = saving.path /\ p # 0
      BY <1>1, <2>1, <2>5 DEF Write
    <3>2. saving.saw \in {Gone, files[p].snap} /\ p \in DOMAIN files
      BY <1>1, <3>1 DEF IInv, TypeOK, CheckPassed
    <3>3. QED
      BY <1>1, <3>1, <3>2
  <2>6. ASSUME NEW q \in Files, NEW b \in Bytes, Outside(q, b) PROVE Outside(p, b)
    BY <1>1, <2>1, <2>6 DEF Outside
  <2>7. ASSUME \/ \E q \in Files : \/ \E b \in Bodies : Edit(q, b)
                                  \/ \E i \in Files : RenameID(q, i)
                                  \/ Check(q) \/ Discard(q) \/ ReloadOne(q)
               \/ SaveBegins \/ SaveEnds \/ DiscardAll \/ ReloadAll
        PROVE  FALSE
    BY <1>1, <2>7 DEF Edit, RenameID, Check, Discard, ReloadOne, SaveBegins, SaveEnds, DiscardAll, ReloadAll
  <2>8. QED
    BY <1>1, <2>2, <2>3, <2>4, <2>5, <2>6, <2>7 DEF Next
<1>2. IInv /\ [Next]_vars =>
        [\A p \in Files : disk[p] # Gone /\ disk'[p] # disk[p] =>
           \/ \E b \in Bytes : Outside(p, b)
           \/ p \in DOMAIN files /\ disk[p] = files[p].snap
           \/ p = saving.path /\ disk[p] # saving.saw
           \/ SaveOverwriting(p) \/ Delete(p)
           \/ \E q \in Files : RenameFile(p, q)]_vars
  BY <1>1
<1>3. QED
  BY <1>2, InvariantHolds, PTL DEF Spec, TheirsAreKept
=============================================================================
