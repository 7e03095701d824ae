---------------------------- MODULE MachineFiles -----------------------------
(***************************************************************************)
(* Forge's editing session on the behavior files of a mod: editable.File   *)
(* for each machine, machines.Session over them, and somebody else -- an   *)
(* editor, a git checkout -- who changes the same directory at any moment. *)
(*                                                                         *)
(* File i is <i>.json, the file Create makes for the machine with id i;    *)
(* their order is that of the directory, in which the last file of an id   *)
(* is the one that loads.  A file is Gone, Garbage (not a machine at all)  *)
(* or a record [id, body, own]: the machine's id, the rest of it, and      *)
(* whether its layout is the emitter's own.                                *)
(*                                                                         *)
(* Every operation of the session holds its mutex to the end.  Save is     *)
(* taken apart, because the directory does not know the mutex: between the *)
(* conflict check of a file and its rename, somebody else may write.       *)
(***************************************************************************)
EXTENDS Integers, FiniteSets

CONSTANTS NumFiles,
          Bodies, BadBodies,   \* contents, and those ValidateMachine refuses
          NewBody,             \* what Create writes
          Gone, Garbage,
          Disks,               \* the directories Forge may be started on
          MaxOutside           \* bound: changes by somebody else

Files == 1..NumFiles
Definitions == [id : Files, body : Bodies]
Machines == [id : Files, body : Bodies, own : BOOLEAN]
Bytes == Machines \cup {Gone, Garbage}

ASSUME FilesAssumption == NumFiles \in Nat \ {0} /\ MaxOutside \in Nat
ASSUME BodiesAssumption == BadBodies \subseteq Bodies /\ NewBody \in Bodies \ BadBodies
ASSUME BytesAssumption ==
  /\ Disks \subseteq [Files -> Bytes]
  /\ {Gone, Garbage} \cap Machines = {}

VARIABLES disk,      \* the directory
          files,     \* Session.files: path -> editable.File [cur, snap]
          listed,    \* Session.order and machines: path -> id as resolved
          saving,    \* how far a Save has come: todo, the file whose check
                     \* passed, and what the check read
          outside    \* changes by somebody else so far

vars == <<disk, files, listed, saving, outside>>

-----------------------------------------------------------------------------
(* editable.File *)

\* EmitMachine and ParseMachine.
Emit(def) == [id |-> def.id, body |-> def.body, own |-> TRUE]
Parse(bytes) == [id |-> bytes.id, body |-> bytes.body]
Parses(bytes) == bytes \notin {Gone, Garbage}
Valid(def) == def.body \notin BadBodies

Opened(bytes) == [cur |-> Parse(bytes), snap |-> bytes]

\* Dirty: the working value against the bytes last read or written.
Unsaved(f) == Emit(f.cur) # f.snap

\* The difference is one of layout only.
ReformatOnly(f) == Parse(f.snap) = f.cur

\* The file once its working value has been written.
Written(f) == [cur |-> f.cur, snap |-> Emit(f.cur)]

-----------------------------------------------------------------------------
(* Resolving *)

\* ScanDir: of the files that load with one id, the last.
Resolved(d) ==
  {p \in Files : /\ Parses(d[p]) /\ Valid(d[p])
                 /\ \A q \in Files : q > p /\ Parses(d[q]) /\ Valid(d[q]) => d[q].id # d[p].id}
IdsIn(d) == [p \in Resolved(d) |-> d[p].id]

\* Faulty variant: what does not resolve any more is dropped.
ReopenedResolved(d, fs) ==
  [p \in Resolved(d) |-> IF p \in DOMAIN fs THEN fs[p] ELSE Opened(d[p])]

\* reload: files already open are kept as they are, and so is unsaved work on a
\* file that no longer resolves.
Reopened(d, fs) ==
  [p \in Resolved(d) \cup {q \in DOMAIN fs : Unsaved(fs[q])} |->
     IF p \in DOMAIN fs THEN fs[p] ELSE Opened(d[p])]

Reload(fs) == files' = Reopened(disk', fs) /\ listed' = IdsIn(disk')

Without(fs, p) == [q \in DOMAIN fs \ {p} |-> fs[q]]

NotSaving == [on |-> FALSE, todo |-> {}, path |-> 0, saw |-> Gone]
Free == ~saving.on

Init ==
  /\ disk \in Disks
  /\ files = Reopened(disk, <<>>) /\ listed = IdsIn(disk)
  /\ saving = NotSaving /\ outside = 0

-----------------------------------------------------------------------------
(* Editing *)

\* Every editor of states, transitions and actions: a working value of another
\* content, valid or not, with the same id.
Edit(p, b) ==
  /\ Free /\ p \in DOMAIN listed
  /\ files' = [files EXCEPT ![p].cur = [id |-> @.id, body |-> b]]
  /\ UNCHANGED <<disk, listed, saving, outside>>

\* RenameID asks the resolved set whether the id is taken.
RenameID(p, i) ==
  /\ Free /\ p \in DOMAIN listed
  /\ \A q \in DOMAIN listed : listed[q] = i => q = p
  /\ files' = [files EXCEPT ![p].cur = [id |-> i, body |-> @.body]]
  /\ UNCHANGED <<disk, listed, saving, outside>>

-----------------------------------------------------------------------------
(* Creating, moving and deleting files *)

\* Create asks the files whether the id is taken.
Create(i) ==
  /\ Free
  /\ \A p \in Files : Parses(disk[p]) => disk[p].id # i
  /\ disk[i] = Gone
  /\ disk' = [disk EXCEPT ![i] = Emit([id |-> i, body |-> NewBody])]
  /\ Reload(files)
  /\ UNCHANGED <<saving, outside>>

RenameFile(p, q) ==
  /\ Free /\ p \in DOMAIN listed /\ q # p
  /\ disk[q] = Gone /\ disk[p] # Gone
  /\ ~Unsaved(files[p])
  /\ disk' = [disk EXCEPT ![q] = disk[p], ![p] = Gone]
  /\ Reload(Without(files, p))
  /\ UNCHANGED <<saving, outside>>

Delete(p) ==
  /\ Free /\ p \in DOMAIN listed
  /\ disk[p] # Gone
  /\ ~Unsaved(files[p])
  /\ disk' = [disk EXCEPT ![p] = Gone]
  /\ Reload(Without(files, p))
  /\ UNCHANGED <<saving, outside>>

-----------------------------------------------------------------------------
(* Saving *)

\* Save: every listed machine with unsaved work, unless only its layout differs.
SaveBegins ==
  /\ Free
  /\ saving' = [NotSaving EXCEPT !.on = TRUE,
       !.todo = {p \in DOMAIN listed : Unsaved(files[p]) /\ ~ReformatOnly(files[p])}]
  /\ UNCHANGED <<disk, files, listed, outside>>

\* The files are saved in the order of their resolved ids.
IsNext(p) ==
  saving.path = 0 /\ p \in saving.todo /\ \A q \in saving.todo : listed[p] <= listed[q]

Skipped(p) == [saving EXCEPT !.todo = @ \ {p}, !.path = 0, !.saw = Gone]

\* The file is what was last read; one that is gone does not count as changed.
Unchanged(p) == disk[p] \in {Gone, files[p].snap}

\* Faulty variant: whatever is on disk is overwritten.
CheckValidOnly(p) ==
  /\ IsNext(p)
  /\ saving' = IF Valid(files[p].cur) THEN [saving EXCEPT !.path = p, !.saw = disk[p]] ELSE Skipped(p)
  /\ UNCHANGED <<disk, files, listed, outside>>

\* File.Save up to the write: refused when invalid, then when the file changed.
Check(p) ==
  /\ IsNext(p)
  /\ saving' = IF Valid(files[p].cur) /\ Unchanged(p)
               THEN [saving EXCEPT !.path = p, !.saw = disk[p]] ELSE Skipped(p)
  /\ UNCHANGED <<disk, files, listed, outside>>

\* The rest: the rename, and after it the snapshot.  When writing fails nothing
\* has changed.
Write(p) ==
  /\ p = saving.path /\ p # 0
  /\ saving' = Skipped(p)
  /\ \/ disk' = [disk EXCEPT ![p] = Emit(files[p].cur)] /\ files' = [files EXCEPT ![p] = Written(@)]
     \/ UNCHANGED <<disk, files>>
  /\ UNCHANGED <<listed, outside>>

SaveEnds ==
  /\ saving.on /\ saving.todo = {}
  /\ saving' = NotSaving
  /\ UNCHANGED <<disk, outside>>
  /\ Reload(files)

\* "Keep mine": no conflict check, but the same test for nothing to write.
SaveOverwriting(p) ==
  /\ Free /\ p \in DOMAIN listed
  /\ Valid(files[p].cur)
  /\ disk' = IF Unsaved(files[p]) THEN [disk EXCEPT ![p] = Emit(files[p].cur)] ELSE disk
  /\ Reload([files EXCEPT ![p] = Written(@)])
  /\ UNCHANGED <<saving, outside>>

-----------------------------------------------------------------------------
(* Giving work up *)

\* Discard is the one thing to do with a machine that is held but not listed.
Discard(p) ==
  /\ Free /\ p \in DOMAIN files
  /\ UNCHANGED <<disk, saving, outside>>
  /\ Reload([files EXCEPT ![p] = Opened(@.snap)])

DiscardAll ==
  /\ Free
  /\ files' = [p \in DOMAIN files |-> IF p \in DOMAIN listed THEN Opened(files[p].snap) ELSE files[p]]
  /\ UNCHANGED <<disk, listed, saving, outside>>

\* "Take theirs".
ReloadOne(p) ==
  /\ Free /\ p \in DOMAIN listed
  /\ Parses(disk[p])
  /\ files' = [files EXCEPT ![p] = Opened(disk[p])]
  /\ UNCHANGED <<disk, listed, saving, outside>>

ReloadAll ==
  /\ Free
  /\ UNCHANGED <<disk, saving, outside>>
  /\ Reload([p \in {q \in DOMAIN files : Parses(disk[q])} |-> Opened(disk[p])])

-----------------------------------------------------------------------------
\* Somebody else writes, breaks, adds or removes a file.
Outside(p, b) ==
  /\ outside < MaxOutside /\ b # disk[p]
  /\ outside' = outside + 1
  /\ disk' = [disk EXCEPT ![p] = b]
  /\ UNCHANGED <<files, listed, saving>>

Next ==
  \/ \E p \in Files, b \in Bodies : Edit(p, b)
  \/ \E p \in Files, i \in Files : RenameID(p, i)
  \/ \E i \in Files : Create(i)
  \/ \E p, q \in Files : RenameFile(p, q)
  \/ \E p \in Files : Delete(p)
  \/ SaveBegins
  \/ \E p \in Files : Check(p)
  \/ \E p \in Files : Write(p)
  \/ SaveEnds
  \/ \E p \in Files : SaveOverwriting(p)
  \/ \E p \in Files : Discard(p)
  \/ DiscardAll
  \/ \E p \in Files : ReloadOne(p)
  \/ ReloadAll
  \/ \E p \in Files, b \in Bytes : Outside(p, b)

Spec == Init /\ [][Next]_vars

-----------------------------------------------------------------------------
\* Types; what is listed is open, and what a Save has still to do is listed.
TypeOK ==
  /\ disk \in [Files -> Bytes]
  /\ DOMAIN files \subseteq Files
  /\ files \in [DOMAIN files -> [cur : Definitions, snap : Machines]]
  /\ DOMAIN listed \subseteq DOMAIN files
  /\ listed \in [DOMAIN listed -> Files]
  /\ saving \in [on : BOOLEAN, todo : SUBSET DOMAIN listed, path : Files \cup {0}, saw : Bytes]
  /\ saving.path \in saving.todo \cup {0}

\* Whatever happens to the directory and to other machines, unsaved work on a
\* machine is kept until it is on disk, or until an operation that names the
\* machine, or all machines, gives it up.
WorkIsKept ==
  [][\A p \in DOMAIN files : Unsaved(files[p]) =>
       \/ p \in DOMAIN files' /\ files'[p].cur = files[p].cur
       \/ disk'[p] = Emit(files[p].cur)
       \/ \E b \in Bodies : Edit(p, b)
       \/ \E i \in Files : RenameID(p, i)
       \/ Discard(p) \/ DiscardAll
       \/ ReloadOne(p) \/ ReloadAll]_vars

\* What somebody else wrote and Forge has not read is only overwritten when the
\* user says so, or when it was written behind a check that had passed.
TheirsAreKept ==
  [][\A p \in Files : disk[p] # Gone /\ disk'[p] # disk[p] =>
       \/ \E b \in Bytes : Outside(p, b)
       \/ p \in DOMAIN files /\ disk[p] = files[p].snap
       \/ p = saving.path /\ disk[p] # saving.saw
       \/ SaveOverwriting(p) \/ Delete(p)
       \/ \E q \in Files : RenameFile(p, q)]_vars

\* A file the session holds is one it lists or one that has unsaved work: giving
\* that work up lets go of it.
HeldForAReason == \A p \in DOMAIN files : p \in DOMAIN listed \/ Unsaved(files[p])
=============================================================================
