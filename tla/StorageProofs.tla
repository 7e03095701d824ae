-------------------------- MODULE StorageProofs --------------------------
(***************************************************************************)
(* What is in the database belongs together, for every schema, every caller *)
(* and any number of commits and kills.                                    *)
(*                                                                         *)
(* Between two starts everything that is committed comes from one whole    *)
(* database and leaves another, so each write is shown to keep Whole.  A   *)
(* caller's checks are of an earlier moment: they still count at its write *)
(* because an id is never given again and a type never changes (Aged), and *)
(* those of a tick because one that is not stale has seen the machines     *)
(* there are.                                                              *)
(***************************************************************************)
EXTENDS DatabaseOpen, EntityService, FiniteSetTheorems, NaturalsInduction,
        WellFoundedInduction, TLAPS

-----------------------------------------------------------------------------
(* The inductive invariant *)

Fields == {"type", "rows", "machines", "queue", "spawns", "next", "bare"}
Shaped(d) ==
  /\ DOMAIN d = Fields
  /\ d.next \in Nat \ {0} /\ Live(d) \cup d.bare \subseteq 1..(d.next - 1)
  /\ \A x \in DOMAIN d.rows : x = <<x[1], x[2]>>
Whole(d) == Shaped(d) /\ RowsAreSound(d) /\ ContractsHold(d) /\ d.machines \cup d.queue \subseteq Live(d)

Checked(ty, c, op) ==
  /\ op = "attach" => (Contracts[ty].strict => AllowedOn(ty, c))
  /\ op = "detach" => c \notin Contracts[ty].required

\* What a caller has been told still holds when it writes, if the entity is there.
CallHolds(d, call) ==
  /\ "at" \in DOMAIN call
  /\ call.at \in {"typed", "checked"} =>
       /\ call.ent \in 1..(d.next - 1)
       /\ call.ent \in Live(d) => d.type[call.ent] = call.type
  /\ call.at = "typed" => call.op = "attach"
  /\ call.at = "checked" => Checked(call.type, call.comp, call.op)

TickHolds(d, t, up) ==
  /\ DOMAIN t = {"open", "seen", "stale"}
  /\ t.open \in BOOLEAN /\ t.stale \in BOOLEAN
  /\ t.open => up
  /\ t.open /\ ~t.stale => t.seen \subseteq d.machines

IInv ==
  /\ Whole(world)
  /\ SpawnsOf(world, stage = "open" /\ Old(spawnsTable))
  /\ DOMAIN spawnsTable = {"made", "cascades", "column"}
  /\ DOMAIN calls = Callers /\ \A k \in Callers : CallHolds(world, calls[k])
  /\ TickHolds(world, tick, stage = "up")

\* No id is given again, and no type changes.
Aged(d, n) ==
  /\ n.next \in Nat /\ d.next <= n.next
  /\ \A e \in Live(n) : e < d.next => e \in Live(d) /\ n.type[e] = d.type[e]

\* A write that takes nothing of what is there, and may change rows of its own.
Adds(d, n) ==
  /\ Live(d) \subseteq Live(n) /\ Aged(d, n)
  /\ d.machines \subseteq n.machines

-----------------------------------------------------------------------------
(* Operators *)

LEMMA Extending ==
  ASSUME NEW f, NEW x, NEW v
  PROVE  /\ DOMAIN Extend(f, x, v) = DOMAIN f \cup {x}
         /\ Extend(f, x, v)[x] = v
         /\ \A y \in DOMAIN f : y # x => Extend(f, x, v)[y] = f[y]
  BY DEF Extend

LEMMA SoundStays ==
  ASSUME NEW d, NEW n, NEW c, NEW row, Live(d) \subseteq Live(n), Sound(d, c, row)
  PROVE  Sound(n, c, row)
  BY DEF Sound

\* A contract is kept by what takes no row it needs and gives none it forbids.
Obeys(d, n, e) ==
  /\ e \in Live(d) \ d.bare /\ n.type[e] = d.type[e]
  /\ \A c : c \notin LeftToMachines =>
       /\ Has(d, e, c) => Has(n, e, c) \/ MayPoint(c) \/ c \notin Contracts[d.type[e]].required
       /\ Has(n, e, c) => Has(d, e, c) \/ Checked(d.type[e], c, "attach")

LEMMA ContractsStay ==
  ASSUME NEW d, NEW n, ContractsHold(d), \A e \in Live(n) \ n.bare : Obeys(d, n, e)
  PROVE  ContractsHold(n)
<1> SUFFICES ASSUME NEW e \in Live(n) \ n.bare
             PROVE  /\ \A c \in Contracts[n.type[e]].required \ LeftToMachines :
                         Has(n, e, c) \/ MayPoint(c) \/ ~Contracts[n.type[e]].strict
                    /\ \A c \in Declared \ LeftToMachines :
                         Has(n, e, c) /\ Contracts[n.type[e]].strict => AllowedOn(n.type[e], c)
  BY DEF ContractsHold
<1>1. e \in Live(d) \ d.bare /\ n.type[e] = d.type[e]
  BY DEF Obeys
<1>2. ASSUME NEW c \in Contracts[n.type[e]].required \ LeftToMachines
      PROVE  Has(n, e, c) \/ MayPoint(c) \/ ~Contracts[n.type[e]].strict
  BY <1>1, <1>2 DEF ContractsHold, Obeys
<1>3. ASSUME NEW c \in Declared \ LeftToMachines, Has(n, e, c), Contracts[n.type[e]].strict
      PROVE  AllowedOn(n.type[e], c)
  BY <1>1, <1>3 DEF ContractsHold, Checked, Obeys
<1> QED BY <1>2, <1>3

\* Row x of a database becomes row, or is one more.
LEMMA RowWritten ==
  ASSUME NEW d, NEW e, NEW c, NEW row, NEW n, Whole(d), e \in Live(d), Sound(d, c, row),
         n = [d EXCEPT !.rows = Extend(@, <<e, c>>, row)],
         c \in LeftToMachines \/ Has(d, e, c) \/ Checked(d.type[e], c, "attach")
  PROVE  Whole(n) /\ Adds(d, n) /\ n.spawns = d.spawns
<1>1. /\ DOMAIN n = Fields /\ n.type = d.type /\ n.machines = d.machines /\ n.queue = d.queue
      /\ n.spawns = d.spawns /\ n.next = d.next /\ n.bare = d.bare
      /\ n.rows = Extend(d.rows, <<e, c>>, row)
  BY DEF Whole, Shaped, Fields
<1>2. /\ DOMAIN n.rows = DOMAIN d.rows \cup {<<e, c>>} /\ n.rows[<<e, c>>] = row
      /\ \A y \in DOMAIN d.rows : y # <<e, c>> => n.rows[y] = d.rows[y]
  BY <1>1 DEF Extend
<1>3. Live(n) = Live(d)
  BY <1>1 DEF Live
<1>4. Shaped(n)
  BY <1>1, <1>2, <1>3 DEF Shaped, Whole
<1>5. RowsAreSound(n)
  <2> SUFFICES ASSUME NEW x \in DOMAIN n.rows PROVE x[1] \in Live(n) /\ Sound(n, x[2], n.rows[x])
    BY DEF RowsAreSound
  <2>1. CASE x = <<e, c>>
    BY <2>1, <1>2, <1>3, SoundStays
  <2>2. CASE x # <<e, c>>
    BY <2>2, <1>2, <1>3, SoundStays DEF Whole, RowsAreSound
  <2> QED BY <2>1, <2>2
<1>6. ContractsHold(n)
  <2>1. ContractsHold(d)
    BY DEF Whole
  <2>2. ASSUME NEW a \in Live(n) \ n.bare PROVE Obeys(d, n, a)
    BY <2>2, <1>1, <1>2, <1>3 DEF Has, Obeys
  <2> QED BY <2>1, <2>2, ContractsStay
<1> QED BY <1>1, <1>3, <1>4, <1>5, <1>6 DEF Whole, Adds, Aged, Shaped

LEMMA InsertKeeps ==
  ASSUME NEW d, NEW e, NEW c, NEW row, Whole(d), Inserted(d, e, c, row) # Denied,
         c \in LeftToMachines \/ (e \in Live(d) => Checked(d.type[e], c, "attach"))
  PROVE  /\ Whole(Inserted(d, e, c, row)) /\ Adds(d, Inserted(d, e, c, row))
         /\ Inserted(d, e, c, row).spawns = d.spawns
         /\ \A x \in DOMAIN d.rows : Inserted(d, e, c, row).rows[x] = d.rows[x]
<1> DEFINE n == [d EXCEPT !.rows = Extend(@, <<e, c>>, row)]
<1>1. e \in Live(d) /\ ~Has(d, e, c) /\ Sound(d, c, row) /\ Inserted(d, e, c, row) = n
  BY DEF Inserted
<1>2. Whole(n) /\ Adds(d, n) /\ n.spawns = d.spawns
  BY <1>1, RowWritten
<1>3. \A x \in DOMAIN d.rows : n.rows[x] = d.rows[x]
  BY <1>1 DEF Extend, Has, Whole, Shaped, Fields
<1> QED BY <1>1, <1>2, <1>3

\* An UPDATE of a row that is there.
LEMMA UpdateKeeps ==
  ASSUME NEW d, NEW e, NEW c, NEW row, Whole(d), Has(d, e, c), Sound(d, c, row)
  PROVE  LET n == [d EXCEPT !.rows[<<e, c>>] = row]
         IN  Whole(n) /\ Adds(d, n) /\ n.spawns = d.spawns
<1> DEFINE n == [d EXCEPT !.rows[<<e, c>>] = row]
           m == [d EXCEPT !.rows = Extend(@, <<e, c>>, row)]
<1>1. e \in Live(d)
  BY DEF Has, Whole, RowsAreSound
<1>2. Whole(m) /\ Adds(d, m) /\ m.spawns = d.spawns
  BY <1>1, RowWritten
<1>3. [d.rows EXCEPT ![<<e, c>>] = row] = Extend(d.rows, <<e, c>>, row)
  BY DEF Has, Extend
<1>4. n = m
  BY <1>3 DEF Whole, Shaped, Fields
<1> QED BY <1>2, <1>4

\* A row is taken that the type does not require, or that machines may take.
RowTaken(d, e, c) == [d EXCEPT !.rows = Restrict(@, DOMAIN @ \ {<<e, c>>})]

LEMMA RemovalKeeps ==
  ASSUME NEW d, NEW e, NEW c, NEW n, Whole(d), n = RowTaken(d, e, c),
         c \in LeftToMachines \/ (e \in Live(d) => Checked(d.type[e], c, "detach"))
  PROVE  Whole(n) /\ Adds(d, n) /\ n.spawns = d.spawns /\ \A x \in DOMAIN n.rows : n.rows[x] = d.rows[x]
<1>1. /\ DOMAIN n = Fields /\ n.type = d.type /\ n.machines = d.machines /\ n.queue = d.queue
      /\ n.spawns = d.spawns /\ n.next = d.next /\ n.bare = d.bare
      /\ n.rows = Restrict(d.rows, DOMAIN d.rows \ {<<e, c>>})
  BY DEF RowTaken, Whole, Shaped, Fields
<1>2. /\ DOMAIN n.rows = DOMAIN d.rows \ {<<e, c>>}
      /\ \A y \in DOMAIN n.rows : n.rows[y] = d.rows[y]
  BY <1>1 DEF Restrict
<1>3. Live(n) = Live(d)
  BY <1>1 DEF Live
<1>4. Shaped(n)
  BY <1>1, <1>2, <1>3 DEF Shaped, Whole
<1>5. RowsAreSound(n)
  BY <1>2, <1>3, SoundStays DEF Whole, RowsAreSound
<1>6. ContractsHold(n)
  <2>1. ContractsHold(d)
    BY DEF Whole
  <2>2. ASSUME NEW a \in Live(n) \ n.bare PROVE Obeys(d, n, a)
    BY <2>2, <1>1, <1>2, <1>3 DEF Has, Obeys, Checked
  <2> QED BY <2>1, <2>2, ContractsStay
<1>7. Whole(n)
  BY <1>1, <1>3, <1>4, <1>5, <1>6 DEF Whole
<1>8. Adds(d, n)
  BY <1>1, <1>3 DEF Adds, Aged, Whole, Shaped
<1> QED BY <1>1, <1>2, <1>7, <1>8

LEMMA SetKeeps ==
  ASSUME NEW d, NEW e, NEW c, NEW v, Whole(d), SetTo(d, e, c, v) # Denied
  PROVE  Whole(SetTo(d, e, c, v)) /\ Adds(d, SetTo(d, e, c, v)) /\ SetTo(d, e, c, v).spawns = d.spawns
<1>1. CASE v = <<>>
  BY <1>1 DEF SetTo, Adds, Aged, Whole, Shaped, Live
<1>2. CASE v # <<>>
  <2> DEFINE row == [f \in ColumnsOf(c) |->
                       IF f \in DOMAIN Changes(c, v) THEN Changes(c, v)[f] ELSE d.rows[<<e, c>>][f]]
             n == [d EXCEPT !.rows[<<e, c>>] = row]
  <2>1. Has(d, e, c) /\ Sound(d, c, row) /\ SetTo(d, e, c, v) = n
    BY <1>2 DEF SetTo
  <2> HIDE DEF row
  <2>2. Whole(n) /\ Adds(d, n) /\ n.spawns = d.spawns
    BY <2>1, UpdateKeeps
  <2> QED BY <2>1, <2>2
<1> QED BY <1>1, <1>2

LEMMA MachineSetKeeps ==
  ASSUME NEW d, NEW e, NEW c, NEW v, Whole(d), MachineSets(d, e, c, v) # Denied
  PROVE  Whole(MachineSets(d, e, c, v)) /\ Adds(d, MachineSets(d, e, c, v))
         /\ MachineSets(d, e, c, v).spawns = d.spawns
<1>1. CASE ~Has(d, e, c)
  BY <1>1 DEF MachineSets, Adds, Aged, Whole, Shaped, Live
<1>2. CASE Has(d, e, c)
  <2> DEFINE row == [f \in ColumnsOf(c) |-> IF f \in DOMAIN v THEN v[f] ELSE d.rows[<<e, c>>][f]]
             n == [d EXCEPT !.rows[<<e, c>>] = row]
  <2>1. Sound(d, c, row) /\ MachineSets(d, e, c, v) = n
    BY <1>2 DEF MachineSets
  <2> HIDE DEF row
  <2>2. Whole(n) /\ Adds(d, n) /\ n.spawns = d.spawns
    BY <1>2, <2>1, UpdateKeeps
  <2> QED BY <2>1, <2>2
<1> QED BY <1>1, <1>2

-----------------------------------------------------------------------------
(* Entities *)

\* An id that is next is nobody's, and has no rows.
LEMMA NextIsFree ==
  ASSUME NEW d, Whole(d)
  PROVE  /\ d.next \in Nat /\ d.next \notin Live(d)
         /\ \A e \in Live(d) : e \in Nat /\ e < d.next
         /\ \A x \in DOMAIN d.rows : x[1] # d.next
  BY DEF Whole, Shaped, RowsAreSound

LEMMA CreationKeeps ==
  ASSUME NEW d, NEW ty, NEW given, Whole(d), Created(d, ty, given) # Denied, MayCreate(ty, DOMAIN given)
  PROVE  /\ Whole(Created(d, ty, given)) /\ Adds(d, Created(d, ty, given))
         /\ Created(d, ty, given).spawns = d.spawns
         /\ d.next \in Live(Created(d, ty, given))
         /\ \A x \in DOMAIN d.rows : Created(d, ty, given).rows[x] = d.rows[x]
<1> DEFINE e == d.next
           new == [d EXCEPT !.type = Extend(@, e, ty), !.next = e + 1]
           rows == [c \in DOMAIN given |-> NewRow(c, given[c])]
           full == [x \in DOMAIN d.rows \cup {<<e, c>> : c \in DOMAIN given} |->
                      IF x[1] = e THEN rows[x[2]] ELSE d.rows[x]]
           n == [new EXCEPT !.rows = full]
<1>1. /\ \A c \in DOMAIN given : Sound(new, c, rows[c])
      /\ Created(d, ty, given) = n
  <2>1. new.rows = d.rows
    BY DEF Whole, Shaped, Fields
  <2>2. CASE \A c \in DOMAIN given : Sound(new, c, rows[c])
    BY <2>1, <2>2 DEF Created
  <2>3. CASE ~ \A c \in DOMAIN given : Sound(new, c, rows[c])
    BY <2>3 DEF Created
  <2> QED BY <2>2, <2>3
<1>2. /\ DOMAIN n = Fields /\ n.machines = d.machines /\ n.queue = d.queue /\ n.spawns = d.spawns
      /\ n.next = d.next + 1 /\ n.bare = d.bare /\ n.rows = full
      /\ n.type = Extend(d.type, d.next, ty)
      /\ new.type = Extend(d.type, d.next, ty)
  BY DEF Whole, Shaped, Fields
<1>3. /\ DOMAIN full = DOMAIN d.rows \cup {<<e, c>> : c \in DOMAIN given}
      /\ \A c \in DOMAIN given : full[<<e, c>>] = rows[c]
      /\ \A x \in DOMAIN d.rows : full[x] = d.rows[x]
  BY NextIsFree
<1> HIDE DEF full, n, new, rows
<1>4. /\ Live(n) = Live(d) \cup {d.next} /\ Live(new) = Live(n)
      /\ n.type[d.next] = ty /\ \A a \in Live(d) : n.type[a] = d.type[a]
  BY <1>2, NextIsFree DEF Live, Extend
<1>5. Shaped(n)
  <2>1. n.next \in Nat \ {0} /\ Live(n) \cup n.bare \subseteq 1..(n.next - 1)
    <3>1. d.next \in Nat \ {0} /\ Live(d) \cup d.bare \subseteq 1..(d.next - 1)
      BY DEF Whole, Shaped
    <3>2. n.next \in Nat \ {0} /\ n.next - 1 = d.next
      BY <3>1, <1>2
    <3> QED BY <3>1, <3>2, <1>2, <1>4
  <2>2. \A x \in DOMAIN n.rows : x = <<x[1], x[2]>>
    BY <1>2, <1>3 DEF Whole, Shaped
  <2> QED BY <2>1, <2>2, <1>2 DEF Shaped
<1>6. RowsAreSound(n)
  <2> SUFFICES ASSUME NEW x \in DOMAIN n.rows PROVE x[1] \in Live(n) /\ Sound(n, x[2], n.rows[x])
    BY DEF RowsAreSound
  <2>1. CASE x \in DOMAIN d.rows
    <3>1. x[1] \in Live(d) /\ Sound(d, x[2], d.rows[x])
      BY <2>1 DEF Whole, RowsAreSound
    <3> QED BY <2>1, <3>1, <1>2, <1>3, <1>4, SoundStays
  <2>2. CASE x \notin DOMAIN d.rows
    <3>1. PICK c \in DOMAIN given : x = <<e, c>>
      BY <2>2, <1>2, <1>3
    <3>2. Sound(new, c, rows[c]) /\ n.rows[x] = rows[c]
      BY <3>1, <1>1, <1>2, <1>3
    <3> QED BY <3>1, <3>2, <1>4, SoundStays
  <2> QED BY <2>1, <2>2
<1>7. ContractsHold(n)
  <2> SUFFICES ASSUME NEW a \in Live(n) \ n.bare
               PROVE  /\ \A c \in Contracts[n.type[a]].required \ LeftToMachines :
                           Has(n, a, c) \/ MayPoint(c) \/ ~Contracts[n.type[a]].strict
                      /\ \A c \in Declared \ LeftToMachines :
                           Has(n, a, c) /\ Contracts[n.type[a]].strict => AllowedOn(n.type[a], c)
    BY DEF ContractsHold
  <2>1. CASE a \in Live(d)
    <3>1. /\ a # d.next /\ n.type[a] = d.type[a] /\ a \in Live(d) \ d.bare
      BY <2>1, <1>2, <1>4, NextIsFree
    <3>2. ASSUME NEW c PROVE Has(n, a, c) <=> Has(d, a, c)
      BY <3>1, <1>2, <1>3 DEF Has
    <3> QED BY <3>1, <3>2 DEF Whole, ContractsHold
  <2>2. CASE a = d.next
    <3>1. ASSUME NEW c PROVE Has(n, a, c) <=> c \in DOMAIN given
      BY <2>2, <1>2, <1>3, NextIsFree DEF Has
    <3>2. Contracts[ty].strict =>
            Contracts[ty].required \subseteq DOMAIN given /\ \A c \in DOMAIN given : AllowedOn(ty, c)
      BY DEF MayCreate
    <3> QED BY <2>2, <3>1, <3>2, <1>4
  <2> QED BY <2>1, <2>2, <1>4
<1>8. Whole(n)
  BY <1>2, <1>4, <1>5, <1>6, <1>7 DEF Whole
<1>9. Adds(d, n)
  BY <1>2, <1>4, NextIsFree DEF Adds, Aged
<1> QED BY <1>1, <1>2, <1>3, <1>4, <1>8, <1>9

\* A spawn is recorded of an entity that is there.
LEMMA RecordKeeps ==
  ASSUME NEW d, NEW o, NEW e, Whole(d), e \in Live(d), SpawnsOf(d, FALSE)
  PROVE  /\ Whole(Recorded(d, o, e)) /\ SpawnsOf(Recorded(d, o, e), FALSE)
         /\ Recorded(d, o, e).type = d.type /\ Recorded(d, o, e).next = d.next
         /\ Recorded(d, o, e).machines = d.machines
<1> DEFINE n == Recorded(d, o, e)
<1>1. /\ DOMAIN n = Fields /\ n.type = d.type /\ n.machines = d.machines /\ n.queue = d.queue
      /\ n.rows = d.rows /\ n.next = d.next /\ n.bare = d.bare
      /\ n.spawns = Extend(d.spawns, o, [ent |-> e, known |-> TRUE])
  BY DEF Recorded, Whole, Shaped, Fields
<1> HIDE DEF n
<1>2. Live(n) = Live(d)
  BY <1>1 DEF Live
<1>3. Shaped(n) /\ RowsAreSound(n)
  BY <1>1, <1>2, SoundStays DEF Whole, Shaped, RowsAreSound
<1>4. ContractsHold(n)
  BY <1>1, <1>2 DEF Whole, ContractsHold, Has
<1>5. SpawnsOf(n, FALSE)
  BY <1>1, <1>2 DEF SpawnsOf, Extend
<1> QED BY <1>1, <1>2, <1>3, <1>4, <1>5 DEF Whole, n

\* A deletion takes one entity, what is of it, and what points at it.
Removes(d, n, e) ==
  /\ Live(n) = Live(d) \ {e} /\ Aged(d, n)
  /\ n.machines = d.machines \ {e} /\ n.queue = d.queue \ {e}
  /\ \A x \in DOMAIN d.rows :
       x[1] = e \/ PointsAt(d, x, e) \/ (x \in DOMAIN n.rows /\ n.rows[x] = d.rows[x])
  /\ \A o \in DOMAIN d.spawns : d.spawns[o].ent = e \/ o \in DOMAIN n.spawns
  /\ \A o \in DOMAIN n.spawns : o \in DOMAIN d.spawns /\ n.spawns[o] = d.spawns[o] /\ d.spawns[o].ent # e

LEMMA DeletionKeeps ==
  ASSUME NEW d, NEW e, Whole(d), NEW orphans, SpawnsOf(d, orphans)
  PROVE  Whole(Deleted(d, e)) /\ Removes(d, Deleted(d, e), e) /\ SpawnsOf(Deleted(d, e), orphans)
<1> DEFINE n == Deleted(d, e)
           kept == {x \in DOMAIN d.rows : x[1] # e /\ ~PointsAt(d, x, e)}
<1>1. /\ DOMAIN n = Fields /\ n.machines = d.machines \ {e} /\ n.queue = d.queue \ {e}
      /\ n.next = d.next /\ n.bare = d.bare
      /\ n.type = [x \in DOMAIN d.type \ {e} |-> d.type[x]]
      /\ n.spawns = Restrict(d.spawns, {o \in DOMAIN d.spawns : d.spawns[o].ent # e})
      /\ n.rows = Restrict(d.rows, kept)
  BY DEF Deleted, Cascade, Whole, Shaped, Fields, PointsAt
<1>2. DOMAIN n.rows = kept /\ \A x \in kept : n.rows[x] = d.rows[x]
  BY <1>1 DEF Restrict
<1>3. /\ DOMAIN n.spawns = {o \in DOMAIN d.spawns : d.spawns[o].ent # e}
      /\ \A o \in DOMAIN n.spawns : n.spawns[o] = d.spawns[o]
  BY <1>1 DEF Restrict
<1>4. Live(n) = Live(d) \ {e} /\ \A a \in Live(n) : n.type[a] = d.type[a]
  BY <1>1 DEF Live
<1> HIDE DEF n
<1>5. Shaped(n)
  BY <1>1, <1>2, <1>4 DEF Whole, Shaped
<1>6. RowsAreSound(n)
  <2> SUFFICES ASSUME NEW x \in DOMAIN n.rows PROVE x[1] \in Live(n) /\ Sound(n, x[2], n.rows[x])
    BY DEF RowsAreSound
  <2>1. x \in DOMAIN d.rows /\ x[1] # e /\ ~PointsAt(d, x, e) /\ n.rows[x] = d.rows[x]
    BY <1>2
  <2>2. x[1] \in Live(d) /\ Sound(d, x[2], d.rows[x])
    BY <2>1 DEF Whole, RowsAreSound
  <2>3. \A f \in References(x[2]) : d.rows[x][f] # e
    BY <2>1 DEF PointsAt
  <2>4. Sound(n, x[2], d.rows[x])
    BY <2>2, <2>3, <1>4 DEF Sound
  <2> QED BY <2>1, <2>2, <2>4, <1>4
<1>7. ContractsHold(n)
  <2>1. ContractsHold(d)
    BY DEF Whole
  <2>2. ASSUME NEW a \in Live(n) \ n.bare PROVE Obeys(d, n, a)
    <3>1. a \in Live(d) \ d.bare /\ n.type[a] = d.type[a] /\ a # e
      BY <1>1, <1>4
    <3>2. ASSUME NEW c, Has(n, a, c) PROVE Has(d, a, c)
      BY <3>2, <1>2 DEF Has
    <3>3. ASSUME NEW c, Has(d, a, c), ~Has(n, a, c) PROVE MayPoint(c)
      <4>1. PointsAt(d, <<a, c>>, e)
        BY <3>1, <3>3, <1>2 DEF Has
      <4> QED BY <4>1 DEF PointsAt, MayPoint
    <3> QED BY <3>1, <3>2, <3>3 DEF Obeys
  <2> QED BY <2>1, <2>2, ContractsStay
<1>8. Whole(n)
  BY <1>1, <1>4, <1>5, <1>6, <1>7 DEF Whole
<1>9. SpawnsOf(n, orphans)
  BY <1>3, <1>4 DEF SpawnsOf
<1>10. Removes(d, n, e)
  <2>1. Aged(d, n)
    <3>1. n.next = d.next /\ d.next \in Nat
      BY <1>1, NextIsFree
    <3>2. \A a \in Live(n) : a \in Live(d) /\ n.type[a] = d.type[a]
      BY <1>4
    <3> QED BY <3>1, <3>2 DEF Aged
  <2>2. ASSUME NEW x \in DOMAIN d.rows
        PROVE  x[1] = e \/ PointsAt(d, x, e) \/ (x \in DOMAIN n.rows /\ n.rows[x] = d.rows[x])
    BY <1>2
  <2> QED BY <2>1, <2>2, <1>1, <1>3, <1>4 DEF Removes
<1> QED BY <1>8, <1>9, <1>10 DEF n

LEMMA StartKeeps ==
  ASSUME NEW d, NEW e, Whole(d), e \in Live(d)
  PROVE  LET n == [d EXCEPT !.machines = @ \cup {e}]
         IN  Whole(n) /\ Adds(d, n) /\ n.spawns = d.spawns /\ n.rows = d.rows
<1> DEFINE n == [d EXCEPT !.machines = @ \cup {e}]
<1>1. /\ DOMAIN n = Fields /\ n.type = d.type /\ n.machines = d.machines \cup {e} /\ n.queue = d.queue
      /\ n.rows = d.rows /\ n.next = d.next /\ n.bare = d.bare /\ n.spawns = d.spawns
  BY DEF Whole, Shaped, Fields
<1>2. Live(n) = Live(d)
  BY <1>1 DEF Live
<1> SUFFICES Whole(n) /\ Adds(d, n) /\ n.spawns = d.spawns /\ n.rows = d.rows
  OBVIOUS
<1> HIDE DEF n
<1>3. Shaped(n) /\ RowsAreSound(n)
  BY <1>1, <1>2, SoundStays DEF Whole, Shaped, RowsAreSound
<1>4. ContractsHold(n)
  BY <1>1, <1>2 DEF Whole, ContractsHold, Has
<1>5. Adds(d, n)
  BY <1>1, <1>2 DEF Adds, Aged, Whole, Shaped
<1> QED BY <1>1, <1>2, <1>3, <1>4, <1>5 DEF Whole

-----------------------------------------------------------------------------
(* Machines *)

LEMMA EventKeeps ==
  ASSUME NEW d, NEW e, Whole(d), e \in Live(d)
  PROVE  LET n == [d EXCEPT !.queue = @ \cup {e}] IN Whole(n) /\ Adds(d, n) /\ n.spawns = d.spawns
<1> DEFINE n == [d EXCEPT !.queue = @ \cup {e}]
<1>1. /\ DOMAIN n = Fields /\ n.type = d.type /\ n.machines = d.machines /\ n.queue = d.queue \cup {e}
      /\ n.rows = d.rows /\ n.next = d.next /\ n.bare = d.bare /\ n.spawns = d.spawns
  BY DEF Whole, Shaped, Fields
<1>2. Live(n) = Live(d)
  BY <1>1 DEF Live
<1> SUFFICES Whole(n) /\ Adds(d, n) /\ n.spawns = d.spawns
  OBVIOUS
<1> HIDE DEF n
<1>3. Shaped(n) /\ RowsAreSound(n)
  BY <1>1, <1>2, SoundStays DEF Whole, Shaped, RowsAreSound
<1>4. ContractsHold(n)
  BY <1>1, <1>2 DEF Whole, ContractsHold, Has
<1>5. Adds(d, n)
  BY <1>1, <1>2 DEF Adds, Aged, Whole, Shaped
<1> QED BY <1>1, <1>2, <1>3, <1>4, <1>5 DEF Whole

\* A machine's entity has a type and nothing else, and is known as bare.
BareOne(d, ty) == [d EXCEPT !.type = Extend(@, d.next, ty), !.next = @ + 1, !.bare = @ \cup {d.next}]

LEMMA BareKeeps ==
  ASSUME NEW d, NEW ty, Whole(d)
  PROVE  Whole(BareOne(d, ty)) /\ Adds(d, BareOne(d, ty)) /\ BareOne(d, ty).spawns = d.spawns
<1> DEFINE n == BareOne(d, ty)
<1>1. /\ DOMAIN n = Fields /\ n.machines = d.machines /\ n.queue = d.queue /\ n.spawns = d.spawns
      /\ n.next = d.next + 1 /\ n.bare = d.bare \cup {d.next} /\ n.rows = d.rows
      /\ n.type = Extend(d.type, d.next, ty)
  BY DEF BareOne, Whole, Shaped, Fields
<1> SUFFICES Whole(n) /\ Adds(d, n) /\ n.spawns = d.spawns
  OBVIOUS
<1> HIDE DEF n
<1>2. Live(n) = Live(d) \cup {d.next} /\ \A a \in Live(d) : n.type[a] = d.type[a]
  BY <1>1, NextIsFree DEF Live, Extend
<1>3. Shaped(n)
  <2>1. d.next \in Nat \ {0} /\ Live(d) \cup d.bare \subseteq 1..(d.next - 1)
    BY DEF Whole, Shaped
  <2>2. n.next \in Nat \ {0} /\ n.next - 1 = d.next
    BY <2>1, <1>1
  <2>3. Live(n) \cup n.bare \subseteq 1..(n.next - 1)
    BY <2>1, <2>2, <1>1, <1>2
  <2> QED BY <2>2, <2>3, <1>1 DEF Shaped, Whole
<1>4. RowsAreSound(n)
  BY <1>1, <1>2, SoundStays DEF Whole, RowsAreSound
<1>5. ContractsHold(n)
  <2>1. ContractsHold(d)
    BY DEF Whole
  <2>2. ASSUME NEW a \in Live(n) \ n.bare PROVE Obeys(d, n, a)
    BY <1>1, <1>2 DEF Obeys, Has
  <2> QED BY <2>1, <2>2, ContractsStay
<1>6. Adds(d, n)
  BY <1>1, <1>2, NextIsFree DEF Adds, Aged
<1> QED BY <1>1, <1>2, <1>3, <1>4, <1>5, <1>6 DEF Whole

LEMMA MachinesKeep ==
  ASSUME NEW d, NEW e, NEW n \in MachineWrites(d, e), Whole(d), e \in Live(d), n # Denied
  PROVE  Whole(n) /\ Adds(d, n) /\ n.spawns = d.spawns
<1>1. CASE n = [d EXCEPT !.queue = @ \cup {e}]
  BY <1>1, EventKeeps
<1>2. CASE \E cv \in ByMachines : n = Inserted(d, e, cv[1], MachineRow(cv[1], cv[2]))
  <2>1. PICK cv \in ByMachines : n = Inserted(d, e, cv[1], MachineRow(cv[1], cv[2]))
    BY <1>2
  <2>2. cv[1] \in LeftToMachines
    BY DEF LeftToMachines
  <2> QED BY <2>1, <2>2, InsertKeeps
<1>3. CASE \E cv \in ByMachines : n = MachineSets(d, e, cv[1], cv[2])
  BY <1>3, MachineSetKeeps
<1>4. CASE \E cv \in ByMachines : n = RowTaken(d, e, cv[1])
  <2>1. PICK cv \in ByMachines : n = RowTaken(d, e, cv[1])
    BY <1>4
  <2>2. cv[1] \in LeftToMachines
    BY DEF LeftToMachines
  <2> QED BY <2>1, <2>2, RemovalKeeps
<1>5. CASE \E ty : n = BareOne(d, ty)
  BY <1>5, BareKeeps
<1> QED BY <1>1, <1>2, <1>3, <1>4, <1>5 DEF MachineWrites, RowTaken, BareOne

-----------------------------------------------------------------------------
(* Steps *)

LEMMA CallStays ==
  ASSUME NEW d, NEW n, NEW call, Whole(d), Aged(d, n), CallHolds(d, call)
  PROVE  CallHolds(n, call)
<1>1. d.next \in Nat /\ n.next \in Nat /\ d.next <= n.next
  BY NextIsFree DEF Aged
<1>2. ASSUME call.at \in {"typed", "checked"}
      PROVE  /\ call.ent \in 1..(n.next - 1)
             /\ call.ent \in Live(n) => n.type[call.ent] = call.type
  <2>1. call.ent \in 1..(d.next - 1) /\ (call.ent \in Live(d) => d.type[call.ent] = call.type)
    BY <1>2 DEF CallHolds
  <2>2. call.ent < d.next /\ call.ent \in 1..(n.next - 1)
    BY <2>1, <1>1
  <2> QED BY <2>1, <2>2 DEF Aged
<1> QED BY <1>2 DEF CallHolds

Quiet(call) == "at" \in DOMAIN call /\ call.at \notin {"typed", "checked"}

LEMMA QuietHolds ==
  ASSUME NEW d, NEW call, Quiet(call) PROVE CallHolds(d, call)
  BY DEF Quiet, CallHolds

LEMMA Informed ==
  ASSUME NEW k \in Callers, NEW said, DOMAIN calls = Callers, Answer(k, said)
  PROVE  DOMAIN calls' = Callers /\ \A j \in Callers : Quiet(calls'[j]) \/ calls'[j] = calls[j]
  BY DEF Answer, Idle, Quiet

\* Another database is committed, as whole as the last.
LEMMA CommitKeeps ==
  ASSUME IInv, NEW n, stage = "up", Commit(n), n # Denied, Whole(n), SpawnsOf(n, FALSE), Aged(world, n),
         DOMAIN calls' = Callers, \A j \in Callers : Quiet(calls'[j]) \/ calls'[j] = calls[j]
  PROVE  IInv'
<1>1. world' = n /\ stage' = stage /\ spawnsTable' = spawnsTable /\ tick' = [tick EXCEPT !.stale = @ \/ tick.open]
  BY DEF Commit
<1>2. \A j \in Callers : CallHolds(world', calls'[j])
  BY <1>1, CallStays, QuietHolds DEF IInv
<1>3. TickHolds(world', tick', stage' = "up")
  BY <1>1 DEF IInv, TickHolds
<1>4. SpawnsOf(world', stage' = "open" /\ Old(spawnsTable'))
  BY <1>1 DEF SpawnsOf
<1> QED BY <1>1, <1>2, <1>3, <1>4 DEF IInv, Old

LEMMA RefusalKeeps ==
  ASSUME IInv, Commit(Denied), DOMAIN calls' = Callers,
         \A j \in Callers : Quiet(calls'[j]) \/ calls'[j] = calls[j]
  PROVE  IInv' /\ UNCHANGED <<world, stage, tick>>
<1>1. UNCHANGED <<world, stage, tick, spawnsTable>>
  BY DEF Commit
<1>2. \A j \in Callers : CallHolds(world', calls'[j])
  BY <1>1, QuietHolds DEF IInv
<1> QED BY <1>1, <1>2 DEF IInv, Old

\* Everybody starts anew on the database that is there.
LEMMA OffKeeps ==
  ASSUME IInv, Off, UNCHANGED <<world, spawnsTable>> PROVE IInv'
<1>1. stage' = "open" /\ calls' = [k \in Callers |-> Idle] /\ tick' = NoTick
  BY DEF Off
<1>2. \A j \in Callers : CallHolds(world', calls'[j])
  BY <1>1, QuietHolds DEF Quiet, Idle
<1>3. SpawnsOf(world', stage' = "open" /\ Old(spawnsTable'))
  BY <1>1 DEF IInv, SpawnsOf
<1>4. TickHolds(world', tick', stage' = "up")
  BY <1>1 DEF TickHolds, NoTick
<1> QED BY <1>1, <1>2, <1>3, <1>4 DEF IInv, Old

LEMMA Upwards ==
  ASSUME IInv, stage = "up" PROVE Whole(world) /\ SpawnsOf(world, FALSE)
  BY DEF IInv, SpawnsOf

LEMMA AddsSpawns ==
  ASSUME NEW d, NEW n, Adds(d, n), n.spawns = d.spawns, NEW orphans, SpawnsOf(d, orphans)
  PROVE  SpawnsOf(n, orphans)
  BY DEF Adds, SpawnsOf

LEMMA NothingTouched ==
  ASSUME UNCHANGED world PROVE TouchesItsOwn
  BY DEF TouchesItsOwn, StartsKeepRecords, CallsOverwriteNothing, DeletionsTakeTheirOwn, Live

LEMMA AddingTouches ==
  ASSUME Adds(world, world'), stage' = stage,
         calls' = calls \/ \A x \in DOMAIN world.rows \cap DOMAIN world'.rows : world'.rows[x] = world.rows[x]
  PROVE  TouchesItsOwn
<1>1. Live(world) \ Live(world') = {}
  BY DEF Adds
<1> QED BY <1>1 DEF TouchesItsOwn, StartsKeepRecords, CallsOverwriteNothing, DeletionsTakeTheirOwn

LEMMA RefusalTouches ==
  ASSUME IInv, NEW k \in Callers, NEW said, Commit(Denied), Answer(k, said)
  PROVE  IInv' /\ TouchesItsOwn
<1>1. DOMAIN calls' = Callers /\ \A j \in Callers : Quiet(calls'[j]) \/ calls'[j] = calls[j]
  BY Informed DEF IInv
<1> QED BY <1>1, RefusalKeeps, NothingTouched

\* A call's write that adds, and overwrites nothing.
LEMMA WriteTouches ==
  ASSUME IInv, NEW k \in Callers, NEW said, NEW n, Commit(n), Answer(k, said), n # Denied,
         Whole(n), Adds(world, n), SpawnsOf(n, FALSE),
         \A x \in DOMAIN world.rows \cap DOMAIN n.rows : n.rows[x] = world.rows[x]
  PROVE  IInv' /\ TouchesItsOwn
<1>1. DOMAIN calls' = Callers /\ \A j \in Callers : Quiet(calls'[j]) \/ calls'[j] = calls[j]
  BY Informed DEF IInv
<1>2. stage = "up" /\ stage' = stage /\ world' = n
  BY DEF Commit
<1>3. IInv'
  BY <1>1, <1>2, CommitKeeps DEF Adds
<1> QED BY <1>2, <1>3, AddingTouches

\* A write nobody waits for.
LEMMA AloneTouches ==
  ASSUME IInv, NEW n, Commit(n), UNCHANGED calls, n # Denied, Whole(n), Adds(world, n), SpawnsOf(n, FALSE)
  PROVE  IInv' /\ TouchesItsOwn
<1>1. DOMAIN calls' = Callers /\ \A j \in Callers : Quiet(calls'[j]) \/ calls'[j] = calls[j]
  BY DEF IInv
<1>2. stage = "up" /\ stage' = stage /\ world' = n
  BY DEF Commit
<1>3. IInv'
  BY <1>1, <1>2, CommitKeeps DEF Adds
<1> QED BY <1>2, <1>3, AddingTouches

LEMMA CreateStep ==
  ASSUME IInv, NEW k \in Callers, NEW ty, NEW given, CreateEntity(k, ty, given)
  PROVE  IInv' /\ TouchesItsOwn
<1> DEFINE d == Created(world, ty, given)
<1>1. Commit(d) /\ MayCreate(ty, DOMAIN given) /\ \E said : Answer(k, said)
  BY DEF CreateEntity
<1>2. PICK said : Answer(k, said)
  BY <1>1
<1>3. CASE d = Denied
  BY <1>1, <1>2, <1>3, RefusalTouches
<1>4. CASE d # Denied
  <2>1. Whole(world) /\ SpawnsOf(world, FALSE)
    BY <1>1, Upwards DEF Commit
  <2>2. Whole(d) /\ Adds(world, d) /\ d.spawns = world.spawns /\ \A x \in DOMAIN world.rows : d.rows[x] = world.rows[x]
    BY <2>1, <1>1, <1>4, CreationKeeps
  <2>3. SpawnsOf(d, FALSE)
    BY <2>1, <2>2, AddsSpawns
  <2> HIDE DEF d
  <2> QED BY <1>1, <1>2, <1>4, <2>2, <2>3, WriteTouches
<1> QED BY <1>3, <1>4

LEMMA AttachStep ==
  ASSUME IInv, NEW k \in Callers, AttachComponent(k)
  PROVE  IInv' /\ TouchesItsOwn
<1> DEFINE call == calls[k]
           row == NewRow(call.comp, call.val)
           d == Inserted(world, call.ent, call.comp, row)
<1>1. Commit(d) /\ call.at = "checked" /\ call.op = "attach" /\ \E said : Answer(k, said)
  BY DEF AttachComponent
<1>2. PICK said : Answer(k, said)
  BY <1>1
<1>3. CASE d = Denied
  BY <1>1, <1>2, <1>3, RefusalTouches
<1>4. CASE d # Denied
  <2>1. Whole(world) /\ SpawnsOf(world, FALSE)
    BY <1>1, Upwards DEF Commit
  <2>2. call.ent \in Live(world) => Checked(world.type[call.ent], call.comp, "attach")
    BY <1>1 DEF IInv, CallHolds
  <2>3. /\ Whole(d) /\ Adds(world, d) /\ d.spawns = world.spawns
        /\ \A x \in DOMAIN world.rows : d.rows[x] = world.rows[x]
    BY <2>1, <2>2, <1>4, InsertKeeps
  <2>4. SpawnsOf(d, FALSE)
    BY <2>1, <2>3, AddsSpawns
  <2> HIDE DEF d
  <2> QED BY <1>1, <1>2, <1>4, <2>3, <2>4, WriteTouches
<1> QED BY <1>3, <1>4

LEMMA DetachStep ==
  ASSUME IInv, NEW k \in Callers, DetachComponent(k)
  PROVE  IInv' /\ TouchesItsOwn
<1> DEFINE call == calls[k]
           n == RowTaken(world, call.ent, call.comp)
<1>1. call.at = "checked" /\ call.op = "detach" /\ \E said : Answer(k, said) /\ (Commit(Denied) \/ Commit(n))
  BY DEF DetachComponent, RowTaken
<1>2. PICK said : Answer(k, said) /\ (Commit(Denied) \/ Commit(n))
  BY <1>1
<1>3. CASE Commit(Denied)
  BY <1>2, <1>3, RefusalTouches
<1>4. CASE Commit(n)
  <2>1. Whole(world) /\ SpawnsOf(world, FALSE)
    BY <1>4, Upwards DEF Commit
  <2>2. call.ent \in Live(world) => Checked(world.type[call.ent], call.comp, "detach")
    BY <1>1 DEF IInv, CallHolds
  <2>3. Whole(n) /\ Adds(world, n) /\ n.spawns = world.spawns
        /\ \A x \in DOMAIN n.rows : n.rows[x] = world.rows[x]
    BY <2>1, <2>2, RemovalKeeps
  <2>4. SpawnsOf(n, FALSE)
    BY <2>1, <2>3, AddsSpawns
  <2>5. n # Denied
    BY <2>3 DEF Whole, Shaped, Fields, Denied
  <2> HIDE DEF n
  <2> QED BY <1>2, <1>4, <2>3, <2>4, <2>5, WriteTouches
<1> QED BY <1>2, <1>3, <1>4

LEMMA SpawnStep ==
  ASSUME IInv, NEW o, NEW ty, NEW given, SpawnObject(o, ty, given)
  PROVE  IInv' /\ TouchesItsOwn
<1> DEFINE d == Created(world, ty, given)
           n == Recorded(d, o, world.next)
<1>1. d # Denied /\ Commit(n) /\ MayCreate(ty, DOMAIN given) /\ UNCHANGED calls
  BY DEF SpawnObject
<1>2. Whole(world) /\ SpawnsOf(world, FALSE)
  BY <1>1, Upwards DEF Commit
<1>3. Whole(d) /\ Adds(world, d) /\ d.spawns = world.spawns /\ world.next \in Live(d)
  BY <1>1, <1>2, CreationKeeps
<1>4. SpawnsOf(d, FALSE)
  BY <1>2, <1>3, AddsSpawns
<1> HIDE DEF d
<1>5. /\ Whole(n) /\ SpawnsOf(n, FALSE)
      /\ n.type = d.type /\ n.next = d.next /\ n.machines = d.machines
  BY <1>3, <1>4, RecordKeeps
<1> HIDE DEF n
<1>6. n # Denied
  BY <1>5 DEF Whole, Shaped, Fields, Denied
<1>7. Adds(world, n)
  BY <1>3, <1>5 DEF Adds, Aged, Live
<1> QED BY <1>1, <1>5, <1>6, <1>7, AloneTouches

LEMMA SetStep ==
  ASSUME IInv, NEW e, NEW c, NEW v, SetOrAttach(e, c, v)
  PROVE  IInv' /\ TouchesItsOwn
<1> DEFINE set == SetTo(world, e, c, v)
           new == Inserted(world, e, c, NewRow(c, v))
           d == IF set = Denied /\ CanSet(c, v) /\ ~Has(world, e, c) THEN new ELSE set
<1>1. d # Denied /\ Commit(d) /\ MayAttach(world.type[e], c, FALSE) /\ UNCHANGED calls
  BY DEF SetOrAttach
<1>2. Whole(world) /\ SpawnsOf(world, FALSE)
  BY <1>1, Upwards DEF Commit
<1>3. Whole(d) /\ Adds(world, d) /\ d.spawns = world.spawns
  <2>1. Checked(world.type[e], c, "attach")
    BY <1>1 DEF MayAttach, Checked
  <2>2. CASE d = new
    BY <2>1, <2>2, <1>1, <1>2, InsertKeeps
  <2>3. CASE d = set
    BY <2>3, <1>1, <1>2, SetKeeps
  <2> QED BY <2>2, <2>3
<1>4. SpawnsOf(d, FALSE)
  BY <1>2, <1>3, AddsSpawns
<1> HIDE DEF d
<1> QED BY <1>1, <1>3, <1>4, AloneTouches

LEMMA StartStep ==
  ASSUME IInv, NEW e, StartMachine(e)
  PROVE  IInv' /\ TouchesItsOwn
<1> DEFINE n == [world EXCEPT !.machines = @ \cup {e}]
<1>1. Commit(n) /\ UNCHANGED calls /\ e \in Live(world)
  BY DEF StartMachine
<1>2. Whole(world) /\ SpawnsOf(world, FALSE)
  BY <1>1, Upwards DEF Commit
<1>3. Whole(n) /\ Adds(world, n) /\ n.spawns = world.spawns
  BY <1>1, <1>2, StartKeeps
<1>4. SpawnsOf(n, FALSE) /\ n # Denied
  BY <1>2, <1>3, AddsSpawns DEF Whole, Shaped, Fields, Denied
<1> HIDE DEF n
<1> QED BY <1>1, <1>3, <1>4, AloneTouches

LEMMA DeleteStep ==
  ASSUME IInv, NEW e, DeleteEntity(e)
  PROVE  IInv' /\ TouchesItsOwn
<1> DEFINE n == Deleted(world, e)
<1>1. Commit(n) /\ UNCHANGED calls /\ e \in Live(world)
  BY DEF DeleteEntity
<1>2. Whole(world) /\ SpawnsOf(world, FALSE)
  BY <1>1, Upwards DEF Commit
<1>3. Whole(n) /\ Removes(world, n, e) /\ SpawnsOf(n, FALSE)
  BY <1>2, DeletionKeeps
<1> HIDE DEF n
<1>4. n # Denied
  BY <1>3 DEF Whole, Shaped, Fields, Denied
<1>5. DOMAIN calls' = Callers /\ \A j \in Callers : Quiet(calls'[j]) \/ calls'[j] = calls[j]
  BY <1>1 DEF IInv
<1>6. stage = "up" /\ stage' = stage /\ world' = n
  BY <1>1, <1>4 DEF Commit
<1>7. IInv'
  BY <1>1, <1>3, <1>4, <1>5, <1>6, CommitKeeps DEF Removes
<1>8. Live(world) \ Live(world') = {e}
  BY <1>1, <1>3, <1>6 DEF Removes
<1>9. DeletionsTakeTheirOwn
  <2>1. ASSUME NEW x \in DOMAIN world.rows
        PROVE  x[1] = e \/ PointsAt(world, x, e) \/ (x \in DOMAIN world'.rows /\ world'.rows[x] = world.rows[x])
    BY <1>3, <1>6 DEF Removes
  <2>2. world.machines \ {e} = world'.machines /\ world.queue \ {e} = world'.queue
    BY <1>3, <1>6 DEF Removes
  <2>3. \A o \in DOMAIN world.spawns : world.spawns[o].ent = e \/ o \in DOMAIN world'.spawns
    BY <1>3, <1>6 DEF Removes
  <2> QED BY <1>8, <2>1, <2>2, <2>3 DEF DeletionsTakeTheirOwn
<1> QED BY <1>1, <1>6, <1>7, <1>9 DEF TouchesItsOwn, StartsKeepRecords, CallsOverwriteNothing

LEMMA TickStep ==
  ASSUME IInv, Tick
  PROVE  IInv' /\ TouchesItsOwn
<1>1. CASE ~tick.stale /\ UNCHANGED <<calls, stage, spawnsTable>> /\ tick' = NoTick
           /\ \E e \in tick.seen : \E d \in MachineWrites(world, e) : d # Denied /\ world' = d
  <2>1. PICK e \in tick.seen : \E d \in MachineWrites(world, e) : d # Denied /\ world' = d
    BY <1>1
  <2>2. world' \in MachineWrites(world, e) /\ world' # Denied
    BY <2>1
  <2>3. tick.open /\ stage = "up" /\ tick.seen \subseteq world.machines
    BY <1>1 DEF Tick, IInv, TickHolds
  <2>4. Whole(world) /\ SpawnsOf(world, FALSE) /\ e \in Live(world)
    BY <2>1, <2>3, Upwards DEF Whole
  <2>5. Whole(world') /\ Adds(world, world') /\ world'.spawns = world.spawns
    BY <2>2, <2>4, MachinesKeep
  <2>6. SpawnsOf(world', FALSE)
    BY <2>4, <2>5, AddsSpawns
  <2>7. \A j \in Callers : CallHolds(world', calls'[j])
    BY <1>1, <2>4, <2>5, CallStays DEF IInv, Adds
  <2>8. TickHolds(world', tick', stage' = "up")
    BY <1>1 DEF TickHolds, NoTick
  <2>9. SpawnsOf(world', stage' = "open" /\ Old(spawnsTable'))
    BY <2>6 DEF SpawnsOf
  <2>10. IInv'
    BY <1>1, <2>5, <2>7, <2>8, <2>9 DEF IInv, Old
  <2> QED BY <1>1, <2>5, <2>10, AddingTouches
<1>2. CASE Off /\ UNCHANGED <<world, spawnsTable>>
  BY <1>2, OffKeeps, NothingTouched
<1> QED BY <1>1, <1>2 DEF Tick

LEMMA BeginStep ==
  ASSUME IInv, BeginTick
  PROVE  IInv' /\ TouchesItsOwn
<1>1. stage = "up" /\ UNCHANGED <<world, spawnsTable, stage, calls>>
      /\ tick' = [open |-> TRUE, seen |-> world.machines, stale |-> FALSE]
  BY DEF BeginTick
<1>2. TickHolds(world', tick', stage' = "up")
  BY <1>1 DEF TickHolds
<1> QED BY <1>1, <1>2, NothingTouched DEF IInv, Old

\* A call that reads: what it remembers is of this moment.
LEMMA AskStep ==
  ASSUME IInv, NEW k \in Callers, NEW op, NEW e, NEW c, NEW v, Ask(k, op, e, c, v)
  PROVE  IInv' /\ TouchesItsOwn
<1>1. UNCHANGED <<world, spawnsTable, stage, tick>> /\ e < world.next
  BY DEF Ask, Reads
<1>2. DOMAIN calls' = Callers /\ \A j \in Callers : CallHolds(world', calls'[j])
  <2>1. CASE \E said : Answer(k, said)
    BY <2>1, <1>1, Informed, QuietHolds DEF IInv
  <2>2. CASE /\ e \in Live(world) /\ (op = "detach" => MayDetach(world.type[e], c))
             /\ calls' = [calls EXCEPT ![k] = [at |-> IF op = "attach" THEN "typed" ELSE "checked", said |-> "nothing",
                                               op |-> op, ent |-> e, comp |-> c, val |-> v, type |-> world.type[e]]]
    <3>1. e \in 1..(world.next - 1)
      BY <2>2 DEF IInv, Whole, Shaped
    <3>2. op # "attach" => Checked(world.type[e], c, op)
      BY <2>2 DEF Checked, MayDetach
    <3>3. CallHolds(world', calls'[k])
      BY <2>2, <3>1, <3>2, <1>1 DEF CallHolds, IInv
    <3> QED BY <2>2, <3>3, <1>1 DEF IInv
  <2> QED BY <2>1, <2>2 DEF Ask
<1> QED BY <1>1, <1>2, NothingTouched DEF IInv, Old

LEMMA CheckStep ==
  ASSUME IInv, NEW k \in Callers, Check(k)
  PROVE  IInv' /\ TouchesItsOwn
<1>1. UNCHANGED <<world, spawnsTable, stage, tick>>
  BY DEF Check, Reads
<1>2. DOMAIN calls' = Callers /\ \A j \in Callers : CallHolds(world', calls'[j])
  <2>1. CASE \E said : Answer(k, said)
    BY <2>1, <1>1, Informed, QuietHolds DEF IInv
  <2>2. CASE /\ MayAttach(calls[k].type, calls[k].comp, Has(world, calls[k].ent, calls[k].comp))
             /\ calls' = [calls EXCEPT ![k].at = "checked"]
    <3>1. calls[k].at = "typed" /\ CallHolds(world, calls[k])
      BY DEF Check, IInv
    <3>2. Checked(calls[k].type, calls[k].comp, calls[k].op)
      BY <2>2, <3>1 DEF Checked, MayAttach, CallHolds
    <3>3. CallHolds(world', calls'[k])
      BY <2>2, <3>1, <3>2, <1>1 DEF CallHolds, IInv
    <3> QED BY <2>2, <3>3, <1>1 DEF IInv
  <2> QED BY <2>1, <2>2 DEF Check
<1> QED BY <1>1, <1>2, NothingTouched DEF IInv, Old

-----------------------------------------------------------------------------
(* A start *)

LEMMA RebuildStep ==
  ASSUME IInv, Rebuild
  PROVE  IInv' /\ TouchesItsOwn
<1> DEFINE kept == {o \in DOMAIN world.spawns : world.spawns[o].ent # Nothing}
           without == [world EXCEPT !.spawns = Restrict(@, kept)]
<1>1. /\ stage = "open" /\ stage' = "rebuilt" /\ UNCHANGED <<calls, tick>>
      /\ DOMAIN spawnsTable' = DOMAIN spawnsTable
      /\ world' = IF Old(spawnsTable) THEN without ELSE world
  BY DEF Rebuild, Keeping, Old, IInv
<1>2. /\ world'.type = world.type /\ world'.rows = world.rows /\ world'.machines = world.machines
      /\ world'.queue = world.queue /\ world'.next = world.next /\ world'.bare = world.bare
      /\ DOMAIN world' = Fields
  BY <1>1 DEF IInv, Whole, Shaped, Fields
<1>3. /\ \A o \in DOMAIN world.spawns : world.spawns[o].ent # Nothing =>
             o \in DOMAIN world'.spawns /\ world'.spawns[o] = world.spawns[o]
      /\ SpawnsOf(world', FALSE)
  <2>1. CASE ~Old(spawnsTable)
    BY <2>1, <1>1 DEF IInv, SpawnsOf
  <2>2. CASE Old(spawnsTable)
    <3>1. world'.spawns = Restrict(world.spawns, kept)
      BY <2>2, <1>1 DEF IInv, Whole, Shaped, Fields
    <3>2. DOMAIN world'.spawns = kept /\ \A o \in kept : world'.spawns[o] = world.spawns[o]
      BY <3>1 DEF Restrict
    <3>3. ASSUME NEW o \in DOMAIN world'.spawns PROVE world'.spawns[o].ent \in Live(world')
      BY <3>2, <1>2 DEF IInv, SpawnsOf, Live
    <3> QED BY <3>2, <3>3 DEF SpawnsOf
  <2> QED BY <2>1, <2>2
<1>4. Live(world') = Live(world)
  BY <1>2 DEF Live
<1>5. Whole(world')
  <2>1. Shaped(world')
    BY <1>2, <1>4 DEF IInv, Whole, Shaped
  <2>2. RowsAreSound(world')
    BY <1>2, <1>4, SoundStays DEF IInv, Whole, RowsAreSound
  <2>3. ContractsHold(world')
    BY <1>2, <1>4 DEF IInv, Whole, ContractsHold, Has
  <2> QED BY <2>1, <2>2, <2>3, <1>2, <1>4 DEF IInv, Whole
<1>6. Aged(world, world')
  BY <1>2, <1>4, NextIsFree DEF Aged, IInv
<1>7. \A j \in Callers : CallHolds(world', calls'[j])
  BY <1>1, <1>6, CallStays DEF IInv
<1>8. TickHolds(world', tick', stage' = "up")
  BY <1>1, <1>2 DEF IInv, TickHolds
<1>9. SpawnsOf(world', stage' = "open" /\ Old(spawnsTable'))
  BY <1>3 DEF SpawnsOf
<1>10. IInv'
  BY <1>1, <1>5, <1>7, <1>8, <1>9 DEF IInv, Old
<1>11. DeletionsTakeTheirOwn
  BY <1>4 DEF DeletionsTakeTheirOwn
<1> QED BY <1>1, <1>2, <1>3, <1>10, <1>11 DEF TouchesItsOwn, StartsKeepRecords, CallsOverwriteNothing

LEMMA TablesStep ==
  ASSUME IInv, MakeTables \/ AddSnapshots
  PROVE  IInv' /\ TouchesItsOwn
<1>1. /\ stage # "open" /\ stage # "up" /\ stage' # "open" /\ UNCHANGED <<world, calls, tick>>
      /\ DOMAIN spawnsTable' = {"made", "cascades", "column"}
  BY DEF MakeTables, AddSnapshots, Keeping, IInv
<1>2. SpawnsOf(world', stage' = "open" /\ Old(spawnsTable'))
  BY <1>1 DEF IInv, SpawnsOf
<1>3. TickHolds(world', tick', stage' = "up")
  BY <1>1 DEF IInv, TickHolds
<1> QED BY <1>1, <1>2, <1>3, NothingTouched DEF IInv, Old

-----------------------------------------------------------------------------
(* The theorems *)

LEMMA FirstHolds == WorldInit => IInv
<1> SUFFICES ASSUME WorldInit PROVE IInv
  OBVIOUS
<1>1. PICK found \in Found : world = found.world /\ spawnsTable = found.table
  BY DEF WorldInit
<1>2. /\ Whole(world) /\ DOMAIN spawnsTable = {"made", "cascades", "column"}
      /\ SpawnsOf(world, Old(spawnsTable))
  BY <1>1, FoundAssumption DEF Whole, Shaped, Fields
<1>3. stage = "open" /\ calls = [k \in Callers |-> Idle] /\ tick = NoTick
  BY DEF WorldInit
<1>4. DOMAIN calls = Callers /\ \A k \in Callers : CallHolds(world, calls[k])
  BY <1>3, QuietHolds DEF Quiet, Idle
<1>5. TickHolds(world, tick, stage = "up")
  BY <1>3 DEF TickHolds, NoTick
<1>6. SpawnsOf(world, stage = "open" /\ Old(spawnsTable))
  BY <1>2, <1>3 DEF SpawnsOf
<1> QED BY <1>2, <1>4, <1>5, <1>6 DEF IInv

LEMMA StepHolds == IInv /\ [WorldNext]_worldVars => IInv' /\ (TouchesItsOwn \/ UNCHANGED worldVars)
<1> SUFFICES ASSUME IInv, [WorldNext]_worldVars PROVE IInv' /\ (TouchesItsOwn \/ UNCHANGED worldVars)
  OBVIOUS
<1>1. CASE Rebuild \/ MakeTables \/ AddSnapshots
  BY <1>1, RebuildStep, TablesStep
<1>2. CASE Killed
  BY <1>2, OffKeeps, NothingTouched DEF Killed
<1>3. CASE BeginTick
  BY <1>3, BeginStep
<1>4. CASE Tick
  BY <1>4, TickStep
<1>5. ASSUME NEW k \in Callers, Check(k) \/ AttachComponent(k) \/ DetachComponent(k)
      PROVE  IInv' /\ TouchesItsOwn
  BY <1>5, CheckStep, AttachStep, DetachStep
<1>6. ASSUME NEW k \in Callers, NEW birth \in Creations, CreateEntity(k, birth[1], birth[2])
      PROVE  IInv' /\ TouchesItsOwn
  BY <1>6, CreateStep
<1>7. ASSUME NEW k \in Callers, NEW op, NEW e, NEW c, NEW v, Ask(k, op, e, c, v)
      PROVE  IInv' /\ TouchesItsOwn
  BY <1>7, AskStep
<1>8. ASSUME NEW o \in MapObjects, NEW birth \in Creations, SpawnObject(o, birth[1], birth[2])
      PROVE  IInv' /\ TouchesItsOwn
  BY <1>8, SpawnStep
<1>9. ASSUME NEW e \in Live(world),
             DeleteEntity(e) \/ StartMachine(e) \/ \E cv \in Offered : SetOrAttach(e, cv[1], cv[2])
      PROVE  IInv' /\ TouchesItsOwn
  BY <1>9, DeleteStep, StartStep, SetStep
<1>10. CASE UNCHANGED worldVars
  BY <1>10 DEF worldVars, IInv, Old
<1> QED BY <1>1, <1>2, <1>3, <1>4, <1>5, <1>6, <1>7, <1>8, <1>9, <1>10 DEF WorldNext

\* What is in the database belongs together in every state, whatever the schema,
\* the callers and the machines: no check that is late by a few steps, no delete
\* between them and no kill during a start leaves a row, an event or a spawn of
\* nobody, or an entity its type does not allow.
THEOREM EntitiesWhole == WorldSpec => []EntitiesAreWhole
<1>1. IInv => EntitiesAreWhole
  BY Upwards DEF IInv, Whole, EntitiesAreWhole
<1> QED BY <1>1, FirstHolds, StepHolds, PTL DEF WorldSpec

\* No step touches what it was not asked for: a call overwrites no row, a deletion
\* takes exactly what is its own or points at it, a start drops no spawn that lives.
THEOREM NothingElse == WorldSpec => NothingElseIsTouched
<1> QED BY FirstHolds, StepHolds, PTL DEF WorldSpec, NothingElseIsTouched

-----------------------------------------------------------------------------
(* Opening: what the migration changes can be restored                     *)

JustMade == [version |-> db.version, stamp |-> opens, of |-> changes]
IsBackup(b) == b.version \in Int /\ b.stamp \in Nat
BackupsSound == IsFiniteSet(backups) /\ \A b \in backups : IsBackup(b) /\ b.stamp <= opens
DatabaseSound == db # NoDatabase \/ ~Down => IsDatabase(db)

\* What was just made is there, or something pruning prefers to it.
MadeOrNewer == JustMade \in backups \/ \E b \in backups : b.version > db.version

OpenInv ==
  /\ file \in Schemas /\ opens \in Nat
  /\ DatabaseSound /\ BackupsSound
  /\ open.at \in {"backup", "prune"} => Retention > 0
  /\ open.at = "prune" => JustMade \in backups
  /\ open.at = "apply" /\ open.saved => MadeOrNewer

\* Of what a finite set of backups holds of later versions than v, something is
\* the newest.
LEMMA NewestAbove ==
  ASSUME NEW bs, IsFiniteSet(bs), \A b \in bs : IsBackup(b),
         NEW v \in Int, \E b \in bs : b.version > v
  PROVE  \E b \in bs : b.version > v /\ {c \in bs : OlderThan(b, c)} = {}
<1> DEFINE Newer(b) == {c \in bs : OlderThan(b, c)}
           Rank(b) == Cardinality(Newer(b))
           Ranks == {Rank(b) : b \in {c \in bs : c.version > v}}
<1>1. \A b \in bs : IsFiniteSet(Newer(b)) /\ Rank(b) \in Nat
  BY FS_Subset, FS_CardinalityType
<1>2. Ranks \subseteq Nat
  BY <1>1
<1>3. Ranks # {}
  OBVIOUS
<1>4. PICK r \in Ranks : \A n \in Ranks : r <= n
  <2> DEFINE less == {ab \in Nat \X Nat : ab[1] < ab[2]}
  <2>1. IsWellFoundedOn(less, Nat)
    BY NatLessThanWellFounded DEF OpToRel
  <2>2. \A m, k \in Nat : <<m, k>> \in less <=> m < k
    OBVIOUS
  <2> HIDE DEF Ranks, less
  <2>3. PICK r \in Ranks : \A n \in Ranks : ~(<<n, r>> \in less)
    BY <1>2, <1>3, <2>1, WFMin
  <2>4. ASSUME NEW n \in Ranks PROVE r <= n
    <3>1. n \in Nat /\ r \in Nat
      BY <1>2
    <3>2. ~(n < r)
      BY <2>2, <2>3, <3>1
    <3> QED BY <3>1, <3>2
  <2> QED BY <2>4
<1>5. PICK b \in bs : b.version > v /\ r = Rank(b)
  BY <1>4
<1>6. ASSUME NEW c \in Newer(b) PROVE FALSE
  <2>1. c \in bs /\ OlderThan(b, c)
    BY <1>6
  <2>2. IsBackup(b) /\ IsBackup(c)
    BY <1>5, <2>1
  <2>3. c.version > v
    BY <1>5, <2>1, <2>2 DEF OlderThan, IsBackup
  <2>4. Newer(c) \subseteq Newer(b)
    <3> SUFFICES ASSUME NEW d \in bs, OlderThan(c, d) PROVE OlderThan(b, d)
      OBVIOUS
    <3>1. IsBackup(d)
      OBVIOUS
    <3> QED BY <2>1, <2>2, <3>1 DEF OlderThan, IsBackup
  <2>5. c \notin Newer(c)
    BY <2>2 DEF OlderThan, IsBackup
  <2>6. Rank(c) < Rank(b)
    <3> HIDE DEF Newer
    <3>1. IsFiniteSet(Newer(b)) /\ Newer(c) \subseteq Newer(b) /\ Newer(c) # Newer(b)
      BY <1>1, <1>5, <1>6, <2>4, <2>5
    <3>2. Rank(c) <= Rank(b) /\ (Rank(c) = Rank(b) => Newer(c) = Newer(b))
      BY <3>1, FS_Subset
    <3> QED BY <1>1, <1>5, <2>1, <3>1, <3>2
  <2>7. Rank(c) \in Ranks
    BY <2>1, <2>3
  <2>8. r \in Nat /\ Rank(c) \in Nat
    BY <1>1, <1>2, <1>4, <2>1
  <2> QED
    <3> HIDE DEF Rank, Ranks
    <3> QED BY <1>4, <1>5, <2>6, <2>7, <2>8
<1> QED BY <1>5, <1>6

LEMMA NewestStays ==
  ASSUME NEW bs, NEW b \in bs, {c \in bs : OlderThan(b, c)} = {}, Retention > 0,
         NEW removed \in SUBSET Doomed(bs)
  PROVE  b \in bs \ removed
<1>1. Cardinality({c \in bs : OlderThan(b, c)}) = 0
  BY FS_EmptySet
<1>2. Retention \in Nat
  BY CountsAssumption
<1>3. ~(Cardinality({c \in bs : OlderThan(b, c)}) >= Retention)
  BY <1>1, <1>2
<1> QED BY <1>3 DEF Doomed

LEMMA PruneKeeps ==
  ASSUME OpenInv, Prune
  PROVE  MadeOrNewer'
<1>1. PICK removed \in SUBSET Doomed(backups) : backups' = backups \ removed
  BY DEF Prune
<1>2. UNCHANGED <<db, opens, changes>> /\ open.at = "prune"
  BY DEF Prune
<1>3. JustMade \in backups /\ Retention > 0 /\ db.version \in Int
  BY <1>2 DEF OpenInv, DatabaseSound, IsDatabase, Down
<1>4. CASE \E b \in backups : b.version > db.version
  <2>1. PICK b \in backups : b.version > db.version /\ {c \in backups : OlderThan(b, c)} = {}
    BY <1>3, <1>4, NewestAbove DEF OpenInv, BackupsSound
  <2>2. b \in backups'
    BY <1>1, <1>3, <2>1, NewestStays
  <2> QED BY <1>2, <2>1, <2>2 DEF MadeOrNewer
<1>5. CASE ~\E b \in backups : b.version > db.version
  <2>1. ASSUME NEW c \in backups PROVE ~OlderThan(JustMade, c)
    BY <1>3, <1>5, <2>1 DEF OpenInv, BackupsSound, IsBackup, OlderThan, JustMade
  <2>2. JustMade \in backups'
    BY <1>1, <1>3, <2>1, NewestStays
  <2>3. JustMade' = JustMade
    BY <1>2 DEF JustMade
  <2> QED BY <2>2, <2>3 DEF MadeOrNewer
<1> QED BY <1>4, <1>5

LEMMA BackupAdded ==
  ASSUME OpenInv, TakeBackup
  PROVE  BackupsSound' /\ JustMade' \in backups'
<1>1. backups' = backups \cup {JustMade} /\ UNCHANGED <<db, opens, changes>> /\ open.at = "backup"
  BY DEF TakeBackup, JustMade
<1>2. IsBackup(JustMade) /\ JustMade.stamp <= opens
  BY <1>1 DEF OpenInv, DatabaseSound, IsDatabase, Down, JustMade, IsBackup
<1>3. IsFiniteSet(backups')
  BY <1>1, FS_AddElement DEF OpenInv, BackupsSound
<1>4. \A b \in backups' : IsBackup(b) /\ b.stamp <= opens'
  BY <1>1, <1>2 DEF OpenInv, BackupsSound
<1>5. JustMade' = JustMade
  BY <1>1 DEF JustMade
<1> QED BY <1>1, <1>3, <1>4, <1>5 DEF BackupsSound

LEMMA OpenInvInit == Init => OpenInv
<1> SUFFICES ASSUME Init PROVE OpenInv
  OBVIOUS
<1>1. DatabaseSound
  BY VersionsAssumption DEF Init, DatabaseSound, Down, Closed
<1>2. BackupsSound
  BY FS_EmptySet DEF Init, BackupsSound
<1> QED BY <1>1, <1>2 DEF Init, OpenInv, Closed

LEMMA OpenInvStep == OpenInv /\ [Next]_vars => OpenInv'
<1> SUFFICES ASSUME OpenInv, [Next]_vars PROVE OpenInv'
  OBVIOUS
<1>1. ASSUME UNCHANGED backups, opens' \in Nat, opens' >= opens PROVE BackupsSound'
  BY <1>1 DEF OpenInv, BackupsSound, IsBackup
<1>2. ASSUME UNCHANGED <<db, backups, changes, opens>>
      PROVE  BackupsSound' /\ opens' \in Nat /\ MadeOrNewer' = MadeOrNewer /\ JustMade' = JustMade
  BY <1>2 DEF OpenInv, BackupsSound, MadeOrNewer, JustMade
<1> DEFINE Sooner == ~Down \/ db # NoDatabase
<1>0. ASSUME UNCHANGED db, Sooner \/ Down' PROVE DatabaseSound'
  BY <1>0 DEF OpenInv, DatabaseSound, IsDatabase
<1>3. CASE EditSchema
  <2>1. Down' /\ open.at \notin {"backup", "prune", "apply"} /\ file' \in Schemas /\ UNCHANGED <<db, backups, changes, opens, open>>
    BY <1>3 DEF EditSchema, Down
  <2> QED BY <1>0, <1>2, <2>1 DEF OpenInv
<1>4. CASE Bootstrap
  <2>1. DatabaseSound' /\ file' \in Schemas /\ opens' \in Nat /\ opens' >= opens /\ open'.at = "running"
    BY <1>4, VersionsAssumption DEF Bootstrap, Bootstrapped, DatabaseSound, IsDatabase, OpenInv, Running
  <2>2. BackupsSound'
    BY <1>1, <1>4, <2>1 DEF Bootstrap
  <2> QED BY <2>1, <2>2 DEF OpenInv
<1>5. CASE OpenAsIs
  <2>1. DatabaseSound' /\ file' \in Schemas /\ opens' \in Nat /\ opens' >= opens /\ open'.at = "running"
    BY <1>0, <1>5 DEF OpenAsIs, OpenInv, Running
  <2>2. BackupsSound'
    BY <1>1, <1>5, <2>1 DEF OpenAsIs
  <2> QED BY <2>1, <2>2 DEF OpenInv
<1>6. CASE OpenToMigrate
  <2>1. PICK policy \in Policies :
          open' = Opening(IF Retention > 0 THEN "backup" ELSE "apply", policy, FALSE)
    BY <1>6 DEF OpenToMigrate
  <2>2. DatabaseSound' /\ file' \in Schemas /\ opens' \in Nat /\ opens' >= opens
    BY <1>0, <1>6 DEF OpenToMigrate, OpenInv
  <2>3. BackupsSound'
    BY <1>1, <1>6, <2>2 DEF OpenToMigrate
  <2>4. open'.at = (IF Retention > 0 THEN "backup" ELSE "apply") /\ open'.saved = FALSE
    BY <2>1 DEF Opening
  <2> QED BY <2>2, <2>3, <2>4 DEF OpenInv
<1>7. CASE TakeBackup
  <2>1. DatabaseSound' /\ Retention > 0 /\ file' \in Schemas /\ opens' \in Nat
    BY <1>0, <1>7 DEF TakeBackup, Down, OpenInv
  <2>2. open'.at = "prune"
    BY <1>7 DEF TakeBackup, Opening
  <2> QED BY <1>7, <2>1, <2>2, BackupAdded DEF OpenInv
<1>8. CASE BackupFails
  <2>1. open'.at = "apply" /\ open'.saved = FALSE
    BY <1>8 DEF BackupFails, Opening
  <2>2. DatabaseSound' /\ file' \in Schemas
    BY <1>0, <1>8 DEF BackupFails, Down, OpenInv
  <2> QED BY <1>2, <1>8, <2>1, <2>2 DEF BackupFails, OpenInv
<1>9. CASE Prune
  <2>1. open'.at = "apply"
    BY <1>9 DEF Prune, Opening
  <2>2. BackupsSound'
    <3>1. PICK removed \in SUBSET Doomed(backups) : backups' = backups \ removed
      BY <1>9 DEF Prune
    <3> QED BY <1>9, <3>1, FS_Subset DEF Prune, OpenInv, BackupsSound
  <2>3. DatabaseSound' /\ file' \in Schemas /\ opens' \in Nat
    BY <1>0, <1>9 DEF Prune, Down, OpenInv
  <2> QED BY <1>9, <2>1, <2>2, <2>3, PruneKeeps DEF OpenInv
<1>10. CASE Refuse
  <2>1. open'.at = "refused" /\ UNCHANGED <<file, db, backups, changes, opens>>
    BY <1>10 DEF Refuse, Refused
  <2>2. Down'
    BY <2>1 DEF Down
  <2> QED BY <1>0, <1>2, <2>1, <2>2 DEF OpenInv
<1>11. CASE Apply
  <2> DEFINE after == Migrated(db, Statements(db, file), file.version)
  <2>1. after = Failed \/ IsDatabase(after)
    BY VersionsAssumption DEF Migrated, IsDatabase, OpenInv
  <2>2. open'.at \in {"broken", "running"} /\ (db' = db \/ (after # Failed /\ db' = after))
        /\ UNCHANGED <<file, backups, opens>>
    <3> HIDE DEF after
    <3>1. IF after = Failed
          THEN open' = Broken /\ UNCHANGED <<db, changes>>
          ELSE open' = Running /\ db' = after /\ changes' = changes + 1
      BY <1>11 DEF Apply, after
    <3> QED BY <1>11, <3>1 DEF Apply, Broken, Running
  <2>3. DatabaseSound'
    <3> HIDE DEF after
    <3>1. CASE db' = db
      BY <1>0, <1>11, <3>1 DEF Apply, Down
    <3>2. CASE after # Failed /\ db' = after
      BY <2>1, <3>2 DEF DatabaseSound, IsDatabase
    <3> QED BY <2>2, <3>1, <3>2
  <2>4. BackupsSound'
    BY <1>1, <2>2 DEF OpenInv
  <2> QED BY <2>2, <2>3, <2>4 DEF OpenInv
<1>12. CASE Write
  <2>1. open'.at = "running" /\ UNCHANGED <<file, backups, opens>>
    BY <1>12 DEF Write
  <2>2. DatabaseSound'
    <3>1. IsDatabase(db)
      BY <1>12 DEF Write, Down, OpenInv, DatabaseSound
    <3>2. PICK blank \in BOOLEAN, types \in SUBSET DOMAIN file.types :
            db' = [db EXCEPT
                     !.tables = [c \in DOMAIN @ |->
                        [@[c] EXCEPT !.row = [p \in DOMAIN @ |->
                           IF blank /\ db.tables[c].cols[p].null THEN Null ELSE <<c, p>>]]],
                     !.types = @ \cup types]
      BY <1>12 DEF Write
    <3>3. \E t, u : db' = [db EXCEPT !.tables = t, !.types = u]
      BY <3>2
    <3>4. db'.version = db.version /\ IsDatabase(db)'
      BY <3>1, <3>3 DEF IsDatabase
    <3> QED BY <3>4 DEF DatabaseSound
  <2>3. BackupsSound'
    BY <1>1, <2>1 DEF OpenInv
  <2> QED BY <2>1, <2>2, <2>3 DEF OpenInv
<1>13. CASE Stop
  <2>1. open'.at = "closed" /\ UNCHANGED <<file, db, backups, changes, opens>>
    BY <1>13 DEF Stop, Closed
  <2>2. Down'
    BY <2>1 DEF Down
  <2> QED BY <1>0, <1>2, <2>1, <2>2 DEF OpenInv
<1>14. CASE UNCHANGED vars
  <2>1. UNCHANGED <<file, db, backups, changes, opens, open>>
    BY <1>14 DEF vars
  <2>2. DatabaseSound'
    BY <2>1 DEF OpenInv, DatabaseSound, IsDatabase, Down
  <2> QED BY <1>2, <2>1, <2>2 DEF OpenInv
<1> QED BY <1>3, <1>4, <1>5, <1>6, <1>7, <1>8, <1>9, <1>10, <1>11, <1>12, <1>13, <1>14 DEF Next

\* Whatever schemas somebody writes, however often the engine is opened, killed
\* and its backups fail, and however few backups are kept: pruning never takes
\* the one the coming migration is to be undone from, unless the database has
\* gone back to an older version of its schema.  (database.go, backupDatabase,
\* pruneBackups)
THEOREM BackupSurvives == Spec => []SafeToMigrate
<1>1. ASSUME OpenInv PROVE SafeToMigrate
  <2> SUFFICES ASSUME open.at = "apply", open.saved, \A b \in backups : b.version <= db.version
               PROVE  \E b \in backups : b.of = changes
    BY <1>1 DEF SafeToMigrate
  <2>1. CASE JustMade \in backups
    BY <2>1 DEF JustMade
  <2>2. CASE \E b \in backups : b.version > db.version
    <3>1. PICK b \in backups : b.version > db.version
      BY <2>2
    <3>2. b.version <= db.version /\ b.version \in Int
      BY <1>1, <3>1 DEF OpenInv, BackupsSound, IsBackup
    <3>3. db.version \in Int
      BY <1>1 DEF OpenInv, DatabaseSound, IsDatabase, Down
    <3> QED BY <3>1, <3>2, <3>3
  <2> QED BY <1>1, <2>1, <2>2 DEF OpenInv, MadeOrNewer
<1> QED BY <1>1, OpenInvInit, OpenInvStep, PTL DEF Spec
==============================================================================
