------------------------------ MODULE MCStorage ------------------------------
(***************************************************************************)
(* The database, of two sides that share no state in the models: how it is *)
(* opened and migrated, and what the world service, machines and importers *)
(* do to what is in it.                                                    *)
(***************************************************************************)
EXTENDS DatabaseOpen, EntityService

CONSTANTS a, b, first, second

\* b is called what a is, and "_new" after it.
TableNames == <<a, b>>
NewNames == a :> b
TableColumns == <<Target, Value, first, second>>

\* Components: one of each layout, and objects whose properties are added,
\* renamed, retyped and made references.
Prop(t, from) == [type |-> t, from |-> from]
Whole(t) == [type |-> t, props |-> <<>>]
Object(props) == [type |-> "object", props |-> props]
Shapes ==
  {Whole("string"), Whole("integer"), Whole("entity-ref"), Object(<<>>)}
  \cup {Object(first :> Prop(t, NoName)) : t \in {"integer", "entity-ref", "string"}}
  \cup {Object(second :> Prop(t, first)) : t \in {"integer", "entity-ref"}}
  \cup {Object(Value :> Prop(t, NoName)) : t \in {"integer", "entity-ref"}}
  \cup {Object(first :> Prop("integer", NoName) @@ second :> Prop("entity-ref", Value))}
Carrying(shape, from) == [type |-> shape.type, props |-> shape.props, from |-> from]

Schema(version, comps, types) == [version |-> version, comps |-> comps, types |-> types]
TheType == "creature" :> NoName
Retyped == "monster" :> "creature"

AllSchemas ==
  {Schema(1, a :> Carrying(s, NoName), TheType) : s \in Shapes}
  \cup {Schema(2, b :> Carrying(s, a), Retyped) : s \in Shapes}
  \cup {Schema(1, a :> Carrying(s, NoName) @@ b :> Carrying(Whole("string"), NoName), TheType) :
          s \in {Whole("string"), Object(first :> Prop("integer", NoName))}}
  \cup {Schema(1, a :> Carrying(Whole("string"), NoName) @@ b :> Carrying(Object(first :> Prop("integer", NoName)), NoName), TheType)}
  \cup {Schema(2, <<>>, Retyped)}

\* What Epic 2's generator left of a schema: references that refuse the delete,
\* or none where they are part of an object.
OlderColumns(comp) ==
  [p \in DOMAIN Built(comp) |->
     IF Built(comp)[p].ref = "none" THEN Built(comp)[p]
     ELSE [sql |-> "INTEGER", null |-> FALSE, ref |-> IF IsObject(comp) THEN "none" ELSE "refuse"]]
OlderDatabases ==
  {[version |-> s.version, types |-> DOMAIN s.types,
    tables |-> [c \in DOMAIN s.comps |->
                  [cols |-> OlderColumns(s.comps[c]),
                   row  |-> [p \in DOMAIN OlderColumns(s.comps[c]) |-> <<c, p>>]]]] : s \in AllSchemas}

-----------------------------------------------------------------------------
(* What is in it.  A goblin has to have a Home, and Health, whose owner    *)
(* may be nobody, and may have a Target; a totem may have anything, and is *)
(* expected to have a Home.                                                *)

Contract(required, optional, extras, strict) ==
  [required |-> required, optional |-> optional, extras |-> extras, strict |-> strict]
TypeContracts ==
  "goblin" :> Contract({"Health", "Home"}, {"Target"}, FALSE, TRUE) @@ "totem" :> Contract({"Home"}, {}, TRUE, FALSE)
Kinds == "Health" :> "object" @@ "Target" :> "ref" @@ "Home" :> "scalar"
Properties == "Health" :> {"hp", "owner"}
Owners == "Health" :> {"owner"} @@ "Home" :> {}

Hp(v) == "hp" :> v
Offers ==
  {<<"Health", Hp(5)>>, <<"Health", Hp(5) @@ "owner" :> 1>>, <<"Target", "target" :> 1>>, <<"Home", <<>> >>}
Moves == {<<"Health", "owner" :> 2>>, <<"Target", "target_entity_id" :> 2>>}
Home == "Home" :> ("value" :> 1)
Births ==
  {<<"goblin", Home @@ "Health" :> Hp(1)>>, <<"goblin", Home @@ "Health" :> Hp(1) @@ "Target" :> ("target" :> 1)>>,
   <<"goblin", Home>>, <<"totem", <<>> >>}

\* No table of spawns yet, and a totem; one whose key leaves rows of nobody behind; one of
\* this version, of before there were snapshots.
Goblin(hp) == [hp |-> hp, owner |-> Nothing]
Nobody ==
  [type |-> <<>>, rows |-> <<>>, machines |-> {}, queue |-> {}, spawns |-> <<>>, next |-> 1, bare |-> {}]
Somebody ==
  [Nobody EXCEPT !.type = <<"goblin">>, !.rows = <<1, "Health">> :> Goblin(1) @@ <<1, "Home">> :> [value |-> 1], !.next = 2, !.machines = {1}]
Totem == [Nobody EXCEPT !.type = <<"totem">>, !.next = 2]
Spawned(found, spawns) == [found EXCEPT !.spawns = spawns]
Of(e) == [ent |-> e, known |-> FALSE]
Made(made, cascades, column) == [made |-> made, cascades |-> cascades, column |-> column]
Databases ==
  {[world |-> Totem, table |-> Made(FALSE, FALSE, FALSE)],
   [world |-> Spawned(Somebody, 1 :> Of(1) @@ 2 :> Of(Nothing)), table |-> Made(TRUE, FALSE, FALSE)],
   [world |-> Spawned(Somebody, 1 :> Of(1)), table |-> Made(TRUE, TRUE, FALSE)]}

-----------------------------------------------------------------------------
VARIABLE side

StorageInit ==
  /\ side \in {"opening", "inside"} /\ Init /\ WorldInit
  /\ side = "opening" => world = Totem
  /\ side = "inside" => db = NoDatabase /\ file = CHOOSE s \in Schemas : s.comps = <<>>

StorageNext ==
  \/ side = "opening" /\ Next /\ UNCHANGED <<side, worldVars>>
  \/ side = "inside" /\ WorldNext /\ UNCHANGED <<side, vars>>

StorageSpec == StorageInit /\ [][StorageNext]_<<side, vars, worldVars>>
=============================================================================
