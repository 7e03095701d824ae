------------------------------ MODULE SchemaEdits ------------------------------
(***************************************************************************)
(* What Forge's SCHEMA and ENTS modes do to a schema, and what the engine  *)
(* requires of one.                                                        *)
(*                                                                         *)
(* A schema is what SchemaDiff reads of it -- version, comps, types --     *)
(* with, for every entity type, the components it names, uses[t] = [req,   *)
(* opt]; the interaction rules, a component to the capabilities its        *)
(* categories allow; and order, ComponentOrder: the places of components,  *)
(* those that were deleted included, each at its first place, the only one *)
(* that jsonorder.Apply looks at.                                          *)
(*                                                                         *)
(* Names are what strings.ToLower leaves of them, and identifiers.  An     *)
(* array always has its items.  Behaviors, validation levels, extras and   *)
(* the version number are left out: no edit below reads them.              *)
(***************************************************************************)
EXTENDS SchemaDiff

CONSTANTS TypeNames,
          Shapes,        \* component types
          FieldTypes,    \* property types
          Kind,          \* the property "kind" of an interaction component
          Reserved       \* identifiers that can be no column: "order", "entity_id"

Names == ToSet(CompNames)
Fields == ToSet(ColumnNames)

ASSUME ShapesAssumption == "object" \in Shapes /\ "number" \in FieldTypes
ASSUME KindAssumption == Kind \in Fields /\ NoName \notin TypeNames
ASSUME ReservedAssumption ==
  Target \in Reserved /\ Reserved \subseteq Fields /\ {Kind, Value} \cap Reserved = {}

-----------------------------------------------------------------------------
(* What makes a schema good *)

\* Component.UnmarshalJSON.
Loadable(s) == \A c \in DOMAIN s.comps : IsObject(s.comps[c]) => DOMAIN s.comps[c].props # {}

\* validateStructure, validateCrossReference.
Complete(s) == DOMAIN s.comps # {} /\ DOMAIN s.types # {}
UsesDeclared(s) ==
  \A t \in DOMAIN s.uses : /\ s.uses[t].req \cup s.uses[t].opt \subseteq DOMAIN s.comps
                           /\ s.uses[t].req \cap s.uses[t].opt = {}

\* validateInteractions.
RulesDeclared(s) ==
  \A c \in DOMAIN s.rules :
    /\ c \in DOMAIN s.comps
    /\ IsObject(s.comps[c]) /\ Kind \in DOMAIN s.comps[c].props
    /\ s.comps[c].props[Kind].type = "string"
    /\ \A able \in s.rules[c] : able \in DOMAIN s.comps /\ s.comps[able].type = "boolean"

\* validateRenames: what is renamed is gone, and became one thing.
Unclaimed(froms) ==
  \A n \in DOMAIN froms : froms[n] # NoName =>
    /\ froms[n] \notin DOMAIN froms
    /\ \A m \in DOMAIN froms : froms[m] = froms[n] => m = n
RenamesApply(s) ==
  /\ Unclaimed([c \in DOMAIN s.comps |-> s.comps[c].from])
  /\ Unclaimed(s.types)
  /\ \A c \in DOMAIN s.comps :
       Unclaimed([p \in DOMAIN s.comps[c].props |-> s.comps[c].props[p].from])

\* validateIdentifiers, of names that are identifiers.
NamesUsable(s) == \A c \in DOMAIN s.comps : DOMAIN s.comps[c].props \cap Reserved = {}

\* ValidateSchema.
HoldsTogether(s) == Complete(s) /\ UsesDeclared(s) /\ RulesDeclared(s) /\ RenamesApply(s)
Valid(s) == HoldsTogether(s) /\ NamesUsable(s)

-----------------------------------------------------------------------------
(* Places *)

FirstPlaces(order) ==
  FoldLeft(LAMBDA done, n : IF n \in ToSet(done) THEN done ELSE Append(done, n), <<>>, order)

\* orderedKeys.  Every component has a place: the file gave it one, or
\* addComponent did.
Ordered(s) == SelectSeq(s.order, LAMBDA n : n \in DOMAIN s.comps)

\* What Marshal writes, and LoadSchema reads again.
Marshal(s) == [s EXCEPT !.order = Ordered(s)]

-----------------------------------------------------------------------------
(* Components and their fields *)

Replaced(set, old, new) == IF old \in set THEN (set \ {old}) \cup {new} ELSE set

NewProps == Value :> [type |-> "number", from |-> NoName]

\* addComponent.
WithComponent(s, n) ==
  [s EXCEPT !.comps = (n :> [type |-> "object", from |-> NoName, props |-> NewProps]) @@ @,
            !.order = FirstPlaces(Append(@, n))]

\* renameComponent: in its place, and in the entity types that name it.
ComponentRenamed(s, old, new) ==
  [s EXCEPT !.comps = Move(@, old, new),
            !.order = FirstPlaces([i \in DOMAIN @ |-> IF @[i] = old THEN new ELSE @[i]]),
            !.uses = [t \in DOMAIN @ |-> [req |-> Replaced(@[t].req, old, new),
                                          opt |-> Replaced(@[t].opt, old, new)]]]

\* Faulty variant: an optional component stays named.
WithoutRequired(s, c) ==
  [s EXCEPT !.comps = Without(@, {c}),
            !.uses = [t \in DOMAIN @ |-> [@[t] EXCEPT !.req = @ \ {c}]]]

\* deleteComponent leaves its place.
WithoutComponent(s, c) ==
  [s EXCEPT !.comps = Without(@, {c}),
            !.uses = [t \in DOMAIN @ |-> [req |-> @[t].req \ {c}, opt |-> @[t].opt \ {c}]]]

\* setShape.
Shaped(s, c, shape) ==
  [s EXCEPT !.comps[c].type = shape,
            !.comps[c].props = IF shape # "object" THEN <<>>
                               ELSE IF DOMAIN @ = {} THEN NewProps ELSE @]

WithField(s, c, p) ==
  [s EXCEPT !.comps[c].props = (p :> [type |-> "number", from |-> NoName]) @@ @]
FieldRenamed(s, c, old, new) == [s EXCEPT !.comps[c].props = Move(@, old, new)]
FieldRetyped(s, c, p, type) == [s EXCEPT !.comps[c].props[p].type = type]
WithoutField(s, c, p) == [s EXCEPT !.comps[c].props = Without(@, {p})]

\* The last field of an object stays.
MayDropField(s, c, p) ==
  p \in DOMAIN s.comps[c].props /\ ~(IsObject(s.comps[c]) /\ DOMAIN s.comps[c].props = {p})

-----------------------------------------------------------------------------
(* Entity types *)

WithType(s, t) == [s EXCEPT !.types = (t :> NoName) @@ @, !.uses = (t :> [req |-> {}, opt |-> {}]) @@ @]
TypeRenamed(s, old, new) == [s EXCEPT !.types = Move(@, old, new), !.uses = Move(@, old, new)]
WithoutType(s, t) == [s EXCEPT !.types = Without(@, {t}), !.uses = Without(@, {t})]

\* attachRequired, attachOptional: out of the other list.
Required(s, t, c) == [s EXCEPT !.uses[t] = [req |-> @.req \cup {c}, opt |-> @.opt \ {c}]]
MadeOptional(s, t, c) == [s EXCEPT !.uses[t] = [req |-> @.req \ {c}, opt |-> @.opt \cup {c}]]
Detached(s, t, c) == [s EXCEPT !.uses[t].opt = @ \ {c}]
=============================================================================
