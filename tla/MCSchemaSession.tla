---------------------------- MODULE MCSchemaSession ----------------------------
(***************************************************************************)
(* Instances of SchemaSession.                                             *)
(***************************************************************************)
EXTENDS SchemaSession

CONSTANTS a, b, c, t, u

\* c is called what a is, and "_new" after it.
ThreeNames == <<a, b, c>>
NewNames == a :> c
ThreeColumns == <<Kind, Target, Value>>
Types == {t, u}

Field(type) == [type |-> type, from |-> NoName]
Object(from, props) == [type |-> "object", from |-> from, props |-> props]
Tag == [type |-> "boolean", from |-> NoName, props |-> <<>>]
Restriction == Kind :> Field("string") @@ Value :> Field("number")

Schema(comps, req, opt, rules, order) ==
  [version |-> 1, comps |-> comps, rules |-> rules, order |-> order,
   types |-> t :> NoName, uses |-> t :> [req |-> req, opt |-> opt]]

\* A restriction and a capability, and no rule between them.
Simple == Schema(a :> Object(NoName, Restriction) @@ b :> Tag, {a}, {b}, <<>>, <<b, a>>)

\* The same, the restriction declared to have been renamed.
Renamed == Schema(c :> Object(a, Restriction) @@ b :> Tag, {c}, {b}, <<>>, <<b, c>>)

RenamedFile == {Renamed}
=============================================================================
