--------------------------- MODULE MCAgentsMode ------------------------------
(***************************************************************************)
(* AGENTS mode, of three sides that share no state in the models: what a   *)
(* session does to the files of machines, what edits do to a machine and   *)
(* to the selection, and where the canvas draws one.                       *)
(*                                                                         *)
(* FILES: any directory.  EDITS: a machine of two branches whose           *)
(* transitions are spelled in every way an author may spell them.  CANVAS: *)
(* a compound state beside two others, one with a place of its own that is *)
(* off the canvas; or a state alone.                                       *)
(***************************************************************************)
EXTENDS MachineFiles, ChartEdits, ChartLayout, TLC

CONSTANTS good, bad

\* Any directory; the other sides are looked at with an empty one.
AllDisks == [Files -> Bytes]

Soldier ==
  [id |-> "soldier",
   order |-> 0 :> <<1, 2>> @@ 1 :> <<3, 4>> @@ 2 :> <<5>> @@ 3 :> <<>> @@ 4 :> <<>> @@ 5 :> <<>>,
   name |-> <<"patrol", "combat", "walk", "look", "strike">>,
   own |-> [n \in 1..5 |-> IF n = 5 THEN <<"boss">> ELSE None],
   initial |-> 0 :> <<"patrol">> @@ 1 :> <<"walk">> @@ 2 :> <<"strike">>
               @@ 3 :> None @@ 4 :> None @@ 5 :> None,
   on |-> <<"SEEN" :> <<[num |-> 1, to |-> <<"combat">>]>>,
            "HIT" :> <<[num |-> 2, to |-> <<"soldier", "look">>]>>,
            "SEEN" :> <<[num |-> 3, to |-> <<"combat", "strike">>], [num |-> 4, to |-> <<"look">>]>>,
            "1s" :> <<[num |-> 5, to |-> <<"boss">>]>>,
            <<>> >>]

Recruit ==
  [id |-> "soldier", order |-> 0 :> <<1>> @@ 1 :> <<>>, name |-> <<"idle">>, own |-> <<None>>,
   initial |-> 0 :> <<"idle">> @@ 1 :> None, on |-> << <<>> >>]

Soldiers == {Soldier, Recruit}
OneToSeven == 1..7
Renames == {"walk", "rest"}
Words == <<"state", "state2">>
Vocabulary == <<"EVENT", "EVENT2">>

-----------------------------------------------------------------------------
Each(S, v) == [n \in S |-> v]
Patrolling ==
  [order |-> 0 :> <<1, 2, 3>> @@ 2 :> <<4, 5>> @@ Each({1, 3, 4, 5}, <<>>),
   place |-> Each({1, 2, 4, 5}, NoPlace) @@ 3 :> <<-50, 200>>,
   lines |-> Each(1..5, 1),
   out |-> 1 :> <<Inner, 2>> @@ 2 :> <<1>> @@ 3 :> <<Nowhere>> @@ Each({4, 5}, <<>>)]
Alone == [order |-> 0 :> <<1>> @@ 1 :> <<>>, place |-> 1 :> NoPlace, lines |-> 1 :> 0, out |-> 1 :> <<1>>]

TwoCharts == {Patrolling, Alone}
OneToSix == 1..6
Fifth == {5}
Hauls == {<<-400, 30>>, <<70, -90>>}
Points == {<<20, 40>>}

-----------------------------------------------------------------------------
VARIABLE side

AgentsInit ==
  /\ side \in {"files", "edits", "canvas"} /\ Init /\ EditsInit /\ CanvasInit
  /\ side # "files" => \A f \in Files : disk[f] = Gone
  /\ side = "edits" <=> def = Soldier
  /\ side # "canvas" => doc = Alone

AgentsNext ==
  \/ side = "files" /\ Next /\ UNCHANGED <<side, editsVars, canvasVars>>
  \/ side = "edits" /\ EditsNext /\ UNCHANGED <<side, vars, canvasVars>>
  \/ side = "canvas" /\ CanvasNext /\ UNCHANGED <<side, vars, editsVars>>

AgentsSpec == AgentsInit /\ [][AgentsNext]_<<side, vars, editsVars, canvasVars>>
==============================================================================
