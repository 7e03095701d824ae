---------------------------- MODULE ChartLibrary -----------------------------
(***************************************************************************)
(* Charts for the model-checking runs, and a notation to write them in.    *)
(***************************************************************************)
EXTENDS Statechart, TLC

\* f, written out: @@ makes TLC evaluate a function once.
Table(f) == f @@ <<>>

\* The sets of nodes above each node, from a parent function.
AncOf(parent) ==
  LET above[n \in DOMAIN parent] ==
        IF parent[n] = NoNode THEN {} ELSE {parent[n]} \cup above[parent[n]]
  IN  Table([n \in DOMAIN parent |-> above[n]])

Trans(src, name, target, guarded) ==
  [src |-> src, name |-> name, delay |-> 0, target |-> target, guarded |-> guarded]
After(src, delay, target, guarded) ==
  [src |-> src, name |-> "after", delay |-> delay, target |-> target, guarded |-> guarded]

\* A chart whose node names are their ids, and in which no action fails.
Plain(parent, type, initial, default, start, trans) ==
  [nodes |-> DOMAIN parent, anc |-> AncOf(parent), type |-> Table(type),
   id |-> Table([n \in DOMAIN parent |-> n]), found |-> Table([n \in DOMAIN parent |-> n]),
   alike |-> Table([n \in DOMAIN parent |-> {}]),
   initial |-> initial, default |-> default, deep |-> {}, start |-> start, trans |-> trans,
   failExit |-> {}, failEntry |-> {}, failAct |-> {}]

\* behaviors/goblin.json: idle for a second, then walk a path TICK by TICK.
Goblin ==
  Plain([n \in {"idle", "wandering"} |-> NoNode],
        [n \in {"idle", "wandering"} |-> "atomic"],
        <<>>, <<>>, "idle",
        <<After("idle", 2, "wandering", FALSE),
          Trans("wandering", "TICK", "idle", TRUE),
          Trans("wandering", "TICK", NoNode, FALSE)>>)

\* Three levels, a history state, guards that overlap, a state with two timers
\* and a final state.  Every target is a sibling of its source or of one of its
\* ancestors, or the source itself.
Guard ==
  LET parent == "patrol" :> NoNode @@ "walk" :> "patrol" @@ "look" :> "patrol" @@
                "combat" :> NoNode @@ "strike" :> "combat" @@ "wind" :> "strike" @@
                "swing" :> "strike" @@ "flee" :> "combat" @@ "back" :> "combat" @@
                "dead" :> NoNode
      type == [n \in DOMAIN parent |->
                 IF n \in {"patrol", "combat", "strike"} THEN "compound"
                 ELSE IF n = "back" THEN "history" ELSE IF n = "dead" THEN "final" ELSE "atomic"]
  IN Plain(parent, type, "patrol" :> "walk" @@ "combat" :> "strike" @@ "strike" :> "wind",
       "back" :> "flee", "patrol",
       <<After("walk", 1, "look", TRUE),
         After("walk", 3, "look", FALSE),
         After("look", 2, "walk", FALSE),
         After("patrol", 9, "combat", FALSE),
         After("combat", 8, "patrol", FALSE),
         After("wind", 2, "swing", FALSE),
         After("swing", 1, "wind", TRUE),
         Trans("walk", "SEEN", "look", TRUE),
         Trans("patrol", "SEEN", "combat", FALSE),
         Trans("strike", "SEEN", "strike", FALSE),
         Trans("strike", "HIT", "flee", TRUE),
         Trans("flee", "HIT", "back", FALSE),
         Trans("flee", "SEEN", NoNode, FALSE),
         Trans("combat", "HIT", "dead", TRUE)>>)

\* Two regions that stay where they are until the whole parallel state is left:
\* a transition of each and one they share; beside them a state that is left for
\* its own deep history; timers on five levels, and exit and transition actions
\* that can fail.
Posture ==
  LET parent == "alive" :> NoNode @@ "up" :> "alive" @@ "down" :> "alive" @@
                "legs" :> "up" @@ "stand" :> "legs" @@ "arms" :> "up" @@ "carry" :> "arms" @@
                "hunt" :> "alive" @@ "lair" :> "hunt" @@ "den" :> "lair" @@ "track" :> "hunt" @@
                "return" :> "hunt"
      type == [n \in DOMAIN parent |->
                 IF n = "up" THEN "parallel" ELSE IF n = "return" THEN "history"
                 ELSE IF n \in {"stand", "carry", "down", "den", "track"} THEN "atomic" ELSE "compound"]
      whole == Plain(parent, type,
       "alive" :> "up" @@ "legs" :> "stand" @@ "arms" :> "carry" @@ "hunt" :> "lair" @@ "lair" :> "den",
       "return" :> "track", "alive",
       <<After("alive", 10, "alive", FALSE),
         After("stand", 3, NoNode, FALSE),
         After("carry", 4, "down", TRUE),
         After("up", 6, "down", FALSE),
         After("down", 2, "up", FALSE),
         After("lair", 2, "track", TRUE),
         After("den", 3, "down", FALSE),
         Trans("stand", "SEEN", NoNode, TRUE),
         Trans("carry", "HIT", "down", TRUE),
         Trans("up", "SEEN", "up", FALSE),
         Trans("legs", "HIT", "down", TRUE),
         Trans("down", "HIT", "hunt", TRUE),
         Trans("den", "SEEN", "track", TRUE),
         Trans("hunt", "HIT", "return", TRUE)>>)
  IN [whole EXCEPT !.deep = {"return"}, !.failExit = {"arms", "down", "lair"}, !.failAct = {4, 10, 14}]

\* The guard on patrol until it is hit, in its postures from then on until it is
\* seen while down: one machine of two, with transitions both ways.  Two ids differ
\* in the case of a letter only: leaving the den cancels what alive waits for.
Beside(c, d, between) ==
  [c EXCEPT !.nodes = @ \cup d.nodes, !.anc = @ @@ d.anc, !.type = @ @@ d.type, !.id = @ @@ d.id,
     !.found = @ @@ d.found, !.alike = @ @@ d.alike, !.initial = @ @@ d.initial, !.default = @ @@ d.default,
     !.deep = @ \cup d.deep, !.trans = @ \o d.trans \o between, !.failExit = @ \cup d.failExit,
     !.failAct = @ \cup {i + Len(c.trans) : i \in d.failAct}]
Soldier ==
  [Beside(Guard, Posture,
     <<Trans("patrol", "HIT", "alive", FALSE), Trans("down", "SEEN", "patrol", TRUE)>>)
   EXCEPT !.alike["alive"] = {"den"}, !.alike["den"] = {"alive"}]

\* The goblin inside a state with a timer of its own: both can be due at once.
Sentry ==
  LET parent == "post" :> NoNode @@ "idle" :> "post" @@ "walk" :> "post" @@ "rest" :> NoNode
  IN Plain(parent, [n \in DOMAIN parent |-> IF n = "post" THEN "compound" ELSE "atomic"],
       "post" :> "idle", <<>>, "post",
       <<After("idle", 1, "walk", FALSE),
         Trans("walk", "TICK", "idle", TRUE),
         After("post", 3, "rest", FALSE),
         After("rest", 1, "post", FALSE)>>)
=============================================================================
