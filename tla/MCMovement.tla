------------------------------- MODULE MCMovement -------------------------------
(***************************************************************************)
(* A room of four by three cells cut in two by a door, a pillar and a net *)
(* that only the goblin passes: a player two cells tall, a goblin whose    *)
(* way leads past the player and through the door or the net, and a bat    *)
(* that flies over both of them.  All three are in each other's way.       *)
(***************************************************************************)
EXTENDS Movement

Nobody == "nobody"
Labels == "body" :> {"Flying"} @@ "net" :> {"Crawling"} @@ "solid" :> {} @@ "opaque" :> {}
Entity(kind, cells, able, home) ==
  [kind |-> kind, cells |-> cells, pass |-> "body", see |-> Nobody, able |-> able, home |-> home]
Wall(c, label) == [at |-> c, pass |-> label, see |-> "opaque"]
One == {<<0, 0>>}
Tall == {<<0, 0>>, <<0, 1>>}

RoomMovers ==
  "player" :> Entity("player", Tall, {}, <<0, 0>>)
  @@ "goblin" :> Entity("walker", One, {"Crawling"}, <<0, 2>>)
  @@ "bat" :> Entity("chaser", One, {"Flying"}, <<2, 0>>)
RoomFixtures ==
  "door" :> Wall(<<1, 0>>, "solid") @@ "pillar" :> Wall(<<1, 1>>, "solid") @@ "net" :> Wall(<<1, 2>>, "net")

\* A cell beyond the wall, a point outside that int() brings in, and the wall.
RoomTargets == {<<6, 4>>, <<-1, 4>>, <<2, 2>>}
=============================================================================
