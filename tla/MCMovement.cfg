SPECIFICATION Spec
CONSTANTS
  Width = 4
  Height = 3
  Scale = 2
  Mover <- RoomMovers
  Fixture <- RoomFixtures
  Doors = {"door"}
  Rules <- Labels
  NoLabel <- Nobody
  Player = "player"
  Targets <- RoomTargets
INVARIANTS NoOverlap
PROPERTIES WaysAreClear WalkersArrive
