SPECIFICATION HotSpec
CONSTANTS
  NoNode = NoNode
  e1 = e1
  Entities = {e1}
  Versions <- RemovalOrBroken
  Scopes <- OneMap
  MaxInputs = 1
  MaxFaults = 1
  Mods = 1
  Broken = {3}
  MaxEdits = 2
  EditsWhileDown = TRUE
INVARIANTS ReloadsAreSound
