SPECIFICATION HotSpec
CONSTANTS
  NoNode = NoNode
  e1 = e1
  Entities = {e1}
  Versions <- Removal
  Scopes <- OneMap
  MaxInputs = 0
  MaxFaults = 0
  Mods = 1
  Broken = {}
  MaxEdits = 1
  EditsWhileDown = FALSE
INVARIANT NobodyIsStranded
