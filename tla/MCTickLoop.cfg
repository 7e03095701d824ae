SPECIFICATION FairSpec
CONSTANTS
  NoNode = NoNode
  e1 = e1
  e2 = e2
  Entities = {e1, e2}
  Versions <- OneSentry
  Scopes <- BothMaps
  MaxInputs = 2
  MaxFaults = 2
INVARIANTS SavedIsWhole
PROPERTIES RunningMachinesAreKept TicksAreAtomic NothingIsLost
