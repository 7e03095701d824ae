SPECIFICATION AgentsSpec
CONSTANTS
  NumFiles = 2
  good = good
  bad = bad
  Gone = Gone
  Garbage = Garbage
  Bodies = {good, bad}
  BadBodies = {bad}
  NewBody = good
  Disks <- AllDisks
  MaxOutside = 2
  Nodes <- OneToSeven
  Trans <- OneToSeven
  StateNames <- Renames
  FreshNames <- Words
  FreshEvents <- Vocabulary
  Events = {"SEEN", "HIT"}
  Delays = {"1s", "2s"}
  MachineIds = {"soldier", "guard"}
  Charts <- Soldiers
  MaxEdits = 2
  Boxes <- OneToSix
  Shorthand <- Fifth
  FirstCharts <- TwoCharts
  Distances <- Hauls
  Pointers <- Points
  Depth = 2
  MaxGestures = 2
INVARIANT EverythingCanBeClicked
PROPERTIES WorkIsKept TheirsAreKept AimsAreKept GesturesLand
CHECK_DEADLOCK FALSE
