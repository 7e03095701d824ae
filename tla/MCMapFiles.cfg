SPECIFICATION SidesSpec
CONSTANTS
  Types <- MCTypes
  Fields <- MCFields
  Files <- MCFiles
  CellSeq <- MCCells
  Databases <- MCDatabases
  RuntimeComps = {"Health", "TileVisual"}
  FieldValues = {3}
  NoId = NoId
  NoClass = NoClass
  Unknown = Unknown
  p1 = p1
  p2 = p2
  m1 = m1
  c1 = c1
  c2 = c2
  MaxStarts = 3
  MaxRuntime = 1
  level = level
  cave = cave
  terrain = terrain
  props = props
  MapPaths = {level, cave}
  SheetPaths = {terrain, props}
  ConfiguredMap = level
  Contents = {1}
  Missing = Missing
  Garbled = Garbled
  Unsafe = Unsafe
  FirstDisks <- Dirs
  TheirBytes <- Leave
  Handlers = {h1, h2}
  Nobody = Nobody
  MaxAsked = 3
  MaxTheirs = 1
INVARIANTS LoadsAreSound UnsavedIsInReach
PROPERTIES EntitiesAreKept UnsavedIsKept RequestsEnd
CHECK_DEADLOCK FALSE
