SPECIFICATION ModesSpec
CONSTANTS
  Width = 2
  Height = 1
  grass = grass
  moss = moss
  Empty = Empty
  Tiles = {grass, moss, Empty}
  TypeOf <- Kind
  Docs <- Maps
  Types <- Placeable
  Names <- LayerWords
  MaxRequests = 2
  AnimNames = {"walk", "run", "jump"}
  Sheets = {"goblin", "orc"}
  EntityTypes = {"Goblin", "Orc"}
  FirstFiles <- SpriteFiles
  FirstImages = {"goblin"}
  TheirFiles <- Outsiders
  Absent = Absent
  Broken = Broken
  NotOpen = NotOpen
  NoSheet = NoSheet
  Budgets <- Few
  Texts <- Samples
  Numeral <- Numbers
  ComponentOf <- Comps
  EditedTiles = {0, 1, 3}
  EditedProps = {"Health.hp", "Tile.image"}
  EditedTypes = {"int", "string"}
  EditedValues = {"1", "2"}
  EditedClasses = {"", "wall", "door"}
  MaxTextEdits = 2
  Byte = 4
  Span = 16
  Most = 4
  Files <- MCFiles
  FirstSheets <- MCFirstSheets
  TheirSheets <- MCTheirSheets
  Spots <- MCSpots
  Home <- MCHome
  OtherIds <- MCOthers
  Turns <- MCTurns
  Pictures <- MCPictures
  TileTypes <- MCTileTypes
  Kinds <- MCKinds
  FieldOf <- MCFieldOf
  ReadsAs <- MCReadsAs
  Footprints <- MCFootprints
  PageSize = 3
  MaxPaints = 1
INVARIANTS FitForTheEngine NamesAreFound FilesReadBack PagesTellTheTruth
PROPERTIES EditsLand BindingsArrive EditsAreNarrow
CHECK_DEADLOCK FALSE
