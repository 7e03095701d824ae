SPECIFICATION StorageSpec
CONSTANTS
  a = a
  b = b
  first = first
  second = second
  Value = value
  Target = target_entity_id
  NoName = NoName
  Null = Null
  Default = Default
  Failed = Failed
  NoDatabase = NoDatabase
  CompNames <- TableNames
  ColumnNames <- TableColumns
  Scratch <- NewNames
  Schemas <- AllSchemas
  Older <- OlderDatabases
  Policies = {"auto", "confirm"}
  Retention = 1
  MaxOpens = 2
  MaxWrites = 1
  Contracts <- TypeContracts
  Layouts <- Kinds
  Columns <- Properties
  RefColumns <- Owners
  Offered <- Offers
  ByMachines <- Moves
  Creations <- Births
  MapObjects = {3}
  Found <- Databases
  Callers = {"one", "another"}
  Nothing = Nothing
  Standard = Standard
  MaxEntities = 2
  MaxCommits = 2
  MaxCrashes = 1
INVARIANTS OneSafeOpen EntitiesAreWhole
PROPERTIES DataSurvives NothingElseIsTouched
CHECK_DEADLOCK FALSE
