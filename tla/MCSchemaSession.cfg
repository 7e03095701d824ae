SPECIFICATION Spec
CONSTANTS
  a = a
  b = b
  c = c
  t = t
  u = u
  Kind = kind
  Value = value
  Target = target_entity_id
  NoName = NoName
  Null = Null
  Default = Default
  Failed = Failed
  NoFile = NoFile
  NoDatabase = NoDatabase
  CompNames <- ThreeNames
  ColumnNames <- ThreeColumns
  Scratch <- NewNames
  Reserved = {target_entity_id}
  TypeNames <- Types
  Shapes = {"object", "boolean"}
  FieldTypes = {"number", "string"}
  Pages = {p1}
  Files <- RenamedFile
  First <- Simple
  MaxEdits = 2
  MaxOutside = 1
  MaxStarts = 1
PROPERTIES EditsAreFollowed CheckedSavesLoseNothing
CHECK_DEADLOCK FALSE
