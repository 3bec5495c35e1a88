SPECIFICATION Spec
CONSTANTS
  Ids = {a, b}
  Names = {n1}
  Storage = FALSE
  MaxActs = 2
  MaxMishaps = 1
INVARIANTS
  TypeOK
  OwnChangesAreListed
  PaneIsOfSelection
  DeadSessionIsNoticed
PROPERTIES
  RequestsEnd
