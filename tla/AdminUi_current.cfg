SPECIFICATION Spec
CONSTANTS
  Ids = {a, b}
  Names = {n1}
  Storage = TRUE
  MaxActs = 2
  MaxMishaps = 0
INVARIANTS
  PaneShowsCurrent
