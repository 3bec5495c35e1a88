SPECIFICATION Spec
CHECK_DEADLOCK FALSE
CONSTANTS
  AllRows = 8
  Page = 4
  Height = 3
  Header = 1
  Overscan = 1
  FetchMoreOffset = 0
  Aligns = {"auto", "start", "center", "end"}
  MaxActs = 2

PROPERTY RowsInSightAreMounted
