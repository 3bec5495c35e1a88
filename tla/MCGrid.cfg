SPECIFICATION Spec
CONSTANTS
  NumRows = 4
  NumColumns = 3
  Pages <- ThePages
  Pinned = {3, 4}
  Selectable = {1, 3}
  CellsWritable = {1, 3}
  ReadOnly <- TheReadOnly
  CellsValues <- TheFields
  FormatOf <- TheFormat
  ParseOf <- TheParse
  Parsing = {3}
  ClearValue <- TheClearValue
  CellsStart <- TheFirstValues
  Updated <- TheUpdated
  MaxBatches = 1
  CellsMaxUpdates = 1
  EditorRows = {1, 2}
  EditorWritable = {1, 2}
  EditorValues = {"v", "w"}
  EditorAccepted = {"w"}
  EditorStart <- TheStart
  Attempts = 1
  MaxSessions = 2
  MaxCalls = 2
  EditorMaxUpdates = 1
  WidthsColumns = {1, 2}
  WidthsAuto = {1, 2}
  Size <- TheSize
  MinSize <- TheMinSize
  Containers = {3, 5}
  Drags = {2}
  WidthsMaxActs = 3
  AllRows = 8
  Page = 4
  Height = 3
  Header = 1
  Overscan = 1
  FetchMoreOffset = 0
  Aligns = {"auto", "start", "center", "end"}
  ScrollingMaxActs = 2
  Order <- TheOrder
  Views = {"plain", "virtual", "dnd"}
  BodyMaxActs = 3
\* Every part may come to the end of its bounds.
CHECK_DEADLOCK FALSE
INVARIANTS
  TypeOK
  UndoRestores
  
  PasteIsCopy
  EditsLandOnce
  RevealedRowIsShown
  FetchesOnce
  RowsSpanTable
PROPERTIES
  LatestCallWins
  WidthsHaveOneWriter
  GrowthSettles
  StaysWhereScrolled
