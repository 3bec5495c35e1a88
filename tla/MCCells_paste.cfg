SPECIFICATION Spec
CHECK_DEADLOCK FALSE
CONSTANTS
  NumRows = 4
  NumColumns = 3
  Pages <- ThePages
  Pinned = {3, 4}
  Selectable = {1, 3}
  Writable = {1, 3}
  ReadOnly <- TheReadOnly
  FormatOf <- TheFormat
  ParseOf <- TheParse
  Parsing = {3}
  ClearValue <- TheClearValue
  Values <- TheValues
  Start <- TheStart
  MaxBatches = 1
  Updated <- TheUpdated
  MaxUpdates = 0
INVARIANT SingleValueStaysInSelection
