SPECIFICATION Spec
CHECK_DEADLOCK FALSE
CONSTANTS
  Columns = {1, 2}
  Auto = {1, 2}
  Size <- TheSize
  MinSize <- TheMinSize
  Containers = {3}
  Drags = {}
  MaxActs = 2
PROPERTY NoLastingOverflow
