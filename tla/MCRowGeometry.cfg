CONSTANTS
  Images <- MCImages
  BlockSize = 4
SPECIFICATION Spec
INVARIANTS RowsInPlace ImageCovered
CHECK_DEADLOCK FALSE
