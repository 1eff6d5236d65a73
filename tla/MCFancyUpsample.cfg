CONSTANTS
  Pictures <- MCPictures
  BlockSize = 8
SPECIFICATION Spec
INVARIANTS InteriorMatches FullWidthMatches RowsMatchInside
CHECK_DEADLOCK FALSE
