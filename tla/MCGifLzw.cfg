CONSTANTS
  Images <- MCImages
  InitCodeSize = 2
  MaxBits = 5
  HashSize = 37
  HashShift = 2
SPECIFICATION Spec
INVARIANTS WidthsAgree DecodedIsImage TableHasRoom
CHECK_DEADLOCK FALSE
