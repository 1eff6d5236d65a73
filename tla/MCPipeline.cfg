SPECIFICATION Spec
CONSTANTS
  Images <- MCImages
  Chunks = {1, 1000}
  Reads = {1, 2, 3}
  MaxPasses = 2
INVARIANTS
  LinesInPlace
  PassShowsScan
PROPERTY
ImageGotThrough
CHECK_DEADLOCK FALSE
