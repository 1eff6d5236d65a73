SPECIFICATION Spec
CONSTANTS
  Images <- StripImages
  Chunks = {1, 1000}
  Reads = {1, 2, 3}
  MaxPasses = 2
INVARIANT LinesEndWithImage
CHECK_DEADLOCK FALSE
