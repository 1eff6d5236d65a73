CONSTANTS
  Images <- MCImages
  SegmentBytes = 2
  Chunks = {1, 1000}
SPECIFICATION Spec
INVARIANTS HeadersSurvive MarkersKept Resynchronised
PROPERTY FileRead
CHECK_DEADLOCK FALSE
