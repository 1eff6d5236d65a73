CONSTANTS
  MAX_CORR_BITS = 66
  MaxEOBRUN = 2
  Images <- MCImages
  Counts <- MCCounts
SPECIFICATION Spec
INVARIANTS CodesOptimal CoefficientsSurvive
PROPERTY ScanCompletes
CHECK_DEADLOCK FALSE
