CONSTANTS
  a = a  b = b  q1 = q1  q2 = q2
  NoTable = NoTable
  Comp <- MCComp
  Tables <- MCTables
  Streams <- MCStreams
  Height = 3
  Limits = {0, 3, 5, 6, 9}
  CoefSize = 2
  BufSize = 2
  RowLines = 2
  MaxTries = 2
SPECIFICATION DecSpec
INVARIANTS SequentialStarts
