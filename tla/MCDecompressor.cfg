CONSTANTS
  a = a  b = b  q1 = q1  q2 = q2
  NoTable = NoTable
  Comp <- MCComp
  Tables <- MCTables
  Streams <- MCStreams
  Height = 2
SPECIFICATION Spec
INVARIANTS TypeOK HeaderReflectsStream TableLatched ComponentsMatch MultiScanAbsorbed NextImageAligned
PROPERTIES CallReturns ProtocolSpec
