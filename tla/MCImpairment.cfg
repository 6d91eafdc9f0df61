SPECIFICATION Spec
CONSTANTS
  Unit = 4
  ConfigPairs <- OneChange
  Streams <- OneFreePacket
  PayloadBits = {0, 3}
  MaxPackets = 2
INVARIANTS
  DecisionsInBounds
  LossIsMonotone
  UnrelatedChangesDoNotShift
\* The input ends after MaxPackets.
CHECK_DEADLOCK FALSE
