SPECIFICATION ReplaySpec
CONSTANTS
  WarningC = 2
  CriticalC = 5
  HysteresisC = 1
  CriticalV = 2
  HysteresisV = 2
  AlarmOnSafe = TRUE
  DetectGaps = TRUE
  SequenceModulus = 8
  Garbage <- Noise
  Datagrams <- FlightDatagrams
  DiskMayFail = TRUE
  MaxDatagrams = 4
INVARIANTS
  AlarmLogLoads
  InterruptWritesSummary
  LogFollowsRecording
  ReplayAgreesWithLog
\* A stopped listener does nothing more, and the input is bounded.
CHECK_DEADLOCK FALSE
