SPECIFICATION Spec
CONSTANTS
  WarningC = 2
  CriticalC = 5
  HysteresisC = 1
  CriticalV = 2
  HysteresisV = 2
  AlarmOnSafe = TRUE
  DetectGaps = TRUE
  SequenceModulus = 4
  Packets <- FlightPackets
  MaxPackets = 4
INVARIANTS
  AlarmsAreHysteresis
  LifecyclesAreWellFormed
  GapsAreExact
