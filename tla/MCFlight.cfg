SPECIFICATION FlightSpec
CONSTANTS
  Arguments <- CommandLines
  Clock = {7}
  Curves <- SteepCurves
  Grain = 10
  NominalTemperature = 24000
  ThermalRise = 62000
  SafeTemperature = 60000
  NominalBattery = 81000
  NominalDrain = 25
  PowerDrain = 30000
  SafeBattery = 70000
  BootPackets = 2
  YawStep = 7250
  HalfTurn = 18000
  SequenceModulus = 6
  MaxCycles = 7
  WarningC = 7000
  CriticalC = 20000
  HysteresisC = 500
  CriticalV = 6000
  HysteresisV = 200
  AlarmOnSafe = TRUE
  DetectGaps = TRUE
  Positions <- SomePositions
  Masks <- SomeMasks
  Foreign <- Intruders
  MaxFaults = 2
  MaxAir = 2
INVARIANTS
  TypeOK
  ScheduleIsExact
  HeardWasSent
  GapsAreTheDrops
  AlarmsOnlyWorsen
PROPERTIES
  FlightEnds
\* A program that ended does nothing more, and its cycles are bounded.
CHECK_DEADLOCK FALSE
