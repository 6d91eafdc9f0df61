SPECIFICATION InspectionSpec
CONSTANTS
  WarningC = 2
  CriticalC = 5
  HysteresisC = 1
  CriticalV = 2
  HysteresisV = 2
  AlarmOnSafe = TRUE
  DetectGaps = TRUE
  SequenceModulus = 3
  Garbage <- Noise
  Datagrams <- FlightDatagrams
  DiskMayFail = FALSE
  MaxDatagrams = 3
  Selections <- OperatorSelections
  MaxReportEvents = 5
  ReportFaults = {"read", "create", "write", "replace"}
INVARIANTS
  ReportIsOldOrNew
  NothingLeftBehind
  LoadedEvidenceIsReported
  AlarmsKeepTheirEvidence
  ExactNamesItsCause
  RepeatsExplainGaps
  TornLogsAreRejected
\* The listener and the command both end.
CHECK_DEADLOCK FALSE
