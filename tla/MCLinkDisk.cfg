SPECIFICATION Spec
CONSTANTS
  Outcomes <- MixedOutcomes
  RunLimits = {0, 2}
  Faults = {"sink"}
  MaxArrivals = 2
  MaxTime = 1
  MaxRuns = 1
INVARIANTS
  LogLoadsOnAnyDisk
\* The bounds on opens, arrivals and time stop the model.
CHECK_DEADLOCK FALSE
