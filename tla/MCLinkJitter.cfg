SPECIFICATION Spec
CONSTANTS
  Outcomes <- JitterOutcomes
  RunLimits = {0, 2}
  Faults = {}
  MaxArrivals = 2
  MaxTime = 2
  MaxRuns = 1
INVARIANTS
  ZeroWindowKeepsOrder
\* The bounds on opens, arrivals and time stop the model.
CHECK_DEADLOCK FALSE
