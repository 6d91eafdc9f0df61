SPECIFICATION FairSpec
CONSTANTS
  Outcomes <- HeldOutcomes
  RunLimits = {0, 3}
  Faults = {}
  MaxArrivals = 3
  MaxTime = 1
  MaxRuns = 2
INVARIANTS
  ReorderEventsAreTrue
  DrainIsComplete
  UnheldLeaveInOrder
PROPERTIES
  RunEnds
  EligibleLeaves
\* The bounds on opens, arrivals and time stop the model.
CHECK_DEADLOCK FALSE
