SPECIFICATION Spec
CONSTANTS
  Outcomes <- MixedOutcomes
  RunLimits = {0, 2}
  Faults = {"send", "sink", "interrupt"}
  MaxArrivals = 2
  MaxTime = 1
  MaxRuns = 2
INVARIANTS
  TypeOK
  LogAlwaysLoads
  SummaryIsTrue
  ForwardLogIsTrue
  NoInternalError
PROPERTIES
  ImplementsChannel
\* The bounds on opens, arrivals and time stop the model.
CHECK_DEADLOCK FALSE
