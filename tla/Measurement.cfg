CONSTANTS
  Metrics <- MCMetrics
  Cap <- MCCap
  Warm <- MCWarm
  TestCount <- MCTestCount
  Deltas <- MCDeltas
  FnFaults <- MCFnFaults
SPECIFICATION Spec
INVARIANTS
  TypeOK
  MedianOfMeasured
  KeyOnlyAfterCleanProbe
