CONSTANTS
  Metrics <- MCCapacityMetrics
  Cap <- MCCap
  Warm <- MCWarm
  TestCount <- MCTestCount
  Deltas <- MCDeltas
  FnFaults <- MCFaultingFn
SPECIFICATION Spec
INVARIANT
  TraceWithinCapacity
