SPECIFICATION Spec
CONSTANTS
  Cap <- MCCap
  Deviations <- MCDeviations
  MaxDeviations <- MCMaxDeviations
  MaxCalls <- MCMaxCalls
INVARIANTS
  TypeOK
  DetectionsSound
  SingleDeviationDetected
