SPECIFICATION Spec
CONSTANTS
  Cap <- MCCap
  Deviations <- MCDeviations
  MaxDeviations <- MCMaxDeviations
  MaxCalls <- MCMaxCalls
INVARIANT
  NoUnguardedFault
