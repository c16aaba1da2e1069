CONSTANTS
  Cap <- MCCap
  FaultVectors <- MCFaultVectors
  BodyLen <- MCBodyLen
  MaxScopes <- MCMaxScopes
  MaxNmi <- MCMaxNmi
SPECIFICATION Spec
INVARIANTS
  TypeOK
  HandoffSafe
  RestoreOnExit
  VerdictReflectsScope
PROPERTIES
  ScopeCompletes
  ImplementsContract
