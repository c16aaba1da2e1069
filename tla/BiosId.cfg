CONSTANTS
  P <- MCP
  LongEp <- MCLongEp
  Alphabet <- MCAlphabet
  VmIds <- MCVmIds
  SpaceLen <- MCSpaceLen
SPECIFICATION Spec
\* hwidCollectCpuBios returns and the system stops.
CHECK_DEADLOCK FALSE
INVARIANTS
  TypeOK
  FirstGoodTableUsed
  VmScanCorrect
