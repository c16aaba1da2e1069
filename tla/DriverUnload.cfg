CONSTANTS
  b1 = b1
  b2 = b2
  b3 = b3
  d1 = d1
  d2 = d2
  d3 = d3
  d4 = d4
  NoDriver = NoDriver
  Bases <- MCBases
  Drivers <- MCDrivers
  Requested <- MCRequested
SYMMETRY MCSymmetry
SPECIFICATION Spec
CHECK_DEADLOCK FALSE
INVARIANTS
  TypeOK
  UnreportedAreGone
  KilledAccountedFor
