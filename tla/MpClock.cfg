CONSTANTS
  c0 = c0
  c1 = c1
  c2 = c2
  NoAddress = NoAddress
  Boot <- c0
  Null <- NoAddress
  Others = {c1, c2}
  Windows <- MCWindows
  MaxTick <- MCMaxTick
  MaxCalls <- MCOneCall
SPECIFICATION Spec
INVARIANTS
  TypeOK
  TimerCodeRestored
PROPERTIES
  MpcOnlyWhileTimekeeperRuns
  CallCompletes
