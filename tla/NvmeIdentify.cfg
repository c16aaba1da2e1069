CONSTANTS
  L <- MCL
  MaxAer <- MCMaxAer
  Garbage <- MCGarbage
SPECIFICATION Spec
\* The call returns and the controller goes idle: the system stops.
CHECK_DEADLOCK FALSE
INVARIANTS TypeOK RestoredWhenGuessRight
PROPERTIES GuessRight
