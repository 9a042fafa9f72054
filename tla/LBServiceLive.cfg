\* A stopped service ends, and requests of the user are served.
SPECIFICATION LiveSpec
CONSTANTS
  Squares = {LO05}
  Subsquares = {io}
  Setups <- SixLetter
  MaxOps = 2
  RxReads = 1
PROPERTIES
  StopTerminates
  SwitchTakesEffect
  TxNextServed
\* The worker and the service end: nothing is left to do.
CHECK_DEADLOCK FALSE
