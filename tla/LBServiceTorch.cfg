\* The torch outlives the service.
SPECIFICATION Spec
CONSTANTS
  Squares = {LO05, JO56}
  Subsquares = {io}
  Setups <- SixLetter
  MaxOps = 1
  RxReads = 1
INVARIANTS
  TorchDarkWhenOver
\* The worker and the service end: nothing is left to do.
CHECK_DEADLOCK FALSE
