\* A counted transmission discards its own second part.
SPECIFICATION Spec
CONSTANTS
  Squares = {LO05, JO56}
  Subsquares = {io}
  Setups <- SixLetter
  MaxOps = 1
  RxReads = 1
PROPERTIES
  PartTwoSent
\* The worker and the service end: nothing is left to do.
CHECK_DEADLOCK FALSE
