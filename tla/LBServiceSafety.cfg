\* Every interleaving of the worker, the main thread and two user actions.
SPECIFICATION Spec
CONSTANTS
  Squares = {LO05, JO56}
  Subsquares = {io}
  Setups <- AllSetups
  MaxOps = 2
  RxReads = 2
SYMMETRY SquareSymmetry
INVARIANTS
  TypeOK
  SettingsInSync
  SecondHalfFollowsFirst
  CrashOnlyByPlatform
  TorchOffBetweenCycles
  WakeReleased
\* The worker and the service end: nothing is left to do.
CHECK_DEADLOCK FALSE
