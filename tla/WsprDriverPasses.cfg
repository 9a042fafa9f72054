\* Both passes over recordings of up to six signals.
SPECIFICATION Spec
CONSTANTS
  Hash <- CallHash
  Signals <- Everything
  Errors <- FewHz
  MaxPeaks = 3
INVARIANTS
  HeardAndSubtractedKept
  OnePlacePerSignal
  TriedUnlessRefused
\* The driver returns.
CHECK_DEADLOCK FALSE
