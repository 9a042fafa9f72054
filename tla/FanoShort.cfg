\* Four bits and a tail of two, up to two symbols changed, one of them erased.
SPECIFICATION Spec
CONSTANTS
  NBits = 6
  TailBits = 2
  ByteBits = 2
  Poly1 <- ThreeLags
  Poly2 <- TwoLags
  Received <- HardOrErased
  MetTab <- Metrics
  Junk = Junk
  Delta = 10
  MaxCycles = 4
  Noise <- TwoChanges
INVARIANTS
  TypeOK
  HypothesisConsistent
  AboveThreshold
  NeverBelowAnyMessage
  SuccessIsMessage
  OneErrorInTime
\* The function returns.
CHECK_DEADLOCK FALSE
