CONSTANTS
  Decoders = {d1, d2}
  Uploaders = {}
  call1 = call1
  call2 = call2
  Calls = {call1, call2}
  Hash <- OwnHash
  Bands = {b20m}
  KnownBands = {b20m}
  MaxSpots = 2
  MaxWipes = 1
  MaxFaults = 1
SPECIFICATION Spec
SYMMETRY ThreadSymmetry
INVARIANTS TypeOK LogTrueUnlessTorn ReportedUnlessTorn GridFromOwnSession
CHECK_DEADLOCK FALSE
