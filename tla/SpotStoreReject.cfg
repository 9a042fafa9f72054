CONSTANTS
  Decoders = {d1, d2}
  Uploaders = {u1}
  call1 = call1
  call2 = call2
  Calls = {call1}
  Hash <- OneHash
  Bands = {b20m, b80mJp}
  KnownBands = {b20m}
  MaxSpots = 2
  MaxWipes = 0
  MaxFaults = 0
SPECIFICATION Spec
SYMMETRY ThreadSymmetry
INVARIANTS RejectedNotPosted
CHECK_DEADLOCK FALSE
