\* Two decoder threads, two moments on two days.
SPECIFICATION Spec
CONSTANTS
  Decoders = {d1, d2}
  Heard <- Heard80m
  Selections <- AnyOrLastHour
  Times = {0, 30}
  Day = 24
  MaxMessages = 1
  MaxSelects = 1
  MaxFaults = 1
INVARIANTS
  AskedForIsShown
  ShownWasAskedFor
  RawListComplete
  BandFoundAgain
  ExportJoined
PROPERTIES
  ComesIntoView
\* The bound on messages ends a behaviour.
CHECK_DEADLOCK FALSE
