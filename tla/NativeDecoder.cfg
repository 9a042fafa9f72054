\* Two recordings, one demodulation in each of their passes.
SPECIFICATION Spec
CONSTANTS
  MaxCalls = 2
  Samples = 2
  BufferSize = 6
  Symbols = 2
  Tracks <- SteadyAndDrifting
  MaxSearches = 1
INVARIANTS
  RecordingFits
  PlansOwnUnlessMet
  TablesOwnUnlessMet
\* The bound on recordings, and a crash, end a behaviour.
CHECK_DEADLOCK FALSE
