\* Two workers and two runs of the pipeline.
SPECIFICATION Spec
CONSTANTS
  Keys = {1, 2}
  Keyless = {}
  Runs = {r1, r2}
  Executors = {e1, e2}
  NoRun = NoRun
  PageSize = 2
  MaxRows = 4
  ServerPages = {1}
  SkipMoves = FALSE
  MaxVersion = 2
  MaxClock = 2
  MaxTies = 2
  MaxFaults = 1
SYMMETRY Symmetry
INVARIANTS OneExecutor NoneMissing
PROPERTIES FinalStatus
CHECK_DEADLOCK FALSE
