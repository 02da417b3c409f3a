\* One worker, a source that pages by $skip and changes while a run is paging.
SPECIFICATION Spec
CONSTANTS
  Keys = {1, 2, 3}
  Keyless = {}
  Runs = {r1}
  Executors = {e1}
  NoRun = NoRun
  PageSize = 1
  MaxRows = 4
  ServerPages = {0}
  SkipMoves = TRUE
  MaxVersion = 2
  MaxClock = 3
  MaxTies = 3
  MaxFaults = 1
INVARIANTS NothingLost
CHECK_DEADLOCK FALSE
