\* Runs requested again and again, with a row cap above two tie groups.
SPECIFICATION FairSpec
CONSTANTS
  Keys = {1, 2, 3, 4}
  Keyless = {}
  Runs = {r1}
  Executors = {e1}
  NoRun = NoRun
  PageSize = 2
  MaxRows = 3
  ServerPages = {0}
  SkipMoves = FALSE
  MaxVersion = 1
  MaxClock = 4
  MaxTies = 1
  MaxFaults = 1
PROPERTIES RunsEnd CatchesUp
CHECK_DEADLOCK FALSE
