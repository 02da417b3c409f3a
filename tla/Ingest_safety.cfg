\* One worker; a source that pages by links and changes at any time, or one
\* paged by $skip that rests while a run is paging.
SPECIFICATION Spec
CONSTANTS
  Keys = {1, 2, 3, 4}
  Keyless = {2}
  Runs = {r1}
  Executors = {e1}
  NoRun = NoRun
  PageSize = 2
  MaxRows = 3
  ServerPages = {0, 1}
  SkipMoves = FALSE
  MaxVersion = 2
  MaxClock = 3
  MaxTies = 2
  MaxFaults = 1
INVARIANTS TypeOK NothingLost
PROPERTIES LandingFollows
CHECK_DEADLOCK FALSE
