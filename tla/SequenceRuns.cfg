CONSTANTS
  s1 = s1
  r1 = r1
  r2 = r2
  w1 = w1
  a1 = a1
  Sequences = {s1}
  Length <- TwoSteps
  MaxLength = 2
  Runs = {r1, r2}
  Workers = {w1}
  ApiThreads = {a1}
  NoRun = NoRun
  Patience <- Both
  MaxFaults = 1
SPECIFICATION FairSpec
INVARIANTS
  TypeOK
  OneExecutor
  StepsFit
  SequenceExclusive
PROPERTIES
  KeepsToPlan
  RunsEnd
  ScheduledTakenUp
  DueFires
