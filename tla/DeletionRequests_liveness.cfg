\* One request and three executors, of which one verifies inline, under fairness; the
\* row may be set to anything once, or deleted.
SPECIFICATION FairSpec
CONSTANTS
  r1 = r1  r2 = r2  s1 = s1  s2 = s2  d1 = d1
  Requests = {r1}
  Subjects = {s1}
  Datasets = {d1}
  DatasetOf <- OneDataset
  Admins = {a1}
  Workers = {w1, w2}
  MaxAttempts = 2
  InlineMode = TRUE
  PutRows <- AllRows
  MaxEdits <- OneEdit
  NoRequest = NoRequest
  NoSubject = NoSubject

INVARIANT ClaimExclusive
PROPERTIES ClaimsEnd VerifiedResolved
CHECK_DEADLOCK FALSE
