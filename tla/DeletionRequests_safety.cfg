\* Two requests, for the same, different or no subjects, an API thread that executes
\* what it verifies beside a worker; the first request may be edited or deleted at
\* any moment.
SPECIFICATION Spec
CONSTANTS
  r1 = r1  r2 = r2  s1 = s1  s2 = s2  d1 = d1
  Requests = {r1, r2}
  Subjects = {s1, s2}
  Datasets = {d1}
  DatasetOf <- OneDataset
  Admins = {a1}
  Workers = {w1}
  MaxAttempts = 1
  InlineMode = TRUE
  PutRows <- FewRows
  MaxEdits <- OneEdit
  NoRequest = NoRequest
  NoSubject = NoSubject
INVARIANTS TypeOK CompletedIsProven
PROPERTIES SupersededHarmless TerminalFinal ErasureAtomic
CHECK_DEADLOCK FALSE
