------------------------- MODULE MCDeletionRequests -------------------------
\* Small instances of DeletionRequests for TLC.
EXTENDS DeletionRequests

CONSTANTS r1, r2, s1, s2, d1

OneDataset == [s \in Subjects |-> d1]

\* An administrator puts a row back to verified, with a subject, at a generation that
\* was in use, or enters the end by hand.
FewRows == {<<"verifying", 0, s2>>, <<"completed", 1, NoSubject>>}

\* Any status, the first two generations, any subject or none.
AllRows == RowStatus \X {0, 1} \X (Subjects \cup {NoSubject})

\* Only the first request is edited, once.
OneEdit == [r \in Requests |-> IF r = r1 THEN 1 ELSE 0]
=============================================================================
