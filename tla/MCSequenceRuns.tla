--------------------------- MODULE MCSequenceRuns ---------------------------
(* Small instances of SequenceRuns.                                        *)
EXTENDS SequenceRuns

TwoSteps == [s \in Sequences |-> 2]
Both == {TRUE, FALSE}
=============================================================================
