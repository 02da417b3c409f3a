------------------------------ MODULE MCIngest ------------------------------
\* Small instances of Ingest for TLC.
EXTENDS Ingest, TLC

Symmetry == Permutations(Runs) \cup Permutations(Executors)
=============================================================================
