------------------------------ MODULE Replica ------------------------------
(***************************************************************************)
(* What the ingest of a pipeline promises, without runs, pages, requests,  *)
(* executors or failures: a copy that follows its original, each item      *)
(* version after version and never back, and a mark behind which the copy  *)
(* is the original.                                                        *)
(***************************************************************************)
EXTENDS Naturals

CONSTANT Items

VARIABLES
  original,  \* each item's version and when it came about (version 0: no item yet)
  now,       \* the original's clock
  copy,      \* the version of each item in the copy (0: none)
  mark       \* how far the copy is complete

rvars == <<original, now, copy, mark>>

RInit ==
  /\ original = [k \in Items |-> [at |-> 0, ver |-> 0]]
  /\ now = 1
  /\ copy = [k \in Items |-> 0]
  /\ mark = 0

\* The copy has every item that changed last before m, in its last version.
CompleteBefore(m) ==
  \A k \in Items : original[k].at < m => copy[k] = original[k].ver

\* Time passes, and an item may get a new version, dated now.
Change ==
  /\ now' \in Nat /\ now' >= now
  /\ \/ original' = original
     \/ \E k \in Items :
          original' = [original EXCEPT ![k] = [at |-> now', ver |-> @.ver + 1]]
  /\ UNCHANGED <<copy, mark>>

\* Some items are copied, in versions that are not older than the copied ones.
Catch ==
  /\ copy' \in [Items -> Nat]
  /\ \A k \in Items : copy'[k] \in copy[k] .. original[k].ver
  /\ UNCHANGED <<original, now, mark>>

\* The mark goes forward, never past an item that is not copied nor past now.
Advance ==
  /\ mark' \in mark + 1 .. now
  /\ CompleteBefore(mark')
  /\ UNCHANGED <<original, now, copy>>

RNext == Change \/ Catch \/ Advance

RSpec == RInit /\ [][RNext]_rvars
=============================================================================
