------------------------------ MODULE Erasure ------------------------------
(***************************************************************************)
(* What the right-to-be-forgotten feature promises, without threads,       *)
(* claims or retries: a request names a subject and ends once, either      *)
(* rejected, with the data untouched, or erased - and then, in one         *)
(* indivisible step, the subject's rows are gone, its dataset's profiles   *)
(* are cleared, its suppression is in force and the proof is written.      *)
(* An administrator may edit a request by hand: then nothing is promised   *)
(* about how it ends or whom it names, but what it erases it still erases  *)
(* whole, and with the proof.                                              *)
(***************************************************************************)
EXTENDS Naturals

CONSTANTS Requests, Subjects, DatasetOf, NoSubject

VARIABLES outcome, subject, store, profiled, suppressed, proof

evars == <<outcome, subject, store, profiled, suppressed, proof>>

EInit ==
  /\ outcome = [r \in Requests |-> "open"]
  /\ subject = [r \in Requests |-> NoSubject]
  /\ store \subseteq Subjects
  /\ profiled \subseteq Subjects
  /\ suppressed = {}
  /\ proof = [r \in Requests |-> NoSubject]

\* The subject is named once, when the request is created.
Name(r, s) ==
  /\ outcome[r] = "open"
  /\ subject[r] = NoSubject
  /\ subject' = [subject EXCEPT ![r] = s]
  /\ UNCHANGED <<outcome, store, profiled, suppressed, proof>>

Reject(r) ==
  /\ outcome[r] = "open"
  /\ outcome' = [outcome EXCEPT ![r] = "rejected"]
  /\ UNCHANGED <<subject, store, profiled, suppressed, proof>>

\* Subject s is erased on behalf of request r, whole.
Wipe(r, s) ==
  /\ store' = store \ {s}
  /\ profiled' = {x \in profiled : DatasetOf[x] # DatasetOf[s]}
  /\ suppressed' = suppressed \cup {s}
  /\ proof' = [proof EXCEPT ![r] = s]

Erase(r) ==
  /\ outcome[r] = "open"
  /\ subject[r] # NoSubject
  /\ Wipe(r, subject[r])
  /\ outcome' = [outcome EXCEPT ![r] = "erased"]
  /\ subject' = [subject EXCEPT ![r] = NoSubject]

\* The request is taken out of the protocol's hands.
Edit(r) ==
  /\ outcome' = [outcome EXCEPT ![r] = "edited"]
  /\ subject' = [subject EXCEPT ![r] = NoSubject]
  /\ UNCHANGED <<store, profiled, suppressed, proof>>

EraseEdited(r, s) ==
  /\ outcome[r] = "edited"
  /\ Wipe(r, s)
  /\ UNCHANGED <<outcome, subject>>

ENext ==
  \E r \in Requests :
    \/ \E s \in Subjects : Name(r, s) \/ EraseEdited(r, s)
    \/ Reject(r) \/ Erase(r) \/ Edit(r)

ESpec == EInit /\ [][ENext]_evars
=============================================================================
