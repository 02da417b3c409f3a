-------------------------- MODULE DeletionRequests --------------------------
(***************************************************************************)
(* Right-to-be-forgotten deletion requests (app/governance, app/worker).   *)
(*                                                                         *)
(* A request row walks received -> verifying -> executing -> completed, or *)
(* received|verifying -> rejected.  Admin API threads verify and reject;   *)
(* in inline mode the verifying thread also executes the erasure, in       *)
(* worker mode worker processes claim it.  A reaper returns an executing   *)
(* row whose executor seems dead to verifying.  The column `attempts` is   *)
(* the generation token that fences an executor that was reaped while      *)
(* still alive.                                                            *)
(*                                                                         *)
(* Every SQL transaction of the code commits at one step of the model; a   *)
(* transaction that reads first and writes later is two steps, so other    *)
(* transactions commit in between (READ COMMITTED).                        *)
(***************************************************************************)
EXTENDS Integers, FiniteSets

CONSTANTS
  Requests,     \* ids of deletion_requests rows
  Subjects,     \* erasable subjects: (dataset_id, business_key) pairs
  Datasets,
  DatasetOf,    \* the dataset of each subject
  Admins,       \* API threads serving verify/reject
  Workers,      \* worker processes
  MaxAttempts,  \* DELETION_MAX_ATTEMPTS
  InlineMode,   \* INGEST_EXECUTOR = inline
  PutRows,      \* what a PUT may write: <<status, attempts, subject>>
  MaxEdits,     \* bound: PUTs and DELETEs of each request
  NoRequest,    \* "no request held"
  NoSubject     \* SQL NULL in subject_key

\* What the CHECK constraint lets a row hold ("unset" is SQL NULL).
RowStatus == {"unset", "received", "verifying", "executing", "completed", "rejected"}

ASSUME ConstantsOK ==
  /\ DatasetOf \in [Subjects -> Datasets]
  /\ Admins \cap Workers = {}
  /\ MaxAttempts \in Nat
  /\ InlineMode \in BOOLEAN
  /\ PutRows \subseteq RowStatus \X Int \X (Subjects \cup {NoSubject})
  /\ MaxEdits \in [Requests -> Nat]
  /\ NoRequest \notin Requests
  /\ NoSubject \notin Subjects

VARIABLES
  status,       \* deletion_requests.status
  attempts,     \* deletion_requests.attempts, NULL read as 0
  subjectKey,   \* deletion_requests.(dataset_id, subject_key)
  oplog,        \* subjects with an ingested_records row
  landing,      \* subjects with an ingested_payloads row
  profiled,     \* subjects whose values may sit in field_profiles
  suppressed,   \* subjects with a suppression_entries row
  proofs,       \* audit_logs: erasure rows per request, as <<number, subject>>
  transitions,  \* audit_logs: the (from, to) pairs recorded per request
  thread,       \* program state of every API thread and worker
  edits         \* history: how often a PUT or DELETE has struck each request

requestVars == <<status, attempts, subjectKey>>
dataVars    == <<oplog, landing, profiled, suppressed>>
auditVars   == <<proofs, transitions>>
vars        == <<requestVars, dataVars, auditVars, thread, edits>>

Threads == Admins \cup Workers

\* A row's status, or that there is none yet or none any more.
Status == RowStatus \cup {"absent", "deleted"}

Tables == {"oplog", "landing"}

\* Where a thread is: nothing in hand; status read by verify or reject, write
\* still to come; verified inline, claim to come; generation claimed; erasure
\* transaction open, subject read; its DELETEs done; erasure rolled back.
PC == {"idle", "verify", "reject", "verified", "claimed", "erasing", "deleted",
       "raised"}

Thread == [pc: PC, req: Requests \cup {NoRequest}, gen: Int, seen: Status,
           subj: Subjects \cup {NoSubject}, doomed: SUBSET Tables]

Idle == [pc |-> "idle", req |-> NoRequest, gen |-> 0, seen |-> "absent",
         subj |-> NoSubject, doomed |-> {}]

TypeOK ==
  /\ status \in [Requests -> Status]
  /\ attempts \in [Requests -> Int]
  /\ subjectKey \in [Requests -> Subjects \cup {NoSubject}]
  /\ oplog \subseteq Subjects
  /\ landing \subseteq Subjects
  /\ profiled \subseteq Subjects
  /\ suppressed \subseteq Subjects
  /\ proofs \in [Requests -> Nat \X (Subjects \cup {NoSubject})]
  /\ transitions \in [Requests -> SUBSET (Status \X Status)]
  /\ thread \in [Threads -> Thread]
  /\ edits \in [Requests -> Nat]

-----------------------------------------------------------------------------
\* Any data may have been ingested and profiled before the first request.
Init ==
  /\ status = [r \in Requests |-> "absent"]
  /\ attempts = [r \in Requests |-> 0]
  /\ subjectKey = [r \in Requests |-> NoSubject]
  /\ oplog \in SUBSET Subjects
  /\ landing = oplog
  /\ profiled \in SUBSET Subjects
  /\ suppressed = {}
  /\ proofs = [r \in Requests |-> <<0, NoSubject>>]
  /\ transitions = [r \in Requests |-> {}]
  /\ thread = [t \in Threads |-> Idle]
  /\ edits = [r \in Requests |-> 0]

Hold(t, th)  == thread' = [thread EXCEPT ![t] = th]
Release(t)   == Hold(t, Idle)
Goto(t, pc)  == Hold(t, [thread[t] EXCEPT !.pc = pc])

-----------------------------------------------------------------------------
(* Seeded faults.  No action uses these: each stands in for the definition *)
(* named, one at a time, to show that a property notices the bug.          *)

OwnsByStatus(t)      == status[thread[t].req] = "executing"           \* Owns
NullGeneration(r)    == IF attempts[r] = 0 THEN NoSubject ELSE attempts[r]
                                                                      \* Generation
CapOffByOne(r)       == attempts[r] + 1 < MaxAttempts                 \* UnderCap
ReapableUnderCap(r)  == status[r] = "executing" /\ CapOffByOne(r)     \* Reapable
RejectableUnlessRejected(r) == status[r] \notin {"absent", "rejected"} \* Rejectable
OplogRowsOnly(s)     == {x \in {"oplog"} : s \in oplog}               \* RowsOf

-----------------------------------------------------------------------------
(* Conditions of the SQL statements.                                       *)

\* The fence of the executor's finalize and requeue statements:
\* WHERE status = 'executing' AND attempts = <generation>.
Owns(t) ==
  /\ status[thread[t].req] = "executing"
  /\ attempts[thread[t].req] = thread[t].gen

\* What a claim returns as its generation: COALESCE(attempts, 0).
Generation(r) == attempts[r]

Rejectable(r) == status[r] \in {"received", "verifying"}
Claimable(r)  == status[r] = "verifying"
UnderCap(r)   == attempts[r] < MaxAttempts
Reapable(r)   == status[r] = "executing"

\* The tables in which the subject has a committed row.
RowsOf(s) == {x \in Tables : s \in IF x = "oplog" THEN oplog ELSE landing}

-----------------------------------------------------------------------------
(* The API: create, verify, reject.                                        *)

\* POST /api/deletion-requests as documented: status 'received', subject given
\* or left out.
Create(r, s) ==
  /\ status[r] = "absent"
  /\ status' = [status EXCEPT ![r] = "received"]
  /\ subjectKey' = [subjectKey EXCEPT ![r] = s]
  /\ UNCHANGED <<attempts, dataVars, auditVars, thread, edits>>

\* verify_request up to its UPDATE: any other status, or a missing subject,
\* raises WrongState and changes nothing.
VerifyRead(a, r) ==
  /\ thread[a].pc = "idle"
  /\ status[r] = "received"
  /\ subjectKey[r] # NoSubject
  /\ Hold(a, [Idle EXCEPT !.pc = "verify", !.req = r])
  /\ UNCHANGED <<requestVars, dataVars, auditVars, edits>>

\* Its guarded UPDATE, audit row and commit; a lost race rolls back.
VerifyCommit(a) ==
  LET r == thread[a].req IN
  /\ thread[a].pc = "verify"
  /\ \/ /\ status[r] = "received"
        /\ status' = [status EXCEPT ![r] = "verifying"]
        /\ transitions' = [transitions EXCEPT ![r] = @ \cup {<<"received", "verifying">>}]
        /\ IF InlineMode THEN Goto(a, "verified") ELSE Release(a)
     \/ /\ status[r] # "received"
        /\ Release(a)
        /\ UNCHANGED <<status, transitions>>
  /\ UNCHANGED <<attempts, subjectKey, dataVars, proofs, edits>>

\* reject_request up to its UPDATE, remembering the status it read.
RejectRead(a, r) ==
  /\ thread[a].pc = "idle"
  /\ Rejectable(r)
  /\ Hold(a, [Idle EXCEPT !.pc = "reject", !.req = r, !.seen = status[r]])
  /\ UNCHANGED <<requestVars, dataVars, auditVars, edits>>

\* Its guarded UPDATE and commit: the audit row names the status read before.
RejectCommit(a) ==
  LET r == thread[a].req IN
  /\ thread[a].pc = "reject"
  /\ Release(a)
  /\ \/ /\ Rejectable(r)
        /\ status' = [status EXCEPT ![r] = "rejected"]
        /\ transitions' = [transitions EXCEPT ![r] = @ \cup {<<thread[a].seen, "rejected">>}]
     \/ /\ ~Rejectable(r)
        /\ UNCHANGED <<status, transitions>>
  /\ UNCHANGED <<attempts, subjectKey, dataVars, proofs, edits>>

-----------------------------------------------------------------------------
(* The generic record routes: one UPDATE or DELETE by id, in any state of  *)
(* the request, whoever is executing it.                                   *)

HasRow(r)   == status[r] \in RowStatus
Editable(r) == HasRow(r) /\ edits[r] < MaxEdits[r]

\* PUT /api/deletion-requests/{id}: any of the columns, to any value.  (A POST
\* with another status or attempts is a Create and a Put.)
Put(r, row) ==
  /\ Editable(r)
  /\ status' = [status EXCEPT ![r] = row[1]]
  /\ attempts' = [attempts EXCEPT ![r] = row[2]]
  /\ subjectKey' = [subjectKey EXCEPT ![r] = row[3]]
  /\ edits' = [edits EXCEPT ![r] = @ + 1]
  /\ UNCHANGED <<dataVars, auditVars, thread>>

\* DELETE /api/deletion-requests/{id}: completed and rejected rows included;
\* the audit rows and the suppression stay.
Delete(r) ==
  /\ Editable(r)
  /\ status' = [status EXCEPT ![r] = "deleted"]
  /\ attempts' = [attempts EXCEPT ![r] = 0]
  /\ subjectKey' = [subjectKey EXCEPT ![r] = NoSubject]
  /\ edits' = [edits EXCEPT ![r] = @ + 1]
  /\ UNCHANGED <<dataVars, auditVars, thread>>

-----------------------------------------------------------------------------
(* The claims.                                                             *)

\* claim_for_execution, from an inline verify: by id, no attempts cap.
ClaimForExecution(a) ==
  LET r == thread[a].req IN
  /\ thread[a].pc = "verified"
  /\ \/ /\ Claimable(r)
        /\ status' = [status EXCEPT ![r] = "executing"]
        /\ Hold(a, [thread[a] EXCEPT !.pc = "claimed", !.gen = Generation(r)])
     \/ /\ ~Claimable(r)
        /\ Release(a)
        /\ UNCHANGED status
  /\ UNCHANGED <<attempts, subjectKey, dataVars, auditVars, edits>>

\* claim_next_deletion: the worker takes a verified request under the cap.
\* Oldest first, but SKIP LOCKED passes over a row another transaction holds,
\* so any candidate may be the one taken.
ClaimNextDeletion(w, r) ==
  /\ thread[w].pc = "idle"
  /\ Claimable(r)
  /\ UnderCap(r)
  /\ status' = [status EXCEPT ![r] = "executing"]
  /\ Hold(w, [Idle EXCEPT !.pc = "claimed", !.req = r, !.gen = Generation(r)])
  /\ UNCHANGED <<attempts, subjectKey, dataVars, auditVars, edits>>

-----------------------------------------------------------------------------
(* execute_deletion, after the claim.                                      *)

\* The fenced SELECT that opens the erasure transaction: superseded claims
\* return False, a row without subject raises.
BeginErasure(t) ==
  LET r == thread[t].req IN
  /\ thread[t].pc = "claimed"
  /\ \/ /\ ~Owns(t)
        /\ Release(t)
     \/ /\ Owns(t)
        /\ subjectKey[r] # NoSubject
        /\ Hold(t, [thread[t] EXCEPT !.pc = "erasing", !.subj = subjectKey[r]])
     \/ /\ Owns(t)
        /\ subjectKey[r] = NoSubject
        /\ Goto(t, "raised")
  /\ UNCHANGED <<requestVars, dataVars, auditVars, edits>>

\* The DELETEs: each removes the rows committed when the statement runs; the
\* removal becomes visible at the commit.
DeleteRows(t) ==
  /\ thread[t].pc = "erasing"
  /\ Hold(t, [thread[t] EXCEPT !.pc = "deleted", !.doomed = RowsOf(thread[t].subj)])
  /\ UNCHANGED <<requestVars, dataVars, auditVars, edits>>

\* Profiles cleared, suppression entry and proof written, the row finalized
\* through the fence, all at one commit.
CommitErasure(t) ==
  LET r == thread[t].req
      s == thread[t].subj
      d == thread[t].doomed
  IN
  /\ thread[t].pc = "deleted"
  /\ Owns(t)
  /\ oplog' = IF "oplog" \in d THEN oplog \ {s} ELSE oplog
  /\ landing' = IF "landing" \in d THEN landing \ {s} ELSE landing
  /\ profiled' = {x \in profiled : DatasetOf[x] # DatasetOf[s]}
  /\ suppressed' = suppressed \cup {s}
  /\ proofs' = [proofs EXCEPT ![r] = <<@[1] + 1, s>>]
  /\ status' = [status EXCEPT ![r] = "completed"]
  /\ subjectKey' = [subjectKey EXCEPT ![r] = NoSubject]
  /\ Release(t)
  /\ UNCHANGED <<attempts, transitions, edits>>

\* Any exception in the transaction (a missing pepper, a database error, the
\* finalize fence finding the claim lost) rolls it back whole.
AbortErasure(t) ==
  /\ thread[t].pc \in {"erasing", "deleted"}
  /\ Hold(t, [thread[t] EXCEPT !.pc = "raised", !.subj = NoSubject, !.doomed = {}])
  /\ UNCHANGED <<requestVars, dataVars, auditVars, edits>>

\* The exception handler: the fenced reset executing -> verifying.
Requeue(t) ==
  LET r == thread[t].req IN
  /\ thread[t].pc = "raised"
  /\ Release(t)
  /\ \/ /\ Owns(t)
        /\ status' = [status EXCEPT ![r] = "verifying"]
        /\ attempts' = [attempts EXCEPT ![r] = @ + 1]
     \/ /\ ~Owns(t)
        /\ UNCHANGED <<status, attempts>>
  /\ UNCHANGED <<subjectKey, dataVars, auditVars, edits>>

\* A thread dies, its open transaction rolled back; also the requeue itself
\* failing, which the handler suppresses.
Crash(t) ==
  /\ thread[t].pc # "idle"
  /\ Release(t)
  /\ UNCHANGED <<requestVars, dataVars, auditVars, edits>>

\* reap_stale_executing: the executing rows older than the cutoff, at most all
\* of them; their executors may well be alive.
ReapStaleExecuting(R) ==
  /\ Workers # {}
  /\ R # {}
  /\ \A r \in R : Reapable(r)
  /\ status' = [r \in Requests |-> IF r \in R THEN "verifying" ELSE status[r]]
  /\ attempts' = [r \in Requests |-> IF r \in R THEN attempts[r] + 1 ELSE attempts[r]]
  /\ UNCHANGED <<subjectKey, dataVars, auditVars, thread, edits>>

-----------------------------------------------------------------------------
Step(t) ==
  \/ BeginErasure(t) \/ DeleteRows(t) \/ CommitErasure(t)
  \/ AbortErasure(t) \/ Requeue(t) \/ Crash(t)

Next ==
  \/ \E r \in Requests, s \in Subjects \cup {NoSubject} : Create(r, s)
  \/ \E a \in Admins, r \in Requests : VerifyRead(a, r) \/ RejectRead(a, r)
  \/ \E a \in Admins : VerifyCommit(a) \/ RejectCommit(a) \/ ClaimForExecution(a)
  \/ \E w \in Workers, r \in Requests : ClaimNextDeletion(w, r)
  \/ \E t \in Threads : Step(t)
  \/ \E R \in SUBSET Requests : ReapStaleExecuting(R)
  \/ \E r \in Requests : Delete(r) \/ \E row \in PutRows : Put(r, row)

Spec == Init /\ [][Next]_vars

\* A thread that is not killed goes on, erasure transactions end, an idle
\* worker keeps polling, and the reaper runs at every worker iteration, so a
\* row that stays executing is reaped.
Fairness ==
  /\ \A t \in Threads :
       /\ WF_vars(BeginErasure(t) \/ DeleteRows(t) \/ Requeue(t))
       /\ WF_vars(CommitErasure(t) \/ AbortErasure(t))
  /\ \A a \in Admins :
       WF_vars(VerifyCommit(a) \/ RejectCommit(a) \/ ClaimForExecution(a))
  /\ \A r \in Requests :
       /\ WF_vars(\E w \in Workers : ClaimNextDeletion(w, r))
       /\ WF_vars(\E R \in SUBSET Requests : r \in R /\ ReapStaleExecuting(R))

FairSpec == Spec /\ Fairness

-----------------------------------------------------------------------------
(* Properties.                                                             *)

\* Threads that believe they own the execution of their request.
Executing == {t \in Threads : thread[t].pc \in {"claimed", "erasing", "deleted", "raised"}}

\* Nobody has changed the row by PUT or DELETE.
Unedited(r) == edits[r] = 0

\* However often a request is reaped and claimed again, at most one live
\* executor can still pass the finalize/requeue fence (executor.py: "a woken
\* zombie whose row was reaped and re-claimed can no longer stomp the live
\* claim's state"), unless its own row was edited.
ClaimExclusive ==
  \A t, u \in Executing :
    /\ thread[t].req = thread[u].req /\ Unedited(thread[t].req)
    /\ Owns(t) /\ Owns(u)
    => t = u

\* What the latest erasure audit row of a request claims is true, edited or not:
\* the subject is suppressed, gone from both stores and from its dataset's
\* profiles.  And of a request nobody edited, completed and proven are the same
\* thing: one proof and no key on the row, or no proof.
CompletedIsProven ==
  \A r \in Requests :
    /\ proofs[r][1] > 0 =>
         /\ proofs[r][2] \in suppressed \ (oplog \cup landing)
         /\ \A x \in profiled : DatasetOf[x] # DatasetOf[proofs[r][2]]
    /\ Unedited(r) =>
         IF status[r] = "completed"
         THEN proofs[r][1] = 1 /\ subjectKey[r] = NoSubject
         ELSE proofs[r][1] = 0

\* Nobody's data is deleted, wiped from the profiles or suppressed by a step
\* that does not also write the proof, for that very subject, of a request in
\* execution - which was verified, and is proven once, unless it was edited.
ErasureWithProof ==
  [][dataVars' # dataVars =>
       \E r \in Requests :
         LET s == proofs'[r][2] IN
         /\ status[r] = "executing" /\ status'[r] = "completed"
         /\ proofs'[r][1] = proofs[r][1] + 1
         /\ oplog' = oplog \ {s} /\ landing' = landing \ {s}
         /\ suppressed' = suppressed \cup {s}
         /\ Unedited(r) =>
              /\ <<"received", "verifying">> \in transitions[r]
              /\ proofs'[r] = <<1, subjectKey[r]>>
    ]_vars

\* A step of an executor whose generation is no longer the row's changes
\* nothing but its own state (tests/test_erasure_executor.py,
\* test_stale_generation_cannot_touch_a_reclaimed_row).
SupersededHarmless ==
  [][\A t \in Executing :
       attempts[thread[t].req] # thread[t].gen /\ thread'[t] # thread[t]
         => UNCHANGED <<requestVars, dataVars, auditVars>>]_vars

\* Terminal states win: nothing but a PUT or DELETE of the row itself leaves
\* completed or rejected, whatever verify, reject, reaper and executors still in
\* flight do, with whatever an edit left behind.
TerminalFinal ==
  [][\A r \in Requests :
       status[r] \in {"completed", "rejected"} /\ edits'[r] = edits[r]
         => status'[r] = status[r]]_vars

\* A claimed request never stays executing for ever, even if every executor
\* that takes it dies.
ClaimsEnd ==
  \A r \in Requests : status[r] = "executing" ~> status[r] # "executing"

\* Retry-not-fail: a verified request ends completed, rejected, or with its
\* attempts used up and visible for triage, unless it is edited meanwhile.
VerifiedResolved ==
  \A r \in Requests :
    status[r] = "verifying" ~>
      \/ status[r] \in {"completed", "rejected"}
      \/ status[r] = "verifying" /\ attempts[r] >= MaxAttempts
      \/ ~Unedited(r)

-----------------------------------------------------------------------------
(* The inductive invariant behind the safety properties.                   *)

\* What a thread holds exists and, inside the transaction, names a subject.
HeldInv ==
  \A t \in Threads :
    thread[t].pc # "idle" =>
      /\ thread[t].req \in Requests
      /\ status[thread[t].req] # "absent"
      /\ thread[t].pc \in {"erasing", "deleted"} => thread[t].subj \in Subjects

\* Generations never lie ahead of a row nobody edited, the row's own generation
\* is in use only while it executes or has completed, and no two executors share
\* one.
FenceInv ==
  \A t \in Executing :
    Unedited(thread[t].req) =>
      /\ thread[t].gen <= attempts[thread[t].req]
      /\ thread[t].gen = attempts[thread[t].req]
           => status[thread[t].req] \in {"executing", "completed"}
      /\ \A u \in Executing :
           thread[u].req = thread[t].req /\ thread[u].gen = thread[t].gen => u = t

\* What an open erasure transaction saw is still so when it may commit: of the
\* row, if nobody edited it, and of the stores in any case.
ErasingInv ==
  \A t \in Threads :
    /\ thread[t].pc \in {"erasing", "deleted"} /\ Owns(t) /\ Unedited(thread[t].req)
         => subjectKey[thread[t].req] = thread[t].subj
    /\ thread[t].pc = "deleted" => RowsOf(thread[t].subj) \subseteq thread[t].doomed

\* A row's past shows in its audit rows; a row not created has no subject.
HistoryInv ==
  \A r \in Requests :
    /\ status[r] = "absent" => subjectKey[r] = NoSubject
    /\ status[r] \in {"verifying", "executing"} /\ Unedited(r)
         => <<"received", "verifying">> \in transitions[r]

IInv == TypeOK /\ HeldInv /\ FenceInv /\ ErasingInv /\ HistoryInv /\ CompletedIsProven

-----------------------------------------------------------------------------
(* The claims, retries and reaping implement the atomic Erasure.           *)

outcome ==
  [r \in Requests |->
     CASE ~Unedited(r)                             -> "edited"
       [] Unedited(r) /\ status[r] = "completed"   -> "erased"
       [] Unedited(r) /\ status[r] = "rejected"    -> "rejected"
       [] OTHER                                    -> "open"]

Promise == INSTANCE Erasure WITH
  subject <- [r \in Requests |-> IF Unedited(r) THEN subjectKey[r] ELSE NoSubject],
  store   <- oplog \cup landing,
  proof   <- [r \in Requests |-> proofs[r][2]]

\* Whatever fails, is reaped or retried, the outside sees an erasure whole or
\* not at all, once per request (executor.py: "Erase, suppress, audit, finalize
\* - all-or-nothing"); an edited request may be erased again, and then as whole.
ErasureAtomic == Promise!ESpec
=============================================================================
