----------------------- MODULE DeletionRequestsProofs -----------------------
(***************************************************************************)
(* Proofs about DeletionRequests, for any sets of requests, subjects,      *)
(* threads and workers and any attempts cap.  The inductive invariant is   *)
(* IInv; each action preserves its conjuncts one at a time.                *)
(***************************************************************************)
EXTENDS DeletionRequests, TLAPS

\* The values a thread is set to are thread states.
LEMMA IdleType == Idle \in Thread
  BY DEF Idle, Thread, PC, Status, RowStatus

\* The statuses the protocol gives to a row are statuses.
LEMMA StatusType ==
  {"received", "verifying", "executing", "completed", "rejected"} \subseteq Status
  BY DEF Status, RowStatus

\* The fields of a thread, from the type of `thread`.
LEMMA ThreadType ==
  ASSUME TypeOK, NEW t \in Threads
  PROVE  /\ thread[t] \in Thread
         /\ thread[t].pc \in PC
         /\ thread[t].req \in Requests \cup {NoRequest}
         /\ thread[t].gen \in Int
         /\ thread[t].seen \in Status
         /\ thread[t].subj \in Subjects \cup {NoSubject}
         /\ thread[t].doomed \in SUBSET Tables
  BY DEF TypeOK, Thread

\* A held request is one of the requests, whatever step the thread is at.
LEMMA HeldRequest ==
  ASSUME HeldInv, NEW t \in Threads, thread[t].pc # "idle"
  PROVE  /\ thread[t].req \in Requests
         /\ status[thread[t].req] # "absent"
  BY DEF HeldInv

-----------------------------------------------------------------------------
(* What a PUT or DELETE does: any row state for one request, and nothing   *)
(* to the other rows, the data, the audit trail or a thread.               *)

Edits(q) ==
  /\ UNCHANGED <<dataVars, auditVars, thread>>
  /\ status[q] # "absent" /\ status'[q] # "absent" /\ ~Unedited(q)'
  /\ \A r \in Requests \ {q} :
       /\ status'[r] = status[r] /\ attempts'[r] = attempts[r]
       /\ subjectKey'[r] = subjectKey[r] /\ edits'[r] = edits[r]

\* Both routes are edits, and keep the types.
LEMMA EditEffect ==
  ASSUME TypeOK, NEW q \in Requests,
         Delete(q) \/ \E row \in PutRows : Put(q, row)
  PROVE  TypeOK' /\ Edits(q)
<1> USE DEF Unedited, Editable, HasRow
<1>0. edits[q] \in Nat /\ edits[q] + 1 \in Nat /\ edits[q] + 1 # 0
  BY DEF TypeOK
<1>1. CASE Delete(q)
  <2>1. TypeOK'
    BY <1>0, <1>1 DEF Delete, TypeOK, Status, dataVars, auditVars
  <2>2. Edits(q)
    BY <1>0, <1>1 DEF Delete, TypeOK, RowStatus, Edits
  <2> QED BY <2>1, <2>2
<1>2. ASSUME NEW row \in PutRows, Put(q, row)
      PROVE  TypeOK' /\ Edits(q)
  <2>1. row[1] \in RowStatus /\ row[2] \in Int /\ row[3] \in Subjects \cup {NoSubject}
    BY ConstantsOK
  <2>2. TypeOK'
    BY <1>0, <1>2, <2>1 DEF Put, TypeOK, Status, dataVars, auditVars
  <2>3. Edits(q)
    BY <1>0, <1>2, <2>1 DEF Put, TypeOK, RowStatus, Edits
  <2> QED BY <2>2, <2>3
<1> QED BY <1>1, <1>2

-----------------------------------------------------------------------------
\* Type correctness, with the facts about held requests it leans on.
LEMMA TypeInit == Init => TypeOK /\ HeldInv
  BY IdleType DEF Init, TypeOK, HeldInv, Idle, Status, RowStatus

\* Every step of the API, the executors and the reaper keeps the types.
LEMMA TypeStep ==
  ASSUME TypeOK, HeldInv, [Next]_vars
  PROVE  TypeOK' /\ HeldInv'
<1> USE DEF Hold, Release, Goto, requestVars, dataVars, auditVars
<1>1. ASSUME NEW r \in Requests, NEW s \in Subjects \cup {NoSubject}, Create(r, s)
      PROVE  TypeOK' /\ HeldInv'
  BY <1>1 DEF Create, TypeOK, HeldInv, Status, RowStatus
<1>2. ASSUME NEW a \in Admins, NEW r \in Requests, VerifyRead(a, r)
      PROVE  TypeOK' /\ HeldInv'
  <2>1. [Idle EXCEPT !.pc = "verify", !.req = r] \in Thread
    BY IdleType DEF Thread, PC
  <2>2. TypeOK'
    BY <1>2, <2>1 DEF VerifyRead, TypeOK, Threads
  <2>3. HeldInv'
    BY <1>2, IdleType DEF VerifyRead, TypeOK, HeldInv, Threads, Idle
  <2> QED BY <2>2, <2>3
<1>3. ASSUME NEW a \in Admins, NEW r \in Requests, RejectRead(a, r)
      PROVE  TypeOK' /\ HeldInv'
  <2>1. [Idle EXCEPT !.pc = "reject", !.req = r, !.seen = status[r]] \in Thread
    BY IdleType DEF Thread, PC, TypeOK
  <2>2. TypeOK'
    BY <1>3, <2>1 DEF RejectRead, TypeOK, Threads
  <2>3. HeldInv'
    BY <1>3 DEF RejectRead, TypeOK, HeldInv, Threads, Idle, Rejectable
  <2> QED BY <2>2, <2>3
<1>4. ASSUME NEW a \in Admins, VerifyCommit(a)
      PROVE  TypeOK' /\ HeldInv'
  <2>1. a \in Threads /\ thread[a].req \in Requests /\ status[thread[a].req] # "absent"
    BY <1>4, HeldRequest DEF VerifyCommit, Threads
  <2>2. [thread[a] EXCEPT !.pc = "verified"] \in Thread
    BY <2>1, ThreadType DEF Thread, PC
  <2>3. TypeOK'
    <3>1. <<"received", "verifying">> \in Status \X Status
      BY StatusType
    <3>2. status' \in [Requests -> Status]
      BY <1>4, <2>1, StatusType DEF VerifyCommit, TypeOK
    <3>4. transitions' \in [Requests -> SUBSET (Status \X Status)]
      BY <1>4, <2>1, <3>1 DEF VerifyCommit, TypeOK
    <3>3. thread' \in [Threads -> Thread]
      BY <1>4, <2>2, IdleType DEF VerifyCommit, TypeOK
    <3> QED BY <1>4, <3>2, <3>3, <3>4 DEF VerifyCommit, TypeOK
  <2>4. HeldInv'
    <3>1. thread'[a].pc \in {"idle", "verified"} /\ thread'[a].req \in {NoRequest, thread[a].req}
      BY <1>4, <2>1, ThreadType DEF VerifyCommit, TypeOK, Idle, Thread
    <3>2. thread'[a].pc # "idle" => thread'[a].req = thread[a].req
      BY <1>4, <2>1, ThreadType DEF VerifyCommit, TypeOK, Idle, Thread
    <3>3. \A u \in Threads : u # a => thread'[u] = thread[u]
      BY <1>4 DEF VerifyCommit, TypeOK
    <3>4. \A r \in Requests : status[r] # "absent" => status'[r] # "absent"
      BY <1>4, <2>1 DEF VerifyCommit, TypeOK
    <3> QED BY <2>1, <3>1, <3>2, <3>3, <3>4 DEF HeldInv
  <2> QED BY <2>3, <2>4
<1>5. ASSUME NEW a \in Admins, RejectCommit(a)
      PROVE  TypeOK' /\ HeldInv'
  <2>1. a \in Threads /\ thread[a].req \in Requests
    BY <1>5, HeldRequest DEF RejectCommit, Threads
  <2>2. thread[a].seen \in Status
    BY <2>1, ThreadType
  <2>3. TypeOK'
    <3>1. "rejected" \in Status /\ <<thread[a].seen, "rejected">> \in Status \X Status
      BY <2>2, StatusType
    <3>2. status' \in [Requests -> Status]
      BY <1>5, <2>1, <3>1 DEF RejectCommit, TypeOK
    <3>3. transitions' \in [Requests -> SUBSET (Status \X Status)]
      BY <1>5, <2>1, <3>1 DEF RejectCommit, TypeOK
    <3>4. thread' \in [Threads -> Thread]
      BY <1>5, IdleType DEF RejectCommit, TypeOK
    <3> QED BY <1>5, <3>2, <3>3, <3>4 DEF RejectCommit, TypeOK
  <2>4. HeldInv'
    BY <1>5, <2>1 DEF RejectCommit, TypeOK, HeldInv, Idle
  <2> QED BY <2>3, <2>4
<1>6. ASSUME NEW a \in Admins, ClaimForExecution(a)
      PROVE  TypeOK' /\ HeldInv'
  <2>1. a \in Threads /\ thread[a].req \in Requests
    BY <1>6, HeldRequest DEF ClaimForExecution, Threads
  <2>2. [thread[a] EXCEPT !.pc = "claimed", !.gen = attempts[thread[a].req]] \in Thread
    <3>1. attempts[thread[a].req] \in Int /\ thread[a] \in Thread
      BY <2>1, ThreadType DEF TypeOK
    <3> QED BY <3>1 DEF Thread, PC
  <2>3. TypeOK'
    <3>1. status' \in [Requests -> Status]
      BY <1>6, <2>1, StatusType DEF ClaimForExecution, TypeOK
    <3>2. \E th \in Thread : thread' = [thread EXCEPT ![a] = th]
      BY <1>6, <2>2, IdleType DEF ClaimForExecution, Generation
    <3>3. thread' \in [Threads -> Thread]
      BY <3>2 DEF TypeOK
    <3> QED BY <1>6, <3>1, <3>3 DEF ClaimForExecution, TypeOK
  <2>4. HeldInv'
    <3>1. CASE Claimable(thread[a].req)
      <4>1. thread'[a].req = thread[a].req /\ thread'[a].pc = "claimed"
        <5>1. thread'[a] = [thread[a] EXCEPT !.pc = "claimed",
                                             !.gen = Generation(thread[a].req)]
          BY <1>6, <2>1, <3>1 DEF ClaimForExecution, TypeOK, Claimable
        <5> QED BY <5>1, <2>1, ThreadType DEF Thread
      <4>2. \A u \in Threads : u # a => thread'[u] = thread[u]
        BY <1>6, <3>1 DEF ClaimForExecution, TypeOK, Claimable
      <4>3. \A r \in Requests : status[r] # "absent" => status'[r] # "absent"
        BY <1>6, <2>1, <3>1 DEF ClaimForExecution, TypeOK, Claimable
      <4>4. status'[thread[a].req] # "absent"
        BY <1>6, <2>1, <3>1 DEF ClaimForExecution, TypeOK, Claimable
      <4> QED BY <2>1, <4>1, <4>2, <4>3, <4>4 DEF HeldInv
    <3>2. CASE ~Claimable(thread[a].req)
      BY <1>6, <2>1, <3>2 DEF ClaimForExecution, TypeOK, HeldInv, Idle, Claimable
    <3> QED BY <3>1, <3>2
  <2> QED BY <2>3, <2>4
<1>7. ASSUME NEW w \in Workers, NEW r \in Requests, ClaimNextDeletion(w, r)
      PROVE  TypeOK' /\ HeldInv'
  <2>1. [Idle EXCEPT !.pc = "claimed", !.req = r, !.gen = attempts[r]] \in Thread
    BY IdleType DEF Thread, PC, TypeOK
  <2>2. TypeOK'
    <3>1. status' \in [Requests -> Status]
      BY <1>7, StatusType DEF ClaimNextDeletion, TypeOK
    <3>2. thread' \in [Threads -> Thread]
      BY <1>7, <2>1 DEF ClaimNextDeletion, TypeOK, Threads, Generation
    <3> QED BY <1>7, <3>1, <3>2 DEF ClaimNextDeletion, TypeOK
  <2>3. HeldInv'
    <3>1. thread' = [thread EXCEPT ![w] = [Idle EXCEPT !.pc = "claimed", !.req = r,
                                                       !.gen = attempts[r]]]
      BY <1>7 DEF ClaimNextDeletion, Generation
    <3>2. w \in Threads /\ thread'[w].pc = "claimed" /\ thread'[w].req = r
      BY <3>1 DEF TypeOK, Idle, Threads
    <3>3. \A u \in Threads : u # w => thread'[u] = thread[u]
      BY <3>1 DEF TypeOK
    <3>4. \A q \in Requests : status[q] # "absent" => status'[q] # "absent"
      BY <1>7 DEF ClaimNextDeletion, TypeOK
    <3>5. status'[r] # "absent"
      BY <1>7 DEF ClaimNextDeletion, TypeOK
    <3> QED BY <3>2, <3>3, <3>4, <3>5 DEF HeldInv
  <2> QED BY <2>2, <2>3
<1>8. ASSUME NEW t \in Threads, BeginErasure(t)
      PROVE  TypeOK' /\ HeldInv'
  <2>1. thread[t].req \in Requests
    BY <1>8, HeldRequest DEF BeginErasure
  <2>2. [thread[t] EXCEPT !.pc = "erasing", !.subj = subjectKey[thread[t].req]] \in Thread
    <3>1. subjectKey[thread[t].req] \in Subjects \cup {NoSubject}
      BY <2>1 DEF TypeOK
    <3> QED BY <3>1, ThreadType DEF Thread, PC
  <2>3. [thread[t] EXCEPT !.pc = "raised"] \in Thread
    BY <2>1, ThreadType DEF Thread, PC
  <2>4. TypeOK'
    BY <1>8, <2>2, <2>3, IdleType DEF BeginErasure, TypeOK
  <2>5. HeldInv'
    <3>1. CASE ~Owns(t)
      BY <1>8, <3>1 DEF BeginErasure, TypeOK, HeldInv, Idle
    <3>2. CASE Owns(t)
      <4>1. thread'[t].req = thread[t].req
        BY <1>8, <3>2, ZenonT(40) DEF BeginErasure, TypeOK, Thread
      <4>2. \/ thread'[t].pc = "raised"
            \/ thread'[t].pc = "erasing" /\ thread'[t].subj \in Subjects
        <5>1. CASE subjectKey[thread[t].req] = NoSubject
          <6>1. thread'[t] = [thread[t] EXCEPT !.pc = "raised"]
            BY <1>8, <2>1, <3>2, <5>1 DEF BeginErasure, TypeOK
          <6>2. thread'[t].pc = "raised"
            BY <6>1, ThreadType DEF Thread
          <6> QED BY <6>2
        <5>2. CASE subjectKey[thread[t].req] # NoSubject
          <6>1. thread'[t] = [thread[t] EXCEPT !.pc = "erasing",
                                               !.subj = subjectKey[thread[t].req]]
            BY <1>8, <2>1, <3>2, <5>2 DEF BeginErasure, TypeOK
          <6>2. subjectKey[thread[t].req] \in Subjects
            BY <2>1, <5>2 DEF TypeOK
          <6> QED BY <6>1, <6>2, ThreadType DEF Thread
        <5> QED BY <5>1, <5>2
      <4>3. \A u \in Threads : u # t => thread'[u] = thread[u]
        BY <1>8 DEF BeginErasure, TypeOK
      <4> QED BY <1>8, <2>1, <4>1, <4>2, <4>3, HeldRequest DEF BeginErasure, HeldInv
    <3> QED BY <3>1, <3>2
  <2> QED BY <2>4, <2>5
<1>9. ASSUME NEW t \in Threads, DeleteRows(t)
      PROVE  TypeOK' /\ HeldInv'
  <2>1. [thread[t] EXCEPT !.pc = "deleted", !.doomed = RowsOf(thread[t].subj)] \in Thread
    BY ThreadType DEF Thread, PC, RowsOf
  <2>2. TypeOK'
    BY <1>9, <2>1 DEF DeleteRows, TypeOK
  <2>3. HeldInv'
    BY <1>9 DEF DeleteRows, TypeOK, HeldInv, Thread
  <2> QED BY <2>2, <2>3
<1>10. ASSUME NEW t \in Threads, CommitErasure(t)
       PROVE  TypeOK' /\ HeldInv'
  <2>1. thread[t].req \in Requests /\ thread[t].subj \in Subjects
    BY <1>10 DEF CommitErasure, HeldInv
  <2>2. proofs' \in [Requests -> Nat \X (Subjects \cup {NoSubject})]
    BY <1>10, <2>1 DEF CommitErasure, TypeOK
  <2>3. TypeOK'
    BY <1>10, <2>1, <2>2, IdleType DEF CommitErasure, TypeOK, Status, RowStatus
  <2>4. HeldInv'
    BY <1>10, <2>1 DEF CommitErasure, TypeOK, HeldInv, Idle
  <2> QED BY <2>3, <2>4
<1>11. ASSUME NEW t \in Threads, AbortErasure(t)
       PROVE  TypeOK' /\ HeldInv'
  <2>1. [thread[t] EXCEPT !.pc = "raised", !.subj = NoSubject, !.doomed = {}] \in Thread
    BY ThreadType DEF Thread, PC
  <2>2. TypeOK'
    BY <1>11, <2>1 DEF AbortErasure, TypeOK
  <2>3. HeldInv'
    BY <1>11 DEF AbortErasure, TypeOK, HeldInv, Thread
  <2> QED BY <2>2, <2>3
<1>12. ASSUME NEW t \in Threads, Requeue(t)
       PROVE  TypeOK' /\ HeldInv'
  <2>1. thread[t].req \in Requests
    BY <1>12, HeldRequest DEF Requeue
  <2>2. TypeOK'
    BY <1>12, <2>1, IdleType DEF Requeue, TypeOK, Status, RowStatus
  <2>3. HeldInv'
    BY <1>12, <2>1 DEF Requeue, TypeOK, HeldInv, Idle
  <2> QED BY <2>2, <2>3
<1>13. ASSUME NEW t \in Threads, Crash(t)
       PROVE  TypeOK' /\ HeldInv'
  BY <1>13, IdleType DEF Crash, TypeOK, HeldInv, Idle
<1>14. ASSUME NEW R \in SUBSET Requests, ReapStaleExecuting(R)
       PROVE  TypeOK' /\ HeldInv'
  BY <1>14 DEF ReapStaleExecuting, TypeOK, HeldInv, Status, RowStatus
<1>15. CASE UNCHANGED vars
  BY <1>15 DEF vars, TypeOK, HeldInv
<1>16. ASSUME NEW q \in Requests, Delete(q) \/ \E row \in PutRows : Put(q, row)
       PROVE  TypeOK' /\ HeldInv'
  BY <1>16, EditEffect DEF Edits, HeldInv
<1> QED
  BY <1>1, <1>2, <1>3, <1>4, <1>5, <1>6, <1>7, <1>8, <1>9, <1>10, <1>11, <1>12,
     <1>13, <1>14, <1>15, <1>16 DEF Next, Step

\* Every reachable state is well typed.
THEOREM TypeCorrect == Spec => []TypeOK
<1>1. TypeOK /\ HeldInv /\ [Next]_vars => (TypeOK /\ HeldInv)'
  BY TypeStep
<1> QED
  BY TypeInit, <1>1, PTL DEF Spec

-----------------------------------------------------------------------------
(* What one step can do to the executors and to the rows they hold: make   *)
(* one new claim on a verifying row, or keep every surviving executor's    *)
(* request and generation, while the attempts of rows nobody edited only   *)
(* grow.                                                                   *)

Claims(t, r) ==
  /\ status[r] = "verifying"
  /\ status' = [status EXCEPT ![r] = "executing"]
  /\ attempts' = attempts /\ edits' = edits
  /\ thread'[t].req = r /\ thread'[t].gen = attempts[r]
  /\ \A u \in Threads : u # t => thread'[u] = thread[u]

Keeps ==
  /\ \A u \in Executing' :
       u \in Executing /\ thread'[u].req = thread[u].req /\ thread'[u].gen = thread[u].gen
  /\ \A r \in Requests :
       Unedited(r)' =>
         /\ Unedited(r)
         /\ attempts[r] <= attempts'[r]
         /\ attempts'[r] = attempts[r] /\ status[r] \in {"executing", "completed"}
              => status'[r] \in {"executing", "completed"}

\* A step claims one request for one thread, or hands out no generation.
LEMMA ClaimsOrKeeps ==
  ASSUME TypeOK, HeldInv, [Next]_vars
  PROVE  Keeps \/ \E t \in Threads, r \in Requests : Claims(t, r)
<1> USE DEF Hold, Release, Goto, requestVars, dataVars, auditVars, Executing, Unedited
<1>0. \A r \in Requests : attempts[r] \in Int /\ attempts[r] <= attempts[r]
                            /\ attempts[r] <= attempts[r] + 1
  BY DEF TypeOK
<1>1. ASSUME NEW r \in Requests, NEW s \in Subjects \cup {NoSubject}, Create(r, s)
      PROVE  Keeps
  BY <1>1, <1>0 DEF Create, Keeps, TypeOK
<1>2. ASSUME NEW a \in Admins, NEW r \in Requests, VerifyRead(a, r)
      PROVE  Keeps
  BY <1>2, <1>0 DEF VerifyRead, Keeps, TypeOK, Idle, Threads
<1>3. ASSUME NEW a \in Admins, NEW r \in Requests, RejectRead(a, r)
      PROVE  Keeps
  BY <1>3, <1>0 DEF RejectRead, Keeps, TypeOK, Idle, Threads
<1>4. ASSUME NEW a \in Admins, VerifyCommit(a)
      PROVE  Keeps
  <2>1. a \in Threads /\ thread[a].req \in Requests
    BY <1>4, HeldRequest DEF VerifyCommit, Threads
  <2>2. a \notin Executing'
    BY <1>4, <2>1, ThreadType DEF VerifyCommit, TypeOK, Idle, Thread
  <2>3. \A u \in Threads : u # a => thread'[u] = thread[u]
    BY <1>4 DEF VerifyCommit, TypeOK
  <2>4. attempts' = attempts /\ edits' = edits
    BY <1>4 DEF VerifyCommit
  <2>5. \A r \in Requests : status[r] \in {"executing", "completed"} => status'[r] = status[r]
    BY <1>4, <2>1 DEF VerifyCommit, TypeOK
  <2> QED BY <1>0, <2>2, <2>3, <2>4, <2>5 DEF Keeps
<1>5. ASSUME NEW a \in Admins, RejectCommit(a)
      PROVE  Keeps
  <2>1. a \in Threads /\ thread[a].req \in Requests
    BY <1>5, HeldRequest DEF RejectCommit, Threads
  <2>2. \A r \in Requests : status[r] \in {"executing", "completed"} => status'[r] = status[r]
    BY <1>5, <2>1 DEF RejectCommit, TypeOK, Rejectable
  <2> QED BY <1>5, <1>0, <2>1, <2>2 DEF RejectCommit, Keeps, TypeOK, Idle
<1>6. ASSUME NEW a \in Admins, ClaimForExecution(a)
      PROVE  Keeps \/ \E t \in Threads, r \in Requests : Claims(t, r)
  <2>1. a \in Threads /\ thread[a].req \in Requests
    BY <1>6, HeldRequest DEF ClaimForExecution, Threads
  <2>2. CASE Claimable(thread[a].req)
    <3>1. thread'[a] = [thread[a] EXCEPT !.pc = "claimed", !.gen = attempts[thread[a].req]]
      BY <1>6, <2>1, <2>2 DEF ClaimForExecution, TypeOK, Claimable, Generation
    <3>2. thread'[a].req = thread[a].req /\ thread'[a].gen = attempts[thread[a].req]
      BY <3>1, <2>1, ThreadType DEF Thread
    <3>3. Claims(a, thread[a].req)
      BY <1>6, <2>1, <2>2, <3>2 DEF ClaimForExecution, TypeOK, Claims, Claimable
    <3> QED BY <2>1, <3>3
  <2>3. CASE ~Claimable(thread[a].req)
    <3>1. /\ status' = status /\ attempts' = attempts /\ edits' = edits
          /\ thread' = [thread EXCEPT ![a] = Idle]
      BY <1>6, <2>3 DEF ClaimForExecution, Claimable
    <3> QED BY <1>0, <2>1, <3>1 DEF Keeps, TypeOK, Idle
  <2> QED BY <2>2, <2>3
<1>7. ASSUME NEW w \in Workers, NEW r \in Requests, ClaimNextDeletion(w, r)
      PROVE  \E t \in Threads, q \in Requests : Claims(t, q)
  <2>1. w \in Threads
    BY DEF Threads
  <2>2. Claims(w, r)
    BY <1>7, <2>1 DEF ClaimNextDeletion, Claims, Claimable, Generation, TypeOK, Idle
  <2> QED BY <2>1, <2>2
<1>8. ASSUME NEW t \in Threads, BeginErasure(t)
      PROVE  Keeps
  <2>1. /\ status' = status /\ attempts' = attempts /\ edits' = edits
        /\ \A u \in Threads : u # t => thread'[u] = thread[u]
        /\ t \in Executing
    BY <1>8 DEF BeginErasure, TypeOK
  <2>2. thread'[t] = Idle \/ (thread'[t].req = thread[t].req /\ thread'[t].gen = thread[t].gen)
    <3>1. \/ thread'[t] = Idle
          \/ thread'[t] = [thread[t] EXCEPT !.pc = "erasing",
                                            !.subj = subjectKey[thread[t].req]]
          \/ thread'[t] = [thread[t] EXCEPT !.pc = "raised"]
      BY <1>8 DEF BeginErasure, TypeOK
    <3> QED BY <3>1, ThreadType DEF Thread
  <2> QED BY <1>0, <2>1, <2>2 DEF Keeps, Idle
<1>9. ASSUME NEW t \in Threads, DeleteRows(t)
      PROVE  Keeps
  BY <1>9, <1>0, ThreadType DEF DeleteRows, Keeps, TypeOK, Thread
<1>10. ASSUME NEW t \in Threads, CommitErasure(t)
       PROVE  Keeps
  <2>1. thread[t].req \in Requests
    BY <1>10, HeldRequest DEF CommitErasure
  <2>2. /\ status' = [status EXCEPT ![thread[t].req] = "completed"]
        /\ attempts' = attempts /\ edits' = edits
    BY <1>10 DEF CommitErasure
  <2>3. thread' = [thread EXCEPT ![t] = Idle]
    BY <1>10 DEF CommitErasure
  <2> QED BY <1>0, <2>1, <2>2, <2>3 DEF Keeps, TypeOK, Idle
<1>11. ASSUME NEW t \in Threads, AbortErasure(t)
       PROVE  Keeps
  BY <1>11, <1>0, ThreadType DEF AbortErasure, Keeps, TypeOK, Thread
<1>12. ASSUME NEW t \in Threads, Requeue(t)
       PROVE  Keeps
  <2>1. thread[t].req \in Requests
    BY <1>12, HeldRequest DEF Requeue
  <2>2. \A r \in Requests :
          \/ attempts'[r] = attempts[r] /\ status'[r] = status[r]
          \/ attempts'[r] = attempts[r] + 1
    BY <1>12, <2>1 DEF Requeue, TypeOK
  <2>3. thread' = [thread EXCEPT ![t] = Idle] /\ edits' = edits
    BY <1>12 DEF Requeue
  <2> QED BY <1>0, <2>2, <2>3 DEF Keeps, TypeOK, Idle
<1>13. ASSUME NEW t \in Threads, Crash(t)
       PROVE  Keeps
  BY <1>13, <1>0 DEF Crash, Keeps, TypeOK, Idle
<1>14. ASSUME NEW R \in SUBSET Requests, ReapStaleExecuting(R)
       PROVE  Keeps
  <2>1. \A r \in Requests :
          \/ attempts'[r] = attempts[r] /\ status'[r] = status[r]
          \/ attempts'[r] = attempts[r] + 1
    BY <1>14 DEF ReapStaleExecuting, TypeOK
  <2> QED BY <1>14, <1>0, <2>1 DEF ReapStaleExecuting, Keeps
<1>15. CASE UNCHANGED vars
  BY <1>15, <1>0 DEF vars, Keeps
<1>16. ASSUME NEW q \in Requests, Delete(q) \/ \E row \in PutRows : Put(q, row)
       PROVE  Keeps
  BY <1>16, <1>0, EditEffect DEF Edits, Keeps
<1> QED
  BY <1>1, <1>2, <1>3, <1>4, <1>5, <1>6, <1>7, <1>8, <1>9, <1>10, <1>11, <1>12,
     <1>13, <1>14, <1>15, <1>16 DEF Next, Step

\* Generations stay unique and behind the row: a claim takes the row's own
\* generation, which no executor can hold while the row waits in verifying.
LEMMA FenceStep ==
  ASSUME TypeOK, HeldInv, FenceInv, [Next]_vars
  PROVE  FenceInv'
<1>0. /\ \A r \in Requests : attempts[r] \in Int
      /\ \A t \in Executing : t \in Threads /\ thread[t].req \in Requests /\ thread[t].gen \in Int
  BY ThreadType, HeldRequest DEF TypeOK, Executing
<1>1. \A r \in Requests : attempts'[r] \in Int
  BY TypeStep DEF TypeOK
<1>2. CASE Keeps
  <2> SUFFICES ASSUME NEW t \in Executing', Unedited(thread[t].req)'
               PROVE  /\ thread'[t].gen <= attempts'[thread'[t].req]
                      /\ thread'[t].gen = attempts'[thread'[t].req]
                           => status'[thread'[t].req] \in {"executing", "completed"}
                      /\ \A u \in Executing' :
                           thread'[u].req = thread'[t].req /\ thread'[u].gen = thread'[t].gen
                             => u = t
    BY DEF FenceInv
  <2>1. t \in Executing /\ thread'[t].req = thread[t].req /\ thread'[t].gen = thread[t].gen
    BY <1>2 DEF Keeps
  <2>2. /\ Unedited(thread[t].req)
        /\ attempts[thread[t].req] <= attempts'[thread[t].req]
        /\ attempts'[thread[t].req] = attempts[thread[t].req]
             /\ status[thread[t].req] \in {"executing", "completed"}
             => status'[thread[t].req] \in {"executing", "completed"}
    BY <1>0, <1>2, <2>1 DEF Keeps, Unedited
  <2>3. /\ thread[t].gen <= attempts[thread[t].req]
        /\ thread[t].gen = attempts[thread[t].req]
             => status[thread[t].req] \in {"executing", "completed"}
    BY <2>1, <2>2 DEF FenceInv
  <2>4. thread[t].gen = attempts'[thread[t].req] => attempts'[thread[t].req] = attempts[thread[t].req]
    BY <1>0, <1>1, <2>1, <2>2, <2>3
  <2>5. \A u \in Executing' :
          thread'[u].req = thread'[t].req /\ thread'[u].gen = thread'[t].gen => u = t
    BY <1>2, <2>1, <2>2 DEF Keeps, FenceInv
  <2>6. thread[t].gen <= attempts'[thread[t].req]
    BY <1>0, <1>1, <2>1, <2>2, <2>3
  <2>7. thread[t].gen = attempts'[thread[t].req]
          => status'[thread[t].req] \in {"executing", "completed"}
    BY <2>2, <2>3, <2>4
  <2> QED BY <2>1, <2>5, <2>6, <2>7
<1>3. ASSUME NEW t \in Threads, NEW r \in Requests, Claims(t, r)
      PROVE  FenceInv'
  <2>1. Unedited(r) => \A u \in Executing : thread[u].req = r => thread[u].gen # attempts[r]
    BY <1>3 DEF Claims, FenceInv
  <2>2. \A u \in Executing' :
          \/ u = t
          \/ u # t /\ u \in Executing /\ thread'[u] = thread[u]
    BY <1>3 DEF Claims, Executing
  <2>3. status'[r] = "executing" /\ \A q \in Requests : q # r => status'[q] = status[q]
    BY <1>3 DEF Claims, TypeOK
  <2>4. \A q : Unedited(q)' <=> Unedited(q)
    BY <1>3 DEF Claims, Unedited
  <2> SUFFICES ASSUME NEW v \in Executing', Unedited(thread[v].req)'
               PROVE  /\ thread'[v].gen <= attempts'[thread'[v].req]
                      /\ thread'[v].gen = attempts'[thread'[v].req]
                           => status'[thread'[v].req] \in {"executing", "completed"}
                      /\ \A u \in Executing' :
                           thread'[u].req = thread'[v].req /\ thread'[u].gen = thread'[v].gen
                             => u = v
    BY DEF FenceInv
  <2>5. CASE v = t
    <3>1. thread'[v].req = r /\ thread'[v].gen = attempts[r] /\ attempts' = attempts
      BY <1>3, <2>5 DEF Claims
    <3>2. Unedited(r)
      BY <2>4, <3>1 DEF Unedited
    <3> QED BY <1>0, <2>1, <2>2, <2>3, <2>5, <3>1, <3>2
  <2>6. CASE v # t
    <3>1. v \in Executing /\ thread'[v] = thread[v]
      BY <2>2, <2>6
    <3>2. Unedited(thread[v].req)
      BY <2>4, <3>1 DEF Unedited
    <3>3. /\ thread[v].gen <= attempts[thread[v].req]
          /\ thread[v].gen = attempts[thread[v].req]
               => status[thread[v].req] \in {"executing", "completed"}
          /\ \A u \in Executing :
               thread[u].req = thread[v].req /\ thread[u].gen = thread[v].gen => u = v
      BY <3>1, <3>2 DEF FenceInv
    <3>4. thread[v].req = r => thread[v].gen # attempts[r]
      BY <2>1, <3>1, <3>2
    <3>5. attempts' = attempts /\ thread'[t].req = r /\ thread'[t].gen = attempts[r]
      BY <1>3 DEF Claims
    <3> QED BY <1>0, <2>2, <2>3, <3>1, <3>3, <3>4, <3>5
  <2> QED BY <2>5, <2>6
<1> QED BY <1>2, <1>3, ClaimsOrKeeps

-----------------------------------------------------------------------------
(* What one step can do to the data and the proofs: nothing, unless it is  *)
(* the commit of an erasure.  The edit of a row is a case of its own, which *)
(* touches no data either.                                                 *)

Quiet ==
  /\ UNCHANGED <<dataVars, proofs, edits>>
  /\ \A r \in Requests :
       /\ status'[r] = "completed" <=> status[r] = "completed"
       /\ status[r] = "rejected" => status'[r] = "rejected"
       /\ status[r] # "absent" => status'[r] # "absent" /\ subjectKey'[r] = subjectKey[r]
       /\ status'[r] = "absent" => subjectKey'[r] = subjectKey[r]
       /\ transitions[r] \subseteq transitions'[r]
       /\ status'[r] \in {"verifying", "executing"} =>
            \/ status[r] \in {"verifying", "executing"}
            \/ <<"received", "verifying">> \in transitions'[r]

\* A step commits one erasure, or leaves proofs, stores and completions be.
LEMMA QuietOrCommitOrEdit ==
  ASSUME TypeOK, HeldInv, [Next]_vars
  PROVE  \/ Quiet
         \/ \E t \in Threads : CommitErasure(t)
         \/ \E q \in Requests : Delete(q) \/ \E row \in PutRows : Put(q, row)
<1> USE DEF dataVars, auditVars, requestVars
<1>1. ASSUME NEW r \in Requests, NEW s \in Subjects \cup {NoSubject}, Create(r, s)
      PROVE  Quiet
  BY <1>1 DEF Create, Quiet, TypeOK
<1>2. ASSUME NEW a \in Admins, NEW r \in Requests, VerifyRead(a, r) \/ RejectRead(a, r)
      PROVE  Quiet
  BY <1>2 DEF VerifyRead, RejectRead, Quiet
<1>3. ASSUME NEW a \in Admins, VerifyCommit(a)
      PROVE  Quiet
  BY <1>3, HeldRequest DEF VerifyCommit, Quiet, TypeOK, Threads
<1>4. ASSUME NEW a \in Admins, RejectCommit(a)
      PROVE  Quiet
  BY <1>4, HeldRequest DEF RejectCommit, Quiet, TypeOK, Threads, Rejectable
<1>5. ASSUME NEW a \in Admins, ClaimForExecution(a)
      PROVE  Quiet
  BY <1>5, HeldRequest DEF ClaimForExecution, Quiet, TypeOK, Threads, Claimable
<1>6. ASSUME NEW w \in Workers, NEW r \in Requests, ClaimNextDeletion(w, r)
      PROVE  Quiet
  BY <1>6 DEF ClaimNextDeletion, Quiet, TypeOK, Claimable
<1>7. ASSUME NEW t \in Threads,
             BeginErasure(t) \/ DeleteRows(t) \/ AbortErasure(t) \/ Crash(t)
      PROVE  Quiet
  BY <1>7 DEF BeginErasure, DeleteRows, AbortErasure, Crash, Quiet
<1>8. ASSUME NEW t \in Threads, Requeue(t)
      PROVE  Quiet
  BY <1>8, HeldRequest DEF Requeue, Quiet, TypeOK, Owns
<1>9. ASSUME NEW R \in SUBSET Requests, ReapStaleExecuting(R)
      PROVE  Quiet
  BY <1>9 DEF ReapStaleExecuting, Quiet, TypeOK, Reapable
<1>10. CASE UNCHANGED vars
  BY <1>10 DEF vars, Quiet
<1> QED
  BY <1>1, <1>2, <1>3, <1>4, <1>5, <1>6, <1>7, <1>8, <1>9, <1>10 DEF Next, Step

\* The same, with an edit known by what it does.
LEMMA QuietOrCommit ==
  ASSUME TypeOK, HeldInv, [Next]_vars
  PROVE  \/ Quiet
         \/ \E t \in Threads : CommitErasure(t)
         \/ \E q \in Requests : Edits(q)
  BY QuietOrCommitOrEdit, EditEffect

\* A completed request stays completed, unless it is edited.
LEMMA CompletedStays ==
  ASSUME TypeOK, HeldInv, [Next]_vars, NEW r \in Requests, status[r] = "completed",
         Unedited(r)'
  PROVE  status'[r] = "completed"
<1>1. ASSUME NEW t \in Threads, CommitErasure(t)
      PROVE  status'[r] = "completed"
  BY <1>1, HeldRequest DEF CommitErasure, TypeOK
<1>2. ASSUME NEW q \in Requests, Edits(q)
      PROVE  status'[r] = "completed"
  BY <1>2 DEF Edits
<1> QED BY <1>1, <1>2, QuietOrCommit DEF Quiet

\* An executor past its claim is at the step it was at, or has just read the
\* subject, or has just run its DELETEs.
LEMMA ErasingSteps ==
  ASSUME TypeOK, HeldInv, [Next]_vars, NEW t \in Threads,
         thread'[t].pc \in {"erasing", "deleted"}
  PROVE  \/ thread'[t] = thread[t]
         \/ BeginErasure(t) /\ Owns(t) /\ thread'[t].req = thread[t].req
              /\ thread'[t].pc = "erasing" /\ thread'[t].subj = subjectKey[thread[t].req]
         \/ DeleteRows(t) /\ thread[t].pc = "erasing" /\ thread'[t].req = thread[t].req
              /\ thread'[t].gen = thread[t].gen
              /\ thread'[t].subj = thread[t].subj
              /\ thread'[t].doomed = RowsOf(thread[t].subj)
<1> DEFINE Goal ==
         \/ thread'[t] = thread[t]
         \/ BeginErasure(t) /\ Owns(t) /\ thread'[t].req = thread[t].req
              /\ thread'[t].pc = "erasing" /\ thread'[t].subj = subjectKey[thread[t].req]
         \/ DeleteRows(t) /\ thread[t].pc = "erasing" /\ thread'[t].req = thread[t].req
              /\ thread'[t].gen = thread[t].gen
              /\ thread'[t].subj = thread[t].subj
              /\ thread'[t].doomed = RowsOf(thread[t].subj)
<1> USE DEF Hold, Release, Goto, Idle, Threads
<1>1. ASSUME NEW r \in Requests, NEW s \in Subjects \cup {NoSubject}, Create(r, s)
      PROVE  Goal
  BY <1>1 DEF Create
<1>2. ASSUME NEW a \in Admins, NEW r \in Requests, VerifyRead(a, r) \/ RejectRead(a, r)
      PROVE  Goal
  BY <1>2, ZenonT(40) DEF VerifyRead, RejectRead, TypeOK
<1>3. ASSUME NEW a \in Admins, VerifyCommit(a)
      PROVE  Goal
  BY <1>3, ThreadType DEF VerifyCommit, TypeOK, Thread
<1>4. ASSUME NEW a \in Admins, RejectCommit(a)
      PROVE  Goal
  BY <1>4 DEF RejectCommit, TypeOK
<1>5. ASSUME NEW a \in Admins, ClaimForExecution(a)
      PROVE  Goal
  <2>1. CASE a # t
    BY <1>5, <2>1 DEF ClaimForExecution, TypeOK
  <2>2. CASE a = t
    <3>1. CASE Claimable(thread[t].req)
      <4>1. thread'[t] = [thread[t] EXCEPT !.pc = "claimed", !.gen = attempts[thread[t].req]]
        BY <1>5, <2>2, <3>1 DEF ClaimForExecution, TypeOK, Claimable, Generation
      <4>2. thread'[t].pc = "claimed"
        BY <4>1, ThreadType DEF Thread
      <4> QED BY <4>2
    <3>2. CASE ~Claimable(thread[t].req)
      BY <1>5, <2>2, <3>2 DEF ClaimForExecution, TypeOK, Claimable
    <3> QED BY <3>1, <3>2
  <2> QED BY <2>1, <2>2
<1>6. ASSUME NEW w \in Workers, NEW r \in Requests, ClaimNextDeletion(w, r)
      PROVE  Goal
  BY <1>6 DEF ClaimNextDeletion, TypeOK
<1>7. ASSUME NEW u \in Threads, BeginErasure(u)
      PROVE  Goal
  <2>1. CASE u # t
    BY <1>7, <2>1 DEF BeginErasure, TypeOK
  <2>2. CASE u = t /\ Owns(t)
    <3>1. \/ thread'[t] = [thread[t] EXCEPT !.pc = "erasing",
                                            !.subj = subjectKey[thread[t].req]]
          \/ thread'[t] = [thread[t] EXCEPT !.pc = "raised"]
      BY <1>7, <2>2 DEF BeginErasure, TypeOK
    <3> QED BY <1>7, <2>2, <3>1, ThreadType DEF Thread
  <2>3. CASE u = t /\ ~Owns(t)
    BY <1>7, <2>3 DEF BeginErasure, TypeOK
  <2> QED BY <2>1, <2>2, <2>3
<1>8. ASSUME NEW u \in Threads, DeleteRows(u)
      PROVE  Goal
  <2>1. CASE u # t
    BY <1>8, <2>1 DEF DeleteRows, TypeOK
  <2>2. CASE u = t
    <3>1. thread'[t] = [thread[t] EXCEPT !.pc = "deleted",
                                         !.doomed = RowsOf(thread[t].subj)]
      BY <1>8, <2>2 DEF DeleteRows, TypeOK
    <3>2. /\ thread'[t].req = thread[t].req /\ thread'[t].gen = thread[t].gen
          /\ thread'[t].subj = thread[t].subj
          /\ thread'[t].doomed = RowsOf(thread[t].subj)
      BY <3>1, ThreadType DEF Thread
    <3> QED BY <1>8, <2>2, <3>2 DEF DeleteRows
  <2> QED BY <2>1, <2>2
<1>9. ASSUME NEW u \in Threads, CommitErasure(u) \/ Requeue(u) \/ Crash(u)
      PROVE  Goal
  BY <1>9 DEF CommitErasure, Requeue, Crash, TypeOK
<1>10. ASSUME NEW u \in Threads, AbortErasure(u)
      PROVE  Goal
  BY <1>10, ThreadType DEF AbortErasure, TypeOK, Thread
<1>11. ASSUME NEW R \in SUBSET Requests, ReapStaleExecuting(R)
      PROVE  Goal
  BY <1>11 DEF ReapStaleExecuting
<1>12. CASE UNCHANGED vars
  BY <1>12 DEF vars
<1>13. ASSUME NEW q \in Requests, Delete(q) \/ \E row \in PutRows : Put(q, row)
       PROVE  Goal
  BY <1>13, EditEffect DEF Edits
<1> QED
  BY <1>1, <1>2, <1>3, <1>4, <1>5, <1>6, <1>7, <1>8, <1>9, <1>10, <1>11, <1>12, <1>13
     DEF Next, Step

\* An executor that passes the fence after a step passed it before, if nobody
\* edited its request.
LEMMA OwnsBefore ==
  ASSUME TypeOK, HeldInv, FenceInv, [Next]_vars, NEW t \in Executing,
         thread'[t].req = thread[t].req, thread'[t].gen = thread[t].gen,
         Owns(t)', Keeps, Unedited(thread[t].req)'
  PROVE  Owns(t)
<1>1. /\ thread[t].req \in Requests
      /\ attempts[thread[t].req] \in Int /\ attempts'[thread[t].req] \in Int
      /\ thread[t].gen \in Int
  BY ThreadType, HeldRequest, TypeStep DEF TypeOK, Executing
<1>0. Unedited(thread[t].req) /\ edits'[thread[t].req] = 0
  BY <1>1 DEF Keeps, Unedited
<1>2. /\ thread[t].gen <= attempts[thread[t].req]
      /\ attempts[thread[t].req] <= attempts'[thread[t].req]
  BY <1>0, <1>1 DEF FenceInv, Keeps, Unedited
<1>3. thread[t].gen = attempts[thread[t].req]
  BY <1>1, <1>2 DEF Owns
<1>4. status[thread[t].req] \in {"executing", "completed"}
  BY <1>0, <1>3 DEF FenceInv
<1>5. status'[thread[t].req] = "executing"
  BY DEF Owns
<1>6. status[thread[t].req] # "completed"
  BY <1>0, <1>1, <1>5, CompletedStays DEF Unedited
<1> QED BY <1>3, <1>4, <1>6 DEF Owns

\* What a commit does, in terms of the request and subject it holds: the fence
\* makes the request an executing one, the transaction's view of the stores is
\* still current, and that of the row too unless it was edited.
LEMMA CommitEffect ==
  ASSUME TypeOK, HeldInv, ErasingInv, NEW t \in Threads, CommitErasure(t)
  PROVE  LET r == thread[t].req
             s == thread[t].subj
         IN  /\ r \in Requests /\ s \in Subjects
             /\ status[r] = "executing"
             /\ Unedited(r) => subjectKey[r] = s
             /\ status' = [status EXCEPT ![r] = "completed"]
             /\ subjectKey' = [subjectKey EXCEPT ![r] = NoSubject]
             /\ proofs' = [proofs EXCEPT ![r] = <<@[1] + 1, s>>]
             /\ oplog' = oplog \ {s} /\ landing' = landing \ {s}
             /\ profiled' = {x \in profiled : DatasetOf[x] # DatasetOf[s]}
             /\ suppressed' = suppressed \cup {s}
             /\ transitions' = transitions /\ attempts' = attempts /\ edits' = edits
             /\ thread' = [thread EXCEPT ![t] = Idle]
<1>1. thread[t].req \in Requests /\ thread[t].subj \in Subjects
  BY DEF CommitErasure, HeldInv
<1>2. /\ status[thread[t].req] = "executing"
      /\ Unedited(thread[t].req) => subjectKey[thread[t].req] = thread[t].subj
  BY DEF CommitErasure, ErasingInv, Owns
<1>3. RowsOf(thread[t].subj) \subseteq thread[t].doomed
  BY DEF CommitErasure, ErasingInv
<1>4. oplog' = oplog \ {thread[t].subj}
  BY <1>3 DEF CommitErasure, RowsOf, Tables
<1>5. landing' = landing \ {thread[t].subj}
  BY <1>3 DEF CommitErasure, RowsOf, Tables
<1> QED BY <1>1, <1>2, <1>4, <1>5 DEF CommitErasure, Release, Hold

\* The two stores only ever lose rows.
LEMMA RowsShrink ==
  ASSUME TypeOK, HeldInv, [Next]_vars
  PROVE  oplog' \subseteq oplog /\ landing' \subseteq landing
  BY QuietOrCommit DEF Quiet, CommitErasure, Edits, dataVars

\* Every step keeps what an open erasure transaction has seen and deleted.
LEMMA ErasingStep ==
  ASSUME TypeOK, HeldInv, FenceInv, ErasingInv, [Next]_vars
  PROVE  ErasingInv'
<1> SUFFICES ASSUME NEW t \in Threads, thread'[t].pc \in {"erasing", "deleted"}
             PROVE  /\ Owns(t)' /\ Unedited(thread[t].req)' => subjectKey'[thread'[t].req] = thread'[t].subj
                    /\ thread'[t].pc = "deleted"
                         => RowsOf(thread[t].subj)' \subseteq thread'[t].doomed
  BY DEF ErasingInv
<1>0. \A r \in Requests : Unedited(r)' => Unedited(r)
  <2>1. ASSUME NEW q \in Requests, Edits(q) PROVE \A r \in Requests : Unedited(r)' => Unedited(r)
    BY <2>1 DEF Edits, Unedited
  <2>2. ASSUME NEW u \in Threads, CommitErasure(u) PROVE edits' = edits
    BY <2>2 DEF CommitErasure
  <2> QED BY <2>1, <2>2, QuietOrCommit DEF Quiet, Unedited
<1>1. CASE BeginErasure(t) /\ Owns(t) /\ thread'[t].req = thread[t].req
             /\ thread'[t].pc = "erasing" /\ thread'[t].subj = subjectKey[thread[t].req]
  BY <1>1 DEF BeginErasure, requestVars
<1>2. CASE DeleteRows(t) /\ thread[t].pc = "erasing" /\ thread'[t].req = thread[t].req
             /\ thread'[t].gen = thread[t].gen
             /\ thread'[t].subj = thread[t].subj
             /\ thread'[t].doomed = RowsOf(thread[t].subj)
  <2>1. /\ Owns(t)' => Owns(t)
        /\ Unedited(thread[t].req)' => Unedited(thread[t].req)
    BY <1>2 DEF DeleteRows, requestVars, Owns, Unedited
  <2>2. RowsOf(thread[t].subj)' = RowsOf(thread[t].subj)
    BY <1>2 DEF DeleteRows, dataVars, RowsOf
  <2>3. subjectKey' = subjectKey
    BY <1>2 DEF DeleteRows, requestVars
  <2> QED BY <1>2, <2>1, <2>2, <2>3 DEF ErasingInv
<1>3. CASE thread'[t] = thread[t]
  <2>1. t \in Executing /\ thread[t].req \in Requests /\ status[thread[t].req] # "absent"
    BY <1>3, HeldRequest DEF Executing
  <2>2. RowsOf(thread[t].subj)' \subseteq RowsOf(thread[t].subj)
    BY <1>3, RowsShrink DEF RowsOf
  <2>3. ASSUME Owns(t)', Unedited(thread[t].req)' PROVE subjectKey'[thread[t].req] = thread[t].subj
    <3>0. Unedited(thread[t].req) /\ edits'[thread[t].req] = 0
      BY <1>0, <1>3, <2>1, <2>3 DEF Unedited
    <3>1. status[thread[t].req] # "verifying"
          \/ attempts[thread[t].req] # thread[t].gen
      BY <2>1, <3>0 DEF FenceInv
    <3>2. CASE Keeps
      <4>1. Owns(t)
        BY <1>3, <2>1, <2>3, <3>2, OwnsBefore
      <4>2. subjectKey[thread[t].req] = thread[t].subj
        BY <1>3, <3>0, <4>1 DEF ErasingInv
      <4>3. ASSUME NEW u \in Threads, CommitErasure(u)
            PROVE  subjectKey'[thread[t].req] = subjectKey[thread[t].req]
        <5>1. status'[thread[t].req] = "executing"
          BY <1>3, <2>3 DEF Owns
        <5>2. thread[u].req # thread[t].req
          BY <2>1, <4>3, <5>1, CommitEffect DEF TypeOK
        <5> QED BY <2>1, <4>3, <5>2, CommitEffect DEF TypeOK
      <4>4. ASSUME NEW q \in Requests, Edits(q)
            PROVE  subjectKey'[thread[t].req] = subjectKey[thread[t].req]
        BY <2>1, <3>0, <4>4 DEF Edits, Unedited
      <4> QED BY <2>1, <4>2, <4>3, <4>4, QuietOrCommit DEF Quiet
    <3>3. ASSUME NEW u \in Threads, NEW r \in Requests, Claims(u, r)
          PROVE  subjectKey'[thread[t].req] = thread[t].subj
      <4>1. thread[t].req # r
        BY <1>3, <2>3, <3>1, <3>3 DEF Claims, Owns
      <4>2. Owns(t)
        BY <1>3, <2>1, <2>3, <3>3, <4>1 DEF Claims, Owns, TypeOK
      <4>3. ~ \E v \in Threads : CommitErasure(v)
        BY <3>3, CommitEffect DEF Claims, TypeOK
      <4>4. subjectKey'[thread[t].req] = subjectKey[thread[t].req]
        <5>1. ASSUME NEW q \in Requests, Edits(q)
              PROVE  subjectKey'[thread[t].req] = subjectKey[thread[t].req]
          BY <2>1, <3>0, <5>1 DEF Edits, Unedited
        <5> QED BY <2>1, <4>3, <5>1, QuietOrCommit DEF Quiet
      <4> QED BY <1>3, <3>0, <4>2, <4>4 DEF ErasingInv
    <3> QED BY <3>2, <3>3, ClaimsOrKeeps
  <2> QED BY <1>3, <2>2, <2>3 DEF ErasingInv
<1> QED BY <1>1, <1>2, <1>3, ErasingSteps

\* Every step keeps a row's past in its audit rows.
LEMMA HistoryStep ==
  ASSUME TypeOK, HeldInv, ErasingInv, HistoryInv, [Next]_vars
  PROVE  HistoryInv'
<1>1. CASE Quiet
  BY <1>1 DEF Quiet, HistoryInv, Unedited
<1>2. ASSUME NEW t \in Threads, CommitErasure(t)
      PROVE  HistoryInv'
  BY <1>2, CommitEffect DEF HistoryInv, TypeOK, Unedited
<1>3. ASSUME NEW q \in Requests, Edits(q)
      PROVE  HistoryInv'
  BY <1>3 DEF Edits, HistoryInv, Unedited, auditVars
<1> QED BY <1>1, <1>2, <1>3, QuietOrCommit

\* What the proofs claim stays true: data only ever goes, suppressions only
\* ever come, and the one proof a commit writes is true at once.
LEMMA ClaimsStayTrue ==
  ASSUME TypeOK, HeldInv, ErasingInv, CompletedIsProven, [Next]_vars,
         NEW r \in Requests, proofs'[r][1] > 0
  PROVE  /\ proofs'[r][2] \in suppressed' \ (oplog' \cup landing')
         /\ \A x \in profiled' : DatasetOf[x] # DatasetOf[proofs'[r][2]]
<1>1. CASE UNCHANGED <<dataVars, proofs>>
  BY <1>1 DEF CompletedIsProven, dataVars
<1>2. ASSUME NEW t \in Threads, CommitErasure(t)
      PROVE  /\ proofs'[r][2] \in suppressed' \ (oplog' \cup landing')
             /\ \A x \in profiled' : DatasetOf[x] # DatasetOf[proofs'[r][2]]
  <2>1. CASE r = thread[t].req
    <3>1. proofs'[r][2] = thread[t].subj
      BY <1>2, <2>1, CommitEffect DEF TypeOK
    <3> QED BY <1>2, <3>1, CommitEffect
  <2>2. CASE r # thread[t].req
    <3>1. proofs'[r] = proofs[r]
      BY <1>2, <2>2, CommitEffect DEF TypeOK
    <3> QED BY <1>2, <3>1, CommitEffect DEF CompletedIsProven
  <2> QED BY <2>1, <2>2
<1> QED BY <1>1, <1>2, QuietOrCommit DEF Quiet, Edits, auditVars

\* Every step keeps completed requests and proofs in agreement.
LEMMA ProvenStep ==
  ASSUME TypeOK, HeldInv, ErasingInv, CompletedIsProven, [Next]_vars
  PROVE  CompletedIsProven'
<1> SUFFICES ASSUME NEW r \in Requests, Unedited(r)'
             PROVE  IF status'[r] = "completed"
                    THEN proofs'[r][1] = 1 /\ subjectKey'[r] = NoSubject
                    ELSE proofs'[r][1] = 0
  BY ClaimsStayTrue DEF CompletedIsProven
<1>1. CASE Quiet
  BY <1>1 DEF Quiet, CompletedIsProven, Unedited
<1>2. ASSUME NEW t \in Threads, CommitErasure(t)
      PROVE  IF status'[r] = "completed"
             THEN proofs'[r][1] = 1 /\ subjectKey'[r] = NoSubject
             ELSE proofs'[r][1] = 0
  <2>1. Unedited(r)
    BY <1>2, CommitEffect DEF Unedited
  <2>2. CASE r = thread[t].req
    <3>1. proofs[r][1] = 0
      BY <1>2, <2>1, <2>2, CommitEffect DEF CompletedIsProven
    <3>2. proofs'[r] = <<0 + 1, thread[t].subj>>
      BY <1>2, <2>2, <3>1, CommitEffect DEF TypeOK
    <3> QED BY <1>2, <2>2, <3>2, CommitEffect DEF TypeOK
  <2>3. CASE r # thread[t].req
    BY <1>2, <2>1, <2>3, CommitEffect DEF TypeOK, CompletedIsProven
  <2> QED BY <2>2, <2>3
<1>3. ASSUME NEW q \in Requests, Edits(q)
      PROVE  IF status'[r] = "completed"
             THEN proofs'[r][1] = 1 /\ subjectKey'[r] = NoSubject
             ELSE proofs'[r][1] = 0
  BY <1>3 DEF Edits, CompletedIsProven, Unedited, auditVars
<1> QED BY <1>1, <1>2, <1>3, QuietOrCommit

-----------------------------------------------------------------------------
\* The empty table satisfies the inductive invariant.
LEMMA InvInit == Init => IInv
  BY TypeInit DEF Init, IInv, FenceInv, ErasingInv, HistoryInv, CompletedIsProven,
                  Executing, Idle, Unedited

\* The inductive invariant is inductive.
LEMMA InvStep ==
  ASSUME IInv, [Next]_vars
  PROVE  IInv'
  BY TypeStep, FenceStep, ErasingStep, HistoryStep, ProvenStep DEF IInv

\* The inductive invariant holds in every reachable state.
LEMMA InvAlways == Spec => []IInv
  BY InvInit, InvStep, PTL DEF Spec

\* At most one live executor passes the fence of a request nobody edited,
\* whatever is done to other requests.
THEOREM Exclusive == Spec => []ClaimExclusive
<1>1. IInv => ClaimExclusive
  BY DEF IInv, FenceInv, ClaimExclusive, Owns
<1> QED BY <1>1, InvAlways, PTL

\* Every proof is true; a request nobody edited is completed exactly when one
\* proof of its erasure exists.
THEOREM Proven == Spec => []CompletedIsProven
<1>1. IInv => CompletedIsProven
  BY DEF IInv
<1> QED BY <1>1, InvAlways, PTL

\* Terminal states win over every verify, reject, reap and executor in flight;
\* nothing but an edit of the row itself changes them.
THEOREM Terminal == Spec => TerminalFinal
<1>1. ASSUME IInv, [Next]_vars, NEW r \in Requests,
             status[r] \in {"completed", "rejected"}, edits'[r] = edits[r]
      PROVE  status'[r] = status[r]
  <2>1. CASE Quiet
    BY <1>1, <2>1 DEF Quiet
  <2>2. ASSUME NEW t \in Threads, CommitErasure(t)
        PROVE  status'[r] = status[r]
    BY <1>1, <2>2, CommitEffect DEF IInv, TypeOK
  <2>3. ASSUME NEW q \in Requests, Delete(q) \/ \E row \in PutRows : Put(q, row)
        PROVE  status'[r] = status[r]
    <3>1. edits[q] \in Nat /\ edits[q] + 1 # edits[q] /\ edits'[q] = edits[q] + 1
      BY <1>1, <2>3 DEF Delete, Put, IInv, TypeOK
    <3>2. r # q
      BY <1>1, <3>1
    <3> QED BY <1>1, <2>3, <3>2, EditEffect DEF Edits, IInv
  <2> QED BY <1>1, <2>1, <2>2, <2>3, QuietOrCommitOrEdit DEF IInv
<1>2. IInv /\ [Next]_vars =>
        [\A r \in Requests :
           status[r] \in {"completed", "rejected"} /\ edits'[r] = edits[r]
             => status'[r] = status[r]]_vars
  BY <1>1
<1> QED BY <1>2, InvAlways, PTL DEF Spec, TerminalFinal

\* Data is deleted, profiles are wiped and suppressions appear only together
\* with the proof for the very subject: of a verified request, or an edited one.
THEOREM WithProof == Spec => ErasureWithProof
<1> DEFINE Proved == dataVars' # dataVars =>
       \E r \in Requests :
         LET s == proofs'[r][2] IN
         /\ status[r] = "executing" /\ status'[r] = "completed"
         /\ proofs'[r][1] = proofs[r][1] + 1
         /\ oplog' = oplog \ {s} /\ landing' = landing \ {s}
         /\ suppressed' = suppressed \cup {s}
         /\ Unedited(r) =>
              /\ <<"received", "verifying">> \in transitions[r]
              /\ proofs'[r] = <<1, subjectKey[r]>>
<1>1. IInv /\ [Next]_vars => Proved
  <2> SUFFICES ASSUME IInv, [Next]_vars, dataVars' # dataVars
               PROVE  Proved
    OBVIOUS
  <2>1. PICK t \in Threads : CommitErasure(t)
    BY QuietOrCommit DEF Quiet, Edits, IInv
  <2>2. DEFINE r == thread[t].req
  <2>3. /\ r \in Requests /\ status[r] = "executing"
        /\ Unedited(r) => subjectKey[r] = thread[t].subj
        /\ status'[r] = "completed"
    BY <2>1, CommitEffect DEF IInv, TypeOK
  <2>4. proofs'[r] = <<proofs[r][1] + 1, thread[t].subj>>
    BY <2>1, <2>3, CommitEffect DEF IInv, TypeOK
  <2>5. Unedited(r) => proofs[r][1] = 0
    BY <2>3 DEF IInv, CompletedIsProven
  <2>6. Unedited(r) => <<"received", "verifying">> \in transitions[r]
    BY <2>3 DEF IInv, HistoryInv
  <2>7. /\ oplog' = oplog \ {proofs'[r][2]} /\ landing' = landing \ {proofs'[r][2]}
        /\ suppressed' = suppressed \cup {proofs'[r][2]}
    BY <2>1, <2>4, CommitEffect DEF IInv
  <2>8. Unedited(r) => proofs'[r] = <<1, subjectKey[r]>>
    BY <2>3, <2>4, <2>5
  <2> QED BY <2>3, <2>4, <2>6, <2>7, <2>8
<1>2. IInv /\ [Next]_vars => [Proved]_vars
  BY <1>1
<1> QED BY <1>2, InvAlways, PTL DEF Spec, ErasureWithProof

\* A step of a superseded executor changes nothing but that executor: the
\* fence stops its commit and its requeue, the other steps only read.
THEOREM Superseded == Spec => SupersededHarmless
<1>1. ASSUME IInv, [Next]_vars, NEW t \in Executing,
             attempts[thread[t].req] # thread[t].gen, thread'[t] # thread[t]
      PROVE  UNCHANGED <<requestVars, dataVars, auditVars>>
  <2> USE DEF Hold, Release, Goto, Executing, Threads
  <2>0. TypeOK /\ ~Owns(t)
    BY <1>1 DEF IInv, Owns
  <2>1. ASSUME NEW a \in Admins, NEW r \in Requests, VerifyRead(a, r) \/ RejectRead(a, r)
        PROVE  FALSE
    BY <1>1, <2>0, <2>1 DEF VerifyRead, RejectRead, TypeOK
  <2>2. ASSUME NEW a \in Admins, VerifyCommit(a) \/ RejectCommit(a) \/ ClaimForExecution(a)
        PROVE  FALSE
    BY <1>1, <2>0, <2>2 DEF VerifyCommit, RejectCommit, ClaimForExecution, TypeOK
  <2>3. ASSUME NEW w \in Workers, NEW r \in Requests, ClaimNextDeletion(w, r)
        PROVE  FALSE
    BY <1>1, <2>0, <2>3 DEF ClaimNextDeletion, TypeOK
  <2>4. ASSUME NEW u \in Threads,
               BeginErasure(u) \/ DeleteRows(u) \/ AbortErasure(u) \/ Crash(u)
        PROVE  UNCHANGED <<requestVars, dataVars, auditVars>>
    BY <2>4 DEF BeginErasure, DeleteRows, AbortErasure, Crash
  <2>5. ASSUME NEW u \in Threads, CommitErasure(u)
        PROVE  FALSE
    BY <1>1, <2>0, <2>5 DEF CommitErasure, TypeOK
  <2>6. ASSUME NEW u \in Threads, Requeue(u)
        PROVE  UNCHANGED <<requestVars, dataVars, auditVars>>
    <3>1. u = t
      BY <1>1, <2>0, <2>6 DEF Requeue, TypeOK
    <3> QED BY <2>0, <2>6, <3>1 DEF Requeue, requestVars
  <2>7. ASSUME NEW r \in Requests, NEW s \in Subjects \cup {NoSubject}, Create(r, s)
        PROVE  FALSE
    BY <1>1, <2>7 DEF Create
  <2>8. ASSUME NEW R \in SUBSET Requests, ReapStaleExecuting(R)
        PROVE  FALSE
    BY <1>1, <2>8 DEF ReapStaleExecuting
  <2>9. CASE UNCHANGED vars
    BY <2>9 DEF vars
  <2>10. ASSUME NEW q \in Requests, Delete(q) \/ \E row \in PutRows : Put(q, row)
         PROVE  FALSE
    BY <1>1, <2>10 DEF Delete, Put
  <2> QED
    BY <1>1, <2>1, <2>2, <2>3, <2>4, <2>5, <2>6, <2>7, <2>8, <2>9, <2>10
    DEF Next, Step
<1>2. IInv /\ [Next]_vars =>
        [\A t \in Executing :
           attempts[thread[t].req] # thread[t].gen /\ thread'[t] # thread[t]
             => UNCHANGED <<requestVars, dataVars, auditVars>>]_vars
  BY <1>1
<1> QED BY <1>2, InvAlways, PTL DEF Spec, SupersededHarmless

-----------------------------------------------------------------------------
(* The protocol implements the atomic Erasure.                             *)

\* The abstract subject of a request: hidden once the row is edited.
subjectOf == [r \in Requests |-> IF Unedited(r) THEN subjectKey[r] ELSE NoSubject]

\* What a request's status means to the abstract specification.
LEMMA OutcomeOf ==
  ASSUME NEW r \in Requests
  PROVE  /\ outcome[r] = "edited" <=> ~Unedited(r)
         /\ outcome[r] = "erased" <=> Unedited(r) /\ status[r] = "completed"
         /\ outcome[r] = "rejected" <=> Unedited(r) /\ status[r] = "rejected"
         /\ outcome[r] \in {"open", "erased", "rejected", "edited"}
<1>1. CASE ~Unedited(r)
  BY <1>1 DEF outcome
<1>2. CASE Unedited(r) /\ status[r] = "completed"
  BY <1>2 DEF outcome
<1>3. CASE Unedited(r) /\ status[r] = "rejected"
  BY <1>3 DEF outcome
<1>4. CASE Unedited(r) /\ status[r] \notin {"completed", "rejected"}
  BY <1>4 DEF outcome
<1> QED BY <1>1, <1>2, <1>3, <1>4

\* The outcome is a function of the requests, before and after a step.
LEMMA OutcomeFunction ==
  /\ outcome = [r \in Requests |-> outcome[r]]
  /\ outcome' = [r \in Requests |-> outcome'[r]]
<1>1. outcome = [r \in Requests |-> outcome[r]]
  BY DEF outcome
<1>2. outcome' = [r \in Requests |-> outcome'[r]]
  BY DEF outcome
<1> QED BY <1>1, <1>2

\* A step that edits nothing and neither completes, rejects nor reopens a request
\* shows in no outcome.
LEMMA OutcomeStays ==
  ASSUME edits' = edits,
         \A r \in Requests :
           /\ status'[r] = "completed" <=> status[r] = "completed"
           /\ status'[r] = "rejected" <=> status[r] = "rejected"
  PROVE  outcome' = outcome
  BY DEF outcome, Unedited

\* The empty table is an initial state of the abstract specification.
LEMMA RefinesInit == Init => Promise!EInit
  BY DEF Init, Promise!EInit, outcome, Unedited

\* A commit is the abstract erasure of the request it holds.
LEMMA RefinesErase ==
  ASSUME IInv, NEW t \in Threads, CommitErasure(t),
         NEW r \in Requests, r = thread[t].req
  PROVE  Promise!ENext
<1> DEFINE s == thread[t].subj
<1>1. /\ s \in Subjects
      /\ status[r] = "executing"
      /\ Unedited(r) => subjectKey[r] = s
      /\ status' = [status EXCEPT ![r] = "completed"]
      /\ subjectKey' = [subjectKey EXCEPT ![r] = NoSubject]
      /\ proofs' = [proofs EXCEPT ![r] = <<@[1] + 1, s>>]
      /\ oplog' = oplog \ {s} /\ landing' = landing \ {s}
      /\ profiled' = {x \in profiled : DatasetOf[x] # DatasetOf[s]}
      /\ suppressed' = suppressed \cup {s}
      /\ edits' = edits
  BY CommitEffect DEF IInv
<1>2. (oplog \cup landing)' = (oplog \cup landing) \ {s}
  BY <1>1
<1>3. [q \in Requests |-> proofs[q][2]]'
        = [[q \in Requests |-> proofs[q][2]] EXCEPT ![r] = s]
  <2>1. proofs'[r][2] = s
    BY <1>1 DEF IInv, TypeOK
  <2>2. \A q \in Requests : q # r => proofs'[q] = proofs[q]
    BY <1>1 DEF IInv, TypeOK
  <2> QED BY <2>1, <2>2
<1>4. Promise!Wipe(r, s)
  BY <1>1, <1>2, <1>3 DEF Promise!Wipe
<1>5. \A q \in Requests : q # r => outcome'[q] = outcome[q] /\ subjectOf'[q] = subjectOf[q]
  BY <1>1 DEF outcome, subjectOf, Unedited, IInv, TypeOK
<1>6. CASE Unedited(r)
  <2>1. outcome[r] = "open"
    BY <1>1, <1>6 DEF outcome
  <2>2. subjectOf[r] = s /\ s # NoSubject
    BY <1>1, <1>6, ConstantsOK DEF subjectOf
  <2>3. outcome' = [outcome EXCEPT ![r] = "erased"]
    <3>1. outcome'[r] = "erased"
      <4>1. status'[r] = "completed"
        BY <1>1 DEF IInv, TypeOK
      <4>2. Unedited(r)'
        BY <1>1, <1>6 DEF Unedited
      <4> QED BY <4>1, <4>2 DEF outcome
    <3> QED BY <1>5, <3>1, OutcomeFunction
  <2>4. subjectOf' = [subjectOf EXCEPT ![r] = NoSubject]
    <3>1. subjectOf'[r] = NoSubject
      BY <1>1, <1>6 DEF subjectOf, IInv, TypeOK
    <3> QED BY <1>5, <3>1 DEF subjectOf
  <2>5. Promise!Wipe(r, subjectOf[r])
    BY <1>1, <1>2, <1>3, <2>2 DEF Promise!Wipe
  <2>6. Promise!Erase(r)
    BY <2>1, <2>2, <2>3, <2>4, <2>5 DEF Promise!Erase, subjectOf
  <2> QED BY <2>6 DEF Promise!ENext
<1>7. CASE ~Unedited(r)
  <2>1. outcome[r] = "edited"
    BY <1>7 DEF outcome
  <2>2. outcome' = outcome
    <3>1. outcome'[r] = outcome[r]
      BY <1>1, <1>7 DEF outcome, Unedited
    <3> QED BY <1>5, <3>1, OutcomeFunction
  <2>3. subjectOf' = subjectOf
    <3>1. subjectOf'[r] = subjectOf[r]
      BY <1>1, <1>7 DEF subjectOf, Unedited
    <3> QED BY <1>5, <3>1 DEF subjectOf
  <2>4. Promise!EraseEdited(r, s)
    BY <1>4, <2>1, <2>2, <2>3 DEF Promise!EraseEdited, subjectOf
  <2> QED BY <1>1, <2>4 DEF Promise!ENext
<1> QED BY <1>6, <1>7

\* A PUT or DELETE takes its request out of the protocol's hands.
LEMMA RefinesEdit ==
  ASSUME TypeOK, NEW r \in Requests, Edits(r)
  PROVE  Promise!Edit(r)
<1>1. outcome'[r] = "edited" /\ subjectOf'[r] = NoSubject
  BY DEF Edits, outcome, subjectOf
<1>2. \A q \in Requests : q # r => outcome'[q] = outcome[q] /\ subjectOf'[q] = subjectOf[q]
  BY DEF Edits, outcome, subjectOf, Unedited
<1>3. outcome' = [outcome EXCEPT ![r] = "edited"]
  BY <1>1, <1>2, OutcomeFunction
<1>4. subjectOf' = [subjectOf EXCEPT ![r] = NoSubject]
  BY <1>1, <1>2 DEF subjectOf
<1>5. UNCHANGED <<oplog \cup landing, profiled, suppressed, [q \in Requests |-> proofs[q][2]]>>
  BY DEF Edits, dataVars, auditVars
<1> QED BY <1>3, <1>4, <1>5 DEF Promise!Edit, subjectOf

\* The step that creates a request names its subject, if it has one.
LEMMA RefinesCreate ==
  ASSUME TypeOK, HistoryInv, NEW r \in Requests, NEW s \in Subjects \cup {NoSubject},
         Create(r, s)
  PROVE  Promise!ENext \/ UNCHANGED Promise!evars
<1>1. outcome' = outcome
  BY DEF Create, outcome, TypeOK, Unedited
<1>2. subjectKey[r] = NoSubject
  BY DEF Create, HistoryInv
<1>3. UNCHANGED <<oplog \cup landing, profiled, suppressed, [q \in Requests |-> proofs[q][2]]>>
  BY DEF Create, dataVars, auditVars
<1>4. \A q \in Requests : q # r => subjectOf'[q] = subjectOf[q]
  BY DEF Create, subjectOf, Unedited, TypeOK
<1>5. CASE Unedited(r) /\ s # NoSubject
  <2>1. outcome[r] = "open" /\ subjectOf[r] = NoSubject
    BY <1>2, <1>5 DEF Create, outcome, subjectOf
  <2>2. subjectOf'[r] = s
    BY <1>5 DEF Create, subjectOf, Unedited, TypeOK
  <2>3. subjectOf' = [subjectOf EXCEPT ![r] = s]
    BY <1>4, <2>2 DEF subjectOf
  <2>4. Promise!Name(r, s)
    BY <1>1, <1>3, <2>1, <2>3 DEF Promise!Name, subjectOf
  <2> QED BY <1>5, <2>4 DEF Promise!ENext
<1>6. CASE ~(Unedited(r) /\ s # NoSubject)
  <2>1. subjectOf'[r] = subjectOf[r]
    BY <1>2, <1>6 DEF Create, subjectOf, Unedited, TypeOK
  <2>2. subjectOf' = subjectOf
    BY <1>4, <2>1 DEF subjectOf
  <2> QED BY <1>1, <1>3, <2>2 DEF Promise!evars, subjectOf
<1> QED BY <1>5, <1>6

\* A rejection is the abstract one, unless the request was edited.
LEMMA RefinesReject ==
  ASSUME TypeOK, HeldInv, NEW a \in Admins, RejectCommit(a)
  PROVE  Promise!ENext \/ UNCHANGED Promise!evars
<1> DEFINE r == thread[a].req
<1>1. r \in Requests
  BY HeldRequest DEF RejectCommit, Threads
<1>2. /\ UNCHANGED <<oplog \cup landing, profiled, suppressed, [q \in Requests |-> proofs[q][2]]>>
      /\ subjectOf' = subjectOf
  BY DEF RejectCommit, dataVars, subjectOf, Unedited
<1>3. CASE Rejectable(r) /\ Unedited(r)
  <2>1. status' = [status EXCEPT ![r] = "rejected"] /\ edits' = edits
    BY <1>3 DEF RejectCommit, Rejectable
  <2>2. outcome[r] = "open"
    BY <1>1, <1>3 DEF Rejectable, outcome
  <2>3. outcome' = [outcome EXCEPT ![r] = "rejected"]
    <3>1. outcome'[r] = "rejected"
      BY <1>1, <1>3, <2>1 DEF outcome, TypeOK, Unedited
    <3>2. \A q \in Requests : q # r => outcome'[q] = outcome[q]
      BY <1>1, <2>1 DEF outcome, TypeOK, Unedited
    <3> QED BY <1>1, <3>1, <3>2 DEF outcome
  <2>4. Promise!Reject(r)
    BY <1>2, <2>2, <2>3 DEF Promise!Reject, subjectOf
  <2> QED BY <1>1, <2>4 DEF Promise!ENext
<1>4. CASE ~(Rejectable(r) /\ Unedited(r))
  <2>1. outcome' = outcome
    <3>1. CASE Rejectable(r)
      <4>1. status' = [status EXCEPT ![r] = "rejected"] /\ edits' = edits /\ ~Unedited(r)
        BY <1>4, <3>1 DEF RejectCommit, Rejectable
      <4> QED BY <1>1, <4>1 DEF outcome, TypeOK, Unedited
    <3>2. CASE ~Rejectable(r)
      BY <3>2 DEF RejectCommit, Rejectable, outcome, Unedited
    <3> QED BY <3>1, <3>2
  <2> QED BY <1>2, <2>1 DEF Promise!evars, subjectOf
<1> QED BY <1>3, <1>4

\* A step that leaves the data, the proofs and the outcomes alone is not seen.
LEMMA NotSeen ==
  ASSUME UNCHANGED <<dataVars, proofs, subjectKey, edits>>, outcome' = outcome
  PROVE  UNCHANGED Promise!evars
  BY DEF dataVars, Promise!evars, Unedited

\* Every step commits, names, rejects or edits, or is not seen at all.
LEMMA RefinesStep ==
  ASSUME IInv, [Next]_vars
  PROVE  [Promise!ENext]_(Promise!evars)
<1> USE DEF auditVars, requestVars
<1>0. TypeOK /\ HeldInv /\ HistoryInv
  BY DEF IInv
<1>1. ASSUME NEW r \in Requests, NEW s \in Subjects \cup {NoSubject}, Create(r, s)
      PROVE  Promise!ENext \/ UNCHANGED Promise!evars
  BY <1>0, <1>1, RefinesCreate
<1>2. ASSUME NEW a \in Admins, NEW r \in Requests, VerifyRead(a, r) \/ RejectRead(a, r)
      PROVE  UNCHANGED Promise!evars
  BY <1>2, OutcomeStays, NotSeen DEF VerifyRead, RejectRead
<1>3. ASSUME NEW a \in Admins, VerifyCommit(a)
      PROVE  UNCHANGED Promise!evars
  <2>1. outcome' = outcome
    BY <1>0, <1>3, HeldRequest, OutcomeStays DEF VerifyCommit, TypeOK, Threads
  <2> QED BY <1>3, <2>1, NotSeen DEF VerifyCommit
<1>4. ASSUME NEW a \in Admins, RejectCommit(a)
      PROVE  Promise!ENext \/ UNCHANGED Promise!evars
  BY <1>0, <1>4, RefinesReject
<1>5. ASSUME NEW a \in Admins, ClaimForExecution(a)
      PROVE  UNCHANGED Promise!evars
  <2>1. outcome' = outcome
    <3>1. thread[a].req \in Requests /\ edits' = edits
      BY <1>0, <1>5, HeldRequest DEF ClaimForExecution, Threads
    <3>2. \A r \in Requests :
            \/ status'[r] = status[r]
            \/ status[r] = "verifying" /\ status'[r] = "executing"
      BY <1>0, <1>5, <3>1 DEF ClaimForExecution, TypeOK, Claimable
    <3> QED BY <3>1, <3>2, OutcomeStays
  <2> QED BY <1>5, <2>1, NotSeen DEF ClaimForExecution
<1>6. ASSUME NEW w \in Workers, NEW r \in Requests, ClaimNextDeletion(w, r)
      PROVE  UNCHANGED Promise!evars
  <2>1. outcome' = outcome
    BY <1>0, <1>6, OutcomeStays DEF ClaimNextDeletion, TypeOK, Claimable
  <2> QED BY <1>6, <2>1, NotSeen DEF ClaimNextDeletion
<1>7. ASSUME NEW t \in Threads,
             BeginErasure(t) \/ DeleteRows(t) \/ AbortErasure(t) \/ Crash(t)
      PROVE  UNCHANGED Promise!evars
  BY <1>7, OutcomeStays, NotSeen DEF BeginErasure, DeleteRows, AbortErasure, Crash
<1>8. ASSUME NEW t \in Threads, CommitErasure(t)
      PROVE  Promise!ENext
  <2>1. PICK r \in Requests : r = thread[t].req
    BY <1>0, <1>8, HeldRequest DEF CommitErasure
  <2> QED BY <1>8, <2>1, RefinesErase
<1>9. ASSUME NEW t \in Threads, Requeue(t)
      PROVE  UNCHANGED Promise!evars
  <2>1. outcome' = outcome
    BY <1>0, <1>9, HeldRequest, OutcomeStays DEF Requeue, TypeOK, Owns
  <2> QED BY <1>9, <2>1, NotSeen DEF Requeue
<1>10. ASSUME NEW R \in SUBSET Requests, ReapStaleExecuting(R)
      PROVE  UNCHANGED Promise!evars
  <2>1. outcome' = outcome
    BY <1>0, <1>10, OutcomeStays DEF ReapStaleExecuting, TypeOK, Reapable
  <2> QED BY <1>10, <2>1, NotSeen DEF ReapStaleExecuting
<1>11. ASSUME NEW q \in Requests, Delete(q) \/ \E row \in PutRows : Put(q, row)
       PROVE  Promise!ENext
  BY <1>0, <1>11, EditEffect, RefinesEdit DEF Promise!ENext
<1>12. CASE UNCHANGED vars
  BY <1>12, OutcomeStays, NotSeen DEF vars
<1> QED
  BY <1>1, <1>2, <1>3, <1>4, <1>5, <1>6, <1>7, <1>8, <1>9, <1>10, <1>11, <1>12
     DEF Next, Step

\* Claims, retries, reaping, crashes and edits by hand included, the protocol is
\* the atomic erasure: whole or not at all, once per request nobody edited.
THEOREM Refinement == Spec => ErasureAtomic
  BY RefinesInit, RefinesStep, InvAlways, PTL DEF Spec, ErasureAtomic, Promise!ESpec
=============================================================================
