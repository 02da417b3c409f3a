------------------------------- MODULE Ingest -------------------------------
(***************************************************************************)
(* Cursor ingest of one pipeline (app/ingest, app/worker/loop.py).         *)
(*                                                                         *)
(* A runs row goes pending -> running -> succeeded | failed.  The executor *)
(* that claims it reads the pipeline's watermark, fetches the rows at or   *)
(* after it page by page in (cursor value, key) order, commits every page  *)
(* to the landing table in a transaction of its own, and only at the end   *)
(* commits the run's success together with the new watermark, guarded by   *)
(* the run still being `running`.  Meanwhile a reaper may fail the run, an *)
(* admin may delete it, other executors may run the same pipeline, and the *)
(* remote source changes.                                                  *)
(***************************************************************************)
EXTENDS Naturals, FiniteSets

CONSTANTS
  Keys,         \* business keys of the source's rows, ordered as numbers
  Keyless,      \* rows whose payload yields no business key
  Runs,         \* ids of runs rows
  Executors,    \* processes or API threads that execute runs
  NoRun,        \* "no run held"
  PageSize,     \* _PAGE_SIZE
  MaxRows,      \* INGEST_MAX_ROWS_PER_RUN
  ServerPages,  \* page sizes of the possible sources: one that pages by itself,
                \* over a snapshot, with @odata.nextLink, or (0) one without links
  SkipMoves,    \* a source without links may change while a run is paging
  MaxVersion,   \* bound: changes per source row
  MaxClock,     \* bound: the source's clock
  MaxTies,      \* bound: source rows sharing one cursor value
  MaxFaults     \* bound: errors, crashes, reaps of a live run and deletions
                \* of a run that is not over

ASSUME ConstantsOK ==
  /\ Keys \subseteq Nat /\ IsFiniteSet(Keys) /\ Keyless \subseteq Keys
  /\ IsFiniteSet(Runs) /\ NoRun \notin Runs
  /\ PageSize \in Nat \ {0} /\ MaxRows \in Nat \ {0}
  /\ SkipMoves \in BOOLEAN
  /\ ServerPages \cup {MaxVersion, MaxClock, MaxTies, MaxFaults} \subseteq Nat

VARIABLES
  source,     \* external: each row's cursor value and version (0: no row yet)
  clock,      \* external: the source's clock, which stamps the cursor values
  serverPage, \* external: the page size of the source's own paging, 0 for none
  landed,     \* ingested_payloads: the version stored per key (0: none)
  hasCursor,  \* the pipeline's delta_cursors row exists
  watermark,  \* delta_cursors.cursor_value, NULL as 0
  status,     \* runs.status ("absent": no such row)
  executor,   \* program state of every executor
  faults      \* faults so far

vars == <<source, clock, serverPage, landed, hasCursor, watermark, status,
          executor, faults>>

Status == {"absent", "pending", "running", "succeeded", "failed", "deleted"}

Row == [key : Keys, at : Nat, ver : Nat]
RowOf(k) == [key |-> k, at |-> source[k].at, ver |-> source[k].ver]

\* Where an executor is: no run; run claimed; no cursor row found; next page to
\* fetch; page in hand; all pages stored; an error to record on the run.
PC == {"idle", "claimed", "bootstrap", "fetch", "apply", "finish", "failing"}

\* wm is the watermark read at the start, served the entries served so far,
\* read the rows read so far, values and last the cursor values of all pages and
\* of the last one, cut whether the last page may have cut a tie group.
Executor ==
  [pc : PC, run : Runs \cup {NoRun}, wm : Nat, page : SUBSET Row, link : SUBSET Row,
   served : Nat, read : Nat, values : SUBSET Nat, last : SUBSET Nat, cut : BOOLEAN]

Idle == [pc |-> "idle", run |-> NoRun, wm |-> 0, page |-> {}, link |-> {},
         served |-> 0, read |-> 0, values |-> {}, last |-> {}, cut |-> FALSE]

TypeOK ==
  /\ source \in [Keys -> [at : Nat, ver : Nat]]
  /\ clock \in Nat \ {0}
  /\ serverPage \in ServerPages
  /\ landed \in [Keys -> Nat]
  /\ hasCursor \in BOOLEAN
  /\ watermark \in Nat
  /\ status \in [Runs -> Status]
  /\ executor \in [Executors -> Executor]
  /\ faults \in Nat

Init ==
  /\ source = [k \in Keys |-> [at |-> 0, ver |-> 0]]
  /\ clock = 1
  /\ serverPage \in ServerPages
  /\ landed = [k \in Keys |-> 0]
  /\ hasCursor = FALSE
  /\ watermark = 0
  /\ status = [r \in Runs |-> "absent"]
  /\ executor = [e \in Executors |-> Idle]
  /\ faults = 0

-----------------------------------------------------------------------------
(* Seeded faults.  No action uses these: each stands in for the definition *)
(* named, one at a time, to show that a property notices the bug.          *)

GreaterThan(wm) ==                                                  \* Matching
  {x \in {RowOf(k) : k \in Keys} : x.ver > 0 /\ x.at > wm}

CutPageOnly(values, last, current, cut) ==                          \* RunWatermark
  LET below == {v \in last : \E u \in last : v < u}
      V     == {current} \cup IF cut THEN below ELSE values
  IN CHOOSE v \in V : \A u \in V : u <= v

KeylessCutResets(values, last, current, cut) ==                     \* RunWatermark
  IF last = {} THEN 0 ELSE CHOOSE v \in last : \A u \in last : u <= v

NullWatermark(values, last, current, cut) ==                        \* RunWatermark
  IF values = {} THEN NoRun ELSE CHOOSE v \in values : \A u \in values : u <= v

UnguardedFinish(r) == status[r] \notin {"absent", "deleted"}         \* StillRunning
ClaimableTwice(r)  == status[r] \in {"pending", "running"}           \* Claimable
PendingOnly(r)     == status[r] = "pending"                          \* Reapable

-----------------------------------------------------------------------------
(* Pages and watermarks.                                                   *)

\* $orderby=<cursor> asc,<key> asc.
Before(x, y) == x.at < y.at \/ (x.at = y.at /\ x.key < y.key)

\* How many entries of S precede x, and the entries of the ordered set from
\* offset `from`, at most n of them.
Rank(S, x) == Cardinality({y \in S : Before(y, x)})
Slice(S, from, n) == {x \in S : Rank(S, x) \in from .. from + n - 1}

\* How many entries one response holds, and whether links continue it.
Links == serverPage > 0
Served == IF Links /\ serverPage < PageSize THEN serverPage ELSE PageSize

\* The source's rows matching $filter=<cursor> ge <watermark>.
Matching(wm) == {x \in {RowOf(k) : k \in Keys} : x.ver > 0 /\ x.at >= wm}

Greatest(V) == CHOOSE v \in V : \A u \in V : u <= v

\* A row without business key is skipped and is no watermark candidate.
CursorValues(rows) == {x.at : x \in {y \in rows : y.key \notin Keyless}}

\* _run_watermark.
RunWatermark(values, last, current, cut) ==
  LET candidates == IF cut THEN {v \in values : v < Greatest(last)} ELSE values IN
  IF values = {} \/ (cut /\ last = {}) \/ candidates = {} THEN current
  ELSE IF Greatest(candidates) > current THEN Greatest(candidates) ELSE current

-----------------------------------------------------------------------------
(* The runs rows.                                                          *)

Claimable(r)    == status[r] = "pending"
StillRunning(r) == status[r] = "running"
Reapable(r)     == status[r] = "running"
Terminal(r)     == status[r] \in {"succeeded", "failed"}
Paging          == {e \in Executors : executor[e].pc # "idle"}
HeldBy(r)       == {e \in Paging : executor[e].run = r}

Set(e, x) == executor' = [executor EXCEPT ![e] = x]
Release(e) == Set(e, Idle)

rows == <<landed, hasCursor, watermark>>
environment == <<source, clock, serverPage>>

\* create_pending_run: validated, then enqueued.
CreatePendingRun(r) ==
  /\ status[r] = "absent"
  /\ status' = [status EXCEPT ![r] = "pending"]
  /\ UNCHANGED <<environment, rows, executor, faults>>

\* The claim: claim_next's SKIP LOCKED pick, or execute_run's own by id.
Claim(e, r) ==
  /\ executor[e].pc = "idle"
  /\ Claimable(r)
  /\ status' = [status EXCEPT ![r] = "running"]
  /\ Set(e, [Idle EXCEPT !.pc = "claimed", !.run = r])
  /\ UNCHANGED <<environment, rows, faults>>

\* reap_stale_running.  Only the claim touches updated_at, so a run of many
\* pages grows stale while its executor lives.
ReapStaleRunning(R) ==
  /\ R # {}
  /\ \A r \in R : Reapable(r)
  /\ status' = [r \in Runs |-> IF r \in R THEN "failed" ELSE status[r]]
  /\ faults' = faults + Cardinality({r \in R : HeldBy(r) # {}})
  /\ faults' <= MaxFaults
  /\ UNCHANGED <<environment, rows, executor>>

\* DELETE /api/runs/{id}, in any status.
DeleteRun(r) ==
  /\ status[r] \notin {"absent", "deleted"}
  /\ status' = [status EXCEPT ![r] = "deleted"]
  /\ faults' = IF Terminal(r) THEN faults ELSE faults + 1
  /\ faults' <= MaxFaults
  /\ UNCHANGED <<environment, rows, executor>>

\* A run that is over and that nobody holds makes room for a later one: the
\* model's own way to have runs without end.
Forget(r) ==
  /\ Terminal(r) \/ status[r] = "deleted"
  /\ HeldBy(r) = {}
  /\ status' = [status EXCEPT ![r] = "absent"]
  /\ UNCHANGED <<environment, rows, executor, faults>>

-----------------------------------------------------------------------------
(* execute_run, after the claim.                                           *)

\* The worker claims and executes in two transactions; a run reaped or deleted in
\* between is let go.
ClaimGone(e) ==
  /\ executor[e].pc = "claimed"
  /\ ~StillRunning(executor[e].run)
  /\ Release(e)
  /\ UNCHANGED <<environment, rows, status, faults>>

\* _load_context: the watermark, if there is a cursor row.
LoadContext(e) ==
  /\ executor[e].pc = "claimed"
  /\ Set(e, [executor[e] EXCEPT !.pc = IF hasCursor THEN "fetch" ELSE "bootstrap",
                                !.wm = watermark])
  /\ UNCHANGED <<environment, rows, status, faults>>

\* _bootstrap_cursor: UNIQUE(pipeline_id) lets one insert through.
BootstrapCursor(e) ==
  /\ executor[e].pc = "bootstrap"
  /\ IF hasCursor
     THEN Set(e, [executor[e] EXCEPT !.pc = "failing"])
     ELSE Set(e, [executor[e] EXCEPT !.pc = "fetch"])
  /\ hasCursor' = TRUE
  /\ UNCHANGED <<environment, landed, watermark, status, faults>>

\* _fetch_page: the first page; the page behind the server's link; or the first
\* page's URL with $skip = the entries served so far.
FetchPage(e) ==
  LET x == executor[e]
      S == IF x.link # {} THEN x.link ELSE Matching(x.wm)
      from == IF x.link # {} THEN 0 ELSE x.served
  IN
  /\ x.pc = "fetch"
  /\ Set(e, [x EXCEPT !.pc = "apply", !.page = Slice(S, from, Served),
                      !.link = IF Links THEN S \ Slice(S, 0, from + Served) ELSE {}])
  /\ UNCHANGED <<environment, rows, status, faults>>

\* apply_rows and the commit of one page, cut to the run's remaining row budget;
\* then either the run is over or another page follows.
ApplyPage(e) ==
  LET x    == executor[e]
      kept == Slice(x.page, 0, MaxRows - x.read)
      full == Cardinality(x.page) >= PageSize
      more == full \/ x.link # {}
      read == x.read + Cardinality(kept)
      done == read >= MaxRows \/ ~more
      last == CursorValues(kept)
  IN
  /\ x.pc = "apply"
  /\ landed' = [k \in Keys |->
                  IF k \notin Keyless /\ \E y \in kept : y.key = k
                  THEN (CHOOSE y \in kept : y.key = k).ver
                  ELSE landed[k]]
  /\ Set(e, [x EXCEPT !.pc = IF done THEN "finish" ELSE "fetch",
                      !.page = {}, !.served = @ + Cardinality(x.page), !.read = read,
                      !.values = @ \cup last, !.last = last, !.cut = more])
  /\ UNCHANGED <<environment, hasCursor, watermark, status, faults>>

\* The final bookkeeping: success and watermark in one commit, or neither if
\* the run was finalized or deleted meanwhile.
FinishRun(e) ==
  LET x == executor[e] IN
  /\ x.pc = "finish"
  /\ Release(e)
  /\ \/ /\ StillRunning(x.run)
        /\ status' = [status EXCEPT ![x.run] = "succeeded"]
        /\ watermark' = RunWatermark(x.values, x.last, x.wm, x.cut)
     \/ /\ ~StillRunning(x.run)
        /\ UNCHANGED <<status, watermark>>
  /\ UNCHANGED <<environment, landed, hasCursor, faults>>

\* Anything after the claim may fail: context drift, the network, a malformed
\* page, a database error.  An open transaction rolls back.
Fail(e) ==
  /\ executor[e].pc \in {"claimed", "bootstrap", "fetch", "apply", "finish"}
  /\ faults < MaxFaults
  /\ faults' = faults + 1
  /\ Set(e, [executor[e] EXCEPT !.pc = "failing", !.page = {}, !.link = {}])
  /\ UNCHANGED <<environment, rows, status>>

\* _finalize_failed, under the same status guard.
FinalizeFailed(e) ==
  LET r == executor[e].run IN
  /\ executor[e].pc = "failing"
  /\ Release(e)
  /\ status' = [status EXCEPT ![r] = IF StillRunning(r) THEN "failed" ELSE @]
  /\ UNCHANGED <<environment, rows, faults>>

\* The process dies, or recording the failure itself fails.
Crash(e) ==
  /\ executor[e].pc # "idle"
  /\ faults < MaxFaults
  /\ faults' = faults + 1
  /\ Release(e)
  /\ UNCHANGED <<environment, rows, status>>

\* External: a source row is created or changed and stamped by the source's
\* clock, which never runs backwards but may stand still.
SourceChange(k, c) ==
  /\ Links \/ SkipMoves \/ Paging = {}
  /\ c \in {clock, clock + 1} /\ c <= MaxClock
  /\ source[k].ver < MaxVersion
  /\ Cardinality({j \in Keys \ {k} : source[j].ver > 0 /\ source[j].at = c}) < MaxTies
  /\ clock' = c
  /\ source' = [source EXCEPT ![k] = [at |-> c, ver |-> @.ver + 1]]
  /\ UNCHANGED <<serverPage, rows, status, executor, faults>>

-----------------------------------------------------------------------------
Execute(e) ==
  \/ ClaimGone(e) \/ LoadContext(e) \/ BootstrapCursor(e) \/ FetchPage(e)
  \/ ApplyPage(e) \/ FinishRun(e) \/ FinalizeFailed(e)

Next ==
  \/ \E r \in Runs : CreatePendingRun(r) \/ DeleteRun(r) \/ Forget(r)
  \/ \E e \in Executors, r \in Runs : Claim(e, r)
  \/ \E e \in Executors : Execute(e) \/ Fail(e) \/ Crash(e)
  \/ \E R \in SUBSET Runs : ReapStaleRunning(R)
  \/ \E k \in Keys, c \in 1 .. MaxClock : SourceChange(k, c)

Spec == Init /\ [][Next]_vars

\* Runs keep being requested, workers keep polling and reaping, and a live
\* executor goes on.
Fairness ==
  /\ \A e \in Executors : WF_vars(Execute(e))
  /\ \A r \in Runs :
       /\ WF_vars(\E e \in Executors : Claim(e, r))
       /\ WF_vars(CreatePendingRun(r))
       /\ WF_vars(Forget(r))
       /\ WF_vars(\E R \in SUBSET Runs : r \in R /\ ReapStaleRunning(R))

FairSpec == Spec /\ Fairness

-----------------------------------------------------------------------------
(* Properties.                                                             *)

\* Nothing is lost behind the watermark: a source row that the next run's
\* filter will no longer return is stored in its current version (service.py:
\* the watermark advances "to the last fully exhausted cursor value").
NothingLost ==
  \A k \in Keys \ Keyless :
    source[k].ver > 0 /\ source[k].at < watermark => landed[k] = source[k].ver

\* The stored watermark never moves backwards (service.py, _run_watermark:
\* "Never regresses a later watermark").
WatermarkMonotone == [][watermark' >= watermark]_vars

\* The watermark moves only in the step that turns a running run to succeeded:
\* a failed, reaped or deleted run, or its executor waking up later, leaves it.
WatermarkWithSuccess ==
  [][watermark' # watermark =>
       \E r \in Runs : status[r] = "running" /\ status'[r] = "succeeded"]_vars

\* A finalized run keeps its outcome, whatever its executor still does.
FinalStatus ==
  [][\A r \in Runs : Terminal(r) => status'[r] \in {status[r], "deleted", "absent"}]_vars

\* Exactly one executor works on a run that is in progress.
OneExecutor ==
  \A d, e \in Paging : executor[d].run = executor[e].run => d = e

\* Even when two runs of the pipeline overlap, or a reaped executor stores its
\* last page late, no row behind the watermark is missing altogether (cursor.py:
\* "safe under concurrent runs of the same pipeline").
NoneMissing ==
  \A k \in Keys \ Keyless :
    source[k].ver > 0 /\ source[k].at < watermark => landed[k] > 0

\* A claimed run never stays running for ever.
RunsEnd == \A r \in Runs : status[r] = "running" ~> status[r] # "running"

\* Once the source rests and nothing fails any more, everything is stored.
CatchesUp == <>[](\A k \in Keys \ Keyless : landed[k] = source[k].ver)

-----------------------------------------------------------------------------
(* One executor at a time makes the landing table a Replica of the source. *)

Items == Keys \ Keyless

Landing == INSTANCE Replica WITH
  original <- [k \in Items |-> source[k]],
  now      <- clock,
  copy     <- [k \in Items |-> landed[k]],
  mark     <- watermark

\* Whatever fails, is reaped, cut by the cap or asked for twice, each stored row goes
\* from version to version of the source's, never back, and the watermark goes
\* forward, never past a row of which the current version is not stored (service.py:
\* the watermark advances "to the last fully exhausted cursor value").
LandingFollows == Landing!RSpec

-----------------------------------------------------------------------------
(* The invariants behind the theorems of IngestProofs.                     *)

\* An executor holds a run that was claimed.
HeldInv ==
  \A e \in Paging :
    executor[e].run \in Runs /\ status[executor[e].run] \notin {"absent", "pending"}

\* Nothing anybody has read is newer than the source's clock; pages are finite.
ClockInv ==
  /\ watermark <= clock
  /\ \A k \in Keys : source[k].at <= clock
  /\ \A e \in Executors :
       LET x == executor[e] IN
       /\ x.wm <= clock
       /\ \A y \in x.page \cup x.link : y.at <= clock
       /\ \A v \in x.values \cup x.last : v <= clock
       /\ IsFiniteSet(x.page) /\ IsFiniteSet(x.link)

\* A source whose pages are stable: those behind its links are smaller than $top, and
\* one without links rests while a run is paging.
Stable ==
  /\ ~SkipMoves
  /\ \A p \in ServerPages : p < PageSize

\* Such a source, and one executor at a time.
Tame == Stable /\ \A d, e \in Executors : d = e

\* The rows a run has yet to store: those behind its page, with the page itself.
Beyond(S, n) == {x \in S : Rank(S, x) >= n}
Rest(x) == IF Links THEN x.link ELSE Beyond(Matching(x.wm), x.served + Served)
Pending(x) ==
  CASE x.pc = "fetch" -> IF x.link # {} THEN x.link
                         ELSE Beyond(Matching(x.wm), x.served)
    [] x.pc = "apply" -> x.page \cup Rest(x)
    [] OTHER -> {}

\* A row as new as everything this run has read and will read.
Newer(x, k) ==
  /\ \A v \in x.values : v <= source[k].at
  /\ \A y \in Pending(x) : y.at <= source[k].at

\* A run's book-keeping agrees with the source's paging.
PagingOf(x) ==
  /\ x.pc \in {"claimed", "bootstrap"} =>
       x.served = 0 /\ x.values = {} /\ x.page = {} /\ x.link = {}
  /\ ~Links => x.link = {}
  /\ Links /\ x.pc = "fetch" /\ x.link = {} => x.served = 0 /\ x.values = {}
  /\ x.pc = "apply" => Cardinality(x.page) <= Served
PagingInv == \A e \in Executors : PagingOf(executor[e])

\* What is pending is at or after all that was read, and is the source's own
\* row unless that row has moved behind everything.
PendingOf(x) ==
  /\ \A y \in Pending(x) : y.ver > 0 /\ x.wm <= y.at /\ (RowOf(y.key) = y \/ Newer(x, y.key))
  /\ \A y, z \in Pending(x) : y.key = z.key => y = z
  /\ \A v \in x.values, y \in Pending(x) : v <= y.at
  /\ x.pc = "apply" => \A y \in x.page, z \in Rest(x) : y.at <= z.at
PendingInv == \A e \in Executors : PendingOf(executor[e])

\* Behind the watermark that a run started from nothing is missing; and from there on,
\* while it is paging, a source row is stored, pending, or behind everything, in this
\* version or in another.
Paged(x) == x.pc \in {"fetch", "apply", "finish"}
PresentOf(x) ==
  \A k \in Keys \ Keyless : source[k].ver > 0 =>
    /\ (x.pc = "bootstrap" \/ Paged(x)) /\ source[k].at < x.wm => landed[k] > 0
    /\ Paged(x) => landed[k] > 0 \/ (\E y \in Pending(x) : y.key = k) \/ Newer(x, k)
PresentInv == \A e \in Executors : PresentOf(executor[e])

\* A run that nothing overlaps has read the watermark as it is.
WatermarkRead ==
  \A e \in Executors :
    executor[e].pc = "bootstrap" \/ Paged(executor[e]) => executor[e].wm = watermark

\* And while it is paging, a source row is stored in its current version, pending, or
\* behind everything.
CoveredInv ==
  \A e \in Executors :
    LET x == executor[e] IN
    Paged(x) =>
      \A k \in Keys \ Keyless :
        source[k].ver > 0 =>
          landed[k] = source[k].ver \/ RowOf(k) \in Pending(x) \/ Newer(x, k)

\* What is stored of a row is not newer than what the run has yet to store of it, and
\* that not newer than the source.
FollowInv ==
  /\ \A k \in Items : landed[k] <= source[k].ver
  /\ \A e \in Executors : \A y \in executor[e].page \cup executor[e].link :
       /\ y.ver <= source[y.key].ver
       /\ y.key \in Items => landed[y.key] <= y.ver
=============================================================================
