--------------------------- MODULE ErasedSubjects ---------------------------
(***************************************************************************)
(* What becomes of an erased subject: the erasure transaction              *)
(* (app/governance/executor.py) against the three readers of a dataset's   *)
(* suppression list, which all hold a snapshot of it while they work:      *)
(* a page of an ingest run (app/ingest/cursor.py, landing.py), the         *)
(* profiler (app/profiling/service.py) and a chart                         *)
(* (app/dashboard/data_service.py, app/series/dashboard_item_series.py,    *)
(* aggregate_series).  The source still holds every subject.               *)
(***************************************************************************)
EXTENDS Deployment, FiniteSets

CONSTANTS
  Subjects,   \* business keys of the dataset, in the source for good
  Charts      \* chart requests at work

ASSUME SubjectsConstantsOK == IsFiniteSet(Subjects)

VARIABLES
  landed,      \* subjects in ingested_records and ingested_payloads
  profiled,    \* subjects whose values may be the minimum, maximum or most
               \* common value of a profile
  suppressed,  \* suppression_entries
  page,        \* the open page transaction
  profiler,    \* the open profiling transaction
  chart,       \* the chart requests
  pepper       \* external: the pepper is configured

subjectVars == <<landed, profiled, suppressed, page, profiler, chart, pepper, overlap>>

Reader == [open : BOOLEAN, seen : SUBSET Subjects]
Chart  == [pc : {"idle", "started", "landed", "fetched", "answered"},
           before : SUBSET Subjects,     \* those erased before the request came
           rows : SUBSET Subjects]       \* the rows it works on
NoReader == [open |-> FALSE, seen |-> {}]
NoChart  == [pc |-> "idle", before |-> {}, rows |-> {}]

SubjectsTypeOK ==
  /\ landed \subseteq Subjects /\ profiled \subseteq Subjects /\ suppressed \subseteq Subjects
  /\ page \in Reader /\ profiler \in Reader
  /\ chart \in [Charts -> Chart]
  /\ pepper \in BOOLEAN /\ overlap \in Overlap

SubjectsInit ==
  /\ landed = {} /\ profiled = {} /\ suppressed = {}
  /\ page = NoReader /\ profiler = NoReader
  /\ chart = [c \in Charts |-> NoChart]
  /\ pepper = TRUE /\ overlap \in Overlap

-----------------------------------------------------------------------------
ReadersQuiet == overlap \/ (~page.open /\ ~profiler.open)

\* Hashes are needed only where there is something to compare them with; without
\* the pepper that fails, and the transaction with it.
CanHash(seen) == seen = {} \/ pepper

Unsuppressed(subjects, seen) == subjects \ seen

-----------------------------------------------------------------------------
(* Seeded faults: each stands in for the definition named.                 *)

KeepValues(s) == profiled                     \* ProfilesAfter
RowsAsFetched(c) == chart[c].rows             \* Answered

-----------------------------------------------------------------------------
(* The erasure: one transaction deletes what landed, clears the values of  *)
(* the dataset's profiles and writes the suppression entry.                *)

ProfilesAfter(s) == {}
Erase(s) ==
  /\ s \notin suppressed /\ pepper /\ ReadersQuiet
  /\ landed' = landed \ {s}
  /\ profiled' = ProfilesAfter(s)
  /\ suppressed' = suppressed \cup {s}
  /\ UNCHANGED <<page, profiler, chart, pepper, overlap>>

\* External: the operator loses or restores the pepper.
TurnPepper ==
  /\ pepper' = ~pepper
  /\ UNCHANGED <<landed, profiled, suppressed, page, profiler, chart, overlap>>

-----------------------------------------------------------------------------
(* A page of an ingest run: the list is read once, before the rows.        *)

PageRead ==
  /\ ~page.open
  /\ page' = [open |-> TRUE, seen |-> suppressed]
  /\ UNCHANGED <<landed, profiled, suppressed, profiler, chart, pepper, overlap>>

PageCommit(rows) ==
  /\ page.open /\ CanHash(page.seen)
  /\ landed' = landed \cup Unsuppressed(rows, page.seen)
  /\ page' = NoReader
  /\ UNCHANGED <<profiled, suppressed, profiler, chart, pepper, overlap>>

PageFail ==
  /\ page.open
  /\ page' = NoReader
  /\ UNCHANGED <<landed, profiled, suppressed, profiler, chart, pepper, overlap>>

-----------------------------------------------------------------------------
(* The profiler: after the fetch it reads the list, then writes values.    *)

ProfileRead ==
  /\ ~profiler.open
  /\ profiler' = [open |-> TRUE, seen |-> suppressed]
  /\ UNCHANGED <<landed, profiled, suppressed, page, chart, pepper, overlap>>

ProfileCommit ==
  /\ profiler.open /\ CanHash(profiler.seen)
  /\ profiled' = Unsuppressed(Subjects, profiler.seen)
  /\ profiler' = NoReader
  /\ UNCHANGED <<landed, suppressed, page, chart, pepper, overlap>>

ProfileFail ==
  /\ profiler.open
  /\ profiler' = NoReader
  /\ UNCHANGED <<landed, profiled, suppressed, page, chart, pepper, overlap>>

-----------------------------------------------------------------------------
(* A chart.  Where rows have landed it reads the list and then them;       *)
(* otherwise it fetches a sample and reads the list afterwards.            *)

SetChart(c, x) == chart' = [chart EXCEPT ![c] = x]

ChartStart(c) ==
  /\ chart[c].pc = "idle"
  /\ SetChart(c, [pc |-> "started", before |-> suppressed, rows |-> {}])
  /\ UNCHANGED <<landed, profiled, suppressed, page, profiler, pepper, overlap>>

\* aggregate_series: the subjects the list leaves.
ChartLanded(c) ==
  /\ chart[c].pc = "started" /\ landed # {} /\ CanHash(suppressed)
  /\ SetChart(c, [chart[c] EXCEPT !.pc = "landed", !.rows = Unsuppressed(Subjects, suppressed)])
  /\ UNCHANGED <<landed, profiled, suppressed, page, profiler, pepper, overlap>>

ChartFetch(c) ==
  /\ chart[c].pc = "started"
  /\ SetChart(c, [chart[c] EXCEPT !.pc = "fetched", !.rows = Subjects])
  /\ UNCHANGED <<landed, profiled, suppressed, page, profiler, pepper, overlap>>

Answered(c) ==
  IF chart[c].pc = "landed" THEN chart[c].rows \cap landed
                            ELSE Unsuppressed(chart[c].rows, suppressed)

ChartAnswer(c) ==
  /\ \/ chart[c].pc = "landed"
     \/ chart[c].pc = "fetched" /\ CanHash(suppressed)
  /\ SetChart(c, [chart[c] EXCEPT !.pc = "answered", !.rows = Answered(c)])
  /\ UNCHANGED <<landed, profiled, suppressed, page, profiler, pepper, overlap>>

ChartEnd(c) ==
  /\ chart[c].pc # "idle"
  /\ SetChart(c, NoChart)
  /\ UNCHANGED <<landed, profiled, suppressed, page, profiler, pepper, overlap>>

-----------------------------------------------------------------------------
SubjectsNext ==
  \/ \E s \in Subjects : Erase(s)
  \/ TurnPepper
  \/ PageRead \/ PageFail \/ \E rows \in SUBSET Subjects : PageCommit(rows)
  \/ ProfileRead \/ ProfileCommit \/ ProfileFail
  \/ \E c \in Charts : ChartStart(c) \/ ChartLanded(c) \/ ChartFetch(c) \/ ChartAnswer(c) \/ ChartEnd(c)

SubjectsSpec == SubjectsInit /\ [][SubjectsNext]_subjectVars

-----------------------------------------------------------------------------
(* Properties.                                                             *)

\* Where no page or profile is under way when an erasure commits, nothing of an
\* erased subject is stored ever after, with the pepper lost or not.
ErasedStaysErased == ~overlap => suppressed \cap (landed \cup profiled) = {}

\* Whatever overlaps what, and whatever a late page brought back, no chart shows a
\* subject erased before the request came.
ChartsHonourErasure ==
  \A c \in Charts : chart[c].pc = "answered" => chart[c].rows \cap chart[c].before = {}

\* What the docs say (ingest/cursor.py:115, :184-187): an erased subject is never
\* stored.  Not so by a page that read the list before the erasure committed.
NoResurrection == suppressed \cap landed = {}

=============================================================================
