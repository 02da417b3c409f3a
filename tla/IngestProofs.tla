---------------------------- MODULE IngestProofs ----------------------------
(***************************************************************************)
(* Proofs about Ingest, for any sets of keys, runs and executors, any page *)
(* sizes and any row cap: what holds however the source pages; Present,    *)
(* for any number of executors and a source with stable pages; Lossless    *)
(* and Monotone, for such a source and one executor at a time.             *)
(***************************************************************************)
EXTENDS Ingest, FiniteSetTheorems, WellFoundedInduction, TLAPS

-----------------------------------------------------------------------------
(* Numbers and ordered sets.                                               *)

\* A non-empty set of naturals has a least member.
LEMMA Least ==
  ASSUME NEW S \in SUBSET Nat, S # {}
  PROVE  \E m \in S : \A n \in S : m <= n
<1>1. PICK m \in S : \A n \in S : ~(<<n, m>> \in OpToRel(<, Nat))
  BY NatLessThanWellFounded, WFMin
<1>2. ASSUME NEW n \in S PROVE m <= n
  <2>1. n \in Nat /\ m \in Nat
    OBVIOUS
  <2>2. ~(n < m)
    BY <1>1, <2>1 DEF OpToRel
  <2> QED BY <2>1, <2>2
<1> QED BY <1>2

\* A bounded non-empty set of naturals has a greatest member, and _max_of
\* returns it.
LEMMA GreatestIsMax ==
  ASSUME NEW V \in SUBSET Nat, V # {}, NEW b \in Nat, \A v \in V : v <= b
  PROVE  Greatest(V) \in V /\ \A u \in V : u <= Greatest(V)
<1> DEFINE U == {n \in Nat : \A v \in V : v <= n}
<1>1. PICK m \in U : \A n \in U : m <= n
  <2>1. U \in SUBSET Nat /\ b \in U
    OBVIOUS
  <2> HIDE DEF U
  <2> QED BY <2>1, Least
<1>2. m \in V
  <2> SUFFICES ASSUME m \notin V PROVE FALSE
    OBVIOUS
  <2>1. PICK v \in V : TRUE
    OBVIOUS
  <2>2. m \in Nat /\ \A u \in V : u < m
    BY <1>1
  <2>3. m # 0 /\ m - 1 \in Nat
    BY <2>1, <2>2
  <2>4. m - 1 \in U
    BY <2>2, <2>3
  <2> QED BY <1>1, <2>4, <2>3
<1>3. \A u \in V : u <= m
  BY <1>1
<1> QED BY <1>2, <1>3 DEF Greatest

\* The order of the pages.
LEMMA RowType == ASSUME NEW x \in Row PROVE x.key \in Nat /\ x.at \in Nat /\ x.ver \in Nat
  BY ConstantsOK DEF ConstantsOK, Row

\* The order of the pages is transitive.
LEMMA BeforeTransitive ==
  ASSUME NEW x \in Row, NEW y \in Row, NEW z \in Row, Before(x, y), Before(y, z)
  PROVE  Before(x, z)
<1>1. /\ x.at \in Nat /\ y.at \in Nat /\ z.at \in Nat
      /\ x.key \in Nat /\ y.key \in Nat /\ z.key \in Nat
  BY RowType
<1> QED BY <1>1 DEF Before

\* The order of the pages is irreflexive.
LEMMA BeforeIrreflexive == ASSUME NEW x \in Row PROVE ~Before(x, x)
  BY RowType DEF Before

\* Ranks are numbers, and grow along the order.
LEMMA RankType ==
  ASSUME NEW S \in SUBSET Row, IsFiniteSet(S), NEW x
  PROVE  Rank(S, x) \in Nat
<1>1. {y \in S : Before(y, x)} \in SUBSET S
  OBVIOUS
<1> QED BY <1>1, FS_Subset, FS_CardinalityType DEF Rank

\* Of two rows of a page the one that comes first has the lower rank.
LEMMA RankMonotone ==
  ASSUME NEW S \in SUBSET Row, IsFiniteSet(S), NEW x \in S, NEW y \in S, Before(x, y)
  PROVE  Rank(S, x) < Rank(S, y)
<1> DEFINE B(u) == {z \in S : Before(z, u)}
<1>1. B(x) \in SUBSET B(y)
  BY BeforeTransitive
<1>2. x \in B(y) /\ x \notin B(x)
  BY BeforeIrreflexive
<1>3. B(y) \in SUBSET S
  OBVIOUS
<1>4. IsFiniteSet(B(y)) /\ IsFiniteSet(B(x))
  BY <1>1, <1>3, FS_Subset
<1>5. Cardinality(B(x)) <= Cardinality(B(y)) /\ Cardinality(B(x)) # Cardinality(B(y))
  <2> HIDE DEF B
  <2> QED BY <1>1, <1>2, <1>4, FS_Subset
<1>6. Cardinality(B(x)) \in Nat /\ Cardinality(B(y)) \in Nat
  <2> HIDE DEF B
  <2> QED BY <1>4, FS_CardinalityType
<1>7. Rank(S, x) = Cardinality(B(x)) /\ Rank(S, y) = Cardinality(B(y))
  BY DEF Rank
<1> QED
  <2> HIDE DEF B
  <2> QED BY <1>5, <1>6, <1>7

\* A row of lower rank is not behind.
LEMMA RankOrder ==
  ASSUME NEW S \in SUBSET Row, IsFiniteSet(S), NEW x \in S, NEW y \in S,
         Rank(S, x) < Rank(S, y)
  PROVE  x.at <= y.at
<1>1. ~Before(y, x)
  BY RankMonotone, RankType
<1>2. x.at \in Nat /\ y.at \in Nat
  BY DEF Row
<1> QED BY <1>1, <1>2 DEF Before

\* A response holds no more entries than asked for, if no two rows have one key.
LEMMA SliceSmall ==
  ASSUME NEW S \in SUBSET Row, IsFiniteSet(S),
         \A x, y \in S : x.key = y.key => x = y,
         NEW from \in Nat, NEW n \in Nat
  PROVE  Cardinality(Slice(S, from, n)) <= n
<1> DEFINE T == Slice(S, from, n)
           I == from .. from + n - 1
           f == [x \in T |-> Rank(S, x)]
<1>1. T \in SUBSET S
  BY DEF Slice
<1>2. f \in [T -> I]
  BY DEF Slice
<1>3. ASSUME NEW x \in T, NEW y \in T, f[x] = f[y] PROVE x = y
  <2>1. Rank(S, x) = Rank(S, y) /\ x \in S /\ y \in S
    BY <1>1, <1>3
  <2>2. ~Before(x, y) /\ ~Before(y, x)
    BY <2>1, RankMonotone, RankType
  <2>3. x.key \in Nat /\ y.key \in Nat /\ x.at \in Nat /\ y.at \in Nat
    BY <2>1, RowType
  <2>4. x.key = y.key
    BY <2>2, <2>3 DEF Before
  <2> QED BY <2>1, <2>4
<1>4. IsFiniteSet(I) /\ Cardinality(I) = n
  BY FS_Interval
<1>5. f \in Injection(T, I)
  <2> HIDE DEF f, T, I
  <2> QED BY <1>2, <1>3 DEF Injection, IsInjective
<1>6. Cardinality(T) <= Cardinality(I)
  <2> HIDE DEF f, T, I
  <2> QED BY <1>4, <1>5, FS_Injection
<1> QED BY <1>4, <1>6

\* A prefix that leaves rows out is full.
LEMMA PrefixFull ==
  ASSUME NEW S \in SUBSET Row, IsFiniteSet(S), NEW n \in Int, Slice(S, 0, n) # S
  PROVE  Cardinality(Slice(S, 0, n)) >= n
<1> DEFINE T == Slice(S, 0, n)
           R == {Rank(S, x) : x \in S \ T}
<1>1. T \in SUBSET S
  BY DEF Slice
<1>2. PICK x \in S \ T : \A y \in S \ T : Rank(S, x) <= Rank(S, y)
  <2>1. R \in SUBSET Nat
    BY RankType
  <2>2. R # {}
    BY <1>1
  <2>3. PICK m \in R : \A k \in R : m <= k
    <3> HIDE DEF R
    <3> QED BY <2>1, <2>2, Least
  <2> QED BY <2>3
<1> DEFINE B == {y \in S : Before(y, x)}
<1>3. B \in SUBSET T
  <2> SUFFICES ASSUME NEW y \in B PROVE y \in T
    OBVIOUS
  <2>1. Rank(S, y) < Rank(S, x)
    BY RankMonotone
  <2> QED BY <1>2, <2>1, RankType
<1>4. Rank(S, x) >= n
  <2>1. Rank(S, x) \in Nat
    BY RankType
  <2>2. Rank(S, x) \notin 0 .. 0 + n - 1
    BY <1>2 DEF Slice
  <2> QED BY <2>1, <2>2
<1>5. Cardinality(B) <= Cardinality(T) /\ IsFiniteSet(T)
  <2> HIDE DEF T, B
  <2> QED BY <1>1, <1>3, FS_Subset
<1>6. Rank(S, x) = Cardinality(B)
  BY DEF Rank
<1>7. Cardinality(T) \in Nat /\ Cardinality(B) \in Nat
  <2> HIDE DEF T, B
  <2> QED BY <1>1, <1>3, <1>5, FS_Subset, FS_CardinalityType
<1>8. Cardinality(T) >= n
  <2> HIDE DEF T, B
  <2> QED BY <1>4, <1>5, <1>6, <1>7
<1> QED BY <1>8

-----------------------------------------------------------------------------
(* Watermarks.                                                             *)

\* _run_watermark returns a value the run read or the watermark it started
\* from, and never one below the latter.
LEMMA RunWatermarkBounds ==
  ASSUME NEW values \in SUBSET Nat, NEW last \in SUBSET Nat, NEW current \in Nat,
         NEW cut \in BOOLEAN, NEW b \in Nat, \A v \in values : v <= b
  PROVE  /\ RunWatermark(values, last, current, cut) \in values \cup {current}
         /\ RunWatermark(values, last, current, cut) >= current
<1> DEFINE C == IF cut THEN {v \in values : v < Greatest(last)} ELSE values
<1>1. C \in SUBSET values
  OBVIOUS
<1>2. RunWatermark(values, last, current, cut) =
        IF values = {} \/ (cut /\ last = {}) \/ C = {} THEN current
        ELSE IF Greatest(C) > current THEN Greatest(C) ELSE current
  BY DEF RunWatermark
<1> HIDE DEF C
<1>3. CASE C = {}
  BY <1>2, <1>3
<1>4. CASE C # {}
  <2>1. Greatest(C) \in C
    BY <1>1, <1>4, GreatestIsMax
  <2>2. Greatest(C) \in values /\ Greatest(C) \in Nat
    BY <1>1, <2>1
  <2> QED BY <1>2, <2>2
<1> QED BY <1>3, <1>4

-----------------------------------------------------------------------------
(* Type correctness.                                                       *)

\* What an idle executor is reset to is an executor.
LEMMA IdleType == Idle \in Executor
  BY DEF Idle, Executor, PC

\* The fields of an executor, from the type of `executor`.
LEMMA ExecutorType ==
  ASSUME TypeOK, NEW e \in Executors
  PROVE  /\ executor[e] \in Executor
         /\ executor[e].pc \in PC
         /\ executor[e].run \in Runs \cup {NoRun}
         /\ executor[e].wm \in Nat /\ executor[e].served \in Nat /\ executor[e].read \in Nat
         /\ executor[e].page \in SUBSET Row /\ executor[e].link \in SUBSET Row
         /\ executor[e].values \in SUBSET Nat /\ executor[e].last \in SUBSET Nat
         /\ executor[e].cut \in BOOLEAN
  BY DEF TypeOK, Executor

\* The rows of a source in the state f: finitely many, one per key.
Rows(f) == {[key |-> k, at |-> f[k].at, ver |-> f[k].ver] : k \in Keys}

\* The rows of a source or a page are finitely many.
LEMMA RowsType ==
  ASSUME NEW f \in [Keys -> [at : Nat, ver : Nat]]
  PROVE  Rows(f) \in SUBSET Row /\ IsFiniteSet(Rows(f))
<1> DEFINE R == Rows(f)
           g == [k \in Keys |-> [key |-> k, at |-> f[k].at, ver |-> f[k].ver]]
<1>1. R \in SUBSET Row
  BY DEF Rows, Row
<1>2. g \in Surjection(Keys, R)
  BY DEF Surjection, Rows
<1>3. IsFiniteSet(R)
  <2> HIDE DEF g, R
  <2> QED BY <1>2, FS_Surjection, ConstantsOK DEF ConstantsOK
<1> QED BY <1>1, <1>3

\* The rows a request can match are the source's own, at or after the watermark.
LEMMA MatchingType ==
  ASSUME TypeOK, NEW wm \in Nat
  PROVE  /\ Matching(wm) \in SUBSET Row
         /\ IsFiniteSet(Matching(wm))
         /\ \A y \in Matching(wm) : y = RowOf(y.key) /\ wm <= y.at
<1>1. Matching(wm) \subseteq Rows(source)
  BY DEF Matching, RowOf, Rows
<1>2. Rows(source) \in SUBSET Row /\ IsFiniteSet(Rows(source))
  BY RowsType DEF TypeOK
<1>3. \A y \in Matching(wm) : y = RowOf(y.key) /\ y.at >= wm
  BY DEF Matching, RowOf
<1> QED BY <1>1, <1>2, <1>3, FS_Subset, RowType

\* Slices of a finite page are finite pages.
LEMMA SliceType ==
  ASSUME NEW S \in SUBSET Row, IsFiniteSet(S), NEW from, NEW n
  PROVE  /\ Slice(S, from, n) \in SUBSET S
         /\ IsFiniteSet(Slice(S, from, n))
         /\ Cardinality(Slice(S, from, n)) \in Nat
<1>1. Slice(S, from, n) \in SUBSET S
  BY DEF Slice
<1> QED BY <1>1, FS_Subset, FS_CardinalityType

\* The rows a fetch takes its page from.
LEMMA FetchType ==
  ASSUME TypeOK, ClockInv, NEW e \in Executors, NEW S,
         S = IF executor[e].link # {} THEN executor[e].link ELSE Matching(executor[e].wm)
  PROVE  /\ S \in SUBSET Row /\ IsFiniteSet(S)
         /\ \A y \in S : y.at <= clock
<1>1. executor[e].wm \in Nat /\ executor[e].link \in SUBSET Row
  BY ExecutorType
<1>2. CASE executor[e].link # {}
  BY <1>1, <1>2 DEF ClockInv
<1>3. CASE executor[e].link = {}
  <2>1. S = Matching(executor[e].wm)
    BY <1>3
  <2>2. /\ S \in SUBSET Row /\ IsFiniteSet(S)
        /\ \A y \in S : y = RowOf(y.key)
    BY <1>1, <2>1, MatchingType
  <2>3. ASSUME NEW y \in S PROVE y.at <= clock
    <3>1. y.key \in Keys /\ y = RowOf(y.key)
      BY <2>2 DEF Row
    <3>2. y.at = source[y.key].at
      BY <3>1 DEF RowOf
    <3> QED BY <3>1, <3>2 DEF ClockInv
  <2> QED BY <2>2, <2>3
<1> QED BY <1>2, <1>3

\* The initial state is well typed.
LEMMA TypeInit == Init => TypeOK /\ HeldInv /\ ClockInv
<1> SUFFICES ASSUME Init PROVE TypeOK /\ HeldInv /\ ClockInv
  OBVIOUS
<1>1. TypeOK
  <2>1. source \in [Keys -> [at : Nat, ver : Nat]] /\ landed \in [Keys -> Nat]
    BY DEF Init
  <2>2. executor \in [Executors -> Executor]
    BY IdleType DEF Init
  <2>3. status \in [Runs -> Status]
    BY DEF Init, Status
  <2>4. /\ clock \in Nat \ {0} /\ watermark \in Nat /\ faults \in Nat
        /\ serverPage \in ServerPages
    BY DEF Init
  <2>5. hasCursor \in BOOLEAN
    BY DEF Init
  <2> QED BY <2>1, <2>2, <2>3, <2>4, <2>5 DEF TypeOK
<1>2. HeldInv
  BY DEF Init, HeldInv, Paging, Idle
<1>3. ClockInv
  <2>1. watermark <= clock /\ \A k \in Keys : source[k].at <= clock
    BY DEF Init
  <2>2. \A e \in Executors : /\ executor[e].wm = 0 /\ executor[e].page = {}
                            /\ executor[e].link = {} /\ executor[e].values = {}
                            /\ executor[e].last = {}
    BY DEF Init, Idle
  <2>3. 0 <= clock
    BY DEF Init
  <2> QED BY <2>1, <2>2, <2>3, FS_EmptySet DEF ClockInv
<1> QED BY <1>1, <1>2, <1>3

\* Every step keeps the types, what an executor holds, and the clock's bounds.
TypeInv == TypeOK /\ HeldInv /\ ClockInv

\* A step of an executor that only moves it to another well-typed state keeps
\* the invariant; so does one that also moves its run on.
LEMMA MoveExecutor ==
  ASSUME TypeInv, NEW e \in Executors, NEW x \in Executor, Set(e, x),
         x.pc # "idle" => x.run \in Runs /\ status'[x.run] \notin {"absent", "pending"},
         x.wm <= clock,
         \A y \in x.page \cup x.link : y.at <= clock,
         \A v \in x.values \cup x.last : v <= clock,
         IsFiniteSet(x.page), IsFiniteSet(x.link),
         status' \in [Runs -> Status],
         \A r \in Runs : status[r] \notin {"absent", "pending"} =>
                         status'[r] \notin {"absent", "pending"},
         UNCHANGED environment, faults' \in Nat,
         hasCursor' \in BOOLEAN, landed' \in [Keys -> Nat],
         watermark' \in Nat, watermark' <= clock
  PROVE  TypeInv'
<1> USE DEF TypeInv
<1>1. /\ executor' = [executor EXCEPT ![e] = x]
      /\ executor'[e] = x
      /\ \A d \in Executors : d # e => executor'[d] = executor[d]
  BY DEF Set, TypeOK
<1>2. TypeOK'
  BY <1>1 DEF TypeOK, environment
<1>3. HeldInv'
  BY <1>1 DEF HeldInv, Paging
<1>4. ClockInv'
  BY <1>1 DEF ClockInv, environment
<1> QED BY <1>2, <1>3, <1>4

\* A step of the runs rows that keeps held runs claimed.
LEMMA MoveRuns ==
  ASSUME TypeInv, status' \in [Runs -> Status], faults' \in Nat,
         \A r \in Runs : HeldBy(r) # {} => status'[r] \notin {"absent", "pending"},
         UNCHANGED <<environment, rows, executor>>
  PROVE  TypeInv'
<1>1. TypeOK'
  BY DEF TypeInv, TypeOK, environment, rows
<1>2. HeldInv'
  BY DEF TypeInv, HeldInv, Paging, HeldBy
<1>3. ClockInv'
  BY DEF TypeInv, ClockInv, environment, rows
<1> QED BY <1>1, <1>2, <1>3 DEF TypeInv

\* An executor that lets go of its run.
LEMMA ReleaseExecutor ==
  ASSUME TypeInv, NEW e \in Executors, Release(e),
         status' \in [Runs -> Status],
         \A r \in Runs : status[r] \notin {"absent", "pending"} =>
                         status'[r] \notin {"absent", "pending"},
         UNCHANGED <<environment, landed, hasCursor>>, faults' \in Nat,
         watermark' \in Nat, watermark' <= clock
  PROVE  TypeInv'
<1>1. Set(e, Idle)
  BY DEF Release
<1>2. Idle.pc = "idle" /\ Idle.wm <= clock /\ Idle.page = {} /\ Idle.link = {}
      /\ Idle.values = {} /\ Idle.last = {}
  BY DEF Idle, TypeInv, TypeOK
<1>3. hasCursor' \in BOOLEAN /\ landed' \in [Keys -> Nat]
  BY DEF TypeInv, TypeOK
<1> QED BY <1>1, <1>2, <1>3, IdleType, FS_EmptySet, MoveExecutor

\* Every step keeps the types, the held runs and the clock.
LEMMA TypeStep == ASSUME TypeInv, [Next]_vars PROVE TypeInv'
<1>0. TypeOK /\ HeldInv /\ ClockInv
  BY DEF TypeInv
<1>1. ASSUME NEW r \in Runs, CreatePendingRun(r) PROVE TypeInv'
  <2>1. status' \in [Runs -> Status] /\ faults' \in Nat
    BY <1>0, <1>1 DEF CreatePendingRun, TypeOK, Status
  <2>2. \A q \in Runs : HeldBy(q) # {} => status'[q] \notin {"absent", "pending"}
    BY <1>0, <1>1 DEF CreatePendingRun, TypeOK, HeldInv, HeldBy
  <2> QED BY <2>1, <2>2, <1>1, MoveRuns DEF CreatePendingRun
<1>2. ASSUME NEW r \in Runs, DeleteRun(r) PROVE TypeInv'
  <2>1. status' \in [Runs -> Status] /\ faults' \in Nat
    BY <1>0, <1>2 DEF DeleteRun, TypeOK, Status
  <2>2. \A q \in Runs : HeldBy(q) # {} => status'[q] \notin {"absent", "pending"}
    BY <1>0, <1>2 DEF DeleteRun, TypeOK, HeldInv, HeldBy
  <2> QED BY <2>1, <2>2, <1>2, MoveRuns DEF DeleteRun
<1>3. ASSUME NEW r \in Runs, Forget(r) PROVE TypeInv'
  <2>1. status' \in [Runs -> Status] /\ faults' \in Nat
    BY <1>0, <1>3 DEF Forget, TypeOK, Status
  <2>2. \A q \in Runs : HeldBy(q) # {} => status'[q] \notin {"absent", "pending"}
    BY <1>0, <1>3 DEF Forget, TypeOK, HeldInv, HeldBy
  <2> QED BY <2>1, <2>2, <1>3, MoveRuns DEF Forget
<1>4. ASSUME NEW R \in SUBSET Runs, ReapStaleRunning(R) PROVE TypeInv'
  <2>1. status' \in [Runs -> Status]
    BY <1>0, <1>4 DEF ReapStaleRunning, TypeOK, Status
  <2>2. faults' \in Nat
    <3>1. {r \in R : HeldBy(r) # {}} \in SUBSET Runs
      OBVIOUS
    <3>2. Cardinality({r \in R : HeldBy(r) # {}}) \in Nat
      BY <3>1, ConstantsOK, FS_Subset, FS_CardinalityType DEF ConstantsOK
    <3> QED BY <1>0, <1>4, <3>2 DEF ReapStaleRunning, TypeOK
  <2>3. \A q \in Runs : HeldBy(q) # {} => status'[q] \notin {"absent", "pending"}
    BY <1>0, <1>4 DEF ReapStaleRunning, TypeOK, HeldInv, HeldBy
  <2> QED BY <2>1, <2>2, <2>3, <1>4, MoveRuns DEF ReapStaleRunning
<1>5. ASSUME NEW e \in Executors, NEW r \in Runs, Claim(e, r) PROVE TypeInv'
  <2> DEFINE x == [Idle EXCEPT !.pc = "claimed", !.run = r]
  <2>1. x \in Executor /\ x.run = r /\ x.wm = 0 /\ x.page = {} /\ x.link = {}
        /\ x.values = {} /\ x.last = {}
    BY IdleType DEF Idle, Executor, PC
  <2>2. Set(e, x)
    BY <1>5 DEF Claim
  <2>3. /\ status' \in [Runs -> Status] /\ status'[r] = "running"
        /\ \A q \in Runs : status[q] \notin {"absent", "pending"} =>
                           status'[q] \notin {"absent", "pending"}
    BY <1>0, <1>5 DEF Claim, TypeOK, Status
  <2>4. UNCHANGED environment /\ faults' \in Nat /\ hasCursor' \in BOOLEAN
        /\ landed' \in [Keys -> Nat] /\ watermark' \in Nat /\ watermark' <= clock
        /\ 0 <= clock
    BY <1>0, <1>5 DEF Claim, TypeOK, ClockInv, rows
  <2> HIDE DEF x
  <2> QED BY <2>1, <2>2, <2>3, <2>4, FS_EmptySet, MoveExecutor
<1>6. ASSUME NEW e \in Executors, LoadContext(e) PROVE TypeInv'
  <2> DEFINE x == [executor[e] EXCEPT !.pc = IF hasCursor THEN "fetch" ELSE "bootstrap",
                                     !.wm = watermark]
  <2>1. /\ x \in Executor /\ x.run = executor[e].run /\ x.wm = watermark
        /\ x.page = executor[e].page /\ x.link = executor[e].link
        /\ x.values = executor[e].values /\ x.last = executor[e].last
    BY <1>0, ExecutorType, ZenonT(40) DEF Executor, PC, TypeOK
  <2>2. Set(e, x) /\ e \in Paging /\ UNCHANGED <<environment, rows, status, faults>>
    BY <1>6 DEF LoadContext, Paging
  <2> HIDE DEF x
  <2>3. x.run \in Runs /\ status'[x.run] \notin {"absent", "pending"}
    BY <1>0, <2>1, <2>2 DEF HeldInv
  <2> QED BY <1>0, <2>1, <2>2, <2>3, MoveExecutor DEF TypeOK, ClockInv, rows
<1>7. ASSUME NEW e \in Executors, BootstrapCursor(e) PROVE TypeInv'
  <2> DEFINE x(p) == [executor[e] EXCEPT !.pc = p]
  <2>0. PICK p \in {"fetch", "failing"} : Set(e, x(p))
    BY <1>7 DEF BootstrapCursor
  <2>1. /\ x(p) \in Executor /\ x(p).run = executor[e].run /\ x(p).wm = executor[e].wm
        /\ x(p).page = executor[e].page /\ x(p).link = executor[e].link
        /\ x(p).values = executor[e].values /\ x(p).last = executor[e].last
    BY <1>0, ExecutorType DEF Executor, PC
  <2>2. /\ e \in Paging /\ UNCHANGED <<environment, landed, watermark, status, faults>>
        /\ hasCursor' \in BOOLEAN
    BY <1>7 DEF BootstrapCursor, Paging
  <2> HIDE DEF x
  <2>3. x(p).run \in Runs /\ status'[x(p).run] \notin {"absent", "pending"}
    BY <1>0, <2>1, <2>2 DEF HeldInv
  <2> QED BY <1>0, <2>0, <2>1, <2>2, <2>3, MoveExecutor DEF TypeOK, ClockInv
<1>8. ASSUME NEW e \in Executors, FetchPage(e) PROVE TypeInv'
  <2> DEFINE S == IF executor[e].link # {} THEN executor[e].link
                  ELSE Matching(executor[e].wm)
             from == IF executor[e].link # {} THEN 0 ELSE executor[e].served
             page == Slice(S, from, Served)
             link == IF Links THEN S \ Slice(S, 0, from + Served) ELSE {}
             x == [executor[e] EXCEPT !.pc = "apply", !.page = page, !.link = link]
  <2>1. Set(e, x) /\ e \in Paging /\ UNCHANGED <<environment, rows, status, faults>>
    BY <1>8 DEF FetchPage, Paging
  <2>2. S \in SUBSET Row /\ IsFiniteSet(S) /\ \A y \in S : y.at <= clock
    BY <1>0, FetchType
  <2> HIDE DEF S, from
  <2>3. page \in SUBSET S /\ link \in SUBSET S
    BY <2>2, SliceType
  <2>4. IsFiniteSet(page) /\ IsFiniteSet(link)
    <3> HIDE DEF page, link
    <3> QED BY <2>2, <2>3, FS_Subset
  <2> HIDE DEF page, link
  <2>5. /\ x \in Executor /\ x.run = executor[e].run /\ x.wm = executor[e].wm
        /\ x.page = page /\ x.link = link
        /\ x.values = executor[e].values /\ x.last = executor[e].last
    BY <1>0, <2>2, <2>3, ExecutorType DEF Executor, PC
  <2> HIDE DEF x
  <2>6. x.run \in Runs /\ status'[x.run] \notin {"absent", "pending"}
    BY <1>0, <2>1, <2>5 DEF HeldInv
  <2>7. \A y \in x.page \cup x.link : y.at <= clock
    BY <2>2, <2>3, <2>5
  <2> QED BY <1>0, <2>1, <2>4, <2>5, <2>6, <2>7, MoveExecutor DEF TypeOK, ClockInv, rows
<1>9. ASSUME NEW e \in Executors, ApplyPage(e) PROVE TypeInv'
  <2> DEFINE kept == Slice(executor[e].page, 0, MaxRows - executor[e].read)
             full == Cardinality(executor[e].page) >= PageSize
             more == full \/ executor[e].link # {}
             read == executor[e].read + Cardinality(kept)
             done == read >= MaxRows \/ ~more
             last == CursorValues(kept)
             x == [executor[e] EXCEPT
                     !.pc = IF done THEN "finish" ELSE "fetch", !.page = {},
                     !.served = executor[e].served + Cardinality(executor[e].page),
                     !.read = read, !.values = executor[e].values \cup last,
                     !.last = last, !.cut = more]
  <2>1. /\ Set(e, x) /\ e \in Paging
        /\ UNCHANGED <<environment, hasCursor, watermark, status, faults>>
    BY <1>9 DEF ApplyPage, Paging
  <2>2. /\ executor[e].page \in SUBSET Row /\ IsFiniteSet(executor[e].page)
        /\ \A y \in executor[e].page : y.at <= clock
    BY <1>0, ExecutorType DEF ClockInv
  <2>3. kept \in SUBSET executor[e].page /\ Cardinality(kept) \in Nat
    BY <2>2, SliceType
  <2>4. Cardinality(executor[e].page) \in Nat
    BY <2>2, FS_CardinalityType
  <2>5. landed' \in [Keys -> Nat]
    <3>1. landed' = [k \in Keys |-> IF k \notin Keyless /\ \E y \in kept : y.key = k
                                    THEN (CHOOSE y \in kept : y.key = k).ver ELSE landed[k]]
      BY <1>9 DEF ApplyPage
    <3> HIDE DEF kept
    <3>2. \A y \in kept : y.ver \in Nat
      BY <2>2, <2>3, RowType
    <3>3. \A k \in Keys : landed[k] \in Nat
      BY <1>0 DEF TypeOK
    <3>4. ASSUME NEW k \in Keys, \E y \in kept : y.key = k
          PROVE  (CHOOSE y \in kept : y.key = k).ver \in Nat
      BY <3>2, <3>4
    <3> QED BY <3>1, <3>3, <3>4
  <2> HIDE DEF kept
  <2>6. last \in SUBSET Nat /\ \A v \in last : v <= clock
    <3>1. \A y \in kept : y.at \in Nat /\ y.at <= clock
      BY <2>2, <2>3, RowType
    <3> QED BY <3>1 DEF CursorValues
  <2> HIDE DEF last
  <2>7. /\ x \in Executor /\ x.run = executor[e].run /\ x.wm = executor[e].wm
        /\ x.page = {} /\ x.link = executor[e].link
        /\ x.values = executor[e].values \cup last /\ x.last = last
    <3>1. (IF done THEN "finish" ELSE "fetch") \in PC /\ more \in BOOLEAN
      BY DEF PC
    <3>2. read \in Nat /\ executor[e].served + Cardinality(executor[e].page) \in Nat
      BY <1>0, <2>3, <2>4, ExecutorType
    <3> HIDE DEF done, more, read
    <3> QED BY <1>0, <2>6, <3>1, <3>2, ExecutorType, ZenonT(40) DEF Executor
  <2> HIDE DEF x
  <2>8. x.run \in Runs /\ status'[x.run] \notin {"absent", "pending"}
    BY <1>0, <2>1, <2>7 DEF HeldInv
  <2>9. /\ \A y \in x.page \cup x.link : y.at <= clock
        /\ \A v \in x.values \cup x.last : v <= clock
        /\ x.wm <= clock /\ IsFiniteSet(x.page) /\ IsFiniteSet(x.link)
    BY <1>0, <2>6, <2>7, FS_EmptySet DEF ClockInv
  <2> QED BY <1>0, <2>1, <2>5, <2>7, <2>8, <2>9, MoveExecutor DEF TypeOK, ClockInv
<1>10. ASSUME NEW e \in Executors, FinishRun(e) PROVE TypeInv'
  <2>1. /\ Release(e) /\ UNCHANGED <<environment, landed, hasCursor, faults>>
        /\ e \in Paging
    BY <1>10 DEF FinishRun, Paging
  <2>2. executor[e].run \in Runs
    BY <1>0, <2>1 DEF HeldInv
  <2>3. \/ /\ status' = [status EXCEPT ![executor[e].run] = "succeeded"]
           /\ watermark' = RunWatermark(executor[e].values, executor[e].last,
                                        executor[e].wm, executor[e].cut)
        \/ UNCHANGED <<status, watermark>>
    BY <1>10 DEF FinishRun
  <2>4. /\ status' \in [Runs -> Status]
        /\ \A r \in Runs : status[r] \notin {"absent", "pending"} =>
                           status'[r] \notin {"absent", "pending"}
    BY <1>0, <2>2, <2>3 DEF TypeOK, Status
  <2>5. watermark' \in Nat /\ watermark' <= clock
    <3>1. /\ executor[e].values \in SUBSET Nat /\ executor[e].last \in SUBSET Nat
          /\ executor[e].wm \in Nat /\ executor[e].cut \in BOOLEAN /\ clock \in Nat
      BY <1>0, ExecutorType DEF TypeOK
    <3>2. executor[e].wm <= clock /\ \A v \in executor[e].values : v <= clock
      BY <1>0 DEF ClockInv
    <3>3. RunWatermark(executor[e].values, executor[e].last, executor[e].wm,
                       executor[e].cut) \in executor[e].values \cup {executor[e].wm}
      BY <3>1, <3>2, RunWatermarkBounds
    <3> QED BY <1>0, <2>3, <3>1, <3>2, <3>3 DEF TypeOK, ClockInv
  <2> QED BY <1>0, <2>1, <2>4, <2>5, ReleaseExecutor DEF TypeOK
<1>11. ASSUME NEW e \in Executors, Fail(e) PROVE TypeInv'
  <2> DEFINE x == [executor[e] EXCEPT !.pc = "failing", !.page = {}, !.link = {}]
  <2>1. /\ x \in Executor /\ x.run = executor[e].run /\ x.wm = executor[e].wm
        /\ x.page = {} /\ x.link = {}
        /\ x.values = executor[e].values /\ x.last = executor[e].last
    BY <1>0, ExecutorType DEF Executor, PC
  <2>2. /\ Set(e, x) /\ e \in Paging /\ UNCHANGED <<environment, rows, status>>
        /\ faults' \in Nat
    BY <1>0, <1>11 DEF Fail, Paging, TypeOK
  <2> HIDE DEF x
  <2>3. x.run \in Runs /\ status'[x.run] \notin {"absent", "pending"}
    BY <1>0, <2>1, <2>2 DEF HeldInv
  <2> QED BY <1>0, <2>1, <2>2, <2>3, FS_EmptySet, MoveExecutor DEF TypeOK, ClockInv, rows
<1>12. ASSUME NEW e \in Executors, FinalizeFailed(e) PROVE TypeInv'
  <2>1. /\ Release(e) /\ UNCHANGED <<environment, rows, faults>> /\ e \in Paging
    BY <1>12 DEF FinalizeFailed, Paging
  <2>2. executor[e].run \in Runs
    BY <1>0, <2>1 DEF HeldInv
  <2>3. /\ status' \in [Runs -> Status]
        /\ \A r \in Runs : status[r] \notin {"absent", "pending"} =>
                           status'[r] \notin {"absent", "pending"}
    BY <1>0, <1>12, <2>2 DEF FinalizeFailed, TypeOK, Status
  <2> QED BY <1>0, <2>1, <2>3, ReleaseExecutor DEF TypeOK, ClockInv, rows
<1>13. ASSUME NEW e \in Executors, Crash(e) \/ ClaimGone(e) PROVE TypeInv'
  <2>1. Release(e) /\ UNCHANGED <<environment, rows, status>> /\ faults' \in Nat
    BY <1>0, <1>13 DEF Crash, ClaimGone, TypeOK
  <2> QED BY <1>0, <2>1, ReleaseExecutor DEF TypeOK, ClockInv, rows
<1>14. ASSUME NEW k \in Keys, NEW c \in 1 .. MaxClock, SourceChange(k, c) PROVE TypeInv'
  <2>1. /\ clock' = c /\ clock <= c
        /\ source' = [source EXCEPT ![k] = [at |-> c, ver |-> source[k].ver + 1]]
        /\ UNCHANGED <<serverPage, rows, status, executor, faults>>
    BY <1>0, <1>14 DEF SourceChange, TypeOK
  <2>2. TypeOK'
    BY <1>0, <2>1 DEF TypeOK, rows
  <2>3. HeldInv'
    BY <1>0, <2>1 DEF HeldInv, Paging
  <2>4. ClockInv'
    <3>1. ASSUME NEW n \in Nat, n <= clock PROVE n <= clock'
      BY <1>0, <2>1, <3>1 DEF TypeOK
    <3>2. watermark' <= clock' /\ \A j \in Keys : source'[j].at <= clock'
      BY <1>0, <2>1, <3>1 DEF TypeOK, ClockInv, rows
    <3>3. ASSUME NEW e \in Executors
          PROVE  /\ executor'[e].wm <= clock'
                 /\ \A y \in executor'[e].page \cup executor'[e].link : y.at <= clock'
                 /\ \A v \in executor'[e].values \cup executor'[e].last : v <= clock'
                 /\ IsFiniteSet(executor'[e].page) /\ IsFiniteSet(executor'[e].link)
      BY <1>0, <2>1, <3>1, ExecutorType, RowType DEF ClockInv
    <3> QED BY <3>2, <3>3 DEF ClockInv
  <2> QED BY <2>2, <2>3, <2>4 DEF TypeInv
<1>15. CASE UNCHANGED vars
  <2>1. TypeOK' /\ HeldInv' /\ ClockInv'
    BY <1>0, <1>15 DEF vars, TypeOK, HeldInv, Paging, ClockInv
  <2> QED BY <2>1 DEF TypeInv
<1> QED BY <1>1, <1>2, <1>3, <1>4, <1>5, <1>6, <1>7, <1>8, <1>9, <1>10, <1>11, <1>12,
           <1>13, <1>14, <1>15 DEF Next, Execute

\* Every reachable state is well typed, held runs are claimed, and nothing read
\* or stored as a watermark is ahead of the source's clock.
THEOREM TypesHold == Spec => []TypeInv
<1>1. Init => TypeInv
  BY TypeInit DEF TypeInv
<1> QED BY <1>1, TypeStep, PTL DEF Spec

\* Every reachable state is well typed (ingest run rows, cursor rows, executors).
THEOREM TypeCorrect == Spec => []TypeOK
<1>1. TypeInv => TypeOK
  BY DEF TypeInv
<1> QED BY <1>1, TypesHold, PTL

-----------------------------------------------------------------------------
(* Runs and their executors.                                               *)

\* A step changes one executor's run by claiming it, or leaves the runs that
\* are held where they are.
LEMMA HeldOrClaimed ==
  ASSUME TypeInv, [Next]_vars
  PROVE  \/ \A e \in Executors :
              executor'[e].pc # "idle" =>
                executor[e].pc # "idle" /\ executor'[e].run = executor[e].run
         \/ \E e \in Executors, r \in Runs : Claim(e, r)
<1> DEFINE Kept == \A e \in Executors :
              executor'[e].pc # "idle" =>
                executor[e].pc # "idle" /\ executor'[e].run = executor[e].run
<1>0. TypeOK
  BY DEF TypeInv
<1>1. ASSUME UNCHANGED executor PROVE Kept
  BY <1>1
<1>2. ASSUME NEW e \in Executors, NEW x, Set(e, x),
             x.pc # "idle" => executor[e].pc # "idle" /\ x.run = executor[e].run
      PROVE  Kept
  <2>1. executor' = [executor EXCEPT ![e] = x]
    BY <1>2 DEF Set
  <2> QED BY <1>0, <1>2, <2>1 DEF TypeOK
<1>3. ASSUME NEW e \in Executors, Release(e) PROVE Kept
  BY <1>2, <1>3 DEF Release, Idle
<1>4. ASSUME NEW e \in Executors, LoadContext(e) PROVE Kept
  <2> DEFINE x == [executor[e] EXCEPT !.pc = IF hasCursor THEN "fetch" ELSE "bootstrap",
                                     !.wm = watermark]
  <2>1. x.run = executor[e].run
    BY <1>0, ExecutorType DEF Executor
  <2>2. Set(e, x) /\ executor[e].pc # "idle"
    BY <1>4 DEF LoadContext
  <2> HIDE DEF x, Kept
  <2> QED BY <1>2, <2>1, <2>2
<1>5. ASSUME NEW e \in Executors, BootstrapCursor(e) PROVE Kept
  <2> DEFINE x(p) == [executor[e] EXCEPT !.pc = p]
  <2>1. PICK p \in {"fetch", "failing"} : Set(e, x(p))
    BY <1>5 DEF BootstrapCursor
  <2>2. x(p).run = executor[e].run /\ executor[e].pc # "idle"
    BY <1>0, <1>5, ExecutorType DEF Executor, BootstrapCursor
  <2> HIDE DEF x, Kept
  <2> QED BY <1>2, <2>1, <2>2
<1>6. ASSUME NEW e \in Executors, FetchPage(e) PROVE Kept
  <2>1. PICK page, link : Set(e, [executor[e] EXCEPT !.pc = "apply", !.page = page,
                                                     !.link = link])
    BY <1>6 DEF FetchPage
  <2> DEFINE x == [executor[e] EXCEPT !.pc = "apply", !.page = page, !.link = link]
  <2>2. x.run = executor[e].run /\ executor[e].pc # "idle"
    BY <1>0, <1>6, ExecutorType DEF Executor, FetchPage
  <2>3. Set(e, x)
    BY <2>1
  <2> HIDE DEF x, Kept
  <2> QED BY <1>2, <2>2, <2>3
<1>7. ASSUME NEW e \in Executors, ApplyPage(e) PROVE Kept
  <2>1. PICK p, served, read, values, last, cut :
          Set(e, [executor[e] EXCEPT !.pc = p, !.page = {}, !.served = served,
                                     !.read = read, !.values = values, !.last = last,
                                     !.cut = cut])
    BY <1>7, ZenonT(40) DEF ApplyPage
  <2> DEFINE x == [executor[e] EXCEPT !.pc = p, !.page = {}, !.served = served,
                                     !.read = read, !.values = values, !.last = last,
                                     !.cut = cut]
  <2>2. x.run = executor[e].run /\ executor[e].pc # "idle"
    BY <1>0, <1>7, ExecutorType DEF Executor, ApplyPage
  <2>3. Set(e, x)
    BY <2>1
  <2> HIDE DEF x, Kept
  <2> QED BY <1>2, <2>2, <2>3
<1>8. ASSUME NEW e \in Executors, Fail(e) PROVE Kept
  <2> DEFINE x == [executor[e] EXCEPT !.pc = "failing", !.page = {}, !.link = {}]
  <2>1. x.run = executor[e].run /\ Set(e, x) /\ executor[e].pc # "idle"
    BY <1>0, <1>8, ExecutorType DEF Executor, Fail
  <2> HIDE DEF x, Kept
  <2> QED BY <1>2, <2>1
<1>9. ASSUME NEW e \in Executors, FinishRun(e) \/ FinalizeFailed(e) \/ Crash(e) \/ ClaimGone(e)
      PROVE  Kept
  BY <1>3, <1>9 DEF FinishRun, FinalizeFailed, Crash, ClaimGone
<1> HIDE DEF Kept
<1>10. ASSUME UNCHANGED vars PROVE Kept
  BY <1>1, <1>10 DEF vars
<1>11. ASSUME NEW r \in Runs, CreatePendingRun(r) \/ DeleteRun(r) \/ Forget(r) PROVE Kept
  BY <1>1, <1>11 DEF CreatePendingRun, DeleteRun, Forget
<1>12. ASSUME NEW R \in SUBSET Runs, ReapStaleRunning(R) PROVE Kept
  BY <1>1, <1>12 DEF ReapStaleRunning
<1>13. ASSUME NEW k \in Keys, NEW c \in 1 .. MaxClock, SourceChange(k, c) PROVE Kept
  BY <1>1, <1>13 DEF SourceChange
<1>14. ASSUME \A e \in Executors, r \in Runs : ~Claim(e, r) PROVE Kept
  BY <1>14, <1>4, <1>5, <1>6, <1>7, <1>8, <1>9, <1>10, <1>11, <1>12, <1>13 DEF Next, Execute
<1> QED BY <1>14 DEF Kept

\* The claim gives every run in progress to one executor only, whatever is
\* reaped, deleted or crashes.
THEOREM Exclusive == Spec => []OneExecutor
<1>1. Init => OneExecutor
  BY DEF Init, OneExecutor, Paging, Idle
<1>2. ASSUME TypeInv, OneExecutor, [Next]_vars PROVE OneExecutor'
  <2>1. CASE \A e \in Executors :
               executor'[e].pc # "idle" =>
                 executor[e].pc # "idle" /\ executor'[e].run = executor[e].run
    BY <1>2, <2>1 DEF OneExecutor, Paging
  <2>2. CASE \E e \in Executors, r \in Runs : Claim(e, r)
    <3>1. PICK e \in Executors, r \in Runs : Claim(e, r)
      BY <2>2
    <3>2. /\ executor' = [executor EXCEPT ![e] = [Idle EXCEPT !.pc = "claimed", !.run = r]]
          /\ status[r] = "pending"
      BY <3>1 DEF Claim, Set, Claimable
    <3>3. /\ executor'[e].run = r
          /\ \A d \in Executors : d # e => executor'[d] = executor[d]
      BY <1>2, <3>2 DEF TypeInv, TypeOK, Idle
    <3>4. \A d \in Paging : executor[d].run # r
      BY <1>2, <3>2 DEF TypeInv, HeldInv
    <3> QED BY <1>2, <3>3, <3>4 DEF OneExecutor, Paging
  <2> QED BY <1>2, <2>1, <2>2, HeldOrClaimed
<1> QED BY <1>1, <1>2, TypesHold, PTL DEF Spec

\* What a step may do to the runs rows and the watermark.
LEMMA StatusStep ==
  ASSUME TypeInv, [Next]_vars
  PROVE  /\ \A r \in Runs : Terminal(r) => status'[r] \in {status[r], "deleted", "absent"}
         /\ watermark' # watermark =>
              \E r \in Runs : status[r] = "running" /\ status'[r] = "succeeded"
<1> DEFINE Final == \A r \in Runs : Terminal(r) => status'[r] \in {status[r], "deleted", "absent"}
<1>0. TypeOK /\ HeldInv
  BY DEF TypeInv
<1> USE DEF Terminal
<1>1. ASSUME UNCHANGED status PROVE Final
  BY <1>1
<1>2. ASSUME NEW r \in Runs, CreatePendingRun(r) \/ DeleteRun(r) \/ Forget(r)
      PROVE  Final /\ UNCHANGED watermark
  BY <1>0, <1>2 DEF CreatePendingRun, DeleteRun, Forget, TypeOK, rows
<1>3. ASSUME NEW e \in Executors, NEW r \in Runs, Claim(e, r)
      PROVE  Final /\ UNCHANGED watermark
  BY <1>0, <1>3 DEF Claim, Claimable, TypeOK, rows
<1>4. ASSUME NEW R \in SUBSET Runs, ReapStaleRunning(R)
      PROVE  Final /\ UNCHANGED watermark
  BY <1>0, <1>4 DEF ReapStaleRunning, Reapable, TypeOK, rows
<1>5. ASSUME NEW e \in Executors, FinalizeFailed(e)
      PROVE  Final /\ UNCHANGED watermark
  <2>1. executor[e].run \in Runs
    BY <1>0, <1>5 DEF FinalizeFailed, HeldInv, Paging
  <2> QED BY <1>0, <1>5, <2>1 DEF FinalizeFailed, StillRunning, TypeOK, rows
<1>6. ASSUME NEW e \in Executors, FinishRun(e)
      PROVE  /\ Final
             /\ watermark' # watermark =>
                  \E r \in Runs : status[r] = "running" /\ status'[r] = "succeeded"
  <2>1. executor[e].run \in Runs
    BY <1>0, <1>6 DEF FinishRun, HeldInv, Paging
  <2>2. CASE /\ StillRunning(executor[e].run)
             /\ status' = [status EXCEPT ![executor[e].run] = "succeeded"]
    BY <1>0, <2>1, <2>2 DEF StillRunning, TypeOK
  <2>3. CASE UNCHANGED <<status, watermark>>
    BY <2>3
  <2> QED BY <1>6, <2>2, <2>3 DEF FinishRun
<1>7. ASSUME NEW e \in Executors,
             \/ LoadContext(e) \/ BootstrapCursor(e) \/ FetchPage(e) \/ ApplyPage(e)
             \/ Fail(e) \/ Crash(e) \/ ClaimGone(e)
      PROVE  Final /\ UNCHANGED watermark
  <2>1. UNCHANGED <<status, watermark>>
    BY <1>7 DEF LoadContext, BootstrapCursor, FetchPage, ApplyPage, Fail, Crash,
       ClaimGone, rows
  <2> QED BY <2>1, <1>1
<1>8. ASSUME NEW k \in Keys, NEW c \in 1 .. MaxClock, SourceChange(k, c)
      PROVE  Final /\ UNCHANGED watermark
  BY <1>8 DEF SourceChange, rows
<1> HIDE DEF Final, Terminal
<1>10. /\ Final
       /\ watermark' # watermark =>
            \E r \in Runs : status[r] = "running" /\ status'[r] = "succeeded"
  <2>1. CASE UNCHANGED vars
    BY <2>1 DEF Final, Terminal, vars
  <2> QED BY <1>2, <1>3, <1>4, <1>5, <1>6, <1>7, <1>8, <2>1 DEF Next, Execute
<1> QED BY <1>10 DEF Final

\* A finalized run keeps its outcome.
THEOREM Final == Spec => FinalStatus
<1>1. TypeInv /\ [Next]_vars =>
        [\A r \in Runs : Terminal(r) => status'[r] \in {status[r], "deleted", "absent"}]_vars
  BY StatusStep
<1> QED BY <1>1, TypesHold, PTL DEF Spec, FinalStatus

\* The watermark moves only together with a run's success.
THEOREM WithSuccess == Spec => WatermarkWithSuccess
<1>1. TypeInv /\ [Next]_vars =>
        [watermark' # watermark =>
           \E r \in Runs : status[r] = "running" /\ status'[r] = "succeeded"]_vars
  BY StatusStep
<1> QED BY <1>1, TypesHold, PTL DEF Spec, WatermarkWithSuccess

-----------------------------------------------------------------------------
(* No row behind the watermark is missing, however many executors work on  *)
(* the pipeline.                                                           *)

\* The invariant of a pipeline that any number of executors work on.
SharedInv == NoneMissing /\ PagingInv /\ PendingInv /\ PresentInv

\* What an executor reads and writes depends on the source and on what is landed.
LEMMA SameSource ==
  ASSUME UNCHANGED environment, NEW x
  PROVE  /\ Pending(x)' = Pending(x) /\ Rest(x)' = Rest(x)
         /\ Matching(x.wm)' = Matching(x.wm)
         /\ \A k : RowOf(k)' = RowOf(k) /\ (Newer(x, k)' <=> Newer(x, k))
         /\ PagingOf(x)' <=> PagingOf(x)
         /\ PendingOf(x)' <=> PendingOf(x)
<1> USE DEF environment
<1>1. Links' = Links /\ Served' = Served
  BY DEF Links, Served
<1>2. \A w : Matching(w)' = Matching(w)
  BY DEF Matching, RowOf
<1>3. Rest(x)' = Rest(x) /\ Pending(x)' = Pending(x)
  BY <1>1, <1>2 DEF Pending, Rest
<1>4. \A k : RowOf(k)' = RowOf(k) /\ (Newer(x, k)' <=> Newer(x, k))
  BY <1>3 DEF RowOf, Newer
<1>5. PagingOf(x)' <=> PagingOf(x)
  BY <1>1 DEF PagingOf
<1>6. PendingOf(x)' <=> PendingOf(x)
  BY <1>3, <1>4 DEF PendingOf
<1> QED BY <1>2, <1>3, <1>4, <1>5, <1>6

\* A step of one executor that lets no row vanish keeps what holds of the others.
LEMMA SharedOthers ==
  ASSUME TypeInv, SharedInv, NEW e \in Executors, UNCHANGED environment,
         \A d \in Executors \ {e} : executor'[d] = executor[d],
         \A k \in Keys : landed[k] > 0 => landed'[k] > 0,
         NoneMissing', PagingOf(executor[e])', PendingOf(executor[e])', PresentOf(executor[e])'
  PROVE  SharedInv'
<1>1. ASSUME NEW d \in Executors, d # e
      PROVE  PagingOf(executor[d])' /\ PendingOf(executor[d])' /\ PresentOf(executor[d])'
  <2>1. PICK x : x = executor[d]
    OBVIOUS
  <2>2. executor'[d] = x /\ PagingOf(x) /\ PendingOf(x) /\ PresentOf(x)
    BY <1>1, <2>1 DEF SharedInv, PagingInv, PendingInv, PresentInv
  <2>3. PagingOf(x)' /\ PendingOf(x)'
    BY <2>2, SameSource
  <2>4. PresentOf(x)'
    BY <2>2, SameSource DEF PresentOf, environment
  <2> QED BY <2>2, <2>3, <2>4
<1> QED BY <1>1 DEF SharedInv, PagingInv, PendingInv, PresentInv

\* A step that leaves rows and executors alone keeps it all.
LEMMA SharedFrame ==
  ASSUME SharedInv, UNCHANGED <<environment, rows, executor>>
  PROVE  SharedInv'
<1>1. NoneMissing'
  BY DEF SharedInv, NoneMissing, environment, rows
<1>2. ASSUME NEW d \in Executors
      PROVE  PagingOf(executor[d])' /\ PendingOf(executor[d])' /\ PresentOf(executor[d])'
  <2>1. PICK x : x = executor[d]
    OBVIOUS
  <2>2. executor'[d] = x /\ PagingOf(x) /\ PendingOf(x) /\ PresentOf(x)
    BY <2>1 DEF SharedInv, PagingInv, PendingInv, PresentInv
  <2>3. PagingOf(x)' /\ PendingOf(x)'
    BY <2>2, SameSource
  <2>4. PresentOf(x)'
    BY <2>2, SameSource DEF PresentOf, environment, rows
  <2> QED BY <2>2, <2>3, <2>4
<1> QED BY <1>1, <1>2 DEF SharedInv, PagingInv, PendingInv, PresentInv

\* Initially nothing is pending and nothing is behind the watermark.
LEMMA SharedInit == Init => SharedInv
<1> SUFFICES ASSUME Init PROVE SharedInv
  OBVIOUS
<1>1. ASSUME NEW e \in Executors
      PROVE  PagingOf(executor[e]) /\ PendingOf(executor[e]) /\ PresentOf(executor[e])
  <2>1. executor[e] = Idle
    BY DEF Init
  <2>2. executor[e].pc = "idle" /\ executor[e].link = {} /\ Pending(executor[e]) = {}
    BY <2>1 DEF Idle, Pending
  <2> QED BY <2>2 DEF PagingOf, PendingOf, PresentOf, Paged
<1>2. NoneMissing
  BY DEF Init, NoneMissing
<1> QED BY <1>1, <1>2 DEF SharedInv, PagingInv, PendingInv, PresentInv

\* An executor that holds no page, and is about to fetch none, has nothing pending.
LEMMA SharedRest ==
  ASSUME TypeInv, SharedInv, NEW e \in Executors, UNCHANGED environment,
         \A d \in Executors \ {e} : executor'[d] = executor[d],
         UNCHANGED landed, NoneMissing',
         executor'[e].pc \in {"idle", "failing", "claimed", "bootstrap"},
         executor'[e].link = {},
         executor'[e].pc \in {"claimed", "bootstrap"} =>
           executor'[e].served = 0 /\ executor'[e].values = {} /\ executor'[e].page = {},
         executor'[e].pc = "bootstrap" => executor'[e].wm = watermark
  PROVE  SharedInv'
<1>1. Pending(executor[e])' = {}
  BY DEF Pending
<1>2. PagingOf(executor[e])'
  BY DEF PagingOf
<1>3. PendingOf(executor[e])'
  BY <1>1 DEF PendingOf
<1>4. PresentOf(executor[e])'
  BY DEF PresentOf, Paged, SharedInv, NoneMissing, environment
<1> QED BY <1>2, <1>3, <1>4, SharedOthers

\* An executor about to fetch its first page has everything from its watermark on
\* pending; behind that nothing is missing.
LEMMA SharedStart ==
  ASSUME TypeInv, SharedInv, NEW e \in Executors, UNCHANGED <<environment, landed>>,
         \A d \in Executors \ {e} : executor'[d] = executor[d], NoneMissing',
         NEW wm \in Nat,
         \A k \in Keys \ Keyless : source[k].ver > 0 /\ source[k].at < wm => landed[k] > 0,
         executor'[e].pc = "fetch", executor'[e].wm = wm,
         executor'[e].served = 0, executor'[e].values = {}, executor'[e].link = {}
  PROVE  SharedInv' /\ Pending(executor[e])' = Matching(wm)
<1>1. TypeOK
  BY DEF TypeInv
<1>2. /\ Matching(wm) \in SUBSET Row /\ IsFiniteSet(Matching(wm))
      /\ \A y \in Matching(wm) : y = RowOf(y.key) /\ wm <= y.at
  BY <1>1, MatchingType
<1>3. \A y \in Matching(wm) : y.ver > 0
  BY DEF Matching
<1>4. Pending(executor[e])' = Matching(wm)
  <2>1. Pending(executor[e])' = Beyond(Matching(wm), 0)
    BY DEF Pending, Matching, RowOf, environment
  <2>2. Beyond(Matching(wm), 0) = Matching(wm)
    BY <1>2, RankType DEF Beyond
  <2> QED BY <2>1, <2>2
<1>5. PagingOf(executor[e])'
  BY DEF PagingOf
<1>6. PendingOf(executor[e])'
  <2>1. \A y \in Matching(wm) : RowOf(y.key)' = y
    BY <1>2 DEF RowOf, environment
  <2>2. \A y, z \in Matching(wm) : y.key = z.key => y = z
    BY <1>2
  <2> QED BY <1>2, <1>3, <1>4, <2>1, <2>2 DEF PendingOf
<1>7. PresentOf(executor[e])'
  <2> SUFFICES ASSUME NEW k \in Keys \ Keyless, source[k].ver > 0, ~(landed[k] > 0)
               PROVE  ~(source[k].at < wm) /\ \E y \in Matching(wm) : y.key = k
    BY <1>4 DEF PresentOf, environment
  <2>1. ~(source[k].at < wm) /\ source[k].at \in Nat
    BY <1>1 DEF TypeOK
  <2>2. RowOf(k) \in Matching(wm) /\ RowOf(k).key = k
    BY <2>1 DEF Matching, RowOf
  <2> QED BY <2>1, <2>2
<1> QED BY <1>4, <1>5, <1>6, <1>7, SharedOthers

\* Steps that change one executor, and the runs rows at most.
LEMMA OneMoves ==
  ASSUME TypeInv, NEW e \in Executors, NEW x, Set(e, x)
  PROVE  executor'[e] = x /\ \A d \in Executors \ {e} : executor'[d] = executor[d]
BY DEF TypeInv, TypeOK, Set

\* Claiming a run puts nothing in motion yet.
LEMMA SharedClaim ==
  ASSUME TypeInv, SharedInv, NEW e \in Executors, NEW r \in Runs, Claim(e, r)
  PROVE  SharedInv'
<1> DEFINE x == [Idle EXCEPT !.pc = "claimed", !.run = r]
<1>1. Set(e, x) /\ UNCHANGED <<environment, rows>>
  BY DEF Claim
<1>2. x.pc = "claimed" /\ x.served = 0 /\ x.values = {} /\ x.page = {} /\ x.link = {}
  BY DEF Idle
<1> HIDE DEF x
<1>3. NoneMissing'
  BY <1>1 DEF SharedInv, NoneMissing, environment, rows
<1> QED BY <1>1, <1>2, <1>3, OneMoves, SharedRest DEF rows

\* _load_context: what it reads and where it goes on.
LEMMA LoadFacts ==
  ASSUME TypeInv, SharedInv, NEW e \in Executors, LoadContext(e)
  PROVE  /\ executor'[e].served = 0 /\ executor'[e].values = {}
         /\ executor'[e].page = {} /\ executor'[e].link = {} /\ executor'[e].wm = watermark
         /\ executor'[e].pc \in {"fetch", "bootstrap"}
         /\ \A d \in Executors \ {e} : executor'[d] = executor[d]
         /\ UNCHANGED <<environment, rows>>
<1> DEFINE x == [executor[e] EXCEPT !.pc = IF hasCursor THEN "fetch" ELSE "bootstrap",
                                   !.wm = watermark]
<1>1. /\ x.pc = (IF hasCursor THEN "fetch" ELSE "bootstrap") /\ x.wm = watermark
      /\ x.served = executor[e].served /\ x.values = executor[e].values
      /\ x.page = executor[e].page /\ x.link = executor[e].link
  BY ExecutorType DEF Executor, TypeInv
<1>2. Set(e, x) /\ executor[e].pc = "claimed" /\ UNCHANGED <<environment, rows>>
  BY DEF LoadContext
<1> HIDE DEF x
<1>3. PagingOf(executor[e])
  BY DEF SharedInv, PagingInv
<1>4. x.served = 0 /\ x.values = {} /\ x.page = {} /\ x.link = {}
  BY <1>1, <1>2, <1>3 DEF PagingOf
<1> QED BY <1>1, <1>2, <1>4, OneMoves

\* So it starts a run from the stored watermark, behind which nothing is missing.
LEMMA SharedLoad ==
  ASSUME TypeInv, SharedInv, NEW e \in Executors, LoadContext(e)
  PROVE  SharedInv'
<1>1. /\ executor'[e].served = 0 /\ executor'[e].values = {}
      /\ executor'[e].page = {} /\ executor'[e].link = {} /\ executor'[e].wm = watermark
      /\ executor'[e].pc \in {"fetch", "bootstrap"}
      /\ \A d \in Executors \ {e} : executor'[d] = executor[d]
      /\ UNCHANGED environment /\ UNCHANGED landed /\ UNCHANGED watermark
  BY LoadFacts DEF rows
<1>2. NoneMissing' /\ watermark \in Nat
  BY <1>1 DEF SharedInv, NoneMissing, environment, TypeInv, TypeOK
<1>3. CASE executor'[e].pc = "fetch"
  <2>1. \A k \in Keys \ Keyless :
          source[k].ver > 0 /\ source[k].at < watermark => landed[k] > 0
    BY DEF SharedInv, NoneMissing
  <2> QED BY <1>1, <1>2, <1>3, <2>1, SharedStart
<1>4. CASE executor'[e].pc = "bootstrap"
  BY <1>1, <1>2, <1>4, SharedRest
<1> QED BY <1>1, <1>3, <1>4

\* _bootstrap_cursor: the state it leaves the executor in.
LEMMA BootstrapFacts ==
  ASSUME TypeInv, SharedInv, NEW e \in Executors, BootstrapCursor(e)
  PROVE  /\ executor'[e].served = 0 /\ executor'[e].values = {}
         /\ executor'[e].page = {} /\ executor'[e].link = {}
         /\ executor'[e].wm = executor[e].wm
         /\ executor'[e].pc \in {"fetch", "failing"} /\ executor[e].pc = "bootstrap"
         /\ \A d \in Executors \ {e} : executor'[d] = executor[d]
         /\ UNCHANGED <<environment, landed, watermark>>
<1> DEFINE x(p) == [executor[e] EXCEPT !.pc = p]
<1>1. PICK p \in {"fetch", "failing"} : Set(e, x(p))
  BY DEF BootstrapCursor
<1>2. executor[e].pc = "bootstrap" /\ UNCHANGED <<environment, landed, watermark>>
  BY DEF BootstrapCursor
<1>3. /\ x(p).pc = p /\ x(p).wm = executor[e].wm
      /\ x(p).served = executor[e].served /\ x(p).values = executor[e].values
      /\ x(p).page = executor[e].page /\ x(p).link = executor[e].link
  BY ExecutorType DEF Executor, TypeInv
<1> HIDE DEF x
<1>4. PagingOf(executor[e])
  BY DEF SharedInv, PagingInv
<1>5. x(p).served = 0 /\ x(p).values = {} /\ x(p).page = {} /\ x(p).link = {}
  BY <1>2, <1>3, <1>4 DEF PagingOf
<1> QED BY <1>1, <1>2, <1>3, <1>5, OneMoves

\* So a run goes on from the watermark it read, behind which nothing is missing still.
LEMMA SharedBootstrap ==
  ASSUME TypeInv, SharedInv, NEW e \in Executors, BootstrapCursor(e)
  PROVE  SharedInv'
<1>1. /\ executor'[e].served = 0 /\ executor'[e].values = {}
      /\ executor'[e].page = {} /\ executor'[e].link = {}
      /\ executor'[e].wm = executor[e].wm
      /\ executor'[e].pc \in {"fetch", "failing"} /\ executor[e].pc = "bootstrap"
      /\ \A d \in Executors \ {e} : executor'[d] = executor[d]
      /\ UNCHANGED environment /\ UNCHANGED landed /\ UNCHANGED watermark
  BY BootstrapFacts
<1>2. NoneMissing'
  BY <1>1 DEF SharedInv, NoneMissing, environment
<1>3. CASE executor'[e].pc = "fetch"
  <2>1. PresentOf(executor[e]) /\ executor[e].wm \in Nat
    BY ExecutorType DEF SharedInv, PresentInv, TypeInv
  <2>2. \A k \in Keys \ Keyless :
          source[k].ver > 0 /\ source[k].at < executor[e].wm => landed[k] > 0
    BY <1>1, <2>1 DEF PresentOf
  <2> QED BY <1>1, <1>2, <1>3, <2>1, <2>2, SharedStart
<1>4. CASE executor'[e].pc = "failing"
  BY <1>1, <1>2, <1>4, SharedRest
<1> QED BY <1>1, <1>3, <1>4

\* Giving up a run loses nothing.
LEMMA SharedGiveUp ==
  ASSUME TypeInv, SharedInv, NEW e \in Executors,
         Fail(e) \/ FinalizeFailed(e) \/ Crash(e) \/ ClaimGone(e)
  PROVE  SharedInv'
<1>1. UNCHANGED environment /\ UNCHANGED rows
  BY DEF Fail, FinalizeFailed, Crash, ClaimGone
<1>2. NoneMissing' /\ UNCHANGED landed
  BY <1>1 DEF SharedInv, NoneMissing, environment, rows
<1>3. CASE Fail(e)
  <2> DEFINE x == [executor[e] EXCEPT !.pc = "failing", !.page = {}, !.link = {}]
  <2>1. Set(e, x)
    BY <1>3 DEF Fail
  <2>2. x.pc = "failing" /\ x.link = {}
    BY ExecutorType DEF Executor, TypeInv
  <2> HIDE DEF x
  <2> QED BY <1>1, <1>2, <2>1, <2>2, OneMoves, SharedRest
<1>4. CASE FinalizeFailed(e) \/ Crash(e) \/ ClaimGone(e)
  <2>1. Set(e, Idle)
    BY <1>4 DEF FinalizeFailed, Crash, ClaimGone, Release
  <2>2. Idle.pc = "idle" /\ Idle.link = {}
    BY DEF Idle
  <2> QED BY <1>1, <1>2, <2>1, <2>2, OneMoves, SharedRest
<1> QED BY <1>3, <1>4

\* A page and what lies behind it make up what was pending before, in order.
LEMMA PageSplit ==
  ASSUME NEW S \in SUBSET Row, IsFiniteSet(S), NEW from \in Nat, NEW n \in Nat
  PROVE  /\ Slice(S, from, n) \cup Beyond(S, from + n) = Beyond(S, from)
         /\ \A y \in Slice(S, from, n), z \in Beyond(S, from + n) : y.at <= z.at
         /\ S \ Slice(S, 0, n) = Beyond(S, n)
         /\ Beyond(S, 0) = S
<1>1. \A y \in S : Rank(S, y) \in Nat
  BY RankType
<1>2. \A y \in Slice(S, from, n) : y \in S /\ from <= Rank(S, y) /\ Rank(S, y) < from + n
  BY <1>1 DEF Slice
<1>3. \A y \in Slice(S, from, n), z \in Beyond(S, from + n) : y.at <= z.at
  BY <1>1, <1>2, RankOrder DEF Beyond
<1>4. ASSUME NEW y \in Beyond(S, from), y \notin Slice(S, from, n)
      PROVE  y \in Beyond(S, from + n)
  BY <1>1, <1>4 DEF Beyond, Slice
<1>5. Slice(S, from, n) \cup Beyond(S, from + n) \subseteq Beyond(S, from)
  BY <1>1, <1>2 DEF Beyond
<1>6. S \ Slice(S, 0, n) = Beyond(S, n)
  BY <1>1 DEF Beyond, Slice
<1>7. Beyond(S, 0) = S
  BY <1>1 DEF Beyond
<1> QED BY <1>3, <1>4, <1>5, <1>6, <1>7

\* The size of a response.
LEMMA ServedType ==
  ASSUME TypeOK PROVE Served \in Nat /\ Served <= PageSize /\ (~Links => Served = PageSize)
<1>1. serverPage \in Nat /\ PageSize \in Nat
  BY ConstantsOK DEF TypeOK, ConstantsOK
<1> QED BY <1>1 DEF Served, Links

\* Fetching a page takes it off the front of what is pending, and changes nothing else.
LEMMA FetchFacts ==
  ASSUME TypeInv, SharedInv, NEW e \in Executors, FetchPage(e)
  PROVE  /\ executor[e].pc = "fetch" /\ executor'[e].pc = "apply"
         /\ executor'[e].wm = executor[e].wm /\ executor'[e].values = executor[e].values
         /\ Pending(executor[e])' = Pending(executor[e])
         /\ \A k : Newer(executor[e], k) <=> Newer(executor[e], k)'
         /\ PagingOf(executor[e])' /\ PendingOf(executor[e])'
         /\ \A d \in Executors \ {e} : executor'[d] = executor[d]
         /\ UNCHANGED <<environment, rows>>
<1> DEFINE x == executor[e]
           S == IF x.link # {} THEN x.link ELSE Matching(x.wm)
           from == IF x.link # {} THEN 0 ELSE x.served
           page == Slice(S, from, Served)
           link == IF Links THEN S \ Slice(S, 0, from + Served) ELSE {}
           y == [x EXCEPT !.pc = "apply", !.page = page, !.link = link]
<1>0. TypeOK /\ ClockInv
  BY DEF TypeInv
<1>1. /\ executor'[e] = y /\ x.pc = "fetch"
      /\ \A d \in Executors \ {e} : executor'[d] = executor[d]
      /\ UNCHANGED <<environment, rows>>
  BY OneMoves DEF FetchPage
<1>2. /\ y.pc = "apply" /\ y.page = page /\ y.link = link
      /\ y.wm = x.wm /\ y.values = x.values /\ y.served = x.served
  BY <1>0, ExecutorType DEF Executor
<1>3. Served \in Nat /\ Served' = Served /\ Links' = Links
  BY <1>0, <1>1, ServedType DEF Served, Links, environment
<1>4. /\ x.wm \in Nat /\ x.served \in Nat /\ from \in Nat
      /\ S \in SUBSET Row /\ IsFiniteSet(S)
  <2>1. x.wm \in Nat /\ x.served \in Nat
    BY <1>0, ExecutorType
  <2>2. S \in SUBSET Row /\ IsFiniteSet(S)
    BY <1>0, FetchType
  <2> QED BY <2>1, <2>2
<1>5. /\ Links => from = 0
      /\ ~Links => x.link = {}
  BY <1>1 DEF SharedInv, PagingInv, PagingOf
<1>6. Pending(x) = Beyond(S, from)
  <2>1. CASE x.link # {}
    <3>1. S = x.link /\ from = 0 /\ Pending(x) = x.link
      BY <1>1, <2>1 DEF Pending
    <3> HIDE DEF S, from, x
    <3> QED BY <1>4, <3>1, PageSplit
  <2>2. CASE x.link = {}
    BY <1>1, <2>2 DEF Pending
  <2> QED BY <2>1, <2>2
<1>7. /\ page \cup Beyond(S, from + Served) = Beyond(S, from)
      /\ \A u \in page, z \in Beyond(S, from + Served) : u.at <= z.at
      /\ S \ Slice(S, 0, Served) = Beyond(S, Served)
  <2>1. page = Slice(S, from, Served)
    OBVIOUS
  <2> HIDE DEF S, from, x, page, link, y
  <2>2. /\ Slice(S, from, Served) \cup Beyond(S, from + Served) = Beyond(S, from)
        /\ \A u \in Slice(S, from, Served), z \in Beyond(S, from + Served) : u.at <= z.at
        /\ S \ Slice(S, 0, Served) = Beyond(S, Served)
    <3>1. S \in SUBSET Row /\ IsFiniteSet(S) /\ from \in Nat /\ Served \in Nat
      BY <1>3, <1>4
    <3>2. Slice(S, from, Served) \cup Beyond(S, from + Served) = Beyond(S, from)
      BY <3>1, PageSplit
    <3>3. \A u \in Slice(S, from, Served), z \in Beyond(S, from + Served) : u.at <= z.at
      BY <3>1, PageSplit
    <3>4. S \ Slice(S, 0, Served) = Beyond(S, Served)
      BY <3>1, PageSplit
    <3> QED BY <3>2, <3>3, <3>4
  <2> QED BY <2>1, <2>2
<1>8. \A u, z \in S : u.key = z.key => u = z
  <2>1. CASE x.link # {}
    <3>1. \A u, z \in Pending(x) : u.key = z.key => u = z
      BY DEF SharedInv, PendingInv, PendingOf
    <3> QED BY <1>1, <2>1, <3>1 DEF Pending
  <2>2. CASE x.link = {}
    BY <1>0, <1>4, <2>2, MatchingType
  <2> QED BY <2>1, <2>2
<1>9. Cardinality(page) <= Served
  <2> HIDE DEF S, from, x
  <2> QED BY <1>3, <1>4, <1>8, SliceSmall
<1>10. Rest(executor[e])' = Beyond(S, from + Served)
  <2>1. CASE Links
    <3>1. Rest(executor[e])' = link
      BY <1>1, <1>2, <1>3, <2>1 DEF Rest
    <3>2. link = S \ Slice(S, 0, from + Served) /\ from = 0
      BY <1>5, <2>1
    <3> HIDE DEF S, from, x, link
    <3> QED BY <1>3, <1>7, <3>1, <3>2
  <2>2. CASE ~Links
    <3>1. S = Matching(x.wm) /\ from = x.served
      BY <1>5, <2>2
    <3>2. Matching(x.wm)' = Matching(executor'[e].wm)
      BY <1>1, <1>2 DEF Matching, RowOf, environment
    <3>3. Rest(executor[e])' = Beyond(Matching(x.wm), x.served + Served)
      BY <1>1, <1>2, <1>3, <2>2 DEF Rest, Matching, RowOf, environment
    <3> HIDE DEF S, from, x
    <3> QED BY <3>1, <3>3
  <2> QED BY <2>1, <2>2
<1>11. Pending(executor[e])' = page \cup Rest(executor[e])'
  BY <1>1, <1>2 DEF Pending
<1> HIDE DEF S, from, page, link, y
<1>12. Pending(executor[e])' = Pending(x)
  BY <1>6, <1>7, <1>10, <1>11
<1>14. /\ executor'[e].pc = "apply" /\ executor'[e].page = page
       /\ executor'[e].wm = x.wm /\ executor'[e].values = x.values
  BY <1>1, <1>2
<1>15. ~Links => executor'[e].link = {}
  BY <1>1, <1>2 DEF link
<1>16. \A k : RowOf(k)' = RowOf(k)
  BY <1>1 DEF RowOf, environment
<1>18. PagingOf(executor[e])'
  BY <1>3, <1>9, <1>14, <1>15 DEF PagingOf
<1>19. \A k : Newer(executor[e], k) <=> Newer(executor[e], k)'
  BY <1>1, <1>12, <1>14 DEF Newer, environment
<1>20. PendingOf(executor[e])'
  <2>1. PendingOf(x)
    BY DEF SharedInv, PendingInv
  <2> QED BY <1>7, <1>10, <1>12, <1>14, <1>16, <1>19, <2>1 DEF PendingOf
<1> QED BY <1>1, <1>12, <1>14, <1>18, <1>19, <1>20

\* So nothing goes missing.
LEMMA SharedFetch ==
  ASSUME TypeInv, SharedInv, NEW e \in Executors, FetchPage(e)
  PROVE  SharedInv'
<1>1. /\ executor[e].pc = "fetch" /\ executor'[e].pc = "apply"
      /\ executor'[e].wm = executor[e].wm
      /\ Pending(executor[e])' = Pending(executor[e])
      /\ \A k : Newer(executor[e], k) <=> Newer(executor[e], k)'
      /\ PagingOf(executor[e])' /\ PendingOf(executor[e])'
      /\ \A d \in Executors \ {e} : executor'[d] = executor[d]
      /\ UNCHANGED environment /\ UNCHANGED landed /\ UNCHANGED watermark
  BY FetchFacts DEF rows
<1>2. NoneMissing'
  BY <1>1 DEF SharedInv, NoneMissing, environment
<1>3. PresentOf(executor[e])'
  BY <1>1 DEF SharedInv, PresentInv, PresentOf, Paged, environment
<1> QED BY <1>1, <1>2, <1>3, SharedOthers

\* Storing a page, or the part of it the row budget allows, stores what is not pending
\* any more, or leaves it behind all that was read.
LEMMA ApplyFacts ==
  ASSUME TypeInv, SharedInv, Stable, NEW e \in Executors, ApplyPage(e)
  PROVE  /\ executor[e].pc = "apply" /\ executor'[e].pc \in {"fetch", "finish"}
         /\ executor'[e].wm = executor[e].wm
         /\ \E kept \in SUBSET Pending(executor[e]) :
              /\ \A k \in Keys \ Keyless :
                   /\ \A u \in kept : u.key = k => landed'[k] = u.ver
                   /\ (\A u \in kept : u.key # k) => landed'[k] = landed[k]
              /\ \A u \in Pending(executor[e]) \ kept :
                   \/ u \in Pending(executor[e])'
                   \/ Pending(executor[e])' = {} /\ \A v \in executor'[e].values : v <= u.at
         /\ \A k \in Keyless : landed'[k] = landed[k]
         /\ \A k \in Keys : Newer(executor[e], k) => Newer(executor[e], k)'
         /\ PagingOf(executor[e])' /\ PendingOf(executor[e])'
         /\ \A d \in Executors \ {e} : executor'[d] = executor[d]
         /\ UNCHANGED <<environment, watermark>>
<1> DEFINE x    == executor[e]
           kept == Slice(x.page, 0, MaxRows - x.read)
           full == Cardinality(x.page) >= PageSize
           more == full \/ x.link # {}
           read == x.read + Cardinality(kept)
           done == read >= MaxRows \/ ~more
           last == CursorValues(kept)
           left == (x.page \ kept) \cup Rest(x)
           y    == [x EXCEPT !.pc = IF done THEN "finish" ELSE "fetch",
                      !.page = {}, !.served = @ + Cardinality(x.page), !.read = read,
                      !.values = @ \cup last, !.last = last, !.cut = more]
<1>0. TypeOK /\ ClockInv
  BY DEF TypeInv
<1>1. /\ executor'[e] = y /\ x.pc = "apply"
      /\ \A d \in Executors \ {e} : executor'[d] = executor[d]
      /\ landed' = [k \in Keys |->
                      IF k \notin Keyless /\ \E u \in kept : u.key = k
                      THEN (CHOOSE u \in kept : u.key = k).ver
                      ELSE landed[k]]
      /\ UNCHANGED <<environment, watermark>>
  BY OneMoves DEF ApplyPage
<1>2. /\ y.pc = (IF done THEN "finish" ELSE "fetch") /\ y.link = x.link /\ y.wm = x.wm
      /\ y.served = x.served + Cardinality(x.page) /\ y.values = x.values \cup last
  BY <1>0, ExecutorType DEF Executor
<1>3. /\ x.page \in SUBSET Row /\ IsFiniteSet(x.page) /\ x.read \in Nat /\ x.served \in Nat
      /\ MaxRows \in Nat /\ PageSize \in Nat
  BY <1>0, ExecutorType, ConstantsOK DEF ClockInv, ConstantsOK
<1>4. /\ kept \in SUBSET x.page /\ Cardinality(kept) \in Nat /\ Cardinality(x.page) \in Nat
  <2> HIDE DEF x
  <2> QED BY <1>3, SliceType, FS_CardinalityType
<1>5. /\ Pending(x) = x.page \cup Rest(x)
      /\ ~Links => x.link = {}
      /\ Cardinality(x.page) <= Served
  BY <1>1 DEF Pending, SharedInv, PagingInv, PagingOf
<1>6. /\ \A u \in Pending(x) : u.ver > 0 /\ x.wm <= u.at /\ (RowOf(u.key) = u \/ Newer(x, u.key))
      /\ \A u, z \in Pending(x) : u.key = z.key => u = z
      /\ \A v \in x.values, u \in Pending(x) : v <= u.at
      /\ \A u \in x.page, z \in Rest(x) : u.at <= z.at
  BY <1>1 DEF SharedInv, PendingInv, PendingOf
\* Not done means that the whole page was stored.
<1>7. ~done => kept = x.page
  <2>1. CASE kept # x.page
    <3>1. MaxRows - x.read \in Int
      BY <1>3
    <3>2. Cardinality(kept) >= MaxRows - x.read
      <4> HIDE DEF x
      <4> QED BY <1>3, <2>1, <3>1, PrefixFull
    <3> HIDE DEF kept, x
    <3> QED BY <1>3, <1>4, <3>2
  <2> QED BY <2>1
\* What stays behind is not before what was stored.
<1>8. \A u \in kept, z \in left : u.at <= z.at
  <2>1. ASSUME NEW u \in kept, NEW z \in x.page \ kept PROVE u.at <= z.at
    <3>1. x.page \ kept = Beyond(x.page, MaxRows - x.read) \/ kept = {}
      <4>1. CASE MaxRows - x.read \in Nat
        <5> HIDE DEF x
        <5> QED BY <1>3, <4>1, PageSplit
      <4>2. CASE MaxRows - x.read \notin Nat
        BY <1>3, <4>2 DEF Slice
      <4> QED BY <4>1, <4>2
    <3>2. Rank(x.page, u) < MaxRows - x.read
      <4>1. Rank(x.page, u) \in 0 .. (0 + (MaxRows - x.read) - 1)
        BY DEF Slice
      <4> QED BY <1>3, <4>1
    <3>3. Rank(x.page, z) >= MaxRows - x.read /\ z \in x.page
      BY <3>1 DEF Beyond
    <3>4. u \in x.page /\ Rank(x.page, u) \in Nat /\ Rank(x.page, z) \in Nat
      <4> HIDE DEF x
      <4> QED BY <1>3, <1>4, RankType
    <3>5. Rank(x.page, u) < Rank(x.page, z)
      <4> HIDE DEF x
      <4> QED BY <1>3, <3>2, <3>3, <3>4
    <3> HIDE DEF x
    <3> QED BY <1>3, <3>3, <3>4, <3>5, RankOrder
  <2> QED BY <1>4, <1>6, <2>1
\* What is pending next: nothing when the run is over, else all that was behind
\* the page.
<1>9. Pending(executor[e])' = (IF done THEN {} ELSE Rest(x))
  <2>1. Served \in Nat /\ (~Links => Served = PageSize)
    BY <1>0, ServedType
  <2>2. Links => Served < PageSize
    BY <1>0, <1>3, ConstantsOK DEF Stable, Served, Links, TypeOK, ConstantsOK
  <2>3. CASE done
    BY <1>1, <1>2, <2>3 DEF Pending
  <2>4. CASE ~done /\ x.link # {}
    <3>1. Pending(executor[e])' = x.link
      BY <1>1, <1>2, <2>4 DEF Pending
    <3>2. Rest(x) = x.link
      BY <1>5, <2>4 DEF Rest
    <3> QED BY <2>4, <3>1, <3>2
  <2>5. CASE ~done /\ x.link = {}
    <3>1. Cardinality(x.page) >= PageSize
      BY <2>5
    <3>2. ~Links
      BY <1>3, <1>4, <1>5, <2>1, <2>2, <3>1
    <3>3. Cardinality(x.page) = Served
      BY <1>3, <1>4, <1>5, <2>1, <3>1, <3>2
    <3>4. Pending(executor[e])' = Beyond(Matching(x.wm), x.served + Cardinality(x.page))
      <4>1. /\ executor'[e].pc = "fetch" /\ executor'[e].link = {}
            /\ executor'[e].wm = x.wm
            /\ executor'[e].served = x.served + Cardinality(x.page)
        BY <1>1, <1>2, <2>5
      <4> HIDE DEF x, y, kept, full, more, read, done, last
      <4> QED BY <1>1, <4>1 DEF Pending, Matching, RowOf, environment
    <3>5. Rest(x) = Beyond(Matching(x.wm), x.served + Served)
      BY <3>2 DEF Rest
    <3> QED BY <2>5, <3>3, <3>4, <3>5
  <2> QED BY <2>3, <2>4, <2>5
<1>10. /\ executor'[e].pc = (IF done THEN "finish" ELSE "fetch")
       /\ executor'[e].link = x.link /\ executor'[e].wm = x.wm
       /\ executor'[e].values = x.values \cup last
  BY <1>1, <1>2, <1>5
<1>11. \A v \in last : \E u \in kept : u.at = v
  BY DEF CursorValues
<1>12. /\ Pending(executor[e])' \subseteq left
       /\ left \subseteq Pending(x) /\ kept \subseteq Pending(x)
  BY <1>4, <1>5, <1>9
<1>13. /\ \A k \in Keys \ Keyless :
            /\ \A u \in kept : u.key = k => landed'[k] = u.ver
            /\ (\A u \in kept : u.key # k) => landed'[k] = landed[k]
       /\ \A k \in Keyless : landed'[k] = landed[k]
  BY <1>1, <1>6, <1>12, ConstantsOK DEF ConstantsOK
<1>14. ~done => left = Rest(x)
  BY <1>7
<1>15. ~Links' => x.link = {}
  BY <1>1, <1>5 DEF Links, environment
<1>16. ~(executor'[e].pc = "fetch" /\ Links' /\ x.link = {})
  <2> SUFFICES ASSUME ~done, Links, x.link = {} PROVE FALSE
    BY <1>1, <1>10 DEF Links, environment
  <2>1. Cardinality(x.page) >= PageSize
    OBVIOUS
  <2>2. Served \in Nat /\ Served < PageSize
    BY <1>0, <1>3, ServedType, ConstantsOK DEF Stable, Served, Links, TypeOK, ConstantsOK
  <2> QED BY <1>3, <1>4, <1>5, <2>1, <2>2
<1> HIDE DEF x, kept, full, more, read, done, last, left, y
<1>18. \A k : RowOf(k)' = RowOf(k)
  BY <1>1 DEF RowOf, environment
<1>19. PagingOf(executor[e])'
  BY <1>10, <1>15, <1>16 DEF PagingOf
\* Rows behind everything stay so; those that stay behind now are.
<1>20. ASSUME NEW k \in Keys, Newer(x, k) PROVE Newer(executor[e], k)'
  BY <1>1, <1>10, <1>11, <1>12, <1>20 DEF Newer, environment
<1>21. PendingOf(executor[e])'
  <2>1. \A u \in Pending(executor[e])' :
           /\ u.ver > 0 /\ x.wm <= u.at /\ u.key \in Keys
           /\ RowOf(u.key) = u \/ Newer(x, u.key)
    <3>1. ASSUME NEW u \in Pending(x), RowOf(u.key) = u \/ Newer(x, u.key)
          PROVE  u.key \in Keys
      <4>1. Pending(x) \in SUBSET Row
        <5>1. x.link \in SUBSET Row /\ Matching(x.wm) \in SUBSET Row
          BY <1>0, ExecutorType, MatchingType DEF x
        <5> QED BY <1>3, <1>5, <5>1 DEF Rest, Beyond
      <4> QED BY <4>1 DEF Row
    <3> QED BY <1>5, <1>6, <1>12, <3>1
  <2>2. \A u \in Pending(executor[e])' : \A v \in executor'[e].values : v <= u.at
    BY <1>6, <1>8, <1>10, <1>11, <1>12
  <2>3. \A u \in Pending(executor[e])' : RowOf(u.key)' = u \/ Newer(executor[e], u.key)'
    BY <1>18, <1>20, <2>1
  <2>4. \A u, z \in Pending(executor[e])' : u.key = z.key => u = z
    BY <1>6, <1>12
  <2>5. executor'[e].pc # "apply"
    BY <1>10
  <2> QED BY <1>10, <2>1, <2>2, <2>3, <2>4, <2>5 DEF PendingOf
<1>22. ASSUME NEW u \in Pending(x) \ kept
       PROVE  \/ u \in Pending(executor[e])'
              \/ Pending(executor[e])' = {} /\ \A v \in executor'[e].values : v <= u.at
  <2>1. u \in left
    BY <1>5, <1>22 DEF left
  <2>2. CASE done
    <3>1. \A v \in executor'[e].values : v <= u.at
      BY <1>6, <1>8, <1>10, <1>11, <1>22, <2>1
    <3> QED BY <1>9, <2>2, <3>1
  <2>3. CASE ~done
    BY <1>9, <1>14, <2>1, <2>3
  <2> QED BY <2>2, <2>3
<1>23. executor'[e].pc \in {"fetch", "finish"}
  BY <1>10
<1>24. x = executor[e]
  BY DEF x
<1> QED BY <1>1, <1>10, <1>12, <1>13, <1>19, <1>20, <1>21, <1>22, <1>23, <1>24

\* So no row vanishes, and what is stored no more than once is not missing.
LEMMA SharedApply ==
  ASSUME TypeInv, SharedInv, Stable, NEW e \in Executors, ApplyPage(e)
  PROVE  SharedInv'
<1> DEFINE x == executor[e]
<1>1. /\ x.pc = "apply" /\ executor'[e].pc \in {"fetch", "finish"}
      /\ executor'[e].wm = x.wm
      /\ \A k \in Keyless : landed'[k] = landed[k]
      /\ \A k \in Keys : Newer(x, k) => Newer(executor[e], k)'
      /\ PagingOf(executor[e])' /\ PendingOf(executor[e])'
      /\ \A d \in Executors \ {e} : executor'[d] = executor[d]
      /\ UNCHANGED environment /\ UNCHANGED watermark
  BY ApplyFacts
<1>2. PICK kept \in SUBSET Pending(x) :
        /\ \A k \in Keys \ Keyless :
             /\ \A u \in kept : u.key = k => landed'[k] = u.ver
             /\ (\A u \in kept : u.key # k) => landed'[k] = landed[k]
        /\ \A u \in Pending(x) \ kept :
             \/ u \in Pending(executor[e])'
             \/ Pending(executor[e])' = {} /\ \A v \in executor'[e].values : v <= u.at
  BY ApplyFacts
<1>3. \A u \in Pending(x) : u.ver > 0 /\ (RowOf(u.key) = u \/ Newer(x, u.key))
  BY DEF SharedInv, PendingInv, PendingOf
<1>4. \A k \in Keys \ Keyless : landed[k] > 0 \/ (\E u \in kept : u.key = k) => landed'[k] > 0
  BY <1>2, <1>3
<1>5. \A k \in Keys : landed[k] > 0 => landed'[k] > 0
  BY <1>1, <1>4
<1>6. NoneMissing'
  BY <1>1, <1>5 DEF SharedInv, NoneMissing, environment
<1>7. PresentOf(executor[e])'
  <2>1. PresentOf(x) /\ Paged(x)
    BY <1>1 DEF SharedInv, PresentInv, Paged
  <2> SUFFICES ASSUME NEW k \in Keys \ Keyless, source[k].ver > 0
               PROVE  /\ source[k].at < x.wm => landed'[k] > 0
                      /\ \/ landed'[k] > 0 \/ Newer(executor[e], k)'
                         \/ \E y \in Pending(executor[e])' : y.key = k
    BY <1>1 DEF PresentOf, environment
  <2>2. source[k].at < x.wm => landed'[k] > 0
    BY <1>5, <2>1 DEF PresentOf
  <2>3. landed[k] > 0 \/ (\E y \in Pending(x) : y.key = k) \/ Newer(x, k)
    BY <2>1 DEF PresentOf
  <2>4. ASSUME NEW y \in Pending(x), y.key = k
        PROVE  \/ landed'[k] > 0 \/ Newer(executor[e], k)'
               \/ \E z \in Pending(executor[e])' : z.key = k
    <3>1. CASE y \in kept
      BY <1>4, <2>4, <3>1
    <3>2. CASE y \in Pending(executor[e])'
      BY <2>4, <3>2
    <3>3. CASE Pending(executor[e])' = {} /\ \A v \in executor'[e].values : v <= y.at
      <4>1. CASE Newer(x, k)
        BY <1>1, <4>1
      <4>2. CASE RowOf(k) = y
        BY <1>1, <3>3, <4>2 DEF RowOf, Newer, environment
      <4> QED BY <1>3, <2>4, <4>1, <4>2
    <3> QED BY <1>2, <3>1, <3>2, <3>3
  <2> QED BY <1>1, <1>5, <2>2, <2>3, <2>4
<1> QED BY <1>1, <1>5, <1>6, <1>7, SharedOthers

\* The watermark a run ends with is one of the values it read, or the watermark it
\* started from; a row behind it is stored in some version.
LEMMA SharedFinish ==
  ASSUME TypeInv, SharedInv, NEW e \in Executors, FinishRun(e)
  PROVE  SharedInv'
<1> DEFINE x == executor[e]
<1>0. TypeOK /\ ClockInv
  BY DEF TypeInv
<1>1. /\ Set(e, Idle) /\ x.pc = "finish"
      /\ UNCHANGED environment /\ UNCHANGED landed
  BY DEF FinishRun, Release
<1>2. watermark' \in x.values \cup {x.wm, watermark}
  <2>1. \/ watermark' = RunWatermark(x.values, x.last, x.wm, x.cut)
        \/ watermark' = watermark
    BY DEF FinishRun
  <2>2. /\ x.values \in SUBSET Nat /\ x.last \in SUBSET Nat /\ x.wm \in Nat
        /\ x.cut \in BOOLEAN /\ clock \in Nat /\ \A v \in x.values : v <= clock
    BY <1>0, ExecutorType DEF ClockInv, TypeOK
  <2>3. RunWatermark(x.values, x.last, x.wm, x.cut) \in x.values \cup {x.wm}
    <3> HIDE DEF x
    <3> QED BY <2>2, RunWatermarkBounds
  <2> QED BY <2>1, <2>3
<1>3. NoneMissing'
  <2> SUFFICES ASSUME NEW k \in Keys \ Keyless, source[k].ver > 0,
                      source[k].at < watermark', ~(landed[k] > 0)
               PROVE  FALSE
    BY <1>1 DEF NoneMissing, environment
  <2>1. PresentOf(x) /\ Paged(x) /\ Pending(x) = {}
    BY <1>1 DEF SharedInv, PresentInv, Paged, Pending
  <2>2. ~(source[k].at < x.wm) /\ \A v \in x.values : v <= source[k].at
    BY <2>1 DEF PresentOf, Newer
  <2>3. ~(source[k].at < watermark)
    BY DEF SharedInv, NoneMissing
  <2>4. watermark' \in x.values
    BY <1>2, <2>2, <2>3
  <2>5. watermark' <= source[k].at
    BY <2>2, <2>4
  <2>6. watermark' \in Nat /\ source[k].at \in Nat
    BY <1>0, <2>4, ExecutorType DEF TypeOK
  <2> QED BY <2>5, <2>6
<1>4. Idle.pc = "idle" /\ Idle.link = {}
  BY DEF Idle
<1> QED BY <1>1, <1>3, <1>4, OneMoves, SharedRest

\* The rows a changed source will match.
LEMMA SourceMatching ==
  ASSUME TypeInv, NEW k \in Keys, NEW c \in 1 .. MaxClock, SourceChange(k, c), NEW wm \in Nat
  PROVE  /\ Matching(wm)' \in SUBSET Row /\ IsFiniteSet(Matching(wm)')
         /\ \A y \in Matching(wm)' : y = RowOf(y.key)' /\ wm <= y.at /\ y.ver > 0
<1>1. source' \in [Keys -> [at : Nat, ver : Nat]]
  BY TypeStep DEF Next, TypeInv, TypeOK
<1>2. Matching(wm)' = {x \in Rows(source') : x.ver > 0 /\ x.at >= wm}
  BY DEF Matching, RowOf, Rows
<1>3. \A y \in Rows(source') : y = RowOf(y.key)'
  BY DEF Rows, RowOf
<1>4. /\ Rows(source') \in SUBSET Row /\ IsFiniteSet(Rows(source'))
      /\ \A y \in Rows(source') : y.at \in Nat
  BY <1>1, RowsType, RowType
<1>5. Matching(wm)' \subseteq Rows(source')
  BY <1>2
<1>6. \A y \in Matching(wm)' : wm <= y.at /\ y.ver > 0
  BY <1>2, <1>4
<1> QED BY <1>3, <1>4, <1>5, <1>6, FS_Subset

\* A change of the source moves one row behind all that a run has read or was given
\* by the server; a run that has read nothing yet will find the row as it is now.
LEMMA SourceFacts ==
  ASSUME TypeInv, SharedInv, Stable, NEW e \in Executors,
         NEW k \in Keys, NEW c \in 1 .. MaxClock, SourceChange(k, c)
  PROVE  /\ PagingOf(executor[e])' /\ PendingOf(executor[e])'
         /\ Paged(executor[e]) =>
              \/ /\ Pending(executor[e])' = Pending(executor[e])
                 /\ Newer(executor[e], k)'
                 /\ \A j \in Keys \ {k} : Newer(executor[e], j) => Newer(executor[e], j)'
              \/ Pending(executor[e])' = Matching(executor[e].wm)'
<1>0. TypeOK /\ ClockInv
  BY DEF TypeInv
<1>1. /\ clock <= c
      /\ source' = [source EXCEPT ![k] = [at |-> c, ver |-> source[k].ver + 1]]
      /\ UNCHANGED <<serverPage, rows, executor>>
      /\ Links \/ Paging = {}
  BY <1>0 DEF SourceChange, TypeOK, Stable
<1>2. /\ source'[k].at = c
      /\ \A j \in Keys : j # k => source'[j] = source[j] /\ RowOf(j)' = RowOf(j)
  BY <1>0, <1>1 DEF TypeOK, RowOf
<1>3. \A n \in Nat : n <= clock => n <= c
  BY <1>0, <1>1 DEF TypeOK
<1>4. PagingOf(executor[e]) /\ PendingOf(executor[e])
  BY DEF SharedInv, PagingInv, PendingInv
<1>5. PagingOf(executor[e])'
  BY <1>1, <1>4 DEF PagingOf, Links, Served
<1>6. CASE Paging = {}
  <2>1. executor[e].pc = "idle" /\ executor'[e] = executor[e]
    BY <1>1, <1>6 DEF Paging
  <2>2. Pending(executor[e])' = {}
    BY <2>1 DEF Pending
  <2> QED BY <1>5, <2>1, <2>2 DEF PendingOf, Paged
<1>7. CASE Links
  \* A started paging reads the server's snapshot; one not started has read nothing.
  <2> DEFINE Started == executor[e].pc = "apply" \/ executor[e].link # {} \/ executor[e].pc # "fetch"
  <2>1. CASE Started
    <3>1. /\ Pending(executor[e])' = Pending(executor[e])
          /\ Rest(executor[e])' = Rest(executor[e])
          /\ Pending(executor[e]) \subseteq executor[e].page \cup executor[e].link
      BY <1>1, <1>7, <2>1 DEF Pending, Rest, Links
    <3>2. Newer(executor[e], k)'
      <4>1. \A y \in executor[e].page \cup executor[e].link : y.at \in Nat /\ y.at <= clock
        BY <1>0, ExecutorType, RowType DEF ClockInv
      <4>2. \A y \in Pending(executor[e]) : y.at <= c
        BY <1>3, <3>1, <4>1
      <4>3. \A v \in executor[e].values : v <= c
        BY <1>0, <1>3, ExecutorType DEF ClockInv
      <4> QED BY <1>1, <1>2, <3>1, <4>2, <4>3 DEF Newer
    <3>3. \A j \in Keys \ {k} : Newer(executor[e], j) => Newer(executor[e], j)'
      BY <1>1, <1>2, <3>1 DEF Newer
    <3>4. ASSUME NEW y \in Pending(executor[e])
          PROVE  RowOf(y.key)' = y \/ Newer(executor[e], y.key)'
      <4>1. y.key \in Keys
        <5>1. executor[e].page \in SUBSET Row /\ executor[e].link \in SUBSET Row
          BY <1>0, ExecutorType
        <5> QED BY <3>1, <5>1 DEF Row
      <4>2. RowOf(y.key) = y \/ Newer(executor[e], y.key)
        BY <1>4 DEF PendingOf
      <4> QED BY <1>2, <3>2, <3>3, <4>1, <4>2
    <3>5. PendingOf(executor[e])'
      BY <1>1, <1>4, <3>1, <3>4 DEF PendingOf
    <3> QED BY <1>5, <3>1, <3>2, <3>3, <3>5
  <2>2. CASE ~Started
    <3>1. /\ executor[e].values = {} /\ executor[e].pc = "fetch" /\ executor[e].link = {}
          /\ executor[e].served = 0 /\ executor[e].wm \in Nat
      BY <1>0, <1>4, <1>7, <2>2, ExecutorType DEF PagingOf
    <3>2. /\ Matching(executor[e].wm)' \in SUBSET Row /\ IsFiniteSet(Matching(executor[e].wm)')
          /\ \A y \in Matching(executor[e].wm)' :
               y = RowOf(y.key)' /\ executor[e].wm <= y.at /\ y.ver > 0
      <4>1. PICK wm \in Nat : wm = executor[e].wm
        BY <3>1
      <4>2. Matching(wm)' = Matching(executor[e].wm)'
        BY <1>1, <4>1 DEF Matching, RowOf
      <4> QED BY <4>1, <4>2, SourceMatching
    <3>3. Pending(executor[e])' = Beyond(Matching(executor[e].wm)', 0)
      BY <1>1, <3>1 DEF Pending, Matching, RowOf
    <3>4. Beyond(Matching(executor[e].wm)', 0) = Matching(executor[e].wm)'
      BY <3>2, PageSplit
    <3>5. PendingOf(executor[e])'
      <4>1. \A y, z \in Pending(executor[e])' : y.key = z.key => y = z
        BY <3>2, <3>3, <3>4
      <4> QED BY <1>1, <3>1, <3>2, <3>3, <3>4, <4>1 DEF PendingOf
    <3> QED BY <1>5, <3>3, <3>4, <3>5
  <2> QED BY <2>1, <2>2
<1> QED BY <1>1, <1>6, <1>7

\* A changed row is as new as anything read so far.
LEMMA SharedSource ==
  ASSUME TypeInv, SharedInv, Stable,
         NEW k \in Keys, NEW c \in 1 .. MaxClock, SourceChange(k, c)
  PROVE  SharedInv'
<1>0. TypeOK /\ ClockInv
  BY DEF TypeInv
<1>1. /\ clock <= c /\ source'[k].at = c
      /\ \A j \in Keys : j # k => source'[j] = source[j]
      /\ UNCHANGED <<serverPage, rows, executor>>
  BY <1>0 DEF SourceChange, TypeOK
<1>2. \A n \in Nat : n <= clock => ~(c < n)
  BY <1>0, <1>1 DEF TypeOK
<1>3. NoneMissing'
  <2>1. watermark \in Nat /\ ~(c < watermark)
    BY <1>0, <1>2 DEF TypeOK, ClockInv
  <2> QED BY <1>1, <2>1 DEF SharedInv, NoneMissing, rows
<1>4. ASSUME NEW e \in Executors PROVE PresentOf(executor[e])'
  <2>1. PresentOf(executor[e]) /\ executor[e].wm \in Nat
    BY <1>0, ExecutorType DEF SharedInv, PresentInv
  <2> SUFFICES ASSUME NEW j \in Keys \ Keyless, source'[j].ver > 0
               PROVE  /\ /\ executor[e].pc = "bootstrap" \/ Paged(executor[e])
                         /\ source'[j].at < executor[e].wm
                         => landed[j] > 0
                      /\ Paged(executor[e]) =>
                           \/ landed[j] > 0 \/ Newer(executor[e], j)'
                           \/ \E y \in Pending(executor[e])' : y.key = j
    BY <1>1 DEF PresentOf, Paged, rows
  <2>2. ASSUME executor[e].pc = "bootstrap" \/ Paged(executor[e]), source'[j].at < executor[e].wm
        PROVE  landed[j] > 0
    <3>1. ~(c < executor[e].wm)
      BY <1>0, <1>2, <2>1 DEF ClockInv
    <3> QED BY <1>1, <2>1, <2>2, <3>1 DEF PresentOf
  <2>3. ASSUME Paged(executor[e])
        PROVE  \/ landed[j] > 0 \/ Newer(executor[e], j)'
               \/ \E y \in Pending(executor[e])' : y.key = j
    <3>1. CASE /\ Pending(executor[e])' = Pending(executor[e])
               /\ Newer(executor[e], k)'
               /\ \A i \in Keys \ {k} : Newer(executor[e], i) => Newer(executor[e], i)'
      BY <1>1, <2>1, <2>3, <3>1 DEF PresentOf
    <3>2. CASE Pending(executor[e])' = Matching(executor[e].wm)'
      <4>1. CASE source'[j].at < executor[e].wm
        BY <2>2, <2>3, <4>1
      <4>2. CASE ~(source'[j].at < executor[e].wm)
        <5>1. source'[j].at \in Nat
          BY TypeStep DEF Next, TypeInv, TypeOK
        <5>2. RowOf(j)' \in Matching(executor[e].wm)' /\ RowOf(j)'.key = j
          BY <1>1, <2>1, <4>2, <5>1 DEF Matching, RowOf
        <5> QED BY <3>2, <5>2
      <4> QED BY <4>1, <4>2
    <3> QED BY <2>3, <3>1, <3>2, SourceFacts
  <2> QED BY <2>2, <2>3
<1> QED BY <1>3, <1>4, SourceFacts DEF SharedInv, PagingInv, PendingInv, PresentInv

\* Every step of the pipeline keeps the invariant.
LEMMA SharedStep ==
  ASSUME TypeInv, SharedInv, Stable, [Next]_vars
  PROVE  SharedInv'
<1>1. ASSUME NEW r \in Runs, CreatePendingRun(r) \/ DeleteRun(r) \/ Forget(r)
      PROVE  SharedInv'
  BY <1>1, SharedFrame DEF CreatePendingRun, DeleteRun, Forget
<1>2. ASSUME NEW R \in SUBSET Runs, ReapStaleRunning(R) PROVE SharedInv'
  BY <1>2, SharedFrame DEF ReapStaleRunning
<1>3. CASE UNCHANGED vars
  BY <1>3, SharedFrame DEF vars, environment, rows
<1> QED BY <1>1, <1>2, <1>3, SharedClaim, SharedLoad, SharedBootstrap, SharedFetch,
           SharedApply, SharedFinish, SharedGiveUp, SharedSource
        DEF Next, Execute

\* With any number of executors, runs and overlaps no row behind the watermark is
\* missing altogether, whatever fails, crashes, is reaped or deleted and however the row
\* cap cuts the runs, if the source keeps its pages stable: snapshots behind links of
\* less than $top rows, or no change while a run is paging by $skip.
THEOREM Present == ASSUME Stable PROVE Spec => []NoneMissing
<1>1. Init => SharedInv
  BY SharedInit
<1>2. TypeInv /\ SharedInv /\ [Next]_vars => SharedInv'
  BY SharedStep
<1>3. SharedInv => NoneMissing
  BY DEF SharedInv
<1> QED BY <1>1, <1>2, <1>3, TypesHold, PTL DEF Spec

-----------------------------------------------------------------------------
(* Nothing is lost behind the watermark of a pipeline that one executor at *)
(* a time works on.                                                        *)

\* What that executor's own watermark and pages add to the shared invariant.
PipelineInv == NothingLost /\ WatermarkRead /\ CoveredInv

\* Initially nothing is behind the watermark and nobody is paging.
LEMMA PipelineInit == Init => PipelineInv
BY DEF Init, Idle, PipelineInv, NothingLost, WatermarkRead, CoveredInv, Paged

\* Steps of the API and the reaper, which touch only the runs rows.
LEMMA PipelineFrame ==
  ASSUME PipelineInv, UNCHANGED <<environment, rows, executor>>
  PROVE  PipelineInv'
<1>1. NothingLost' /\ WatermarkRead'
  BY DEF PipelineInv, NothingLost, WatermarkRead, Paged, environment, rows
<1>2. CoveredInv'
  <2> SUFFICES ASSUME NEW d \in Executors, Paged(executor[d]),
                      NEW k \in Keys \ Keyless, source[k].ver > 0
               PROVE  \/ landed[k] = source[k].ver \/ RowOf(k)' \in Pending(executor[d])'
                      \/ Newer(executor[d], k)'
    BY DEF CoveredInv, Paged, environment, rows
  <2>1. PICK x : x = executor[d]
    OBVIOUS
  <2>2. landed[k] = source[k].ver \/ RowOf(k) \in Pending(x) \/ Newer(x, k)
    BY <2>1 DEF PipelineInv, CoveredInv
  <2>3. Pending(x)' = Pending(x) /\ RowOf(k)' = RowOf(k) /\ (Newer(x, k)' <=> Newer(x, k))
    BY SameSource
  <2> QED BY <2>1, <2>2, <2>3
<1> QED BY <1>1, <1>2 DEF PipelineInv

\* An executor that is not paging has read nothing to rely on.
LEMMA PipelineRest ==
  ASSUME PipelineInv, Tame, NEW e \in Executors, NothingLost',
         executor'[e].pc \in {"idle", "failing", "claimed"}
  PROVE  PipelineInv'
<1>1. \A d \in Executors : d = e
  BY DEF Tame
<1> QED BY <1>1 DEF PipelineInv, WatermarkRead, CoveredInv, Paged

\* An executor about to fetch its first page has everything from the watermark on
\* pending; what lies behind the watermark is stored.
LEMMA PipelineStart ==
  ASSUME TypeInv, PipelineInv, Tame, NEW e \in Executors,
         UNCHANGED environment, UNCHANGED landed, UNCHANGED watermark,
         executor'[e].wm = watermark, Pending(executor[e])' = Matching(watermark)
  PROVE  PipelineInv'
<1>0. TypeOK
  BY DEF TypeInv
<1>1. \A d \in Executors : d = e
  BY DEF Tame
<1>2. NothingLost'
  BY DEF PipelineInv, NothingLost, environment
<1>3. WatermarkRead'
  BY <1>1 DEF WatermarkRead
<1>4. CoveredInv'
  <2> SUFFICES ASSUME NEW k \in Keys \ Keyless, source[k].ver > 0,
                      landed[k] # source[k].ver
               PROVE  RowOf(k) \in Matching(watermark)
    BY <1>1 DEF CoveredInv, RowOf, environment
  <2>1. ~(source[k].at < watermark)
    BY DEF PipelineInv, NothingLost
  <2>2. RowOf(k).ver > 0 /\ RowOf(k).at >= watermark
    BY <1>0, <2>1 DEF RowOf, TypeOK
  <2> QED BY <2>2 DEF Matching
<1> QED BY <1>2, <1>3, <1>4 DEF PipelineInv

\* _load_context reads the watermark from which everything is pending.
LEMMA PipelineLoad ==
  ASSUME TypeInv, SharedInv, PipelineInv, Tame, NEW e \in Executors, LoadContext(e)
  PROVE  PipelineInv'
<1>1. /\ executor'[e].served = 0 /\ executor'[e].values = {}
      /\ executor'[e].page = {} /\ executor'[e].link = {} /\ executor'[e].wm = watermark
      /\ executor'[e].pc \in {"fetch", "bootstrap"}
      /\ \A d \in Executors \ {e} : executor'[d] = executor[d]
      /\ UNCHANGED environment /\ UNCHANGED landed /\ UNCHANGED watermark
  BY LoadFacts DEF rows
<1>2. NothingLost' /\ NoneMissing' /\ watermark \in Nat
  BY <1>1 DEF SharedInv, NoneMissing, PipelineInv, NothingLost, environment, TypeInv, TypeOK
<1>3. CASE executor'[e].pc = "fetch"
  <2>1. \A k \in Keys \ Keyless :
          source[k].ver > 0 /\ source[k].at < watermark => landed[k] > 0
    BY DEF SharedInv, NoneMissing
  <2>2. Pending(executor[e])' = Matching(watermark)
    BY <1>1, <1>2, <1>3, <2>1, SharedStart
  <2> QED BY <1>1, <2>2, PipelineStart
<1>4. CASE executor'[e].pc = "bootstrap"
  <2>1. \A d \in Executors : d = e
    BY DEF Tame
  <2>2. WatermarkRead' /\ CoveredInv'
    BY <1>1, <1>4, <2>1 DEF WatermarkRead, CoveredInv, Paged
  <2> QED BY <1>2, <2>2 DEF PipelineInv
<1> QED BY <1>1, <1>3, <1>4

\* _bootstrap_cursor lets the first run start, or fails the one that came second.
LEMMA PipelineBootstrap ==
  ASSUME TypeInv, SharedInv, PipelineInv, Tame, NEW e \in Executors, BootstrapCursor(e)
  PROVE  PipelineInv'
<1>1. /\ executor'[e].served = 0 /\ executor'[e].values = {}
      /\ executor'[e].page = {} /\ executor'[e].link = {}
      /\ executor'[e].wm = executor[e].wm
      /\ executor'[e].pc \in {"fetch", "failing"} /\ executor[e].pc = "bootstrap"
      /\ \A d \in Executors \ {e} : executor'[d] = executor[d]
      /\ UNCHANGED environment /\ UNCHANGED landed /\ UNCHANGED watermark
  BY BootstrapFacts
<1>2. NothingLost' /\ NoneMissing' /\ watermark \in Nat
  BY <1>1 DEF SharedInv, NoneMissing, PipelineInv, NothingLost, environment, TypeInv, TypeOK
<1>3. CASE executor'[e].pc = "fetch"
  <2>1. \A k \in Keys \ Keyless :
          source[k].ver > 0 /\ source[k].at < watermark => landed[k] > 0
    BY DEF SharedInv, NoneMissing
  <2>2. executor[e].wm = watermark
    BY <1>1 DEF PipelineInv, WatermarkRead
  <2>3. Pending(executor[e])' = Matching(watermark)
    BY <1>1, <1>2, <1>3, <2>1, <2>2, SharedStart
  <2> QED BY <1>1, <2>2, <2>3, PipelineStart
<1>4. CASE executor'[e].pc = "failing"
  BY <1>2, <1>4, PipelineRest
<1> QED BY <1>1, <1>3, <1>4

\* Fetching a page leaves pending what was pending.
LEMMA PipelineFetch ==
  ASSUME TypeInv, SharedInv, PipelineInv, Tame, NEW e \in Executors, FetchPage(e)
  PROVE  PipelineInv'
<1>1. /\ executor[e].pc = "fetch" /\ executor'[e].pc = "apply"
      /\ executor'[e].wm = executor[e].wm
      /\ Pending(executor[e])' = Pending(executor[e])
      /\ \A k : Newer(executor[e], k) <=> Newer(executor[e], k)'
      /\ UNCHANGED environment /\ UNCHANGED landed /\ UNCHANGED watermark
  BY FetchFacts DEF rows
<1>2. \A d \in Executors : d = e
  BY DEF Tame
<1>3. NothingLost'
  BY <1>1 DEF PipelineInv, NothingLost, environment
<1>4. WatermarkRead'
  BY <1>1, <1>2 DEF PipelineInv, WatermarkRead, Paged
<1>5. \A k : RowOf(k)' = RowOf(k)
  BY <1>1 DEF RowOf, environment
<1>6. CoveredInv'
  BY <1>1, <1>2, <1>5 DEF PipelineInv, CoveredInv, Paged, environment
<1> QED BY <1>3, <1>4, <1>6 DEF PipelineInv

\* Storing a page covers its rows; the rows that stay behind are at or after all that
\* was read.
LEMMA PipelineApply ==
  ASSUME TypeInv, SharedInv, PipelineInv, Tame, NEW e \in Executors, ApplyPage(e)
  PROVE  PipelineInv'
<1> DEFINE x == executor[e]
<1>0. TypeOK /\ ClockInv /\ Stable
  BY DEF TypeInv, Tame
<1>1. /\ x.pc = "apply" /\ executor'[e].pc \in {"fetch", "finish"}
      /\ executor'[e].wm = x.wm
      /\ \A k \in Keys : Newer(x, k) => Newer(executor[e], k)'
      /\ UNCHANGED environment /\ UNCHANGED watermark
  BY <1>0, ApplyFacts
<1>2. PICK kept \in SUBSET Pending(x) :
        /\ \A k \in Keys \ Keyless :
             /\ \A u \in kept : u.key = k => landed'[k] = u.ver
             /\ (\A u \in kept : u.key # k) => landed'[k] = landed[k]
        /\ \A u \in Pending(x) \ kept :
             \/ u \in Pending(executor[e])'
             \/ Pending(executor[e])' = {} /\ \A v \in executor'[e].values : v <= u.at
  BY <1>0, ApplyFacts
<1>3. \A u \in Pending(x) : x.wm <= u.at /\ (RowOf(u.key) = u \/ Newer(x, u.key))
  BY DEF SharedInv, PendingInv, PendingOf
<1>4. \A k : RowOf(k)' = RowOf(k) /\ RowOf(k).key = k /\ RowOf(k).ver = source[k].ver
             /\ RowOf(k).at = source[k].at
  BY <1>1 DEF RowOf, environment
<1>5. x.wm = watermark /\ Paged(x)
  BY <1>1 DEF PipelineInv, WatermarkRead, Paged
<1>6. \A d \in Executors : d = e
  BY DEF Tame
<1>7. WatermarkRead'
  BY <1>1, <1>5, <1>6 DEF WatermarkRead
\* A row whose stored version this page replaced by another is newer than all of it.
<1>8. ASSUME NEW k \in Keys \ Keyless, landed[k] = source[k].ver, landed'[k] # source[k].ver
      PROVE  Newer(x, k) /\ \E u \in kept : u.key = k
  <2>1. PICK u \in kept : u.key = k
    BY <1>2, <1>8
  <2>2. RowOf(k) # u
    BY <1>2, <1>4, <1>8, <2>1
  <2> QED BY <1>3, <2>1, <2>2
<1>9. CoveredInv'
  <2> SUFFICES ASSUME NEW k \in Keys \ Keyless, source[k].ver > 0,
                      landed'[k] # source[k].ver,
                      RowOf(k) \notin Pending(executor[e])'
               PROVE  Newer(executor[e], k)'
    BY <1>1, <1>4, <1>6 DEF CoveredInv, environment
  <2>1. landed[k] = source[k].ver \/ RowOf(k) \in Pending(x) \/ Newer(x, k)
    BY <1>5 DEF PipelineInv, CoveredInv
  <2>2. CASE RowOf(k) \in Pending(x)
    <3>1. RowOf(k) \notin kept
      BY <1>2, <1>4
    <3>2. Pending(executor[e])' = {} /\ \A v \in executor'[e].values : v <= source[k].at
      BY <1>2, <1>4, <2>2, <3>1
    <3> QED BY <1>1, <3>2 DEF Newer, environment
  <2>3. CASE landed[k] = source[k].ver \/ Newer(x, k)
    BY <1>1, <1>8, <2>3
  <2> QED BY <2>1, <2>2, <2>3
<1>10. NothingLost'
  <2> SUFFICES ASSUME NEW k \in Keys \ Keyless, source[k].ver > 0,
                      source[k].at < watermark, landed'[k] # source[k].ver
               PROVE  FALSE
    BY <1>1 DEF NothingLost, environment
  <2>1. PICK u \in kept : u.key = k /\ Newer(x, k)
    BY <1>8 DEF PipelineInv, NothingLost
  <2>2. u \in Pending(x) /\ watermark <= u.at /\ u.at <= source[k].at
    BY <1>3, <1>5, <2>1 DEF Newer
  <2>3. u.at \in Nat /\ watermark \in Nat /\ source[k].at \in Nat
    <3>1. u \in x.page \cup x.link \cup Matching(x.wm)
      BY <1>1, <2>2 DEF Pending, Rest, Beyond
    <3>2. u \in Row
      BY <1>0, <3>1, ExecutorType, MatchingType
    <3> QED BY <1>0, <3>2, RowType DEF TypeOK
  <2> QED BY <2>2, <2>3
<1> QED BY <1>7, <1>9, <1>10 DEF PipelineInv

\* Every row not stored is at or after all values read, so the watermark a run ends
\* with is not past it.
LEMMA PipelineFinish ==
  ASSUME TypeInv, SharedInv, PipelineInv, Tame, NEW e \in Executors, FinishRun(e)
  PROVE  PipelineInv'
<1> DEFINE x == executor[e]
<1>0. TypeOK /\ ClockInv
  BY DEF TypeInv
<1>1. /\ Set(e, Idle) /\ x.pc = "finish" /\ Paged(x)
      /\ UNCHANGED environment /\ UNCHANGED landed
  BY DEF FinishRun, Release, Paged
<1>2. watermark' \in x.values \cup {watermark}
  <2>1. \/ watermark' = RunWatermark(x.values, x.last, x.wm, x.cut)
        \/ watermark' = watermark
    BY DEF FinishRun
  <2>2. x.wm = watermark
    BY <1>1 DEF PipelineInv, WatermarkRead
  <2>3. /\ x.values \in SUBSET Nat /\ x.last \in SUBSET Nat /\ x.wm \in Nat
        /\ x.cut \in BOOLEAN /\ clock \in Nat /\ \A v \in x.values : v <= clock
    BY <1>0, ExecutorType DEF ClockInv, TypeOK
  <2>4. RunWatermark(x.values, x.last, x.wm, x.cut) \in x.values \cup {x.wm}
    <3> HIDE DEF x
    <3> QED BY <2>3, RunWatermarkBounds
  <2> QED BY <2>1, <2>2, <2>4
<1>3. NothingLost'
  <2> SUFFICES ASSUME NEW k \in Keys \ Keyless, source[k].ver > 0,
                      source[k].at < watermark', landed[k] # source[k].ver
               PROVE  FALSE
    BY <1>1 DEF NothingLost, environment
  <2>1. Pending(x) = {}
    BY <1>1 DEF Pending
  <2>2. Newer(x, k)
    BY <1>1, <2>1 DEF PipelineInv, CoveredInv
  <2>3. ~(source[k].at < watermark)
    BY DEF PipelineInv, NothingLost
  <2>4. watermark' \in x.values
    BY <1>2, <2>3
  <2>5. watermark' <= source[k].at
    BY <2>2, <2>4 DEF Newer
  <2>6. watermark' \in Nat /\ source[k].at \in Nat
    BY <1>0, <2>4, ExecutorType DEF TypeOK
  <2> QED BY <2>5, <2>6
<1>4. executor'[e].pc = "idle"
  BY <1>1, OneMoves DEF Idle
<1> QED BY <1>3, <1>4, PipelineRest

\* Claiming a run and giving one up lose nothing.
LEMMA PipelineGiveUp ==
  ASSUME TypeInv, PipelineInv, Tame, NEW e \in Executors,
         \/ \E r \in Runs : Claim(e, r)
         \/ Fail(e) \/ FinalizeFailed(e) \/ Crash(e) \/ ClaimGone(e)
  PROVE  PipelineInv'
<1>1. UNCHANGED environment /\ UNCHANGED rows
  BY DEF Claim, Fail, FinalizeFailed, Crash, ClaimGone
<1>2. NothingLost'
  BY <1>1 DEF PipelineInv, NothingLost, environment, rows
<1>3. ASSUME NEW x, Set(e, x), x.pc \in {"idle", "failing", "claimed"} PROVE PipelineInv'
  BY <1>2, <1>3, OneMoves, PipelineRest
<1>4. CASE Fail(e)
  <2> DEFINE x == [executor[e] EXCEPT !.pc = "failing", !.page = {}, !.link = {}]
  <2>1. Set(e, x)
    BY <1>4 DEF Fail
  <2>2. x.pc = "failing"
    BY ExecutorType DEF Executor, TypeInv
  <2> HIDE DEF x
  <2> QED BY <1>3, <2>1, <2>2
<1>5. CASE FinalizeFailed(e) \/ Crash(e) \/ ClaimGone(e)
  BY <1>3, <1>5 DEF FinalizeFailed, Crash, ClaimGone, Release, Idle
<1>6. ASSUME NEW r \in Runs, Claim(e, r) PROVE PipelineInv'
  BY <1>3, <1>6 DEF Claim, Idle
<1> QED BY <1>4, <1>5, <1>6

\* A changed row is behind the watermark no more, and as new as anything read so far.
LEMMA PipelineSource ==
  ASSUME TypeInv, SharedInv, PipelineInv, Tame,
         NEW k \in Keys, NEW c \in 1 .. MaxClock, SourceChange(k, c)
  PROVE  PipelineInv'
<1>0. TypeOK /\ ClockInv /\ Stable
  BY DEF TypeInv, Tame
<1>1. /\ clock <= c /\ source'[k].at = c
      /\ \A j \in Keys : j # k => source'[j] = source[j] /\ RowOf(j)' = RowOf(j)
      /\ UNCHANGED <<serverPage, rows, executor>>
  BY <1>0 DEF SourceChange, TypeOK, RowOf
<1>2. NothingLost'
  <2>1. watermark \in Nat /\ ~(c < watermark)
    BY <1>0, <1>1 DEF TypeOK, ClockInv
  <2> QED BY <1>1, <2>1 DEF PipelineInv, NothingLost, rows
<1>3. WatermarkRead'
  BY <1>1 DEF PipelineInv, WatermarkRead, Paged, rows
<1>4. CoveredInv'
  <2> SUFFICES ASSUME NEW e \in Executors, Paged(executor[e]),
                      NEW j \in Keys \ Keyless, source'[j].ver > 0, landed[j] # source'[j].ver
               PROVE  RowOf(j)' \in Pending(executor[e])' \/ Newer(executor[e], j)'
    BY <1>1 DEF CoveredInv, Paged, rows
  <2>1. CASE /\ Pending(executor[e])' = Pending(executor[e])
             /\ Newer(executor[e], k)'
             /\ \A i \in Keys \ {k} : Newer(executor[e], i) => Newer(executor[e], i)'
    BY <1>1, <2>1 DEF PipelineInv, CoveredInv
  <2>2. CASE Pending(executor[e])' = Matching(executor[e].wm)'
    <3>1. executor[e].wm = watermark
      BY DEF PipelineInv, WatermarkRead
    <3>2. ~(source'[j].at < watermark)
      BY <1>1, <1>2 DEF NothingLost, rows
    <3>3. source'[j].at \in Nat /\ watermark \in Nat
      BY <1>0, TypeStep DEF Next, TypeInv, TypeOK
    <3>4. RowOf(j)' \in Matching(executor[e].wm)'
      BY <1>1, <3>1, <3>2, <3>3 DEF Matching, RowOf
    <3> QED BY <2>2, <3>4
  <2> QED BY <1>0, <2>1, <2>2, SourceFacts
<1> QED BY <1>2, <1>3, <1>4 DEF PipelineInv

\* Every step of the pipeline keeps the invariant.
LEMMA PipelineStep ==
  ASSUME TypeInv, SharedInv, PipelineInv, Tame, [Next]_vars
  PROVE  PipelineInv'
<1>1. ASSUME NEW r \in Runs, CreatePendingRun(r) \/ DeleteRun(r) \/ Forget(r)
      PROVE  PipelineInv'
  BY <1>1, PipelineFrame DEF CreatePendingRun, DeleteRun, Forget
<1>2. ASSUME NEW R \in SUBSET Runs, ReapStaleRunning(R) PROVE PipelineInv'
  BY <1>2, PipelineFrame DEF ReapStaleRunning
<1>3. CASE UNCHANGED vars
  BY <1>3, PipelineFrame DEF vars, environment, rows
<1> QED BY <1>1, <1>2, <1>3, PipelineLoad, PipelineBootstrap, PipelineFetch, PipelineApply,
           PipelineFinish, PipelineGiveUp, PipelineSource
        DEF Next, Execute

\* Nothing is lost behind the watermark of a pipeline that one executor at a
\* time works on, whatever fails, crashes, is reaped or deleted and however the
\* row cap cuts the runs, if the source keeps its pages stable: snapshots behind
\* links of less than $top rows, or no change while a run is paging by $skip.
THEOREM Lossless == ASSUME Tame PROVE Spec => []NothingLost
<1>1. Init => SharedInv /\ PipelineInv
  BY SharedInit, PipelineInit
<1>2. TypeInv /\ SharedInv /\ PipelineInv /\ [Next]_vars => SharedInv' /\ PipelineInv'
  BY SharedStep, PipelineStep DEF Tame
<1>3. PipelineInv => NothingLost
  BY DEF PipelineInv
<1> QED BY <1>1, <1>2, <1>3, TypesHold, PTL DEF Spec

\* No step takes the watermark back.
LEMMA WatermarkForward ==
  ASSUME TypeInv, PipelineInv, [Next]_vars
  PROVE  watermark' >= watermark
<1>1. TypeOK /\ ClockInv /\ watermark \in Nat
  BY DEF TypeInv, TypeOK
<1>2. ASSUME UNCHANGED watermark PROVE watermark' >= watermark
  BY <1>1, <1>2
<1>3. ASSUME NEW e \in Executors, FinishRun(e) PROVE watermark' >= watermark
  <2> DEFINE x == executor[e]
  <2>1. x.wm = watermark
    BY <1>3 DEF FinishRun, PipelineInv, WatermarkRead, Paged
  <2>2. /\ x.values \in SUBSET Nat /\ x.last \in SUBSET Nat /\ x.wm \in Nat
        /\ x.cut \in BOOLEAN /\ clock \in Nat /\ \A v \in x.values : v <= clock
    BY <1>1, ExecutorType DEF ClockInv, TypeOK
  <2>3. RunWatermark(x.values, x.last, x.wm, x.cut) >= x.wm
    <3> HIDE DEF x
    <3> QED BY <2>2, RunWatermarkBounds
  <2> QED BY <1>2, <1>3, <2>1, <2>3 DEF FinishRun
<1>4. CASE UNCHANGED vars
  BY <1>2, <1>4 DEF vars
<1>5. ASSUME Next, \A e \in Executors : ~FinishRun(e) PROVE UNCHANGED watermark
  BY <1>5 DEF Next, Execute, CreatePendingRun, Claim, ReapStaleRunning, DeleteRun,
     Forget, LoadContext, BootstrapCursor, FetchPage, ApplyPage, Fail,
     FinalizeFailed, Crash, ClaimGone, SourceChange, rows
<1> QED BY <1>2, <1>3, <1>4, <1>5

\* Under the same assumption the stored watermark never moves backwards.
THEOREM Monotone == ASSUME Tame PROVE Spec => WatermarkMonotone
<1>1. Init => SharedInv /\ PipelineInv
  BY SharedInit, PipelineInit
<1>2. TypeInv /\ SharedInv /\ PipelineInv /\ [Next]_vars => SharedInv' /\ PipelineInv'
  BY SharedStep, PipelineStep DEF Tame
<1>3. TypeInv /\ PipelineInv /\ [Next]_vars => [watermark' >= watermark]_vars
  BY WatermarkForward
<1> QED BY <1>1, <1>2, <1>3, TypesHold, PTL DEF Spec, WatermarkMonotone

-----------------------------------------------------------------------------
(* The landing table of a pipeline that one executor at a time works on is *)
(* a Replica of its source.                                                *)

\* Initially nothing is stored and nobody holds a page.
LEMMA FollowInit == Init => FollowInv
BY DEF Init, Idle, Items, FollowInv

\* No executor holds a row that it did not hold before.
KeepsPages ==
  /\ UNCHANGED <<environment, landed>>
  /\ \A d \in Executors : /\ executor'[d].page \subseteq executor[d].page
                          /\ executor'[d].link \subseteq executor[d].link

\* An executor that moves on without a page of its own brings in no row.
LEMMA MovesWithPages ==
  ASSUME TypeInv, UNCHANGED <<environment, landed>>, NEW e \in Executors, NEW x, Set(e, x),
         x.page \subseteq executor[e].page, x.link \subseteq executor[e].link
  PROVE  KeepsPages
BY OneMoves DEF KeepsPages

\* Only fetching a page, storing one and the source itself bring in new rows.
LEMMA NothingNew ==
  ASSUME TypeInv, [Next]_vars
  PROVE  \/ KeepsPages
         \/ \E e \in Executors : FetchPage(e) \/ ApplyPage(e)
         \/ \E k \in Keys, c \in 1 .. MaxClock : SourceChange(k, c)
<1>1. CASE \/ UNCHANGED vars
           \/ \E r \in Runs : CreatePendingRun(r) \/ DeleteRun(r) \/ Forget(r)
           \/ \E R \in SUBSET Runs : ReapStaleRunning(R)
  BY <1>1 DEF vars, CreatePendingRun, DeleteRun, Forget, ReapStaleRunning, environment,
     rows, KeepsPages
<1>2. ASSUME NEW e \in Executors,
             \/ \E r \in Runs : Claim(e, r)
             \/ ClaimGone(e) \/ FinishRun(e) \/ FinalizeFailed(e) \/ Crash(e)
      PROVE  KeepsPages
  <2>1. UNCHANGED <<environment, landed>>
    BY <1>2 DEF Claim, ClaimGone, FinishRun, FinalizeFailed, Crash, rows
  <2>2. \E x : Set(e, x) /\ x.page = {} /\ x.link = {}
    <3>1. \A r : LET x == [Idle EXCEPT !.pc = "claimed", !.run = r] IN
                 x.page = {} /\ x.link = {}
      BY DEF Idle
    <3>2. Idle.page = {} /\ Idle.link = {}
      BY DEF Idle
    <3> HIDE DEF Idle
    <3> QED BY <1>2, <3>1, <3>2 DEF Claim, ClaimGone, FinishRun, FinalizeFailed, Crash,
                                    Release
  <2> QED BY <2>1, <2>2, MovesWithPages
<1>3. ASSUME NEW e \in Executors, Fail(e) PROVE KeepsPages
  <2> DEFINE x == [executor[e] EXCEPT !.pc = "failing", !.page = {}, !.link = {}]
  <2>1. x.page = {} /\ x.link = {}
    BY ExecutorType DEF TypeInv, Executor
  <2>2. Set(e, x) /\ UNCHANGED <<environment, landed>>
    BY <1>3 DEF Fail, rows
  <2> HIDE DEF x
  <2> QED BY <2>1, <2>2, MovesWithPages
<1>4. ASSUME NEW e \in Executors, LoadContext(e) PROVE KeepsPages
  <2> DEFINE x == [executor[e] EXCEPT !.pc = IF hasCursor THEN "fetch" ELSE "bootstrap",
                                     !.wm = watermark]
  <2>1. x.page = executor[e].page /\ x.link = executor[e].link
    BY ExecutorType DEF TypeInv, Executor
  <2>2. Set(e, x) /\ UNCHANGED <<environment, landed>>
    BY <1>4 DEF LoadContext, rows
  <2> HIDE DEF x
  <2> QED BY <2>1, <2>2, MovesWithPages
<1>5. ASSUME NEW e \in Executors, BootstrapCursor(e) PROVE KeepsPages
  <2> DEFINE x(p) == [executor[e] EXCEPT !.pc = p]
  <2>1. \A p : x(p).page = executor[e].page /\ x(p).link = executor[e].link
    BY ExecutorType DEF TypeInv, Executor
  <2>2. (\E p : Set(e, x(p))) /\ UNCHANGED <<environment, landed>>
    BY <1>5 DEF BootstrapCursor
  <2> HIDE DEF x
  <2> QED BY <2>1, <2>2, MovesWithPages
<1> QED BY <1>1, <1>2, <1>3, <1>4, <1>5 DEF Next, Execute

\* Then nothing stored and nothing held has become newer.
LEMMA FollowKept == ASSUME FollowInv, KeepsPages PROVE FollowInv'
BY DEF FollowInv, KeepsPages, environment, Items

\* A row of the source is as new as the source, and what is stored of it no newer.
LEMMA MatchingFollows ==
  ASSUME TypeInv, FollowInv, NEW wm \in Nat, NEW y \in Matching(wm)
  PROVE  /\ y.ver <= source[y.key].ver
         /\ y.key \in Items => landed[y.key] <= y.ver
<1>1. y = RowOf(y.key) /\ y.key \in Keys
  BY MatchingType DEF TypeInv, Row
<1>2. y.ver = source[y.key].ver /\ y.ver \in Nat
  BY <1>1 DEF RowOf, TypeInv, TypeOK
<1> QED BY <1>2 DEF FollowInv

\* A page comes from the source as it is, or from the snapshot behind a link.
LEMMA FollowFetch ==
  ASSUME TypeInv, FollowInv, Tame, NEW e \in Executors, FetchPage(e)
  PROVE  FollowInv'
<1> DEFINE x == executor[e]
           S == IF x.link # {} THEN x.link ELSE Matching(x.wm)
           from == IF x.link # {} THEN 0 ELSE x.served
           page == Slice(S, from, Served)
           link == IF Links THEN S \ Slice(S, 0, from + Served) ELSE {}
           z == [x EXCEPT !.pc = "apply", !.page = page, !.link = link]
<1>1. Set(e, z) /\ UNCHANGED <<environment, rows>>
  BY DEF FetchPage
<1>2. \A y \in S : /\ y.ver <= source[y.key].ver
                   /\ y.key \in Items => landed[y.key] <= y.ver
  <2>1. x.wm \in Nat
    BY ExecutorType DEF TypeInv
  <2> QED BY <2>1, MatchingFollows DEF FollowInv
<1>3. page \subseteq S /\ link \subseteq S
  BY DEF Slice
<1>4. z.page = page /\ z.link = link
  BY ExecutorType DEF TypeInv, Executor
<1> HIDE DEF x, S, from, page, link, z
<1>5. executor'[e] = z /\ \A d \in Executors : d = e
  BY <1>1, OneMoves DEF Tame
<1>6. \A d \in Executors : \A y \in executor'[d].page \cup executor'[d].link : y \in S
  BY <1>3, <1>4, <1>5
<1> QED BY <1>1, <1>2, <1>6 DEF FollowInv, environment, rows, Items

\* What is pending is not newer than the source, and what is stored of it no newer.
LEMMA PendingFollows ==
  ASSUME TypeInv, SharedInv, FollowInv, NEW e \in Executors, executor[e].pc = "apply",
         NEW y \in Pending(executor[e])
  PROVE  /\ y.ver \in Nat
         /\ y.ver <= source[y.key].ver
         /\ y.key \in Items => landed[y.key] <= y.ver
<1> DEFINE x == executor[e]
<1>1. y \in x.page \cup x.link \/ y \in Matching(x.wm)
  BY DEF Pending, Rest, Beyond
<1>2. x.page \in SUBSET Row /\ x.link \in SUBSET Row /\ x.wm \in Nat
  BY ExecutorType DEF TypeInv
<1>3. y \in Row
  BY <1>1, <1>2, MatchingType DEF TypeInv
<1>4. CASE y \in x.page \cup x.link
  BY <1>3, <1>4, RowType DEF FollowInv
<1>5. CASE y \in Matching(x.wm)
  BY <1>2, <1>3, <1>5, RowType, MatchingFollows
<1> QED BY <1>1, <1>4, <1>5

\* Storing a page takes each of its rows to a version between the one stored and the
\* source's.
LEMMA ApplyFollows ==
  ASSUME TypeInv, SharedInv, FollowInv, Tame, NEW e \in Executors, ApplyPage(e)
  PROVE  \A k \in Items :
           /\ landed[k] <= landed'[k] /\ landed'[k] <= source[k].ver
           /\ \A y \in Pending(executor[e]) : y.key = k => landed'[k] <= y.ver
<1>1. executor[e].pc = "apply" /\ PendingOf(executor[e])
  BY DEF ApplyPage, SharedInv, PendingInv
<1>2. PICK kept \in SUBSET Pending(executor[e]) :
        \A k \in Items :
          /\ \A u \in kept : u.key = k => landed'[k] = u.ver
          /\ (\A u \in kept : u.key # k) => landed'[k] = landed[k]
  BY ApplyFacts DEF Tame, Items
<1> SUFFICES ASSUME NEW k \in Items
             PROVE  /\ landed[k] <= landed'[k] /\ landed'[k] <= source[k].ver
                    /\ \A y \in Pending(executor[e]) : y.key = k => landed'[k] <= y.ver
  OBVIOUS
<1>3. landed[k] \in Nat /\ source[k].ver \in Nat
  BY DEF TypeInv, TypeOK, Items
<1>4. CASE \A u \in kept : u.key # k
  <2>1. landed'[k] = landed[k]
    BY <1>2, <1>4
  <2>2. landed[k] <= source[k].ver
    BY DEF FollowInv
  <2> QED BY <1>1, <1>3, <2>1, <2>2, PendingFollows
<1>5. CASE \E u \in kept : u.key = k
  <2>1. PICK u \in kept : u.key = k
    BY <1>5
  <2>2. landed'[k] = u.ver
    BY <1>2, <2>1
  <2>3. u.ver \in Nat /\ u.ver <= source[k].ver /\ landed[k] <= u.ver
    BY <1>1, <2>1, PendingFollows
  <2>4. \A y \in Pending(executor[e]) : y.key = k => y = u
    BY <1>1, <2>1 DEF PendingOf
  <2> QED BY <2>2, <2>3, <2>4
<1> QED BY <1>4, <1>5

\* The page stored is gone; the rows behind the server's link are still as new.
LEMMA FollowApply ==
  ASSUME TypeInv, SharedInv, FollowInv, Tame, NEW e \in Executors, ApplyPage(e)
  PROVE  FollowInv'
<1> DEFINE x == executor[e]
<1>1. executor'[e].page = {} /\ executor'[e].link = x.link
  <2> DEFINE kept == Slice(x.page, 0, MaxRows - x.read)
             full == Cardinality(x.page) >= PageSize
             more == full \/ x.link # {}
             read == x.read + Cardinality(kept)
             done == read >= MaxRows \/ ~more
             last == CursorValues(kept)
             y    == [x EXCEPT !.pc = IF done THEN "finish" ELSE "fetch",
                        !.page = {}, !.served = @ + Cardinality(x.page), !.read = read,
                        !.values = @ \cup last, !.last = last, !.cut = more]
  <2>1. Set(e, y)
    BY DEF ApplyPage
  <2>2. y.page = {} /\ y.link = x.link
    BY ExecutorType DEF TypeInv, Executor
  <2> HIDE DEF y, x
  <2> QED BY <2>1, <2>2, OneMoves
<1>2. x.link \subseteq Pending(x)
  <2>1. Links \/ x.link = {}
    BY DEF SharedInv, PagingInv, PagingOf
  <2> QED BY <2>1 DEF ApplyPage, Pending, Rest
<1>3. UNCHANGED environment /\ \A d \in Executors : d = e
  BY DEF ApplyPage, Tame
<1>4. \A y \in x.link : y.ver <= source[y.key].ver
  BY DEF FollowInv
<1>5. \A y \in x.link : y.key \in Items => landed'[y.key] <= y.ver
  BY <1>2, ApplyFollows
<1>6. \A k \in Items : landed'[k] <= source[k].ver
  BY ApplyFollows
<1> HIDE DEF x
<1> QED BY <1>1, <1>3, <1>4, <1>5, <1>6 DEF FollowInv, environment, Items

\* A change makes the source newer.
LEMMA FollowSource ==
  ASSUME TypeInv, FollowInv, NEW k \in Keys, NEW c \in 1 .. MaxClock, SourceChange(k, c)
  PROVE  FollowInv'
<1>1. UNCHANGED <<landed, executor>>
  BY DEF SourceChange, rows
<1>2. \A j \in Keys : /\ source[j].ver \in Nat /\ source'[j].ver \in Nat
                      /\ source[j].ver <= source'[j].ver
  BY DEF SourceChange, TypeInv, TypeOK
<1>3. \A j \in Items : landed'[j] <= source'[j].ver
  <2> SUFFICES ASSUME NEW j \in Items PROVE landed[j] <= source'[j].ver
    BY <1>1
  <2>1. landed[j] \in Nat /\ landed[j] <= source[j].ver /\ j \in Keys
    BY DEF TypeInv, TypeOK, FollowInv, Items
  <2> QED BY <1>2, <2>1
<1>4. ASSUME NEW d \in Executors, NEW y \in executor[d].page \cup executor[d].link
      PROVE  y.ver <= source'[y.key].ver
  <2>1. y \in Row
    BY <1>4, ExecutorType DEF TypeInv
  <2>2. y.key \in Keys /\ y.ver \in Nat
    BY <2>1 DEF Row
  <2>3. y.ver <= source[y.key].ver
    BY <1>4 DEF FollowInv
  <2> QED BY <1>2, <2>2, <2>3
<1> QED BY <1>1, <1>3, <1>4 DEF FollowInv, Items

\* Every step keeps what is stored behind what is to come.
LEMMA FollowStep ==
  ASSUME TypeInv, SharedInv, FollowInv, Tame, [Next]_vars
  PROVE  FollowInv'
BY NothingNew, FollowKept, FollowFetch, FollowApply, FollowSource

\* What a Replica sees of the source and of the landing table.
original == [k \in Items |-> source[k]]
copy     == [k \in Items |-> landed[k]]

\* A pipeline that has not begun is a Replica that has not.
LEMMA RefinesInit == Init => Landing!RInit
BY DEF Init, Landing!RInit, Items

\* Storing a page copies its rows.
LEMMA RefinesApply ==
  ASSUME TypeInv, SharedInv, FollowInv, Tame, NEW e \in Executors, ApplyPage(e)
  PROVE  Landing!Catch
<1>1. UNCHANGED environment /\ UNCHANGED watermark
  BY DEF ApplyPage
<1>2. landed' \in [Keys -> Nat] /\ Items \subseteq Keys
  BY TypeStep DEF Next, Execute, TypeInv, TypeOK, Items
<1>3. \A k \in Items : landed'[k] \in landed[k] .. source[k].ver
  <2> SUFFICES ASSUME NEW k \in Items PROVE landed'[k] \in landed[k] .. source[k].ver
    OBVIOUS
  <2>1. landed[k] \in Nat /\ landed'[k] \in Nat /\ source[k].ver \in Nat
    BY <1>2 DEF TypeInv, TypeOK
  <2> QED BY <2>1, ApplyFollows
<1>4. copy' \in [Items -> Nat]
  BY <1>2 DEF copy
<1>5. original' = original
  BY <1>1 DEF original, environment
<1> QED BY <1>1, <1>3, <1>4, <1>5 DEF Landing!Catch, original, copy, environment

\* Closing a run moves the mark, or nothing that is seen.
LEMMA RefinesFinish ==
  ASSUME TypeInv, FollowInv, Tame, NEW e \in Executors, FinishRun(e),
         NothingLost', TypeInv', watermark' >= watermark
  PROVE  Landing!Advance \/ UNCHANGED Landing!rvars
<1>1. UNCHANGED environment /\ UNCHANGED landed
  BY DEF FinishRun
<1>2. original' = original /\ copy' = copy /\ clock' = clock
  BY <1>1 DEF original, copy, environment
<1>3. CASE watermark' = watermark
  BY <1>2, <1>3 DEF Landing!rvars, original, copy
<1>4. CASE watermark' # watermark
  <2>1. watermark' \in watermark + 1 .. clock
    <3>1. watermark \in Nat /\ watermark' \in Nat /\ clock \in Nat /\ watermark' <= clock
      BY <1>2 DEF TypeInv, TypeOK, ClockInv
    <3> QED BY <1>4, <3>1
  <2>2. ASSUME NEW k \in Items, source[k].at < watermark' PROVE landed[k] = source[k].ver
    <3>1. landed[k] \in Nat /\ source[k].ver \in Nat /\ landed[k] <= source[k].ver
      BY DEF TypeInv, TypeOK, FollowInv, Items
    <3>2. source[k].ver > 0 => landed[k] = source[k].ver
      BY <1>1, <2>2 DEF NothingLost, Items, environment
    <3> QED BY <3>1, <3>2
  <2>3. Landing!CompleteBefore(watermark')
    BY <2>2 DEF Landing!CompleteBefore
  <2> QED BY <1>2, <2>1, <2>3 DEF Landing!Advance, original, copy
<1> QED BY <1>3, <1>4

\* A change of the source is one of the original, or only time passing if the row has
\* no key.
LEMMA RefinesSource ==
  ASSUME TypeInv, NEW k \in Keys, NEW c \in 1 .. MaxClock, SourceChange(k, c)
  PROVE  Landing!Change
<1>1. /\ clock' \in Nat /\ clock' >= clock /\ clock' = c
      /\ source' = [source EXCEPT ![k] = [at |-> clock', ver |-> @.ver + 1]]
      /\ UNCHANGED rows
  BY DEF SourceChange, TypeInv, TypeOK
<1>2. \A j \in Keys : j # k => source'[j] = source[j]
  BY <1>1 DEF TypeInv, TypeOK
<1>3. source'[k] = [at |-> clock', ver |-> source[k].ver + 1]
  BY <1>1 DEF TypeInv, TypeOK
<1>4. CASE k \in Items
  <2>1. original' = [original EXCEPT ![k] = [at |-> clock', ver |-> @.ver + 1]]
    BY <1>2, <1>3, <1>4 DEF original, Items
  <2> QED BY <1>1, <1>4, <2>1 DEF Landing!Change, original, rows
<1>5. CASE k \notin Items
  <2>1. original' = original
    BY <1>2, <1>5 DEF original, Items
  <2> QED BY <1>1, <2>1 DEF Landing!Change, original, rows
<1> QED BY <1>4, <1>5

\* Nothing else is seen.
LEMMA RefinesQuiet ==
  ASSUME UNCHANGED <<source, clock, landed, watermark>>
  PROVE  UNCHANGED Landing!rvars
BY DEF Landing!rvars

\* What executors, runs, reaper and API do to the landing table and the watermark looks
\* from outside like a copy that follows the source: for any page sizes, row cap, ties
\* and faults, for one executor at a time and a source that keeps its pages stable.
THEOREM Follows == ASSUME Tame PROVE Spec => LandingFollows
<1>1. Init => SharedInv /\ PipelineInv /\ FollowInv
  BY SharedInit, PipelineInit, FollowInit
<1>2. TypeInv /\ SharedInv /\ PipelineInv /\ FollowInv /\ [Next]_vars
        => SharedInv' /\ PipelineInv' /\ FollowInv'
  BY SharedStep, PipelineStep, FollowStep DEF Tame
<1>3. TypeInv /\ SharedInv /\ PipelineInv /\ FollowInv /\ [Next]_vars
        => [Landing!RNext]_(Landing!rvars)
  <2> SUFFICES ASSUME TypeInv, SharedInv, PipelineInv, FollowInv, [Next]_vars
               PROVE  Landing!RNext \/ UNCHANGED Landing!rvars
    OBVIOUS
  <2>1. TypeInv' /\ NothingLost'
    BY TypeStep, PipelineStep DEF PipelineInv
  <2>2. ASSUME NEW e \in Executors, ApplyPage(e) PROVE Landing!RNext
    BY <2>2, RefinesApply DEF Landing!RNext
  <2>3. ASSUME NEW e \in Executors, FinishRun(e)
        PROVE  Landing!RNext \/ UNCHANGED Landing!rvars
    BY <2>1, <2>3, WatermarkForward, RefinesFinish DEF Landing!RNext
  <2>4. ASSUME NEW k \in Keys, NEW c \in 1 .. MaxClock, SourceChange(k, c)
        PROVE  Landing!RNext
    BY <2>4, RefinesSource DEF Landing!RNext
  <2>5. ASSUME [Next]_vars, \A e \in Executors : ~ApplyPage(e) /\ ~FinishRun(e),
               \A k \in Keys, c \in 1 .. MaxClock : ~SourceChange(k, c)
        PROVE  UNCHANGED <<source, clock, landed, watermark>>
    BY <2>5 DEF Next, Execute, CreatePendingRun, Claim, ReapStaleRunning, DeleteRun,
       Forget, LoadContext, BootstrapCursor, FetchPage, Fail, FinalizeFailed, Crash,
       ClaimGone, rows, environment, vars
  <2> QED BY <2>2, <2>3, <2>4, <2>5, RefinesQuiet
<1> QED BY <1>1, <1>2, <1>3, TypesHold, RefinesInit, PTL
        DEF Spec, LandingFollows, Landing!RSpec
=============================================================================
