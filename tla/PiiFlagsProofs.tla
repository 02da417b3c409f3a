--------------------------- MODULE PiiFlagsProofs ---------------------------
(***************************************************************************)
(* The safety properties of PiiFlags, for any columns, categories, fields  *)
(* and flags, and every kind of deployment.                                *)
(***************************************************************************)
EXTENDS PiiFlags, TLAPS

\* An id a transaction inserts under belonged to no row it read.
InsertsNew ==
  \A t \in Tier : txn[t].pc # "idle" =>
    \A p \in FlagPrint : txn[t].new[p] # NoFlag => txn[t].seen[txn[t].new[p]].status = "absent"

\* Where transactions do not overlap, at most one is open.
OneScan == ~overlap => \A t, u \in Tier : txn[t].pc # "idle" /\ txn[u].pc # "idle" => t = u

\* What the profiler withholds is, until it commits, every field that its own writes
\* leave with an active flag.
WithheldCurrent ==
  ~overlap /\ txn["profile"].pc = "withheld"
    => txn["profile"].withheld = ActiveFields(Reconciled("profile"))

FlagsInv == FlagsTypeOK /\ InsertsNew /\ OneScan /\ WithheldCurrent /\ FlaggedNotExposed

-----------------------------------------------------------------------------
(* Lemmas about the operators.                                             *)

\* The row that stands for an absent flag, and the scan that stands for none, are of
\* the types of the rows and of the scans.
LEMMA ConstantsTyped == NoFlagRow \in Flag /\ NoScan \in Scan /\ NoScan.pc = "idle"
<1>1. FlagPrint # {}
  <2>1. PICK n \in Names, c \in Categories : TRUE
    BY FlagsConstantsOK
  <2>2. <<n, c>> \in FlagPrint
    BY DEF FlagPrint
  <2>3. QED
    BY <2>2
<1>2. (CHOOSE p \in FlagPrint : TRUE) \in FlagPrint
  BY <1>1
<1>3. NoFlagRow \in Flag
  BY <1>2 DEF NoFlagRow, Flag, FlagStatus, Tier
<1>4. NoScan \in Scan /\ NoScan.pc = "idle"
  BY <1>3 DEF NoScan, Scan
<1>5. QED
  BY <1>3, <1>4

\* The fields of a running scan are typed.
LEMMA ScanTyped ==
  ASSUME FlagsTypeOK, NEW t \in Tier
  PROVE  /\ txn[t] \in Scan
         /\ txn[t].pc \in {"idle", "read", "withheld"}
         /\ txn[t].fresh \in SUBSET FlagPrint
         /\ txn[t].map \in [Names -> Fields \cup {NoField}]
         /\ txn[t].seen \in [Flags -> Flag]
         /\ txn[t].kept \in SUBSET Flags
         /\ txn[t].new \in [FlagPrint -> Flags \cup {NoFlag}]
         /\ txn[t].withheld \in SUBSET Fields
<1>1. txn[t] \in Scan
  BY DEF FlagsTypeOK
<1>2. QED
  BY <1>1 DEF Scan

\* The fields of a flag row are typed.
LEMMA FlagTyped ==
  ASSUME FlagsTypeOK, NEW g \in Flags
  PROVE  /\ flag[g] \in Flag
         /\ flag[g].print \in FlagPrint
         /\ flag[g].status \in FlagStatus
         /\ flag[g].tier \in Tier
         /\ flag[g].field \in Fields \cup {NoField}
<1>1. flag[g] \in Flag
  BY DEF FlagsTypeOK
<1>2. QED
  BY <1>1 DEF Flag

\* A flag that is read as decided, or that is not a row, is left as it is.
LEMMA VerdictOfDecided ==
  ASSUME NEW t \in Tier, NEW g \in Flags, txn[t].seen[g].status \in Decided
  PROVE  Updated(t, g) = flag[g]
<1>1. FlagVerdict(t, g) = "keep"
  BY DEF FlagVerdict, Decided
<1>2. QED
  BY <1>1 DEF Updated

\* Reconciling a flag has one of five outcomes.
LEMMA VerdictRange ==
  ASSUME NEW t, NEW g
  PROVE  FlagVerdict(t, g) \in {"keep", "revive", "upgrade", "rebind", "stale"}
BY DEF FlagVerdict

\* An UPDATE sets the status only to flagged or stale, and leaves a typed row.
LEMMA UpdatedTyped ==
  ASSUME FlagsTypeOK, NEW t \in Tier, NEW g \in Flags
  PROVE  /\ Updated(t, g) \in Flag
         /\ Updated(t, g).status = "stale" =>
              flag[g].status = "stale" \/ FlagVerdict(t, g) = "stale"
<1> DEFINE f == txn[t].map[txn[t].seen[g].print[1]]
<1>1. f \in Fields \cup {NoField}
  <2>1. txn[t].seen[g] \in Flag
    BY ScanTyped
  <2>2. txn[t].seen[g].print[1] \in Names
    BY <2>1 DEF Flag, FlagPrint
  <2>3. QED
    BY <2>2, ScanTyped
<1> HIDE DEF f
<1>2. flag[g] \in Flag
  BY FlagTyped
<1>3. CASE flag[g].status = "absent" \/ FlagVerdict(t, g) = "keep"
  BY <1>2, <1>3 DEF Updated
<1>4. CASE flag[g].status # "absent" /\ FlagVerdict(t, g) = "revive"
  <2>1. Updated(t, g) = [flag[g] EXCEPT !.status = "flagged", !.tier = t, !.field = f]
    BY <1>4 DEF Updated, f
  <2>2. QED
    BY <2>1, <1>1, <1>2 DEF Flag, FlagStatus
<1>5. CASE flag[g].status # "absent" /\ FlagVerdict(t, g) = "upgrade"
  <2>1. Updated(t, g) = [flag[g] EXCEPT !.tier = t, !.field = f]
    BY <1>5 DEF Updated, f
  <2>2. QED
    BY <2>1, <1>1, <1>2 DEF Flag, FlagStatus
<1>6. CASE flag[g].status # "absent" /\ FlagVerdict(t, g) = "rebind"
  <2>1. Updated(t, g) = [flag[g] EXCEPT !.field = f]
    BY <1>6 DEF Updated, f
  <2>2. QED
    BY <2>1, <1>1, <1>2 DEF Flag, FlagStatus
<1>7. CASE flag[g].status # "absent" /\ FlagVerdict(t, g) = "stale"
  <2>1. Updated(t, g) = [flag[g] EXCEPT !.status = "stale"]
    BY <1>7 DEF Updated
  <2>2. QED
    BY <2>1, <1>2, <1>7 DEF Flag, FlagStatus
<1>8. QED
  BY <1>3, <1>4, <1>5, <1>6, <1>7, VerdictRange

\* A row that a scan inserts is typed.
LEMMA FreshTyped ==
  ASSUME FlagsTypeOK, NEW t \in Tier, NEW g \in Inserted(t)
  PROVE  Fresh(t, g) \in Flag
<1> DEFINE p == CHOOSE q \in FlagPrint : txn[t].new[q] = g
<1>1. \E q \in FlagPrint : txn[t].new[q] = g
  BY DEF Inserted
<1>2. p \in FlagPrint
  BY <1>1
<1> HIDE DEF p
<1>3. txn[t].map[p[1]] \in Fields \cup {NoField}
  BY <1>2, ScanTyped DEF FlagPrint
<1>4. Fresh(t, g) = [print |-> p, status |-> "flagged", tier |-> t, field |-> txn[t].map[p[1]]]
  BY DEF Fresh, p
<1>5. QED
  BY <1>2, <1>3, <1>4 DEF Flag, FlagStatus

\* So are the rows after a reconciliation, inserted or updated.
LEMMA ReconciledTyped ==
  ASSUME FlagsTypeOK, NEW t \in Tier
  PROVE  Reconciled(t) \in [Flags -> Flag]
<1>1. ASSUME NEW g \in Flags
      PROVE  (IF g \in Inserted(t) THEN Fresh(t, g) ELSE Updated(t, g)) \in Flag
  BY FreshTyped, UpdatedTyped
<1>2. QED
  BY <1>1 DEF Reconciled

\* The fields with an active flag are fields.
LEMMA ActiveFieldsTyped ==
  ASSUME NEW flags \in [Flags -> Flag]
  PROVE  ActiveFields(flags) \in SUBSET Fields
BY DEF ActiveFields, Flag

\* A row the transaction read is one it updates, if it does anything to it.
LEMMA SeenNotInserted ==
  ASSUME FlagsTypeOK, InsertsNew, NEW t \in Tier, NEW g \in Flags,
         txn[t].pc # "idle", txn[t].seen[g].status # "absent"
  PROVE  Reconciled(t)[g] = Updated(t, g)
<1>1. g \notin Inserted(t)
  <2>1. SUFFICES ASSUME NEW p \in FlagPrint, txn[t].new[p] = g, g # NoFlag PROVE FALSE
    BY DEF Inserted
  <2>2. QED
    BY <2>1 DEF InsertsNew
<1>2. QED
  BY <1>1 DEF Reconciled

\* What a transaction makes of the flags depends on them and on what it read.
LEMMA ReconciledStays ==
  ASSUME NEW t \in Tier, UNCHANGED flag,
         txn'[t].fresh = txn[t].fresh, txn'[t].map = txn[t].map, txn'[t].seen = txn[t].seen,
         txn'[t].kept = txn[t].kept, txn'[t].new = txn[t].new
  PROVE  Reconciled(t)' = Reconciled(t)
<1>1. ASSUME NEW g \in Flags PROVE FlagVerdict(t, g)' = FlagVerdict(t, g)
  BY DEF FlagVerdict
<1>2. ASSUME NEW g \in Flags PROVE Updated(t, g)' = Updated(t, g)
  <2>1. /\ FlagVerdict(t, g)' = FlagVerdict(t, g)
        /\ txn'[t].map[txn'[t].seen[g].print[1]] = txn[t].map[txn[t].seen[g].print[1]]
    BY <1>1
  <2>2. FlagVerdict(t, g) \in {"keep", "revive", "upgrade", "rebind", "stale"}
    BY VerdictRange
  <2>3. QED
    BY <2>1, <2>2 DEF Updated
<1>3. Inserted(t)' = Inserted(t)
  BY DEF Inserted
<1>4. ASSUME NEW g \in Flags PROVE Fresh(t, g)' = Fresh(t, g)
  BY DEF Fresh
<1>5. QED
  BY <1>2, <1>3, <1>4 DEF Reconciled

\* Where every field with an active flag is out of the values at rest, no active flag is
\* exposed.
LEMMA SweptNotExposed ==
  ASSUME NEW flags \in [Flags -> Flag], NEW vals \in SUBSET Fields,
         vals \cap ActiveFields(flags) = {},
         NEW g \in Flags, flags[g].status \in ActiveStatus
  PROVE  flags[g].field \notin vals
<1>1. NoField \notin vals
  BY FlagsConstantsOK
<1>2. flags[g].field # NoField => flags[g].field \in ActiveFields(flags)
  BY DEF ActiveFields
<1>3. QED
  BY <1>1, <1>2

-----------------------------------------------------------------------------
(* The invariant holds at the start, and every step keeps it.              *)

\* With no flag and no scan, the invariant holds.
LEMMA FlagsStart == FlagsInit => FlagsInv
<1> SUFFICES ASSUME FlagsInit PROVE FlagsInv
  OBVIOUS
<1>1. FlagsTypeOK
  BY ConstantsTyped DEF FlagsInit, FlagsTypeOK
<1>2. \A t \in Tier : txn[t].pc = "idle"
  BY ConstantsTyped DEF FlagsInit
<1>3. InsertsNew /\ OneScan
  BY <1>2 DEF InsertsNew, OneScan
<1>4. WithheldCurrent
  BY <1>2 DEF WithheldCurrent, Tier
<1>5. FlaggedNotExposed
  BY DEF FlagsInit, FlaggedNotExposed, Exposed
<1>6. QED
  BY <1>1, <1>3, <1>4, <1>5 DEF FlagsInv

\* Nothing that the transactions hold changes.
LEMMA TxnKept ==
  ASSUME FlagsInv, UNCHANGED <<txn, overlap>>, UNCHANGED flag \/ ScansQuiet
  PROVE  InsertsNew' /\ OneScan' /\ WithheldCurrent'
<1>1. InsertsNew'
  BY DEF FlagsInv, InsertsNew
<1>2. OneScan'
  BY DEF FlagsInv, OneScan
<1>3. WithheldCurrent'
  <2>1. SUFFICES ASSUME ~overlap, txn["profile"].pc = "withheld"
                 PROVE  txn["profile"].withheld = ActiveFields(Reconciled("profile"))'
    BY DEF WithheldCurrent
  <2>2. UNCHANGED flag
    BY <2>1 DEF ScansQuiet, Tier
  <2>3. Reconciled("profile")' = Reconciled("profile")
    BY <2>2, ReconciledStays DEF Tier
  <2>4. ActiveFields(Reconciled("profile")') = ActiveFields(Reconciled("profile"))
    BY <2>3
  <2>5. QED
    BY <2>1, <2>4 DEF FlagsInv, WithheldCurrent, ActiveFields
<1>4. QED
  BY <1>1, <1>2, <1>3

\* A column discovered has no values yet, and keeps the invariant.
LEMMA DiscoverFieldInv ==
  ASSUME FlagsInv, NEW n \in Names, NEW hits \in SUBSET Categories, DiscoverField(n, hits)
  PROVE  FlagsInv'
<1>1. UNCHANGED <<flag, values, txn, overlap, scans>>
  BY DEF DiscoverField
<1>2. field' \in [Fields -> Names \cup {NoName}] /\ rule' \in [Names -> SUBSET Categories]
  BY DEF FlagsInv, FlagsTypeOK, DiscoverField, LiveFields
<1>3. FlagsTypeOK'
  BY <1>1, <1>2 DEF FlagsInv, FlagsTypeOK
<1>4. FlaggedNotExposed'
  BY <1>1 DEF FlagsInv, FlaggedNotExposed, Exposed
<1>5. QED
  BY <1>1, <1>3, <1>4, TxnKept DEF FlagsInv

\* A column deleted unbinds its flags and takes its values along.
LEMMA DeleteFieldInv ==
  ASSUME FlagsInv, NEW f \in Fields, DeleteField(f)
  PROVE  FlagsInv'
<1>1. UNCHANGED <<rule, txn, overlap, scans>> /\ ScansQuiet
  BY DEF DeleteField
<1>2. \A g \in Flags : /\ flag'[g] \in Flag /\ flag'[g].status = flag[g].status
                       /\ flag'[g].field \in {flag[g].field, NoField} \ {f}
  <2>1. SUFFICES ASSUME NEW g \in Flags
                 PROVE  /\ flag'[g] \in Flag /\ flag'[g].status = flag[g].status
                        /\ flag'[g].field \in {flag[g].field, NoField} \ {f}
    OBVIOUS
  <2>2. flag[g] \in Flag /\ f # NoField
    BY FlagTyped, FlagsConstantsOK DEF FlagsInv
  <2>3. flag'[g] = IF flag[g].field = f THEN [flag[g] EXCEPT !.field = NoField] ELSE flag[g]
    BY DEF DeleteField
  <2>4. QED
    BY <2>2, <2>3 DEF Flag
<1>3. FlagsTypeOK'
  <2>1. flag' \in [Flags -> Flag]
    BY <1>2 DEF DeleteField
  <2>2. QED
    BY <1>1, <2>1 DEF FlagsInv, FlagsTypeOK, DeleteField
<1>4. FlaggedNotExposed'
  <2>1. values' = values \ {f} /\ NoField \notin values
    BY FlagsConstantsOK DEF DeleteField, FlagsInv, FlagsTypeOK
  <2>2. QED
    BY <1>1, <1>2, <2>1 DEF FlagsInv, FlaggedNotExposed, Exposed
<1>5. QED
  BY <1>1, <1>3, <1>4, TxnKept DEF FlagsInv

\* A steward's decision, on a flag that no scan has locked, keeps the invariant.
LEMMA DecideInv ==
  ASSUME FlagsInv, NEW g \in Flags, NEW status \in Decided, Decide(g, status)
  PROVE  FlagsInv'
<1>1. UNCHANGED <<field, rule, values, txn, overlap>> /\ ScansQuiet /\ scans' \in Nat
  BY DEF Decide, ScanMove, FlagsInv, FlagsTypeOK
<1>2. flag[g] \in Flag
  BY FlagTyped DEF FlagsInv
<1>3. [flag[g] EXCEPT !.status = status] \in Flag
  BY <1>2 DEF Flag, FlagStatus, Decided
<1>4. flag' = [flag EXCEPT ![g] = [flag[g] EXCEPT !.status = status]]
  BY DEF Decide
<1>5. /\ flag' \in [Flags -> Flag]
      /\ \A h \in Flags : flag'[h].status = "flagged" => flag'[h] = flag[h]
  BY <1>2, <1>3, <1>4 DEF FlagsInv, FlagsTypeOK, Flag, Decided
<1>6. FlagsTypeOK'
  BY <1>1, <1>5 DEF FlagsInv, FlagsTypeOK
<1>7. FlaggedNotExposed'
  BY <1>1, <1>5 DEF FlagsInv, FlaggedNotExposed, Exposed
<1>8. QED
  BY <1>1, <1>6, <1>7, TxnKept DEF FlagsInv

\* The read of a scan, which finds the columns and the flags, keeps the invariant.
LEMMA ReadInv ==
  ASSUME FlagsInv, NEW t \in Tier, Read(t)
  PROVE  FlagsInv'
<1>1. UNCHANGED <<field, rule, flag, values, overlap>> /\ scans' \in Nat
  BY DEF Read, ScanMove, FlagsInv, FlagsTypeOK
<1>2. PICK m \in FieldMaps, kept \in OnePerFingerprint, fresh \in SUBSET FlagPrint :
        \E new \in Insertions(fresh \ {flag[g].print : g \in PresentFlags}) :
          txn' = [txn EXCEPT ![t] = [pc |-> "read", fresh |-> fresh, map |-> m, seen |-> flag,
                                     kept |-> kept, new |-> new, withheld |-> {}]]
  <2>1. ASSUME NEW m \in FieldMaps
        PROVE  LET columns == {n \in Names : m[n] # NoField} IN
               (IF t = "schema" THEN {{p \in FlagPrint : p[1] \in columns /\ p[2] \in rule[p[1]]}}
                                ELSE SUBSET (columns \X Categories)) \subseteq SUBSET FlagPrint
    BY DEF FlagPrint
  <2>2. QED
    BY <2>1 DEF Read
<1>3. PICK new \in Insertions(fresh \ {flag[g].print : g \in PresentFlags}) :
        txn' = [txn EXCEPT ![t] = [pc |-> "read", fresh |-> fresh, map |-> m, seen |-> flag,
                                   kept |-> kept, new |-> new, withheld |-> {}]]
  BY <1>2
<1> DEFINE x == [pc |-> "read", fresh |-> fresh, map |-> m, seen |-> flag,
                 kept |-> kept, new |-> new, withheld |-> {}]
<1>4. new \in [FlagPrint -> Flags \cup {NoFlag}]
  BY DEF Insertions
<1>5. \A p \in FlagPrint : new[p] # NoFlag => new[p] \in Flags \ PresentFlags
  BY DEF Insertions
<1>6. m \in [Names -> Fields \cup {NoField}] /\ kept \in SUBSET Flags
  BY DEF FieldMaps, LiveFields, OnePerFingerprint, PresentFlags
<1>7. x \in Scan
  BY <1>4, <1>6 DEF Scan, FlagsInv, FlagsTypeOK
<1>8. /\ x.pc = "read" /\ x.seen = flag /\ x.new = new
  OBVIOUS
<1>9. txn' = [txn EXCEPT ![t] = x] /\ txn \in [Tier -> Scan]
  BY <1>3 DEF FlagsInv, FlagsTypeOK
<1> HIDE DEF x
<1>10. /\ txn' \in [Tier -> Scan] /\ txn'[t] = x
       /\ \A u \in Tier : u # t => txn'[u] = txn[u]
  BY <1>7, <1>9
<1>11. FlagsTypeOK'
  BY <1>1, <1>10 DEF FlagsInv, FlagsTypeOK
<1>12. InsertsNew'
  <2>1. ASSUME NEW p \in FlagPrint, new[p] # NoFlag PROVE flag[new[p]].status = "absent"
    BY <2>1, <1>5 DEF PresentFlags
  <2>2. SUFFICES ASSUME NEW u \in Tier, txn'[u].pc # "idle",
                        NEW p \in FlagPrint, txn'[u].new[p] # NoFlag
                 PROVE  txn'[u].seen[txn'[u].new[p]].status = "absent"
    BY DEF InsertsNew
  <2>3. CASE u = t
    BY <2>1, <2>2, <2>3, <1>8, <1>10
  <2>4. CASE u # t
    BY <2>2, <2>4, <1>10 DEF FlagsInv, InsertsNew
  <2>5. QED
    BY <2>3, <2>4
<1>13. ~overlap => \A u \in Tier \ {t} : txn[u].pc = "idle"
  BY DEF Read, Alone
<1>14. OneScan'
  BY <1>1, <1>10, <1>13 DEF OneScan
<1>15. WithheldCurrent'
  <2>1. SUFFICES ASSUME ~overlap, txn'["profile"].pc = "withheld" PROVE FALSE
    BY <1>1 DEF WithheldCurrent
  <2>2. "profile" \in Tier
    BY DEF Tier
  <2>3. QED
    BY <2>1, <2>2, <1>8, <1>10, <1>13
<1>16. FlaggedNotExposed'
  BY <1>1 DEF FlagsInv, FlaggedNotExposed, Exposed
<1>17. QED
  BY <1>11, <1>12, <1>14, <1>15, <1>16 DEF FlagsInv

\* A transaction ends: the others are as they were.
LEMMA ScanEnds ==
  ASSUME FlagsInv, NEW t \in Tier, txn' = [txn EXCEPT ![t] = NoScan], UNCHANGED overlap,
         txn[t].pc # "idle"
  PROVE  /\ txn' \in [Tier -> Scan]
         /\ InsertsNew' /\ OneScan' /\ WithheldCurrent'
<1>1. /\ txn' \in [Tier -> Scan] /\ txn'[t].pc = "idle"
      /\ \A u \in Tier : u # t => txn'[u] = txn[u]
  BY ConstantsTyped DEF FlagsInv, FlagsTypeOK
<1>2. InsertsNew'
  BY <1>1 DEF FlagsInv, InsertsNew
<1>3. OneScan'
  BY <1>1 DEF FlagsInv, OneScan
<1>4. WithheldCurrent'
  <2>1. SUFFICES ASSUME ~overlap, txn'["profile"].pc = "withheld" PROVE FALSE
    BY DEF WithheldCurrent
  <2>2. "profile" \in Tier
    BY DEF Tier
  <2>3. "profile" # t /\ txn["profile"].pc = "withheld"
    BY <2>1, <2>2, <1>1
  <2>4. QED
    BY <2>1, <2>2, <2>3 DEF FlagsInv, OneScan
<1>5. QED
  BY <1>1, <1>2, <1>3, <1>4

\* A scan that fails leaves what is stored as it was.
LEMMA RollbackInv ==
  ASSUME FlagsInv, NEW t \in Tier, Rollback(t)
  PROVE  FlagsInv'
<1>1. UNCHANGED <<field, rule, flag, values, overlap, scans>>
  BY DEF Rollback
<1>2. txn' \in [Tier -> Scan] /\ InsertsNew' /\ OneScan' /\ WithheldCurrent'
  BY ScanEnds DEF Rollback
<1>3. FlagsTypeOK' /\ FlaggedNotExposed'
  BY <1>1, <1>2 DEF FlagsInv, FlagsTypeOK, FlaggedNotExposed, Exposed
<1>4. QED
  BY <1>2, <1>3 DEF FlagsInv

\* The profiler withholds the values of the columns that its reconciliation flags.
LEMMA WithholdInv ==
  ASSUME FlagsInv, Withhold
  PROVE  FlagsInv'
<1> DEFINE W == Withholding("profile", Reconciled("profile"))
<1>1. UNCHANGED <<field, rule, flag, values, overlap, scans>>
  BY DEF Withhold
<1>2. "profile" \in Tier
  BY DEF Tier
<1>3. W = ActiveFields(Reconciled("profile")) /\ W \in SUBSET Fields
  BY <1>2, ReconciledTyped, ActiveFieldsTyped DEF FlagsInv, Withholding
<1>4. txn \in [Tier -> Scan] /\ txn["profile"].pc = "read"
  BY DEF FlagsInv, FlagsTypeOK, Withhold
<1>5. txn' = [txn EXCEPT !["profile"] = [txn["profile"] EXCEPT !.pc = "withheld", !.withheld = W]]
  BY <1>2, <1>4 DEF Withhold
<1> HIDE DEF W
<1>6. /\ txn' \in [Tier -> Scan]
      /\ \A u \in Tier : u # "profile" => txn'[u] = txn[u]
      /\ txn'["profile"].pc = "withheld" /\ txn'["profile"].withheld = W
      /\ txn'["profile"].fresh = txn["profile"].fresh /\ txn'["profile"].map = txn["profile"].map
      /\ txn'["profile"].seen = txn["profile"].seen /\ txn'["profile"].kept = txn["profile"].kept
      /\ txn'["profile"].new = txn["profile"].new
  <2>1. txn["profile"] \in Scan
    BY <1>2, <1>4
  <2>2. [txn["profile"] EXCEPT !.pc = "withheld", !.withheld = W] \in Scan
    BY <2>1, <1>3 DEF Scan
  <2>3. QED
    BY <2>1, <2>2, <1>2, <1>4, <1>5 DEF Scan
<1>7. FlagsTypeOK' /\ FlaggedNotExposed'
  BY <1>1, <1>6 DEF FlagsInv, FlagsTypeOK, FlaggedNotExposed, Exposed
<1>8. InsertsNew'
  <2>1. SUFFICES ASSUME NEW u \in Tier, txn'[u].pc # "idle",
                        NEW p \in FlagPrint, txn'[u].new[p] # NoFlag
                 PROVE  txn'[u].seen[txn'[u].new[p]].status = "absent"
    BY DEF InsertsNew
  <2>2. txn'[u].new = txn[u].new /\ txn'[u].seen = txn[u].seen /\ txn[u].pc # "idle"
    BY <2>1, <1>4, <1>6
  <2>3. QED
    BY <2>1, <2>2 DEF FlagsInv, InsertsNew
<1>9. OneScan'
  BY <1>1, <1>2, <1>4, <1>6 DEF FlagsInv, OneScan
<1>10. WithheldCurrent'
  <2>1. Reconciled("profile")' = Reconciled("profile")
    BY <1>1, <1>2, <1>6, ReconciledStays
  <2>2. ActiveFields(Reconciled("profile")') = W
    BY <2>1, <1>3
  <2>3. QED
    BY <2>2, <1>6 DEF WithheldCurrent, ActiveFields
<1>11. QED
  BY <1>7, <1>8, <1>9, <1>10 DEF FlagsInv

\* The sweep of a schema scan, whatever overlapped it.
LEMMA CommitScanSweeps ==
  ASSUME FlagsTypeOK, CommitScan
  PROVE  /\ FlagsTypeOK'
         /\ values' \cap ActiveFields(flag') = {}
<1>1. "schema" \in Tier
  BY DEF Tier
<1>2. /\ flag' = Reconciled("schema") /\ values' = values \ ActiveFields(flag')
      /\ txn' = [txn EXCEPT !["schema"] = NoScan]
      /\ UNCHANGED <<field, rule, overlap, scans>>
  BY DEF CommitScan, Swept
<1>3. flag' \in [Flags -> Flag] /\ txn' \in [Tier -> Scan] /\ values' \in SUBSET Fields
  BY <1>1, <1>2, ReconciledTyped, ConstantsTyped DEF FlagsTypeOK
<1>4. QED
  BY <1>2, <1>3 DEF FlagsTypeOK

\* The commit of a schema scan sweeps the values of the columns it flags.
LEMMA CommitScanInv ==
  ASSUME FlagsInv, CommitScan
  PROVE  FlagsInv'
<1>1. "schema" \in Tier
  BY DEF Tier
<1>2. FlagsTypeOK' /\ values' \cap ActiveFields(flag') = {}
  BY CommitScanSweeps DEF FlagsInv
<1>3. InsertsNew' /\ OneScan' /\ WithheldCurrent'
  BY <1>1, ScanEnds DEF CommitScan
<1>4. FlaggedNotExposed'
  BY <1>2, SweptNotExposed DEF FlagsTypeOK, FlaggedNotExposed, Exposed, ActiveStatus
<1>5. QED
  BY <1>2, <1>3, <1>4 DEF FlagsInv

\* The commit of a profile stores values of none of the columns it withheld.
LEMMA CommitProfileInv ==
  ASSUME FlagsInv, CommitProfile
  PROVE  FlagsInv'
<1> DEFINE x        == txn["profile"]
           profiled == {x.map[n] : n \in Names} \ {NoField}
<1>1. "profile" \in Tier
  BY DEF Tier
<1>2. /\ flag' = Reconciled("profile")
      /\ values' = (values \ (x.withheld \cup profiled)) \cup (profiled \ x.withheld)
      /\ txn' = [txn EXCEPT !["profile"] = NoScan] /\ x.pc = "withheld"
      /\ UNCHANGED <<field, rule, overlap, scans>>
  BY DEF CommitProfile
<1>3. profiled \in SUBSET Fields
  BY <1>1, ScanTyped DEF FlagsInv
<1> HIDE DEF profiled
<1>4. flag' \in [Flags -> Flag]
  BY <1>1, <1>2, ReconciledTyped DEF FlagsInv
<1>5. values' \in SUBSET Fields /\ values' \cap x.withheld = {}
  BY <1>2, <1>3 DEF FlagsInv, FlagsTypeOK
<1>6. txn' \in [Tier -> Scan] /\ InsertsNew' /\ OneScan' /\ WithheldCurrent'
  BY <1>1, <1>2, ScanEnds
<1>7. FlagsTypeOK'
  BY <1>2, <1>4, <1>5, <1>6 DEF FlagsInv, FlagsTypeOK
<1>8. FlaggedNotExposed'
  <2>1. SUFFICES ASSUME ~overlap, NEW g \in Flags, flag'[g].status = "flagged"
                 PROVE  flag'[g].field \notin values'
    BY <1>2 DEF FlaggedNotExposed, Exposed
  <2>2. x.withheld = ActiveFields(flag')
    BY <2>1, <1>2 DEF FlagsInv, WithheldCurrent
  <2>3. QED
    BY <2>1, <2>2, <1>4, <1>5, SweptNotExposed DEF ActiveStatus
<1>9. QED
  BY <1>6, <1>7, <1>8 DEF FlagsInv

\* Every step of the watchdog, the profiler and the stewards keeps the invariant.
LEMMA FlagsStep == FlagsInv /\ [FlagsNext]_flagVars => FlagsInv'
<1> SUFFICES ASSUME FlagsInv, [FlagsNext]_flagVars PROVE FlagsInv'
  OBVIOUS
<1>1. ASSUME NEW n \in Names, NEW hits \in SUBSET Categories, DiscoverField(n, hits) PROVE FlagsInv'
  BY <1>1, DiscoverFieldInv
<1>2. ASSUME NEW f \in Fields, DeleteField(f) PROVE FlagsInv'
  BY <1>2, DeleteFieldInv
<1>3. ASSUME NEW t \in Tier, Read(t) PROVE FlagsInv'
  BY <1>3, ReadInv
<1>4. ASSUME NEW t \in Tier, Rollback(t) PROVE FlagsInv'
  BY <1>4, RollbackInv
<1>5. CASE Withhold
  BY <1>5, WithholdInv
<1>6. CASE CommitScan
  BY <1>6, CommitScanInv
<1>7. CASE CommitProfile
  BY <1>7, CommitProfileInv
<1>8. ASSUME NEW g \in Flags, ConfirmFlag(g) \/ DismissFlag(g) PROVE FlagsInv'
  BY <1>8, DecideInv DEF ConfirmFlag, DismissFlag, Decided
<1>9. CASE UNCHANGED flagVars
  <2>1. UNCHANGED <<field, rule, flag, values, txn, overlap, scans>>
    BY <1>9 DEF flagVars
  <2>2. FlagsTypeOK' /\ FlaggedNotExposed'
    BY <2>1 DEF FlagsInv, FlagsTypeOK, FlaggedNotExposed, Exposed
  <2>3. QED
    BY <2>1, <2>2, TxnKept DEF FlagsInv
<1>10. QED
  BY <1>1, <1>2, <1>3, <1>4, <1>5, <1>6, <1>7, <1>8, <1>9 DEF FlagsNext

\* The invariant of the flags holds in every reachable state.
THEOREM FlagsInvariant == FlagsSpec => []FlagsInv
BY FlagsStart, FlagsStep, PTL DEF FlagsSpec

-----------------------------------------------------------------------------
(* The theorems.                                                           *)

\* Every variable has its type: flags refer to fields, and values are those of fields.
THEOREM FlagsTyped == FlagsSpec => []FlagsTypeOK
BY FlagsInvariant, PTL DEF FlagsInv

\* The zero leak window, where transactions come one at a time: reconcile_flags_for_dataset
\* and profile_source leave no raw values on a field with a flag that a scan raised.
THEOREM NoLeakWindow == FlagsSpec => []FlaggedNotExposed
BY FlagsInvariant, PTL DEF FlagsInv

\* The retro-scrub of scan_pii_for_source closes every exposure, whatever overlapped it.
THEOREM SweepCloses == FlagsSpec => ScanCloses
<1>1. FlagsInv /\ [FlagsNext]_flagVars =>
        [CommitScan => Exposed("flagged")' \cup Exposed("confirmed")' = {}]_flagVars
  <2>1. SUFFICES ASSUME FlagsInv, CommitScan
                 PROVE  \A g \in Flags : flag'[g].status \in ActiveStatus
                                           => flag'[g].field \notin values'
    BY DEF Exposed, ActiveStatus
  <2>2. FlagsTypeOK' /\ values' \cap ActiveFields(flag') = {}
    BY <2>1, CommitScanSweeps DEF FlagsInv
  <2>3. QED
    BY <2>2, SweptNotExposed DEF FlagsTypeOK
<1>2. QED
  BY <1>1, FlagsInvariant, PTL DEF FlagsSpec, ScanCloses

\* Decisions are sticky: whatever a scan or a profile detects, it leaves a flag that it
\* read as confirmed or dismissed as that is.
THEOREM DecisionsAreSticky == FlagsSpec => SeenDecisionsStick
<1> DEFINE A == \A g \in Flags, t \in Tier :
                  txn[t].pc # "idle" /\ txn'[t].pc = "idle" /\ txn[t].seen[g].status \in Decided
                    => flag'[g] = flag[g]
<1>1. FlagsInv /\ [FlagsNext]_flagVars => [A]_flagVars
  <2>1. SUFFICES ASSUME FlagsInv, FlagsNext, NEW g \in Flags, NEW t \in Tier,
                        txn[t].pc # "idle", txn'[t].pc = "idle",
                        txn[t].seen[g].status \in Decided
                 PROVE  flag'[g] = flag[g]
    OBVIOUS
  <2>2. Reconciled(t)[g] = flag[g]
    BY <2>1, VerdictOfDecided, SeenNotInserted DEF FlagsInv, Decided
  <2>3. txn \in [Tier -> Scan]
    BY <2>1 DEF FlagsInv, FlagsTypeOK
  <2>4. CASE \E n \in Names, hits \in SUBSET Categories : DiscoverField(n, hits)
    BY <2>1, <2>4 DEF DiscoverField
  <2>5. CASE \E f \in Fields : DeleteField(f)
    BY <2>1, <2>5 DEF DeleteField
  <2>6. CASE \E u \in Tier : Read(u) \/ Rollback(u)
    BY <2>6 DEF Read, Rollback
  <2>7. CASE Withhold
    BY <2>7 DEF Withhold
  <2>8. CASE CommitScan
    <3>1. t = "schema"
      BY <2>1, <2>3, <2>8 DEF CommitScan
    <3>2. QED
      BY <3>1, <2>2, <2>8 DEF CommitScan
  <2>9. CASE CommitProfile
    <3>1. t = "profile"
      BY <2>1, <2>3, <2>9 DEF CommitProfile
    <3>2. QED
      BY <3>1, <2>2, <2>9 DEF CommitProfile
  <2>10. CASE \E h \in Flags : ConfirmFlag(h) \/ DismissFlag(h)
    BY <2>1, <2>10 DEF ConfirmFlag, DismissFlag, Decide
  <2>11. QED
    BY <2>1, <2>4, <2>5, <2>6, <2>7, <2>8, <2>9, <2>10 DEF FlagsNext
<1>2. QED
  BY <1>1, FlagsInvariant, PTL DEF FlagsSpec, SeenDecisionsStick

\* The ratchet of the two tiers: a schema scan does not take back what sampled values
\* raised, while the field is there.
THEOREM RatchetHolds == FlagsSpec => Ratchet
<1> DEFINE A == \A g \in Flags :
                  LET r == txn["schema"].seen[g] IN
                  /\ CommitScan
                  /\ r.status = "flagged" /\ r.tier = "profile"
                  /\ r.field # NoField /\ \E n \in Names : txn["schema"].map[n] = r.field
                  => (flag'[g].status = "stale" => flag[g].status = "stale")
<1>1. FlagsInv /\ [FlagsNext]_flagVars => [A]_flagVars
  <2>1. SUFFICES ASSUME FlagsInv, CommitScan, NEW g \in Flags,
                        txn["schema"].seen[g].status = "flagged",
                        txn["schema"].seen[g].tier = "profile",
                        txn["schema"].seen[g].field # NoField,
                        \E n \in Names : txn["schema"].map[n] = txn["schema"].seen[g].field,
                        flag'[g].status = "stale"
                 PROVE  flag[g].status = "stale"
    OBVIOUS
  <2>2. "schema" \in Tier
    BY DEF Tier
  <2>3. flag'[g] = Updated("schema", g)
    BY <2>1, <2>2, SeenNotInserted DEF CommitScan, FlagsInv
  <2>4. FlagVerdict("schema", g) # "stale"
    BY <2>1 DEF FlagVerdict
  <2>5. QED
    BY <2>1, <2>2, <2>3, <2>4, UpdatedTyped DEF FlagsInv
<1>2. QED
  BY <1>1, FlagsInvariant, PTL DEF FlagsSpec, Ratchet

=============================================================================
