------------------------------ MODULE PiiFlags ------------------------------
(***************************************************************************)
(* The PII watchdog of one dataset (app/pii/service.py), the profiler that *)
(* shares its reconciler (app/profiling/service.py) and the discovery that *)
(* feeds both (app/discovery/service.py).                                  *)
(*                                                                         *)
(* A flag says that a field holds personal data of a category.  The name   *)
(* rules (schema tier) and the sampled values (profile tier) each carry a  *)
(* fresh set of candidates into the same reconciler; a steward confirms or *)
(* dismisses.  The raw example values of an active flag's field are to be  *)
(* gone from field_profiles.  Every transaction runs under READ COMMITTED: *)
(* it reads the flags, and updates them by id whatever they are by then.   *)
(***************************************************************************)
EXTENDS Deployment, Naturals, FiniteSets

CONSTANTS
  Names,        \* column names of the dataset
  Categories,   \* PII categories
  Fields,       \* ids of discovered_fields rows
  Flags,        \* ids of pii_flags rows
  NoField,      \* NULL in discovered_field_id
  NoName,       \* "no such row"
  NoFlag,       \* "no row to insert"
  MaxScans      \* bound: transactions and decisions, where they may overlap

ASSUME FlagsConstantsOK ==
  /\ IsFiniteSet(Flags) /\ IsFiniteSet(Fields)
  /\ Names # {} /\ Categories # {}
  /\ NoField \notin Fields /\ NoName \notin Names /\ NoFlag \notin Flags
  /\ MaxScans \in Nat

VARIABLES
  field,     \* discovered_fields: the name of every row
  rule,      \* the categories the name rules see in a column (its name, type, key)
  flag,      \* pii_flags
  values,    \* the fields whose field_profiles row holds raw example values
  txn,       \* the open transaction of each tier
  scans      \* transactions and decisions so far

flagVars == <<field, rule, flag, values, txn, overlap, scans>>

Tier       == {"schema", "profile"}
FlagPrint  == Names \X Categories
FlagStatus == {"absent", "flagged", "confirmed", "dismissed", "stale"}

Flag == [print : FlagPrint, status : FlagStatus, tier : Tier, field : Fields \cup {NoField}]

\* A transaction: what it read (the candidates, a field per name, the flags, and
\* the one it keeps of those with the same fingerprint), the ids of the rows it
\* inserts, and for the profiler the fields whose values it withholds.
Scan == [pc : {"idle", "read", "withheld"}, fresh : SUBSET FlagPrint,
         map : [Names -> Fields \cup {NoField}], seen : [Flags -> Flag],
         kept : SUBSET Flags, new : [FlagPrint -> Flags \cup {NoFlag}],
         withheld : SUBSET Fields]

NoFlagRow == [print |-> CHOOSE p \in FlagPrint : TRUE, status |-> "absent",
              tier |-> "schema", field |-> NoField]

NoScan == [pc |-> "idle", fresh |-> {}, map |-> [n \in Names |-> NoField],
           seen |-> [g \in Flags |-> NoFlagRow], kept |-> {},
           new |-> [p \in FlagPrint |-> NoFlag], withheld |-> {}]

FlagsTypeOK ==
  /\ field \in [Fields -> Names \cup {NoName}]
  /\ rule \in [Names -> SUBSET Categories]
  /\ flag \in [Flags -> Flag]
  /\ values \subseteq Fields
  /\ txn \in [Tier -> Scan]
  /\ overlap \in Overlap
  /\ scans \in Nat

FlagsInit ==
  /\ field = [f \in Fields |-> NoName]
  /\ rule \in [Names -> SUBSET Categories]
  /\ flag = [g \in Flags |-> NoFlagRow]
  /\ values = {}
  /\ txn = [t \in Tier |-> NoScan]
  /\ overlap \in Overlap
  /\ scans = 0

-----------------------------------------------------------------------------
LiveFields   == {f \in Fields : field[f] # NoName}
PresentFlags == {g \in Flags : flag[g].status # "absent"}

ActiveStatus == {"flagged", "confirmed"}
Decided      == {"confirmed", "dismissed"}
ActiveFields(flags) ==
  {flags[g].field : g \in {h \in Flags : flags[h].status \in ActiveStatus}} \ {NoField}

Alone(t)   == overlap \/ \A u \in Tier \ {t} : txn[u].pc = "idle"
ScansQuiet == overlap \/ \A u \in Tier : txn[u].pc = "idle"

ScanMove ==
  /\ overlap => scans < MaxScans
  /\ scans' = IF overlap THEN scans + 1 ELSE scans

\* A field per name: dict() keeps the last of two rows with one name.
FieldMaps == {m \in [Names -> LiveFields \cup {NoField}] :
                \A n \in Names : IF \E f \in LiveFields : field[f] = n
                                   THEN m[n] # NoField /\ field[m[n]] = n
                                   ELSE m[n] = NoField}

\* One row per fingerprint: the last of those the SELECT returns.
OnePerFingerprint == {S \in SUBSET PresentFlags :
                        /\ \A g \in PresentFlags : \E h \in S : flag[h].print = flag[g].print
                        /\ \A g, h \in S : flag[g].print = flag[h].print => g = h}

\* Ids for the rows to insert: one for every candidate that has no row.
Reserved == {txn[t].new[p] : t \in Tier, p \in FlagPrint}
Insertions(missing) ==
  {a \in [FlagPrint -> (Flags \ (PresentFlags \cup Reserved)) \cup {NoFlag}] :
     /\ \A p \in FlagPrint : (a[p] # NoFlag) <=> (p \in missing)
     /\ \A p, q \in missing : a[p] = a[q] => p = q}

-----------------------------------------------------------------------------
(* Seeded faults.  No action uses these: each stands in for the definition *)
(* named, one at a time, to show that a property notices the bug.          *)

\* FlagVerdict that re-flags what a steward dismissed.
FlagVerdictUnsticky(t, g) ==
  LET x == txn[t]
      r == x.seen[g]
  IN IF r.print \in x.fresh /\ r.status \in {"stale", "dismissed"} THEN "revive" ELSE "keep"

\* FlagVerdict without the ratchet: any scan stales any flag it does not see again.
FlagVerdictNoRatchet(t, g) ==
  LET x == txn[t]
      r == x.seen[g]
  IN IF r.print \in x.fresh
       THEN IF r.status = "stale" THEN "revive" ELSE "keep"
       ELSE IF r.status = "flagged" THEN "stale" ELSE "keep"

SweepRedetected(t, flags) == {txn[t].map[p[1]] : p \in txn[t].fresh}     \* Swept
WithholdSeen(t, flags) == ActiveFields(txn[t].seen)                      \* Withholding

-----------------------------------------------------------------------------
(* The reconciler.                                                         *)

\* What becomes of a flag the transaction read, by what it read.
FlagVerdict(t, g) ==
  LET x == txn[t]
      r == x.seen[g]
      f == x.map[r.print[1]]
      fresh == r.print \in x.fresh
      gone  == \A n \in Names : r.field = NoField \/ x.map[n] # r.field
      upgrades == r.tier = "schema" /\ t = "profile"
  IN IF g \notin x.kept \/ r.status \in Decided THEN "keep"
     ELSE CASE fresh /\ r.status = "stale" -> "revive"
            [] fresh /\ r.status = "flagged" /\ upgrades -> "upgrade"
            [] fresh /\ r.status = "flagged" /\ ~upgrades /\ f \notin {NoField, r.field} -> "rebind"
            [] ~fresh /\ r.status = "flagged" /\ (r.tier = t \/ gone) -> "stale"
            [] OTHER -> "keep"

\* The UPDATE by id: it sets its columns in the row as it is now, if there is one.
Updated(t, g) ==
  LET verdict == FlagVerdict(t, g)
      f == txn[t].map[txn[t].seen[g].print[1]]
  IN IF flag[g].status = "absent" THEN flag[g]
     ELSE CASE verdict = "keep"    -> flag[g]
            [] verdict = "revive"  -> [flag[g] EXCEPT !.status = "flagged", !.tier = t, !.field = f]
            [] verdict = "upgrade" -> [flag[g] EXCEPT !.tier = t, !.field = f]
            [] verdict = "rebind"  -> [flag[g] EXCEPT !.field = f]
            [] verdict = "stale"   -> [flag[g] EXCEPT !.status = "stale"]

Inserted(t) == {txn[t].new[p] : p \in FlagPrint} \ {NoFlag}
Fresh(t, g) ==
  LET p == CHOOSE q \in FlagPrint : txn[t].new[q] = g
  IN [print |-> p, status |-> "flagged", tier |-> t, field |-> txn[t].map[p[1]]]

Reconciled(t) == [g \in Flags |-> IF g \in Inserted(t) THEN Fresh(t, g) ELSE Updated(t, g)]

\* The rows a transaction locks, and those it must wait for.
Locks(t) == IF txn[t].pc = "withheld" THEN {g \in Flags : FlagVerdict(t, g) # "keep"} ELSE {}
Waits(t) == \E u \in Tier \ {t} : \E g \in Locks(u) : FlagVerdict(t, g) # "keep"

\* A written reference to a field deleted meanwhile breaks its foreign key.
ForeignKeysHold(t) == \A g \in Flags : Reconciled(t)[g].field \in LiveFields \cup {NoField}

\* The retro-scrub: every field with an active flag, in the state it sees.
Swept(t, flags) == ActiveFields(flags)

-----------------------------------------------------------------------------
(* Discovery and the administrator.                                        *)

\* discover_source upserts a column by its name; its type and key may have changed.
DiscoverField(n, hits) ==
  /\ ScansQuiet
  /\ \/ /\ \E f \in LiveFields : field[f] = n
        /\ UNCHANGED field
     \/ /\ \A f \in LiveFields : field[f] # n
        /\ \E f \in Fields \ LiveFields : field' = [field EXCEPT ![f] = n]
  /\ rule' = [rule EXCEPT ![n] = hits]
  /\ UNCHANGED <<flag, values, txn, overlap, scans>>

\* DELETE of a field: its flags and its profile lose their reference (SET NULL),
\* and no statement that names a field finds that profile again.
DeleteField(f) ==
  /\ f \in LiveFields /\ ScansQuiet
  /\ \A t \in Tier : \A g \in Locks(t) : flag[g].field # f
  /\ field' = [field EXCEPT ![f] = NoName]
  /\ flag' = [g \in Flags |-> IF flag[g].field = f THEN [flag[g] EXCEPT !.field = NoField]
                                                   ELSE flag[g]]
  /\ values' = values \ {f}
  /\ UNCHANGED <<rule, txn, overlap, scans>>

-----------------------------------------------------------------------------
(* The two scans.                                                          *)

\* The SELECTs of fields and flags, and the candidates: for the schema tier what
\* the name rules see, for the profile tier what the sampled values look like.
Read(t) ==
  /\ txn[t].pc = "idle" /\ Alone(t)
  /\ \E m \in FieldMaps, kept \in OnePerFingerprint :
     LET columns == {n \in Names : m[n] # NoField} IN
     \E fresh \in IF t = "schema" THEN {{p \in FlagPrint : p[1] \in columns /\ p[2] \in rule[p[1]]}}
                                  ELSE SUBSET (columns \X Categories) :
     \E new \in Insertions(fresh \ {flag[g].print : g \in PresentFlags}) :
       txn' = [txn EXCEPT ![t] = [pc |-> "read", fresh |-> fresh, map |-> m, seen |-> flag,
                                  kept |-> kept, new |-> new, withheld |-> {}]]
  /\ ScanMove
  /\ UNCHANGED <<field, rule, flag, values, overlap>>

\* The profiler has reconciled and reads the fields with an active flag: what is
\* committed by now, and its own writes.
Withholding(t, flags) == ActiveFields(flags)
Withhold ==
  /\ txn["profile"].pc = "read" /\ ~Waits("profile") /\ ForeignKeysHold("profile")
  /\ txn' = [txn EXCEPT !["profile"].pc = "withheld",
                        !["profile"].withheld = Withholding("profile", Reconciled("profile"))]
  /\ UNCHANGED <<field, rule, flag, values, overlap, scans>>

\* The schema scan: reconcile, sweep and commit.
CommitScan ==
  /\ txn["schema"].pc = "read" /\ ~Waits("schema") /\ ForeignKeysHold("schema")
  /\ flag' = Reconciled("schema")
  /\ values' = values \ Swept("schema", flag')
  /\ txn' = [txn EXCEPT !["schema"] = NoScan]
  /\ UNCHANGED <<field, rule, overlap, scans>>

\* The profiler writes a profile for every field it read, values included unless
\* withheld, and commits.
CommitProfile ==
  LET x        == txn["profile"]
      profiled == {x.map[n] : n \in Names} \ {NoField}
  IN
  /\ x.pc = "withheld" /\ ForeignKeysHold("profile") /\ profiled \subseteq LiveFields
  /\ flag' = Reconciled("profile")
  /\ values' = (values \ (x.withheld \cup profiled)) \cup (profiled \ x.withheld)
  /\ txn' = [txn EXCEPT !["profile"] = NoScan]
  /\ UNCHANGED <<field, rule, overlap, scans>>

\* A failed statement, a missing pepper or a crash: nothing is written.
Rollback(t) ==
  /\ txn[t].pc # "idle"
  /\ txn' = [txn EXCEPT ![t] = NoScan]
  /\ UNCHANGED <<field, rule, flag, values, overlap, scans>>

-----------------------------------------------------------------------------
(* The steward.                                                            *)

Decide(g, status) ==
  /\ g \in PresentFlags /\ ScansQuiet
  /\ \A t \in Tier : g \notin Locks(t)
  /\ flag' = [flag EXCEPT ![g].status = status]
  /\ ScanMove
  /\ UNCHANGED <<field, rule, values, txn, overlap>>

ConfirmFlag(g) == Decide(g, "confirmed")
DismissFlag(g) == Decide(g, "dismissed")

-----------------------------------------------------------------------------
FlagsNext ==
  \/ \E n \in Names, hits \in SUBSET Categories : DiscoverField(n, hits)
  \/ \E f \in Fields : DeleteField(f)
  \/ \E t \in Tier : Read(t) \/ Rollback(t)
  \/ Withhold \/ CommitScan \/ CommitProfile
  \/ \E g \in Flags : ConfirmFlag(g) \/ DismissFlag(g)

FlagsSpec == FlagsInit /\ [][FlagsNext]_flagVars

-----------------------------------------------------------------------------
(* Properties.                                                             *)

Exposed(status) == {g \in Flags : flag[g].status = status /\ flag[g].field \in values}

\* The zero leak window: where scans, profiling and decisions come one at a time,
\* no flag a scan raised is on a field whose raw values are at rest, whatever was
\* revived, upgraded, rebound, staled or deleted before.
FlaggedNotExposed == ~overlap => Exposed("flagged") = {}

\* The retro-scrub: whatever overlapped it, a schema scan that commits leaves no
\* raw values on any field with an active flag, seen again by this scan or not.
ScanCloses == [][CommitScan => Exposed("flagged")' \cup Exposed("confirmed")' = {}]_flagVars

\* Decisions are sticky: no scan or profile changes a flag it read as decided,
\* whatever it detects.
SeenDecisionsStick ==
  [][\A g \in Flags, t \in Tier :
       txn[t].pc # "idle" /\ txn'[t].pc = "idle" /\ txn[t].seen[g].status \in Decided
         => flag'[g] = flag[g]]_flagVars

\* The ratchet: a schema scan stales no flag it read as raised by sampled values,
\* unless the field is gone.
Ratchet ==
  [][\A g \in Flags :
       LET r == txn["schema"].seen[g] IN
       /\ CommitScan
       /\ r.status = "flagged" /\ r.tier = "profile"
       /\ r.field # NoField /\ \E n \in Names : txn["schema"].map[n] = r.field
       => (flag'[g].status = "stale" => flag[g].status = "stale")]_flagVars

\* What the docs say of decisions (pii/service.py:4-5, :254-255): no scan or profile changes
\* a decided flag.  Not so for a decision taken between its read and its update.
DecisionsStick ==
  [][\A g \in Flags :
       CommitScan \/ CommitProfile
         => (flag[g].status \in Decided => flag'[g].status = flag[g].status)]_flagVars

=============================================================================
