-------------------------- MODULE GovernanceProofs --------------------------
(***************************************************************************)
(* The safety properties of Suggestions, ErasedSubjects and                *)
(* RetentionSweeps, for any columns, shapes, subjects, rows, runs and      *)
(* policies and every kind of deployment; with those of PiiFlagsProofs the *)
(* types of the four together; and what the rules of SchemaRules keep to   *)
(* for every score, name and sample.                                       *)
(***************************************************************************)
EXTENDS MCGovernance, PiiFlagsProofs, FiniteSetTheorems

-----------------------------------------------------------------------------
(* The rules of SchemaRules over scores, names and values.                 *)

\* What a profile counts of a field.
ProfileCounts == [rows : Nat, distinct : Nat, nulls : Nat]

\* A measure scores between 0.45, of nothing but nulls, and 0.8, of none.
LEMMA FillRange ==
  ASSUME NEW m \in ProfileCounts, m.rows # 0, m.nulls <= m.rows
  PROVE  FillScore(m) \in 450 .. 800
<1> DEFINE r == m.rows  n == m.nulls
<1>1. r \in Nat /\ n \in Nat /\ r > 0 /\ n <= r
  BY DEF ProfileCounts
<1>2. 700 * (r - n) + r \in Nat /\ 700 * (r - n) + r <= 701 * r
  BY <1>1
<1> DEFINE x == 700 * (r - n) + r
           q == x \div (2 * r)
<1> HIDE DEF x, r, n
<1>3. q \in Nat /\ q * (2 * r) <= x
  BY <1>1, <1>2 DEF x
<1>4. q <= 350
  <2>1. CASE q >= 351
    <3>1. q * (2 * r) >= 702 * r
      BY <1>1, <1>3, <2>1
    <3> QED BY <1>1, <1>2, <1>3, <3>1 DEF x
  <2> QED BY <1>3, <2>1
<1> QED BY <1>3, <1>4 DEF FillScore, x, r, n

\* Whatever the score before and the profiles of the dimension and the measure, the new
\* score is on the scale, and rescoring with the same profiles leaves it: the update
\* of suggestion/rescore.py may be repeated.
THEOREM ScoresStay ==
  \A base \in Int, dim \in ProfileCounts, measure \in ProfileCounts :
    measure.nulls <= measure.rows => ScoreStays(base, dim, measure)
<1> SUFFICES ASSUME NEW base \in Int, NEW dim \in ProfileCounts, NEW measure \in ProfileCounts,
                    measure.nulls <= measure.rows
             PROVE  ScoreStays(base, dim, measure)
  OBVIOUS
<1>1. measure.rows # 0 => FillScore(measure) \in 450 .. 800
  BY FillRange
<1>2. dim.rows \in Nat /\ dim.distinct \in Nat /\ measure.rows \in Nat
  BY DEF ProfileCounts
<1> DEFINE ByDim(b) == CASE dim.rows = 0 -> b
                 [] dim.rows # 0 /\ dim.distinct <= 25 /\ 2 * dim.distinct < dim.rows -> 820
                 [] dim.rows # 0 /\ ~(dim.distinct <= 25 /\ 2 * dim.distinct < dim.rows)
                      /\ 10 * dim.distinct >= 6 * dim.rows -> 120
                 [] OTHER -> 450
           ByFill(b) == IF measure.rows = 0 THEN ByDim(b) ELSE Greater(ByDim(b), FillScore(measure))
<1>3. \A b : ProfileScore(b, dim, measure)
         = IF dim.rows = 0 /\ measure.rows = 0 THEN -1 ELSE OnScale(ByFill(b))
  BY DEF ProfileScore
<1>4. CASE dim.rows = 0 /\ measure.rows = 0
  BY <1>3, <1>4 DEF ScoreStays
<1>5. CASE dim.rows # 0
  <2>1. \A b : ByDim(b) = ByDim(base)
    BY <1>5
  <2>2. ByDim(base) \in {820, 120, 450}
    BY <1>2, <1>5
  <2> HIDE DEF ByDim
  <2>3. OnScale(ByFill(base)) \in 0 .. 1000 /\ \A b : ByFill(b) = ByFill(base)
    BY <1>1, <2>1, <2>2 DEF Greater, OnScale
  <2> HIDE DEF ByFill
  <2>4. \A b : ProfileScore(b, dim, measure) = OnScale(ByFill(b))
    BY <1>3, <1>5
  <2>5. \A b : ProfileScore(b, dim, measure) = OnScale(ByFill(base))
    BY <2>3, <2>4
  <2> QED BY <2>3, <2>5 DEF ScoreStays
<1>6. CASE dim.rows = 0 /\ measure.rows # 0
  <2> DEFINE fill == FillScore(measure)
             once == OnScale(Greater(base, fill))
  <2>1. fill \in 450 .. 800
    BY <1>1, <1>6
  <2>2. \A b : ProfileScore(b, dim, measure) = OnScale(Greater(b, fill))
    BY <1>3, <1>6
  <2> HIDE DEF fill
  <2>3. once \in 0 .. 1000 /\ OnScale(Greater(once, fill)) = once
    BY <2>1 DEF Greater, OnScale
  <2>4. ProfileScore(base, dim, measure) = once /\ ProfileScore(once, dim, measure) = once
    BY <2>2, <2>3
  <2> HIDE DEF once
  <2> QED BY <2>3, <2>4 DEF ScoreStays
<1> QED BY <1>4, <1>5, <1>6

\* Whatever the words of a name, a key is flagged, and with more confidence than a column
\* of that name which is none; and a word takes no category away but a location of which "address"
\* is all the evidence (pii/engine.py).
THEOREM NamesAreFlagged == \A words, key : key \in BOOLEAN => NamesFlagged(words, key)
<1> SUFFICES ASSUME NEW words, NEW key \in BOOLEAN PROVE NamesFlagged(words, key)
  OBVIOUS
<1> DEFINE Single(ws) == {w[2] : w \in {v \in ws : v[1] \in {"single", "address"}}}
           Pair(ws) == {w[2] : w \in {v \in ws : v[1] = "left" /\ <<"right", v[2]>> \in ws}}
           Yields(ws) == /\ <<"address", "location">> \in ws
                 /\ <<"single", "location">> \notin ws /\ "location" \notin Pair(ws)
                 /\ {"contact", "network_identifier"} \cap (Single(ws) \cup Pair(ws)) # {}
<1>1. \A ws : NameCategories(ws)
                = (Single(ws) \cup Pair(ws)) \ (IF Yields(ws) THEN {"location"} ELSE {})
  BY DEF NameCategories
<1>2. ASSUME NEW w \in words, NameCategories(words \ {w}) \ NameCategories(words) # {}
      PROVE  /\ NameCategories(words \ {w}) \ NameCategories(words) = {"location"}
             /\ <<"address", "location">> \in words /\ <<"single", "location">> \notin words
  <2>1. Single(words \ {w}) \subseteq Single(words) /\ Pair(words \ {w}) \subseteq Pair(words)
    OBVIOUS
  <2>2. Yields(words) => <<"address", "location">> \in words /\ <<"single", "location">> \notin words
    OBVIOUS
  <2> HIDE DEF Single, Pair, Yields
  <2> QED BY <1>1, <1>2, <2>1, <2>2
<1>3. key => NameCandidates(words, key) # {} /\ Confidence(words, key) > Confidence(words, FALSE)
  <2> DEFINE keyed == Confidence(words, TRUE)  plain == Confidence(words, FALSE)
  <2>1. plain = 600
    BY DEF Confidence
  <2>2. keyed \in {750, 800}
    BY DEF Confidence
  <2>3. NameCandidates(words, TRUE) # {}
    BY DEF NameCandidates
  <2> HIDE DEF keyed, plain
  <2>4. keyed > plain
    BY <2>1, <2>2
  <2>5. CASE key
    <3>1. key = TRUE
      BY <2>5
    <3> QED BY <2>3, <2>4, <3>1, Zenon DEF keyed, plain
  <2> QED BY <2>5
<1> QED BY <1>2, <1>3 DEF NamesFlagged

\* Whatever the sample, a category it is flagged with rests on two of its values where it
\* has more than two, and a contact on a value that is no number (pii/values.py).
THEOREM ValuesAreFlagged == \A Values : \A sample \in Seq(Values) : ValuesFlagged(sample)
<1> SUFFICES ASSUME NEW Values, NEW sample \in Seq(Values),
                    NEW c \in CategoriesAboveFloor(sample)
             PROVE  /\ Len(sample) > 2 => \E i, j \in DOMAIN sample :
                         i # j /\ {c} \subseteq ValueCategories(sample[i]) \cap ValueCategories(sample[j])
                    /\ c = "contact" => \E i \in DOMAIN sample : ~sample[i].numeric
  BY DEF ValuesFlagged
<1> DEFINE hits == {i \in DOMAIN sample : c \in ValueCategories(sample[i])}
<1>1. 2 * Cardinality(hits) >= Len(sample) /\ \E i \in DOMAIN sample : c \in ValueCategories(sample[i])
  BY DEF CategoriesAboveFloor
<1>2. ASSUME Len(sample) > 2
      PROVE  \E i, j \in hits : i # j
  <2>1. PICK i \in hits : TRUE
    BY <1>1
  <2>2. Len(sample) \in Nat
    OBVIOUS
  <2>3. CASE hits = {i}
    <3>1. Cardinality(hits) = 1
      BY <2>3, FS_Singleton
    <3> HIDE DEF hits
    <3> QED BY <1>1, <1>2, <2>2, <3>1
  <2> QED BY <2>1, <2>3
<1>3. \A i \in DOMAIN sample : "contact" \in ValueCategories(sample[i]) => ~sample[i].numeric
  BY DEF ValueCategories
<1> QED BY <1>1, <1>2, <1>3

-----------------------------------------------------------------------------
(* Suggestions.  A reconciliation or an accept that is under way alone     *)
(* finds the rows as it has read them.                                     *)

Reading == [pc : {"read"}, fresh : SUBSET Fingerprints, seen : [Fingerprints -> Status],
            live : SUBSET Columns]
Accepting == [pc : {"accept"}, from : Fingerprints, dash : Dashboards, position : Nat]

RowsTyped ==
  /\ column \in [Columns -> Shapes \cup {Gone}]
  /\ suggestion \in [Fingerprints -> Row]
  /\ item \in [Items -> Item]
  /\ dashboard \subseteq Dashboards
  /\ overlap \in Overlap /\ moves \in Nat
OpenTyped ==
  /\ regen \in Reading \cup {IdleRegen}
  /\ user \in [Users -> Accepting \cup {IdleUser}]

\* Where nothing overlaps, a reconciliation goes on with the statuses it read, and no
\* accept is under way with it.
SeenCurrent ==
  ~overlap /\ regen.pc = "read" =>
    /\ \A u \in Users : user[u].pc = "idle"
    /\ \A s \in Fingerprints : regen.seen[s] = suggestion[s].status
SuggestionsInv == RowsTyped /\ OpenTyped /\ SeenCurrent

\* The fields of what the rules suggest are columns they were given, in a role.
LEMMA CandidateFields ==
  ASSUME NEW cs, NEW width, NEW names, \A i \in DOMAIN cs : cs[i].name \in names,
         NEW s \in Candidates(cs, width)
  PROVE  s.fields \subseteq Roles \X names
<1> DEFINE Field(role, i) == <<role, cs[i].name>>
<1>1. ASSUME NEW i \in DOMAIN cs, NEW role \in Roles PROVE Field(role, i) \in Roles \X names
  OBVIOUS
<1>2. /\ Measures(cs) \subseteq DOMAIN cs /\ Dimensions(cs) \subseteq DOMAIN cs
      /\ First(Temporals(cs)) \subseteq DOMAIN cs
      /\ First(Measures(cs)) \subseteq DOMAIN cs /\ First(Dimensions(cs)) \subseteq DOMAIN cs
  BY DEF Measures, Dimensions, Temporals, First
<1>3. \A c \in FirstByPosition(cs, width) : c.name \in names
  BY DEF FirstByPosition
<1>4. {"measure", "dimension", "temporal", "display"} \subseteq Roles
  BY DEF Roles
<1> DEFINE Count   == {Fingerprint("kpi", "count", {})}
           Sums    == {Fingerprint("kpi", "sum", {Field("measure", i)}) : i \in Measures(cs)}
           Lines   == {Fingerprint("line", "sum", {Field("temporal", i), Field("measure", j)}) :
                         i \in First(Temporals(cs)), j \in First(Measures(cs))}
           Bars    == {Fingerprint("bar", "count", {Field("dimension", i)}) : i \in Dimensions(cs)}
           SumBars == {Fingerprint("bar", "sum", {Field("dimension", i), Field("measure", j)}) :
                         i \in First(Dimensions(cs)), j \in First(Measures(cs))}
           Listings  == {Fingerprint("table", "none", {<<"display", c.name>> : c \in cols}) :
                         cols \in {FirstByPosition(cs, width)} \ {{}}}
<1>5. Candidates(cs, width)
        = Count \cup Sums \cup Lines \cup Bars \cup SumBars \cup Listings
  BY SMTT(30) DEF Candidates
<1> HIDE DEF Field
<1>6. CASE s \in Count
  BY <1>6 DEF Fingerprint
<1>7. CASE s \in Sums
  BY <1>1, <1>2, <1>4, <1>7 DEF Fingerprint
<1>8. CASE s \in Lines
  BY <1>1, <1>2, <1>4, <1>8 DEF Fingerprint
<1>9. CASE s \in Bars
  BY <1>1, <1>2, <1>4, <1>9 DEF Fingerprint
<1>10. CASE s \in SumBars
  BY <1>1, <1>2, <1>4, <1>10 DEF Fingerprint
<1>11. CASE s \in Listings
  <2>1. s.fields = {<<"display", c.name>> : c \in FirstByPosition(cs, width)}
    BY <1>11 DEF Fingerprint
  <2> QED BY <1>3, <1>4, <2>1
<1> HIDE DEF Count, Sums, Lines, Bars, SumBars, Listings
<1> QED BY <1>5, <1>6, <1>7, <1>8, <1>9, <1>10, <1>11

\* So a suggestion refers to columns of the dataset.
LEMMA FingerprintFields == \A s \in Fingerprints : s.fields \in Bindings
<1> SUFFICES ASSUME NEW s \in Fingerprints PROVE s.fields \in Bindings
  OBVIOUS
<1>1. PICK shapes \in [Columns -> Shapes \cup {Gone}] :
        s \in UNION {Generated(shapes, order) :
                       order \in Orders({c \in Columns : shapes[c] # Gone})}
  BY DEF Fingerprints
<1>2. PICK order \in Orders({c \in Columns : shapes[c] # Gone}) : s \in Generated(shapes, order)
  BY <1>1
<1> DEFINE cs == [i \in DOMAIN order |-> ColumnOf(shapes, order[i])]
<1>3. \A i \in DOMAIN cs : cs[i].name \in Columns
  BY <1>2 DEF Orders, ColumnOf
<1>4. s \in Candidates(cs, Width)
  BY <1>2 DEF Generated
<1> HIDE DEF cs
<1>5. s.fields \subseteq Roles \X Columns
  BY <1>3, <1>4, CandidateFields
<1> QED BY <1>5 DEF Bindings

\* What the schema of now gives rise to is one of the suggestions there may be.
LEMMA GeneratedKnown ==
  ASSUME RowsTyped, NEW order \in Orders(Live)
  PROVE  Generated(column, order) \subseteq Fingerprints
<1> DEFINE G(shapes) == UNION {Generated(shapes, o) :
                                 o \in Orders({c \in Columns : shapes[c] # Gone})}
<1>1. Generated(column, order) \subseteq G(column)
  BY DEF Live
<1>2. Fingerprints = UNION {G(shapes) : shapes \in [Columns -> Shapes \cup {Gone}]}
  BY Zenon DEF Fingerprints
<1>3. column \in [Columns -> Shapes \cup {Gone}]
  BY DEF RowsTyped
<1> HIDE DEF G
<1> QED BY <1>1, <1>2, <1>3

\* A field that loses its column is a field still.
LEMMA UnboundTyped ==
  ASSUME NEW fields \in Bindings, NEW c
  PROVE  Unbound(fields, c) \in Bindings
<1> SUFFICES ASSUME NEW b \in fields
             PROVE  (IF b[2] = c THEN <<b[1], None>> ELSE b) \in Roles \X (Columns \cup {None})
  BY DEF Unbound, Bindings
<1>1. b \in Roles \X (Columns \cup {None})
  BY DEF Bindings
<1> QED BY <1>1

\* The idle ones are idle, and the busy ones not.
LEMMA Pcs ==
  /\ IdleRegen.pc = "idle" /\ IdleUser.pc = "idle"
  /\ \A r \in Reading : r.pc = "read"
  /\ \A x \in Accepting : x.pc = "accept"
BY DEF IdleRegen, IdleUser, Reading, Accepting

\* Discovery, and the administrator who deletes a column.
LEMMA ColumnsStep ==
  ASSUME SuggestionsInv, NEW c \in Columns,
         DeleteColumn(c) \/ \E shape \in Shapes : DiscoverColumn(c, shape)
  PROVE  SuggestionsInv'
<1>1. ASSUME NEW shape \in Shapes, DiscoverColumn(c, shape) PROVE SuggestionsInv'
  BY <1>1 DEF SuggestionsInv, RowsTyped, OpenTyped, SeenCurrent, DiscoverColumn, Move
<1>2. CASE DeleteColumn(c)
  <2>1. RowsTyped /\ OpenTyped /\ SeenCurrent
    BY DEF SuggestionsInv
  <2>2. /\ column' = [column EXCEPT ![c] = Gone]
        /\ suggestion' = [s \in Fingerprints |-> [suggestion[s] EXCEPT !.fields = Unbound(@, c)]]
        /\ item' = [i \in Items |-> [item[i] EXCEPT !.fields = Unbound(@, c)]]
        /\ regen' = [regen EXCEPT !.live = @ \ {c}]
        /\ Quiet /\ moves' = moves + 1 /\ UNCHANGED <<dashboard, user, overlap>>
    BY <1>2 DEF DeleteColumn, Move
  <2>3. ASSUME NEW s \in Fingerprints
        PROVE  suggestion'[s] \in Row /\ suggestion'[s].status = suggestion[s].status
    <3>1. suggestion[s] \in Row /\ suggestion'[s] = [suggestion[s] EXCEPT !.fields = Unbound(@, c)]
      BY <2>1, <2>2 DEF RowsTyped
    <3> QED BY <3>1, UnboundTyped DEF Row
  <2>4. ASSUME NEW i \in Items PROVE item'[i] \in Item
    <3>1. item[i] \in Item /\ item'[i] = [item[i] EXCEPT !.fields = Unbound(@, c)]
      BY <2>1, <2>2 DEF RowsTyped
    <3> QED BY <3>1, UnboundTyped DEF Item
  <2>5. RowsTyped'
    BY <2>1, <2>2, <2>3, <2>4 DEF RowsTyped
  <2>6. /\ regen' \in Reading \cup {IdleRegen} /\ regen'.pc = regen.pc
        /\ regen'.seen = regen.seen
    <3>1. CASE regen \in Reading
      BY <2>2, <3>1 DEF Reading
    <3>2. CASE regen = IdleRegen
      BY <2>2, <3>2 DEF IdleRegen
    <3> QED BY <2>1, <3>1, <3>2 DEF OpenTyped
  <2> QED BY <2>1, <2>2, <2>3, <2>5, <2>6 DEF SuggestionsInv, OpenTyped, SeenCurrent
<1> QED BY <1>1, <1>2

\* What a suggestion becomes.
LEMMA RowReconciled ==
  ASSUME SuggestionsInv, RegenerateWrite, NEW s \in Fingerprints
  PROVE  /\ suggestion'[s] \in Row
         /\ ~overlap => (suggestion'[s].status = "suggested"
                           <=> /\ s \in regen.fresh
                               /\ suggestion[s].status \notin {"accepted", "dismissed"})
<1>1. /\ suggestion[s] \in Row /\ suggestion[s].status \in Status /\ s.fields \in Bindings
      /\ regen \in Reading /\ regen.seen[s] \in Status
  BY FingerprintFields, Pcs
     DEF SuggestionsInv, RowsTyped, OpenTyped, RegenerateWrite, Row, Reading
<1>2. suggestion'[s] = CASE Verdict(s) \in {"insert", "revive"} ->
                              [status |-> "suggested", fields |-> s.fields]
                         [] Verdict(s) = "stale" -> [suggestion[s] EXCEPT !.status = "stale"]
                         [] OTHER -> suggestion[s]
  BY DEF RegenerateWrite
<1>3. ~overlap => regen.seen[s] = suggestion[s].status
  BY <1>1 DEF SuggestionsInv, SeenCurrent, Reading
<1>4. CASE s \in regen.fresh /\ regen.seen[s] \in {"absent", "stale"}
  <2>1. Verdict(s) \in {"insert", "revive"}
    BY <1>4 DEF Verdict
  <2>2. suggestion'[s] = [status |-> "suggested", fields |-> s.fields]
    BY <1>2, <2>1
  <2> QED BY <1>1, <1>3, <1>4, <2>2 DEF Row, Status
<1>5. CASE s \notin regen.fresh /\ regen.seen[s] = "suggested"
  <2>1. Verdict(s) = "stale"
    BY <1>5 DEF Verdict
  <2>2. suggestion'[s] = [suggestion[s] EXCEPT !.status = "stale"]
    BY <1>2, <2>1
  <2> QED BY <1>1, <1>5, <2>2 DEF Row, Status
<1>6. CASE ~(s \in regen.fresh /\ regen.seen[s] \in {"absent", "stale"})
           /\ ~(s \notin regen.fresh /\ regen.seen[s] = "suggested")
  <2>1. Verdict(s) = "keep"
    BY <1>6 DEF Verdict
  <2>2. suggestion'[s] = suggestion[s]
    BY <1>2, <2>1
  <2> QED BY <1>1, <1>3, <1>6, <2>2 DEF Status
<1> QED BY <1>4, <1>5, <1>6

\* The reconciler.
LEMMA RegenerateStep ==
  ASSUME SuggestionsInv, RegenerateRead \/ RegenerateWrite \/ RegenerateFail
  PROVE  SuggestionsInv'
<1>0. RowsTyped /\ OpenTyped /\ SeenCurrent
  BY DEF SuggestionsInv
<1>1. CASE RegenerateRead
  <2>1. PICK order \in Orders(Live) :
          regen' = [pc |-> "read", fresh |-> Generated(column, order),
                    seen |-> [s \in Fingerprints |-> suggestion[s].status], live |-> Live]
    BY <1>1 DEF RegenerateRead
  <2>2. Quiet /\ moves' = moves + 1 /\ UNCHANGED <<column, suggestion, item, dashboard, user, overlap>>
    BY <1>1 DEF RegenerateRead, Move
  <2>3. Generated(column, order) \subseteq Fingerprints
    BY <1>0, GeneratedKnown
  <2>4. [s \in Fingerprints |-> suggestion[s].status] \in [Fingerprints -> Status]
    BY <1>0 DEF RowsTyped, Row
  <2>5. regen' \in Reading
    BY <2>1, <2>3, <2>4 DEF Reading, Live
  <2>6. RowsTyped' /\ OpenTyped'
    BY <1>0, <2>2, <2>5 DEF RowsTyped, OpenTyped
  <2>7. SeenCurrent'
    BY <2>1, <2>2 DEF SeenCurrent, Quiet
  <2> QED BY <2>6, <2>7 DEF SuggestionsInv
<1>2. CASE RegenerateWrite
  <2>1. regen' = IdleRegen /\ UNCHANGED <<column, item, dashboard, user, overlap, moves>>
    BY <1>2 DEF RegenerateWrite
  <2>2. \A s \in Fingerprints : suggestion'[s] \in Row
    BY <1>2, RowReconciled
  <2>3. suggestion' = [s \in Fingerprints |-> suggestion'[s]]
    BY <1>2 DEF RegenerateWrite
  <2> QED BY <1>0, <2>1, <2>2, <2>3, Pcs DEF SuggestionsInv, RowsTyped, OpenTyped, SeenCurrent
<1>3. CASE RegenerateFail
  BY <1>0, <1>3, Pcs DEF RegenerateFail, SuggestionsInv, RowsTyped, OpenTyped, SeenCurrent
<1> QED BY <1>1, <1>2, <1>3

\* The users.
LEMMA UsersStep ==
  ASSUME SuggestionsInv,
         \/ \E u \in Users : AcceptWrite(u) \/ AcceptFail(u) \/ \E s \in Fingerprints : AcceptRead(u, s)
         \/ \E s \in Fingerprints : Dismiss(s)
         \/ \E i \in Items : DeleteItem(i)
  PROVE  SuggestionsInv'
<1>0. RowsTyped /\ OpenTyped /\ SeenCurrent
  BY DEF SuggestionsInv
<1>1. ASSUME NEW u \in Users, NEW s \in Fingerprints, AcceptRead(u, s) PROVE SuggestionsInv'
  <2>0. PICK d \in IF dashboard # {} THEN dashboard ELSE Dashboards :
          \E last \in LastPosition(d) :
            user' = [user EXCEPT ![u] = [pc |-> "accept", from |-> s, dash |-> d, position |-> last + 1]]
    BY <1>1 DEF AcceptRead
  <2>1. PICK last \in LastPosition(d) :
          user' = [user EXCEPT ![u] = [pc |-> "accept", from |-> s, dash |-> d, position |-> last + 1]]
    BY <2>0
  <2>2. Quiet /\ moves' = moves + 1 /\ UNCHANGED <<column, suggestion, item, dashboard, regen, overlap>>
    BY <1>1 DEF AcceptRead, Move
  <2>3. d \in Dashboards /\ last \in Nat
    BY <1>0 DEF RowsTyped, LastPosition, Item
  <2>4. [pc |-> "accept", from |-> s, dash |-> d, position |-> last + 1] \in Accepting
    BY <2>3 DEF Accepting
  <2>5. RowsTyped' /\ OpenTyped'
    BY <1>0, <2>1, <2>2, <2>4 DEF RowsTyped, OpenTyped
  <2>6. SeenCurrent'
    BY <1>0, <2>2 DEF SeenCurrent, Quiet
  <2> QED BY <2>5, <2>6 DEF SuggestionsInv
<1>2. ASSUME NEW u \in Users, AcceptWrite(u) PROVE SuggestionsInv'
  <2> DEFINE x == user[u]
  <2>1. x \in Accepting /\ x.from \in Fingerprints /\ x.dash \in Dashboards /\ x.position \in Nat
    BY <1>0, <1>2, Pcs DEF OpenTyped, AcceptWrite, Accepting
  <2>2. PICK i \in Items :
          item' = [item EXCEPT ![i] = [from |-> x.from, dash |-> x.dash, position |-> x.position,
                                       fields |-> suggestion[x.from].fields]]
    BY <1>2 DEF AcceptWrite, ItemsOf
  <2>3. suggestion[x.from] \in Row
    BY <1>0, <2>1 DEF RowsTyped
  <2>4. [from |-> x.from, dash |-> x.dash, position |-> x.position,
         fields |-> suggestion[x.from].fields] \in Item
    BY <2>1, <2>3 DEF Item, Row
  <2>5. /\ dashboard' = dashboard \cup {x.dash}
        /\ suggestion' = [suggestion EXCEPT ![x.from].status = "accepted"]
        /\ user' = [user EXCEPT ![u] = IdleUser]
        /\ UNCHANGED <<column, regen, overlap, moves>>
    BY <1>2 DEF AcceptWrite
  <2>6. [suggestion[x.from] EXCEPT !.status = "accepted"] \in Row
    BY <2>3 DEF Row, Status
  <2>7. RowsTyped' /\ OpenTyped'
    BY <1>0, <2>1, <2>2, <2>4, <2>5, <2>6 DEF RowsTyped, OpenTyped
  <2>8. SeenCurrent'
    BY <1>0, <2>1, <2>5, Pcs DEF SeenCurrent
  <2> QED BY <2>7, <2>8 DEF SuggestionsInv
<1>3. ASSUME NEW u \in Users, AcceptFail(u) PROVE SuggestionsInv'
  BY <1>0, <1>3, Pcs DEF AcceptFail, SuggestionsInv, RowsTyped, OpenTyped, SeenCurrent
<1>4. ASSUME NEW s \in Fingerprints, Dismiss(s) PROVE SuggestionsInv'
  <2>1. /\ Quiet /\ moves' = moves + 1
        /\ suggestion' = [suggestion EXCEPT ![s].status = "dismissed"]
        /\ UNCHANGED <<column, item, dashboard, regen, user, overlap>>
    BY <1>4 DEF Dismiss, Move
  <2>2. [suggestion[s] EXCEPT !.status = "dismissed"] \in Row
    BY <1>0 DEF RowsTyped, Row, Status
  <2>3. RowsTyped' /\ OpenTyped'
    BY <1>0, <2>1, <2>2 DEF RowsTyped, OpenTyped
  <2>4. SeenCurrent'
    BY <2>1, Pcs DEF SeenCurrent, Quiet
  <2> QED BY <2>3, <2>4 DEF SuggestionsInv
<1>5. ASSUME NEW i \in Items, DeleteItem(i) PROVE SuggestionsInv'
  <2>1. NoItem \in Item
    BY DEF NoItem, Item, Bindings
  <2> QED BY <1>0, <1>5, <2>1 DEF DeleteItem, Move, SuggestionsInv, RowsTyped, OpenTyped, SeenCurrent
<1> QED BY <1>1, <1>2, <1>3, <1>4, <1>5

\* It begins and stays so.
LEMMA SuggestionsStart == Init => SuggestionsInv
<1>1. NoRow \in Row /\ NoItem \in Item
  BY DEF NoRow, Row, Status, NoItem, Item, Bindings
<1> QED BY <1>1, Pcs DEF Init, SuggestionsInv, RowsTyped, OpenTyped, SeenCurrent

\* One step.
LEMMA SuggestionsStep == SuggestionsInv /\ [Next]_vars => SuggestionsInv'
<1> SUFFICES ASSUME SuggestionsInv, [Next]_vars PROVE SuggestionsInv'
  OBVIOUS
<1>1. CASE UNCHANGED vars
  BY <1>1 DEF SuggestionsInv, RowsTyped, OpenTyped, SeenCurrent, vars
<1>2. CASE Next
  BY <1>2, ColumnsStep, RegenerateStep, UsersStep DEF Next
<1> QED BY <1>1, <1>2

\* The invariant is one.
THEOREM SuggestionsInvariant == Spec => []SuggestionsInv
BY SuggestionsStart, SuggestionsStep, PTL DEF Spec

\* Every reachable state is well typed: a suggestion and what is made of it refer to
\* columns of the dataset, each in its role, or to none.
THEOREM SuggestionsTyped == Spec => []TypeOK
<1>1. SuggestionsInv => TypeOK
  BY DEF SuggestionsInv, RowsTyped, OpenTyped, TypeOK, Reading, Accepting
<1> QED BY <1>1, SuggestionsInvariant, PTL

\* Where nothing overlaps a reconciliation, it leaves in the inbox what the schema it read
\* gives rise to, less what users decided, and nothing else: for any columns, shapes and
\* order of the fields.
THEOREM InboxRight == Spec => InboxFollowsSchema
<1>1. SuggestionsInv /\ [Next]_vars
        => (RegenerateWrite /\ ~overlap =>
              {s \in Fingerprints : suggestion'[s].status = "suggested"}
                = {s \in regen.fresh : suggestion[s].status \notin {"accepted", "dismissed"}})
  <2> SUFFICES ASSUME SuggestionsInv, RegenerateWrite, ~overlap
               PROVE  {s \in Fingerprints : suggestion'[s].status = "suggested"}
                        = {s \in regen.fresh : suggestion[s].status \notin {"accepted", "dismissed"}}
    OBVIOUS
  <2>1. regen.fresh \subseteq Fingerprints
    BY Pcs DEF SuggestionsInv, OpenTyped, RegenerateWrite, Reading
  <2> QED BY <2>1, RowReconciled
<1> QED BY <1>1, SuggestionsInvariant, PTL DEF Spec, InboxFollowsSchema

-----------------------------------------------------------------------------
(* The erased subjects.                                                    *)

\* Where transactions do not overlap, a reader that is under way read the list as it is.
SnapshotsCurrent ==
  ~overlap => /\ page.open => page.seen = suppressed
              /\ profiler.open => profiler.seen = suppressed

\* A chart remembers as erased only who is on the list, and what it works on once it
\* has left the suppressed out holds none of them.
ChartInv(c) ==
  /\ chart[c].before \subseteq suppressed
  /\ chart[c].pc \in {"landed", "answered"} => chart[c].rows \cap chart[c].before = {}
ChartsInv == \A c \in Charts : ChartInv(c)

SubjectsInv == SubjectsTypeOK /\ SnapshotsCurrent /\ ErasedStaysErased /\ ChartsInv

-----------------------------------------------------------------------------
(* Lemmas.                                                                 *)

\* Leaving out the suppressed leaves none of them, nor of those suppressed before.
LEMMA UnsuppressedApart ==
  ASSUME NEW rows \in SUBSET Subjects, NEW seen \in SUBSET Subjects
  PROVE  /\ Unsuppressed(rows, seen) \in SUBSET Subjects
         /\ Unsuppressed(rows, seen) \subseteq rows
         /\ Unsuppressed(rows, seen) \cap seen = {}
         /\ \A before \in SUBSET seen : Unsuppressed(rows, seen) \cap before = {}
BY DEF Unsuppressed

\* Whatever chart steps, it leaves the others alone and does not disturb the list.
LEMMA SetChartInv ==
  ASSUME ChartsInv, SubjectsTypeOK, NEW c \in Charts, NEW x \in Chart, SetChart(c, x),
         UNCHANGED suppressed,
         x.before \subseteq suppressed,
         x.pc \in {"landed", "answered"} => x.rows \cap x.before = {}
  PROVE  ChartsInv' /\ chart' \in [Charts -> Chart]
<1>1. chart \in [Charts -> Chart] /\ chart' = [chart EXCEPT ![c] = x]
  BY DEF SubjectsTypeOK, SetChart
<1>2. chart' \in [Charts -> Chart]
  BY <1>1
<1>3. ASSUME NEW d \in Charts
      PROVE  ChartInv(d)'
  <2>1. CASE d = c
    <3>1. chart'[d] = x
      BY <1>1, <2>1
    <3>2. QED
      BY <3>1, <2>1 DEF ChartInv
  <2>2. CASE d # c
    <3>1. chart'[d] = chart[d]
      BY <1>1, <2>2
    <3>2. ChartInv(d)
      BY <1>3 DEF ChartsInv
    <3>3. QED
      BY <3>1, <3>2 DEF ChartInv
  <2>3. QED
    BY <2>1, <2>2
<1>4. QED
  BY <1>2, <1>3 DEF ChartsInv

\* The invariant of the charts survives a longer list.
LEMMA ChartsInvGrows ==
  ASSUME ChartsInv, suppressed \subseteq suppressed', UNCHANGED chart
  PROVE  ChartsInv'
<1>1. SUFFICES ASSUME NEW c \in Charts PROVE ChartInv(c)'
  BY DEF ChartsInv
<1>2. ChartInv(c)
  BY DEF ChartsInv
<1>3. QED
  BY <1>2 DEF ChartInv

-----------------------------------------------------------------------------
(* The invariant holds at the start, and every step keeps it.              *)

\* With nothing stored, profiled or charted, the invariant holds.
LEMMA SubjectsStart == SubjectsInit => SubjectsInv
<1>1. SUFFICES ASSUME SubjectsInit PROVE SubjectsInv
  OBVIOUS
<1>2. NoReader \in Reader /\ NoChart \in Chart
  BY DEF NoReader, NoChart, Reader, Chart
<1>3. SubjectsTypeOK
  BY <1>1, <1>2 DEF SubjectsInit, SubjectsTypeOK
<1>4. SnapshotsCurrent /\ ErasedStaysErased
  BY <1>1 DEF SubjectsInit, SnapshotsCurrent, ErasedStaysErased, NoReader
<1>5. ASSUME NEW c \in Charts PROVE ChartInv(c)
  BY <1>1, <1>5 DEF SubjectsInit, ChartInv, NoChart
<1>6. QED
  BY <1>3, <1>4, <1>5 DEF SubjectsInv, ChartsInv

\* The worker that suppresses a subject, and erases what is stored of it, keeps the
\* invariant: the snapshots read before it are of the time before.
LEMMA EraseInv ==
  ASSUME SubjectsInv, NEW s \in Subjects, Erase(s)
  PROVE  SubjectsInv'
<1> USE DEF SubjectsInv
<1>1. SubjectsTypeOK'
  BY DEF SubjectsTypeOK, Erase, ProfilesAfter
<1>2. SnapshotsCurrent'
  BY DEF SnapshotsCurrent, Erase, ReadersQuiet
<1>3. ErasedStaysErased'
  BY DEF ErasedStaysErased, Erase, ProfilesAfter
<1>4. ChartsInv'
  BY ChartsInvGrows DEF Erase
<1>5. QED
  BY <1>1, <1>2, <1>3, <1>4

\* So do the steps of a page of an ingest: its read of the suppressions, its failure, and
\* the commit of the rows it keeps.
LEMMA PageInv ==
  ASSUME SubjectsInv,
         PageRead \/ PageFail \/ (\E rows \in SUBSET Subjects : PageCommit(rows))
  PROVE  SubjectsInv'
<1> USE DEF SubjectsInv
<1>1. UNCHANGED <<suppressed, chart, profiler, profiled, pepper, overlap>>
  BY DEF PageRead, PageFail, PageCommit
<1>2. ChartsInv'
  BY <1>1, ChartsInvGrows
<1>3. CASE PageRead
  <2>1. SubjectsTypeOK'
    BY <1>3, <1>1 DEF PageRead, SubjectsTypeOK, Reader
  <2>2. SnapshotsCurrent' /\ ErasedStaysErased'
    BY <1>3 DEF PageRead, SnapshotsCurrent, ErasedStaysErased
  <2>3. QED
    BY <2>1, <2>2, <1>2
<1>4. CASE PageFail
  <2>1. SubjectsTypeOK'
    BY <1>4, <1>1 DEF PageFail, SubjectsTypeOK, Reader, NoReader
  <2>2. SnapshotsCurrent' /\ ErasedStaysErased'
    BY <1>4 DEF PageFail, SnapshotsCurrent, ErasedStaysErased, NoReader
  <2>3. QED
    BY <2>1, <2>2, <1>2
<1>5. ASSUME NEW rows \in SUBSET Subjects, PageCommit(rows)
      PROVE  SubjectsInv'
  <2>1. page.seen \in SUBSET Subjects
    BY DEF SubjectsTypeOK, Reader
  <2>2. SubjectsTypeOK'
    BY <1>5, <1>1, <2>1, UnsuppressedApart DEF PageCommit, SubjectsTypeOK, Reader, NoReader
  <2>3. SnapshotsCurrent'
    BY <1>5 DEF PageCommit, SnapshotsCurrent, NoReader
  <2>4. ErasedStaysErased'
    <3>1. SUFFICES ASSUME ~overlap PROVE suppressed \cap (landed' \cup profiled) = {}
      BY <1>1 DEF ErasedStaysErased
    <3>2. page.seen = suppressed
      BY <1>5, <3>1 DEF PageCommit, SnapshotsCurrent
    <3>3. Unsuppressed(rows, page.seen) \cap suppressed = {}
      BY <2>1, <3>2, UnsuppressedApart
    <3>4. landed' = landed \cup Unsuppressed(rows, page.seen)
      BY <1>5 DEF PageCommit
    <3>5. suppressed \cap (landed \cup profiled) = {}
      BY <3>1 DEF ErasedStaysErased
    <3>6. QED
      BY <3>3, <3>4, <3>5
  <2>5. QED
    BY <2>2, <2>3, <2>4, <1>2
<1>6. QED
  BY <1>3, <1>4, <1>5

\* So do the steps of a profiling pass.
LEMMA ProfilerInv ==
  ASSUME SubjectsInv, ProfileRead \/ ProfileCommit \/ ProfileFail
  PROVE  SubjectsInv'
<1> USE DEF SubjectsInv
<1>1. UNCHANGED <<suppressed, chart, page, landed, pepper, overlap>>
  BY DEF ProfileRead, ProfileFail, ProfileCommit
<1>2. ChartsInv'
  BY <1>1, ChartsInvGrows
<1>3. CASE ProfileRead
  <2>1. SubjectsTypeOK'
    BY <1>3, <1>1 DEF ProfileRead, SubjectsTypeOK, Reader
  <2>2. SnapshotsCurrent' /\ ErasedStaysErased'
    BY <1>3 DEF ProfileRead, SnapshotsCurrent, ErasedStaysErased
  <2>3. QED
    BY <2>1, <2>2, <1>2
<1>4. CASE ProfileFail
  <2>1. SubjectsTypeOK'
    BY <1>4, <1>1 DEF ProfileFail, SubjectsTypeOK, Reader, NoReader
  <2>2. SnapshotsCurrent' /\ ErasedStaysErased'
    BY <1>4 DEF ProfileFail, SnapshotsCurrent, ErasedStaysErased, NoReader
  <2>3. QED
    BY <2>1, <2>2, <1>2
<1>5. CASE ProfileCommit
  <2>1. profiler.seen \in SUBSET Subjects
    BY DEF SubjectsTypeOK, Reader
  <2>2. SubjectsTypeOK'
    BY <1>5, <1>1, <2>1, UnsuppressedApart DEF ProfileCommit, SubjectsTypeOK, Reader, NoReader
  <2>3. SnapshotsCurrent'
    BY <1>5 DEF ProfileCommit, SnapshotsCurrent, NoReader
  <2>4. ErasedStaysErased'
    <3>1. SUFFICES ASSUME ~overlap PROVE suppressed \cap (landed \cup profiled') = {}
      BY <1>1 DEF ErasedStaysErased
    <3>2. profiler.seen = suppressed
      BY <1>5, <3>1 DEF ProfileCommit, SnapshotsCurrent
    <3>3. profiled' \cap suppressed = {}
      BY <1>5, <2>1, <3>2, UnsuppressedApart DEF ProfileCommit
    <3>4. suppressed \cap (landed \cup profiled) = {}
      BY <3>1 DEF ErasedStaysErased
    <3>5. QED
      BY <3>3, <3>4
  <2>5. QED
    BY <2>2, <2>3, <2>4, <1>2
<1>6. QED
  BY <1>3, <1>4, <1>5

\* So do the steps of a chart request.
LEMMA ChartStepInv ==
  ASSUME SubjectsInv, NEW c \in Charts,
         ChartStart(c) \/ ChartLanded(c) \/ ChartFetch(c) \/ ChartAnswer(c) \/ ChartEnd(c)
  PROVE  SubjectsInv'
<1> USE DEF SubjectsInv
<1>1. UNCHANGED <<landed, profiled, suppressed, page, profiler, pepper, overlap>>
  BY DEF ChartStart, ChartLanded, ChartFetch, ChartAnswer, ChartEnd
<1>2. SnapshotsCurrent' /\ ErasedStaysErased'
  BY <1>1 DEF SnapshotsCurrent, ErasedStaysErased
<1>3. suppressed \in SUBSET Subjects /\ landed \in SUBSET Subjects /\ chart[c] \in Chart
  BY DEF SubjectsTypeOK
<1>4. /\ chart[c].before \in SUBSET Subjects /\ chart[c].rows \in SUBSET Subjects
      /\ chart[c].before \in SUBSET suppressed
      /\ chart[c].pc \in {"landed", "answered"} => chart[c].rows \cap chart[c].before = {}
  BY <1>3 DEF Chart, ChartsInv, ChartInv
<1>5. SUFFICES ChartsInv' /\ chart' \in [Charts -> Chart]
  BY <1>1, <1>2 DEF SubjectsTypeOK
<1>6. CASE ChartStart(c)
  <2> DEFINE x == [pc |-> "started", before |-> suppressed, rows |-> {}]
  <2>1. x \in Chart
    BY <1>3 DEF Chart
  <2>2. SetChart(c, x)
    BY <1>6 DEF ChartStart
  <2>3. QED
    BY <2>1, <2>2, <1>1, SetChartInv
<1>7. CASE ChartLanded(c)
  <2> DEFINE x == [chart[c] EXCEPT !.pc = "landed", !.rows = Unsuppressed(Subjects, suppressed)]
  <2>1. /\ Unsuppressed(Subjects, suppressed) \in SUBSET Subjects
        /\ Unsuppressed(Subjects, suppressed) \cap chart[c].before = {}
    BY <1>3, <1>4, UnsuppressedApart
  <2>2. x \in Chart /\ x.before = chart[c].before /\ x.rows = Unsuppressed(Subjects, suppressed)
    BY <1>3, <2>1 DEF Chart
  <2>3. SetChart(c, x)
    BY <1>7 DEF ChartLanded
  <2> HIDE DEF x
  <2>4. QED
    BY <2>1, <2>2, <2>3, <1>1, <1>4, SetChartInv
<1>8. CASE ChartFetch(c)
  <2> DEFINE x == [chart[c] EXCEPT !.pc = "fetched", !.rows = Subjects]
  <2>1. x \in Chart /\ x.before = chart[c].before /\ x.pc = "fetched"
    BY <1>3 DEF Chart
  <2>2. SetChart(c, x)
    BY <1>8 DEF ChartFetch
  <2> HIDE DEF x
  <2>3. QED
    BY <2>1, <2>2, <1>1, <1>4, SetChartInv
<1>9. CASE ChartAnswer(c)
  <2> DEFINE x == [chart[c] EXCEPT !.pc = "answered", !.rows = Answered(c)]
  <2>1. Answered(c) \in SUBSET Subjects /\ Answered(c) \cap chart[c].before = {}
    <3>1. CASE chart[c].pc = "landed"
      BY <3>1, <1>3, <1>4 DEF Answered
    <3>2. CASE chart[c].pc # "landed"
      <4>1. Answered(c) = Unsuppressed(chart[c].rows, suppressed)
        BY <3>2 DEF Answered
      <4>2. QED
        BY <4>1, <1>3, <1>4, UnsuppressedApart
    <3>3. QED
      BY <3>1, <3>2
  <2>2. x \in Chart /\ x.before = chart[c].before /\ x.rows = Answered(c)
    BY <1>3, <2>1 DEF Chart
  <2>3. SetChart(c, x)
    BY <1>9 DEF ChartAnswer
  <2> HIDE DEF x
  <2>4. QED
    BY <2>1, <2>2, <2>3, <1>1, <1>4, SetChartInv
<1>10. CASE ChartEnd(c)
  <2>1. NoChart \in Chart /\ NoChart.before = {} /\ NoChart.pc = "idle"
    BY DEF NoChart, Chart
  <2>2. SetChart(c, NoChart)
    BY <1>10 DEF ChartEnd
  <2>3. QED
    BY <2>1, <2>2, <1>1, SetChartInv
<1>11. QED
  BY <1>6, <1>7, <1>8, <1>9, <1>10

\* Every step of the erasure, the ingest, the profiler and the charts keeps the invariant.
LEMMA SubjectsStep == SubjectsInv /\ [SubjectsNext]_subjectVars => SubjectsInv'
<1> SUFFICES ASSUME SubjectsInv, [SubjectsNext]_subjectVars PROVE SubjectsInv'
  OBVIOUS
<1>1. ASSUME NEW s \in Subjects, Erase(s) PROVE SubjectsInv'
  BY <1>1, EraseInv
<1>2. CASE TurnPepper
  BY <1>2, ChartsInvGrows
     DEF TurnPepper, SubjectsInv, SubjectsTypeOK, SnapshotsCurrent, ErasedStaysErased
<1>3. CASE PageRead \/ PageFail \/ \E rows \in SUBSET Subjects : PageCommit(rows)
  BY <1>3, PageInv
<1>4. CASE ProfileRead \/ ProfileCommit \/ ProfileFail
  BY <1>4, ProfilerInv
<1>5. ASSUME NEW c \in Charts,
             ChartStart(c) \/ ChartLanded(c) \/ ChartFetch(c) \/ ChartAnswer(c) \/ ChartEnd(c)
      PROVE  SubjectsInv'
  BY <1>5, ChartStepInv
<1>6. CASE UNCHANGED subjectVars
  BY <1>6, ChartsInvGrows
     DEF subjectVars, SubjectsInv, SubjectsTypeOK, SnapshotsCurrent, ErasedStaysErased
<1>7. QED
  BY <1>1, <1>2, <1>3, <1>4, <1>5, <1>6 DEF SubjectsNext

\* The invariant of what erasure promises holds in every reachable state.
THEOREM SubjectsInvariant == SubjectsSpec => []SubjectsInv
BY SubjectsStart, SubjectsStep, PTL DEF SubjectsSpec

-----------------------------------------------------------------------------
(* The theorems.                                                           *)

\* Every variable has its type: what lands, is profiled or suppressed are subjects.
THEOREM SubjectsTyped == SubjectsSpec => []SubjectsTypeOK
BY SubjectsInvariant, PTL DEF SubjectsInv

\* execute_deletion: where no page and no profile is under way when an erasure commits,
\* nothing of the erased subject is stored ever after.
THEOREM ErasureLasts == SubjectsSpec => []ErasedStaysErased
BY SubjectsInvariant, PTL DEF SubjectsInv

\* item_data and aggregate_series: no chart shows a subject erased before its request,
\* whatever overlaps it.
THEOREM ChartsLeaveOutErased == SubjectsSpec => []ChartsHonourErasure
<1>1. SubjectsInv => ChartsHonourErasure
  BY DEF SubjectsInv, ChartsInv, ChartInv, ChartsHonourErasure
<1>2. QED
  BY <1>1, SubjectsInvariant, PTL

-----------------------------------------------------------------------------
(* The retention sweeps.                                                   *)

\* The rows that a run's sweep deleted.
PurgedBy(r) == {x \in Rows : purger[x] = r}

\* An id is not used again: a row that is there was not deleted by a sweep.
RowsFresh == \A x \in Rows : row[x] # Nothing => purger[x] = Null

\* A run at work is running, or was reaped while it went on; it has deleted nothing yet.
\* One that deleted something has ended, and counts it unless it was reaped.
RunInv(r) ==
  /\ run[r].working => run[r].status = "running" \/ run[r].reaped
  /\ run[r].reaped => run[r].status = "failed"
  /\ PurgedBy(r) # {} => ~run[r].working /\ (run[r].status = "succeeded" \/ run[r].reaped)
  /\ run[r].status = "succeeded" => run[r].purged = Cardinality(PurgedBy(r))
RunsInv == \A r \in Runs : RunInv(r)

SweepsInv == SweepsTypeOK /\ RowsFresh /\ RunsInv

-----------------------------------------------------------------------------
(* Lemmas.                                                                 *)

\* The mark of an absent row is not the name of a table.
LEMMA TablesNamed == "none" \notin Tables
BY DEF Tables, Sweepable

\* Each sweepable table says whether it is a queue.
LEMMA QueueTyped == \A t \in Tables : Sweepable[t].queue \in BOOLEAN
<1>1. Tables = {"connection_tests", "runs", "discovery_runs", "ingested_records", "field_profiles"}
  BY DEF Tables, Sweepable
<1>2. /\ Sweepable["connection_tests"].queue = FALSE /\ Sweepable["runs"].queue = TRUE
      /\ Sweepable["discovery_runs"].queue = TRUE /\ Sweepable["ingested_records"].queue = FALSE
      /\ Sweepable["field_profiles"].queue = FALSE
  BY DEF Sweepable
<1>3. QED
  BY <1>1, <1>2

\* An absent row and an idle sweep are typed.
LEMMA NothingTyped == Nothing \in Stored /\ NoSweep \in SweepRun
BY DEF Nothing, Stored, NoSweep, SweepRun, Where

\* The DELETE of a planned policy names one of the tables.
LEMMA WhereTyped ==
  ASSUME NEW p \in Policies, Supported(p)
  PROVE  WhereOf(p) \in Where
<1>1. p.table \in Tables /\ p.dataset \in Datasets \cup {Null}
  BY SweepsConstantsOK DEF Supported
<1>2. QED
  BY <1>1 DEF WhereOf, Where

\* What the DELETE takes is a finite set of rows that are there.
LEMMA ExpiredThere ==
  ASSUME NEW w \in Where
  PROVE  /\ Expired(w) \in SUBSET Rows
         /\ Cardinality(Expired(w)) \in Nat
         /\ \A x \in Expired(w) : row[x] # Nothing
<1>1. Expired(w) \in SUBSET Rows
  BY DEF Expired
<1>2. Cardinality(Expired(w)) \in Nat
  BY <1>1, SweepsConstantsOK, FS_Subset, FS_CardinalityType
<1>3. ASSUME NEW x \in Expired(w) PROVE row[x] # Nothing
  <2>1. row[x].table = w.table /\ w.table \in Tables
    BY <1>3 DEF Expired, Holds, Where
  <2>2. QED
    BY <2>1, TablesNamed DEF Nothing
<1>4. QED
  BY <1>1, <1>2, <1>3

\* What Finished makes of the run it ends, and of every other run.
LEMMA FinishedRun ==
  ASSUME SweepsTypeOK, NEW r \in Runs, NEW status \in {"succeeded", "failed"}, NEW n \in Nat
  PROVE  LET new == Finished(r, status, n) IN
         /\ new \in [Runs -> SweepRun]
         /\ \A q \in Runs : q # r => new[q] = run[q]
         /\ ~new[r].working /\ new[r].reaped = run[r].reaped
         /\ run[r].status = "running" => new[r].status = status /\ new[r].purged = n
         /\ run[r].status # "running" => /\ new[r].status = run[r].status
                                         /\ new[r].purged = run[r].purged
<1>1. run \in [Runs -> SweepRun]
  BY DEF SweepsTypeOK
<1>2. run[r] \in SweepRun
  BY <1>1
<1> DEFINE rec == [run[r] EXCEPT !.working = FALSE, !.where = Null,
                                 !.status = IF run[r].status = "running" THEN status ELSE @,
                                 !.purged = IF run[r].status = "running" THEN n ELSE @]
<1>3. Finished(r, status, n) = [run EXCEPT ![r] = rec]
  BY <1>1, <1>2 DEF Finished, SweepRun
<1>4. rec \in SweepRun
  BY <1>2 DEF SweepRun
<1>5. /\ ~rec.working /\ rec.reaped = run[r].reaped
      /\ run[r].status = "running" => rec.status = status /\ rec.purged = n
      /\ run[r].status # "running" => rec.status = run[r].status /\ rec.purged = run[r].purged
  BY <1>2 DEF SweepRun
<1> HIDE DEF rec
<1>6. QED
  BY <1>1, <1>3, <1>4, <1>5

\* A step that changes one run and deletes nothing keeps what holds of the others.
LEMMA OneRunChanges ==
  ASSUME SweepsInv, NEW r \in Runs, UNCHANGED <<row, purger>>,
         \A q \in Runs : q # r => run'[q] = run[q],
         RunInv(r)'
  PROVE  RowsFresh' /\ RunsInv'
<1>1. RowsFresh'
  BY DEF SweepsInv, RowsFresh
<1>2. ASSUME NEW q \in Runs, q # r PROVE RunInv(q)'
  <2>1. run'[q] = run[q] /\ RunInv(q)
    BY <1>2 DEF SweepsInv, RunsInv
  <2>2. QED
    BY <2>1 DEF RunInv, PurgedBy
<1>3. QED
  BY <1>1, <1>2 DEF RunsInv

\* A step that leaves runs and deletions alone keeps what holds of the runs.
LEMMA RunsKept ==
  ASSUME RunsInv, UNCHANGED <<run, purger>>
  PROVE  RunsInv'
BY DEF RunsInv, RunInv, PurgedBy

-----------------------------------------------------------------------------
(* The invariant holds at the start, and every step keeps it.              *)

\* With no row stored and no sweep running, the invariant holds.
LEMMA SweepsStart == SweepsInit => SweepsInv
<1> SUFFICES ASSUME SweepsInit PROVE SweepsInv
  OBVIOUS
<1>1. SweepsTypeOK /\ RowsFresh
  BY NothingTyped DEF SweepsInit, SweepsTypeOK, RowsFresh
<1>2. ASSUME NEW r \in Runs PROVE RunInv(r)
  <2>1. run[r] = NoSweep /\ PurgedBy(r) = {}
    BY SweepsConstantsOK DEF SweepsInit, PurgedBy
  <2>2. QED
    BY <2>1 DEF RunInv, NoSweep
<1>3. QED
  BY <1>1, <1>2 DEF SweepsInv, RunsInv

\* The administrator and the owners of the rows.
LEMMA OwnersInv ==
  ASSUME SweepsInv,
         \/ \E p \in Policies \cup {Null} : AlterPolicy(p)
         \/ \E x \in Rows : Expire(x) \/ TurnLive(x)
         \/ \E x \in Rows, t \in Arriving, d \in Datasets \cup {Null} : Arrive(x, t, d)
  PROVE  SweepsInv'
<1>1. UNCHANGED <<run, purger>>
  BY DEF AlterPolicy, Expire, TurnLive, Arrive
<1>2. RunsInv'
  BY <1>1, RunsKept DEF SweepsInv
<1>3. row \in [Rows -> Stored] /\ policy \in Policies \cup {Null}
  BY DEF SweepsInv, SweepsTypeOK
<1>4. ASSUME NEW p \in Policies \cup {Null}, AlterPolicy(p)
      PROVE  SweepsInv'
  BY <1>1, <1>2, <1>4 DEF AlterPolicy, SweepsInv, SweepsTypeOK, RowsFresh
<1>5. ASSUME NEW x \in Rows, Expire(x) \/ TurnLive(x)
      PROVE  SweepsInv'
  <2>1. row[x] \in Stored /\ row[x] # Nothing
    BY <1>3, <1>5 DEF Expire, TurnLive
  <2>2. PICK z \in Stored : row' = [row EXCEPT ![x] = z]
    <3>1. CASE Expire(x)
      <4>1. [row[x] EXCEPT !.expired = TRUE] \in Stored
        BY <2>1 DEF Stored
      <4>2. QED
        BY <4>1, <3>1, <1>3 DEF Expire
    <3>2. CASE TurnLive(x)
      <4>1. [row[x] EXCEPT !.live = ~row[x].live] \in Stored
        BY <2>1 DEF Stored
      <4>2. QED
        BY <4>1, <3>2, <1>3 DEF TurnLive
    <3>3. QED
      BY <3>1, <3>2, <1>5
  <2>3. /\ row' \in [Rows -> Stored]
        /\ \A y \in Rows : row'[y] # Nothing => row[y] # Nothing
    BY <1>3, <2>1, <2>2
  <2>4. UNCHANGED policy
    BY <1>5 DEF Expire, TurnLive
  <2>5. QED
    BY <1>1, <1>2, <2>3, <2>4 DEF SweepsInv, SweepsTypeOK, RowsFresh
<1>6. ASSUME NEW x \in Rows, NEW t \in Arriving, NEW d \in Datasets \cup {Null}, Arrive(x, t, d)
      PROVE  SweepsInv'
  <2>1. t \in Tables
    BY SweepsConstantsOK
  <2>2. Sweepable[t].queue \in BOOLEAN
    BY <2>1, QueueTyped
  <2>3. /\ row' \in [Rows -> Stored]
        /\ \A y \in Rows : y # x => row'[y] = row[y]
        /\ purger[x] = Null
    BY <1>3, <1>6, <2>1, <2>2 DEF Arrive, Stored
  <2>4. UNCHANGED policy
    BY <1>6 DEF Arrive
  <2>5. QED
    BY <1>1, <1>2, <2>3, <2>4 DEF SweepsInv, SweepsTypeOK, RowsFresh
<1>7. QED
  BY <1>4, <1>5, <1>6

\* The steps of a run that delete nothing.
LEMMA RunStepInv ==
  ASSUME SweepsInv, NEW r \in Runs,
         \/ CreatePendingSweep(r) \/ Claim(r) \/ ReadPolicy(r)
         \/ SweepFails(r) \/ Crash(r) \/ Reap(r)
  PROVE  SweepsInv'
<1>1. UNCHANGED <<policy, row, purger>>
  BY DEF CreatePendingSweep, Claim, ReadPolicy, SweepFails, Crash, Reap
<1>2. run \in [Runs -> SweepRun] /\ run[r] \in SweepRun
  BY DEF SweepsInv, SweepsTypeOK
<1>3. RunInv(r) /\ SweepsTypeOK
  BY DEF SweepsInv, RunsInv
<1>4. PurgedBy(r)' = PurgedBy(r)
  BY <1>1 DEF PurgedBy
<1>5. SUFFICES /\ run' \in [Runs -> SweepRun]
               /\ \A q \in Runs : q # r => run'[q] = run[q]
               /\ RunInv(r)'
  BY <1>1, OneRunChanges DEF SweepsInv, SweepsTypeOK
<1>6. CASE CreatePendingSweep(r)
  <2>1. /\ run' \in [Runs -> SweepRun]
        /\ \A q \in Runs : q # r => run'[q] = run[q]
        /\ run[r].status = "absent" /\ run'[r].status = "pending"
        /\ run'[r].working = run[r].working /\ run'[r].reaped = run[r].reaped
    BY <1>2, <1>6 DEF CreatePendingSweep, SweepRun
  <2>2. QED
    BY <2>1, <1>3, <1>4 DEF RunInv
<1>7. CASE Claim(r)
  <2>1. /\ run' \in [Runs -> SweepRun]
        /\ \A q \in Runs : q # r => run'[q] = run[q]
        /\ run[r].status = "pending" /\ run'[r].status = "running"
        /\ run'[r].reaped = run[r].reaped
    BY <1>2, <1>7 DEF Claim, SweepRun
  <2>2. QED
    BY <2>1, <1>3, <1>4 DEF RunInv
<1>8. ASSUME NEW status \in {"succeeded", "failed"}, run[r].working,
             run' = Finished(r, status, 0)
      PROVE  /\ run' \in [Runs -> SweepRun]
             /\ \A q \in Runs : q # r => run'[q] = run[q]
             /\ RunInv(r)'
  <2>1. PurgedBy(r) = {} /\ Cardinality(PurgedBy(r)) = 0
    BY <1>8, <1>3, FS_EmptySet DEF RunInv
  <2>2. 0 \in Nat
    OBVIOUS
  <2>3. /\ run' \in [Runs -> SweepRun]
        /\ \A q \in Runs : q # r => run'[q] = run[q]
        /\ ~run'[r].working /\ run'[r].reaped = run[r].reaped
        /\ run[r].status = "running" => run'[r].status = status /\ run'[r].purged = 0
        /\ run[r].status # "running" => /\ run'[r].status = run[r].status
                                        /\ run'[r].purged = run[r].purged
    BY <1>8, <1>3, <2>2, FinishedRun
  <2>4. QED
    BY <2>1, <2>3, <1>3, <1>4 DEF RunInv
<1>9. CASE ReadPolicy(r)
  <2>1. CASE Plannable(policy) /\ Supported(policy)
    <3>1. policy \in Policies
      BY <2>1 DEF SweepsInv, SweepsTypeOK, Plannable
    <3>2. WhereOf(policy) \in Where
      BY <2>1, <3>1, WhereTyped
    <3>3. run' = [run EXCEPT ![r].where = WhereOf(policy)]
      BY <1>9, <2>1 DEF ReadPolicy, Plannable
    <3>4. /\ run' \in [Runs -> SweepRun]
          /\ \A q \in Runs : q # r => run'[q] = run[q]
          /\ run'[r].status = run[r].status /\ run'[r].purged = run[r].purged
          /\ run'[r].working = run[r].working /\ run'[r].reaped = run[r].reaped
      BY <1>2, <3>2, <3>3 DEF SweepRun
    <3>5. QED
      BY <3>4, <1>3, <1>4 DEF RunInv
  <2>2. CASE ~(Plannable(policy) /\ Supported(policy))
    <3>1. run' = Finished(r, "succeeded", 0) \/ run' = Finished(r, "failed", 0)
      BY <1>9, <2>2 DEF ReadPolicy
    <3>2. QED
      BY <3>1, <1>8, <1>9 DEF ReadPolicy
  <2>3. QED
    BY <2>1, <2>2
<1>10. CASE SweepFails(r)
  BY <1>10, <1>8 DEF SweepFails
<1>11. CASE Crash(r)
  <2>1. /\ run' \in [Runs -> SweepRun]
        /\ \A q \in Runs : q # r => run'[q] = run[q]
        /\ run'[r].status = run[r].status /\ run'[r].purged = run[r].purged
        /\ ~run'[r].working /\ run'[r].reaped = run[r].reaped
    BY <1>2, <1>11 DEF Crash, SweepRun
  <2>2. QED
    BY <2>1, <1>3, <1>4 DEF RunInv
<1>12. CASE Reap(r)
  <2>1. /\ run' \in [Runs -> SweepRun]
        /\ \A q \in Runs : q # r => run'[q] = run[q]
        /\ run[r].status = "running" /\ run'[r].status = "failed"
        /\ run'[r].working = run[r].working /\ run'[r].reaped
    BY <1>2, <1>12 DEF Reap, SweepRun
  <2>2. PurgedBy(r) = {}
    BY <2>1, <1>3 DEF RunInv
  <2>3. QED
    BY <2>1, <2>2, <1>4 DEF RunInv
<1>13. QED
  BY <1>6, <1>7, <1>9, <1>10, <1>11, <1>12

\* The DELETE and its record.
LEMMA SweepInv ==
  ASSUME SweepsInv, NEW r \in Runs, Sweep(r)
  PROVE  SweepsInv'
<1> DEFINE gone == Expired(run[r].where)
<1>1. run \in [Runs -> SweepRun] /\ row \in [Rows -> Stored] /\ purger \in [Rows -> Runs \cup {Null}]
  BY DEF SweepsInv, SweepsTypeOK
<1>2. run[r].working /\ run[r].where \in Where
  BY <1>1 DEF Sweep, SweepRun
<1>3. /\ gone \in SUBSET Rows /\ Cardinality(gone) \in Nat
      /\ \A x \in gone : row[x] # Nothing
  BY <1>2, ExpiredThere
<1>4. /\ row' = [x \in Rows |-> IF x \in gone THEN Nothing ELSE row[x]]
      /\ purger' = [x \in Rows |-> IF x \in gone THEN r ELSE purger[x]]
      /\ run' = Finished(r, "succeeded", Cardinality(gone))
      /\ policy' = policy
  BY DEF Sweep
<1> HIDE DEF gone
<1>5. /\ run' \in [Runs -> SweepRun]
      /\ \A q \in Runs : q # r => run'[q] = run[q]
      /\ ~run'[r].working /\ run'[r].reaped = run[r].reaped
      /\ run[r].status = "running" =>
           run'[r].status = "succeeded" /\ run'[r].purged = Cardinality(gone)
      /\ run[r].status # "running" => run'[r].status = run[r].status
  BY <1>3, <1>4, FinishedRun DEF SweepsInv
<1>6. SweepsTypeOK'
  BY <1>1, <1>4, <1>5, NothingTyped DEF SweepsInv, SweepsTypeOK
<1>7. \A x \in gone : purger[x] = Null
  BY <1>3 DEF SweepsInv, RowsFresh
<1>8. RowsFresh'
  BY <1>4 DEF SweepsInv, RowsFresh
<1>9. RunInv(r) /\ PurgedBy(r) = {}
  BY <1>2 DEF SweepsInv, RunsInv, RunInv
<1>10. PurgedBy(r)' = gone
  BY <1>3, <1>4, <1>9 DEF PurgedBy
<1>11. RunInv(r)'
  BY <1>2, <1>5, <1>9, <1>10 DEF RunInv
<1>12. ASSUME NEW q \in Runs, q # r PROVE RunInv(q)'
  <2>1. PurgedBy(q)' = PurgedBy(q)
    BY <1>4, <1>7, <1>12, SweepsConstantsOK DEF PurgedBy
  <2>2. run'[q] = run[q] /\ RunInv(q)
    BY <1>5, <1>12 DEF SweepsInv, RunsInv
  <2>3. QED
    BY <2>1, <2>2 DEF RunInv
<1>13. QED
  BY <1>6, <1>8, <1>11, <1>12 DEF SweepsInv, RunsInv

\* Every step of the sweeps and of what else writes the tables keeps the invariant.
LEMMA SweepsStep == SweepsInv /\ [SweepsNext]_sweepVars => SweepsInv'
<1> SUFFICES ASSUME SweepsInv, [SweepsNext]_sweepVars PROVE SweepsInv'
  OBVIOUS
<1>1. CASE \/ \E p \in Policies \cup {Null} : AlterPolicy(p)
           \/ \E x \in Rows : Expire(x) \/ TurnLive(x)
           \/ \E x \in Rows, t \in Arriving, d \in Datasets \cup {Null} : Arrive(x, t, d)
  BY <1>1, OwnersInv
<1>2. ASSUME NEW r \in Runs,
             \/ CreatePendingSweep(r) \/ Claim(r) \/ ReadPolicy(r)
             \/ SweepFails(r) \/ Crash(r) \/ Reap(r)
      PROVE  SweepsInv'
  BY <1>2, RunStepInv
<1>3. ASSUME NEW r \in Runs, Sweep(r) PROVE SweepsInv'
  BY <1>3, SweepInv
<1>4. CASE UNCHANGED sweepVars
  BY <1>4, RunsKept DEF sweepVars, SweepsInv, SweepsTypeOK, RowsFresh
<1>5. QED
  BY <1>1, <1>2, <1>3, <1>4 DEF SweepsNext

\* The invariant of the sweeps holds in every reachable state.
THEOREM SweepsInvariant == SweepsSpec => []SweepsInv
BY SweepsStart, SweepsStep, PTL DEF SweepsSpec

-----------------------------------------------------------------------------
(* The theorems.                                                           *)

\* Every variable has its type: in particular a sweep that is to delete names a table of
\* the allowlist, whatever the policy says.
THEOREM SweepsTyped == SweepsSpec => []SweepsTypeOK
BY SweepsInvariant, PTL DEF SweepsInv

\* _do_sweep: the rows deleted are on record, under any order of sweeps, crashes, reaping
\* and changes of the policy: the run that deleted some has succeeded and counts them
\* exactly, unless it was reaped.
THEOREM PurgesOnRecord == SweepsSpec => []PurgeRecorded
<1>1. SweepsInv => PurgeRecorded
  <2>1. SUFFICES ASSUME SweepsInv, NEW r \in Runs
                 PROVE  /\ PurgedBy(r) # {} => run[r].status = "succeeded" \/ run[r].reaped
                        /\ run[r].status = "succeeded" =>
                             run[r].purged = Cardinality(PurgedBy(r))
    BY DEF PurgeRecorded, PurgedBy
  <2>2. QED
    BY <2>1 DEF SweepsInv, RunsInv, RunInv
<1>2. QED
  BY <1>1, SweepsInvariant, PTL

-----------------------------------------------------------------------------
(* The four together.  What a component does, the others only watch.       *)

\* A behaviour of the whole is one of each component.
LEMMA Projections ==
  PartsSpec => Spec /\ FlagsSpec /\ SubjectsSpec /\ SweepsSpec
<1>1. PartsInit => Init /\ FlagsInit /\ SubjectsInit /\ SweepsInit
  BY DEF PartsInit
<1>2. [PartsNext]_<<part, vars, flagVars, subjectVars, sweepVars>>
        => [Next]_vars /\ [FlagsNext]_flagVars /\ [SubjectsNext]_subjectVars /\ [SweepsNext]_sweepVars
  BY DEF PartsNext
<1> QED BY <1>1, <1>2, PTL DEF PartsSpec, Spec, FlagsSpec, SubjectsSpec, SweepsSpec

\* Every variable of every component has its type.
THEOREM AllTyped == PartsSpec => []TypesOK
<1>1. PartsSpec => [](part \in Parts)
  <2>1. PartsInit => part \in Parts
    BY DEF PartsInit
  <2>2. part \in Parts /\ [PartsNext]_<<part, vars, flagVars, subjectVars, sweepVars>>
          => (part \in Parts)'
    BY DEF PartsNext
  <2> QED BY <2>1, <2>2, PTL DEF PartsSpec
<1>2. part \in Parts /\ TypeOK /\ FlagsTypeOK /\ SubjectsTypeOK /\ SweepsTypeOK => TypesOK
  BY PartsOK DEF TypesOK
<1> QED
  BY <1>1, <1>2, Projections, SuggestionsTyped, FlagsTyped, SubjectsTyped, SweepsTyped, PTL

=============================================================================
