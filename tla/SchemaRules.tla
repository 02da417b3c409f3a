---------------------------- MODULE SchemaRules -----------------------------
(***************************************************************************)
(* The pure rules over a schema: reading $metadata into datasets           *)
(* (app/discovery/schema_reader.py), dashboard suggestions from types and  *)
(* names (app/suggestion/engine.py), their score from profiles             *)
(* (app/suggestion/rescore.py), and the two tiers of PII detection         *)
(* (app/pii/engine.py, app/pii/values.py).                                 *)
(*                                                                         *)
(* A word of a name is the set of the token lists it is in, a value is the *)
(* set of the formats it matches: the lists and the regular expressions    *)
(* themselves are data.  Scores are in thousandths, positions start at 1.  *)
(***************************************************************************)
EXTENDS Integers, Sequences, FiniteSets
LOCAL INSTANCE FiniteSetsExt
LOCAL INSTANCE SequencesExt

-----------------------------------------------------------------------------
(* Seeded faults: each stands in for the definition named.                 *)

\* NameCategories where an address gives way to any other evidence.
NameCategoriesYielding(words) ==
  LET hits == {w[2] : w \in words \cap ({"single"} \X {w[2] : w \in words})}
  IN IF Cardinality(hits) > 1 THEN hits \ {"location"} ELSE hits

\* Resolve with the first type that has the short name, whatever its namespace.
ResolveShort(types, ref) ==
  LET short == {i \in DOMAIN types : types[i].name = ref.name}
  IN IF short = {} THEN 0 ELSE Min(short)

-----------------------------------------------------------------------------
(* $metadata: entity types [ns, name, props, keys] and entity sets [name,  *)
(* ref], a reference being a name with or without ("") a namespace.        *)

\* The dict of types: under the short and the qualified name, the last one wins;
\* a qualified name nobody has falls back on the short one.  0: unresolved.
Resolve(types, ref) ==
  LET short == {i \in DOMAIN types : types[i].name = ref.name}
      exact == {i \in short : ref.ns = "" \/ types[i].ns = ref.ns}
  IN CASE exact # {} -> Max(exact)
       [] exact = {} /\ short # {} -> Max(short)
       [] OTHER -> 0

\* A set of an unresolved type is skipped, and so is a name read before; the
\* properties become fields by position, marked where they are in the key.
DatasetOf(types, set) ==
  LET t == types[Resolve(types, set.ref)] IN
  [name   |-> set.name,
   fields |-> [i \in DOMAIN t.props |-> [name |-> t.props[i], key |-> t.props[i] \in t.keys]]]

ReadSchema(types, sets) ==
  LET Kept(i) == /\ Resolve(types, sets[i].ref) # 0
                 /\ \A j \in 1 .. i - 1 : sets[j].name = sets[i].name
                                            => Resolve(types, sets[j].ref) = 0
      kept == SetToSortSeq({i \in DOMAIN sets : Kept(i)}, <)
  IN [k \in DOMAIN kept |-> DatasetOf(types, sets[kept[k]])]

\* discover_source restricted to some entity sets: all of them must be there.
SelectEntitySets(datasets, wanted) ==
  [ok |-> wanted \subseteq {datasets[i].name : i \in DOMAIN datasets},
   sets |-> SelectSeq(datasets, LAMBDA d : d.name \in wanted)]

-----------------------------------------------------------------------------
(* Suggestions.  A column is [name, type, words, key, position]; a word is *)
(* a subset of {"additive", "nonadditive", "identifier", "enum", "excluded"}. *)

IsNumeric(c)  == c.type = "numeric"
IsTemporal(c) == c.type = "temporal"
IsString(c)   == c.type = "string"

Some(c, list) == \E i \in DOMAIN c.words : list \in c.words[i]

IsAdditiveMeasure(c) ==
  /\ c.words # <<>>
  /\ "identifier" \notin c.words[Len(c.words)]
  /\ ~Some(c, "nonadditive") /\ Some(c, "additive")

IsGoodDimension(c) == ~Some(c, "excluded") /\ Some(c, "enum")

\* The positions of the columns of each kind, and the first of them, if there is one.
Measures(cs) ==
  {i \in DOMAIN cs : ~cs[i].key /\ IsNumeric(cs[i]) /\ IsAdditiveMeasure(cs[i])}
Dimensions(cs) == {i \in DOMAIN cs : ~cs[i].key /\ IsString(cs[i]) /\ IsGoodDimension(cs[i])}
Temporals(cs)  == {i \in DOMAIN cs : IsTemporal(cs[i])}
First(positions) == {i \in positions : \A j \in positions : i <= j}

\* The fingerprint: type, aggregation and the fields by role, in no order.
Fingerprint(type, aggregation, fields) == [type |-> type, agg |-> aggregation, fields |-> fields]

\* R6: the first width columns by position; those without one come last.
FirstByPosition(cs, width) ==
  {cs[i] : i \in {j \in DOMAIN cs :
     Cardinality({k \in DOMAIN cs : \/ cs[k].position < cs[j].position
                                    \/ cs[k].position = cs[j].position /\ k < j}) < width}}

\* R1 to R6.  R3 and R5 take the first of each kind, in the order of the rows.
Candidates(cs, width) ==
  LET Field(role, i) == <<role, cs[i].name>>
      m == Measures(cs)
      d == Dimensions(cs)
  IN {Fingerprint("kpi", "count", {})}
     \cup {Fingerprint("kpi", "sum", {Field("measure", i)}) : i \in m}
     \cup {Fingerprint("line", "sum", {Field("temporal", i), Field("measure", j)}) :
             i \in First(Temporals(cs)), j \in First(m)}
     \cup {Fingerprint("bar", "count", {Field("dimension", i)}) : i \in d}
     \cup {Fingerprint("bar", "sum", {Field("dimension", i), Field("measure", j)}) :
             i \in First(d), j \in First(m)}
     \cup {Fingerprint("table", "none", {<<"display", c.name>> : c \in cols}) :
             cols \in {FirstByPosition(cs, width)} \ {{}}}

Greater(a, b) == IF a >= b THEN a ELSE b
OnScale(score) == IF score < 0 THEN 0 ELSE IF score > 1000 THEN 1000 ELSE score

\* 0.45 + 0.35 * fill, rounded to the nearest thousandth.
FillScore(measure) ==
  450 + (700 * (measure.rows - measure.nulls) + measure.rows) \div (2 * measure.rows)

\* rescore: a profiled dimension replaces the score, a profiled measure can only
\* raise it, also that of a dimension just demoted.  rows = 0: no profile.  -1: nothing
\* to score.
ProfileScore(base, dim, measure) ==
  LET few   == dim.distinct <= 25 /\ 2 * dim.distinct < dim.rows
      byDim == CASE dim.rows = 0 -> base
                 [] dim.rows # 0 /\ few -> 820
                 [] dim.rows # 0 /\ ~few /\ 10 * dim.distinct >= 6 * dim.rows -> 120
                 [] OTHER -> 450
      byFill == IF measure.rows = 0 THEN byDim ELSE Greater(byDim, FillScore(measure))
  IN IF dim.rows = 0 /\ measure.rows = 0 THEN -1 ELSE OnScale(byFill)

-----------------------------------------------------------------------------
(* PII by name.  A word of a name is <<"single", c>> (it fires category c  *)
(* alone), <<"left", c>> or <<"right", c>> (it does with its other half),  *)
(* or <<"address", "location">>.                                           *)

\* The generic "address" yields to a contact or a network identifier, unless
\* something else says location too.
NameCategories(words) ==
  LET single  == {w[2] : w \in {v \in words : v[1] \in {"single", "address"}}}
      pair    == {w[2] : w \in {v \in words : v[1] = "left" /\ <<"right", v[2]>> \in words}}
      yields  == /\ <<"address", "location">> \in words
                 /\ <<"single", "location">> \notin words /\ "location" \notin pair
                 /\ {"contact", "network_identifier"} \cap (single \cup pair) # {}
  IN (single \cup pair) \ (IF yields THEN {"location"} ELSE {})

\* A key no rule fires on is flagged all the same.
NameCandidates(words, key) ==
  IF key /\ NameCategories(words) = {} THEN {"direct_identifier"} ELSE NameCategories(words)

Confidence(words, key) ==
  CASE key /\ NameCategories(words) = {} -> 750
    [] key /\ NameCategories(words) # {} -> 800
    [] OTHER -> 600

-----------------------------------------------------------------------------
(* PII by value.  A value is [formats, numeric]; NULLs are left out.       *)

\* The validating detectors claim first; a phone number counts only without them,
\* and never for a number.
ValueCategories(v) ==
  LET valid == {c \in {"contact", "financial", "government_id", "network_identifier"} :
                  CASE c = "contact" -> "email" \in v.formats
                    [] c = "financial" -> v.formats \cap {"iban", "card"} # {}
                    [] c = "government_id" -> "ssn" \in v.formats
                    [] OTHER -> "ip" \in v.formats}
      hits  == IF valid = {} /\ "phone" \in v.formats THEN {"contact"} ELSE valid
  IN hits \ (IF v.numeric THEN {"contact"} ELSE {})

\* At least half of the sample; an empty sample is no evidence.
CategoriesAboveFloor(sample) ==
  {c \in UNION {ValueCategories(sample[i]) : i \in DOMAIN sample} :
     2 * Cardinality({i \in DOMAIN sample : c \in ValueCategories(sample[i])}) >= Len(sample)}

\* _stats: counts over all rows, values over the rows of subjects not erased.
Stats(rows, kept) ==
  LET present == SelectSeq(rows, LAMBDA v : v # 0)
      shown   == {kept[i] : i \in DOMAIN kept} \ {0}
  IN [rows |-> Len(rows), nulls |-> Len(rows) - Len(present),
      distinct |-> Cardinality({present[i] : i \in DOMAIN present}),
      low  |-> IF shown = {} THEN 0 ELSE Min(shown),
      high |-> IF shown = {} THEN 0 ELSE Max(shown)]

-----------------------------------------------------------------------------
(* Properties, of every schema, name, sample and profile.                  *)

\* A set that names its type in full gets that type's fields, wherever the type stands
\* in the document, and a discovery restricted to some sets reads of them what an
\* unrestricted one does.
SchemaReadSoundly(types, sets) ==
  LET named == {<<types[i].ns, types[i].name>> : i \in DOMAIN types}
      full  == \A i \in DOMAIN sets : <<sets[i].ref.ns, sets[i].ref.name>> \in named
      read  == ReadSchema(types, sets)
  IN /\ full /\ Cardinality(named) = Len(types) => ReadSchema(Reverse(types), sets) = read
     /\ \A wanted \in SUBSET {sets[i].name : i \in DOMAIN sets} :
          LET chosen == SelectEntitySets(read, wanted) IN
          chosen.ok => chosen.sets = ReadSchema(types, SelectSeq(sets, LAMBDA e : e.name \in wanted))

\* "Fail toward review": a key is always flagged, and another word in a name takes no
\* category away but a location of which "address" is all the evidence.
NamesFlagged(words, key) ==
  /\ key => NameCandidates(words, key) # {} /\ Confidence(words, key) > Confidence(words, FALSE)
  /\ \A w \in words :
       LET lost == NameCategories(words \ {w}) \ NameCategories(words)
       IN lost # {} => /\ lost = {"location"} /\ <<"address", "location">> \in words
                       /\ <<"single", "location">> \notin words

\* One match among three values or more is a stray one, and a number is nobody's phone.
ValuesFlagged(sample) ==
  \A c \in CategoriesAboveFloor(sample) :
    /\ Len(sample) > 2 => \E i, j \in DOMAIN sample :
         i # j /\ {c} \subseteq ValueCategories(sample[i]) \cap ValueCategories(sample[j])
    /\ c = "contact" => \E i \in DOMAIN sample : ~sample[i].numeric

\* A profile seen twice scores as it did the first time, on the scale.
ScoreStays(base, dim, measure) ==
  LET once == ProfileScore(base, dim, measure)
  IN once # -1 => once \in 0 .. 1000 /\ ProfileScore(once, dim, measure) = once

\* Whoever is erased, the counts stay and the values are those of somebody left.
StatsHonourErasure(rows) ==
  \A kept \in {SelectSeq(rows, LAMBDA v : v \in some) : some \in SUBSET ToSet(rows)} :
    LET s == Stats(rows, kept) IN
    /\ [s EXCEPT !.low = 0, !.high = 0] = [Stats(rows, rows) EXCEPT !.low = 0, !.high = 0]
    /\ {s.low, s.high} \subseteq ToSet(kept) \cup {0} /\ s.low <= s.high
    /\ s.distinct + s.nulls <= s.rows


=============================================================================
