---------------------------- MODULE ChartSeries -----------------------------
(***************************************************************************)
(* The series of a chart, as pure functions: over the sampled rows         *)
(* (app/dashboard/data_service.py and series/dashboard_item_series.py) and *)
(* over the landed ones (aggregate_series of app/ingest/landing.py), with  *)
(* the preconditions under which there is one.                             *)
(*                                                                         *)
(* A row is [dimension, measure], as its JSON has them; each path reads a  *)
(* label and a number out of it in its own way, str() and float() here,    *)
(* ->> and a pattern there.  Labels are [stem, tail] with numbers in their *)
(* sort order: the first 120 characters, and those past them (0 is none).  *)
(* Numbers are whole; sums and averages are in units of 1/Scale, where the *)
(* sample keeps whole grains (its 4 decimals).  Which rows are an erased   *)
(* subject's, and dropped first, is in ErasedSubjects.                     *)
(***************************************************************************)
EXTENDS Integers, Sequences, FiniteSets
LOCAL INSTANCE FiniteSetsExt
LOCAL INSTANCE SequencesExt
LOCAL INSTANCE Functions

CONSTANTS
  Null,            \* a value that is null or missing
  Unparseable,     \* no number
  Blank,           \* the label "(blank)"
  OtherLabel,      \* the label "Other"
  Collates(_, _),  \* the database's order of labels
  Scale,           \* fractions an average is told apart to
  Grain            \* of which the sample's results are whole multiples

-----------------------------------------------------------------------------
(* What each path reads out of a row.  A dimension is Null or has its text *)
(* as str() prints it and as ->> does (True and true).  A measure is Null, *)
(* "plain" digits with a sign and a fraction, "loose" (1e3, +5, a space,   *)
(* true: float() takes it and the pattern does not) or "odd".              *)

EmptyText == [stem |-> 0, tail |-> 0]

SampleLabel(dimension) ==
  IF dimension = Null THEN Blank ELSE [dimension.str EXCEPT !.tail = 0]
LandedLabel(dimension) ==
  IF dimension = Null THEN Blank
  ELSE IF dimension.json = EmptyText THEN Blank ELSE dimension.json

Number(measure, forms) ==
  IF measure = Null THEN Unparseable
  ELSE IF measure.form \in forms THEN measure.n ELSE Unparseable

Sampled(rows) ==
  [i \in DOMAIN rows |-> [label |-> SampleLabel(rows[i].dimension),
                         value |-> Number(rows[i].measure, {"plain", "loose"})]]
Landed(rows) ==
  [i \in DOMAIN rows |-> [label |-> LandedLabel(rows[i].dimension),
                         value |-> Number(rows[i].measure, {"plain"})]]

-----------------------------------------------------------------------------
(* Of rows read as [label, value].                                         *)

Rows(rows, label) == {i \in DOMAIN rows : rows[i].label = label}
Labels(rows) == {rows[i].label : i \in DOMAIN rows}
Parseable(rows, is) == {i \in is : rows[i].value # Unparseable}
SumOf(rows, is) == FoldFunctionOnSet(+, 0, [i \in DOMAIN rows |->
                     IF rows[i].value = Unparseable THEN 0 ELSE rows[i].value], is)

-----------------------------------------------------------------------------
(* item_data and series_data, before a row is read.                        *)

\* An item is [aggregation, roles]; its fields must be of one dataset, none with an
\* active flag, and a sum or an average needs a measure.
Chartable(item, datasets, flagged) ==
  /\ Cardinality(datasets) = 1
  /\ flagged = {}
  /\ item.aggregation \in {"count", "sum", "avg"}
  /\ item.aggregation = "count" \/ "measure" \in item.roles

\* item_data takes the dataset of the suggestion where the item has no fields.
DatasetsOf(ofFields, ofSuggestion) == IF ofFields = {} THEN ofSuggestion ELSE ofFields

\* A dimension before a temporal field; none makes it a single number.
AxisOf(item) ==
  CASE "dimension" \in item.roles -> "dimension"
    [] "dimension" \notin item.roles /\ "temporal" \in item.roles -> "temporal"
    [] OTHER -> "none"

-----------------------------------------------------------------------------
(* Buckets.  A sample leaves out the rows without a number, SQL counts     *)
(* them as 0 in a bucket of their own label.                               *)

Average(rows, is) ==
  LET n == Cardinality(Parseable(rows, is))
  IN IF n = 0 THEN 0 ELSE (Scale * SumOf(rows, is)) \div n

Value(rows, is, agg) ==
  CASE agg = "count" -> Cardinality(is) [] agg = "sum" -> Scale * SumOf(rows, is)
    [] agg = "avg" -> Average(rows, is)

\* The sample's are rounded to the nearest grain, but for a count.
Rounded(value, agg) ==
  IF agg = "count" THEN value ELSE Grain * ((2 * value + Grain) \div (2 * Grain))

SampleBuckets(rows, agg) ==
  {[label |-> l, value |-> Rounded(Value(rows, Rows(rows, l), agg), agg)] :
     l \in {m \in Labels(rows) : agg = "count" \/ Parseable(rows, Rows(rows, m)) # {}}}

LandedBuckets(rows, agg) ==
  {[label |-> l, value |-> Value(rows, Rows(rows, l), agg)] : l \in Labels(rows)}

Precedes(a, b) == a.stem < b.stem \/ (a.stem = b.stem /\ a.tail < b.tail)
BiggestFirst(p, q, inOrder) == p.value > q.value \/ (p.value = q.value /\ inOrder)

\* A single number: a sum or a count of nothing is 0, an average of nothing is none.
SinglePoint(rows, agg) ==
  IF agg = "avg" /\ Parseable(rows, DOMAIN rows) = {} THEN <<>>
  ELSE <<Rounded(Value(rows, DOMAIN rows, agg), agg)>>

\* The sample: a time axis in the order of its labels, anything else biggest first;
\* what is past the cap is not shown.
SampleSeries(rows, agg, axis, cap) ==
  LET Before(p, q) == IF axis = "temporal" THEN Precedes(p.label, q.label)
                      ELSE BiggestFirst(p, q, Precedes(p.label, q.label))
      pairs == SetToSortSeq(SampleBuckets(rows, agg), Before)
  IN [series |-> SubSeq(pairs, 1, Min({cap, Len(pairs)})), buckets |-> Len(pairs)]

\* The landed rows: biggest first whatever the axis, and what is past the cap is
\* added up under Other.
CappedWithOther(pairs, cap) ==
  IF Len(pairs) <= cap THEN pairs
  ELSE Append(SubSeq(pairs, 1, cap),
              [label |-> OtherLabel,
               value |-> FoldSeq(LAMBDA p, n : n + p.value, 0,
                                 SubSeq(pairs, cap + 1, Len(pairs)))])

LandedSeries(rows, agg, cap) ==
  LET Before(p, q) == BiggestFirst(p, q, Collates(p.label, q.label))
      pairs == SetToSortSeq(LandedBuckets(rows, agg), Before)
  IN [series |-> CappedWithOther(pairs, cap), buckets |-> Len(pairs)]

-----------------------------------------------------------------------------
(* The two responses: an error, or the series with the number of buckets.  *)

Refused == [series |-> <<>>, buckets |-> 0, refused |-> TRUE, truncated |-> FALSE]
Response(result) ==
  [series |-> result.series, buckets |-> result.buckets, refused |-> FALSE,
   truncated |-> result.buckets > Len(result.series)]

\* A page fetched from the source, which needs a connection's endpoint.
FromSample(item, endpoint, sample, cap) ==
  CASE ~endpoint -> Refused
    [] endpoint /\ AxisOf(item) = "none" ->
         LET points == SinglePoint(Sampled(sample), item.aggregation)
         IN Response([series |-> points, buckets |-> Len(points)])
    [] OTHER -> Response(SampleSeries(Sampled(sample), item.aggregation, AxisOf(item), cap))

SeriesData(item, datasets, flagged, endpoint, sample, cap) ==
  IF Chartable(item, datasets, flagged) THEN FromSample(item, endpoint, sample, cap)
  ELSE Refused

\* Landed rows are preferred, except for a single number: where a payload of the dataset
\* has landed, an erased subject's too, the rows that are left are the chart.
ItemData(item, ofFields, ofSuggestion, flagged, endpoint, hasLanded, landedRows, sample, cap) ==
  CASE ~Chartable(item, DatasetsOf(ofFields, ofSuggestion), flagged) -> Refused
    [] Chartable(item, DatasetsOf(ofFields, ofSuggestion), flagged)
         /\ AxisOf(item) # "none" /\ hasLanded ->
         Response(LandedSeries(Landed(landedRows), item.aggregation, cap))
    [] OTHER -> FromSample(item, endpoint, sample, cap)

-----------------------------------------------------------------------------
(* Properties, of every sequence of rows.                                  *)

Total(series) == FoldSeq(LAMBDA p, n : n + p.value, 0, series)

\* The landed series adds up to the whole data, the count or the sum of all its rows,
\* however many buckets there are and whatever their labels and values.
LandedSeriesConserves(rows, cap) ==
  \A agg \in {"count", "sum"} :
    Total(LandedSeries(Landed(rows), agg, cap).series)
      = Value(Landed(rows), DOMAIN rows, agg)

\* Both paths read the same labels and numbers, and put the labels in one order.
ReadAlike(rows) ==
  /\ Sampled(rows) = Landed(rows)
  /\ \A l, m \in Labels(Landed(rows)) : Collates(l, m) <=> Precedes(l, m)

\* And neither cuts, leaves out or rounds a bucket, or orders them by time.
NothingLost(item, rows, cap) ==
  /\ AxisOf(item) # "temporal"
  /\ Cardinality(Labels(rows)) <= cap
  /\ \A l \in Labels(rows) : Parseable(rows, Rows(rows, l)) # {}
  /\ \A p \in LandedBuckets(rows, item.aggregation) :
       Rounded(p.value, item.aggregation) = p.value

\* The two endpoints refuse the same items, and of a dataset of which nothing has landed
\* they show one chart.  So they do of landed rows that are all the sampled page has,
\* where both paths read these alike and lose nothing of them ("SQL over the landing table
\* replaces the live sample"): every subject's rows may have been erased.  Where str() and
\* ->>, or float() and the pattern, read a value differently the charts do differ.
EndpointsAgree(item, flagged, rows, cap) ==
  LET series == SeriesData(item, {1}, flagged, TRUE, rows, cap)
      Drawn(hasLanded, landed) ==
        ItemData(item, {1}, {}, flagged, TRUE, hasLanded, landed, rows, cap)
  IN /\ Drawn(FALSE, <<>>) = series
     /\ Drawn(TRUE, rows).refused = series.refused
     /\ (Chartable(item, {1}, flagged) /\ ReadAlike(rows) /\ NothingLost(item, Landed(rows), cap))
          => Drawn(TRUE, rows) = series

=============================================================================
