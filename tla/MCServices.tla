----------------------------- MODULE MCServices -----------------------------
(***************************************************************************)
(* Small instances, for TLC, of the parts around the deletion, ingest and  *)
(* sequence protocols: the OData feed and its credentials, the records, the*)
(* worker's loop, fetching from a source, and the tokens of users.  They   *)
(* share no variable: a behaviour is one of the part that "part" names, and*)
(* the others stay as they start.  In the part "rules" nothing moves: its  *)
(* initial states are the inputs on which the pure functions are compared  *)
(* with what they are to compute.                                          *)
(***************************************************************************)
EXTENDS FeedServer, FeedFilter, Records, FeedCredentials, Egress, TokenAuth

CONSTANTS
  Parts,                         \* the parts of this instance
  Items, MaxAttempts, Batch, MaxFaults, MaxStops,   \* of WorkerLoop
  MaxSteps                       \* steps of the load sequences that are drawn

VARIABLES
  part, sample,
  status, stale, attempts, pc, job, stop, faults, stops   \* of WorkerLoop

workVars == <<status, stale, attempts, pc, job, stop, faults, stops>>
rest == <<part, sample>>

-----------------------------------------------------------------------------
(* The feed: two datasets of one name, four rows with a tie and a value    *)
(* that is no number, and queries with and without each option.            *)

MCIds == {1, 2}
MCName == [d \in Ids |-> [stem |-> "s", tail |-> "", n |-> <<>>]]
Num(n) == [null |-> FALSE, num |-> n, date |-> NoValue, bool |-> NoValue, text |-> n]
Odd == [null |-> FALSE, num |-> NoValue, date |-> NoValue, bool |-> NoValue, text |-> 9]
MCVal == <<Num(2), Odd, Num(1), Num(2)>>
MCTypes == [business_key |-> EdmTypeFor("string"), v |-> EdmTypeFor("num")]
MCQueries ==
  [ filter : {NoValue, <<"not", <<"cmp", "eq", "v", Num(1)>>>>},
    orderby : {NoValue, <<[property |-> "v", descending |-> TRUE]>>},
    top : {NoValue, 3}, count : {TRUE} ]

\* Credentials of the feed: two for one principal.
MCPrincipal == [c \in Creds |-> 1]

-----------------------------------------------------------------------------
(* The worker: a run, a deletion and scheduled runs.                       *)

MCKind == [i \in Items |-> CASE i = "r1" -> "run" [] i = "d1" -> "deletion"
                             [] OTHER -> "scheduled"]
Loop == INSTANCE WorkerLoop WITH Kind <- MCKind

-----------------------------------------------------------------------------
(* Fetching: two connections of one host, of which one has a source, and   *)
(* URLs that differ from its endpoint in one part each.                    *)

Url(scheme, host, port, path) == [scheme |-> scheme, host |-> host, port |-> port, path |-> path]
MCUrls ==
  { Url("https", "a", Unset, <<"x", "y">>), Url("http", "a", Unset, <<"x">>),
    Url("https", "a", 443, <<"x", "..", "z">>), Url("https", "b", Unset, <<>>),
    Url("https", "local", Unset, <<>>), Url("https", "a", NoValue, <<"x">>) }
MCEndpoint == [c1 |-> Url("https", "a", Unset, <<"x">>), c2 |-> Url("https", "a", Unset, <<>>)]
MCSecrets ==
  { [source |-> "s1", scheme |-> "basic", principal |-> "u", secret |-> "p"],
    [source |-> "s1", scheme |-> "basic", principal |-> "", secret |-> "p"],
    [source |-> "s1", scheme |-> "other", principal |-> "u", secret |-> "p"],
    [source |-> "s1", scheme |-> "basic", principal |-> "u", secret |-> ""] }
MCSourceOf == [c1 |-> "s1", c2 |-> Unset]
MCHostClass == [a |-> "public", b |-> "public", local |-> "loopback"]

-----------------------------------------------------------------------------
(* Tokens that name a published key, another key or none, and one that     *)
(* fails its other checks.                                                 *)

MCTokens ==
  [kid : KeyIds \cup {Missing}, key : KeyIds \cup {9}, valid : {TRUE}, roles : {{}, Roles}]
    \cup {[kid |-> 1, key |-> 1, valid |-> FALSE, roles |-> {}]}

-----------------------------------------------------------------------------
(* The inputs of the pure functions: expressions of $filter, rows of a     *)
(* chart, and flows between the steps of a process.                        *)

Lists(set, n) == UNION {[1 .. k -> set] : k \in 0 .. n}

Leaf == <<"cmp", "eq", "v", Num(1)>>
Deeper(asts) == asts \cup {<<"not", a>> : a \in asts}
                     \cup {<<op, a, b>> : op \in {"and", "or"}, a \in asts, b \in asts}
Expressions == Deeper(Deeper({Leaf})) \cup {<<"not", a>> : a \in Deeper(Deeper({Leaf}))}

\* Names with and without a suffix of their own, and two that fill the 128 characters.
Named(stem, tail, n) == [stem |-> stem, tail |-> tail, n |-> n]
BaseNames == {Named("s", "", <<>>), Named("s", "", <<2>>), Named("s", "t", <<>>),
              Named("s", "u", <<>>), BusinessKey}
NameLists == Lists(BaseNames, 4)

\* Labels that both paths print alike, that only one cuts or takes for blank, and that
\* are True here and true there; and one that the database sorts before its elders.
Text(stem, tail) == [stem |-> stem, tail |-> tail]
Shown(text) == [str |-> text, json |-> text]
PlainDimensions == {NoValue, Shown(Text(2, 0)), Shown(Text(3, 0))}
OddDimensions == PlainDimensions \cup {Shown(Text(0, 0)), Shown(Text(2, 1)), Shown(Text(6, 0)),
                                    [str |-> Text(4, 0), json |-> Text(5, 0)]}
Cell(form, n) == [form |-> form, n |-> n]
PlainMeasures == {NoValue, Cell("plain", 3), Cell("plain", 1)}
OddMeasures == PlainMeasures \cup {Cell("plain", 6), Cell("loose", 3), Cell("odd", 0)}
ChartRows == Lists([dimension : PlainDimensions, measure : PlainMeasures], 3)
               \cup Lists([dimension : OddDimensions, measure : OddMeasures], 2)
Position(label) == IF label.stem = 6 THEN 15 ELSE 10 * label.stem
MCCollates(a, b) == Position(a) + a.tail < Position(b) + b.tail
Charts == [aggregation : {"count", "sum", "avg", "max"},
           roles : {{}, {"measure"}, {"dimension", "measure"}, {"temporal", "measure"}}]
Series == INSTANCE ChartSeries
            WITH Null <- NoValue, Unparseable <- NoValue, Blank <- Text(1, 0),
                 OtherLabel <- Text(9, 0), Collates <- MCCollates, Scale <- 6, Grain <- 9

Step(key, type) == [key |-> key, ordinal |-> 1, type |-> type, impl |-> "x"]
Steps(type) == <<Step(1, "end"), Step(2, "start"), Step(3, type), Step(4, "user")>>
Flow(key, ends) == [key |-> key, source |-> ends[1], target |-> ends[2],
                    default |-> ends[1] = 3, condition |-> NoValue]
FlowLists == UNION {{[i \in 1 .. n |-> Flow(i, ends[i])] :
                       ends \in [1 .. n -> (1 .. 3) \X (1 .. 3)]} : n \in 0 .. 3}
Bpmn == INSTANCE Diagrams WITH BadKeys <- {}, MaxAdditions <- 3, NoImpl <- NoValue

\* Types of one short name in two namespaces, and sets that name them in full or not.
EntityType(ns, name, props, keys) == [ns |-> ns, name |-> name, props |-> props, keys |-> keys]
TypeLists == Lists({EntityType("p", "C", <<"i">>, {"i"}), EntityType("q", "C", <<"i", "j">>, {}),
                    EntityType("q", "D", <<"j">>, {"j"})}, 2)
SetLists == Lists([name : {"S", "T"}, ref : [ns : {"", "p", "q"}, name : {"C"}]], 2)
Words == {<<"single", "contact">>, <<"single", "location">>, <<"address", "location">>,
          <<"left", "location">>, <<"right", "location">>, <<"single", "network_identifier">>}
Values == [formats : {{}, {"email"}, {"phone"}, {"phone", "ssn"}}, numeric : BOOLEAN]
Dimensions(n) == [rows : {n}, distinct : {2, 26, 55, 60}]
Measures(n) == [rows : {n}, nulls : {0, 1, 3}]
Schema == INSTANCE SchemaRules

\* Rows of two key parts, and pages of values that a timestamp or a number may have.
KeyRows == Lists({NoValue} \cup Lists({"a", "|"}, 2), 2) \ {<<>>}
Iso(local, fraction, zone) == [form |-> "iso", local |-> local, fraction |-> fraction, zone |-> zone]
CursorValues == {NoValue, Iso(2, <<>>, 0), Iso(1, <<5>>, 0), Iso(2, <<>>, 2)}
                  \cup {[form |-> f] : f \in {"huge", "infinite", "nan", "junk"}}
                  \cup {[form |-> "date", n |-> -3], [form |-> "digits", n |-> 2], [form |-> "digits", n |-> 12]}
Pages == {<<p, q>> : p \in Lists(CursorValues, 2), q \in Lists(CursorValues, 1)}
           \cup {<<p>> : p \in Lists({Iso(1, <<>>, 0), Iso(2, <<>>, 0), Iso(2, <<5>>, 0)}, 3)}
Watermarks == {NoValue, Iso(1, <<>>, 0), [form |-> "digits", n |-> 1]}
Mapper == INSTANCE Mapping WITH KeyMax <- 4, Separator <- "|", Second <- 10

Sample(kind, of) == [kind |-> kind, of |-> of]
SchemaSamples ==
  {Sample("schema", <<t, e>>) : t \in TypeLists, e \in SetLists}
    \cup {Sample("words", w) : w \in SUBSET Words}
    \cup {Sample("values", v) : v \in Lists(Values, 3)}
    \cup {Sample("profile", x) :
            x \in {0, 500, 1000} \X (Dimensions(0) \cup Dimensions(100)) \X (Measures(0) \cup Measures(3))}
    \cup {Sample("stats", r) : r \in Lists(0 .. 2, 3)}
Samples == SchemaSamples \cup {Sample("keys", k) : k \in KeyRows} \cup {Sample("pages", p) : p \in Pages}
             \cup {Sample("filter", e) : e \in Expressions} \cup {Sample("names", n) : n \in NameLists}
             \cup {Sample("rows", r) : r \in ChartRows} \cup {Sample("flows", f) : f \in FlowLists}

-----------------------------------------------------------------------------
ASSUME InstancesOK == Loop!LoopConstantsOK

Init ==
  /\ part \in Parts
  /\ IF part = "rules" THEN sample \in Samples ELSE sample = NoValue
  /\ IF part = "feed" THEN FeedInit
     ELSE FeedInit /\ datasets = <<1, 2>> /\ landed = [d \in Ids |-> {}]
  /\ RecordsInit /\ (part # "records" => focus = {"audit_logs"})
  /\ CredInit
  /\ Loop!LoopInit
  /\ EgressInit
  /\ AuthInit /\ (part # "auth" => mode = "production" /\ published = {})

Next ==
  \/ part = "feed" /\ FeedNext
       /\ UNCHANGED <<rest, recordsVars, credVars, workVars, egressVars, authVars>>
  \/ part = "records" /\ RecordsNext
       /\ UNCHANGED <<rest, feedVars, credVars, workVars, egressVars, authVars>>
  \/ part = "credentials" /\ CredNext
       /\ UNCHANGED <<rest, feedVars, recordsVars, workVars, egressVars, authVars>>
  \/ part = "worker" /\ Loop!LoopNext
       /\ UNCHANGED <<rest, feedVars, recordsVars, credVars, egressVars, authVars>>
  \/ part = "egress" /\ EgressNext
       /\ UNCHANGED <<rest, feedVars, recordsVars, credVars, workVars, authVars>>
  \/ part = "auth" /\ AuthNext
       /\ UNCHANGED <<rest, feedVars, recordsVars, credVars, workVars, egressVars>>

Spec == /\ Init
        /\ [][Next]_<<rest, feedVars, recordsVars, credVars, workVars, egressVars, authVars>>
        /\ part = "worker" => Loop!LoopFairness

-----------------------------------------------------------------------------
(* Properties of the parts: see their modules.                             *)

\* See WorkerLoop.
QueuesDrain == part = "worker" => Loop!QueuesDrain

\* The pure functions compute what they are to: an expression of $filter is read back as
\* it was meant, to the depth the parser allows, and names are told apart (FeedFilter); a
\* chart of landed rows adds up to all of them, and is the sampled chart of the same rows
\* where both paths read their values alike (ChartSeries); a diagram's steps stand apart,
\* along its flows, within its extent, whatever order its rows are in (Diagrams); and what is read from a schema, a name, a
\* sample or a profile is as SchemaRules says; and rows keep their own keys, and a run the
\* watermark it has earned (Mapping).
RulesAgree ==
  part = "rules" =>
    CASE sample.kind = "filter" -> ReadsBack(sample.of)
      [] sample.kind = "names" -> NamesApart(sample.of)
      [] sample.kind = "rows" ->
           /\ \A cap \in 1 .. 2 : Series!LandedSeriesConserves(sample.of, cap)
           /\ \A c \in Charts, flagged \in {{}, {"f"}} :
                Series!EndpointsAgree(c, flagged, sample.of, 2)
      [] sample.kind = "flows" ->
           /\ \A type \in {"user", "gateway"} : Bpmn!DrawnSoundly(Steps(type), sample.of)
           /\ Len(sample.of) <= MaxSteps => Bpmn!ProjectionDrawn(Len(sample.of))
      [] sample.kind = "schema" -> Schema!SchemaReadSoundly(sample.of[1], sample.of[2])
      [] sample.kind = "words" -> \A key \in BOOLEAN : Schema!NamesFlagged(sample.of, key)
      [] sample.kind = "values" -> Schema!ValuesFlagged(sample.of)
      [] sample.kind = "profile" -> Schema!ScoreStays(sample.of[1], sample.of[2], sample.of[3])
      [] sample.kind = "keys" -> \A row \in KeyRows : Mapper!KeysApart(sample.of, row)
      [] sample.kind = "pages" ->
           \A w \in Watermarks, kind \in {"numeric", "timestamp"}, cut \in BOOLEAN :
             (w = NoValue \/ Mapper!Acceptable(w, kind))
               => Mapper!WatermarkSound(sample.of, w, kind, cut)
      [] sample.kind = "stats" -> Schema!StatsHonourErasure(sample.of)

=============================================================================
