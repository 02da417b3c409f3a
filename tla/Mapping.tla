------------------------------ MODULE Mapping -------------------------------
(***************************************************************************)
(* What an ingest run makes of the values in a row (app/ingest/mapper.py,  *)
(* cursor.py, filters.py, and the watermark in service.py): its business   *)
(* key, its cursor value as a text that can be compared, the watermark, and*)
(* the literal the watermark becomes in the next run's $filter.  Ingest has*)
(* the protocol around them, over cursor values that are numbers.          *)
(*                                                                         *)
(* A cursor value is NoValue or a record of its form: "date" and "digits"  *)
(* with a number (of milliseconds, in a timestamp), "iso" with a local     *)
(* time, the digits of its fraction and its zone, "huge" (digits beyond    *)
(* every date), "infinite", "nan" or "junk".                               *)
(***************************************************************************)
EXTENDS Integers, Sequences, FiniteSets
LOCAL INSTANCE SequencesExt
LOCAL INSTANCE Functions

CONSTANTS
  KeyMax,     \* _KEY_MAX: 255
  Separator,  \* the character between the parts of a key
  Second,     \* milliseconds of a second: 1000
  NoValue     \* null

-----------------------------------------------------------------------------
(* Keys.  A part is a sequence of characters.                              *)

Joined(parts) ==
  FoldLeft(LAMBDA key, part : key \o <<Separator>> \o part, Head(parts), Tail(parts))

BusinessKey(parts) ==
  IF NoValue \in Range(parts) THEN NoValue
  ELSE SubSeq(Joined(parts), 1, IF Len(Joined(parts)) < KeyMax THEN Len(Joined(parts)) ELSE KeyMax)

-----------------------------------------------------------------------------
(* Cursor values.                                                          *)

Normalized(v) == IF v # NoValue /\ v.form = "date" THEN [form |-> "digits", n |-> v.n] ELSE v

\* float() reads them; the order of the finite ones is that of n.
Finite(v)  == v.form \in {"digits", "huge"}
Float(v)   == CASE v.form = "digits" -> v.n [] v.form = "huge" -> 1000 [] OTHER -> 10000
IsFloat(v) == v.form \in {"digits", "huge", "infinite", "nan"}

\* The characters of a text by their rank: '+' < '-' < '.' < digits < letters.  Numbers
\* have two digits at most.
Text(v) ==
  CASE v.form = "digits" -> IF v.n < 0 THEN <<2, 10 - v.n>>
                            ELSE IF v.n < 10 THEN <<10 + v.n>>
                            ELSE <<10 + (v.n \div 10), 10 + (v.n % 10)>>
    [] v.form = "huge"   -> <<19, 19>>
    [] v.form = "iso"    -> <<10 + v.local>>
                              \o (IF v.fraction = <<>> THEN <<>>
                                  ELSE <<3>> \o [i \in DOMAIN v.fraction |-> 10 + v.fraction[i]])
                              \o (IF v.zone = 0 THEN <<90>> ELSE <<1, 10 + v.zone>>)
    [] v.form = "infinite" -> <<73>>
    [] v.form = "nan"      -> <<78>>
    [] v.form = "junk"     -> <<95>>

LaterText(s, t) ==
  \E k \in DOMAIN s : /\ k <= Len(t) + 1 /\ SubSeq(s, 1, k - 1) = SubSeq(t, 1, k - 1)
                      /\ k = Len(t) + 1 \/ s[k] > t[k]

\* _later: numbers as numbers where the kind is one of numbers, all else as text.
Later(v, w, kind) ==
  CASE w = NoValue -> TRUE
    [] w # NoValue /\ kind \in {"numeric", "timestamp"} /\ IsFloat(v) /\ IsFloat(w) ->
         "nan" \notin {v.form, w.form} /\ Float(v) > Float(w)
    [] OTHER -> LaterText(Text(v), Text(w))

Acceptable(v, kind) ==
  CASE kind = "numeric"   -> Finite(v)
    [] kind = "timestamp" -> v.form \in {"digits", "iso"}
    [] OTHER              -> TRUE

-----------------------------------------------------------------------------
(* The watermark of a run, and its literal.                                *)

\* The values of a page that may become one.
PageValues(page, kind) ==
  SelectSeq([i \in DOMAIN page |-> Normalized(page[i])],
            LAMBDA v : v # NoValue /\ Acceptable(v, kind))

MaxOf(values, kind) ==
  FoldLeft(LAMBDA best, v : IF Later(v, best, kind) THEN v ELSE best, Head(values), Tail(values))

\* cut: the row cap struck, or the last page was full.
RunWatermark(pages, current, kind, cut) ==
  LET all    == FlattenSeq([i \in DOMAIN pages |-> PageValues(pages[i], kind)])
      ending == PageValues(Last(pages), kind)
      below  == SelectSeq(all, LAMBDA v : Later(MaxOf(ending, kind), v, kind))
      \* What may be advanced to.
      values == CASE ~cut -> all
                  [] cut /\ ending = <<>> -> <<>>
                  [] OTHER -> below
  IN IF values # <<>> /\ Later(MaxOf(values, kind), current, kind) THEN MaxOf(values, kind)
     ELSE current

\* Where a value stands in time, or among the numbers.
Instant(v) == IF v.form = "iso"
              THEN (v.local - v.zone) * Second
                     + (IF v.fraction = <<>> THEN 0 ELSE (v.fraction[1] * Second) \div 10)
              ELSE Float(v)

\* The instant, or the number, that the literal of a watermark denotes; NoValue where
\* making it fails.  A count of milliseconds loses its fraction of a second; other kinds
\* are texts, and quoted.
FilterLiteral(v, kind) ==
  CASE kind = "numeric" -> IF Finite(v) THEN Float(v) ELSE NoValue
    [] kind = "timestamp" /\ v.form = "digits" -> (v.n \div Second) * Second
    [] kind = "timestamp" /\ v.form = "iso" -> Instant(v)
    [] kind = "timestamp" /\ v.form = "huge" -> NoValue
    [] OTHER -> v

-----------------------------------------------------------------------------
(* Properties, of all inputs.                                              *)

\* Two rows whose key parts are short and free of the separator have one business key
\* only if every part is the same; a row that lacks a part has none.
KeysApart(p, q) ==
  LET Plain(row) == /\ NoValue \notin Range(row) /\ Len(Joined(row)) <= KeyMax
                    /\ \A part \in Range(row) : Separator \notin Range(part) IN
  /\ NoValue \in Range(p) <=> BusinessKey(p) = NoValue
  /\ Plain(p) /\ Plain(q) /\ Len(p) = Len(q) => (BusinessKey(p) = BusinessKey(q) <=> p = q)

\* Of one zone and of fractions of one length: what text compares rightly.
Uniform(values) ==
  \A v, w \in values : /\ v.form = w.form
                       /\ v.form = "iso" => v.zone = w.zone /\ Len(v.fraction) = Len(w.fraction)

\* Of values of one form, whatever else the source sent among them: the watermark becomes
\* the greatest value read, below the cut if there is one, never goes back, and always
\* has a literal, which does not lie after it, so that the next run reads on from there.
WatermarkSound(pages, current, kind, cut) ==
  LET Read(page) == Range(PageValues(page, kind))
      all  == UNION {Read(pages[i]) : i \in DOMAIN pages}
      last == Read(Last(pages))
      open == {v \in all : cut => \E w \in last : Instant(v) < Instant(w)}
      new  == RunWatermark(pages, current, kind, cut)
  IN Uniform(all \cup ({current} \ {NoValue})) =>
       /\ new = current \/ (new \in open /\ (current # NoValue => Instant(current) < Instant(new)))
       /\ \A v \in open : new # NoValue /\ Instant(v) <= Instant(new)
       /\ new # NoValue => /\ FilterLiteral(new, kind) \in Int
                           /\ FilterLiteral(new, kind) <= Instant(new)

=============================================================================
