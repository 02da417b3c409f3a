----------------------------- MODULE FeedFilter -----------------------------
(***************************************************************************)
(* $filter and $orderby of the OData feed (app/feed/filter_parse.py,       *)
(* app/feed/filter_eval.py, app/feed/naming.py and the rows and the sort   *)
(* of app/api/feed_odata.py), as pure functions.                           *)
(*                                                                         *)
(* A token is [kind, word]: a word stands for its spellings in any case, a *)
(* literal's word is its value.  A value is [null, num, date, bool, text]: *)
(* what each coercion makes of it, NoValue where it fails.                 *)
(***************************************************************************)
EXTENDS Integers, Sequences, FiniteSets
LOCAL INSTANCE FiniteSetsExt
LOCAL INSTANCE SequencesExt

CONSTANTS
  MaxDepth,   \* _MAX_DEPTH
  Name,       \* dataset -> the identifier made of its name
  Val,        \* business key, a number -> the value of property "v" in its row
  Types,      \* property -> type
  NoValue     \* None

Connectives == {"and", "or", "not"}
Comparisons == {"eq", "ne", "gt", "ge", "lt", "le"}

Error == [ok |-> FALSE, node |-> NoValue, pos |-> 0]
Parsed(node, pos) == [ok |-> TRUE, node |-> node, pos |-> pos]

Token(kind, word) == [kind |-> kind, word |-> word]
Is(toks, p, word) == toks[p].kind = "ident" /\ toks[p].word = word

-----------------------------------------------------------------------------
(* The parser: or_expr over and_expr over not_expr over comparisons.  Both *)
(* brackets and "not" count towards the depth.                             *)

Operand(word) == IF word = "or" THEN "and" ELSE "not"

RECURSIVE ParseChain(_, _, _, _), ParseRest(_, _, _, _), ParseNot(_, _, _)

\* What a connective's level reads first: an operand of the next level.
ParseOperand(word, toks, p, depth) ==
  IF Operand(word) = "not" THEN ParseNot(toks, p, depth)
                           ELSE ParseChain(Operand(word), toks, p, depth)

\* The loop of _parse_or and _parse_and: it leans to the left.
ParseRest(word, toks, left, depth) ==
  IF ~left.ok \/ ~Is(toks, left.pos, word) THEN left
  ELSE LET right == ParseOperand(word, toks, left.pos + 1, depth) IN
       IF ~right.ok THEN Error
       ELSE ParseRest(word, toks, Parsed(<<word, left.node, right.node>>, right.pos), depth)

ParseChain(word, toks, p, depth) ==
  ParseRest(word, toks, ParseOperand(word, toks, p, depth), depth)

ParseOr(toks, p, depth) == ParseChain("or", toks, p, depth)

ParseLiteral(toks, p) ==
  IF toks[p].kind = "literal" THEN Parsed(toks[p].word, p + 1) ELSE Error

ParseComparison(toks, p, depth) ==
  CASE toks[p].kind = "lparen" ->
         LET inner == IF depth >= MaxDepth THEN Error ELSE ParseOr(toks, p + 1, depth + 1)
         IN IF inner.ok /\ toks[inner.pos].kind = "rparen"
            THEN Parsed(inner.node, inner.pos + 1) ELSE Error
    [] /\ toks[p].kind = "ident" /\ toks[p].word \notin Connectives \cup Comparisons
       /\ toks[p + 1].kind = "ident" /\ toks[p + 1].word \in Comparisons ->
         LET lit == ParseLiteral(toks, p + 2)
         IN IF lit.ok THEN Parsed(<<"cmp", toks[p + 1].word, toks[p].word, lit.node>>, lit.pos)
                      ELSE Error
    [] OTHER -> Error

ParseNot(toks, p, depth) ==
  IF ~Is(toks, p, "not") THEN ParseComparison(toks, p, depth)
  ELSE LET inner == IF depth >= MaxDepth THEN Error ELSE ParseNot(toks, p + 1, depth + 1)
       IN IF inner.ok THEN Parsed(<<"not", inner.node>>, inner.pos) ELSE Error

\* _tokenize refuses a character of no token, and ends the tokens.
Tokenize(toks) ==
  IF \E p \in DOMAIN toks : toks[p].kind = "stray" THEN <<>>
  ELSE Append(toks, Token("eof", "eof"))

ParseFilter(text) ==
  LET toks == Tokenize(text)
      e    == IF toks = <<>> THEN Error ELSE ParseOr(toks, 1, 0)
  IN IF e.ok /\ toks[e.pos].kind = "eof" THEN e ELSE Error

-----------------------------------------------------------------------------
(* Evaluation over a row [property -> value] and types [property -> type]. *)

\* edm_type_for, down to the families that comparisons tell apart: what is not known
\* to be a number, a date or a boolean compares as text.
EdmTypeFor(dataType) == IF dataType \in {"num", "date", "bool"} THEN dataType ELSE "text"

Compare(op, a, b) ==
  CASE op = "eq" -> a = b
    [] op = "ne" -> a # b
    [] op = "gt" -> a > b
    [] op = "ge" -> a >= b
    [] op = "lt" -> a < b
    [] OTHER -> a <= b

\* The null rules first; a side that does not coerce makes any comparison false.
Matches(op, value, literal, type) ==
  CASE literal.null -> (op = "eq" /\ value.null) \/ (op = "ne" /\ ~value.null)
    [] ~literal.null /\ value.null -> FALSE
    [] OTHER -> /\ value[type] # NoValue /\ literal[type] # NoValue
                /\ Compare(op, value[type], literal[type])

RECURSIVE Evaluate(_, _, _), Properties(_)

\* No short circuit: an unknown property anywhere is an error.
Properties(ast) ==
  CASE ast[1] = "cmp" -> {ast[3]}
    [] ast[1] = "not" -> Properties(ast[2])
    [] OTHER -> Properties(ast[2]) \cup Properties(ast[3])

Evaluate(ast, row, types) ==
  CASE ast[1] = "cmp" -> Matches(ast[2], row[ast[3]], ast[4], types[ast[3]])
    [] ast[1] = "not" -> ~Evaluate(ast[2], row, types)
    [] ast[1] = "and" -> Evaluate(ast[2], row, types) /\ Evaluate(ast[3], row, types)
    [] OTHER -> Evaluate(ast[2], row, types) \/ Evaluate(ast[3], row, types)

-----------------------------------------------------------------------------
(* $orderby: one stable sort by each item, the last item first.            *)

\* Values that do not coerce come last in both directions.
SortBy(entities, item, types) ==
  LET Value(e) == e[item.property][types[item.property]]
      Ordered(e) == Value(e) # NoValue
      Before(i, j) == \/ (IF item.descending THEN Value(entities[i]) > Value(entities[j])
                                             ELSE Value(entities[i]) < Value(entities[j]))
                      \/ Value(entities[i]) = Value(entities[j]) /\ i < j
      kept == SetToSortSeq({i \in DOMAIN entities : Ordered(entities[i])}, Before)
  IN [k \in DOMAIN kept |-> entities[kept[k]]]
       \o SelectSeq(entities, LAMBDA e : ~Ordered(e))

SortEntities(entities, items, types) ==
  FoldRight(LAMBDA item, es : SortBy(es, item, types), items, entities)

-----------------------------------------------------------------------------
(* Names.  A name is [stem, tail, n]: n counts the suffix, and a tail that *)
(* is not empty ends a name that fills the 128 characters.                 *)

\* A full name gives up its tail to the suffix of a set, not to that of a field, which
\* has no limit to keep to.
Suffixed(base, k, cut) ==
  [base EXCEPT !.n = Append(@, k), !.tail = IF cut THEN "" ELSE @]

FirstFree(base, used, cut) ==
  IF base \notin used THEN base
  ELSE Suffixed(base, Min({k \in 2 .. Cardinality(used) + 2 : Suffixed(base, k, cut) \notin used}),
                cut)

\* The names by position; who comes first keeps the plain one.
UniqueNames(names, reserved, cut) ==
  FoldLeft(LAMBDA given, base :
             Append(given, FirstFree(base, reserved \cup {given[i] : i \in DOMAIN given}, cut)),
           <<>>, names)

BusinessKey == [stem |-> "business_key", tail |-> "", n |-> <<>>]
FieldIdentifiers(names) == UniqueNames(names, {BusinessKey}, FALSE)

\* The name of each dataset's set, by position.
SetNames(ds) == UniqueNames([i \in DOMAIN ds |-> Name[ds[i]]], {}, TRUE)

-----------------------------------------------------------------------------
(* What a query [filter, orderby, top, count] selects of a dataset's rows. *)

Entity(k) == [business_key |-> [null |-> FALSE, num |-> NoValue, date |-> NoValue,
                                bool |-> NoValue, text |-> k],
              v |-> Val[k]]

\* The keys, in the order it asks for, else in their own.
RowsSelected(query, keys) ==
  LET rows == SetToSortSeq({k \in keys : query.filter # NoValue =>
                              Evaluate(query.filter, Entity(k), Types)}, <)
      entities == [i \in DOMAIN rows |-> Entity(rows[i])]
      sorted == IF query.orderby = NoValue THEN entities
                ELSE SortEntities(entities, query.orderby, Types)
  IN [i \in DOMAIN sorted |-> sorted[i].business_key.text]

-----------------------------------------------------------------------------
(* Properties, of every expression.                                        *)

Level(ast) == CASE ast[1] = "or" -> 1 [] ast[1] = "and" -> 2 [] ast[1] = "not" -> 3 [] OTHER -> 4

RECURSIVE Printed(_), Nesting(_)
Within(ast, level) ==
  IF Level(ast) >= level THEN Printed(ast)
  ELSE <<Token("lparen", "(")>> \o Printed(ast) \o <<Token("rparen", ")")>>
Printed(ast) ==
  CASE ast[1] = "cmp" -> <<Token("ident", ast[3]), Token("ident", ast[2]), Token("literal", ast[4])>>
    [] ast[1] = "not" -> <<Token("ident", "not")>> \o Within(ast[2], 3)
    [] OTHER -> Within(ast[2], Level(ast)) \o <<Token("ident", ast[1])>>
                  \o Within(ast[3], Level(ast) + 1)

Inside(ast, level) == Nesting(ast) + (IF Level(ast) >= level THEN 0 ELSE 1)
Nesting(ast) ==
  CASE ast[1] = "cmp" -> 0
    [] ast[1] = "not" -> 1 + Inside(ast[2], 3)
    [] OTHER -> Max({Inside(ast[2], Level(ast)), Inside(ast[3], Level(ast) + 1)})

\* An expression written with no more brackets than precedence asks for is read back
\* as itself, up to the depth limit; beyond it, it is refused.
ReadsBack(ast) ==
  LET e == ParseFilter(Printed(ast)) IN
  IF Nesting(ast) <= MaxDepth THEN e.ok /\ e.node = ast ELSE ~e.ok

\* No two sets and no two properties of one entity share a name, none is the key's, and
\* a name that nobody had before is kept.
NamesApart(names) ==
  /\ BusinessKey \notin ToSet(FieldIdentifiers(names))
  /\ \A given \in {UniqueNames(names, {}, TRUE), FieldIdentifiers(names)} :
       /\ IsInjective(given)
       /\ \A i \in DOMAIN names :
            names[i] # BusinessKey /\ (\A j \in 1 .. i - 1 : given[j] # names[i])
              => given[i] = names[i]

=============================================================================
