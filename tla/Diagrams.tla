------------------------------ MODULE Diagrams ------------------------------
(***************************************************************************)
(* Process diagrams (app/bpmn): rows to an intermediate representation, a  *)
(* layout, and the BPMN and SVG documents; the proposed change that is     *)
(* validated before it is saved (app/api/process_validate.py), and load    *)
(* sequences drawn as processes.                                           *)
(*                                                                         *)
(* A step is [key, ordinal, type, impl], a flow [key, source, target,      *)
(* default, condition].  Keys are natural numbers, which stand for their   *)
(* order as text; names and forms are left out.                            *)
(***************************************************************************)
EXTENDS Integers, Sequences, FiniteSets
LOCAL INSTANCE FiniteSetsExt
LOCAL INSTANCE SequencesExt
LOCAL INSTANCE Functions

CONSTANTS
  BadKeys,       \* keys that are no identifiers
  MaxAdditions,  \* rows one change may add: 200
  NoImpl         \* service_impl: null, empty, or neither an expression nor a class

StepTypes == {"start", "end", "user", "service", "gateway"}

ShapeW == 80
ShapeH == 40
LaneGapX == 120
LaneGapY == 60

-----------------------------------------------------------------------------
(* Rows to the intermediate representation.                                *)

KeysOf(rows) == {rows[i].key : i \in DOMAIN rows}
UniqueKeys(rows) == Cardinality(KeysOf(rows)) = Len(rows)
OfType(steps, type) == {s \in ToSet(steps) : s.type = type}
DefaultsOf(key, flows) == {f \in ToSet(flows) : f.source = key /\ f.default}

\* What build_ir accepts; anything else is an IRError.
IsDiagram(steps, flows) ==
  /\ UniqueKeys(steps) /\ UniqueKeys(flows)
  /\ (KeysOf(steps) \cup KeysOf(flows)) \cap BadKeys = {}
  /\ Cardinality(OfType(steps, "start")) = 1 /\ OfType(steps, "end") # {}
  /\ \A f \in ToSet(flows) : {f.source, f.target} \subseteq KeysOf(steps)
  /\ \A g \in OfType(steps, "gateway") : Cardinality(DefaultsOf(g.key, flows)) = 1
  /\ \A s \in OfType(steps, "service") : s.impl # NoImpl

SortedSteps(steps) ==
  SortSeq(steps, LAMBDA s, t : s.ordinal < t.ordinal
                              \/ (s.ordinal = t.ordinal /\ s.key < t.key))

\* Default flows first.
SortedFlows(flows) ==
  SortSeq(flows, LAMBDA f, g : (f.default /\ ~g.default)
                              \/ (f.default = g.default /\ f.key < g.key))

-----------------------------------------------------------------------------
(* Seeded faults: each stands in for the definition named.                 *)

RECURSIVE KahnFirst(_, _, _, _)
KahnFirst(queue, inDegree, ranks, flows) ==                          \* Kahn
  IF queue = {} THEN ranks ELSE
  LET node == Min(queue)
      hits(k) == Cardinality({f \in ToSet(flows) : f.source = node /\ f.target = k})
      left == [k \in DOMAIN inDegree |-> inDegree[k] - hits(k)]
      freed == {k \in DOMAIN left : hits(k) > 0 /\ inDegree[k] > 0}
  IN KahnFirst((queue \ {node}) \cup freed, [k \in DOMAIN left |-> IF k \in freed THEN 0 ELSE left[k]],
               [k \in DOMAIN ranks |-> IF k \in freed THEN ranks[node] + 1 ELSE ranks[k]], flows)

-----------------------------------------------------------------------------
(* Layout.                                                                 *)

\* The node freed is the one whose last incoming flow has been taken; those on a cycle,
\* and behind one, never are.
RECURSIVE Kahn(_, _, _, _)
Kahn(queue, inDegree, ranks, flows) ==
  IF queue = {} THEN ranks ELSE
  LET node == Min(queue)
      hits(k) == Cardinality({f \in ToSet(flows) : f.source = node /\ f.target = k})
      left == [k \in DOMAIN inDegree |-> inDegree[k] - hits(k)]
      raised == [k \in DOMAIN ranks |-> IF hits(k) > 0 /\ ranks[k] <= ranks[node]
                                        THEN ranks[node] + 1 ELSE ranks[k]]
  IN Kahn((queue \ {node}) \cup {k \in DOMAIN left : hits(k) > 0 /\ left[k] = 0},
          left, raised, flows)

Ranks(steps, flows) ==
  LET inDegree == [k \in KeysOf(steps) |-> Cardinality({f \in ToSet(flows) : f.target = k})]
  IN Kahn({k \in KeysOf(steps) : inDegree[k] = 0}, inDegree,
          [k \in KeysOf(steps) |-> 0], flows)

Positions(steps, ranks) ==
  [k \in KeysOf(steps) |->
     [x |-> LaneGapX * ranks[k],
      y |-> LaneGapY * Cardinality({l \in KeysOf(steps) : ranks[l] = ranks[k] /\ l < k})]]

Shape(at) == [x |-> at.x, y |-> at.y, w |-> ShapeW, h |-> ShapeH]

\* From the right edge of the source to the left edge of the target, with a bend.
Route(from, to) ==
  LET start == [x |-> from.x + ShapeW, y |-> from.y + ShapeH \div 2]
      stop == [x |-> to.x, y |-> to.y + ShapeH \div 2]
      mid == IF from.x = to.x THEN from.x + LaneGapX \div 4
                              ELSE (from.x + ShapeW + to.x) \div 2
  IN <<start, [start EXCEPT !.x = mid], [stop EXCEPT !.x = mid], stop>>

Layout(steps, flows) ==
  LET at == Positions(steps, Ranks(steps, flows))
  IN [shapes |-> [k \in KeysOf(steps) |-> Shape(at[k])],
      edges |-> [k \in KeysOf(flows) |->
                   LET f == CHOOSE g \in ToSet(flows) : g.key = k
                   IN Route(at[f.source], at[f.target])]]

-----------------------------------------------------------------------------
(* The documents, as the sequence of their elements.                       *)

\* One identifier for every gateway of the process: its first default flow.
DefaultFlowId(flows) ==
  LET first == SelectInSeq(SortedFlows(flows), LAMBDA f : f.default)
  IN IF first = 0 THEN NoImpl ELSE SortedFlows(flows)[first].key

EmitStep(s, flows) ==
  CASE s.type = "service" -> [tag |-> s.type, id |-> s.key, impl |-> s.impl]
    [] s.type = "gateway" -> [tag |-> s.type, id |-> s.key, default |-> DefaultFlowId(flows)]
    [] OTHER              -> [tag |-> s.type, id |-> s.key]

\* A default flow has no condition.
EmitFlow(f) ==
  [tag |-> "flow", id |-> f.key, source |-> f.source, target |-> f.target,
   condition |-> IF f.default THEN NoImpl ELSE f.condition]

\* An unknown type of step is refused here, not by IsDiagram.
EmitBpmn(steps, flows, layout) ==
  [process |-> [i \in DOMAIN steps |-> EmitStep(SortedSteps(steps)[i], flows)]
               \o [i \in DOMAIN flows |-> EmitFlow(SortedFlows(flows)[i])],
   plane |-> [i \in DOMAIN steps |-> layout.shapes[SortedSteps(steps)[i].key]]
             \o [i \in DOMAIN flows |-> layout.edges[SortedFlows(flows)[i].key]]]

Figure(type) ==
  CASE type \in {"start", "end"} -> "circle" [] type = "gateway" -> "polygon" [] OTHER -> "rect"

Corners(shape) == {[x |-> shape.x + shape.w, y |-> shape.y + shape.h]}
Extent(layout) ==
  LET points == UNION ({Corners(layout.shapes[k]) : k \in DOMAIN layout.shapes}
                       \cup {Range(layout.edges[k]) : k \in DOMAIN layout.edges})
  IN [width |-> Max({0} \cup {p.x : p \in points}), height |-> Max({0} \cup {p.y : p \in points})]

EmitSvg(steps, flows, layout) ==
  [extent |-> Extent(layout),
   figures |-> [i \in DOMAIN steps |->
                  [figure |-> Figure(SortedSteps(steps)[i].type),
                   box |-> layout.shapes[SortedSteps(steps)[i].key]]],
   lines |-> [i \in DOMAIN flows |-> layout.edges[SortedFlows(flows)[i].key]]]

Drawn(steps, flows) ==
  IF IsDiagram(steps, flows) /\ \A s \in ToSet(steps) : s.type \in StepTypes
  THEN LET layout == Layout(steps, flows)
       IN [status |-> 200, layout |-> layout, bpmn |-> EmitBpmn(steps, flows, layout),
           svg |-> EmitSvg(steps, flows, layout)]
  ELSE [status |-> 422]

-----------------------------------------------------------------------------
(* The requests.                                                           *)

Generate(definition) ==
  IF definition = NoImpl THEN [status |-> 404] ELSE Drawn(definition.steps, definition.flows)

\* What is removed is removed from the rows only: an addition may bring its key back.
Applied(rows, removed, added) == SelectSeq(rows, LAMBDA r : r.key \notin removed) \o added

Validate(definition, delta) ==
  CASE Len(delta.addSteps) + Len(delta.addFlows) > MaxAdditions -> [status |-> 422]
    [] Len(delta.addSteps) + Len(delta.addFlows) <= MaxAdditions /\ definition = NoImpl ->
         [status |-> 404]
    [] OTHER -> Drawn(Applied(definition.steps, delta.removeSteps, delta.addSteps),
                      Applied(definition.flows, delta.removeFlows, delta.addFlows))

\* A load sequence of n steps: a start, the steps in their order, and an end.
ProjectedSteps(n) ==
  [i \in 1 .. n + 2 |->
     [key |-> i, ordinal |-> i - 1, impl |-> "loadSequenceStep",
      type |-> CASE i = 1 -> "start" [] i = n + 2 -> "end" [] OTHER -> "service"]]
ProjectedFlows(n) ==
  [i \in 1 .. n + 1 |->
     [key |-> i, source |-> i, target |-> i + 1, default |-> FALSE, condition |-> NoImpl]]

-----------------------------------------------------------------------------
(* Properties.                                                             *)

\* Reachability by flows, and the longest way to a step from which no cycle is reached
\* backwards: what the ranks are to be.
RECURSIVE Ways(_, _, _)
Ways(k, flows, n) ==
  IF n = 0 THEN {0}
  ELSE {0} \cup UNION {{w + 1 : w \in Ways(f.source, flows, n - 1)} :
                       f \in {g \in ToSet(flows) : g.target = k}}
Depth(k, steps, flows) == Max(Ways(k, flows, Len(steps)))
BehindCycle(k, steps, flows) == Depth(k, steps, flows) = Len(steps)

Apart(a, b) == a.x + a.w <= b.x \/ b.x + b.w <= a.x \/ a.y + a.h <= b.y \/ b.y + b.h <= a.y

\* Of every diagram that is accepted: a step no cycle leads to stands at the length of
\* the longest way to it, so that a flow between two such steps runs from left to right;
\* no two steps overlap, everything drawn lies within the extent, and the drawing depends
\* on the rows alone: their order is nothing to it, and a change that removes them all and
\* brings them back is drawn as they were.
DrawnSoundly(steps, flows) ==
  LET d == Drawn(steps, flows) IN
  d.status = 200 =>
    /\ \A k \in KeysOf(steps) :
         ~BehindCycle(k, steps, flows) =>
           d.layout.shapes[k].x = LaneGapX * Depth(k, steps, flows)
    /\ \A k, l \in KeysOf(steps) : k # l => Apart(d.layout.shapes[k], d.layout.shapes[l])
    /\ \A k \in KeysOf(flows) : \A p \in Range(d.layout.edges[k]) :
         /\ 0 <= p.x /\ p.x <= d.svg.extent.width
         /\ 0 <= p.y /\ p.y <= d.svg.extent.height
    /\ Drawn(Reverse(steps), Reverse(flows)) = d
    /\ Validate([steps |-> steps, flows |-> flows],
                [removeSteps |-> {}, addSteps |-> <<>>,
                 removeFlows |-> KeysOf(flows), addFlows |-> Reverse(flows)])
         = Generate([steps |-> steps, flows |-> flows])

\* A load sequence can always be drawn, and its steps stand in their order.
ProjectionDrawn(n) ==
  LET d == Drawn(ProjectedSteps(n), ProjectedFlows(n))
  IN d.status = 200 /\ \A i \in 1 .. n + 2 : d.layout.shapes[i].x = LaneGapX * (i - 1)

=============================================================================
