----------------------------- MODULE Suggestions ----------------------------
(***************************************************************************)
(* Dashboard suggestions of one dataset: their reconciliation with the     *)
(* schema (app/suggestion/service.py, which discovery triggers), and what  *)
(* users do with them (app/dashboard/service.py, app/api/suggestions.py).  *)
(*                                                                         *)
(* A suggestion is known by its fingerprint (UNIQUE with the dataset), so  *)
(* the table is a function of it.  suggestion_fields and                   *)
(* dashboard_item_fields refer to discovered_fields with ON DELETE SET     *)
(* NULL.  The reconciler and the accepting transaction read first and      *)
(* write later, under READ COMMITTED, by id.                               *)
(***************************************************************************)
EXTENDS Deployment, SchemaRules

CONSTANTS
  Columns,       \* names of columns of the dataset
  Shapes,        \* what a column may look like: [type, words, key]
  Gone,          \* "no such column"
  Width,         \* columns of the detail table
  Items,         \* ids of dashboard_items rows
  Dashboards,    \* ids of dashboards rows named "Default Dashboard"
  Users,         \* administrators at work
  None,          \* NULL, or nothing at hand
  MaxMoves       \* bound: requests to the system

ASSUME ConstantsOK ==
  /\ Gone \notin Shapes /\ None \notin Columns \cup Items \cup Dashboards
  /\ Width \in Nat \ {0} /\ MaxMoves \in Nat

VARIABLES
  column,       \* discovered_fields: the shape of each column
  suggestion,   \* suggestions by fingerprint, with their suggestion_fields
  item,         \* dashboard_items, with their fields
  dashboard,    \* the default dashboards there are
  regen,        \* the open reconciliation
  user,         \* the open accept of each administrator
  moves         \* requests so far

vars == <<column, suggestion, item, dashboard, regen, user, overlap, moves>>

Roles    == {"measure", "dimension", "temporal", "display"}
Bindings == SUBSET (Roles \X (Columns \cup {None}))
Status   == {"absent", "suggested", "stale", "accepted", "dismissed"}

ColumnOf(shapes, c) == [name |-> c, type |-> shapes[c].type, words |-> shapes[c].words,
                        key |-> shapes[c].key, position |-> 1]
Orders(cols) == {s \in [1 .. Cardinality(cols) -> cols] :
                   \A i, j \in DOMAIN s : s[i] = s[j] => i = j}
Generated(shapes, order) ==
  Candidates([i \in DOMAIN order |-> ColumnOf(shapes, order[i])], Width)

\* Every fingerprint some schema may produce.
Fingerprints ==
  UNION {UNION {Generated(shapes, order) :
           order \in Orders({c \in Columns : shapes[c] # Gone})} :
         shapes \in [Columns -> Shapes \cup {Gone}]}

Row   == [status : Status, fields : Bindings]
NoRow == [status |-> "absent", fields |-> {}]
Item  == [from : Fingerprints \cup {None}, dash : Dashboards \cup {None},
          position : Nat, fields : Bindings]
NoItem == [from |-> None, dash |-> None, position |-> 0, fields |-> {}]

IdleRegen == [pc |-> "idle", fresh |-> {}, seen |-> [s \in {} |-> "absent"], live |-> {}]
IdleUser  == [pc |-> "idle", from |-> None, dash |-> None, position |-> 0]

TypeOK ==
  /\ column \in [Columns -> Shapes \cup {Gone}]
  /\ suggestion \in [Fingerprints -> Row]
  /\ item \in [Items -> Item]
  /\ dashboard \subseteq Dashboards
  /\ regen = IdleRegen \/ /\ regen.pc = "read" /\ regen.fresh \subseteq Fingerprints
                          /\ regen.seen \in [Fingerprints -> Status]
                          /\ regen.live \subseteq Columns
  /\ \A u \in Users : user[u] = IdleUser \/ user[u].from \in Fingerprints
  /\ overlap \in Overlap
  /\ moves \in Nat

Init ==
  /\ column \in [Columns -> Shapes \cup {Gone}]
  /\ suggestion = [s \in Fingerprints |-> NoRow]
  /\ item = [i \in Items |-> NoItem]
  /\ dashboard = {}
  /\ regen = IdleRegen
  /\ user = [u \in Users |-> IdleUser]
  /\ overlap \in Overlap
  /\ moves = 0

-----------------------------------------------------------------------------
Live    == {c \in Columns : column[c] # Gone}
Present == {s \in Fingerprints : suggestion[s].status # "absent"}
ItemsOf(s) == {i \in Items : item[i].from = s}
Move  == moves < MaxMoves /\ moves' = moves + 1
Quiet == overlap \/ (regen.pc = "idle" /\ \A u \in Users : user[u].pc = "idle")

\* What a deleted column leaves in the rows that referred to it.
Unbound(fields, c) == {IF b[2] = c THEN <<b[1], None>> ELSE b : b \in fields}

-----------------------------------------------------------------------------
(* Seeded faults: each stands in for the definition named.                 *)

VerdictOnce(s) ==                                                        \* Verdict
  CASE s \in regen.fresh /\ regen.seen[s] = "absent" -> "insert"
    [] s \notin regen.fresh /\ regen.seen[s] = "suggested" -> "stale"
    [] OTHER -> "keep"

-----------------------------------------------------------------------------
(* Discovery, and the administrator who deletes a column.                  *)

DiscoverColumn(c, shape) ==
  /\ Quiet /\ Move
  /\ column' = [column EXCEPT ![c] = shape]
  /\ UNCHANGED <<suggestion, item, dashboard, regen, user, overlap>>

DeleteColumn(c) ==
  /\ c \in Live /\ Quiet /\ Move
  /\ column' = [column EXCEPT ![c] = Gone]
  /\ suggestion' = [s \in Fingerprints |->
                      [suggestion[s] EXCEPT !.fields = Unbound(@, c)]]
  /\ item' = [i \in Items |-> [item[i] EXCEPT !.fields = Unbound(@, c)]]
  /\ regen' = [regen EXCEPT !.live = @ \ {c}]
  /\ UNCHANGED <<dashboard, user, overlap>>

-----------------------------------------------------------------------------
(* The reconciler.                                                         *)

\* The fields come in no particular order, and the order decides R3 and R5.
RegenerateRead ==
  /\ Quiet /\ Move /\ regen.pc = "idle"
  /\ \E order \in Orders(Live) :
       regen' = [pc |-> "read", fresh |-> Generated(column, order),
                 seen |-> [s \in Fingerprints |-> suggestion[s].status], live |-> Live]
  /\ UNCHANGED <<column, suggestion, item, dashboard, user, overlap>>

\* What becomes of a suggestion, by the status read.
Verdict(s) ==
  CASE s \in regen.fresh /\ regen.seen[s] = "absent" -> "insert"
    [] s \in regen.fresh /\ regen.seen[s] = "stale" -> "revive"
    [] s \notin regen.fresh /\ regen.seen[s] = "suggested" -> "stale"
    [] OTHER -> "keep"

\* A field bound to a column deleted meanwhile breaks its foreign key.
RegenerateWrite ==
  /\ regen.pc = "read"
  /\ \A s \in Fingerprints : Verdict(s) \in {"insert", "revive"} =>
       \A b \in s.fields : b[2] \in regen.live
  /\ suggestion' =
       [s \in Fingerprints |->
          CASE Verdict(s) \in {"insert", "revive"} -> [status |-> "suggested", fields |-> s.fields]
            [] Verdict(s) = "stale" -> [suggestion[s] EXCEPT !.status = "stale"]
            [] OTHER -> suggestion[s]]
  /\ regen' = IdleRegen
  /\ UNCHANGED <<column, item, dashboard, user, overlap, moves>>

\* discover_source logs a failed reconciliation and goes on.
RegenerateFail ==
  /\ regen.pc = "read"
  /\ regen' = IdleRegen
  /\ UNCHANGED <<column, suggestion, item, dashboard, user, overlap, moves>>

-----------------------------------------------------------------------------
(* The users.                                                              *)

\* The last position on a dashboard, 0 where it has no item.
LastPosition(d) ==
  LET taken == {0} \cup {item[i].position : i \in {j \in Items : item[j].dash = d}}
  IN {p \in taken : \A q \in taken : q <= p}

\* The dashboard is the oldest default one, or a new one; the position one more
\* than its last.
AcceptRead(u, s) ==
  /\ user[u].pc = "idle" /\ s \in Present /\ ItemsOf(s) = {} /\ Quiet /\ Move
  /\ \E d \in IF dashboard # {} THEN dashboard ELSE Dashboards : \E last \in LastPosition(d) :
       user' = [user EXCEPT ![u] =
                  [pc |-> "accept", from |-> s, dash |-> d, position |-> last + 1]]
  /\ UNCHANGED <<column, suggestion, item, dashboard, regen, overlap>>

\* The unique index on source_suggestion_id.
NoItemYet(s) == ItemsOf(s) = {}

\* Dashboard, item, its fields as they are bound by now, and the status.
AcceptWrite(u) ==
  LET x == user[u] IN
  /\ x.pc = "accept" /\ NoItemYet(x.from)
  /\ \E i \in ItemsOf(None) :
       item' = [item EXCEPT ![i] = [from |-> x.from, dash |-> x.dash, position |-> x.position,
                                    fields |-> suggestion[x.from].fields]]
  /\ dashboard' = dashboard \cup {x.dash}
  /\ suggestion' = [suggestion EXCEPT ![x.from].status = "accepted"]
  /\ user' = [user EXCEPT ![u] = IdleUser]
  /\ UNCHANGED <<column, regen, overlap, moves>>

AcceptFail(u) ==
  /\ user[u].pc = "accept"
  /\ user' = [user EXCEPT ![u] = IdleUser]
  /\ UNCHANGED <<column, suggestion, item, dashboard, regen, overlap, moves>>

\* Whatever its status, accepted included.
Dismiss(s) ==
  /\ s \in Present /\ Quiet /\ Move
  /\ suggestion' = [suggestion EXCEPT ![s].status = "dismissed"]
  /\ UNCHANGED <<column, item, dashboard, regen, user, overlap>>

DeleteItem(i) ==
  /\ item[i].from # None /\ Quiet /\ Move
  /\ item' = [item EXCEPT ![i] = NoItem]
  /\ UNCHANGED <<column, suggestion, dashboard, regen, user, overlap>>

-----------------------------------------------------------------------------
Next ==
  \/ \E c \in Columns : DeleteColumn(c) \/ \E shape \in Shapes : DiscoverColumn(c, shape)
  \/ RegenerateRead \/ RegenerateWrite \/ RegenerateFail
  \/ \E u \in Users : AcceptWrite(u) \/ AcceptFail(u) \/ \E s \in Fingerprints : AcceptRead(u, s)
  \/ \E s \in Fingerprints : Dismiss(s)
  \/ \E i \in Items : DeleteItem(i)

Spec == Init /\ [][Next]_vars

-----------------------------------------------------------------------------
(* Properties.                                                             *)

\* Reconciliation is bidirectional: where nothing overlaps it, it leaves in the inbox
\* what the schema it read gives rise to, less what users decided, and nothing else.
InboxFollowsSchema ==
  [][RegenerateWrite /\ ~overlap =>
       {s \in Fingerprints : suggestion'[s].status = "suggested"}
         = {s \in regen.fresh : suggestion[s].status \notin {"accepted", "dismissed"}}]_vars

\* What the docs say of the inbox (suggestion/service.py:11-12, :76-78): a suggestion
\* whose field vanished leaves it and comes back bound to the new field.  Not so
\* where the field was deleted and discovered again between two reconciliations.
InboxBound ==
  [][RegenerateWrite =>
       \A s \in Fingerprints : suggestion'[s].status = "suggested" =>
         \A b \in suggestion'[s].fields : b[2] # None]_vars

=============================================================================
