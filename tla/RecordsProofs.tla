---------------------------- MODULE RecordsProofs ---------------------------
(***************************************************************************)
(* The audit trail is exact of what the routes of the records do, whatever *)
(* requests and writes of the program interleave, for any set of row ids,  *)
(* users and columns asked for.  Of the Catalogue the proofs use only what *)
(* ForeignKeys says of its parents, and of Unrecorded what OwnColumns does.*)
(***************************************************************************)
EXTENDS Records, SequenceTheorems, TLAPS

\* The rows, audit rows and requests of a behaviour that is about some tables.
Columns == UNION {Catalogue[t].stored : t \in focus}
Lives == {"never", "live", "gone"}
Makers == {"nobody", "route", "program"}
RowSet ==
  [life : Lives, refs : UNION {[RefColumns(t) -> RowIds \cup {None}] : t \in focus},
   changed : SUBSET Columns, owner : Users \cup {None}, by : Makers,
   unrecorded : SUBSET Columns]
Entries == [action : {"create", "update", "delete"}, detail : SUBSET Columns]
Asks == [op : {"create", "update", "delete", "read", "not found"},
         table : focus, id : RowIds, user : Users]

ShapesInv ==
  /\ rows \in [focus -> [RowIds -> RowSet]]
  /\ trail \in [focus -> [RowIds -> Seq(Entries)]]
  /\ reading \subseteq Asks
  /\ answer \in Asks \cup {None}

\* What the trail of one row says of its life, its maker and its changed columns.
At(es, action) == {n \in DOMAIN es : es[n].action = action}
Exact(life, by, changed, es, cascades) ==
  /\ At(es, "create") = IF by = "route" THEN {1} ELSE {}
  /\ At(es, "delete") \subseteq {Len(es)}
  /\ life = "never" => es = <<>>
  /\ life = "live" => At(es, "delete") = {}
  /\ life = "gone" => At(es, "delete") # {} \/ cascades
  /\ changed = UNION {es[n].detail : n \in At(es, "update")}
Cascades(t) == Catalogue[t].onDelete = "cascade"
RowsExact ==
  \A t \in focus, id \in RowIds :
    Catalogue[t].audited => Exact(rows[t][id].life, rows[t][id].by, rows[t][id].changed,
                                  trail[t][id], Cascades(t))

\* The program leaves the other tables to their routes.
Confined ==
  \A t \in focus \ DOMAIN Unrecorded, id \in RowIds :
    rows[t][id].by # "program" /\ rows[t][id].unrecorded = {}

\* A request that has written has its entry in the trail, or it had found no row, and
\* then nobody finds one for it again.
InTrail(ask) ==
  \E n \in DOMAIN trail[ask.table][ask.id] : trail[ask.table][ask.id][n].action = ask.op
Audits(ask) == Catalogue[ask.table].audited /\ ask.op \in {"create", "update", "delete"}
Lost(ask) ==
  /\ Known(ask.table, ask.id)
  /\ ~Found(ask.table, ask.id, ask.user)
ReadingInv == \A ask \in reading : Audits(ask) => InTrail(ask) \/ Lost(ask)
AnswerInv == answer # None /\ Audits(answer) => InTrail(answer)

IInv == RecordsTypeOK /\ ShapesInv /\ RowsExact /\ Confined /\ ReadingInv /\ AnswerInv

-----------------------------------------------------------------------------
(* The trail of one row.                                                   *)

\* Adding an entry adds its place to those of its action, and to no other.
LEMMA AtAppend ==
  ASSUME NEW es \in Seq(Entries), NEW e \in Entries, NEW action
  PROVE  /\ Append(es, e) \in Seq(Entries) /\ Len(Append(es, e)) = Len(es) + 1
         /\ DOMAIN es = 1 .. Len(es) /\ Len(es) \in Nat
         /\ Append(es, e)[Len(es) + 1] = e
         /\ \A n \in 1 .. Len(es) : Append(es, e)[n] = es[n]
         /\ At(Append(es, e), action) =
              At(es, action) \cup (IF e.action = action THEN {Len(es) + 1} ELSE {})
<1>1. /\ Append(es, e) \in Seq(Entries) /\ Len(Append(es, e)) = Len(es) + 1
      /\ DOMAIN es = 1 .. Len(es) /\ Len(es) \in Nat
      /\ DOMAIN Append(es, e) = 1 .. Len(es) + 1
      /\ Append(es, e)[Len(es) + 1] = e
      /\ \A n \in 1 .. Len(es) : Append(es, e)[n] = es[n]
  OBVIOUS
<1>2. 1 .. Len(es) + 1 = (1 .. Len(es)) \cup {Len(es) + 1}
  BY <1>1
<1> QED BY <1>1, <1>2 DEF At

\* The creation of a row is the first entry of its trail.
LEMMA ExactCreate ==
  ASSUME NEW by, NEW changed, NEW es \in Seq(Entries), NEW cascades,
         Exact("never", by, changed, es, cascades)
  PROVE  Exact("live", "route", {}, Append(es, Entry("create", {})), cascades)
<1> DEFINE e == Entry("create", {})
           fs == Append(es, e)
<1>1. e \in Entries /\ e.action = "create"
  BY DEF Entry, Entries
<1>2. es = <<>> /\ Len(es) = 0 /\ \A action : At(es, action) = {}
  BY DEF Exact, At
<1>3. ASSUME NEW action PROVE At(fs, action) = IF action = "create" THEN {1} ELSE {}
  <2>1. At(fs, action) = At(es, action) \cup (IF e.action = action THEN {Len(es) + 1} ELSE {})
    BY <1>1, AtAppend
  <2>2. At(es, action) = {} /\ Len(es) + 1 = 1
    BY <1>2
  <2> HIDE DEF e, fs
  <2> QED BY <1>1, <2>1, <2>2
<1> HIDE DEF fs
<1>4. Exact("live", "route", {}, fs, cascades)
  BY <1>3 DEF Exact
<1> QED BY <1>4 DEF fs

\* An update of a row adds the columns it changed.
LEMMA ExactUpdate ==
  ASSUME NEW by, NEW changed, NEW es \in Seq(Entries), NEW cascades, NEW fields \in SUBSET Columns,
         Exact("live", by, changed, es, cascades)
  PROVE  Exact("live", by, changed \cup fields, Append(es, Entry("update", fields)), cascades)
<1> DEFINE e == Entry("update", fields)
           fs == Append(es, e)
<1>1. e \in Entries /\ e.action = "update" /\ e.detail = fields
  BY DEF Entry, Entries
<1>2. /\ At(fs, "create") = At(es, "create") /\ At(fs, "delete") = At(es, "delete")
      /\ At(fs, "update") = At(es, "update") \cup {Len(es) + 1}
      /\ fs[Len(es) + 1].detail = fields
      /\ \A n \in At(es, "update") : fs[n] = es[n]
  BY <1>1, AtAppend DEF At
<1> HIDE DEF fs
<1>3. UNION {fs[n].detail : n \in At(fs, "update")}
        = (UNION {es[n].detail : n \in At(es, "update")}) \cup fields
  BY <1>2
<1>4. Exact("live", by, changed \cup fields, fs, cascades)
  BY <1>2, <1>3 DEF Exact
<1> QED BY <1>4 DEF fs

\* The deletion of a row is the last entry of its trail.
LEMMA ExactDelete ==
  ASSUME NEW by, NEW changed, NEW es \in Seq(Entries), NEW cascades,
         Exact("live", by, changed, es, cascades)
  PROVE  Exact("gone", by, changed, Append(es, Entry("delete", {})), cascades)
<1> DEFINE e == Entry("delete", {})
           fs == Append(es, e)
<1>1. e \in Entries /\ e.action = "delete"
  BY DEF Entry, Entries
<1>2. /\ At(fs, "create") = At(es, "create") /\ At(fs, "update") = At(es, "update")
      /\ At(fs, "delete") = At(es, "delete") \cup {Len(es) + 1}
      /\ Len(fs) = Len(es) + 1
      /\ \A n \in At(es, "update") : fs[n] = es[n]
  BY <1>1, AtAppend DEF At
<1> HIDE DEF fs
<1>3. UNION {fs[n].detail : n \in At(fs, "update")}
        = UNION {es[n].detail : n \in At(es, "update")}
  BY <1>2
<1>4. Exact("gone", by, changed, fs, cascades)
  BY <1>2, <1>3 DEF Exact
<1> QED BY <1>4 DEF fs

\* A row that a cascade takes has a trail without an end.
LEMMA ExactCascade ==
  ASSUME NEW by, NEW changed, NEW es \in Seq(Entries), Exact("live", by, changed, es, TRUE)
  PROVE  Exact("gone", by, changed, es, TRUE)
BY DEF Exact

\* A row that the program makes has a trail without a beginning.
LEMMA ExactInsert ==
  ASSUME NEW by, NEW changed, NEW es, NEW cascades, Exact("never", by, changed, es, cascades)
  PROVE  Exact("live", "program", {}, es, cascades)
<1>1. es = <<>> /\ \A action : At(es, action) = {}
  BY DEF Exact, At
<1> QED BY <1>1 DEF Exact
-----------------------------------------------------------------------------
(* What a request does to the rows and to their trails.                    *)

\* For a request a row stays as it was, is made, changed, deleted or taken by a cascade;
\* all but the last add an entry to the trail where the table is audited.  The program
\* makes rows without one.
Moved(t, id) ==
  LET row == rows[t][id]
      new == rows'[t][id]
      Adds(e) == trail'[t][id] = Append(trail[t][id], e)
      Same == trail'[t][id] = trail[t][id]
  IN \/ /\ new.life = row.life /\ new.by = row.by /\ new.changed = row.changed /\ Same
     \/ /\ row.life = "never" /\ new.life = "live" /\ new.by = "route" /\ new.changed = {}
        /\ Adds(Entry("create", {}))
     \/ /\ row.life = "never" /\ new.life = "live" /\ new.by = "program" /\ new.changed = {}
        /\ Same
     \/ \E fields \in SUBSET Columns :
          /\ row.life = "live" /\ new.life = "live" /\ new.by = row.by
          /\ new.changed = row.changed \cup fields
          /\ Adds(Entry("update", fields))
     \/ /\ row.life = "live" /\ new.life = "gone" /\ new.by = row.by
        /\ new.changed = row.changed
        /\ Adds(Entry("delete", {})) \/ (Cascades(t) /\ Same)

\* Nothing that was is forgotten: an id is not used again, nor handed to another user;
\* and the program writes only rows of its tables.
Keeps(t, id) ==
  /\ rows[t][id].life # "never" => /\ rows'[t][id].life # "never"
                                   /\ rows'[t][id].owner = rows[t][id].owner
  /\ rows[t][id].life = "gone" => rows'[t][id].life = "gone"
  /\ t \notin DOMAIN Unrecorded => /\ rows'[t][id].by \in {rows[t][id].by, "route"}
                                   /\ rows'[t][id].unrecorded \subseteq rows[t][id].unrecorded

\* And rows and trails stay what they are.
Typed(t, id) ==
  /\ rows'[t][id].refs \in [RefColumns(t) -> RowIds \cup {None}]
  /\ rows'[t][id].changed \subseteq Catalogue[t].stored
  /\ rows'[t][id].unrecorded \subseteq Catalogue[t].stored

Moves ==
  /\ focus' = focus
  /\ rows' \in [focus -> [RowIds -> RowSet]]
  /\ trail' \in [focus -> [RowIds -> Seq(Entries)]]
  /\ \A t \in focus, id \in RowIds : Keeps(t, id) /\ Typed(t, id)
  /\ \A t \in focus, id \in RowIds : Catalogue[t].audited => Moved(t, id)
  /\ \A t \in focus, id \in RowIds :
       trail'[t][id] = trail[t][id] \/ \E e \in Entries : trail'[t][id] = Append(trail[t][id], e)

\* One row is replaced.
Replaced(t, id, new) == rows' = [rows EXCEPT ![t][id] = new]

\* The other rows, of its table and of the others, stay.
LEMMA OneRow ==
  ASSUME ShapesInv, NEW t \in focus, NEW id \in RowIds, NEW new \in RowSet,
         Replaced(t, id, new)
  PROVE  /\ rows' \in [focus -> [RowIds -> RowSet]]
         /\ rows'[t][id] = new
         /\ \A u \in focus, o \in RowIds : ~(u = t /\ o = id) => rows'[u][o] = rows[u][o]
<1>1. rows \in [focus -> [RowIds -> RowSet]]
  BY DEF ShapesInv
<1> QED BY <1>1 DEF Replaced

\* One entry is recorded where the table is audited.
LEMMA OneEntry ==
  ASSUME ShapesInv, NEW t \in focus, NEW id \in RowIds, NEW e \in Entries,
         trail' = IF Catalogue[t].audited THEN [trail EXCEPT ![t][id] = Append(@, e)] ELSE trail
  PROVE  /\ trail' \in [focus -> [RowIds -> Seq(Entries)]]
         /\ Catalogue[t].audited => trail'[t][id] = Append(trail[t][id], e)
         /\ \A u \in focus, o \in RowIds : ~(u = t /\ o = id) => trail'[u][o] = trail[u][o]
         /\ \A u \in focus, o \in RowIds :
              \/ trail'[u][o] = trail[u][o]
              \/ \E f \in Entries : trail'[u][o] = Append(trail[u][o], f)
<1>1. trail \in [focus -> [RowIds -> Seq(Entries)]]
  BY DEF ShapesInv
<1> DEFINE es == Append(trail[t][id], e)
<1>2. es \in Seq(Entries)
  BY <1>1
<1>3. CASE Catalogue[t].audited
  <2>1. trail' = [trail EXCEPT ![t][id] = es]
    BY <1>3
  <2>2. trail'[t][id] = es
    BY <1>1, <2>1
  <2> HIDE DEF es
  <2>3. /\ trail' \in [focus -> [RowIds -> Seq(Entries)]]
        /\ \A u \in focus, o \in RowIds : ~(u = t /\ o = id) => trail'[u][o] = trail[u][o]
    BY <1>1, <1>2, <2>1
  <2> QED BY <2>2, <2>3 DEF es
<1>4. CASE ~Catalogue[t].audited
  BY <1>1, <1>4
<1> QED BY <1>3, <1>4

\* The fields of a row.
LEMMA RowFields ==
  ASSUME RecordsTypeOK, ShapesInv, NEW t \in focus, NEW id \in RowIds
  PROVE  /\ rows[t][id] \in RowSet
         /\ rows[t][id].life \in Lives /\ rows[t][id].owner \in Users \cup {None}
         /\ rows[t][id].refs \in [RefColumns(t) -> RowIds \cup {None}]
         /\ rows[t][id].changed \subseteq Catalogue[t].stored
         /\ rows[t][id].by \in Makers
         /\ rows[t][id].unrecorded \subseteq Catalogue[t].stored
         /\ Catalogue[t].stored \subseteq Columns
<1>1. rows[t][id] \in RowSet
  BY DEF ShapesInv
<1> QED BY <1>1 DEF RowSet, RecordsTypeOK, Columns

\* What makes a row well typed.
LEMMA NewRow ==
  ASSUME NEW t \in focus, NEW life \in Lives, NEW refs \in [RefColumns(t) -> RowIds \cup {None}],
         NEW changed \in SUBSET Columns, NEW owner \in Users \cup {None},
         NEW by \in Makers, NEW unrecorded \in SUBSET Columns
  PROVE  [ life |-> life, refs |-> refs, changed |-> changed, owner |-> owner, by |-> by,
           unrecorded |-> unrecorded ] \in RowSet
BY DEF RowSet

\* A row with other references, life and columns.
LEMMA RowExcept ==
  ASSUME NEW row \in RowSet, NEW others, NEW more
  PROVE  /\ [row EXCEPT !.changed = more, !.refs = others]
              = [ life |-> row.life, refs |-> others, changed |-> more, owner |-> row.owner,
                  by |-> row.by, unrecorded |-> row.unrecorded ]
         /\ [row EXCEPT !.refs = others, !.unrecorded = more]
              = [ life |-> row.life, refs |-> others, changed |-> row.changed,
                  owner |-> row.owner, by |-> row.by, unrecorded |-> more ]
<1>1. row = [ life |-> row.life, refs |-> row.refs, changed |-> row.changed,
              owner |-> row.owner, by |-> row.by, unrecorded |-> row.unrecorded ]
  BY DEF RowSet
<1> DEFINE mid  == [row EXCEPT !.changed = more]
           full == [row EXCEPT !.unrecorded = more]
<1>2. /\ mid = [ life |-> row.life, refs |-> row.refs, changed |-> more, owner |-> row.owner,
                 by |-> row.by, unrecorded |-> row.unrecorded ]
      /\ full = [ life |-> row.life, refs |-> row.refs, changed |-> row.changed,
                  owner |-> row.owner, by |-> row.by, unrecorded |-> more ]
  BY <1>1
<1>3. /\ [row EXCEPT !.changed = more, !.refs = others] = [mid EXCEPT !.refs = others]
      /\ [row EXCEPT !.refs = others, !.unrecorded = more] = [full EXCEPT !.refs = others]
  OBVIOUS
<1> HIDE DEF mid, full
<1>4. /\ [mid EXCEPT !.refs = others]
           = [ life |-> row.life, refs |-> others, changed |-> more, owner |-> row.owner,
               by |-> row.by, unrecorded |-> row.unrecorded ]
      /\ [full EXCEPT !.refs = others]
           = [ life |-> row.life, refs |-> others, changed |-> row.changed,
               owner |-> row.owner, by |-> row.by, unrecorded |-> more ]
  BY <1>2
<1> QED BY <1>3, <1>4

\* POST: one row begins its life, and its trail.
LEMMA CreateMoves ==
  ASSUME RecordsTypeOK, ShapesInv, UNCHANGED focus,
         NEW t \in focus, NEW id \in RowIds, NEW user \in Users, Create(t, id, user)
  PROVE  Moves
<1>1. PICK refs \in [RefColumns(t) -> RowIds \cup {None}] :
        rows' = [rows EXCEPT ![t][id] =
                   [ life |-> "live", refs |-> refs, changed |-> {},
                     owner |-> IF Catalogue[t].owned THEN user ELSE None,
                     by |-> "route", unrecorded |-> {} ]]
  BY DEF Create
<1> DEFINE new == [ life |-> "live", refs |-> refs, changed |-> {},
                    owner |-> IF Catalogue[t].owned THEN user ELSE None,
                    by |-> "route", unrecorded |-> {} ]
<1>2. /\ new \in RowSet /\ new.life = "live" /\ new.refs = refs /\ new.changed = {}
      /\ new.by = "route" /\ new.unrecorded = {}
  BY NewRow DEF Lives, Makers
<1> HIDE DEF new
<1>3. /\ rows' \in [focus -> [RowIds -> RowSet]] /\ rows'[t][id] = new
      /\ \A u \in focus, o \in RowIds : ~(u = t /\ o = id) => rows'[u][o] = rows[u][o]
  <2>1. Replaced(t, id, new)
    BY <1>1 DEF new, Replaced
  <2>2. new \in RowSet
    BY <1>2
  <2> QED BY <2>1, <2>2, OneRow
<1>4. /\ rows[t][id].life = "never" /\ Entry("create", {}) \in Entries
      /\ trail' = IF Catalogue[t].audited
                  THEN [trail EXCEPT ![t][id] = Append(@, Entry("create", {}))] ELSE trail
  BY DEF Create, Recorded, Entry, Entries
<1>5. /\ trail' \in [focus -> [RowIds -> Seq(Entries)]]
      /\ Catalogue[t].audited => trail'[t][id] = Append(trail[t][id], Entry("create", {}))
      /\ \A u \in focus, o \in RowIds : ~(u = t /\ o = id) => trail'[u][o] = trail[u][o]
      /\ \A u \in focus, o \in RowIds :
           \/ trail'[u][o] = trail[u][o]
           \/ \E e \in Entries : trail'[u][o] = Append(trail[u][o], e)
  BY <1>4, OneEntry
<1>6. ASSUME NEW u \in focus, NEW o \in RowIds PROVE Keeps(u, o) /\ Typed(u, o)
  BY <1>2, <1>3, <1>4, RowFields DEF Keeps, Typed
<1>7. ASSUME NEW u \in focus, NEW o \in RowIds, Catalogue[u].audited PROVE Moved(u, o)
  BY <1>2, <1>3, <1>4, <1>5, <1>7, SMTT(30) DEF Moved
<1> QED BY <1>3, <1>5, <1>6, <1>7 DEF Moves

\* Nothing happens to rows and trails.
LEMMA StillMoves ==
  ASSUME RecordsTypeOK, ShapesInv, UNCHANGED <<focus, rows, trail>>
  PROVE  Moves
<1>1. /\ rows' \in [focus -> [RowIds -> RowSet]]
      /\ trail' \in [focus -> [RowIds -> Seq(Entries)]]
  BY DEF ShapesInv
<1>2. ASSUME NEW u \in focus, NEW o \in RowIds PROVE Keeps(u, o) /\ Typed(u, o) /\ Moved(u, o)
  BY RowFields DEF Keeps, Typed, Moved
<1> QED BY <1>1, <1>2 DEF Moves

\* PUT: a row that is found, and that has the column, changes in it; the trail says so.
LEMMA UpdateMoves ==
  ASSUME RecordsTypeOK, ShapesInv, UNCHANGED focus,
         NEW t \in focus, NEW id \in RowIds, NEW user \in Users, NEW column,
         Update(t, id, user, column)
  PROVE  Moves
<1> DEFINE found  == Found(t, id, user)
           fields == {column} \cap Catalogue[t].stored
           row    == rows[t][id]
<1>0. /\ row \in RowSet /\ row.refs \in [RefColumns(t) -> RowIds \cup {None}]
      /\ row.life \in Lives /\ row.owner \in Users \cup {None}
      /\ row.changed \subseteq Catalogue[t].stored /\ Catalogue[t].stored \subseteq Columns
      /\ row.by \in Makers /\ row.unrecorded \in SUBSET Columns
  BY RowFields
<1>1. CASE ~(found /\ fields # {})
  <2>1. rows' = rows
    BY <1>1 DEF Update
  <2>2. trail' = trail
    BY <1>1 DEF Update, Recorded
  <2> QED BY <2>1, <2>2, StillMoves
<1>2. CASE found /\ fields # {}
  <2>1. PICK v \in IF column \in RefColumns(t)
                   THEN Live(Catalogue[t].refs[column]) \cup {None} ELSE {None} :
          rows' = [rows EXCEPT
                     ![t][id].changed = @ \cup fields,
                     ![t][id].refs = [c \in RefColumns(t) |-> IF c = column THEN v ELSE @[c]]]
    BY <1>2 DEF Update
  <2> DEFINE refs == [c \in RefColumns(t) |-> IF c = column THEN v ELSE row.refs[c]]
             new == [life |-> row.life, refs |-> refs, changed |-> row.changed \cup fields,
                     owner |-> row.owner, by |-> row.by, unrecorded |-> row.unrecorded]
  <2>2. v \in RowIds \cup {None}
    BY <2>1 DEF Live
  <2>3. refs \in [RefColumns(t) -> RowIds \cup {None}]
    BY <1>0, <2>2
  <2>4. fields \in SUBSET Columns /\ row.changed \cup fields \in SUBSET Columns
        /\ row.changed \cup fields \subseteq Catalogue[t].stored
    BY <1>0
  <2>5. new \in RowSet
    <3> HIDE DEF refs, fields, row
    <3> QED BY <1>0, <2>3, <2>4, NewRow
  <2>6. Replaced(t, id, new)
    <3>1. rows \in [focus -> [RowIds -> RowSet]]
      BY DEF ShapesInv
    <3>3. [row EXCEPT !.changed = row.changed \cup fields, !.refs = refs] = new
      <4>1. row \in RowSet
        BY <1>0
      <4> HIDE DEF row, refs, fields
      <4> QED BY <4>1, RowExcept
    <3>4. rows' = [rows EXCEPT ![t][id] = [row EXCEPT !.changed = row.changed \cup fields,
                                                      !.refs = refs]]
      BY <2>1, <3>1
    <3> QED BY <3>3, <3>4 DEF Replaced
  <2>7. /\ new.life = "live" /\ row.life = "live" /\ new.refs = refs
        /\ new.changed = row.changed \cup fields /\ new.owner = row.owner
        /\ new.by = row.by /\ new.unrecorded = row.unrecorded
    BY <1>2 DEF Found, Live
  <2>8. /\ Entry("update", fields) \in Entries
        /\ trail' = IF Catalogue[t].audited
                    THEN [trail EXCEPT ![t][id] = Append(@, Entry("update", fields))] ELSE trail
    BY <1>2, <2>4 DEF Update, Recorded, Entry, Entries
  <2> HIDE DEF new, refs, fields, row, found
  <2>9. /\ rows' \in [focus -> [RowIds -> RowSet]] /\ rows'[t][id] = new
        /\ \A u \in focus, o \in RowIds : ~(u = t /\ o = id) => rows'[u][o] = rows[u][o]
    BY <2>5, <2>6, OneRow
  <2>10. /\ trail' \in [focus -> [RowIds -> Seq(Entries)]]
         /\ Catalogue[t].audited => trail'[t][id] = Append(trail[t][id], Entry("update", fields))
         /\ \A u \in focus, o \in RowIds : ~(u = t /\ o = id) => trail'[u][o] = trail[u][o]
         /\ \A u \in focus, o \in RowIds :
              \/ trail'[u][o] = trail[u][o]
              \/ \E f \in Entries : trail'[u][o] = Append(trail[u][o], f)
    BY <2>8, OneEntry
  <2>11. row = rows[t][id]
    BY DEF row
  <2>12. ASSUME NEW u \in focus, NEW o \in RowIds PROVE Keeps(u, o) /\ Typed(u, o)
    BY <2>3, <2>4, <2>7, <2>9, <2>11, RowFields DEF Keeps, Typed
  <2>13. ASSUME NEW u \in focus, NEW o \in RowIds, Catalogue[u].audited PROVE Moved(u, o)
    <3>1. CASE u = t /\ o = id
      BY <2>4, <2>7, <2>9, <2>10, <2>11, <2>13, <3>1 DEF Moved
    <3>2. CASE ~(u = t /\ o = id)
      BY <2>9, <2>10, <3>2 DEF Moved
    <3> QED BY <3>1, <3>2
  <2> QED BY <2>9, <2>10, <2>12, <2>13 DEF Moves
<1> QED BY <1>1, <1>2

\* What becomes of each row when one goes.
LEMMA WithoutRow ==
  ASSUME RecordsTypeOK, ShapesInv, NEW t \in focus, NEW id \in RowIds, rows[t][id].life = "live",
         rows' = Without(t, id)
  PROVE  /\ rows' \in [focus -> [RowIds -> RowSet]]
         /\ \A u \in focus, o \in RowIds :
              /\ rows'[u][o].changed = rows[u][o].changed
              /\ rows'[u][o].owner = rows[u][o].owner
              /\ rows'[u][o].by = rows[u][o].by
              /\ rows'[u][o].unrecorded = rows[u][o].unrecorded
              /\ rows'[u][o].refs \in [RefColumns(u) -> RowIds \cup {None}]
              /\ \/ rows'[u][o].life = rows[u][o].life /\ ~(u = t /\ o = id)
                 \/ /\ rows[u][o].life = "live" /\ rows'[u][o].life = "gone"
                    /\ (u = t /\ o = id) \/ Cascades(u)
<1> DEFINE Refers(u, o) ==
             {c \in RefColumns(u) : Catalogue[u].refs[c] = t /\ rows[u][o].refs[c] = id}
           goes(u, o) ==
             \/ u = t /\ o = id
             \/ rows[u][o].life = "live" /\ Catalogue[u].onDelete = "cascade" /\ Refers(u, o) # {}
           none(u) == [c \in RefColumns(u) |-> None]
           less(u, o) == [c \in RefColumns(u) |->
                            IF c \in Refers(u, o) THEN None ELSE rows[u][o].refs[c]]
           new(u, o) == IF goes(u, o)
                        THEN [rows[u][o] EXCEPT !.life = "gone", !.refs = none(u)]
                        ELSE [rows[u][o] EXCEPT !.refs = less(u, o)]
<1>1. rows' = [u \in focus |-> [o \in RowIds |-> new(u, o)]]
  BY DEF Without
<1>2. ASSUME NEW u \in focus, NEW o \in RowIds
      PROVE  /\ rows'[u][o] = new(u, o)
             /\ new(u, o) = [life |-> IF goes(u, o) THEN "gone" ELSE rows[u][o].life,
                             refs |-> IF goes(u, o) THEN none(u) ELSE less(u, o),
                             changed |-> rows[u][o].changed, owner |-> rows[u][o].owner,
                             by |-> rows[u][o].by, unrecorded |-> rows[u][o].unrecorded]
             /\ new(u, o) \in RowSet
             /\ none(u) \in [RefColumns(u) -> RowIds \cup {None}]
             /\ less(u, o) \in [RefColumns(u) -> RowIds \cup {None}]
  <2>0. /\ rows[u][o] \in RowSet /\ rows[u][o].refs \in [RefColumns(u) -> RowIds \cup {None}]
        /\ rows[u][o].life \in Lives /\ rows[u][o].owner \in Users \cup {None}
        /\ rows[u][o].changed \subseteq Catalogue[u].stored /\ Catalogue[u].stored \subseteq Columns
        /\ rows[u][o].by \in Makers /\ rows[u][o].unrecorded \subseteq Catalogue[u].stored
    BY RowFields
  <2>1. rows[u][o] = [life |-> rows[u][o].life, refs |-> rows[u][o].refs,
                      changed |-> rows[u][o].changed, owner |-> rows[u][o].owner,
                      by |-> rows[u][o].by, unrecorded |-> rows[u][o].unrecorded]
    BY <2>0 DEF RowSet
  <2>2. rows'[u][o] = new(u, o)
    <3> HIDE DEF new
    <3> QED BY <1>1
  <2>3. /\ none(u) \in [RefColumns(u) -> RowIds \cup {None}]
        /\ less(u, o) \in [RefColumns(u) -> RowIds \cup {None}]
    BY <2>0
  <2> HIDE DEF none, less, goes
  <2>4. new(u, o) = [life |-> IF goes(u, o) THEN "gone" ELSE rows[u][o].life,
                     refs |-> IF goes(u, o) THEN none(u) ELSE less(u, o),
                     changed |-> rows[u][o].changed, owner |-> rows[u][o].owner,
                     by |-> rows[u][o].by, unrecorded |-> rows[u][o].unrecorded]
    BY <2>1
  <2>5. new(u, o) \in RowSet
    <3>1. "gone" \in Lives
      BY DEF Lives
    <3>2. rows[u][o].changed \in SUBSET Columns /\ rows[u][o].unrecorded \in SUBSET Columns
      BY <2>0
    <3> HIDE DEF new
    <3>3. CASE goes(u, o)
      BY <2>0, <2>3, <2>4, <3>1, <3>2, <3>3, NewRow
    <3>4. CASE ~goes(u, o)
      BY <2>0, <2>3, <2>4, <3>2, <3>4, NewRow
    <3> QED BY <3>3, <3>4
  <2> QED BY <2>2, <2>3, <2>4, <2>5
<1>3. \A u \in focus, o \in RowIds :
        goes(u, o) => (u = t /\ o = id) \/ (rows[u][o].life = "live" /\ Cascades(u))
  BY DEF Cascades
<1>4. goes(t, id)
  OBVIOUS
<1> HIDE DEF none, less, goes, new
<1>5. rows' \in [focus -> [RowIds -> RowSet]]
  <2>1. \A u \in focus, o \in RowIds : new(u, o) \in RowSet
    BY <1>2
  <2> QED BY <1>1, <2>1
<1>6. ASSUME NEW u \in focus, NEW o \in RowIds
      PROVE  /\ rows'[u][o].changed = rows[u][o].changed
             /\ rows'[u][o].owner = rows[u][o].owner
             /\ rows'[u][o].by = rows[u][o].by
             /\ rows'[u][o].unrecorded = rows[u][o].unrecorded
             /\ rows'[u][o].refs \in [RefColumns(u) -> RowIds \cup {None}]
             /\ rows'[u][o].life = IF goes(u, o) THEN "gone" ELSE rows[u][o].life
  BY <1>2
<1> QED BY <1>3, <1>4, <1>5, <1>6

\* DELETE: a row that is found ends, and those that cascade with it; only its own trail
\* says so.
LEMMA DeleteMoves ==
  ASSUME RecordsTypeOK, ShapesInv, UNCHANGED focus,
         NEW t \in focus, NEW id \in RowIds, NEW user \in Users, Delete(t, id, user)
  PROVE  Moves
<1>1. CASE ~Found(t, id, user)
  <2>1. rows' = rows /\ trail' = trail
    BY <1>1 DEF Delete, Recorded
  <2> QED BY <2>1, StillMoves
<1>2. CASE Found(t, id, user)
  <2>1. rows[t][id].life = "live" /\ rows' = Without(t, id)
    BY <1>2 DEF Delete, Found, Live
  <2>2. /\ rows' \in [focus -> [RowIds -> RowSet]]
        /\ \A u \in focus, o \in RowIds :
             /\ rows'[u][o].changed = rows[u][o].changed
             /\ rows'[u][o].owner = rows[u][o].owner
             /\ rows'[u][o].by = rows[u][o].by
             /\ rows'[u][o].unrecorded = rows[u][o].unrecorded
             /\ rows'[u][o].refs \in [RefColumns(u) -> RowIds \cup {None}]
             /\ \/ rows'[u][o].life = rows[u][o].life /\ ~(u = t /\ o = id)
                \/ /\ rows[u][o].life = "live" /\ rows'[u][o].life = "gone"
                   /\ (u = t /\ o = id) \/ Cascades(u)
    BY <2>1, WithoutRow
  <2>3. /\ Entry("delete", {}) \in Entries
        /\ trail' = IF Catalogue[t].audited
                    THEN [trail EXCEPT ![t][id] = Append(@, Entry("delete", {}))] ELSE trail
    BY <1>2 DEF Delete, Recorded, Entry, Entries
  <2>4. /\ trail' \in [focus -> [RowIds -> Seq(Entries)]]
        /\ Catalogue[t].audited => trail'[t][id] = Append(trail[t][id], Entry("delete", {}))
        /\ \A u \in focus, o \in RowIds : ~(u = t /\ o = id) => trail'[u][o] = trail[u][o]
        /\ \A u \in focus, o \in RowIds :
             \/ trail'[u][o] = trail[u][o]
             \/ \E f \in Entries : trail'[u][o] = Append(trail[u][o], f)
    BY <2>3, OneEntry
  <2>5. ASSUME NEW u \in focus, NEW o \in RowIds PROVE Keeps(u, o) /\ Typed(u, o)
    BY <2>2, RowFields DEF Keeps, Typed
  <2>6. ASSUME NEW u \in focus, NEW o \in RowIds, Catalogue[u].audited PROVE Moved(u, o)
    <3>1. CASE u = t /\ o = id
      BY <2>2, <2>4, <2>6, <3>1 DEF Moved
    <3>2. CASE ~(u = t /\ o = id)
      BY <2>2, <2>4, <3>2 DEF Moved
    <3> QED BY <3>1, <3>2
  <2> QED BY <2>2, <2>4, <2>5, <2>6 DEF Moves
<1> QED BY <1>1, <1>2

\* The columns that the program sets are columns of their tables.
LEMMA OwnColumns ==
  \A t \in DOMAIN Unrecorded : \A columns \in Unrecorded[t].updates :
    columns \subseteq Catalogue[t].stored
<1>1. DOMAIN Unrecorded = {"datasets", "pii_flags", "suggestions"}
  BY DEF Unrecorded
<1>2. Unrecorded["datasets"].updates = {}
  BY DEF Unrecorded
<1>3. \A columns \in Unrecorded["pii_flags"].updates :
        columns \subseteq Catalogue["pii_flags"].stored
  <2>1. \A columns \in Unrecorded["pii_flags"].updates :
          columns \subseteq {"status"} \cup Evidence
    BY DEF Unrecorded, Evidence
  <2>2. {"status"} \cup Evidence \subseteq PiiFlags.stored
    BY DEF PiiFlags, Audited, Table, Evidence
  <2>3. Catalogue["pii_flags"] = PiiFlags
    BY DEF Catalogue
  <2> QED BY <2>1, <2>2, <2>3
<1>4. \A columns \in Unrecorded["suggestions"].updates :
        columns \subseteq Catalogue["suggestions"].stored
  <2>1. \A columns \in Unrecorded["suggestions"].updates :
          columns \subseteq {"status", "score", "strategy"}
    BY DEF Unrecorded
  <2>2. {"status", "score", "strategy"} \subseteq Suggestions.stored
    BY DEF Suggestions, Audited, Table
  <2>3. Catalogue["suggestions"] = Suggestions
    BY DEF Catalogue
  <2> QED BY <2>1, <2>2, <2>3
<1> QED BY <1>1, <1>2, <1>3, <1>4

\* The program adds a row: it begins its life, and its trail does not begin.
LEMMA InsertMoves ==
  ASSUME RecordsTypeOK, ShapesInv, UNCHANGED focus,
         NEW t \in focus \cap DOMAIN Unrecorded, NEW id \in RowIds, InsertUnrecorded(t, id)
  PROVE  Moves
<1>1. PICK refs \in [RefColumns(t) -> RowIds \cup {None}] :
        rows' = [rows EXCEPT ![t][id] =
                   [ life |-> "live", refs |-> refs, changed |-> {}, owner |-> None,
                     by |-> "program", unrecorded |-> {} ]]
  BY DEF InsertUnrecorded
<1> DEFINE new == [ life |-> "live", refs |-> refs, changed |-> {}, owner |-> None,
                    by |-> "program", unrecorded |-> {} ]
<1>2. /\ new \in RowSet /\ new.life = "live" /\ new.refs = refs /\ new.changed = {}
      /\ new.by = "program" /\ new.unrecorded = {}
  BY NewRow DEF Lives, Makers
<1> HIDE DEF new
<1>3. /\ rows' \in [focus -> [RowIds -> RowSet]] /\ rows'[t][id] = new
      /\ \A u \in focus, o \in RowIds : ~(u = t /\ o = id) => rows'[u][o] = rows[u][o]
  <2>1. Replaced(t, id, new)
    BY <1>1 DEF new, Replaced
  <2> QED BY <1>2, <2>1, OneRow
<1>4. /\ rows[t][id].life = "never" /\ trail' = trail
      /\ trail' \in [focus -> [RowIds -> Seq(Entries)]]
  BY DEF InsertUnrecorded, ShapesInv
<1>5. ASSUME NEW u \in focus, NEW o \in RowIds PROVE Keeps(u, o) /\ Typed(u, o)
  BY <1>2, <1>3, <1>4, RowFields DEF Keeps, Typed
<1>6. ASSUME NEW u \in focus, NEW o \in RowIds PROVE Moved(u, o)
  BY <1>2, <1>3, <1>4 DEF Moved
<1> QED BY <1>3, <1>4, <1>5, <1>6 DEF Moves

\* The program changes a row: its trail does not say so.
LEMMA ChangeMoves ==
  ASSUME RecordsTypeOK, ShapesInv, UNCHANGED focus,
         NEW t \in focus \cap DOMAIN Unrecorded, NEW id \in RowIds,
         NEW columns \in Unrecorded[t].updates, UpdateUnrecorded(t, id, columns)
  PROVE  Moves
<1> DEFINE row  == rows[t][id]
           more == row.unrecorded \cup columns
<1>1. PICK refs \in [RefColumns(t) -> RowIds \cup {None}] :
        rows' = [rows EXCEPT ![t][id].refs = refs, ![t][id].unrecorded = @ \cup columns]
  BY DEF UpdateUnrecorded
<1> DEFINE new == [ life |-> row.life, refs |-> refs, changed |-> row.changed,
                    owner |-> row.owner, by |-> row.by, unrecorded |-> more ]
<1>2. /\ row \in RowSet /\ row.life \in Lives /\ row.owner \in Users \cup {None}
      /\ row.by \in Makers /\ row.changed \in SUBSET Columns
      /\ more \subseteq Catalogue[t].stored /\ more \in SUBSET Columns
  BY RowFields, OwnColumns
<1>3. new = [row EXCEPT !.refs = refs, !.unrecorded = more]
  <2>1. row \in RowSet
    BY <1>2
  <2> HIDE DEF row, more
  <2> QED BY <2>1, RowExcept
<1>4. Replaced(t, id, new)
  <2>1. rows \in [focus -> [RowIds -> RowSet]]
    BY DEF ShapesInv
  <2>2. rows' = [rows EXCEPT ![t][id] = [row EXCEPT !.refs = refs, !.unrecorded = more]]
    BY <1>1, <2>1
  <2> QED BY <1>3, <2>2 DEF Replaced
<1>5. row = rows[t][id]
  OBVIOUS
<1> HIDE DEF row, more
<1>6. new \in RowSet
  BY <1>2, NewRow
<1>7. /\ new.life = row.life /\ new.refs = refs /\ new.changed = row.changed
      /\ new.owner = row.owner /\ new.by = row.by /\ new.unrecorded = more
  OBVIOUS
<1> HIDE DEF new
<1>8. /\ rows' \in [focus -> [RowIds -> RowSet]] /\ rows'[t][id] = new
      /\ \A u \in focus, o \in RowIds : ~(u = t /\ o = id) => rows'[u][o] = rows[u][o]
  BY <1>4, <1>6, OneRow
<1>9. trail' = trail /\ trail' \in [focus -> [RowIds -> Seq(Entries)]]
  BY DEF UpdateUnrecorded, ShapesInv
<1>10. ASSUME NEW u \in focus, NEW o \in RowIds PROVE Keeps(u, o) /\ Typed(u, o)
  BY <1>2, <1>5, <1>7, <1>8, RowFields DEF Keeps, Typed
<1>11. ASSUME NEW u \in focus, NEW o \in RowIds PROVE Moved(u, o)
  BY <1>5, <1>7, <1>8, <1>9 DEF Moved
<1> QED BY <1>8, <1>9, <1>10, <1>11 DEF Moves

-----------------------------------------------------------------------------
(* What holds of the rows, of the trail and of what requests are told.     *)

\* Whatever a write does to the rows, their trails say so.
LEMMA MovesExact ==
  ASSUME RecordsTypeOK, ShapesInv, RowsExact, Moves
  PROVE  RowsExact'
<1> SUFFICES ASSUME NEW t \in focus, NEW id \in RowIds, Catalogue[t].audited
             PROVE  Exact(rows'[t][id].life, rows'[t][id].by, rows'[t][id].changed,
                          trail'[t][id], Cascades(t))
  BY DEF RowsExact, Moves, Exact, At, Cascades
<1> DEFINE row == rows[t][id]
           new == rows'[t][id]
           es  == trail[t][id]
<1>1. Exact(row.life, row.by, row.changed, es, Cascades(t))
  BY DEF RowsExact
<1>2. es \in Seq(Entries)
  BY DEF ShapesInv
<1>3. Moved(t, id)
  BY DEF Moves
<1>4. CASE new.life = row.life /\ new.by = row.by /\ new.changed = row.changed /\ trail'[t][id] = es
  BY <1>1, <1>4
<1>5. CASE /\ row.life = "never" /\ new.life = "live" /\ new.by = "route" /\ new.changed = {}
           /\ trail'[t][id] = Append(es, Entry("create", {}))
  <2>1. Exact("never", row.by, row.changed, es, Cascades(t))
    BY <1>1, <1>5
  <2> HIDE DEF row, new, es
  <2>2. Exact("live", "route", {}, Append(es, Entry("create", {})), Cascades(t))
    BY <1>2, <2>1, ExactCreate
  <2> QED BY <1>5, <2>2 DEF new
<1>6. ASSUME NEW fields \in SUBSET Columns,
             row.life = "live", new.life = "live", new.by = row.by,
             new.changed = row.changed \cup fields,
             trail'[t][id] = Append(es, Entry("update", fields))
      PROVE  Exact(rows'[t][id].life, rows'[t][id].by, rows'[t][id].changed,
                   trail'[t][id], Cascades(t))
  <2>1. Exact("live", row.by, row.changed, es, Cascades(t))
    BY <1>1, <1>6
  <2> HIDE DEF row, new, es
  <2>2. Exact("live", row.by, row.changed \cup fields, Append(es, Entry("update", fields)),
              Cascades(t))
    BY <1>2, <2>1, ExactUpdate
  <2> QED BY <1>6, <2>2 DEF new
<1>7. CASE /\ row.life = "live" /\ new.life = "gone" /\ new.by = row.by /\ new.changed = row.changed
           /\ trail'[t][id] = Append(es, Entry("delete", {}))
  <2>1. Exact("live", row.by, row.changed, es, Cascades(t))
    BY <1>1, <1>7
  <2> HIDE DEF row, new, es
  <2>2. Exact("gone", row.by, row.changed, Append(es, Entry("delete", {})), Cascades(t))
    BY <1>2, <2>1, ExactDelete
  <2> QED BY <1>7, <2>2 DEF new
<1>8. CASE /\ row.life = "live" /\ new.life = "gone" /\ new.by = row.by /\ new.changed = row.changed
           /\ Cascades(t) /\ trail'[t][id] = es
  BY <1>1, <1>8 DEF Exact
<1>9. CASE /\ row.life = "never" /\ new.life = "live" /\ new.by = "program" /\ new.changed = {}
           /\ trail'[t][id] = es
  <2>1. Exact("never", row.by, row.changed, es, Cascades(t))
    BY <1>1, <1>9
  <2> HIDE DEF row, new, es
  <2>2. Exact("live", "program", {}, es, Cascades(t))
    BY <2>1, ExactInsert
  <2> QED BY <1>9, <2>2 DEF new
<1> QED BY <1>3, <1>4, <1>5, <1>6, <1>7, <1>8, <1>9 DEF Moved

\* The fields of a request.
LEMMA AskType ==
  ASSUME NEW ask \in Asks
  PROVE  /\ ask.op \in {"create", "update", "delete", "read", "not found"}
         /\ ask.table \in focus /\ ask.id \in RowIds /\ ask.user \in Users
BY DEF Asks

\* An entry stays in the trail, at its place.
LEMMA TrailGrows ==
  ASSUME ShapesInv, Moves, NEW t \in focus, NEW id \in RowIds, NEW n \in DOMAIN trail[t][id]
  PROVE  n \in DOMAIN trail'[t][id] /\ trail'[t][id][n] = trail[t][id][n]
<1> DEFINE es == trail[t][id]
<1>1. es \in Seq(Entries)
  BY DEF ShapesInv
<1>2. ASSUME NEW e \in Entries, trail'[t][id] = Append(es, e)
      PROVE  n \in DOMAIN trail'[t][id] /\ trail'[t][id][n] = es[n]
  BY <1>1, <1>2
<1>3. trail'[t][id] = es \/ \E e \in Entries : trail'[t][id] = Append(es, e)
  BY DEF Moves
<1> QED BY <1>2, <1>3

\* What is in the trail stays there, and a row nobody finds is not found again.
LEMMA AskStays ==
  ASSUME RecordsTypeOK, ShapesInv, Moves, NEW ask \in Asks
  PROVE  (InTrail(ask) => InTrail(ask)') /\ (Lost(ask) => Lost(ask)')
<1>1. ask.table \in focus /\ ask.id \in RowIds /\ ask.user \in Users
  BY AskType
<1>2. ASSUME InTrail(ask) PROVE InTrail(ask)'
  <2>1. PICK n \in DOMAIN trail[ask.table][ask.id] : trail[ask.table][ask.id][n].action = ask.op
    BY <1>2 DEF InTrail
  <2>2. /\ n \in DOMAIN trail'[ask.table][ask.id]
        /\ trail'[ask.table][ask.id][n] = trail[ask.table][ask.id][n]
    BY <1>1, TrailGrows
  <2> QED BY <2>1, <2>2 DEF InTrail
<1>3. Keeps(ask.table, ask.id)
  BY <1>1 DEF Moves
<1>4. rows[ask.table][ask.id].life \in Lives
  BY <1>1, RowFields
<1>5. ASSUME Lost(ask) PROVE Lost(ask)'
  BY <1>1, <1>3, <1>4, <1>5 DEF Lost, Known, Found, Live, Keeps, Lives
<1> QED BY <1>2, <1>5

\* So do the requests that were waiting, and the last answer where it stays the last.
LEMMA OldAsks ==
  ASSUME RecordsTypeOK, ShapesInv, ReadingInv, AnswerInv, Moves
  PROVE  /\ \A ask \in reading : Audits(ask) => InTrail(ask)' \/ Lost(ask)'
         /\ answer' = answer => AnswerInv'
<1>1. reading \subseteq Asks /\ answer \in Asks \cup {None}
  BY DEF ShapesInv
<1>2. ASSUME NEW ask \in reading, Audits(ask) PROVE InTrail(ask)' \/ Lost(ask)'
  BY <1>1, <1>2, AskStays DEF ReadingInv
<1>3. ASSUME answer' = answer, answer # None, Audits(answer)
      PROVE  InTrail(answer)'
  <2>1. PICK ask \in Asks : ask = answer
    BY <1>1, <1>3
  <2>2. InTrail(ask)
    BY <1>3, <2>1 DEF AnswerInv
  <2>3. InTrail(ask)'
    BY <2>2, AskStays
  <2> QED BY <1>3, <2>1, <2>3 DEF InTrail
<1>4. ASSUME answer' = answer PROVE AnswerInv'
  BY <1>3, <1>4 DEF AnswerInv, Audits
<1> QED BY <1>2, <1>4

\* The tables of a behaviour settle what its rows, entries and requests are.
LEMMA SameSets ==
  ASSUME focus' = focus
  PROVE  /\ RowSet' = RowSet /\ Entries' = Entries /\ Asks' = Asks
         /\ \A t : RefColumns(t)' = RefColumns(t)
<1>1. \A t : RefColumns(t)' = RefColumns(t)
  BY DEF RefColumns
<1>2. Columns' = Columns /\ Asks' = Asks
  BY DEF Columns, Asks
<1>3. UNION {[RefColumns(t) -> RowIds \cup {None}] : t \in focus}
        = (UNION {[RefColumns(t) -> RowIds \cup {None}] : t \in focus})'
  BY <1>1
<1> QED BY <1>1, <1>2, <1>3 DEF RowSet, Entries

\* Moves keep the types of the rows, of their trails and of the tables.
LEMMA MovesTyped ==
  ASSUME RecordsTypeOK, Moves, writes' \in 0 .. MaxWrites
  PROVE  RecordsTypeOK'
<1>1. focus' = focus /\ \A t : RefColumns(t)' = RefColumns(t)
  BY SameSets DEF Moves
<1>2. ASSUME NEW t \in focus, NEW id \in RowIds
      PROVE  /\ rows'[t][id].life \in Lives /\ rows'[t][id].owner \in Users \cup {None}
             /\ rows'[t][id].refs \in [RefColumns(t) -> RowIds \cup {None}]
             /\ rows'[t][id].changed \subseteq Catalogue[t].stored
             /\ rows'[t][id].by \in Makers
             /\ rows'[t][id].unrecorded \subseteq Catalogue[t].stored
  <2>1. rows'[t][id] \in RowSet /\ Typed(t, id)
    BY DEF Moves
  <2> QED BY <2>1 DEF RowSet, Typed
<1> QED BY <1>1, <1>2 DEF RecordsTypeOK, Lives, Makers

\* And the program to its tables.
LEMMA MovesConfined ==
  ASSUME Confined, Moves
  PROVE  Confined'
<1>1. focus' = focus /\ \A t \in focus, id \in RowIds : Keeps(t, id)
  BY DEF Moves
<1>2. ASSUME NEW t \in focus \ DOMAIN Unrecorded, NEW id \in RowIds
      PROVE  rows'[t][id].by # "program" /\ rows'[t][id].unrecorded = {}
  <2>1. rows[t][id].by # "program" /\ rows[t][id].unrecorded = {}
    BY DEF Confined
  <2>2. /\ rows'[t][id].by \in {rows[t][id].by, "route"}
        /\ rows'[t][id].unrecorded \subseteq rows[t][id].unrecorded
    BY <1>1 DEF Keeps
  <2> QED BY <2>1, <2>2
<1> QED BY <1>1, <1>2 DEF Confined

\* A write whose request then reads its answer, and is in the trail or has found nothing.
LEMMA AsksNext ==
  ASSUME IInv, Moves, writes' \in 0 .. MaxWrites, NEW ask \in Asks,
         reading' = reading \cup {ask}, answer' = answer,
         Audits(ask) => InTrail(ask)' \/ Lost(ask)'
  PROVE  IInv'
<1>1. RecordsTypeOK' /\ RowsExact' /\ Confined'
  BY MovesTyped, MovesExact, MovesConfined DEF IInv
<1>2. ShapesInv'
  BY SameSets DEF ShapesInv, IInv, Moves
<1>3. (\A a \in reading : Audits(a) => InTrail(a)' \/ Lost(a)') /\ AnswerInv'
  BY OldAsks DEF IInv
<1>4. ReadingInv'
  BY <1>3 DEF ReadingInv, Audits
<1> QED BY <1>1, <1>2, <1>3, <1>4 DEF IInv

\* A write that adds an entry for a request.
LEMMA EntryIn ==
  ASSUME ShapesInv, NEW t \in focus, NEW id \in RowIds, NEW ask, ask.table = t, ask.id = id,
         NEW detail, trail' = [trail EXCEPT ![t][id] = Append(@, Entry(ask.op, detail))]
  PROVE  InTrail(ask)'
<1> DEFINE es == trail[t][id]
<1>1. es \in Seq(Entries) /\ trail'[t][id] = Append(es, Entry(ask.op, detail))
  BY DEF ShapesInv
<1>2. /\ Len(es) + 1 \in DOMAIN Append(es, Entry(ask.op, detail))
      /\ Append(es, Entry(ask.op, detail))[Len(es) + 1] = Entry(ask.op, detail)
  BY <1>1
<1> QED BY <1>1, <1>2 DEF InTrail, Entry

-----------------------------------------------------------------------------
(* The invariant.                                                          *)

\* POST: the request has its entry.
LEMMA CreateStep ==
  ASSUME IInv, UNCHANGED focus, writes' \in 0 .. MaxWrites,
         NEW t \in focus, NEW id \in RowIds, NEW user \in Users, Create(t, id, user)
  PROVE  IInv'
<1>1. Moves
  BY CreateMoves DEF IInv
<1>2. PICK ask \in Asks : ask = Ask("create", t, id, user)
  BY DEF Ask, Asks
<1>6. ask.op = "create" /\ ask.table = t /\ ask.id = id
  BY <1>2 DEF Ask
<1>3. reading' = reading \cup {ask} /\ answer' = answer
  BY <1>2 DEF Create
<1>4. Catalogue[t].audited => trail' = [trail EXCEPT ![t][id] = Append(@, Entry("create", {}))]
  BY DEF Create, Recorded
<1>7. ShapesInv
  BY DEF IInv
<1>5. ASSUME Audits(ask) PROVE InTrail(ask)'
  <2>1. trail' = [trail EXCEPT ![t][id] = Append(@, Entry(ask.op, {}))]
    BY <1>4, <1>5, <1>6 DEF Audits
  <2> QED BY <1>6, <1>7, <2>1, EntryIn
<1> QED BY <1>1, <1>3, <1>5, AsksNext

\* PUT: the request has its entry, or asked for nothing that is written, or found no row.
LEMMA UpdateStep ==
  ASSUME IInv, UNCHANGED focus, writes' \in 0 .. MaxWrites,
         NEW t \in focus, NEW id \in RowIds, NEW user \in Users, NEW column,
         Known(t, id), Update(t, id, user, column)
  PROVE  IInv'
<1> DEFINE fields == {column} \cap Catalogue[t].stored
           op     == IF fields = {} THEN "read" ELSE "update"
<1>1. Moves /\ RecordsTypeOK /\ ShapesInv
  BY UpdateMoves DEF IInv
<1>0. op \in {"create", "update", "delete", "read", "not found"}
  OBVIOUS
<1>2. PICK ask \in Asks : ask = Ask(op, t, id, user)
  <2> HIDE DEF op
  <2> QED BY <1>0 DEF Ask, Asks
<1>3. reading' = reading \cup {ask} /\ answer' = answer
  BY <1>2 DEF Update
<1>4. fields # {} => trail' = Recorded(t, id, "update", fields, Found(t, id, user))
  BY DEF Update
<1>5. (fields = {} => op = "read") /\ (fields # {} => op = "update")
  OBVIOUS
<1>9. ask.op = op /\ ask.table = t /\ ask.id = id /\ ask.user = user
  BY <1>2 DEF Ask
<1> HIDE DEF op, fields
<1>6. ASSUME Audits(ask), Found(t, id, user) PROVE InTrail(ask)'
  <2>1. trail' = [trail EXCEPT ![t][id] = Append(@, Entry(ask.op, fields))]
    BY <1>9, <1>4, <1>5, <1>6 DEF Recorded, Audits
  <2> QED BY <1>1, <1>9, <2>1, EntryIn
<1>7. ASSUME ~Found(t, id, user) PROVE Lost(ask)'
  <2>1. Lost(ask)
    BY <1>9, <1>7 DEF Lost
  <2> QED BY <1>1, <2>1, AskStays
<1> QED BY <1>1, <1>3, <1>6, <1>7, AsksNext

\* A step after which nobody new waits, and whose answer is in the trail.
LEMMA AnswerNext ==
  ASSUME IInv, Moves, writes' \in 0 .. MaxWrites, reading' \subseteq reading,
         NEW ask \in Asks, answer' = ask, Audits(ask) => InTrail(ask)'
  PROVE  IInv'
<1>1. RecordsTypeOK' /\ RowsExact' /\ Confined'
  BY MovesTyped, MovesExact, MovesConfined DEF IInv
<1>2. ShapesInv'
  BY SameSets DEF ShapesInv, IInv, Moves
<1>3. \A a \in reading : Audits(a) => InTrail(a)' \/ Lost(a)'
  BY OldAsks DEF IInv
<1>4. ReadingInv'
  BY <1>3 DEF ReadingInv, Audits
<1>5. AnswerInv'
  BY DEF AnswerInv, Audits, InTrail
<1> QED BY <1>1, <1>2, <1>4, <1>5 DEF IInv

\* DELETE: a row that was found has its entry, and any other is answered with 404.
LEMMA DeleteStep ==
  ASSUME IInv, UNCHANGED focus, writes' \in 0 .. MaxWrites,
         NEW t \in focus, NEW id \in RowIds, NEW user \in Users, Delete(t, id, user)
  PROVE  IInv'
<1> DEFINE op  == IF Found(t, id, user) THEN "delete" ELSE "not found"
<1>1. Moves /\ ShapesInv
  BY DeleteMoves DEF IInv
<1>0. op \in {"create", "update", "delete", "read", "not found"}
  OBVIOUS
<1>2. PICK ask \in Asks : ask = Ask(op, t, id, user)
  <2> HIDE DEF op
  <2> QED BY <1>0 DEF Ask, Asks
<1>3. answer' = ask /\ ask.op = op /\ ask.table = t /\ ask.id = id
  <2>1. answer' = [Ask("delete", t, id, user) EXCEPT !.op = op]
    BY DEF Delete
  <2> HIDE DEF op
  <2> QED BY <1>2, <2>1 DEF Ask
<1>4. reading' = reading /\ trail' = Recorded(t, id, "delete", {}, Found(t, id, user))
  BY DEF Delete
<1>5. op = "delete" \/ op = "not found"
  OBVIOUS
<1>6. op = "delete" => Found(t, id, user)
  OBVIOUS
<1> HIDE DEF op
<1>7. ASSUME Audits(ask) PROVE InTrail(ask)'
  <2>1. op = "delete"
    BY <1>3, <1>5, <1>7 DEF Audits
  <2>2. trail' = [trail EXCEPT ![t][id] = Append(@, Entry(ask.op, {}))]
    BY <1>3, <1>4, <1>6, <1>7, <2>1 DEF Recorded, Audits
  <2> QED BY <1>1, <1>3, <2>2, EntryIn
<1> QED BY <1>1, <1>3, <1>4, <1>7, AnswerNext

\* A request that finds its row is in the trail: one that had found none finds none.
LEMMA ReadStep ==
  ASSUME IInv, UNCHANGED <<focus, writes>>, NEW ask \in reading, ReadBack(ask)
  PROVE  IInv'
<1> DEFINE found == Found(ask.table, ask.id, ask.user)
<1>1. RecordsTypeOK /\ ShapesInv /\ ReadingInv /\ UNCHANGED <<focus, rows, trail>>
  BY DEF IInv, ReadBack
<1>2. Moves
  BY <1>1, StillMoves
<1>3. writes' \in 0 .. MaxWrites
  BY DEF IInv, RecordsTypeOK
<1>4. ask \in Asks
  BY DEF IInv, ShapesInv
<1>5. PICK said \in Asks : said = [ask EXCEPT !.op = IF found THEN @ ELSE "not found"]
  BY <1>4 DEF Asks
<1>6. answer' = said /\ reading' \subseteq reading
  BY <1>5 DEF ReadBack
<1>7. ASSUME Audits(said) PROVE InTrail(said)'
  <2>1. found /\ said = ask
    BY <1>4, <1>5, <1>7 DEF Audits, Asks
  <2>2. InTrail(ask)
    BY <1>1, <1>7, <2>1 DEF ReadingInv, Lost
  <2>3. InTrail(ask)'
    BY <1>1, <2>2 DEF InTrail
  <2> QED BY <2>1, <2>3
<1> HIDE DEF found
<1> QED BY <1>2, <1>3, <1>6, <1>7, AnswerNext

\* A write of the program: requests keep their entries.
LEMMA UnrecordedStep ==
  ASSUME IInv, UNCHANGED <<focus, reading, answer>>, writes' \in 0 .. MaxWrites, Moves
  PROVE  IInv'
<1>1. RecordsTypeOK' /\ RowsExact' /\ Confined'
  BY MovesTyped, MovesExact, MovesConfined DEF IInv
<1>2. ShapesInv'
  BY SameSets DEF ShapesInv, IInv, Moves
<1>3. (\A a \in reading : Audits(a) => InTrail(a)' \/ Lost(a)') /\ AnswerInv'
  BY OldAsks DEF IInv
<1>4. ReadingInv'
  BY <1>3 DEF ReadingInv, Audits
<1> QED BY <1>1, <1>2, <1>3, <1>4 DEF IInv

\* A step that changes nothing.
LEMMA Stutter ==
  ASSUME IInv, UNCHANGED recordsVars
  PROVE  IInv'
<1>1. UNCHANGED <<focus, rows, trail, reading, answer, writes>>
  BY DEF recordsVars
<1>2. Moves
  BY <1>1, StillMoves DEF IInv
<1>3. RecordsTypeOK' /\ RowsExact' /\ Confined'
  BY <1>1, <1>2, MovesTyped, MovesExact, MovesConfined DEF IInv, RecordsTypeOK
<1>4. ShapesInv'
  BY <1>1, SameSets DEF ShapesInv, IInv
<1>5. (\A a \in reading : Audits(a) => InTrail(a)' \/ Lost(a)') /\ AnswerInv'
  BY <1>1, <1>2, OldAsks DEF IInv
<1>6. ReadingInv'
  BY <1>1, <1>5 DEF ReadingInv, Audits
<1> QED BY <1>3, <1>4, <1>5, <1>6 DEF IInv

\* The tables there are, by name.
Tables == {"audit_logs", "connection_tests", "dashboard_item_fields",
       "dashboard_item_layouts", "dashboard_items", "dashboards", "datasets",
       "deletion_requests", "delta_cursors", "discovered_fields", "discovery_runs",
       "feed_credentials", "field_profiles", "ingested_records", "load_sequences",
       "odata_service_configs", "pii_flags", "pipelines", "process_definitions",
       "process_steps", "retention_policies", "retention_runs", "runs",
       "sequence_flows", "sequence_run_steps", "sequence_runs", "sequence_steps",
       "source_connections", "source_credentials", "sources", "suggestion_fields",
       "suggestions", "suppression_entries"}

\* A table whose foreign keys refer to tables of the catalogue.
Sound(table) == \A c \in DOMAIN table.refs : table.refs[c] \in Tables

\* What makes it one is its references.
LEMMA TableSound ==
  ASSUME NEW stored, NEW refs, NEW createOnly, \A c \in DOMAIN refs : refs[c] \in Tables
  PROVE  /\ Sound(Table(stored, refs, createOnly))
         /\ Sound(Audited(Table(stored, refs, createOnly)))
         /\ Sound(Owned(Table(stored, refs, createOnly)))
         /\ Sound(Audited(Cascading(Table(stored, refs, createOnly))))
BY DEF Sound, Table, Audited, Owned, Cascading

\* A foreign key refers to a table of the catalogue.
LEMMA ForeignKeys ==
  \A t \in DOMAIN Catalogue : \A c \in DOMAIN Catalogue[t].refs :
    Catalogue[t].refs[c] \in DOMAIN Catalogue
<1>1. DOMAIN Catalogue = Tables
  BY DEF Catalogue, Tables
<1>2. Sound(AuditLogs) /\ Sound(ConnectionTests) /\ Sound(DashboardItemFields) /\
       Sound(DashboardItemLayouts) /\ Sound(DashboardItems) /\ Sound(Dashboards)
  BY TableSound DEF Tables, NoRefs, AuditLogs, ConnectionTests, DashboardItemFields,
      DashboardItemLayouts, DashboardItems, Dashboards
<1>3. Sound(Datasets) /\ Sound(DeletionRequests) /\ Sound(DeltaCursors) /\
       Sound(DiscoveredFields) /\ Sound(DiscoveryRuns) /\ Sound(FeedCredentials)
  BY TableSound DEF Tables, NoRefs, Datasets, DeletionRequests, DeltaCursors,
      DiscoveredFields, DiscoveryRuns, FeedCredentials
<1>4. Sound(FieldProfiles) /\ Sound(IngestedRecords) /\ Sound(LoadSequences) /\
       Sound(OdataServiceConfigs) /\ Sound(PiiFlags) /\ Sound(Pipelines)
  BY TableSound DEF Tables, NoRefs, FieldProfiles, IngestedRecords, LoadSequences,
      OdataServiceConfigs, PiiFlags, Pipelines
<1>5. Sound(ProcessDefinitions) /\ Sound(ProcessSteps) /\ Sound(RetentionPolicies) /\
       Sound(RetentionRuns) /\ Sound(Runs) /\ Sound(SequenceFlows)
  BY TableSound DEF Tables, NoRefs, ProcessDefinitions, ProcessSteps, RetentionPolicies,
      RetentionRuns, Runs, SequenceFlows
<1>6. Sound(SequenceRunSteps) /\ Sound(SequenceRuns) /\ Sound(SequenceSteps) /\
       Sound(SourceConnections) /\ Sound(SourceCredentials) /\ Sound(Sources)
  BY TableSound DEF Tables, NoRefs, SequenceRunSteps, SequenceRuns, SequenceSteps,
      SourceConnections, SourceCredentials, Sources
<1>7. Sound(SuggestionFields) /\ Sound(Suggestions) /\ Sound(SuppressionEntries)
  BY TableSound DEF Tables, NoRefs, SuggestionFields, Suggestions, SuppressionEntries
<1>8. \A t \in Tables : Sound(Catalogue[t])
  BY <1>2, <1>3, <1>4, <1>5, <1>6, <1>7 DEF Catalogue, Tables
<1> QED BY <1>1, <1>8 DEF Sound

\* Before the first request there are no rows, no entries and nobody waits.
LEMMA Initially == RecordsInit => IInv
<1> SUFFICES ASSUME RecordsInit PROVE IInv
  OBVIOUS
<1>0. focus \subseteq DOMAIN Catalogue
  BY ForeignKeys DEF RecordsInit, Focuses
<1> DEFINE row(t) == [ life |-> "never", refs |-> [c \in RefColumns(t) |-> None],
                       changed |-> {}, owner |-> None, by |-> "nobody", unrecorded |-> {} ]
<1>1. /\ rows = [t \in focus |-> [id \in RowIds |-> row(t)]]
      /\ trail = [t \in focus |-> [id \in RowIds |-> <<>>]]
      /\ reading = {} /\ answer = None /\ writes = 0
  BY DEF RecordsInit
<1>2. ASSUME NEW t \in focus
      PROVE  /\ row(t) \in RowSet /\ row(t).life = "never" /\ row(t).changed = {}
             /\ row(t).refs \in [RefColumns(t) -> RowIds \cup {None}] /\ row(t).owner = None
             /\ row(t).by = "nobody" /\ row(t).unrecorded = {}
  BY NewRow DEF Lives, Makers
<1> HIDE DEF row
<1>3. RecordsTypeOK
  BY <1>0, <1>1, <1>2, RecordsConstantsOK DEF RecordsTypeOK
<1>4. ShapesInv
  BY <1>1, <1>2 DEF ShapesInv
<1>5. RowsExact /\ Confined
  BY <1>1, <1>2 DEF RowsExact, Exact, At, Confined
<1>6. ReadingInv /\ AnswerInv
  BY <1>1 DEF ReadingInv, AnswerInv
<1> QED BY <1>3, <1>4, <1>5, <1>6 DEF IInv

\* One step of the requests.
LEMMA OneStep ==
  ASSUME IInv, [RecordsNext]_recordsVars
  PROVE  IInv'
<1>1. CASE Write
  <2>1. /\ UNCHANGED focus /\ writes' \in 0 .. MaxWrites
    BY <1>1, RecordsConstantsOK DEF Write, IInv, RecordsTypeOK
  <2>2. (CHOOSE u \in Users : TRUE) \in Users
    BY RecordsConstantsOK
  <2>3. PICK t \in focus, id \in RowIds, user \in Users :
          \/ Create(t, id, user)
          \/ Known(t, id) /\ \E column \in PutColumns : Update(t, id, user, column)
          \/ Known(t, id) /\ Delete(t, id, user)
    BY <1>1, <2>2 DEF Write
  <2> QED BY <2>1, <2>3, CreateStep, UpdateStep, DeleteStep
<1>2. CASE WriteUnrecorded
  <2>1. UNCHANGED focus /\ writes' \in 0 .. MaxWrites
    BY <1>2, RecordsConstantsOK DEF WriteUnrecorded, IInv, RecordsTypeOK
  <2>2. PICK t \in focus \cap DOMAIN Unrecorded, id \in RowIds :
          \/ InsertUnrecorded(t, id)
          \/ \E columns \in Unrecorded[t].updates : UpdateUnrecorded(t, id, columns)
    BY <1>2 DEF WriteUnrecorded
  <2>3. Moves
    BY <2>1, <2>2, InsertMoves, ChangeMoves DEF IInv
  <2>4. UNCHANGED <<reading, answer>>
    BY <2>2 DEF InsertUnrecorded, UpdateUnrecorded
  <2> QED BY <2>1, <2>3, <2>4, UnrecordedStep
<1>3. CASE Read
  BY <1>3, ReadStep DEF Read
<1>4. CASE UNCHANGED recordsVars
  BY <1>4, Stutter
<1> QED BY <1>1, <1>2, <1>3, <1>4 DEF RecordsNext

\* The invariant is one: record_audit on the cursor of a route's write keeps the trail in
\* step with what the routes did, whatever the program writes beside them, and the read of
\* a transaction of its own with the trail.
THEOREM Invariant == RecordsSpec => []IInv
<1>1. RecordsInit => IInv
  BY Initially
<1>2. IInv /\ [RecordsNext]_recordsVars => IInv'
  BY OneStep
<1> QED BY <1>1, <1>2, PTL DEF RecordsSpec

\* Every reachable state is well typed, whatever the tables.
THEOREM RecordsTyped == RecordsSpec => []RecordsTypeOK
<1>1. IInv => RecordsTypeOK
  BY DEF IInv
<1> QED BY <1>1, Invariant, PTL

\* The audit trail of every audited row is exactly what the routes of its table did to the
\* row, and no request is told of a write that is not in it ("an audited write and its audit
\* row commit or roll back together"): for any number of rows, users and writes, those of
\* discovery, scans, reconcilers and decisions included, which leave none.
THEOREM TrailComplete == RecordsSpec => []TrailExact
<1>1. ASSUME IInv PROVE TrailExact
  <2>1. RowsExact /\ Confined /\ (answer # None /\ Audits(answer) => InTrail(answer))
    BY <1>1 DEF IInv, AnswerInv
  <2> QED BY <2>1 DEF TrailExact, RowsExact, Confined, Exact, At, Cascades, Audits, InTrail
<1> QED BY <1>1, Invariant, PTL

=============================================================================
