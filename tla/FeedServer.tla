----------------------------- MODULE FeedServer -----------------------------
(***************************************************************************)
(* Reading an entity set of the OData feed (app/api/feed_odata.py): a      *)
(* client follows @odata.nextLink from request to request, each of which   *)
(* resolves the set's name, reads a page by offset and, for $count, counts *)
(* in a transaction of its own, while rows land and leave and the operator *)
(* changes the page size.  What a query selects, and the names, are pure   *)
(* functions, here as operators of which only the shape is assumed; they   *)
(* are RowsSelected and SetNames of FeedFilter.                            *)
(***************************************************************************)
EXTENDS Integers, Sequences, FiniteSets

CONSTANTS
  Ids,                 \* of datasets
  Keys,                \* business keys
  EntitySetNames(_),   \* datasets in a row -> the names of their sets, by position
  Selected(_, _),      \* query, keys -> the keys it selects, in the order it asks for
  Queries,             \* [filter, orderby, top, count]: NotGiven where not given
  PageSizes,           \* what FEED_PAGE_SIZE is set to from time to time
  NotGiven,            \* None
  MaxChanges           \* bound: changes of the rows and datasets

\* Datasets in the order in which a request finds them.
Listings == UNION {{ds \in [1 .. n -> Ids] : \A i, j \in 1 .. n : ds[i] = ds[j] => i = j} :
                   n \in 0 .. Cardinality(Ids)}
SetNamesGiven == UNION {{EntitySetNames(ds)[i] : i \in DOMAIN ds} : ds \in Listings}

\* With neither $filter nor $orderby the database pages.
ByPage(query) == query.filter = NotGiven /\ query.orderby = NotGiven

ASSUME FeedConstantsOK ==
  /\ IsFiniteSet(Ids) /\ IsFiniteSet(Keys) /\ NotGiven \notin Nat \cup Queries \cup Ids
  /\ PageSizes \subseteq Nat \ {0} /\ MaxChanges \in Nat
  /\ \A q \in Queries : q.count \in BOOLEAN /\ q.top \in Nat \cup {NotGiven}
ASSUME NamesTellApart ==
  \A ds \in Listings : \A i, j \in DOMAIN ds :
    EntitySetNames(ds)[i] = EntitySetNames(ds)[j] => i = j
ASSUME SelectionOfKeys ==
  \A q \in Queries, keys \in SUBSET Keys :
    /\ Selected(q, keys) \in Seq(keys)
    /\ ByPage(q) => Len(Selected(q, keys)) = Cardinality(keys)

VARIABLES
  datasets,    \* the datasets in the order of their creation
  landed,      \* dataset -> the keys of its payloads
  client,      \* the client, and the request it has under way
  rested,      \* history: nothing has changed since its first request
  changes

feedVars == <<datasets, landed, client, rested, changes>>

Phases == {"idle", "resolve", "read", "count", "done", "notfound"}
Client == [phase : Phases, query : Queries \cup {NotGiven}, set : SetNamesGiven \cup {NotGiven},
           from : Ids \cup {NotGiven}, dataset : Ids \cup {NotGiven}, skip : Nat,
           top : Nat \cup {NotGiven}, page : Seq(Keys), got : Seq(Keys)]
Idle == [phase |-> "idle", query |-> NotGiven, set |-> NotGiven, from |-> NotGiven,
         dataset |-> NotGiven, skip |-> 0, top |-> NotGiven, page |-> <<>>, got |-> <<>>]

FeedTypeOK ==
  /\ datasets \in Listings /\ landed \in [Ids -> SUBSET Keys] /\ client \in Client
  /\ rested \in BOOLEAN /\ changes \in 0 .. MaxChanges

FeedInit ==
  /\ datasets \in {ds \in Listings : Len(ds) = Cardinality(Ids)}
  /\ landed \in [Ids -> SUBSET Keys]
  /\ client = Idle /\ rested = TRUE /\ changes = 0

-----------------------------------------------------------------------------
(* One request.                                                            *)

Least(a, b) == IF a <= b THEN a ELSE b

Capacity(top, size) == IF top = NotGiven THEN size ELSE Least(size, top)

\* The rows of a page: those from $skip to where it ends.
PageTo(rows, skip, end) == SubSeq(rows, skip + 1, Least(end, Len(rows)))

-----------------------------------------------------------------------------
(* Seeded faults: each stands in for the definition named.                 *)

\* Following that hands on the budget it was given.
FollowingWhole(c, page, total) ==
  LET skip == c.skip + Len(page)
  IN [more |-> skip < total /\ page # <<>> /\ (c.top = NotGiven \/ c.top > Len(page)),
      skip |-> skip, top |-> c.top]

-----------------------------------------------------------------------------
\* _render_page_response: is there a nextLink, and what does it carry?
Following(c, page, total) ==
  LET skip == c.skip + Len(page)
      left == IF c.top = NotGiven THEN NotGiven ELSE c.top - Len(page)
  IN [more |-> skip < total /\ (IF c.top = NotGiven THEN page # <<>> ELSE left > 0),
      skip |-> skip, top |-> left]

\* The client takes the page, and asks for the next where the response names one.
Answered(page, total) ==
  LET next == Following(client, page, total) IN
  client' = [client EXCEPT !.got = @ \o page, !.page = <<>>, !.dataset = NotGiven,
                           !.phase = IF next.more THEN "resolve" ELSE "done",
                           !.skip = IF next.more THEN next.skip ELSE @,
                           !.top = IF next.more THEN next.top ELSE @]

\* A filter or an order on a property that is not advertised is a 400; here they all are.
FirstRequest(query, d) ==
  /\ client.phase = "idle" /\ d \in DOMAIN datasets
  /\ client' = [Idle EXCEPT !.phase = "resolve", !.query = query, !.top = query.top,
                            !.set = EntitySetNames(datasets)[d], !.from = datasets[d]]
  /\ rested' = TRUE
  /\ UNCHANGED <<datasets, landed, changes>>

\* The names are made anew for each request; one that is nobody's is a 404.
Resolve ==
  /\ client.phase = "resolve"
  /\ LET names == EntitySetNames(datasets)
         hits  == {i \in DOMAIN datasets : names[i] = client.set} IN
     \/ hits = {} /\ client' = [client EXCEPT !.phase = "notfound"]
     \/ \E i \in hits :
          /\ \A j \in hits : j <= i
          /\ client' = [client EXCEPT !.phase = "read", !.dataset = datasets[i]]
  /\ UNCHANGED <<datasets, landed, rested, changes>>

\* Without $filter and $orderby: LIMIT capacity + 1 OFFSET $skip, where the extra row
\* only says that there are more, and $count asks again.
ReadPage(size) ==
  /\ client.phase = "read" /\ ByPage(client.query)
  /\ LET rows == Selected(client.query, landed[client.dataset])
         end  == client.skip + Capacity(client.top, size)
         page == PageTo(rows, client.skip, end) IN
     IF client.query.count
     THEN client' = [client EXCEPT !.phase = "count", !.page = page]
     ELSE Answered(page, client.skip + Len(page) + (IF Len(rows) > end THEN 1 ELSE 0))
  /\ UNCHANGED <<datasets, landed, rested, changes>>

CountPayloads ==
  /\ client.phase = "count"
  /\ Answered(client.page, Cardinality(landed[client.dataset]))
  /\ UNCHANGED <<datasets, landed, rested, changes>>

\* With them: the whole set is read, filtered and sorted, and the page cut from it.
ReadWhole(size) ==
  /\ client.phase = "read" /\ ~ByPage(client.query)
  /\ LET rows == Selected(client.query, landed[client.dataset])
         end  == client.skip + Capacity(client.top, size)
     IN Answered(PageTo(rows, client.skip, end), Len(rows))
  /\ UNCHANGED <<datasets, landed, rested, changes>>

-----------------------------------------------------------------------------
(* What goes on meanwhile.                                                 *)

Existing == {datasets[i] : i \in DOMAIN datasets}

Change ==
  /\ changes < MaxChanges /\ changes' = changes + 1
  /\ rested' = FALSE /\ UNCHANGED client

Land(d, k) ==
  /\ Change /\ k \notin landed[d] /\ d \in Existing
  /\ landed' = [landed EXCEPT ![d] = @ \cup {k}] /\ UNCHANGED datasets

Leave(d, k) ==
  /\ Change /\ k \in landed[d]
  /\ landed' = [landed EXCEPT ![d] = @ \ {k}] /\ UNCHANGED datasets

\* Its payloads go with it.
DeleteDataset(d) ==
  /\ Change
  /\ \E i \in DOMAIN datasets :
       /\ datasets[i] = d
       /\ datasets' = [j \in 1 .. Len(datasets) - 1 |-> datasets[IF j < i THEN j ELSE j + 1]]
  /\ landed' = [landed EXCEPT ![d] = {}]

FeedNext ==
  \/ \E q \in Queries, i \in DOMAIN datasets : FirstRequest(q, i)
  \/ Resolve
  \/ \E size \in PageSizes : ReadPage(size) \/ ReadWhole(size)
  \/ CountPayloads
  \/ \E d \in Ids : DeleteDataset(d) \/ \E k \in Keys : Land(d, k) \/ Leave(d, k)

FeedSpec == FeedInit /\ [][FeedNext]_feedVars

-----------------------------------------------------------------------------
(* Properties.                                                             *)

\* However the rows change, no client is given more of them than it asked for.
TopKept == client.query # NotGiven /\ client.query.top # NotGiven
             => Len(client.got) <= client.query.top

\* And one that follows the links to the end of a set that rests has got exactly the
\* rows the query selects, once each and in its order, up to $top, however often the
\* page size changes under it.
PagesComplete ==
  /\ TopKept
  /\ client.phase = "done" /\ rested =>
       LET all == Selected(client.query, landed[client.from])
           top == client.query.top
       IN client.got = IF top = NotGiven THEN all ELSE SubSeq(all, 1, Least(top, Len(all)))

=============================================================================
