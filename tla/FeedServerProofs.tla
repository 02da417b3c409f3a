-------------------------- MODULE FeedServerProofs --------------------------
(***************************************************************************)
(* A client of the feed gets what it asked for: for any finite sets of     *)
(* datasets and keys, any queries and page sizes, and any filter, order    *)
(* and naming of the shape that FeedServer assumes.                        *)
(***************************************************************************)
EXTENDS FeedServer, SequenceTheorems, FiniteSetTheorems, TLAPS

\* The rows the client's query selects of the dataset it began with.
All == Selected(client.query, landed[client.from])

OnTheWay == client.phase \in {"resolve", "read", "count"}

\* What is left of $top is what the client has not got, and a page keeps within it.
BudgetKept ==
  /\ client.phase \in {"read", "count"} => client.dataset \in Ids
  /\ OnTheWay =>
       /\ client.query \in Queries /\ client.skip = Len(client.got)
       /\ client.top = NotGiven <=> client.query.top = NotGiven
       /\ client.top # NotGiven => client.top + Len(client.got) = client.query.top
  /\ client.phase = "count" =>
       /\ ByPage(client.query)
       /\ client.top # NotGiven => Len(client.page) <= client.top

\* While the set rests, the name the client follows is its dataset's, ...
NameHeld ==
  rested /\ OnTheWay =>
    /\ client.from \in Ids
    /\ \E d \in DOMAIN datasets : /\ datasets[d] = client.from
                                  /\ client.set = EntitySetNames(datasets)[d]
    /\ client.phase \in {"read", "count"} => client.dataset = client.from

\* ... what it has got is where the rows begin, and the page at hand goes on from there.
PageFits(page) ==
  /\ Len(client.got) + Len(page) <= Len(All)
  /\ page = SubSeq(All, Len(client.got) + 1, Len(client.got) + Len(page))
  /\ page = <<>> => Len(client.got) = Len(All) \/ client.top = 0
PrefixGot ==
  rested /\ OnTheWay =>
    /\ Len(client.got) <= Len(All) /\ client.got = SubSeq(All, 1, Len(client.got))
    /\ client.phase = "count" => PageFits(client.page)

FeedInv == FeedTypeOK /\ BudgetKept /\ NameHeld /\ PrefixGot /\ PagesComplete

-----------------------------------------------------------------------------
(* Pages and names.                                                        *)

\* What a query selects are keys of the dataset, and they are as many as $count says
\* where the database pages.
LEMMA SelectedTyped ==
  ASSUME NEW q \in Queries, NEW keys \in SUBSET Keys
  PROVE  /\ Selected(q, keys) \in Seq(Keys) /\ Len(Selected(q, keys)) \in Nat
         /\ ByPage(q) => Cardinality(keys) = Len(Selected(q, keys))
<1>1. Selected(q, keys) \in Seq(keys)
  BY SelectionOfKeys
<1>2. Selected(q, keys) \in Seq(Keys)
  BY <1>1
<1> QED BY <1>2, SelectionOfKeys

\* A page is part of the rows, no longer than it may be, and empty only at the end of
\* them or where it is to be.
LEMMA PageCut ==
  ASSUME NEW rows \in Seq(Keys), NEW skip \in Nat, NEW end \in Nat, skip <= end
  PROVE  /\ PageTo(rows, skip, end) \in Seq(Keys)
         /\ Len(PageTo(rows, skip, end)) <= end - skip
         /\ skip <= Len(rows) =>
              /\ skip + Len(PageTo(rows, skip, end)) = Least(end, Len(rows))
              /\ PageTo(rows, skip, end)
                   = SubSeq(rows, skip + 1, skip + Len(PageTo(rows, skip, end)))
<1> DEFINE n == Least(end, Len(rows))
<1>1. n \in Nat /\ n <= end /\ n <= Len(rows)
  BY DEF Least
<1>2. \A i \in skip + 1 .. n : rows[i] \in Keys
  BY <1>1
<1> HIDE DEF n
<1>3. /\ SubSeq(rows, skip + 1, n) \in Seq(Keys)
      /\ Len(SubSeq(rows, skip + 1, n)) = IF skip + 1 <= n THEN n - (skip + 1) + 1 ELSE 0
  BY <1>1, <1>2, SubSeqProperties
<1>4. skip <= Len(rows) => skip <= n
  BY DEF n, Least
<1>5. skip <= Len(rows) => skip + Len(SubSeq(rows, skip + 1, n)) = n
  BY <1>1, <1>3, <1>4
<1>6. PageTo(rows, skip, end) = SubSeq(rows, skip + 1, n)
  BY DEF PageTo, n
<1>7. Len(SubSeq(rows, skip + 1, n)) <= end - skip
  BY <1>1, <1>3
<1> QED BY <1>3, <1>5, <1>6, <1>7 DEF n

\* A beginning and the page after it make a longer beginning.
LEMMA Onwards ==
  ASSUME NEW rows \in Seq(Keys), NEW m \in Nat, NEW n \in Nat, m <= n, n <= Len(rows)
  PROVE  SubSeq(rows, 1, m) \o SubSeq(rows, m + 1, n) = SubSeq(rows, 1, n)
<1>1. 1 \in 1 .. Len(rows) + 1 /\ m \in 1 - 1 .. Len(rows) /\ n \in m .. Len(rows)
  OBVIOUS
<1> QED BY <1>1, ConcatAdjacentSubSeq

\* A row of datasets stays one when a dataset is taken out of it.
LEMMA WithoutOne ==
  ASSUME NEW ds \in Listings, NEW i \in DOMAIN ds
  PROVE  [j \in 1 .. Len(ds) - 1 |-> ds[IF j < i THEN j ELSE j + 1]] \in Listings
<1>1. PICK n \in 0 .. Cardinality(Ids) :
        ds \in [1 .. n -> Ids] /\ \A k, l \in 1 .. n : ds[k] = ds[l] => k = l
  BY DEF Listings
<1>2. Cardinality(Ids) \in Nat /\ n \in Nat
  BY FeedConstantsOK, FS_CardinalityType
<1>3. Len(ds) = n /\ n - 1 \in 0 .. Cardinality(Ids)
  BY <1>1, <1>2
<1> DEFINE rest == [j \in 1 .. n - 1 |-> ds[IF j < i THEN j ELSE j + 1]]
<1>4. rest \in [1 .. n - 1 -> Ids]
  BY <1>1, <1>2
<1>5. \A k, l \in 1 .. n - 1 : rest[k] = rest[l] => k = l
  BY <1>1, <1>2
<1> HIDE DEF rest
<1>6. rest \in Listings
  BY <1>3, <1>4, <1>5 DEF Listings
<1> QED BY <1>3, <1>6 DEF rest

\* A row of datasets names datasets.
LEMMA ListingOfIds ==
  ASSUME NEW ds \in Listings, NEW i \in DOMAIN ds
  PROVE  ds[i] \in Ids /\ EntitySetNames(ds)[i] \in SetNamesGiven
BY DEF Listings, SetNamesGiven

-----------------------------------------------------------------------------
(* The steps.                                                              *)

\* The client has no page at hand that is too long for it, and goes on or is done.
LEMMA AnsweredInv ==
  ASSUME FeedInv, client.phase \in {"read", "count"},
         NEW page \in Seq(Keys), NEW total \in Nat,
         client.top # NotGiven => Len(page) <= client.top,
         rested => /\ PageFits(page)
                   /\ client.skip + Len(page) < total
                        <=> client.skip + Len(page) < Len(All),
         Answered(page, total), UNCHANGED <<datasets, landed, rested, changes>>
  PROVE  FeedInv'
<1> DEFINE more  == Following(client, page, total).more
           n     == Len(client.got) + Len(page)
           left  == IF client.top = NotGiven THEN NotGiven ELSE client.top - Len(page)
<1>0. FeedTypeOK /\ BudgetKept /\ NameHeld /\ PrefixGot /\ TopKept
  BY DEF FeedInv, PagesComplete
<1>1. /\ client \in Client /\ client.got \in Seq(Keys) /\ client.skip = Len(client.got)
      /\ client.query \in Queries /\ client.top \in Nat \cup {NotGiven}
      /\ client.query.top \in Nat \cup {NotGiven} /\ NotGiven \notin Nat /\ client.query # NotGiven
      /\ client.top = NotGiven <=> client.query.top = NotGiven
      /\ client.top # NotGiven => client.top + Len(client.got) = client.query.top
      /\ Len(client.got) \in Nat /\ Len(page) \in Nat
  BY <1>0, FeedConstantsOK DEF FeedTypeOK, BudgetKept, OnTheWay, Client
<1>2. /\ Following(client, page, total).skip = n /\ Following(client, page, total).top = left
      /\ more <=> n < total /\ (IF client.top = NotGiven THEN page # <<>> ELSE client.top - Len(page) > 0)
      /\ more \in BOOLEAN
  BY <1>1 DEF Following
<1>3. /\ left \in Nat \cup {NotGiven} /\ n \in Nat /\ Len(client.got) <= n
      /\ left = NotGiven <=> client.top = NotGiven
      /\ left # NotGiven => left + n = client.query.top
  BY <1>1
<1>4. client.got \o page \in Seq(Keys) /\ Len(client.got \o page) = n
  BY <1>1, ConcatProperties
<1> HIDE DEF more, left, n
<1>5. /\ client' = [phase |-> IF more THEN "resolve" ELSE "done", query |-> client.query,
                    set |-> client.set, from |-> client.from, dataset |-> NotGiven,
                    skip |-> IF more THEN n ELSE client.skip,
                    top |-> IF more THEN left ELSE client.top,
                    page |-> <<>>, got |-> client.got \o page]
  BY <1>1, <1>2 DEF Answered, Client, more, left, n
<1>6. FeedTypeOK'
  <2>1. client' \in Client
    BY <1>1, <1>2, <1>3, <1>4, <1>5 DEF Client, Phases
  <2> QED BY <1>0, <2>1 DEF FeedTypeOK
<1>7. BudgetKept'
  BY <1>1, <1>3, <1>4, <1>5 DEF BudgetKept, OnTheWay
<1>8. NameHeld'
  BY <1>0, <1>5 DEF NameHeld, OnTheWay
<1>9. TopKept'
  BY <1>1, <1>4, <1>5 DEF TopKept, n
<1>10. ASSUME rested'
       PROVE  /\ n <= Len(All) /\ client'.got = SubSeq(All, 1, n) /\ All' = All /\ PageFits(page)
              /\ All \in Seq(Keys) /\ Len(All) \in Nat
  <2>1. rested /\ PageFits(page) /\ client.from \in Ids
    BY <1>0, <1>10 DEF NameHeld, OnTheWay
  <2>2. All \in Seq(Keys) /\ Len(All) \in Nat
    BY <1>0, <1>1, <2>1, SelectedTyped DEF All, FeedTypeOK
  <2>3. client.got = SubSeq(All, 1, Len(client.got))
    BY <1>0, <2>1 DEF PrefixGot, OnTheWay
  <2>4. n <= Len(All) /\ page = SubSeq(All, Len(client.got) + 1, n)
    BY <2>1 DEF PageFits, n
  <2>5. SubSeq(All, 1, Len(client.got)) \o SubSeq(All, Len(client.got) + 1, n) = SubSeq(All, 1, n)
    BY <1>1, <1>3, <2>2, <2>4, Onwards
  <2>6. All' = All
    BY <1>5 DEF All
  <2> QED BY <1>5, <2>1, <2>2, <2>3, <2>4, <2>5, <2>6
<1>11. PrefixGot'
  BY <1>4, <1>5, <1>10 DEF PrefixGot, OnTheWay
<1>12. PagesComplete'
  <2> SUFFICES ASSUME rested', ~more
               PROVE  client'.got = IF client.query.top = NotGiven THEN All
                                    ELSE SubSeq(All, 1, Least(client.query.top, Len(All)))
    BY <1>5, <1>9, <1>10 DEF PagesComplete, All
  <2>1. n < total <=> n < Len(All)
    BY <1>1 DEF n
  <2>2. CASE n = Len(All)
    <3>1. client'.got = All
      BY <1>10, <2>2, SubSeqFull
    <3>2. client.query.top # NotGiven => Least(client.query.top, Len(All)) = Len(All)
      BY <1>1, <1>10, <2>2 DEF Least, n
    <3> QED BY <1>10, <3>1, <3>2, <2>2
  <2>3. CASE n < Len(All)
    <3>1. client.top # NotGiven /\ client.top <= Len(page)
      BY <1>1, <1>2, <1>10, <2>1, <2>3 DEF PageFits, n
    <3>2. n = client.query.top
      BY <1>1, <3>1 DEF n
    <3> QED BY <1>1, <1>10, <2>3, <3>1, <3>2 DEF Least
  <2> QED BY <1>3, <1>10, <2>2, <2>3
<1> QED BY <1>6, <1>7, <1>8, <1>11, <1>12 DEF FeedInv

\* The first request: the name leads to the dataset it is made of.
LEMMA FirstRequestInv ==
  ASSUME FeedInv, NEW q \in Queries, NEW d \in DOMAIN datasets, FirstRequest(q, d)
  PROVE  FeedInv'
<1>0. FeedTypeOK /\ UNCHANGED <<datasets, landed, changes>> /\ rested' = TRUE
  BY DEF FeedInv, FirstRequest
<1>1. datasets[d] \in Ids /\ EntitySetNames(datasets)[d] \in SetNamesGiven
  BY <1>0, ListingOfIds DEF FeedTypeOK
<1>2. client' = [phase |-> "resolve", query |-> q, set |-> EntitySetNames(datasets)[d],
                 from |-> datasets[d], dataset |-> NotGiven, skip |-> 0, top |-> q.top,
                 page |-> <<>>, got |-> <<>>]
  BY DEF FirstRequest, Idle
<1>3. q.top \in Nat \cup {NotGiven} /\ NotGiven \notin Nat /\ q # NotGiven
  BY FeedConstantsOK
<1>4. <<>> \in Seq(Keys) /\ Len(<<>>) = 0
  OBVIOUS
<1>5. FeedTypeOK'
  <2>1. client' \in Client
    BY <1>1, <1>2, <1>3, <1>4 DEF Client, Phases
  <2> QED BY <1>0, <2>1 DEF FeedTypeOK
<1>6. BudgetKept'
  BY <1>2, <1>3, <1>4 DEF BudgetKept, OnTheWay
<1>7. NameHeld'
  BY <1>0, <1>1, <1>2 DEF NameHeld, OnTheWay
<1>8. PrefixGot'
  <2>1. All' \in Seq(Keys) /\ Len(All') \in Nat
    BY <1>0, <1>1, <1>2, SelectedTyped DEF FeedTypeOK, All
  <2>2. SubSeq(All', 1, 0) = <<>>
    BY SubSeqEmpty
  <2> QED BY <1>2, <1>4, <2>1, <2>2 DEF PrefixGot, OnTheWay
<1>9. PagesComplete'
  BY <1>2, <1>3, <1>4 DEF PagesComplete, TopKept
<1> QED BY <1>5, <1>6, <1>7, <1>8, <1>9 DEF FeedInv

\* Each request finds the dataset anew; while the set rests it finds the same.
LEMMA ResolveInv ==
  ASSUME FeedInv, Resolve
  PROVE  FeedInv'
<1>0. /\ FeedTypeOK /\ BudgetKept /\ NameHeld /\ PrefixGot /\ PagesComplete
      /\ client.phase = "resolve" /\ UNCHANGED <<datasets, landed, rested, changes>>
  BY DEF FeedInv, Resolve
<1>1. CASE client' = [client EXCEPT !.phase = "notfound"]
  BY <1>0, <1>1 DEF FeedInv, FeedTypeOK, BudgetKept, NameHeld, PrefixGot, PagesComplete, TopKept,
                    OnTheWay, Client, Phases
<1>2. ASSUME NEW i \in DOMAIN datasets, EntitySetNames(datasets)[i] = client.set,
             client' = [client EXCEPT !.phase = "read", !.dataset = datasets[i]]
      PROVE  FeedInv'
  <2>1. datasets[i] \in Ids
    BY <1>0, ListingOfIds DEF FeedTypeOK
  <2>2. /\ client'.phase = "read" /\ client'.dataset = datasets[i] /\ client' \in Client
        /\ client'.query = client.query /\ client'.set = client.set /\ client'.from = client.from
        /\ client'.skip = client.skip /\ client'.top = client.top /\ client'.got = client.got
    BY <1>0, <1>2, <2>1 DEF FeedTypeOK, Client, Phases
  <2>3. FeedTypeOK' /\ BudgetKept'
    BY <1>0, <2>1, <2>2 DEF FeedTypeOK, BudgetKept, OnTheWay
  <2>4. NameHeld'
    <3> SUFFICES ASSUME rested PROVE client.from \in Ids /\ datasets[i] = client.from
      BY <1>0, <1>2, <2>2 DEF NameHeld, OnTheWay
    <3>1. PICK d \in DOMAIN datasets : /\ datasets[d] = client.from
                                       /\ client.set = EntitySetNames(datasets)[d]
      BY <1>0 DEF NameHeld, OnTheWay
    <3>2. d = i
      BY <1>0, <1>2, <3>1, NamesTellApart DEF FeedTypeOK
    <3> QED BY <2>1, <3>1, <3>2
  <2>5. All' = All
    BY <1>0, <2>2 DEF All
  <2>6. PrefixGot' /\ PagesComplete'
    BY <1>0, <2>2, <2>5 DEF PrefixGot, PagesComplete, TopKept, OnTheWay
  <2> QED BY <2>3, <2>4, <2>6 DEF FeedInv
<1> QED BY <1>1, <1>2 DEF Resolve

\* What a read finds: rows that are those of the first request while the set rests.
LEMMA ReadFacts ==
  ASSUME FeedInv, client.phase = "read", NEW size \in PageSizes
  PROVE  LET rows == Selected(client.query, landed[client.dataset])
             end  == client.skip + Capacity(client.top, size)
             page == PageTo(rows, client.skip, end)
         IN /\ client.query \in Queries /\ landed[client.dataset] \in SUBSET Keys
            /\ rows \in Seq(Keys) /\ Len(rows) \in Nat /\ end \in Nat
            /\ client.skip \in Nat /\ client.skip = Len(client.got)
            /\ page \in Seq(Keys) /\ Len(page) \in Nat
            /\ client.top # NotGiven => Len(page) <= client.top
            /\ rested => /\ rows = All /\ PageFits(page)
                         /\ client.skip + Len(page) = Least(end, Len(rows))
<1> DEFINE rows == Selected(client.query, landed[client.dataset])
           end  == client.skip + Capacity(client.top, size)
           page == PageTo(rows, client.skip, end)
<1>0. FeedTypeOK /\ BudgetKept /\ NameHeld /\ PrefixGot
  BY DEF FeedInv
<1>1. /\ client.query \in Queries /\ landed[client.dataset] \in SUBSET Keys
      /\ client.skip \in Nat /\ client.skip = Len(client.got)
      /\ client.top \in Nat \cup {NotGiven}
  BY <1>0 DEF FeedTypeOK, BudgetKept, OnTheWay, Client
<1>2. rows \in Seq(Keys) /\ Len(rows) \in Nat
  BY <1>1, SelectedTyped
<1>3. /\ Capacity(client.top, size) \in Nat
      /\ client.top # NotGiven => Capacity(client.top, size) <= client.top
      /\ Capacity(client.top, size) = 0 => client.top = 0
  BY <1>1, FeedConstantsOK DEF Capacity, Least
<1>4. end \in Nat /\ client.skip <= end /\ end - client.skip = Capacity(client.top, size)
  BY <1>1, <1>3
<1> HIDE DEF rows, end
<1>5. /\ page \in Seq(Keys) /\ Len(page) <= end - client.skip
      /\ client.skip <= Len(rows) =>
           /\ client.skip + Len(page) = Least(end, Len(rows))
           /\ page = SubSeq(rows, client.skip + 1, client.skip + Len(page))
  <2>1. \A s \in Nat, e \in Nat : s <= e =>
          /\ PageTo(rows, s, e) \in Seq(Keys) /\ Len(PageTo(rows, s, e)) <= e - s
          /\ s <= Len(rows) =>
               /\ s + Len(PageTo(rows, s, e)) = Least(e, Len(rows))
               /\ PageTo(rows, s, e) = SubSeq(rows, s + 1, s + Len(PageTo(rows, s, e)))
    BY <1>2, PageCut
  <2> QED BY <1>1, <1>4, <2>1
<1> HIDE DEF page
<1>6. Len(page) \in Nat /\ (client.top # NotGiven => Len(page) <= client.top)
  <2>1. Len(page) \in Nat
    BY <1>5
  <2> DEFINE cap == Capacity(client.top, size)
  <2>2. cap \in Nat /\ Len(page) <= cap
    BY <1>3, <1>4, <1>5
  <2> HIDE DEF cap
  <2>3. client.top # NotGiven => client.top \in Nat /\ cap <= client.top
    BY <1>1, <1>3 DEF cap
  <2> QED BY <2>1, <2>2, <2>3
<1>7. ASSUME rested
      PROVE  rows = All /\ PageFits(page) /\ client.skip + Len(page) = Least(end, Len(rows))
  <2>1. rows = All
    BY <1>0, <1>7 DEF NameHeld, OnTheWay, All, rows
  <2>2. client.skip <= Len(rows)
    BY <1>0, <1>1, <1>7, <2>1 DEF PrefixGot, OnTheWay
  <2>3. client.skip + Len(page) = Least(end, Len(rows)) /\ Least(end, Len(rows)) <= Len(rows)
    BY <1>2, <1>4, <1>5, <2>2 DEF Least
  <2>4. page = <<>> => client.skip = Len(rows) \/ client.top = 0
    <3> SUFFICES ASSUME page = <<>> PROVE client.skip = Len(rows) \/ client.top = 0
      OBVIOUS
    <3>1. Len(page) = 0
      OBVIOUS
    <3> QED BY <1>1, <1>2, <1>3, <1>4, <2>2, <2>3, <3>1 DEF Least
  <2> HIDE DEF page
  <2> QED BY <1>1, <1>5, <2>1, <2>2, <2>3, <2>4 DEF PageFits
<1> QED BY <1>1, <1>2, <1>4, <1>5, <1>6, <1>7 DEF rows, end, page

\* A page by the database, with the probe row, or to be counted.
LEMMA ReadPageInv ==
  ASSUME FeedInv, NEW size \in PageSizes, ReadPage(size)
  PROVE  FeedInv'
<1> DEFINE rows == Selected(client.query, landed[client.dataset])
           end  == client.skip + Capacity(client.top, size)
           page == PageTo(rows, client.skip, end)
           total == client.skip + Len(page) + (IF Len(rows) > end THEN 1 ELSE 0)
<1>0. /\ FeedTypeOK /\ BudgetKept /\ NameHeld /\ PrefixGot /\ PagesComplete
      /\ client.phase = "read" /\ ByPage(client.query)
      /\ UNCHANGED <<datasets, landed, rested, changes>>
  BY DEF FeedInv, ReadPage
<1>1. /\ rows \in Seq(Keys) /\ Len(rows) \in Nat /\ end \in Nat
      /\ client.skip \in Nat /\ page \in Seq(Keys) /\ Len(page) \in Nat
      /\ client.top # NotGiven => Len(page) <= client.top
      /\ rested => /\ rows = All /\ PageFits(page)
                   /\ client.skip + Len(page) = Least(end, Len(rows))
  BY <1>0, ReadFacts
<1>2. CASE client.query.count
  <2>1. client' = [client EXCEPT !.phase = "count", !.page = page]
    BY <1>2 DEF ReadPage
  <2> HIDE DEF page
  <2>2. /\ client'.phase = "count" /\ client'.page = page /\ client' \in Client
        /\ client'.query = client.query /\ client'.set = client.set /\ client'.from = client.from
        /\ client'.skip = client.skip /\ client'.top = client.top /\ client'.got = client.got
        /\ client'.dataset = client.dataset
    BY <1>0, <1>1, <2>1 DEF FeedTypeOK, Client, Phases
  <2>3. FeedTypeOK' /\ BudgetKept' /\ NameHeld'
    BY <1>0, <1>1, <2>2 DEF FeedTypeOK, BudgetKept, NameHeld, OnTheWay
  <2>4. All' = All
    BY <1>0, <2>2 DEF All
  <2>5. PrefixGot' /\ PagesComplete'
    BY <1>0, <1>1, <2>2, <2>4 DEF PrefixGot, PageFits, PagesComplete, TopKept, OnTheWay
  <2> QED BY <2>3, <2>5 DEF FeedInv
<1>3. CASE ~client.query.count
  <2>1. Answered(page, total)
    BY <1>3 DEF ReadPage
  <2> HIDE DEF rows, end, page
  <2>2. total \in Nat
    BY <1>1
  <2>3. rested => (client.skip + Len(page) < total <=> client.skip + Len(page) < Len(All))
    BY <1>1 DEF Least
  <2> HIDE DEF total
  <2> QED BY <1>0, <1>1, <2>1, <2>2, <2>3, AnsweredInv
<1> QED BY <1>2, <1>3

\* The count of the payloads is how many rows such a query selects.
LEMMA CountPayloadsInv ==
  ASSUME FeedInv, CountPayloads
  PROVE  FeedInv'
<1> DEFINE total == Cardinality(landed[client.dataset])
<1>0. /\ FeedTypeOK /\ BudgetKept /\ NameHeld /\ PrefixGot
      /\ client.phase = "count" /\ Answered(client.page, total)
      /\ UNCHANGED <<datasets, landed, rested, changes>>
  BY DEF FeedInv, CountPayloads
<1>1. /\ client.query \in Queries /\ landed[client.dataset] \in SUBSET Keys
      /\ client.page \in Seq(Keys) /\ ByPage(client.query)
      /\ client.top # NotGiven => Len(client.page) <= client.top
  BY <1>0 DEF FeedTypeOK, BudgetKept, OnTheWay, Client
<1>2. total = Len(Selected(client.query, landed[client.dataset])) /\ total \in Nat
  BY <1>1, SelectedTyped
<1>3. rested => total = Len(All) /\ PageFits(client.page)
  BY <1>0, <1>2 DEF NameHeld, PrefixGot, OnTheWay, All
<1> HIDE DEF total
<1> QED BY <1>0, <1>1, <1>2, <1>3, AnsweredInv

\* The page cut from the rows that the request filtered and sorted.
LEMMA ReadWholeInv ==
  ASSUME FeedInv, NEW size \in PageSizes, ReadWhole(size)
  PROVE  FeedInv'
<1> DEFINE rows == Selected(client.query, landed[client.dataset])
           end  == client.skip + Capacity(client.top, size)
           page == PageTo(rows, client.skip, end)
<1>0. /\ client.phase = "read" /\ Answered(page, Len(rows))
      /\ UNCHANGED <<datasets, landed, rested, changes>>
  BY DEF ReadWhole
<1>1. /\ Len(rows) \in Nat /\ page \in Seq(Keys)
      /\ client.top # NotGiven => Len(page) <= client.top
      /\ rested => rows = All /\ PageFits(page)
  BY <1>0, ReadFacts
<1> HIDE DEF rows, page
<1> QED BY <1>0, <1>1, AnsweredInv

\* What changes the rows, the set does not rest from then on.
LEMMA ChangeInv ==
  ASSUME FeedInv, NEW d \in Ids,
         DeleteDataset(d) \/ \E k \in Keys : Land(d, k) \/ Leave(d, k)
  PROVE  FeedInv'
<1>0. FeedTypeOK /\ BudgetKept /\ PagesComplete
  BY DEF FeedInv
<1>1. rested' = FALSE /\ client' = client /\ changes < MaxChanges /\ changes' = changes + 1
  BY DEF DeleteDataset, Land, Leave, Change
<1>2. datasets' \in Listings
  BY <1>0, WithoutOne DEF DeleteDataset, Land, Leave, FeedTypeOK
<1>3. landed' \in [Ids -> SUBSET Keys]
  BY <1>0 DEF DeleteDataset, Land, Leave, FeedTypeOK
<1>4. changes' \in 0 .. MaxChanges
  BY <1>0, <1>1, FeedConstantsOK DEF FeedTypeOK
<1> QED BY <1>0, <1>1, <1>2, <1>3, <1>4
        DEF FeedInv, FeedTypeOK, BudgetKept, NameHeld, PrefixGot, PagesComplete, TopKept, OnTheWay

-----------------------------------------------------------------------------
(* The theorems.                                                           *)

\* The client begins idle.
LEMMA FeedStart == FeedInit => FeedInv
<1>1. <<>> \in Seq(Keys)
  OBVIOUS
<1>2. 0 \in 0 .. MaxChanges /\ NotGiven \notin Nat
  BY FeedConstantsOK
<1> QED BY <1>1, <1>2
        DEF FeedInit, FeedInv, FeedTypeOK, BudgetKept, NameHeld, PrefixGot, PagesComplete, TopKept,
            OnTheWay, Idle, Client, Phases

\* One step.
LEMMA FeedStep == FeedInv /\ [FeedNext]_feedVars => FeedInv'
<1> SUFFICES ASSUME FeedInv, [FeedNext]_feedVars PROVE FeedInv'
  OBVIOUS
<1>1. CASE FeedNext
  BY <1>1, FirstRequestInv, ResolveInv, ReadPageInv, CountPayloadsInv, ReadWholeInv, ChangeInv
     DEF FeedNext
<1>2. CASE UNCHANGED feedVars
  BY <1>2 DEF feedVars, FeedInv, FeedTypeOK, BudgetKept, NameHeld, PrefixGot, PageFits, All,
              PagesComplete, TopKept, OnTheWay
<1> QED BY <1>1, <1>2

\* The invariant is one.
THEOREM FeedInvariant == FeedSpec => []FeedInv
BY FeedStart, FeedStep, PTL DEF FeedSpec

\* Every variable has its type.
THEOREM FeedTyped == FeedSpec => []FeedTypeOK
BY FeedInvariant, PTL DEF FeedInv

\* read_entity_set: a client that follows the links to the end of a set that rests has got
\* exactly the rows its query selects, once each and in its order, up to $top, by whatever
\* page sizes; and no client gets more than $top, whatever happens to the rows.
THEOREM PagesAddUp == FeedSpec => []PagesComplete
BY FeedInvariant, PTL DEF FeedInv

=============================================================================
