---------------------------- MODULE CrawlProofs ----------------------------
(***************************************************************************)
(* Theorems about Crawl, for any site, any limit, depth and concurrency.   *)
(***************************************************************************)
EXTENDS Crawl, SequenceTheorems, FiniteSetTheorems, TLAPS

\* The fetches in flight can be counted.
CrawlTypeInv == TypeOK /\ IsFiniteSet(flight)

\* The hash of every reported page is remembered.
ContentInv ==
  /\ \A i \in DOMAIN events : events[i].kind = "page" => events[i].content \in hashes
  /\ ContentOnce

Event == [page : Pages, kind : Kinds, content : Contents \cup {NoContent}, links : SUBSET Urls]

-----------------------------------------------------------------------------
\* The room left is a number, and only a page above the last level has any.
LEMMA RoomType ==
  ASSUME CrawlTypeInv, NEW p \in Pages
  PROVE  /\ Room(p) \in Nat
         /\ Room(p) # 0 => p.depth < MaxDepth
         /\ Room(p) # 0 => Room(p) = plan.limit - (completed + Cardinality(flight) + Len(queue))
<1>1. plan.limit \in Nat /\ completed \in Nat /\ Len(queue) \in Nat /\ MaxDepth \in Nat
  BY CrawlAssumption DEF CrawlTypeInv, TypeOK
<1>2. Cardinality(flight) \in Nat
  BY FS_CardinalityType DEF CrawlTypeInv
<1>3. p.depth \in Nat
  BY <1>1 DEF Pages
<1> QED BY <1>1, <1>2, <1>3 DEF Room

\* The links taken up are pages, and no more of them than there is room.
LEMMA TakenType ==
  ASSUME CrawlTypeInv, NEW p \in Pages, NEW links \in SUBSET Urls,
         NEW order \in Orders(Fresh(links))
  PROVE  Taken(p, order) \in Seq(Pages) /\ Len(Taken(p, order)) <= Room(p)
<1> DEFINE n == IF Len(order) < Room(p) THEN Len(order) ELSE Room(p)
           c == Cardinality(Fresh(links))
<1>1. IsFiniteSet(Fresh(links)) /\ Fresh(links) \subseteq Urls
  BY CrawlAssumption, FS_Subset DEF Fresh
<1>2. c \in Nat
  BY <1>1, FS_CardinalityType
<1>3. order \in [1..c -> Urls]
  BY <1>1 DEF Orders
<1>4. Len(order) = c /\ DOMAIN order = 1..c
  BY <1>2, <1>3
<1>5. n \in Nat /\ n <= c /\ n <= Room(p)
  BY <1>2, <1>4, RoomType
<1>6. ASSUME NEW i \in 1..n PROVE [url |-> order[i], depth |-> p.depth + 1] \in Pages
  <2>1. p.depth \in Nat /\ MaxDepth \in Nat
    BY CrawlAssumption DEF Pages
  <2>2. p.depth + 1 \in 0..MaxDepth
    BY <1>5, <1>6, <2>1, RoomType
  <2>3. order[i] \in Urls
    BY <1>2, <1>3, <1>5
  <2> QED BY <2>2, <2>3 DEF Pages
<1>7. Taken(p, order) = [i \in 1..n |-> [url |-> order[i], depth |-> p.depth + 1]]
  BY DEF Taken
<1> HIDE DEF n
<1>8. Taken(p, order) \in [1..n -> Pages]
  BY <1>6, <1>7
<1> QED BY <1>5, <1>8

\* An event that is accepted is one more event; one that is refused is none.
LEMMA DeliverType ==
  ASSUME CrawlTypeInv, NEW p \in Pages, NEW kind \in Kinds,
         NEW content \in Contents \cup {NoContent}, NEW links \in SUBSET Urls,
         Deliver(p, kind, content, links)
  PROVE  events' \in Seq(Event) /\ completed' \in Nat /\ pc' \in {"fill", "drain"}
<1>1. completed \in Nat /\ events \in Seq(Event)
  BY DEF CrawlTypeInv, TypeOK, Event
<1>2. [page |-> p, kind |-> kind, content |-> content, links |-> links] \in Event
  BY DEF Event
<1> QED BY <1>1, <1>2 DEF Deliver

-----------------------------------------------------------------------------
\* No step of the crawl leaves the types.
LEMMA CrawlTypeStep == CrawlTypeInv /\ [Next]_vars => CrawlTypeInv'
<1> SUFFICES ASSUME CrawlTypeInv, [Next]_vars PROVE CrawlTypeInv'
  OBVIOUS
<1>1. CASE Dispatch
  <2>1. Head(queue) \in Pages /\ Tail(queue) \in Seq(Pages)
    BY <1>1 DEF Dispatch, MayDispatch, CrawlTypeInv, TypeOK
  <2>2. IsFiniteSet(flight \cup {Head(queue)})
    BY FS_AddElement DEF CrawlTypeInv
  <2> QED BY <1>1, <2>1, <2>2 DEF Dispatch, CrawlTypeInv, TypeOK
<1>2. CASE Filled BY <1>2 DEF Filled, CrawlTypeInv, TypeOK
<1>3. CASE JoinStep
  <2> SUFFICES ASSUME NEW p \in flight,
                      \/ JoinError(p) \/ JoinPanic(p) \/ FetchEndsUnheard(p)
                      \/ \E content \in Contents :
                           JoinDuplicate(p, content)
                             \/ \E links \in SUBSET Urls : JoinPage(p, content, links)
               PROVE  CrawlTypeInv'
    BY <1>3 DEF JoinStep
  <2>1. p \in Pages /\ IsFiniteSet(flight \ {p}) /\ flight \ {p} \subseteq Pages
    BY FS_RemoveElement DEF CrawlTypeInv, TypeOK
  <2>2. CASE JoinError(p)
    <3>1. events' \in Seq(Event) /\ completed' \in Nat /\ pc' \in {"fill", "drain"}
      <4>1. Deliver(p, "error", NoContent, {})
        BY <2>2 DEF JoinError
      <4>2. "error" \in Kinds /\ NoContent \in Contents \cup {NoContent} /\ {} \in SUBSET Urls
        BY <2>2 DEF Kinds
      <4> QED BY <2>1, <4>1, <4>2, DeliverType
    <3> QED BY <2>1, <2>2, <3>1 DEF JoinError, Event, CrawlTypeInv, TypeOK
  <2>3. CASE JoinPanic(p) BY <2>1, <2>3 DEF JoinPanic, CrawlTypeInv, TypeOK
  <2>4. CASE FetchEndsUnheard(p) BY <2>1, <2>4 DEF FetchEndsUnheard, CrawlTypeInv, TypeOK
  <2>5. ASSUME NEW content \in Contents, JoinDuplicate(p, content) PROVE CrawlTypeInv'
    <3>1. events' \in Seq(Event) /\ completed' \in Nat /\ pc' \in {"fill", "drain"}
      <4>1. Deliver(p, "suppressed", content, {})
        BY <2>5 DEF JoinDuplicate
      <4>2. "suppressed" \in Kinds /\ content \in Contents \cup {NoContent} /\ {} \in SUBSET Urls
        BY <2>5 DEF Kinds
      <4> QED BY <2>1, <4>1, <4>2, DeliverType
    <3> QED BY <2>1, <2>5, <3>1 DEF JoinDuplicate, Event, CrawlTypeInv, TypeOK
  <2>6. ASSUME NEW content \in Contents, NEW links \in SUBSET Urls, JoinPage(p, content, links)
        PROVE  CrawlTypeInv'
    <3>1. events' \in Seq(Event) /\ completed' \in Nat /\ pc' \in {"fill", "drain"}
      <4>1. Deliver(p, "page", content, links \cap Allowed)
        BY <2>6 DEF JoinPage
      <4>2. "page" \in Kinds /\ content \in Contents \cup {NoContent} /\ links \cap Allowed \in SUBSET Urls
        BY <2>6 DEF Kinds
      <4> QED BY <2>1, <4>1, <4>2, DeliverType
    <3>2. PICK order \in Orders(Fresh(links)) :
            /\ queue' = queue \o Taken(p, order)
            /\ visited' = visited \cup {Taken(p, order)[i] : i \in DOMAIN Taken(p, order)}
      BY <2>6 DEF JoinPage
    <3>3. Taken(p, order) \in Seq(Pages)
      BY <2>1, TakenType
    <3>4. queue' \in Seq(Pages)
      BY <3>2, <3>3 DEF CrawlTypeInv, TypeOK
    <3>5. visited' \subseteq Pages
      BY <3>2, <3>3 DEF CrawlTypeInv, TypeOK
    <3> QED BY <2>1, <2>6, <3>1, <3>4, <3>5 DEF JoinPage, Event, CrawlTypeInv, TypeOK
  <2> QED BY <2>2, <2>3, <2>4, <2>5, <2>6
<1>4. CASE Fail BY <1>4 DEF Fail, CrawlTypeInv, TypeOK
<1>5. CASE DropFuture BY <1>5 DEF DropFuture, CrawlTypeInv, TypeOK
<1>6. CASE Finished BY <1>6 DEF Finished, vars, CrawlTypeInv, TypeOK
<1>7. CASE UNCHANGED vars BY <1>7 DEF vars, CrawlTypeInv, TypeOK
<1> QED BY <1>1, <1>2, <1>3, <1>4, <1>5, <1>6, <1>7 DEF Next

\* The crawl starts with the seed in the frontier and nothing in flight.
LEMMA CrawlTypeInit == Init => CrawlTypeInv
<1> SUFFICES ASSUME Init PROVE CrawlTypeInv
  OBVIOUS
<1>1. Root \in Pages
  BY CrawlAssumption DEF Root, Pages
<1>2. <<Root>> \in Seq(Pages)
  BY <1>1
<1>3. <<>> \in Seq(Event)
  OBVIOUS
<1> QED BY <1>1, <1>2, <1>3, FS_EmptySet DEF Init, CrawlTypeInv, TypeOK, Event

\* Every state of the crawl is well typed, with finitely many fetches in flight.
LEMMA CrawlTyped == Spec => []CrawlTypeInv
BY CrawlTypeInit, CrawlTypeStep, PTL DEF Spec

\* The state of a crawl keeps to its types, whatever the site does.
THEOREM CrawlTypeCorrect == Spec => []TypeOK
<1>1. CrawlTypeInv => TypeOK
  BY DEF CrawlTypeInv
<1> QED BY <1>1, CrawlTyped, PTL

-----------------------------------------------------------------------------
(***************************************************************************)
(* The budget. BudgetKept is inductive on its own: a page that leaves the  *)
(* flight gives up one place, its result takes it, and the links taken up  *)
(* are no more than the room that was left with the page still in flight.  *)
(***************************************************************************)

\* No step takes the crawl over its limit.
LEMMA BudgetStep == CrawlTypeInv /\ BudgetKept /\ [Next]_vars => BudgetKept'
<1> SUFFICES ASSUME CrawlTypeInv, BudgetKept, [Next]_vars PROVE BudgetKept'
  OBVIOUS
<1> DEFINE room == IF plan.limit = 0 THEN 1 ELSE plan.limit
<1>0. /\ plan.limit \in Nat /\ completed \in Nat /\ Len(queue) \in Nat /\ Cardinality(flight) \in Nat
      /\ IsFiniteSet(flight) /\ queue \in Seq(Pages) /\ flight \subseteq Pages
  BY CrawlAssumption, FS_CardinalityType DEF CrawlTypeInv, TypeOK
<1>a. completed + Cardinality(flight) + Len(queue) <= room
  BY DEF BudgetKept
<1>b. plan' = plan
  BY DEF Next, vars, Dispatch, Filled, JoinStep, JoinError, JoinPanic, FetchEndsUnheard,
         JoinDuplicate, JoinPage, Fail, DropFuture, Finished
<1>c. ASSUME flight' = flight, queue' = queue, completed' = completed PROVE BudgetKept'
  BY <1>a, <1>b, <1>c DEF BudgetKept
<1>d. ASSUME NEW p \in flight, flight' = flight \ {p}
      PROVE  Cardinality(flight') = Cardinality(flight) - 1
  BY <1>0, <1>d, FS_RemoveElement
<1>e. ASSUME NEW p \in flight, flight' = flight \ {p}, queue' = queue,
             completed' \in {completed, completed + 1}
      PROVE  BudgetKept'
  <2>1. Cardinality(flight') = Cardinality(flight) - 1
    BY <1>d, <1>e
  <2>2. completed' + Cardinality(flight') + Len(queue') <= room
    BY <1>0, <1>a, <1>e, <2>1
  <2> QED BY <1>b, <2>2 DEF BudgetKept
<1>1. CASE Dispatch
  <2>1. Len(queue') = Len(queue) - 1 /\ completed' = completed
    BY <1>0, <1>1 DEF Dispatch, MayDispatch
  <2>2. Cardinality(flight') \in Nat /\ Cardinality(flight') <= Cardinality(flight) + 1
    <3> DEFINE more == flight \cup {Head(queue)}
    <3>1. Cardinality(more) = Cardinality(flight) \/ Cardinality(more) = Cardinality(flight) + 1
      BY <1>0, FS_AddElement
    <3>2. flight' = more
      BY <1>1 DEF Dispatch
    <3> QED BY <1>0, <3>1, <3>2
  <2> QED BY <1>0, <1>a, <1>b, <2>1, <2>2 DEF BudgetKept
<1>2. CASE Filled BY <1>2, <1>c DEF Filled
<1>3. CASE JoinStep
  <2> SUFFICES ASSUME NEW p \in flight,
                      \/ JoinError(p) \/ JoinPanic(p) \/ FetchEndsUnheard(p)
                      \/ \E content \in Contents :
                           JoinDuplicate(p, content)
                             \/ \E links \in SUBSET Urls : JoinPage(p, content, links)
               PROVE  BudgetKept'
    BY <1>3 DEF JoinStep
  <2>1. CASE JoinError(p) BY <1>e, <2>1 DEF JoinError, Deliver
  <2>2. CASE JoinPanic(p) BY <1>e, <2>2 DEF JoinPanic
  <2>3. CASE FetchEndsUnheard(p) BY <1>e, <2>3 DEF FetchEndsUnheard
  <2>4. ASSUME NEW content \in Contents, JoinDuplicate(p, content) PROVE BudgetKept'
    BY <1>e, <2>4 DEF JoinDuplicate, Deliver
  <2>5. ASSUME NEW content \in Contents, NEW links \in SUBSET Urls, JoinPage(p, content, links)
        PROVE  BudgetKept'
    <3>1. PICK order \in Orders(Fresh(links)) : queue' = queue \o Taken(p, order)
      BY <2>5 DEF JoinPage
    <3>2. p \in Pages
      BY <1>0
    <3>3. Taken(p, order) \in Seq(Pages) /\ Len(Taken(p, order)) <= Room(p)
      BY <3>2, TakenType
    <3>4. Len(queue') = Len(queue) + Len(Taken(p, order)) /\ Len(Taken(p, order)) \in Nat
      BY <1>0, <3>1, <3>3
    <3>5. completed' \in {completed, completed + 1} /\ flight' = flight \ {p}
      BY <2>5 DEF JoinPage, Deliver
    <3>6. Cardinality(flight') = Cardinality(flight) - 1
      BY <1>d, <3>5
    <3>7. Room(p) \in Nat
           /\ (Room(p) # 0
                 => Room(p) = plan.limit - (completed + Cardinality(flight) + Len(queue)))
      BY <3>2, RoomType
    <3>8. PICK c, f, l, n \in Nat : /\ c = completed /\ f = Cardinality(flight) /\ l = Len(queue)
                                    /\ n = Len(Taken(p, order))
      BY <1>0, <3>4
    <3>9. /\ Cardinality(flight') = f - 1 /\ Len(queue') = l + n /\ completed' \in {c, c + 1}
          /\ c + f + l <= room /\ (n = 0 \/ n <= plan.limit - (c + f + l))
      BY <1>0, <1>a, <3>3, <3>4, <3>5, <3>6, <3>7, <3>8
    <3>10. c + f + l + n <= room
      BY <1>0, <3>8, <3>9
    <3>11. completed' + Cardinality(flight') + Len(queue') <= c + f + l + n
      BY <3>8, <3>9, SMTT(30)
    <3>12. room \in Nat /\ completed' + Cardinality(flight') + Len(queue') \in Int
      BY <1>0, <3>8, <3>9
    <3> HIDE DEF room
    <3>13. completed' + Cardinality(flight') + Len(queue') <= room
      BY <3>8, <3>10, <3>11, <3>12
    <3> QED BY <1>b, <3>13 DEF BudgetKept, room
  <2> QED BY <2>1, <2>2, <2>3, <2>4, <2>5
<1>4. CASE Fail BY <1>4, <1>c DEF Fail
<1>5. CASE DropFuture BY <1>5, <1>c DEF DropFuture
<1>6. CASE Finished BY <1>6, <1>c DEF Finished, vars
<1>7. CASE UNCHANGED vars BY <1>7, <1>c DEF vars
<1> QED BY <1>1, <1>2, <1>3, <1>4, <1>5, <1>6, <1>7 DEF Next

\* The pages reported, in flight and queued never exceed the limit.
THEOREM BudgetHolds == Spec => []BudgetKept
<1>1. Init => BudgetKept
  <2> SUFFICES ASSUME Init PROVE BudgetKept
    OBVIOUS
  <2>1. completed = 0 /\ Cardinality(flight) = 0 /\ Len(queue) = 1 /\ plan.limit \in Nat
    BY CrawlAssumption, FS_EmptySet DEF Init
  <2> QED BY <2>1 DEF BudgetKept
<1> QED BY <1>1, CrawlTyped, BudgetStep, PTL DEF Spec

-----------------------------------------------------------------------------
(***************************************************************************)
(* Duplicates. A page is reported only with a content whose hash is not    *)
(* remembered, and every reported content's hash is.                       *)
(***************************************************************************)

\* An accepted event other than a page with a remembered content changes
\* nothing that ContentInv speaks of.
LEMMA DeliverContent ==
  ASSUME CrawlTypeInv, ContentInv, NEW p, NEW kind, NEW content, NEW links,
         Deliver(p, kind, content, links), hashes \subseteq hashes',
         kind = "page" => content \notin hashes /\ content \in hashes'
  PROVE  ContentInv'
<1>1. CASE UNCHANGED events
  BY <1>1 DEF ContentInv, ContentOnce
<1>2. CASE events' = Append(events,
             [page |-> p, kind |-> kind, content |-> content, links |-> links])
  <2> DEFINE n == Len(events) + 1
  <2>1. Len(events) \in Nat /\ DOMAIN events = 1..Len(events)
    BY DEF CrawlTypeInv, TypeOK
  <2>2. /\ DOMAIN events' = 1..n
        /\ \A i \in 1..Len(events) : events'[i] = events[i]
        /\ events'[n] = [page |-> p, kind |-> kind, content |-> content, links |-> links]
    BY <1>2, <2>1 DEF CrawlTypeInv, TypeOK
  <2>3. \A i \in DOMAIN events' : i \in DOMAIN events \/ i = n
    BY <2>1, <2>2
  <2>4. events'[n].kind = kind /\ events'[n].content = content
    BY <2>2
  <2> HIDE DEF n
  <2>5. \A i \in DOMAIN events' : events'[i].kind = "page" => events'[i].content \in hashes'
    BY <2>1, <2>2, <2>3, <2>4 DEF ContentInv
  <2>6. ASSUME NEW i \in DOMAIN events', NEW j \in DOMAIN events',
               events'[i].kind = "page", events'[j].kind = "page",
               events'[i].content = events'[j].content
        PROVE  i = j
    <3>1. CASE i \in DOMAIN events /\ j \in DOMAIN events
      BY <2>1, <2>2, <2>6, <3>1 DEF ContentInv, ContentOnce
    <3>2. CASE i = n /\ j \in DOMAIN events
      BY <2>1, <2>2, <2>4, <2>6, <3>2 DEF ContentInv
    <3>3. CASE i \in DOMAIN events /\ j = n
      BY <2>1, <2>2, <2>4, <2>6, <3>3 DEF ContentInv
    <3> QED BY <2>3, <3>1, <3>2, <3>3
  <2> QED BY <2>5, <2>6 DEF ContentInv, ContentOnce
<1> QED BY <1>1, <1>2 DEF Deliver

\* No step reports a content again.
LEMMA ContentStep == CrawlTypeInv /\ ContentInv /\ [Next]_vars => ContentInv'
<1> SUFFICES ASSUME CrawlTypeInv, ContentInv, [Next]_vars PROVE ContentInv'
  OBVIOUS
<1>0. ASSUME UNCHANGED <<events, hashes>> PROVE ContentInv'
  BY <1>0 DEF ContentInv, ContentOnce
<1>1. CASE Dispatch BY <1>0, <1>1 DEF Dispatch
<1>2. CASE Filled BY <1>0, <1>2 DEF Filled
<1>3. CASE JoinStep
  <2> SUFFICES ASSUME NEW p \in flight,
                      \/ JoinError(p) \/ JoinPanic(p) \/ FetchEndsUnheard(p)
                      \/ \E content \in Contents :
                           JoinDuplicate(p, content)
                             \/ \E links \in SUBSET Urls : JoinPage(p, content, links)
               PROVE  ContentInv'
    BY <1>3 DEF JoinStep
  <2>1. CASE JoinError(p)
    <3>1. Deliver(p, "error", NoContent, {}) /\ hashes' = hashes
      BY <2>1 DEF JoinError
    <3> QED BY <3>1, DeliverContent
  <2>2. CASE JoinPanic(p) BY <1>0, <2>2 DEF JoinPanic
  <2>3. CASE FetchEndsUnheard(p) BY <1>0, <2>3 DEF FetchEndsUnheard
  <2>4. ASSUME NEW content \in Contents, JoinDuplicate(p, content) PROVE ContentInv'
    <3>1. Deliver(p, "suppressed", content, {}) /\ hashes' = hashes
      BY <2>4 DEF JoinDuplicate
    <3> QED BY <3>1, DeliverContent
  <2>5. ASSUME NEW content \in Contents, NEW links \in SUBSET Urls, JoinPage(p, content, links)
        PROVE  ContentInv'
    <3>1. /\ Deliver(p, "page", content, links \cap Allowed)
          /\ content \notin hashes /\ hashes' = hashes \cup {content}
      BY <2>5 DEF JoinPage
    <3> QED BY <3>1, DeliverContent
  <2> QED BY <2>1, <2>2, <2>3, <2>4, <2>5
<1>4. CASE Fail BY <1>0, <1>4 DEF Fail
<1>5. CASE DropFuture BY <1>0, <1>5 DEF DropFuture
<1>6. CASE Finished BY <1>0, <1>6 DEF Finished, vars
<1>7. CASE UNCHANGED vars BY <1>0, <1>7 DEF vars
<1> QED BY <1>1, <1>2, <1>3, <1>4, <1>5, <1>6, <1>7 DEF Next

\* No two pages with the same content are reported, in whatever order fetches
\* end.
THEOREM ContentReportedOnce == Spec => []ContentOnce
<1>1. Init => ContentInv
  BY DEF Init, ContentInv, ContentOnce
<1>2. ContentInv => ContentOnce
  BY DEF ContentInv
<1> QED BY <1>1, <1>2, CrawlTyped, ContentStep, PTL DEF Spec

-----------------------------------------------------------------------------
(***************************************************************************)
(* Where a page is. While the crawl goes on, every page it has set out to  *)
(* fetch is in one place: answered, in flight or queued.                   *)
(***************************************************************************)
Reported   == Answered({"page", "error"})
Duplicates == Answered({"suppressed"})
Going      == pc \in {"fill", "join"}

PlaceInv ==
  /\ visited = Reported \cup Duplicates \cup flight \cup {queue[i] : i \in 1..Len(queue)}
  /\ \A p \in flight : p \notin Reported \cup Duplicates
  /\ \A i \in 1..Len(queue) : queue[i] \notin Reported \cup Duplicates \cup flight
  /\ \A i, j \in 1..Len(queue) : queue[i] = queue[j] => i = j

\* The limit bounds what is fetched, and a remembered hash is a reported page's.
CountInv ==
  /\ IsFiniteSet(Reported) /\ Cardinality(Reported) <= completed
  /\ completed + Cardinality(flight) <= plan.limit
  /\ hashes # {} => Reported # {}

WalkInv == Going => PlaceInv /\ CountInv

\* An accepted event answers its page.
LEMMA AnsweredMore ==
  ASSUME CrawlTypeInv, NEW p, NEW kind, NEW content, NEW links,
         events' = Append(events, [page |-> p, kind |-> kind, content |-> content, links |-> links])
  PROVE  \A K : Answered(K)' = Answered(K) \cup (IF kind \in K THEN {p} ELSE {})
<1> DEFINE e == [page |-> p, kind |-> kind, content |-> content, links |-> links]
           n == Len(events) + 1
<1>1. e.page = p /\ e.kind = kind
  OBVIOUS
<1>2. events \in Seq(Event) /\ Len(events) \in Nat /\ DOMAIN events = 1..Len(events)
  BY LenProperties DEF CrawlTypeInv, TypeOK, Event
<1>3. events' = Append(events, e)
  OBVIOUS
<1> HIDE DEF e
<1>4. /\ DOMAIN events' = 1..n /\ events'[n] = e
      /\ \A i \in 1..Len(events) : events'[i] = events[i]
  BY <1>2, <1>3
<1>5. ASSUME NEW K, NEW q PROVE q \in Answered(K)' <=> q \in Answered(K) \/ (kind \in K /\ q = p)
  <2>1. q \in Answered(K)' <=> \E i \in 1..n : events'[i].kind \in K /\ events'[i].page = q
    BY <1>4 DEF Answered
  <2>2. q \in Answered(K) <=> \E i \in 1..Len(events) : events[i].kind \in K /\ events[i].page = q
    BY <1>2 DEF Answered
  <2>3. \A i : i \in 1..n <=> i \in 1..Len(events) \/ i = n
    BY <1>2
  <2>4. n \in 1..n /\ n \notin 1..Len(events)
    BY <1>2
  <2> HIDE DEF n
  <2> QED BY <1>1, <1>4, <2>1, <2>2, <2>3, <2>4
<1> QED BY <1>5

LEMMA AnsweredSame == ASSUME UNCHANGED events PROVE \A K : Answered(K)' = Answered(K)
BY DEF Answered

\* The pages taken up from a page: in scope, found nowhere before, a level deeper, each once.
LEMMA TakenNew ==
  ASSUME CrawlTypeInv, NEW p \in Pages, NEW links \in SUBSET Urls, NEW order \in Orders(Fresh(links)),
         NEW new, new = Taken(p, order)
  PROVE  /\ new \in Seq(Pages) /\ Len(new) <= Room(p)
         /\ \A i \in 1..Len(new) : /\ new[i].url \in Allowed /\ new[i].depth = p.depth + 1
                                   /\ new[i] \notin visited
                                   /\ \A r \in visited : r.url # new[i].url
         /\ \A i, j \in 1..Len(new) : new[i].url = new[j].url => i = j
<1> DEFINE n == IF Len(order) < Room(p) THEN Len(order) ELSE Room(p)
           c == Cardinality(Fresh(links))
<1>1. IsFiniteSet(Fresh(links)) /\ Fresh(links) \subseteq Urls
  BY CrawlAssumption, FS_Subset DEF Fresh
<1>2. c \in Nat
  BY <1>1, FS_CardinalityType
<1>3. order \in [1..c -> Fresh(links)] /\ \A i, j \in 1..c : order[i] = order[j] => i = j
  BY DEF Orders
<1>4. Len(order) = c
  BY <1>2, <1>3
<1>5. n \in Nat /\ n <= c
  BY <1>2, <1>4, RoomType
<1>6. new = [i \in 1..n |-> [url |-> order[i], depth |-> p.depth + 1]]
  BY DEF Taken
<1>7. new \in Seq(Pages) /\ Len(new) <= Room(p)
  BY TakenType
<1> HIDE DEF n
<1>8. Len(new) = n
  BY <1>5, <1>6
<1>9. ASSUME NEW i \in 1..Len(new)
      PROVE  /\ new[i].url = order[i] /\ new[i].depth = p.depth + 1
             /\ order[i] \in Fresh(links) /\ i \in 1..c
  BY <1>2, <1>3, <1>5, <1>6, <1>8
<1>10. \A i \in 1..Len(new) : /\ new[i].url \in Allowed /\ new[i].url \notin Known
  BY <1>9 DEF Fresh
<1>11. \A i \in 1..Len(new) : \A r \in visited : r.url # new[i].url
  BY <1>10 DEF Known
<1>12. \A i, j \in 1..Len(new) : new[i].url = new[j].url => i = j
  BY <1>3, <1>9
<1> QED BY <1>7, <1>9, <1>10, <1>11, <1>12

\* A page goes from the frontier into flight.
LEMMA DispatchPlaces ==
  ASSUME CrawlTypeInv, WalkInv, Dispatch
  PROVE  WalkInv'
<1>1. /\ pc = "fill" /\ MayDispatch /\ queue # <<>>
      /\ flight' = flight \cup {Head(queue)} /\ queue' = Tail(queue)
      /\ UNCHANGED <<plan, pc, visited, hashes, completed, events>>
  BY DEF Dispatch, MayDispatch
<1>2. Reported' = Reported /\ Duplicates' = Duplicates
  BY <1>1, AnsweredSame DEF Reported, Duplicates
<1>3. PlaceInv /\ CountInv
  BY <1>1 DEF WalkInv, Going
<1>4. /\ Len(queue) \in Nat /\ Len(queue) >= 1 /\ Len(queue') = Len(queue) - 1
      /\ Head(queue) = queue[1]
      /\ \A i \in 1..Len(queue') : queue'[i] = queue[i + 1]
  BY <1>1, HeadTailProperties, LenProperties, EmptySeq DEF CrawlTypeInv, TypeOK
<1>5. {queue[i] : i \in 1..Len(queue)} = {queue[1]} \cup {queue'[i] : i \in 1..Len(queue')}
  <2>1. \A i \in 1..Len(queue') : i + 1 \in 1..Len(queue)
    BY <1>4
  <2>2. \A i \in 1..Len(queue) : i = 1 \/ (i - 1 \in 1..Len(queue') /\ (i - 1) + 1 = i)
    BY <1>4
  <2>3. \A i \in 1..Len(queue) : i = 1 \/ \E j \in 1..Len(queue') : queue[i] = queue'[j]
    BY <1>4, <2>2
  <2>4. 1 \in 1..Len(queue)
    BY <1>4
  <2>5. \A i \in 1..Len(queue') : \E j \in 1..Len(queue) : queue'[i] = queue[j]
    BY <1>4, <2>1
  <2> DEFINE Before == {queue[i] : i \in 1..Len(queue)}
             After  == {queue'[i] : i \in 1..Len(queue')}
  <2>6. ASSUME NEW q \in Before PROVE q \in {queue[1]} \cup After
    BY <2>3, <2>6
  <2>7. ASSUME NEW q \in {queue[1]} \cup After PROVE q \in Before
    BY <2>4, <2>5, <2>7
  <2>8. Before = {queue[1]} \cup After
    <3> HIDE DEF Before, After
    <3> QED BY <2>6, <2>7
  <2> QED BY <2>8
<1>6. /\ \A i \in 1..Len(queue') : queue'[i] # queue[1] /\ \E j \in 1..Len(queue) : queue'[i] = queue[j]
      /\ \A i, j \in 1..Len(queue') : queue'[i] = queue'[j] => i = j
      /\ 1 \in 1..Len(queue)
  <2>1. \A i \in 1..Len(queue') : i + 1 \in 1..Len(queue) /\ i + 1 # 1
    BY <1>4
  <2>2. 1 \in 1..Len(queue)
    BY <1>4
  <2>3. \A i, j \in 1..Len(queue') : queue'[i] = queue'[j] => i + 1 = j + 1
    BY <1>3, <1>4, <2>1 DEF PlaceInv
  <2> QED BY <1>3, <1>4, <2>1, <2>2, <2>3 DEF PlaceInv
<1>7. PlaceInv'
  <2>1. visited' = Reported' \cup Duplicates' \cup flight' \cup {queue'[i] : i \in 1..Len(queue')}
    BY <1>1, <1>2, <1>3, <1>4, <1>5 DEF PlaceInv
  <2>2. \A p \in flight' : p \notin Reported' \cup Duplicates'
    BY <1>1, <1>2, <1>3, <1>4, <1>6 DEF PlaceInv
  <2>3. \A i \in 1..Len(queue') : queue'[i] \notin Reported' \cup Duplicates' \cup flight'
    BY <1>1, <1>2, <1>3, <1>4, <1>6 DEF PlaceInv
  <2> QED BY <1>6, <2>1, <2>2, <2>3 DEF PlaceInv
<1>8. CountInv'
  <2>1. Cardinality(flight) \in Nat /\ completed \in Nat /\ plan.limit \in Nat
    BY CrawlAssumption, FS_CardinalityType DEF CrawlTypeInv, TypeOK
  <2>2. Cardinality(flight') <= Cardinality(flight) + 1 /\ Cardinality(flight') \in Nat
    <3>1. \/ Cardinality(flight \cup {Head(queue)}) = Cardinality(flight)
          \/ Cardinality(flight \cup {Head(queue)}) = Cardinality(flight) + 1
      BY FS_AddElement DEF CrawlTypeInv
    <3> QED BY <1>1, <2>1, <3>1
  <2>3. completed + Cardinality(flight) < plan.limit
    BY <1>1 DEF MayDispatch
  <2>4. completed' + Cardinality(flight') <= plan.limit'
    BY <1>1, <2>1, <2>2, <2>3
  <2> QED BY <1>1, <1>2, <1>3, <2>4 DEF CountInv
<1> QED BY <1>7, <1>8 DEF WalkInv

\* A page that was in flight is answered, and the pages taken up from it are queued.
LEMMA Landed ==
  ASSUME CrawlTypeInv, WalkInv, Going, NEW p \in flight, flight' = flight \ {p},
         NEW kind \in Kinds, NEW content, NEW links,
         events' = Append(events, [page |-> p, kind |-> kind, content |-> content, links |-> links]),
         completed' = IF kind = "suppressed" THEN completed ELSE completed + 1, UNCHANGED plan,
         hashes' # {} => hashes # {} \/ kind = "page",
         NEW new \in Seq(Pages), queue' = queue \o new,
         visited' = visited \cup {new[i] : i \in 1..Len(new)},
         \A i \in 1..Len(new) : new[i] \notin visited,
         \A i, j \in 1..Len(new) : new[i] = new[j] => i = j
  PROVE  WalkInv'
<1>1. PlaceInv /\ CountInv
  BY DEF WalkInv
<1>2. \/ Reported' = Reported \cup {p} /\ Duplicates' = Duplicates /\ completed' = completed + 1
      \/ /\ Reported' = Reported /\ Duplicates' = Duplicates \cup {p}
         /\ completed' = completed /\ kind = "suppressed"
  <2>1. \A K : Answered(K)' = Answered(K) \cup (IF kind \in K THEN {p} ELSE {})
    BY AnsweredMore
  <2>2. /\ Reported' = Reported \cup (IF kind \in {"page", "error"} THEN {p} ELSE {})
        /\ Duplicates' = Duplicates \cup (IF kind \in {"suppressed"} THEN {p} ELSE {})
    BY <2>1 DEF Reported, Duplicates
  <2> QED BY <2>2 DEF Kinds
<1>3. /\ Len(queue) \in Nat /\ Len(new) \in Nat /\ Len(queue') = Len(queue) + Len(new)
      /\ \A i \in 1..Len(queue') :
           queue'[i] = IF i <= Len(queue) THEN queue[i] ELSE new[i - Len(queue)]
  BY LenProperties, ConcatProperties DEF CrawlTypeInv, TypeOK
<1>4. ASSUME NEW i \in 1..Len(queue')
      PROVE  \/ i \in 1..Len(queue) /\ queue'[i] = queue[i]
             \/ i - Len(queue) \in 1..Len(new) /\ queue'[i] = new[i - Len(queue)]
  BY <1>3
<1>5. /\ \A i \in 1..Len(queue) : i \in 1..Len(queue') /\ queue'[i] = queue[i]
      /\ \A i \in 1..Len(new) : i + Len(queue) \in 1..Len(queue') /\ queue'[i + Len(queue)] = new[i]
  BY <1>3
<1>6. {queue'[i] : i \in 1..Len(queue')} = {queue[i] : i \in 1..Len(queue)} \cup {new[i] : i \in 1..Len(new)}
  BY <1>4, <1>5
<1>7. \A i \in 1..Len(queue) : queue[i] \in visited
  BY <1>1 DEF PlaceInv
<1>8. ASSUME NEW i \in 1..Len(queue'), NEW j \in 1..Len(queue'), queue'[i] = queue'[j] PROVE i = j
  <2>1. CASE i \in 1..Len(queue) /\ j \in 1..Len(queue)
    BY <1>1, <1>5, <1>8, <2>1 DEF PlaceInv
  <2>2. CASE i - Len(queue) \in 1..Len(new) /\ j - Len(queue) \in 1..Len(new)
    <3>1. i - Len(queue) = j - Len(queue)
      BY <1>3, <1>8, <2>2
    <3> QED BY <1>3, <3>1
  <2>3. CASE \/ i \in 1..Len(queue) /\ j - Len(queue) \in 1..Len(new)
             \/ i - Len(queue) \in 1..Len(new) /\ j \in 1..Len(queue)
    BY <1>3, <1>7, <1>8, <2>3
  <2> QED BY <1>4, <2>1, <2>2, <2>3
<1>9. Reported' \cup Duplicates' = Reported \cup Duplicates \cup {p}
  BY <1>2
<1>10. Reported \cup Duplicates \cup flight \subseteq visited
  BY <1>1 DEF PlaceInv
<1>11. PlaceInv'
  <2>1. visited' = Reported' \cup Duplicates' \cup flight' \cup {queue'[i] : i \in 1..Len(queue')}
    <3>1. PICK A, B, Q, N : A = Reported \cup Duplicates /\ B = Reported' \cup Duplicates'
                            /\ Q = {queue[i] : i \in 1..Len(queue)} /\ N = {new[i] : i \in 1..Len(new)}
      OBVIOUS
    <3>2. visited = A \cup flight \cup Q /\ visited' = visited \cup N /\ B = A \cup {p}
      BY <1>1, <1>9, <3>1 DEF PlaceInv
    <3>3. visited' = B \cup flight' \cup (Q \cup N)
      BY <3>2
    <3> QED BY <1>6, <3>1, <3>3
  <2>2. \A q \in flight' : q \notin Reported' \cup Duplicates'
    BY <1>1, <1>9 DEF PlaceInv
  <2>3. ASSUME NEW i \in 1..Len(queue') PROVE queue'[i] \notin Reported' \cup Duplicates' \cup flight'
    <3>1. CASE i \in 1..Len(queue) /\ queue'[i] = queue[i]
      BY <1>1, <1>9, <3>1 DEF PlaceInv
    <3>2. CASE i - Len(queue) \in 1..Len(new) /\ queue'[i] = new[i - Len(queue)]
      <4>1. queue'[i] \notin visited
        BY <3>2
      <4> QED BY <1>9, <1>10, <4>1
    <3> QED BY <1>4, <3>1, <3>2
  <2> QED BY <1>8, <2>1, <2>2, <2>3 DEF PlaceInv
<1>12. CountInv'
  <2>1. Cardinality(flight) \in Nat /\ completed \in Nat /\ plan.limit \in Nat /\ IsFiniteSet(flight)
    BY CrawlAssumption, FS_CardinalityType DEF CrawlTypeInv, TypeOK
  <2>2. Cardinality(flight') = Cardinality(flight) - 1
    BY <2>1, FS_RemoveElement
  <2>3. completed + Cardinality(flight) <= plan.limit /\ Cardinality(Reported) <= completed
        /\ IsFiniteSet(Reported)
    BY <1>1 DEF CountInv
  <2>4. completed' + Cardinality(flight') <= plan.limit'
    BY <2>1, <2>2, <2>3
  <2>5. IsFiniteSet(Reported') /\ Cardinality(Reported') <= completed'
    <3>1. IsFiniteSet(Reported \cup {p}) /\ Cardinality(Reported) \in Nat
          /\ \/ Cardinality(Reported \cup {p}) = Cardinality(Reported)
             \/ Cardinality(Reported \cup {p}) = Cardinality(Reported) + 1
      BY <2>3, FS_AddElement, FS_CardinalityType
    <3>2. CASE Reported' = Reported \cup {p} /\ completed' = completed + 1
      BY <2>1, <2>3, <3>1, <3>2
    <3>3. CASE Reported' = Reported /\ completed' = completed
      BY <2>3, <3>3
    <3> QED BY <1>2, <3>2, <3>3
  <2>6. hashes' # {} => Reported' # {}
    <3>1. kind = "page" => Reported' # {}
      BY <1>2
    <3>2. Reported # {} => Reported' # {}
      BY <1>2
    <3> QED BY <1>1, <3>1, <3>2 DEF CountInv
  <2> QED BY <2>4, <2>5, <2>6 DEF CountInv
<1> QED BY <1>11, <1>12 DEF WalkInv

\* Where the pages are, whatever the crawl does.
LEMMA WalkInvStep == CrawlTypeInv /\ WalkInv /\ [Next]_vars => WalkInv'
<1> SUFFICES ASSUME CrawlTypeInv, WalkInv, [Next]_vars PROVE WalkInv'
  OBVIOUS
<1>0. queue \in Seq(Pages) /\ flight \subseteq Pages
  BY DEF CrawlTypeInv, TypeOK
<1>a. ASSUME ~Going' PROVE WalkInv'
  BY <1>a DEF WalkInv
<1>b. ASSUME UNCHANGED <<plan, queue, visited, hashes, flight, completed, events>>, Going PROVE WalkInv'
  <2>1. Reported' = Reported /\ Duplicates' = Duplicates
    BY <1>b, AnsweredSame DEF Reported, Duplicates
  <2>2. PlaceInv' /\ CountInv'
    BY <1>b, <2>1 DEF WalkInv, PlaceInv, CountInv
  <2> QED BY <2>2 DEF WalkInv
<1>1. CASE Dispatch BY <1>1, DispatchPlaces
<1>2. CASE Filled
  <2>1. Going
    BY <1>2 DEF Filled, Going
  <2> QED BY <1>2, <1>b, <2>1 DEF Filled
<1>3. ASSUME NEW p \in flight, NEW kind \in Kinds, NEW content, NEW links,
             Deliver(p, kind, content, links), pc = "join", flight' = flight \ {p}, UNCHANGED plan,
             hashes' # {} => hashes # {} \/ kind = "page",
             NEW new \in Seq(Pages), queue' = queue \o new,
             visited' = visited \cup {new[i] : i \in 1..Len(new)},
             \A i \in 1..Len(new) : new[i] \notin visited,
             \A i, j \in 1..Len(new) : new[i] = new[j] => i = j
      PROVE  WalkInv'
  <2>1. CASE pc' = "drain"
    BY <1>a, <2>1 DEF Going
  <2>2. CASE /\ events' = Append(events, [page |-> p, kind |-> kind, content |-> content, links |-> links])
             /\ completed' = IF kind = "suppressed" THEN completed ELSE completed + 1
    <3>1. Going
      BY <1>3 DEF Going
    <3> QED BY <1>3, <2>2, <3>1, Landed
  <2> QED BY <1>3, <2>1, <2>2 DEF Deliver
<1>4. ASSUME NEW p \in flight, NEW kind \in {"error", "suppressed"}, NEW content, NEW links,
             Deliver(p, kind, content, links), pc = "join", flight' = flight \ {p},
             UNCHANGED <<plan, queue, visited, hashes>>
      PROVE  WalkInv'
  <2>1. PICK new \in Seq(Pages) : new = <<>>
    BY EmptySeq
  <2>2. Len(new) = 0 /\ queue' = queue \o new /\ 1..Len(new) = {}
    BY <1>0, <1>4, <2>1, EmptySeq, ConcatEmptySeq
  <2>3. visited' = visited \cup {new[i] : i \in 1..Len(new)}
    BY <1>4, <2>2
  <2> QED BY <1>3, <1>4, <2>2, <2>3 DEF Kinds
<1>5. CASE JoinStep
  <2> SUFFICES ASSUME NEW p \in flight,
                      \/ JoinError(p) \/ JoinPanic(p) \/ FetchEndsUnheard(p)
                      \/ \E content \in Contents :
                           JoinDuplicate(p, content)
                             \/ \E links \in SUBSET Urls : JoinPage(p, content, links)
               PROVE  WalkInv'
    BY <1>5 DEF JoinStep
  <2>1. CASE JoinError(p) BY <1>4, <2>1 DEF JoinError
  <2>2. CASE JoinPanic(p) BY <1>a, <2>2 DEF JoinPanic, Going
  <2>3. CASE FetchEndsUnheard(p) BY <1>a, <2>3 DEF FetchEndsUnheard, Going
  <2>4. ASSUME NEW content \in Contents, JoinDuplicate(p, content) PROVE WalkInv'
    BY <1>4, <2>4 DEF JoinDuplicate
  <2>5. ASSUME NEW content \in Contents, NEW links \in SUBSET Urls, JoinPage(p, content, links)
        PROVE  WalkInv'
    <3>1. PICK order \in Orders(Fresh(links)) :
            /\ queue' = queue \o Taken(p, order)
            /\ visited' = visited \cup {Taken(p, order)[i] : i \in DOMAIN Taken(p, order)}
      BY <2>5 DEF JoinPage
    <3>2. PICK new : new = Taken(p, order)
      OBVIOUS
    <3>3. /\ new \in Seq(Pages)
          /\ \A i \in 1..Len(new) : new[i] \notin visited
          /\ \A i, j \in 1..Len(new) : new[i].url = new[j].url => i = j
      BY <1>0, <3>2, TakenNew
    <3>4. queue' = queue \o new /\ visited' = visited \cup {new[i] : i \in 1..Len(new)}
      BY <3>1, <3>2, <3>3, LenProperties
    <3>5. /\ Deliver(p, "page", content, links \cap Allowed) /\ pc = "join" /\ UNCHANGED plan
          /\ flight' = flight \ {p}
      BY <2>5 DEF JoinPage
    <3>6. \A i, j \in 1..Len(new) : new[i] = new[j] => i = j
      BY <3>3
    <3> QED BY <1>3, <3>3, <3>4, <3>5, <3>6 DEF Kinds
  <2> QED BY <2>1, <2>2, <2>3, <2>4, <2>5
<1>6. CASE Fail BY <1>a, <1>6 DEF Fail, Going
<1>7. CASE DropFuture BY <1>a, <1>7 DEF DropFuture, Going
<1>8. CASE Finished \/ UNCHANGED vars
  <2>1. CASE Going
    BY <1>8, <1>b, <2>1 DEF Finished, vars
  <2>2. CASE ~Going
    BY <1>8, <1>a, <2>2 DEF Finished, vars, Going
  <2> QED BY <2>1, <2>2
<1> QED BY <1>1, <1>2, <1>5, <1>6, <1>7, <1>8 DEF Next

LEMMA WalkInvInit == Init => WalkInv
<1> SUFFICES ASSUME Init PROVE WalkInv
  OBVIOUS
<1>1. /\ queue = <<Root>> /\ visited = {Root} /\ hashes = {} /\ flight = {} /\ completed = 0
      /\ events = <<>> /\ plan.limit \in Nat
  BY CrawlAssumption DEF Init
<1>2. Reported = {} /\ Duplicates = {}
  <2>1. DOMAIN events = {}
    BY <1>1
  <2> QED BY <2>1 DEF Reported, Duplicates, Answered
<1>3. 1..Len(queue) = {1} /\ queue[1] = Root
  BY <1>1
<1>4. PlaceInv
  BY <1>1, <1>2, <1>3 DEF PlaceInv
<1>5. CountInv
  BY <1>1, <1>2, FS_EmptySet DEF CountInv
<1> QED BY <1>4, <1>5 DEF WalkInv

-----------------------------------------------------------------------------
(***************************************************************************)
(* The crawl walks the site: every step of it is a step of SiteWalk, or    *)
(* changes nothing that SiteWalk speaks of.                                *)
(***************************************************************************)
\* SiteWalk counts as the crawl does.
LEMMA SameCount == \A S : Walk!Cardinality(S) = Cardinality(S)
BY Zenon DEF Cardinality, Walk!Cardinality

Over == IF pc \in {"fill", "join"} THEN "no" ELSE IF pc = "done" THEN "complete" ELSE "aborted"

\* A sequence has no more elements than places.
LEMMA RangeCount ==
  ASSUME NEW S, NEW w \in Seq(S)
  PROVE  /\ IsFiniteSet({w[i] : i \in 1..Len(w)})
         /\ Cardinality({w[i] : i \in 1..Len(w)}) \in Nat
         /\ Cardinality({w[i] : i \in 1..Len(w)}) <= Len(w)
<1>1. Len(w) \in Nat
  OBVIOUS
<1>2. IsFiniteSet(1..Len(w)) /\ Cardinality(1..Len(w)) = Len(w)
  <2>1. 1 \in Int /\ Len(w) \in Int
    BY <1>1
  <2>2. /\ IsFiniteSet(1..Len(w))
        /\ Cardinality(1..Len(w)) = IF 1 > Len(w) THEN 0 ELSE Len(w) - 1 + 1
    BY <2>1, FS_Interval
  <2>3. (IF 1 > Len(w) THEN 0 ELSE Len(w) - 1 + 1) = Len(w)
    BY <1>1
  <2> QED BY <2>2, <2>3
<1> DEFINE R == {w[i] : i \in 1..Len(w)}
           f == [i \in 1..Len(w) |-> w[i]]
<1>3. f \in Surjection(1..Len(w), R)
  BY DEF Surjection
<1> HIDE DEF R, f
<1>4. IsFiniteSet(R) /\ Cardinality(R) <= Cardinality(1..Len(w))
  BY <1>2, <1>3, FS_Surjection
<1>5. Cardinality(R) \in Nat
  BY <1>4, FS_CardinalityType
<1> QED BY <1>2, <1>4, <1>5 DEF R

\* The pages in hand, counted where they are.
LEMMA InHand ==
  ASSUME CrawlTypeInv, PlaceInv, CountInv
  PROVE  /\ IsFiniteSet(visited \ Duplicates)
         /\ Cardinality(visited \ Duplicates) <= completed + Cardinality(flight) + Len(queue)
         /\ Cardinality(visited \ Duplicates) \in Nat
<1> DEFINE Q == {queue[i] : i \in 1..Len(queue)}
<1>1. /\ IsFiniteSet(Reported) /\ IsFiniteSet(flight) /\ Len(queue) \in Nat /\ completed \in Nat
      /\ Cardinality(Reported) \in Nat /\ Cardinality(flight) \in Nat /\ Cardinality(Reported) <= completed
  BY FS_CardinalityType, LenProperties DEF CrawlTypeInv, TypeOK, CountInv
<1>2. IsFiniteSet(Q) /\ Cardinality(Q) <= Len(queue) /\ Cardinality(Q) \in Nat
  BY RangeCount DEF CrawlTypeInv, TypeOK
<1>3. visited \ Duplicates \subseteq (Reported \cup flight) \cup Q
  BY DEF PlaceInv
<1> HIDE DEF Q
<1>4. /\ IsFiniteSet(Reported \cup flight)
      /\ Cardinality(Reported \cup flight) <= Cardinality(Reported) + Cardinality(flight)
      /\ Cardinality(Reported \cup flight) \in Nat
  <2>1. IsFiniteSet(Reported \cap flight) /\ Cardinality(Reported \cap flight) \in Nat
    BY <1>1, FS_Intersection, FS_CardinalityType
  <2>2. /\ IsFiniteSet(Reported \cup flight)
        /\ Cardinality(Reported \cup flight)
             = Cardinality(Reported) + Cardinality(flight) - Cardinality(Reported \cap flight)
    BY <1>1, FS_Union
  <2>3. Cardinality(Reported \cup flight) \in Nat
    BY <2>2, FS_CardinalityType
  <2> QED BY <1>1, <2>1, <2>2, <2>3
<1>5. PICK RF : RF = Reported \cup flight
  OBVIOUS
<1>6. /\ IsFiniteSet(RF \cup Q) /\ Cardinality(RF \cup Q) \in Nat
      /\ Cardinality(RF \cup Q) <= Cardinality(RF) + Cardinality(Q)
  <2>1. IsFiniteSet(RF \cap Q) /\ Cardinality(RF \cap Q) \in Nat
    BY <1>2, <1>4, <1>5, FS_Intersection, FS_CardinalityType
  <2>2. /\ IsFiniteSet(RF \cup Q)
        /\ Cardinality(RF \cup Q) = Cardinality(RF) + Cardinality(Q) - Cardinality(RF \cap Q)
    BY <1>2, <1>4, <1>5, FS_Union
  <2>3. Cardinality(RF \cup Q) \in Nat
    BY <2>2, FS_CardinalityType
  <2> QED BY <1>2, <1>4, <1>5, <2>1, <2>2, <2>3
<1>7. /\ IsFiniteSet(visited \ Duplicates) /\ Cardinality(visited \ Duplicates) <= Cardinality(RF \cup Q)
  BY <1>3, <1>5, <1>6, FS_Subset
<1>8. Cardinality(visited \ Duplicates) \in Nat
  BY <1>7, FS_CardinalityType
<1>9. Cardinality(RF) <= Cardinality(Reported) + Cardinality(flight) /\ Cardinality(RF) \in Nat
  BY <1>4, <1>5
<1> QED BY <1>1, <1>2, <1>6, <1>7, <1>8, <1>9

\* A page is answered by a result, and what it links to is found.
LEMMA ReportStep ==
  ASSUME CrawlTypeInv, PlaceInv, CountInv, NEW p \in flight, pc = "join", Over' = "no",
         Reported' = Reported \cup {p}, Duplicates' = Duplicates, UNCHANGED plan,
         NEW new \in Seq(Pages), visited' = visited \cup {new[i] : i \in 1..Len(new)},
         Len(new) <= Room(p),
         \A i \in 1..Len(new) : /\ new[i].url \in Allowed /\ new[i].depth = p.depth + 1
                                /\ \A r \in visited : r.url # new[i].url,
         \A i, j \in 1..Len(new) : new[i].url = new[j].url => i = j
  PROVE  Walk!Report(p)
<1>1. /\ p \in Pages /\ completed \in Nat /\ plan.limit \in Nat /\ MaxDepth \in Nat
      /\ Len(queue) \in Nat /\ Len(new) \in Nat /\ IsFiniteSet(flight) /\ Cardinality(flight) \in Nat
  BY CrawlAssumption, FS_CardinalityType, LenProperties DEF CrawlTypeInv, TypeOK
<1>2. p \in visited /\ p \notin Reported \cup Duplicates
  BY DEF PlaceInv
<1>3. Cardinality(Reported) < plan.limit
  <2>1. Cardinality(flight) >= 1
    <3>1. Cardinality(flight \ {p}) = Cardinality(flight) - 1 /\ IsFiniteSet(flight \ {p})
      BY <1>1, FS_RemoveElement
    <3>2. Cardinality(flight \ {p}) \in Nat
      BY <3>1, FS_CardinalityType
    <3> QED BY <1>1, <3>1, <3>2
  <2>2. Cardinality(Reported) \in Nat /\ Cardinality(Reported) <= completed
        /\ completed + Cardinality(flight) <= plan.limit
    BY FS_CardinalityType DEF CountInv
  <2> QED BY <1>1, <2>1, <2>2
<1> DEFINE N == {new[i] : i \in 1..Len(new)}
<1>4. ASSUME NEW q \in N
      PROVE  /\ q.url \in Allowed /\ q.depth = p.depth + 1 /\ q.depth <= MaxDepth
             /\ \A r \in visited : r.url # q.url
             /\ \A r \in N : q.url = r.url => q = r
             /\ q \in Pages
  <2>1. PICK i \in 1..Len(new) : q = new[i]
    OBVIOUS
  <2>2. q \in Pages
    BY <1>1, <2>1, ElementOfSeq
  <2>3. q.depth <= MaxDepth
    BY <1>1, <2>2 DEF Pages
  <2> QED BY <2>1, <2>2, <2>3
<1>5. visited' \ visited = N
  BY <1>4
<1>6. N # {} => Cardinality(visited \ Duplicates) + Cardinality(N) <= plan.limit
  <2>1. /\ Cardinality(visited \ Duplicates) <= completed + Cardinality(flight) + Len(queue)
        /\ Cardinality(visited \ Duplicates) \in Nat
    BY InHand
  <2>2. Cardinality(N) <= Len(new) /\ Cardinality(N) \in Nat
    BY RangeCount
  <2>3. ASSUME N # {}
        PROVE  Cardinality(N) <= plan.limit - (completed + Cardinality(flight) + Len(queue))
    <3>1. Room(p) # 0 /\ Room(p) \in Nat
      <4>1. Len(new) # 0
        BY <2>3
      <4> QED BY <1>1, <4>1, RoomType
    <3>2. Room(p) = plan.limit - (completed + Cardinality(flight) + Len(queue))
      BY <1>1, <3>1, RoomType
    <3> HIDE DEF N
    <3> QED BY <1>1, <2>2, <3>1, <3>2
  <2> HIDE DEF N
  <2> QED BY <1>1, <2>1, <2>2, <2>3
<1>7. visited \subseteq visited'
  OBVIOUS
<1> HIDE DEF N
<1>8. Walk!Discovers(p, N)
  <2>1. Walk!Cardinality(visited \ Duplicates) = Cardinality(visited \ Duplicates)
        /\ Walk!Cardinality(N) = Cardinality(N)
    BY SameCount
  <2>2. /\ \A q \in N : /\ q.url \in Allowed /\ q.depth = p.depth + 1 /\ q.depth <= MaxDepth
                        /\ \A r \in visited : r.url # q.url
        /\ \A q, r \in N : q.url = r.url => q = r
    BY <1>4
  <2> QED BY <1>6, <2>1, <2>2, Zenon DEF Walk!Discovers, Duplicates
<1>9. Walk!Discovers(p, visited' \ visited)
  BY <1>5, <1>8
<1>10. Over = "no" /\ Walk!Cardinality(Reported) < plan.limit
  BY <1>3, SameCount DEF Over
<1>11. p \in Walk!Unanswered
  BY <1>2 DEF Walk!Unanswered, Reported, Duplicates
<1> QED BY <1>7, <1>9, <1>10, <1>11 DEF Walk!Report, Over, Reported, Duplicates

\* The crawl starts where a walk starts.
LEMMA WalkInit == Init => Walk!Init
<1> SUFFICES ASSUME Init PROVE Walk!Init
  OBVIOUS
<1>1. plan.limit \in Nat /\ visited = {Root} /\ events = <<>> /\ pc = "fill"
  BY CrawlAssumption DEF Init
<1>2. DOMAIN events = {}
  BY <1>1
<1>3. \A K : Answered(K) = {}
  BY <1>2 DEF Answered
<1> QED BY <1>1, <1>3 DEF Walk!Init, Root

\* What the walk does when the crawl does a step.
LEMMA WalkStep == CrawlTypeInv /\ BudgetKept /\ WalkInv /\ [Next]_vars => [Walk!Next]_(Walk!wvars)
<1> SUFFICES ASSUME CrawlTypeInv, BudgetKept, WalkInv, [Next]_vars
             PROVE  [Walk!Next]_(Walk!wvars)
  OBVIOUS
<1>0. queue \in Seq(Pages) /\ flight \subseteq Pages
  BY DEF CrawlTypeInv, TypeOK
<1>a. ASSUME UNCHANGED <<plan, visited, events>>, Over' = Over PROVE UNCHANGED Walk!wvars
  <2>1. \A K : Answered(K)' = Answered(K)
    BY <1>a, AnsweredSame
  <2> QED BY <1>a, <2>1 DEF Walk!wvars, Over
<1>b. ASSUME UNCHANGED <<plan, events>>, visited \subseteq visited', Over = "no", Over' = "aborted"
      PROVE  Walk!Next
  <2>1. \A K : Answered(K)' = Answered(K)
    BY <1>b, AnsweredSame
  <2>2. Walk!Abort
    BY <1>b, <2>1 DEF Walk!Abort, Over
  <2> QED BY <2>2 DEF Walk!Next
<1>1. CASE Dispatch
  BY <1>1, <1>a DEF Dispatch, Over
<1>2. CASE Filled
  <2>1. PlaceInv /\ UNCHANGED <<plan, queue, visited, hashes, flight, completed, events>>
    BY <1>2 DEF Filled, WalkInv, Going
  <2>2. CASE flight # {}
    <3>1. Over' = Over
      BY <1>2, <2>2 DEF Filled, Over
    <3> QED BY <1>a, <2>1, <3>1
  <2>3. CASE flight = {}
    <3>1. Over = "no" /\ Over' = "complete" /\ ~MayDispatch
      BY <1>2, <2>3 DEF Filled, Over
    <3>2. Walk!Unanswered = {} \/ plan.limit = 0
      <4>1. CASE queue = <<>>
        <5>1. 1..Len(queue) = {}
          BY <4>1
        <5>2. {queue[i] : i \in 1..Len(queue)} = {}
          BY <5>1
        <5> HIDE DEF Walk!Unanswered
        <5>3. visited = Reported \cup Duplicates
          BY <2>1, <2>3, <5>2 DEF PlaceInv
        <5> QED BY <5>3 DEF Walk!Unanswered, Reported, Duplicates
      <4>2. CASE queue # <<>>
        <5>1. /\ completed \in Nat /\ plan.limit \in Nat /\ plan.concurrency \in Nat /\ Len(queue) \in Nat
              /\ Len(queue) # 0
          BY <4>2, CrawlAssumption, EmptySeq, LenProperties DEF CrawlTypeInv, TypeOK
        <5>2. Cardinality(flight) = 0
          BY <2>3, FS_EmptySet
        <5>3. ~(completed < plan.limit)
          <6>1. 0 < (IF plan.concurrency = 0 THEN 1 ELSE plan.concurrency)
            BY <5>1
          <6> QED BY <3>1, <4>2, <5>1, <5>2, <6>1 DEF MayDispatch
        <5>4. completed + Len(queue) <= (IF plan.limit = 0 THEN 1 ELSE plan.limit)
          BY <5>1, <5>2 DEF BudgetKept
        <5> QED BY <5>1, <5>3, <5>4
      <4> QED BY <4>1, <4>2
    <3>3. \A K : Answered(K)' = Answered(K)
      BY <2>1, AnsweredSame
    <3>4. Walk!Complete
      BY <2>1, <3>1, <3>2, <3>3 DEF Walk!Complete, Over
    <3> QED BY <3>4 DEF Walk!Next
  <2> QED BY <2>2, <2>3
<1>3. ASSUME NEW p \in flight, NEW kind \in {"page", "error"}, NEW content, NEW links,
             Deliver(p, kind, content, links), pc = "join", UNCHANGED plan,
             NEW new \in Seq(Pages), visited' = visited \cup {new[i] : i \in 1..Len(new)},
             Len(new) <= Room(p),
             \A i \in 1..Len(new) : /\ new[i].url \in Allowed /\ new[i].depth = p.depth + 1
                                    /\ \A r \in visited : r.url # new[i].url,
             \A i, j \in 1..Len(new) : new[i].url = new[j].url => i = j
      PROVE  Walk!Next
  <2>1. PlaceInv /\ CountInv /\ Over = "no"
    BY <1>3 DEF WalkInv, Going, Over
  <2>2. CASE pc' = "drain" /\ UNCHANGED events
    <3>1. Over' = "aborted" /\ visited \subseteq visited'
      BY <1>3, <2>2 DEF Over
    <3> QED BY <1>3, <1>b, <2>1, <2>2, <3>1
  <2>3. CASE /\ events' = Append(events, [page |-> p, kind |-> kind, content |-> content, links |-> links])
             /\ pc' = "fill"
    <3>1. \A K : Answered(K)' = Answered(K) \cup (IF kind \in K THEN {p} ELSE {})
      BY <2>3, AnsweredMore
    <3>2. Reported' = Reported \cup {p} /\ Duplicates' = Duplicates
      BY <3>1 DEF Reported, Duplicates
    <3>3. Over' = "no"
      BY <2>3 DEF Over
    <3>4. Walk!Report(p)
      BY <1>3, <2>1, <3>2, <3>3, ReportStep
    <3>5. p \in visited
      BY <2>1 DEF PlaceInv
    <3> QED BY <3>4, <3>5 DEF Walk!Next
  <2> QED BY <1>3, <2>2, <2>3 DEF Deliver
<1>4. CASE JoinStep
  <2> SUFFICES ASSUME NEW p \in flight,
                      \/ JoinError(p) \/ JoinPanic(p) \/ FetchEndsUnheard(p)
                      \/ \E content \in Contents :
                           JoinDuplicate(p, content)
                             \/ \E links \in SUBSET Urls : JoinPage(p, content, links)
               PROVE  [Walk!Next]_(Walk!wvars)
    BY <1>4 DEF JoinStep
  <2>1. CASE JoinError(p)
    <3>1. PICK new \in Seq(Pages) : new = <<>>
      BY EmptySeq
    <3>2. p \in Pages
      BY <1>0
    <3>3. Len(new) = 0 /\ 1..Len(new) = {} /\ Len(new) <= Room(p)
      BY <3>1, <3>2, RoomType
    <3>4. visited' = visited \cup {new[i] : i \in 1..Len(new)}
      BY <2>1, <3>3 DEF JoinError
    <3>5. Deliver(p, "error", NoContent, {}) /\ pc = "join" /\ UNCHANGED plan
      BY <2>1 DEF JoinError
    <3> QED BY <1>3, <3>3, <3>4, <3>5
  <2>2. CASE JoinPanic(p) BY <1>b, <2>2 DEF JoinPanic, Over
  <2>3. CASE FetchEndsUnheard(p) BY <1>a, <2>3 DEF FetchEndsUnheard, Over
  <2>4. ASSUME NEW content \in Contents, JoinDuplicate(p, content) PROVE Walk!Next
    <3>1. PlaceInv /\ CountInv /\ Over = "no" /\ Deliver(p, "suppressed", content, {})
          /\ hashes # {} /\ UNCHANGED <<plan, visited>>
      BY <2>4 DEF JoinDuplicate, WalkInv, Going, Over
    <3>2. CASE pc' = "drain" /\ UNCHANGED events
      BY <1>b, <3>1, <3>2 DEF Over
    <3>3. CASE /\ events' = Append(events, [page |-> p, kind |-> "suppressed",
                                            content |-> content, links |-> {}])
               /\ pc' = "fill"
      <4>1. \A K : Answered(K)' = Answered(K) \cup (IF "suppressed" \in K THEN {p} ELSE {})
        BY <3>3, AnsweredMore
      <4>2. Reported' = Reported /\ Duplicates' = Duplicates \cup {p}
        BY <4>1 DEF Reported, Duplicates
      <4>3. p \in visited /\ p \notin Reported \cup Duplicates /\ Reported # {}
        BY <3>1 DEF PlaceInv, CountInv
      <4>4. p \in Walk!Unanswered
        BY <4>3 DEF Walk!Unanswered, Reported, Duplicates
      <4>5. Over' = "no"
        BY <3>3 DEF Over
      <4>6. Walk!Suppress(p)
        BY <3>1, <4>2, <4>3, <4>4, <4>5 DEF Walk!Suppress, Over, Reported, Duplicates
      <4> QED BY <4>3, <4>6 DEF Walk!Next
    <3> QED BY <3>1, <3>2, <3>3 DEF Deliver
  <2>5. ASSUME NEW content \in Contents, NEW links \in SUBSET Urls, JoinPage(p, content, links)
        PROVE  Walk!Next
    <3>1. PICK order \in Orders(Fresh(links)) :
            visited' = visited \cup {Taken(p, order)[i] : i \in DOMAIN Taken(p, order)}
      BY <2>5 DEF JoinPage
    <3>2. PICK new : new = Taken(p, order)
      OBVIOUS
    <3>3. /\ new \in Seq(Pages) /\ Len(new) <= Room(p)
          /\ \A i \in 1..Len(new) : /\ new[i].url \in Allowed /\ new[i].depth = p.depth + 1
                                    /\ \A r \in visited : r.url # new[i].url
          /\ \A i, j \in 1..Len(new) : new[i].url = new[j].url => i = j
      BY <1>0, <3>2, TakenNew
    <3>4. visited' = visited \cup {new[i] : i \in 1..Len(new)}
      BY <3>1, <3>2, <3>3, LenProperties
    <3>5. Deliver(p, "page", content, links \cap Allowed) /\ pc = "join" /\ UNCHANGED plan
      BY <2>5 DEF JoinPage
    <3> QED BY <1>3, <3>3, <3>4, <3>5
  <2> QED BY <2>1, <2>2, <2>3, <2>4, <2>5
<1>5. CASE Fail BY <1>5, <1>a DEF Fail, Over
<1>6. CASE DropFuture
  <2>1. CASE pc = "drain"
    BY <1>6, <1>a, <2>1 DEF DropFuture, Over
  <2>2. CASE pc \in {"fill", "join"}
    BY <1>6, <1>b, <2>2 DEF DropFuture, Over
  <2> QED BY <1>6, <2>1, <2>2 DEF DropFuture
<1>7. CASE Finished \/ UNCHANGED vars BY <1>7, <1>a DEF Finished, vars, Over
<1> QED BY <1>1, <1>2, <1>4, <1>5, <1>6, <1>7 DEF Next

\* Whatever order the pages end in, whatever the consumer refuses and wherever
\* the future is dropped, the crawl of crawl.rs walks the site as SiteWalk
\* promises: each page is answered once, found a level below a reported page,
\* and never beyond the limit.
THEOREM CrawlWalksSite == Spec => WalkSpec
<1>1. Spec => []BudgetKept
  BY BudgetHolds
<1> QED BY <1>1, CrawlTyped, WalkInvInit, WalkInvStep, WalkInit, WalkStep, PTL
        DEF Spec, WalkSpec, Walk!Spec

-----------------------------------------------------------------------------
(***************************************************************************)
(* Layers. With one fetch at a time the frontier is sorted by depth, spans *)
(* two layers at most, and lies at or just below the page in flight; what  *)
(* has been reported lies above both.                                      *)
(***************************************************************************)
\* The depths of the frontier, of the flight and of the reports.
Sorted(q) == \A i, j \in 1..Len(q) : i < j => q[i].depth <= q[j].depth
Narrow(q) == \A i, j \in 1..Len(q) : q[i].depth <= q[j].depth + 1
Above(F, q) == \A p \in F : \A i \in 1..Len(q) : p.depth <= q[i].depth /\ q[i].depth <= p.depth + 1
Behind(E, F, q) ==
  \A i \in 1..Len(E) : /\ \A j \in 1..Len(q) : E[i].page.depth <= q[j].depth
                       /\ \A p \in F : E[i].page.depth <= p.depth

LayerInv ==
  plan.concurrency <= 1 =>
    /\ \A p, q \in flight : p = q
    /\ Sorted(queue) /\ Narrow(queue) /\ Above(flight, queue) /\ Behind(events, flight, queue)
    /\ \A i, j \in 1..Len(events) : i < j => events[i].page.depth <= events[j].page.depth

\* What is taken up goes behind what is queued, a level below the page it was found on.
LEMMA QueueDeeper ==
  ASSUME NEW q \in Seq(Pages), NEW new \in Seq(Pages), NEW p \in Pages, MaxDepth \in Nat,
         Sorted(q), Narrow(q), Above({p}, q), \A i \in 1..Len(new) : new[i].depth = p.depth + 1
  PROVE  /\ Sorted(q \o new) /\ Narrow(q \o new)
         /\ \A i \in 1..Len(q \o new) : p.depth <= (q \o new)[i].depth
<1> DEFINE w == q \o new
<1>1. /\ Len(q) \in Nat /\ Len(new) \in Nat /\ Len(w) = Len(q) + Len(new)
      /\ \A i \in 1..Len(w) : w[i] = IF i <= Len(q) THEN q[i] ELSE new[i - Len(q)]
  BY LenProperties, ConcatProperties
<1> HIDE DEF w
<1>2. p.depth \in Nat /\ \A i \in 1..Len(q) : q[i].depth \in Nat
  <2>1. \A i \in 1..Len(q) : q[i] \in Pages
    BY ElementOfSeq
  <2>2. \A r \in Pages : r.depth \in Nat
    BY DEF Pages
  <2> QED BY <2>1, <2>2
<1>3. ASSUME NEW i \in 1..Len(w)
      PROVE  \/ i \in 1..Len(q) /\ w[i] = q[i]
             \/ i > Len(q) /\ w[i].depth = p.depth + 1
  <2>1. CASE i <= Len(q)
    BY <1>1, <2>1
  <2>2. CASE i > Len(q)
    <3>1. i - Len(q) \in 1..Len(new) /\ w[i] = new[i - Len(q)]
      BY <1>1, <2>2
    <3> QED BY <2>2, <3>1
  <2> QED BY <1>1, <2>1, <2>2
<1>4. \A i \in 1..Len(q) : p.depth <= q[i].depth /\ q[i].depth <= p.depth + 1
  BY DEF Above
<1>5. \A i \in 1..Len(w) : w[i].depth \in Nat /\ p.depth <= w[i].depth /\ w[i].depth <= p.depth + 1
  BY <1>2, <1>3, <1>4
<1>6. Narrow(w)
  <2>1. ASSUME NEW i \in 1..Len(w), NEW j \in 1..Len(w) PROVE w[i].depth <= w[j].depth + 1
    <3>1. w[i].depth \in Nat /\ w[i].depth <= p.depth + 1
      BY <1>5
    <3>2. w[j].depth \in Nat /\ p.depth <= w[j].depth
      BY <1>5
    <3> QED BY <1>2, <3>1, <3>2
  <2> QED BY <2>1 DEF Narrow
<1>7. Sorted(w)
  <2>1. ASSUME NEW i \in 1..Len(w), NEW j \in 1..Len(w), i < j PROVE w[i].depth <= w[j].depth
    <3>1. CASE i \in 1..Len(q) /\ w[i] = q[i] /\ j \in 1..Len(q) /\ w[j] = q[j]
      BY <2>1, <3>1 DEF Sorted
    <3>2. CASE j > Len(q) /\ w[j].depth = p.depth + 1
      BY <1>2, <1>5, <3>2
    <3>3. CASE i > Len(q) /\ j \in 1..Len(q)
      BY <1>1, <2>1, <3>3
    <3> QED BY <1>3, <3>1, <3>2, <3>3
  <2> QED BY <2>1 DEF Sorted
<1> QED BY <1>5, <1>6, <1>7 DEF w

\* The frontier's head goes into flight.
LEMMA DispatchLayers ==
  ASSUME CrawlTypeInv, LayerInv, Dispatch
  PROVE  LayerInv'
<1> SUFFICES ASSUME plan.concurrency <= 1 PROVE LayerInv'
  BY DEF LayerInv, Dispatch
<1>1. /\ MayDispatch /\ queue # <<>> /\ flight' = flight \cup {Head(queue)} /\ queue' = Tail(queue)
      /\ UNCHANGED <<plan, events>>
  BY DEF Dispatch, MayDispatch
<1>2. flight = {}
  <2>1. /\ Cardinality(flight) \in Nat /\ plan.concurrency \in Nat /\ IsFiniteSet(flight)
    BY CrawlAssumption, FS_CardinalityType DEF CrawlTypeInv, TypeOK
  <2>2. Cardinality(flight) < (IF plan.concurrency = 0 THEN 1 ELSE plan.concurrency)
    BY <1>1 DEF MayDispatch
  <2>3. Cardinality(flight) = 0
    BY <2>1, <2>2
  <2> QED BY <2>1, <2>3, FS_EmptySet
<1>3. /\ Len(queue) \in Nat /\ Len(queue) >= 1 /\ Len(queue') = Len(queue) - 1
      /\ Head(queue) = queue[1]
      /\ \A i \in 1..Len(queue') : queue'[i] = queue[i + 1] /\ i + 1 \in 1..Len(queue)
  BY <1>1, HeadTailProperties, LenProperties, EmptySeq DEF CrawlTypeInv, TypeOK
<1>4. 1 \in 1..Len(queue) /\ flight' = {queue[1]}
  BY <1>1, <1>2, <1>3
<1>5. /\ Sorted(queue) /\ Narrow(queue) /\ Behind(events, flight, queue)
      /\ \A i, j \in 1..Len(events) : i < j => events[i].page.depth <= events[j].page.depth
  BY DEF LayerInv
<1>6. Sorted(queue')
  <2>1. ASSUME NEW i \in 1..Len(queue'), NEW j \in 1..Len(queue'), i < j
        PROVE  queue'[i].depth <= queue'[j].depth
    <3>1. i + 1 < j + 1
      BY <1>3, <2>1
    <3> QED BY <1>3, <1>5, <3>1 DEF Sorted
  <2> QED BY <2>1 DEF Sorted
<1>7. Narrow(queue')
  BY <1>3, <1>5 DEF Narrow
<1>8. Above(flight', queue')
  <2>1. ASSUME NEW i \in 1..Len(queue')
        PROVE  queue[1].depth <= queue'[i].depth /\ queue'[i].depth <= queue[1].depth + 1
    <3>1. 1 < i + 1
      BY <1>3
    <3>2. i + 1 \in 1..Len(queue) /\ queue'[i] = queue[i + 1]
      BY <1>3
    <3>3. queue[1].depth <= queue[i + 1].depth
      BY <1>4, <1>5, <3>1, <3>2 DEF Sorted
    <3>4. queue[i + 1].depth <= queue[1].depth + 1
      BY <1>4, <1>5, <3>2 DEF Narrow
    <3> QED BY <3>2, <3>3, <3>4
  <2> QED BY <1>4, <2>1 DEF Above
<1>9. Behind(events', flight', queue')
  BY <1>1, <1>3, <1>4, <1>5 DEF Behind
<1> QED BY <1>1, <1>4, <1>5, <1>6, <1>7, <1>8, <1>9 DEF LayerInv

\* The page in flight is answered, and what it links to is queued a level below.
LEMMA JoinLayers ==
  ASSUME CrawlTypeInv, LayerInv, NEW p \in flight, flight' = flight \ {p}, UNCHANGED plan,
         NEW kind, NEW content, NEW links, Deliver(p, kind, content, links),
         NEW new \in Seq(Pages), queue' = queue \o new,
         \A i \in 1..Len(new) : new[i].depth = p.depth + 1
  PROVE  LayerInv'
<1> SUFFICES ASSUME plan.concurrency <= 1 PROVE LayerInv'
  BY DEF LayerInv
<1>1. /\ \A r, q \in flight : r = q
      /\ Sorted(queue) /\ Narrow(queue) /\ Above(flight, queue) /\ Behind(events, flight, queue)
      /\ \A i, j \in 1..Len(events) : i < j => events[i].page.depth <= events[j].page.depth
  BY DEF LayerInv
<1>2. p \in Pages /\ queue \in Seq(Pages) /\ MaxDepth \in Nat /\ events \in Seq(Event)
  BY CrawlAssumption DEF CrawlTypeInv, TypeOK, Event
<1>3. flight' = {}
  BY <1>1
<1>4. Above({p}, queue)
  BY <1>1 DEF Above
<1>5. Sorted(queue') /\ Narrow(queue') /\ \A i \in 1..Len(queue') : p.depth <= queue'[i].depth
  BY <1>1, <1>2, <1>4, QueueDeeper
<1>6. Above(flight', queue')
  BY <1>3 DEF Above
<1>7. \A i \in 1..Len(events) : events[i].page.depth <= p.depth
  BY <1>1 DEF Behind
<1>8. /\ p.depth \in Nat /\ \A i \in 1..Len(events) : events[i].page.depth \in Nat
      /\ Len(events) \in Nat
      /\ \A i \in 1..Len(queue') : queue'[i].depth \in Nat
  <2>1. \A r \in Pages : r.depth \in Nat
    BY DEF Pages
  <2>2. \A e \in Event : e.page \in Pages
    BY DEF Event
  <2>3. \A i \in 1..Len(events) : events[i] \in Event
    BY <1>2, ElementOfSeq
  <2>4. queue' \in Seq(Pages)
    BY <1>2, ConcatProperties
  <2>5. \A i \in 1..Len(queue') : queue'[i] \in Pages
    BY <2>4, ElementOfSeq
  <2> QED BY <1>2, <2>1, <2>2, <2>3, <2>5, LenProperties
<1>9. \/ events' = events
      \/ /\ Len(events') = Len(events) + 1 /\ events'[Len(events) + 1].page = p
         /\ \A i \in 1..Len(events) : events'[i] = events[i]
  <2>1. CASE events' = Append(events, [page |-> p, kind |-> kind, content |-> content, links |-> links])
    <3> DEFINE e == [page |-> p, kind |-> kind, content |-> content, links |-> links]
    <3>1. e.page = p /\ events' = Append(events, e)
      BY <2>1
    <3> HIDE DEF e
    <3>2. Len(events') = Len(events) + 1 /\ events'[Len(events) + 1] = e
          /\ \A i \in 1..Len(events) : events'[i] = events[i]
      BY <1>2, <1>8, <3>1
    <3> QED BY <3>1, <3>2
  <2> QED BY <2>1 DEF Deliver
<1>10. \A i \in 1..Len(events') : events'[i].page.depth \in Nat /\ events'[i].page.depth <= p.depth
  <2>1. CASE events' = events
    BY <1>7, <1>8, <2>1
  <2>2. CASE /\ Len(events') = Len(events) + 1 /\ events'[Len(events) + 1].page = p
             /\ \A i \in 1..Len(events) : events'[i] = events[i]
    <3>1. \A i \in 1..Len(events') : i \in 1..Len(events) \/ i = Len(events) + 1
      BY <1>8, <2>2
    <3>2. ASSUME NEW i \in 1..Len(events) PROVE events'[i].page.depth \in Nat /\ events'[i].page.depth <= p.depth
      BY <1>7, <1>8, <2>2
    <3>3. events'[Len(events) + 1].page.depth \in Nat /\ events'[Len(events) + 1].page.depth <= p.depth
      BY <1>8, <2>2
    <3> QED BY <3>1, <3>2, <3>3
  <2> QED BY <1>9, <2>1, <2>2
<1>11. Behind(events', flight', queue')
  <2>1. ASSUME NEW i \in 1..Len(events'), NEW j \in 1..Len(queue')
        PROVE  events'[i].page.depth <= queue'[j].depth
    <3>1. p.depth <= queue'[j].depth /\ queue'[j].depth \in Nat
      BY <1>5, <1>8, SMTT(30)
    <3>2. events'[i].page.depth <= p.depth /\ events'[i].page.depth \in Nat
      BY <1>10
    <3> QED BY <1>8, <3>1, <3>2
  <2> QED BY <1>3, <2>1 DEF Behind
<1>12. ASSUME NEW i \in 1..Len(events'), NEW j \in 1..Len(events'), i < j
       PROVE  events'[i].page.depth <= events'[j].page.depth
  <2>1. CASE events' = events
    BY <1>1, <1>12, <2>1
  <2>2. CASE /\ Len(events') = Len(events) + 1 /\ events'[Len(events) + 1].page = p
             /\ \A k \in 1..Len(events) : events'[k] = events[k]
    <3>1. CASE j = Len(events) + 1
      BY <1>10, <2>2, <3>1
    <3>2. CASE j \in 1..Len(events)
      <4>1. i \in 1..Len(events)
        BY <1>8, <1>12, <3>2
      <4> QED BY <1>1, <1>12, <2>2, <3>2, <4>1
    <3> QED BY <1>8, <2>2, <3>1, <3>2
  <2> QED BY <1>9, <2>1, <2>2
<1> QED BY <1>3, <1>5, <1>6, <1>11, <1>12 DEF LayerInv

\* The layers, whatever the crawl does.
LEMMA LayerStep == CrawlTypeInv /\ LayerInv /\ [Next]_vars => LayerInv'
<1> SUFFICES ASSUME CrawlTypeInv, LayerInv, [Next]_vars PROVE LayerInv'
  OBVIOUS
<1>0. queue \in Seq(Pages) /\ flight \subseteq Pages
  BY DEF CrawlTypeInv, TypeOK
<1>a. ASSUME flight' \subseteq flight, UNCHANGED <<plan, queue, events>> PROVE LayerInv'
  <2> SUFFICES ASSUME plan.concurrency <= 1 PROVE LayerInv'
    BY <1>a DEF LayerInv
  <2>1. /\ \A r, q \in flight : r = q
        /\ Sorted(queue) /\ Narrow(queue) /\ Above(flight, queue) /\ Behind(events, flight, queue)
        /\ \A i, j \in 1..Len(events) : i < j => events[i].page.depth <= events[j].page.depth
    BY DEF LayerInv
  <2>2. Above(flight', queue') /\ Behind(events', flight', queue')
    BY <1>a, <2>1 DEF Above, Behind
  <2> QED BY <1>a, <2>1, <2>2 DEF LayerInv
<1>b. ASSUME NEW p \in flight, flight' = flight \ {p}, UNCHANGED <<plan, queue>>,
             NEW kind, NEW content, NEW links, Deliver(p, kind, content, links)
      PROVE  LayerInv'
  <2>1. PICK new \in Seq(Pages) : new = <<>>
    BY EmptySeq
  <2>2. 1..Len(new) = {} /\ queue' = queue \o new
    BY <1>0, <1>b, <2>1, ConcatEmptySeq
  <2> QED BY <1>b, <2>2, JoinLayers
<1>1. CASE Dispatch BY <1>1, DispatchLayers
<1>2. CASE Filled BY <1>2, <1>a DEF Filled
<1>3. CASE JoinStep
  <2> SUFFICES ASSUME NEW p \in flight,
                      \/ JoinError(p) \/ JoinPanic(p) \/ FetchEndsUnheard(p)
                      \/ \E content \in Contents :
                           JoinDuplicate(p, content)
                             \/ \E links \in SUBSET Urls : JoinPage(p, content, links)
               PROVE  LayerInv'
    BY <1>3 DEF JoinStep
  <2>1. CASE JoinError(p) BY <1>b, <2>1 DEF JoinError
  <2>2. CASE JoinPanic(p) BY <1>a, <2>2 DEF JoinPanic
  <2>3. CASE FetchEndsUnheard(p) BY <1>a, <2>3 DEF FetchEndsUnheard
  <2>4. ASSUME NEW content \in Contents, JoinDuplicate(p, content) PROVE LayerInv'
    BY <1>b, <2>4 DEF JoinDuplicate
  <2>5. ASSUME NEW content \in Contents, NEW links \in SUBSET Urls, JoinPage(p, content, links)
        PROVE  LayerInv'
    <3>1. PICK order \in Orders(Fresh(links)) : queue' = queue \o Taken(p, order)
      BY <2>5 DEF JoinPage
    <3>2. PICK new : new = Taken(p, order)
      OBVIOUS
    <3>3. new \in Seq(Pages) /\ \A i \in 1..Len(new) : new[i].depth = p.depth + 1
      BY <1>0, <3>2, TakenNew
    <3>4. Deliver(p, "page", content, links \cap Allowed) /\ flight' = flight \ {p} /\ UNCHANGED plan
      BY <2>5 DEF JoinPage
    <3> QED BY <3>1, <3>2, <3>3, <3>4, JoinLayers
  <2> QED BY <2>1, <2>2, <2>3, <2>4, <2>5
<1>4. CASE Fail BY <1>4, <1>a DEF Fail
<1>5. CASE DropFuture BY <1>5, <1>a DEF DropFuture
<1>6. CASE Finished \/ UNCHANGED vars BY <1>6, <1>a DEF Finished, vars
<1> QED BY <1>1, <1>2, <1>3, <1>4, <1>5, <1>6 DEF Next

\* With one fetch at a time pages are reported layer by layer, whatever they
\* link to and whatever the limit (crawl_concurrency_one_preserves_bfs_order).
THEOREM LayersHold == Spec => []LayersInOrder
<1>1. Init => LayerInv
  <2> SUFFICES ASSUME Init PROVE LayerInv
    OBVIOUS
  <2>1. queue = <<Root>> /\ flight = {} /\ events = <<>> /\ Len(events) = 0
    BY DEF Init
  <2>2. \A i \in 1..Len(queue) : queue[i] = Root
    BY <2>1
  <2>3. 1..Len(events) = {} /\ \A i, j \in 1..Len(queue) : ~(i < j)
    BY <2>1
  <2>4. Root.depth = 0
    BY DEF Root
  <2> QED BY <2>1, <2>2, <2>3, <2>4 DEF LayerInv, Sorted, Narrow, Above, Behind
<1>2. CrawlTypeInv /\ LayerInv => LayersInOrder
  <2> SUFFICES ASSUME CrawlTypeInv, LayerInv PROVE LayersInOrder
    OBVIOUS
  <2>1. DOMAIN events = 1..Len(events)
    BY LenProperties DEF CrawlTypeInv, TypeOK
  <2> QED BY <2>1 DEF LayerInv, LayersInOrder
<1> QED BY <1>1, <1>2, CrawlTyped, LayerStep, PTL DEF Spec
=============================================================================
