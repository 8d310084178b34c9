-------------------------------- MODULE Crawl --------------------------------
(***************************************************************************)
(* The crawl of crawl.rs: one coordinator that takes pages off a frontier, *)
(* keeps up to Concurrency fetches running on blocking threads, and        *)
(* handles their outcomes in the order in which they end.                  *)
(*                                                                         *)
(* Nothing is assumed of the site: what a page holds and links to, and     *)
(* whether it loads, is decided when its fetch ends. A URL stands for its  *)
(* normalised form (without fragment), a content for its hash.             *)
(***************************************************************************)
EXTENDS Naturals, Sequences, FiniteSets

CONSTANTS
  Urls, Seed,
  Allowed,           \* same site, network policy, robots.txt, scope globs
  Contents, NoContent,
  MaxDepth,
  Plans              \* the limits and concurrencies callers ask for

ASSUME CrawlAssumption ==
  /\ IsFiniteSet(Urls) /\ Seed \in Urls /\ Allowed \subseteq Urls
  /\ NoContent \notin Contents
  /\ MaxDepth \in Nat /\ Plans \subseteq [limit : Nat, concurrency : Nat]

Pages == [url : Urls, depth : 0..MaxDepth]

VARIABLES
  plan,        \* CrawlPlan
  pc,          \* the coordinator
  queue,       \* Frontier.queue
  visited,     \* Frontier.visited, with the depth at which each URL was found
  hashes,      \* Frontier.content_hashes
  flight,      \* JoinSet of fetch tasks, running or ended
  completed,   \* results counted against the limit
  events       \* what on_event has accepted, in order, with the links in scope

vars == <<plan, pc, queue, visited, hashes, flight, completed, events>>

Kinds == {"page", "error", "suppressed"}

TypeOK ==
  /\ plan \in Plans
  /\ pc \in {"fill", "join", "drain", "done", "failed", "dropped"}
  /\ queue \in Seq(Pages) /\ visited \subseteq Pages /\ flight \subseteq Pages
  /\ hashes \subseteq Contents /\ completed \in Nat
  /\ events \in Seq([page : Pages, kind : Kinds, content : Contents \cup {NoContent},
                     links : SUBSET Urls])

Root == [url |-> Seed, depth |-> 0]

Init ==
  /\ plan \in Plans
  /\ pc = "fill"
  /\ queue = <<Root>> /\ visited = {Root} /\ hashes = {}
  /\ flight = {} /\ completed = 0 /\ events = <<>>

-----------------------------------------------------------------------------
(***************************************************************************)
(* Dispatch: fill the free places from the frontier, each dispatch after a *)
(* tick of the rate limiter (whose wait changes nothing here).             *)
(***************************************************************************)
\* A concurrency of 0 counts as 1.
MayDispatch ==
  /\ Cardinality(flight) < (IF plan.concurrency = 0 THEN 1 ELSE plan.concurrency)
  /\ completed + Cardinality(flight) < plan.limit
  /\ queue # <<>>

\* Mutant: the page found last goes first.
DispatchNewest ==
  /\ pc = "fill" /\ MayDispatch
  /\ flight' = flight \cup {queue[Len(queue)]}
  /\ queue' = SubSeq(queue, 1, Len(queue) - 1)
  /\ UNCHANGED <<plan, pc, visited, hashes, completed, events>>

Dispatch ==
  /\ pc = "fill" /\ MayDispatch
  /\ flight' = flight \cup {Head(queue)}
  /\ queue' = Tail(queue)
  /\ UNCHANGED <<plan, pc, visited, hashes, completed, events>>

\* Mutant: the crawl is complete when the frontier is empty.
FilledByQueue ==
  /\ pc = "fill" /\ ~MayDispatch
  /\ pc' = IF flight = {} /\ queue = <<>> THEN "done" ELSE "join"
  /\ UNCHANGED <<plan, queue, visited, hashes, flight, completed, events>>

\* With nothing in flight there is nothing to join: the crawl is complete.
Filled ==
  /\ pc = "fill" /\ ~MayDispatch
  /\ pc' = IF flight = {} THEN "done" ELSE "join"
  /\ UNCHANGED <<plan, queue, visited, hashes, flight, completed, events>>

-----------------------------------------------------------------------------
(***************************************************************************)
(* The frontier: which links of a page are taken up.                       *)
(***************************************************************************)
Known == {p.url : p \in visited}

\* Mutant: pages found before are taken up again.
FreshOrNot(links) == (links \cap Allowed) \ {Seed}

Fresh(links) == (links \cap Allowed) \ Known

\* Mutant: the page's own fetch is counted, those still in flight are not.
RoomIgnoringFlight(p) ==
  LET used == completed + 1 + Len(queue)
  IN  IF p.depth < MaxDepth /\ used < plan.limit THEN plan.limit - used ELSE 0

\* What the limit leaves once every page reported, in flight or queued counts;
\* the page itself, just ended, is still in flight here.
Room(p) ==
  LET used == completed + Cardinality(flight) + Len(queue)
  IN  IF p.depth < MaxDepth /\ used < plan.limit THEN plan.limit - used ELSE 0

\* The links in document order, as far as there is room.
Orders(S) ==
  {o \in [1..Cardinality(S) -> S] : \A i, j \in DOMAIN o : o[i] = o[j] => i = j}

Taken(p, order) ==
  [i \in 1..(IF Len(order) < Room(p) THEN Len(order) ELSE Room(p)) |->
     [url |-> order[i], depth |-> p.depth + 1]]

-----------------------------------------------------------------------------
(***************************************************************************)
(* A fetch has ended. on_event may refuse the event, which ends the crawl. *)
(***************************************************************************)
Deliver(p, kind, content, links) ==
  \/ /\ events' = Append(events, [page |-> p, kind |-> kind, content |-> content, links |-> links])
     /\ completed' = IF kind = "suppressed" THEN completed ELSE completed + 1
     /\ pc' = "fill"
  \/ /\ pc' = "drain"
     /\ UNCHANGED <<events, completed>>

\* The fetch failed, or its page's final URL or its extraction did.
JoinError(p) ==
  /\ pc = "join" /\ p \in flight
  /\ flight' = flight \ {p}
  /\ Deliver(p, "error", NoContent, {})
  /\ UNCHANGED <<plan, queue, visited, hashes>>

\* The links of a duplicate are not followed.
JoinDuplicate(p, content) ==
  /\ pc = "join" /\ p \in flight /\ content \in hashes
  /\ flight' = flight \ {p}
  /\ Deliver(p, "suppressed", content, {})
  /\ UNCHANGED <<plan, queue, visited, hashes>>

\* Mutant: only the content seen last is remembered.
JoinPageForgetting(p, content, links) ==
  /\ pc = "join" /\ p \in flight /\ content \notin hashes
  /\ flight' = flight \ {p}
  /\ hashes' = {content}
  /\ \E order \in Orders(Fresh(links)) :
       LET new == Taken(p, order)
       IN  queue' = queue \o new /\ visited' = visited \cup {new[i] : i \in DOMAIN new}
  /\ Deliver(p, "page", content, links \cap Allowed)
  /\ UNCHANGED plan

JoinPage(p, content, links) ==
  /\ pc = "join" /\ p \in flight /\ content \notin hashes
  /\ flight' = flight \ {p}
  /\ hashes' = hashes \cup {content}
  /\ \E order \in Orders(Fresh(links)) :
       LET new == Taken(p, order)
       IN  queue' = queue \o new /\ visited' = visited \cup {new[i] : i \in DOMAIN new}
  /\ Deliver(p, "page", content, links \cap Allowed)
  /\ UNCHANGED plan

\* The fetch task panicked.
JoinPanic(p) ==
  /\ pc = "join" /\ p \in flight
  /\ flight' = flight \ {p}
  /\ pc' = "drain"
  /\ UNCHANGED <<plan, queue, visited, hashes, completed, events>>

-----------------------------------------------------------------------------
(***************************************************************************)
(* The ends of the crawl.                                                  *)
(***************************************************************************)

\* A fetch that was started cannot be aborted: JoinSet::shutdown waits for it.
\* A dropped JoinSet waits for nobody; its fetches end on their own.
FetchEndsUnheard(p) ==
  /\ pc \in {"drain", "dropped"} /\ p \in flight
  /\ flight' = flight \ {p}
  /\ UNCHANGED <<plan, pc, queue, visited, hashes, completed, events>>

Fail ==
  /\ pc = "drain" /\ flight = {}
  /\ pc' = "failed"
  /\ UNCHANGED <<plan, queue, visited, hashes, flight, completed, events>>

\* The caller drops the future at one of its awaits: the tick, the join, the
\* drain.
DropFuture ==
  /\ \/ pc = "fill" /\ MayDispatch
     \/ pc \in {"join", "drain"}
  /\ pc' = "dropped"
  /\ UNCHANGED <<plan, queue, visited, hashes, flight, completed, events>>

\* Nothing is left to happen.
Finished ==
  /\ pc \in {"done", "failed", "dropped"} /\ flight = {}
  /\ UNCHANGED vars

JoinStep ==
  \E p \in flight :
    \/ JoinError(p) \/ JoinPanic(p) \/ FetchEndsUnheard(p)
    \/ \E content \in Contents :
         JoinDuplicate(p, content) \/ \E links \in SUBSET Urls : JoinPage(p, content, links)

Next == Dispatch \/ Filled \/ JoinStep \/ Fail \/ DropFuture \/ Finished

\* The coordinator is polled, and every fetch ends (fetch_page has a timeout).
Spec     == Init /\ [][Next]_vars
FairSpec == Spec /\ WF_vars(Dispatch \/ Filled \/ JoinStep \/ Fail)

-----------------------------------------------------------------------------
(***************************************************************************)
(* Safety.                                                                 *)
(***************************************************************************)

\* The pages reported, in flight and queued never exceed the limit: links are
\* taken up only as far as they can still be reported.
BudgetKept ==
  LET room == IF plan.limit = 0 THEN 1 ELSE plan.limit
  IN  completed + Cardinality(flight) + Len(queue) <= room

\* No two pages with the same content are reported, in whatever order
\* concurrent fetches of them end.
ContentOnce ==
  \A i, j \in DOMAIN events :
    events[i].kind = "page" /\ events[j].kind = "page" /\ events[i].content = events[j].content
      => i = j

\* One fetch at a time reports the site layer by layer
\* (test crawl_concurrency_one_preserves_bfs_order).
LayersInOrder ==
  \A i, j \in DOMAIN events : plan.concurrency <= 1 /\ i < j => events[i].page.depth <= events[j].page.depth

\* Test suppressed_page_does_not_consume_result_limit: a crawl that completes
\* below its limit has left out no link that was in scope.
SuppressedCostsNothing ==
  pc = "done" /\ completed < plan.limit =>
    \A i \in DOMAIN events : events[i].page.depth < MaxDepth => Fresh(events[i].links) = {}

(***************************************************************************)
(* Liveness.                                                               *)
(***************************************************************************)

\* Every crawl ends, cycles among the pages notwithstanding, and leaves no
\* fetch behind.
CrawlEnds == <>[](pc \in {"done", "failed", "dropped"} /\ flight = {})

(***************************************************************************)
(* Refinement: the crawl walks the site as SiteWalk promises.              *)
(***************************************************************************)
Answered(kinds) == {events[i].page : i \in {j \in DOMAIN events : events[j].kind \in kinds}}

Walk == INSTANCE SiteWalk WITH
  limit      <- plan.limit,
  found      <- visited,
  reported   <- Answered({"page", "error"}),
  suppressed <- Answered({"suppressed"}),
  over       <- IF pc \in {"fill", "join"} THEN "no"
                ELSE IF pc = "done" THEN "complete" ELSE "aborted"

WalkSpec == Walk!Spec
=============================================================================
