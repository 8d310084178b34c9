------------------------------- MODULE Watchdog -------------------------------
(***************************************************************************)
(* The watchdogs of worker/wire.rs against the time an operation may       *)
(* rightly take: a fetch, or a crawl whose coordinator, request interval   *)
(* and engine thread each make the next event wait for something else.     *)
(*                                                                         *)
(* Time passes in units of five seconds, and only when nothing is due.     *)
(* What a page contains is left out; how long the site takes, and how many *)
(* links it has, is open.  The computation between a page and its event    *)
(* takes no time, and whoever consumes the events is never slow.           *)
(***************************************************************************)
EXTENDS Naturals, FiniteSets

CONSTANTS
  Budgets,      \* operations: [kind, timeout, settle, delay, concurrency, limit]
  Slack,        \* the fifteen seconds of every watchdog
  ExtractionBudget,
  MaxOperationWatchdog

VARIABLES
  budget,     \* the operation at work
  coord,      \* the coordinator of a crawl; for a fetch, the worker that waits for it
  waited,     \* how long the request for robots.txt has taken
  interval,   \* until the ticker's next tick
  slots,      \* fetches: phase, and time since the engine took them on
  harvest,    \* the engine thread: fetches of this round still to be extracted
  left,       \* what the extraction at work may still take
  found,      \* length of the frontier
  counted,    \* completed
  quiet       \* time since the last frame

watchdogVars == <<budget, coord, waited, interval, slots, harvest, left, found, counted, quiet>>

NoBudget == [kind |-> "none", timeout |-> 0, settle |-> 0, delay |-> 0, concurrency |-> 0, limit |-> 0]
Slots == 1..3
FreeSlot == [phase |-> "free", age |-> 0]

In(phase) == {s \in Slots : slots[s].phase = phase}
InFlight == Slots \ In("free")

WatchdogInit ==
  /\ budget = NoBudget /\ coord = "new" /\ waited = 0 /\ interval = 0
  /\ slots = [s \in Slots |-> FreeSlot] /\ harvest = {} /\ left = 0
  /\ found = 0 /\ counted = 0 /\ quiet = 0

Least(a, b) == IF a <= b THEN a ELSE b
Most(a, b) == IF a >= b THEN a ELSE b

\* Timeouts are at least a unit: that one below a second counts as a second does not show.
PageTimeout == budget.timeout

-----------------------------------------------------------------------------
\* fetch_wire_watchdog
FetchWatchdog == Least(budget.timeout + budget.settle + Slack, MaxOperationWatchdog)

\* Mutant: time for the pages, none for robots.txt before them.
ForPagesOnly ==
  Least(budget.timeout + budget.settle
          + budget.delay * Most(Least(budget.concurrency, budget.limit), 1) + Slack,
        MaxOperationWatchdog)

\* crawl_wire_watchdog: robots.txt and a page, and a tick for every place filled before an event.
CrawlWatchdog ==
  Least(2 * budget.timeout + budget.settle
          + budget.delay * Most(Least(budget.concurrency, budget.limit), 1) + Slack,
        MaxOperationWatchdog)

Idle == IF budget.kind = "crawl" THEN CrawlWatchdog ELSE FetchWatchdog

\* How long the limits of an operation let it be silent: robots.txt and the ticks of a crawl, a page,
\* and its extraction.
Dispatches(b) == Most(Least(b.concurrency, b.limit), 1)
BeforePages(b) == IF b.kind = "crawl" THEN b.timeout + b.delay * Dispatches(b) ELSE 0

\* Fifteen seconds are more than an extraction's ten.  The operations are those whose own limits keep
\* below the cap of 24 hours, which ends every longer one on purpose.
ASSUME WatchdogAssumption ==
  /\ Slack \in Nat /\ ExtractionBudget \in Nat /\ ExtractionBudget < Slack
  /\ MaxOperationWatchdog \in Nat
  /\ Budgets \subseteq [kind : {"fetch", "crawl"}, timeout : Nat, settle : Nat, delay : Nat,
                        concurrency : Nat, limit : Nat]
  /\ \A b \in Budgets : BeforePages(b) + b.timeout + ExtractionBudget < MaxOperationWatchdog

-----------------------------------------------------------------------------
StartOperation(b) ==
  /\ coord = "new"
  /\ budget' = b
  /\ found' = IF b.kind = "crawl" THEN 1 ELSE 0
  /\ IF b.kind = "crawl"
       THEN coord' = "robots" /\ UNCHANGED slots
       ELSE coord' = "join" /\ slots' = [slots EXCEPT ![1].phase = "sent"]
  /\ UNCHANGED <<waited, interval, harvest, left, counted, quiet>>

\* robots::fetch, within the timeout of a page.
RobotsEnd ==
  /\ coord = "robots"
  /\ coord' = "fill"
  /\ UNCHANGED <<budget, waited, interval, slots, harvest, left, found, counted, quiet>>

\* A place is free, the limit leaves room, and the frontier has a page.
MayFill ==
  /\ Cardinality(InFlight) < Most(budget.concurrency, 1)
  /\ counted + Cardinality(InFlight) < budget.limit
  /\ found > 0

\* One more fetch after a tick; MissedTickBehavior::Delay counts the next one from here.
FillSlot ==
  /\ coord = "fill" /\ MayFill /\ interval = 0
  /\ \E s \in In("free") :
       /\ \A t \in In("free") : s <= t
       /\ slots' = [slots EXCEPT ![s].phase = "sent"]
  /\ found' = found - 1
  /\ interval' = budget.delay
  /\ UNCHANGED <<budget, coord, waited, harvest, left, counted, quiet>>

AllFilled ==
  /\ coord = "fill" /\ ~MayFill
  /\ coord' = IF InFlight = {} THEN "done" ELSE "join"
  /\ UNCHANGED <<budget, waited, interval, slots, harvest, left, found, counted, quiet>>

\* An outcome is joined and its event sent; the page may have brought links, or be a duplicate.
JoinNext(s, links, counts) ==
  /\ coord = "join" /\ slots[s].phase = "ended"
  /\ slots' = [slots EXCEPT ![s] = FreeSlot]
  /\ quiet' = 0
  /\ IF budget.kind = "crawl"
       THEN /\ coord' = "fill"
            /\ counted' = counted + counts
            /\ found' = found + links
       ELSE coord' = "done" /\ UNCHANGED <<counted, found>>
  /\ UNCHANGED <<budget, waited, interval, harvest, left>>

-----------------------------------------------------------------------------
(***************************************************************************)
(* The engine thread takes requests on between its rounds, and in a round  *)
(* extracts one page after the other.                                      *)
(***************************************************************************)
TakeOn(s) ==
  /\ slots[s].phase = "sent" /\ harvest = {}
  /\ slots' = [slots EXCEPT ![s] = [phase |-> "loading", age |-> 0]]
  /\ UNCHANGED <<budget, coord, waited, interval, harvest, left, found, counted, quiet>>

\* The page has loaded and settled; a nested loop learns of it as well.
Load(s) ==
  /\ slots[s].phase = "loading"
  /\ slots' = [slots EXCEPT ![s].phase = "loaded"]
  /\ UNCHANGED <<budget, coord, waited, interval, harvest, left, found, counted, quiet>>

\* is_done: loaded, or past its deadline.
DonePages == In("loaded") \cup {s \in In("loading") : slots[s].age >= PageTimeout}

StartRound ==
  /\ harvest = {} /\ In("sent") = {} /\ DonePages # {}
  /\ harvest' = DonePages
  /\ UNCHANGED <<budget, coord, waited, interval, slots, left, found, counted, quiet>>

Extracting == In("extracting")

\* extraction_deadline_for; a page that has not loaded times out at once.
Extract(s) ==
  /\ s \in harvest /\ Extracting = {}
  /\ IF slots[s].phase = "loaded"
       THEN /\ slots' = [slots EXCEPT ![s].phase = "extracting"]
            /\ left' = IF slots[s].age < PageTimeout
                         THEN Most(PageTimeout - slots[s].age, ExtractionBudget) ELSE ExtractionBudget
            /\ UNCHANGED harvest
       ELSE /\ slots' = [slots EXCEPT ![s].phase = "ended"]
            /\ harvest' = harvest \ {s}
            /\ UNCHANGED left
  /\ UNCHANGED <<budget, coord, waited, interval, found, counted, quiet>>

Reply(s) ==
  /\ slots[s].phase = "extracting"
  /\ slots' = [slots EXCEPT ![s].phase = "ended"]
  /\ harvest' = harvest \ {s}
  /\ left' = 0
  /\ UNCHANGED <<budget, coord, waited, interval, found, counted, quiet>>

-----------------------------------------------------------------------------
\* What the program does at once, and what it waits for no longer.
DueNow ==
  \/ coord = "robots" /\ waited >= PageTimeout
  \/ coord = "fill" /\ (MayFill => interval = 0)
  \/ coord = "join" /\ In("ended") # {}
  \/ harvest = {} /\ (In("sent") # {} \/ DonePages # {})
  \/ harvest # {} /\ (Extracting = {} \/ left = 0)

WatchdogTick ==
  /\ coord \notin {"new", "done"} /\ ~DueNow
  /\ waited' = IF coord = "robots" THEN waited + 1 ELSE waited
  /\ interval' = IF interval > 0 THEN interval - 1 ELSE 0
  /\ slots' = [s \in Slots |-> IF slots[s].phase \in {"loading", "loaded"} /\ slots[s].age < PageTimeout
                                 THEN [slots[s] EXCEPT !.age = @ + 1] ELSE slots[s]]
  /\ left' = IF left > 0 THEN left - 1 ELSE 0
  /\ quiet' = quiet + 1
  /\ UNCHANGED <<budget, coord, harvest, found, counted>>

WatchdogNext ==
  \/ \E b \in Budgets : StartOperation(b)
  \/ RobotsEnd \/ FillSlot \/ AllFilled
  \/ \E s \in Slots, links \in 0..2, counts \in 0..1 :
       (budget.kind = "crawl" => found + links <= 3 /\ (counts = 0 => links = 0)) /\ JoinNext(s, links, counts)
  \/ \E s \in Slots : TakeOn(s) \/ Load(s) \/ Extract(s) \/ Reply(s)
  \/ StartRound
  \/ WatchdogTick

WatchdogDone == coord = "done"

-----------------------------------------------------------------------------
(***************************************************************************)
(* Properties                                                              *)
(***************************************************************************)
\* The inactivity watchdog never ends an operation in which everything keeps to its own limit:
\* not while robots.txt is awaited, while free places wait for their ticks and nothing is joined,
\* or while a finished page waits for the extraction of another.
IdleCoversPages == quiet > 0 => quiet < Idle
=============================================================================
