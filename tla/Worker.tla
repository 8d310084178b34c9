-------------------------------- MODULE Worker --------------------------------
(***************************************************************************)
(* The process around an engine. In a worker process (worker/protocol.rs)  *)
(* one thread reads the session's requests, one at a time, and a crawl's   *)
(* tasks fetch beside each other on its behalf; with the library in        *)
(* process (lib.rs, fetch.rs) any thread fetches when it likes.            *)
(*                                                                         *)
(* How a crawl chooses its pages is the subject of Crawl; here it is tasks *)
(* that fetch, up to the wire's concurrency.                               *)
(***************************************************************************)
EXTENDS Engine

CONSTANTS
  Main,             \* the worker's protocol thread, a caller; all others are crawl tasks
  SessionAgent,     \* the user agent the session is to have
  MaxConcurrency,   \* MAX_WIRE_CRAWL_CONCURRENCY
  MaxRequests,      \* bound: requests the worker reads
  MaxCalls,         \* bound: calls of the library
  MaxPages          \* bound: fetches of one crawl

ASSUME WorkerAssumption ==
  /\ Main \in Callers /\ SessionAgent \in Agents
  /\ MaxConcurrency \in 1..Capacity   \* both are 64, and the code nowhere says why
  /\ MaxRequests \in Nat /\ MaxCalls \in Nat /\ MaxPages \in Nat

Tasks == Callers \ {Main}

VARIABLES
  mode,         \* "worker" or "library", for ever
  mpc,          \* run_worker, in its worker's main thread
  wstate,       \* WorkerState
  configured,   \* ENGINE_CONFIG is set
  crawl,        \* the crawl at work: how many at a time, how many fetches left
  count         \* requests read so far

protocol == <<mode, mpc, wstate, configured, crawl, count>>
vars     == <<engine, calls, protocol>>

NoCrawl == [conc |-> 0, left |-> 0]

TypeOK ==
  /\ EngineTypeOK
  /\ mode \in {"worker", "library"}
  /\ mpc \in {"read", "init", "fetch", "cookies", "crawl", "drain", "exited"}
  /\ wstate \in {"awaiting", "ready", "failed"} /\ configured \in BOOLEAN
  /\ crawl \in [conc : 0..MaxConcurrency, left : 0..MaxPages] /\ count \in Nat

Init ==
  /\ EngineInit
  /\ mode \in {"worker", "library"}
  /\ mpc = "read" /\ wstate = "awaiting" /\ configured = FALSE
  /\ crawl = NoCrawl /\ count = 0

-----------------------------------------------------------------------------
(***************************************************************************)
(* The protocol thread.                                                    *)
(***************************************************************************)
\* A request has been read from stdin.
Reads == mode = "worker" /\ mpc = "read" /\ count < MaxRequests

\* Answered without a step of the engine: refused by the state or by validation.
Refuse ==
  /\ Reads
  /\ UNCHANGED vars

\* handle_worker_initialize, valid: from here on no other initialisation is accepted;
\* configure refuses what comes after the engine or a configuration.
Initialize ==
  /\ Reads /\ wstate = "awaiting" /\ count' = count + 1 /\ wstate' = "failed"
  /\ IF configured \/ epc # "absent"
     THEN UNCHANGED <<engine, calls, mode, mpc, configured, crawl>>
     ELSE /\ configured' = TRUE /\ mpc' = "init"
          /\ Request(Main, "init", SessionAgent)
          /\ UNCHANGED <<mode, crawl>>

Initialized ==
  /\ mpc = "init" /\ Returned(Main) /\ Take(Main)
  /\ wstate' = IF ans[Main] = "ok" THEN "ready" ELSE "failed"
  /\ mpc' = "read"
  /\ UNCHANGED <<mode, configured, crawl, count>>

\* Mutant: only a failed session is refused.
ReadyUnlessFailed == wstate # "failed"

Ready == wstate = "ready"

\* A fetch or a question about cookies, valid: one request of the engine. A fetch on the
\* wire has no user agent of its own.
Ask(kind) ==
  /\ Reads /\ Ready /\ count' = count + 1
  /\ mpc' = kind
  /\ Request(Main, kind, "baseline")
  /\ UNCHANGED <<mode, wstate, configured, crawl>>

\* The result, in as many frames as it takes, or the error is written.
Asked ==
  /\ mpc \in {"fetch", "cookies"} /\ Returned(Main) /\ Take(Main)
  /\ mpc' = "read"
  /\ UNCHANGED <<mode, wstate, configured, crawl, count>>

ConcurrencyAllowed(n) == n \in 1..MaxConcurrency

\* (A crawl with fewer tasks is one whose tasks come later.)
StartCrawl(n) ==
  /\ Reads /\ Ready /\ ConcurrencyAllowed(n) /\ count' = count + 1
  /\ mpc' = "crawl" /\ crawl' = [conc |-> n, left |-> MaxPages]
  /\ UNCHANGED <<engine, calls, mode, wstate, configured>>

Busy == {t \in Tasks : req[t] # "idle" \/ ans[t] # "none"}

\* spawn_fetch.
CrawlFetch(t) ==
  /\ mpc = "crawl" /\ t \in Tasks \ Busy
  /\ Cardinality(Busy) < crawl.conc /\ crawl.left > 0
  /\ Request(t, "fetch", "baseline")
  /\ crawl' = [crawl EXCEPT !.left = @ - 1]
  /\ UNCHANGED <<mode, mpc, wstate, configured, count>>

\* The event is written; where it cannot be, too large for a frame, the crawl fails.
CrawlJoin(t) ==
  /\ mpc \in {"crawl", "drain"} /\ t \in Tasks /\ Returned(t) /\ Take(t)
  /\ mpc' \in {mpc, "drain"}
  /\ UNCHANGED <<mode, wstate, configured, crawl, count>>

\* Mutant: the terminal frame is written when the crawl fails, its fetches running on.
CrawlEndsUndrained ==
  /\ mpc \in {"crawl", "drain"} /\ (mpc = "drain" \/ Busy = {})
  /\ mpc' = "read" /\ crawl' = NoCrawl
  /\ UNCHANGED <<engine, calls, mode, wstate, configured, count>>

\* Complete, the frontier empty or not; or failed and drained.
CrawlEnds ==
  /\ mpc \in {"crawl", "drain"} /\ Busy = {}
  /\ mpc' = "read" /\ crawl' = NoCrawl
  /\ UNCHANGED <<engine, calls, mode, wstate, configured, count>>

\* The process ends and all there is in it: on Shutdown, at end of input, on a frame that
\* is none, when a response cannot be written; and, the lifeline closed, at any moment.
Exit ==
  /\ mode = "worker" /\ mpc # "exited"
  /\ mpc' = "exited" /\ crawl' = NoCrawl
  /\ epc' = "gone" /\ queue' = <<>> /\ wake' = FALSE /\ stage' = "none" /\ expired' = FALSE
  /\ page' = [c \in Callers |-> NoPage]
  /\ req' = [c \in Callers |-> "idle"] /\ ans' = [c \in Callers |-> "none"]
  /\ UNCHANGED <<mode, wstate, configured, count, baseline, agent>>

-----------------------------------------------------------------------------
(***************************************************************************)
(* The library in process.                                                 *)
(***************************************************************************)
\* One thread leaves the user agent alone, the others ask for one.
LibraryFetch(c) ==
  /\ mode = "library" /\ count < MaxCalls /\ count' = count + 1
  /\ LET ua == IF c = Main THEN "baseline" ELSE SessionAgent
     IN  Request(c, "fetch", ua) \/ RequestAsync(c, "fetch", ua)
  /\ UNCHANGED <<mode, mpc, wstate, configured, crawl>>

LibraryReturns(c) ==
  /\ mode = "library" /\ Returned(c) /\ Take(c) /\ UNCHANGED protocol

LibraryDrops(c) == mode = "library" /\ Abandon(c) /\ UNCHANGED protocol

-----------------------------------------------------------------------------
\* What the protocol thread and its tasks do once there is something to do.
ProtocolStep ==
  \/ Initialized \/ Asked \/ CrawlEnds
  \/ \E t \in Tasks : CrawlFetch(t) \/ CrawlJoin(t)

ParentStep ==
  \/ Refuse \/ Initialize \/ Ask("fetch") \/ Ask("cookies")
  \/ \E n \in MaxConcurrency..(MaxConcurrency + 1) : StartCrawl(n)

CallStep(c) == (Signal(c) /\ UNCHANGED protocol) \/ LibraryReturns(c)

Finished ==
  /\ mpc = "exited" \/ count = MaxRequests \/ mode = "library"
  /\ mpc \in {"read", "exited"} /\ \A c \in Callers : req[c] \in {"idle", "lost"} /\ ans[c] = "none"
  /\ UNCHANGED vars

Alive == mpc # "exited"

Next ==
  \/ ParentStep \/ ProtocolStep \/ Exit
  \/ \E c \in Callers : CallStep(c) \/ LibraryDrops(c) \/ LibraryFetch(c)
  \/ Alive /\ (EngineStep \/ ExtractWaits \/ Panic \/ ServoStep \/ ClockStep) /\ UNCHANGED protocol
  \/ Finished

\* Threads are scheduled and time passes; pages need not load, nor Servo answer.
Fairness ==
  /\ WF_vars(ProtocolStep)
  /\ \A c \in Callers : WF_vars(CallStep(c))
  /\ WF_vars(EngineStep /\ UNCHANGED protocol)
  /\ WF_vars(ClockStep /\ UNCHANGED protocol)

Spec     == Init /\ [][Next]_vars
FairSpec == Spec /\ Fairness

-----------------------------------------------------------------------------
(***************************************************************************)
(* Properties.                                                             *)
(***************************************************************************)

\* In a worker, whatever arrives in whatever order and whatever fails: no page is ever
\* open in an engine other than the session's, configured once before it was built, and
\* with every page open the process-wide user agent is the session's.
PagesUnderSession ==
  mode = "worker" /\ Loading # {} =>
    configured /\ wstate = "ready" /\ agent = SessionAgent /\ \A c \in Loading : page[c].agent = SessionAgent

\* In a worker the engine's queue never turns a request away: the wire's bound on a
\* crawl's concurrency, and a crawl that returns only when its fetches have, see to it.
QueueNeverFull == mode = "worker" => \A c \in Callers : ans[c] # "full"

\* While the protocol thread reads, nothing runs behind its back.
IdleBetweenRequests ==
  mode = "worker" /\ mpc = "read" => queue = <<>> /\ Loading = {} /\ Busy = {}

\* Every call of the engine returns and every request of the worker is answered, though
\* the signal for it may be taken by an extraction, pages may hang or crash, and the
\* engine may fail to start or panic.
EngineAnswers ==
  []<>(mpc \in {"read", "exited"} /\ \A c \in Callers : req[c] \in {"idle", "lost"} /\ ans[c] = "none")
=============================================================================
