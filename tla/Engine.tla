-------------------------------- MODULE Engine --------------------------------
(***************************************************************************)
(* The Servo engine of a process (bridge.rs): a thread that lives as long  *)
(* as the process, a bounded queue into it, and one wake flag that callers *)
(* and Servo signal and whatever waits on the engine thread takes, the     *)
(* nested loops of an extraction included.                                 *)
(*                                                                         *)
(* A caller is a thread or a task with at most one request; its page, if   *)
(* it has one, goes by its name. Servo works in the background: what it    *)
(* has to tell (news) reaches the program only when the engine thread      *)
(* spins the event loop. Of time, a page's completes_at coming (due) and   *)
(* the deadline of the extraction at work (expired) are all that shows.    *)
(***************************************************************************)
EXTENDS Naturals, Sequences, FiniteSets

CONSTANTS
  Callers,
  Capacity,        \* PENDING_CAPACITY
  Agents,          \* user agents
  DefaultAgent     \* the engine's own

ASSUME EngineAssumption ==
  /\ IsFiniteSet(Callers) /\ Capacity \in Nat \ {0} /\ DefaultAgent \in Agents

VARIABLES
  epc,          \* the engine thread; "absent" until ENGINE is initialised
  queue,        \* requests sent, not yet received
  wake,         \* WakeFlag
  page,         \* a caller's PendingFetch, with what Servo has yet to tell
  stage,        \* the step of the extraction at work
  expired,      \* its deadline has passed
  baseline,     \* EngineLoop.baseline_user_agent
  agent,        \* Servo's "user_agent" preference, one for the process
  req, ans      \* the callers' side of their requests, and their reply channels

engine == <<epc, queue, wake, page, stage, expired, baseline, agent>>
calls  == <<req, ans>>

Running == {"drain", "idle", "spin", "harvest", "extract", "sleep"}
Stages  == {"ready", "optional", "html", "mode"}
\* An error: a timeout, a crash, a failed step, or an engine that stopped or never ran.
Answers == {"none", "ok", "error", "full"}
Kinds   == {"init", "fetch", "cookies"}

NoPage == [phase |-> "none", loaded |-> FALSE, crashed |-> FALSE, due |-> FALSE,
           news |-> {}, agent |-> DefaultAgent]

EngineTypeOK ==
  /\ epc \in Running \cup {"absent", "building", "gone"}
  /\ queue \in Seq([by : Callers, kind : Kinds, agent : Agents \cup {"baseline"}])
  /\ Len(queue) <= Capacity /\ wake \in BOOLEAN /\ expired \in BOOLEAN
  /\ page \in [Callers -> [phase : {"none", "pending", "listed", "extracting"},
                loaded : BOOLEAN, crashed : BOOLEAN, due : BOOLEAN,
                news : SUBSET {"load", "crash"}, agent : Agents]]
  /\ stage \in Stages \cup {"none"} /\ baseline \in Agents /\ agent \in Agents
  /\ req \in [Callers -> {"idle", "sent", "waiting", "lost"}] /\ ans \in [Callers -> Answers]

\* No engine: ENGINE is empty, and nobody has asked for it.
EngineInit ==
  /\ epc = "absent" /\ queue = <<>> /\ wake = FALSE
  /\ page = [c \in Callers |-> NoPage] /\ stage = "none" /\ expired = FALSE
  /\ baseline = DefaultAgent /\ agent = DefaultAgent
  /\ req = [c \in Callers |-> "idle"] /\ ans = [c \in Callers |-> "none"]

Pending == {c \in Callers : page[c].phase = "pending"}
Listed  == {c \in Callers : page[c].phase = "listed"}
Current == {c \in Callers : page[c].phase = "extracting"}
Loading == {c \in Callers : page[c].phase # "none"}

-----------------------------------------------------------------------------
(***************************************************************************)
(* The callers' side. The first request brings the engine into being.      *)
(***************************************************************************)
Msg(c, kind, ua) == [by |-> c, kind |-> kind, agent |-> ua]

\* Mutant: the queue has less room than a crawl has tasks.
RoomForOne == queue = <<>>

HasRoom == Len(queue) < Capacity

\* Engine::request: a full queue and an ended engine refuse at once.
Request(c, kind, ua) ==
  /\ req[c] = "idle" /\ ans[c] = "none"
  /\ IF epc = "gone" \/ ~HasRoom
     THEN /\ ans' = [ans EXCEPT ![c] = IF epc = "gone" THEN "error" ELSE "full"]
          /\ UNCHANGED <<epc, queue, req>>
     ELSE /\ queue' = Append(queue, Msg(c, kind, ua))
          /\ req' = [req EXCEPT ![c] = "sent"]
          /\ epc' = IF epc = "absent" THEN "building" ELSE epc
          /\ UNCHANGED ans
  /\ UNCHANGED <<wake, page, stage, expired, baseline, agent>>

\* Engine::request_async waits for room.
RequestAsync(c, kind, ua) == HasRoom /\ Request(c, kind, ua)

Signal(c) ==
  /\ req[c] = "sent"
  /\ wake' = TRUE
  /\ req' = [req EXCEPT ![c] = "waiting"]
  /\ UNCHANGED <<epc, queue, page, stage, expired, baseline, agent, ans>>

\* The call was refused, or its reply (or the closed reply channel) is there.
Returned(c) == req[c] \in {"idle", "waiting"} /\ ans[c] # "none"

Take(c) ==
  /\ req' = [req EXCEPT ![c] = "idle"] /\ ans' = [ans EXCEPT ![c] = "none"]
  /\ UNCHANGED engine

\* The future of an async call is dropped; its page goes on.
Abandon(c) ==
  /\ req[c] = "waiting"
  /\ req' = [req EXCEPT ![c] = "lost"] /\ ans' = [ans EXCEPT ![c] = "none"]
  /\ UNCHANGED engine

-----------------------------------------------------------------------------
(***************************************************************************)
(* Servo in the background, and time.                                      *)
(***************************************************************************)
Tell(c, what) ==
  /\ c \in Loading /\ what \notin page[c].news /\ ~page[c].crashed
  /\ page' = [page EXCEPT ![c].news = @ \cup {what}]
  /\ wake' = TRUE
  /\ UNCHANGED <<epc, queue, stage, expired, baseline, agent, calls>>

Loads(c)   == ~page[c].loaded /\ Tell(c, "load")
Crashes(c) == Tell(c, "crash")

\* completes_at has come: the deadline, or the end of the settle time if loaded.
TimePasses(c) ==
  /\ page[c].phase = "pending" /\ ~page[c].due
  /\ page' = [page EXCEPT ![c].due = TRUE]
  /\ UNCHANGED <<epc, queue, wake, stage, expired, baseline, agent, calls>>

\* The extraction deadline, budget included, has passed.
BudgetPasses ==
  /\ epc = "extract" /\ Current # {} /\ ~expired
  /\ expired' = TRUE
  /\ UNCHANGED <<epc, queue, wake, page, stage, baseline, agent, calls>>

\* spin_event_loop: the delegate's callbacks run, for every page. A crashed page is done,
\* whatever else it was. (The load of the shell that a page with headers begins with is
\* no news: it starts the page's own.)
Deliver(p) ==
  IF p.crashed \/ "crash" \in p.news
  THEN [p EXCEPT !.crashed = TRUE, !.loaded = FALSE, !.due = TRUE, !.news = {}]
  ELSE [p EXCEPT !.loaded = @ \/ "load" \in p.news, !.news = {}]

Delivered == [c \in Callers |-> Deliver(page[c])]

-----------------------------------------------------------------------------
(***************************************************************************)
(* The engine thread.                                                      *)
(***************************************************************************)
Waiting(c) == req[c] \in {"sent", "waiting"}

Reply(who, what) ==
  ans' = [c \in Callers |-> IF c \in who /\ Waiting(c) THEN what ELSE ans[c]]

Build ==
  /\ epc = "building"
  /\ epc' = "drain"
  /\ UNCHANGED <<queue, wake, page, stage, expired, baseline, agent, calls>>

\* The thread ends; what it still owed, in the queue or in its hands, is dropped.
Gone(except) ==
  /\ epc' = "gone"
  /\ queue' = <<>> /\ wake' = FALSE /\ stage' = "none" /\ expired' = FALSE
  /\ page' = [c \in Callers |-> NoPage]
  /\ ans' = [c \in Callers |->
       IF ~Waiting(c) \/ ans[c] # "none" THEN ans[c]
       ELSE IF c \in DOMAIN except THEN except[c] ELSE "error"]
  /\ UNCHANGED <<baseline, agent, req>>

\* Servo could not be built: the first request is told so, cookies as "there are none".
BuildFails ==
  /\ epc = "building" /\ queue # <<>>
  /\ LET m == Head(queue)
     IN  Gone([c \in {m.by} |-> IF m.kind = "cookies" THEN "ok" ELSE "error"])

\* The thread panics.
Panic == epc \in Running /\ Gone(<<>>)

\* accept, for what is answered at once: the session's identity, its cookies, or a
\* page that cannot be opened.
AcceptInit(m, good) ==
  /\ m.kind = "init"
  /\ baseline' = m.agent /\ agent' = m.agent
  /\ Reply({m.by}, IF good THEN "ok" ELSE "error")
  /\ UNCHANGED page

AcceptCookies(m) ==
  /\ m.kind = "cookies"
  /\ Reply({m.by}, "ok")
  /\ UNCHANGED <<page, baseline, agent>>

Resolved(m) == IF m.agent = "baseline" THEN baseline ELSE m.agent

FetchRefused(m) ==
  /\ m.kind = "fetch"
  /\ agent' \in {agent, Resolved(m)}        \* before or after the preference is set
  /\ Reply({m.by}, "error")
  /\ UNCHANGED <<page, baseline>>

StartFetch(m) ==
  /\ m.kind = "fetch"
  /\ agent' = Resolved(m)
  /\ page' = [page EXCEPT ![m.by] =
       [NoPage EXCEPT !.phase = "pending", !.agent = Resolved(m)]]
  /\ UNCHANGED <<baseline, ans>>

Accept ==
  /\ epc \in {"drain", "idle"} /\ queue # <<>>
  /\ epc' = "drain" /\ queue' = Tail(queue)
  /\ LET m == Head(queue)
     IN  \/ \E good \in BOOLEAN : AcceptInit(m, good)
         \/ AcceptCookies(m)
         \/ FetchRefused(m)
         \/ StartFetch(m)
  /\ UNCHANGED <<wake, stage, expired, req>>

\* Nothing queued: with no page either, the thread blocks on the queue alone.
Drained ==
  /\ epc = "drain" /\ queue = <<>>
  /\ epc' = IF Pending = {} THEN "idle" ELSE "spin"
  /\ UNCHANGED <<queue, wake, page, stage, expired, baseline, agent, calls>>

\* One turn of the event loop; the pages that are done are taken out to be answered.
Spin ==
  /\ epc = "spin"
  /\ epc' = "harvest"
  /\ page' = [c \in Callers |->
       LET p == Delivered[c]
       IN  IF p.phase = "pending" /\ p.due THEN [p EXCEPT !.phase = "listed"] ELSE p]
  /\ UNCHANGED <<queue, wake, stage, expired, baseline, agent, calls>>

\* The page is dropped, then its caller answered.
Finish(c, what, table) ==
  /\ page' = [table EXCEPT ![c] = NoPage]
  /\ Reply({c}, what)
  /\ epc' = "harvest" /\ stage' = "none" /\ expired' = FALSE
  /\ UNCHANGED <<queue, baseline, agent, req>>

\* harvest, page by page: what a page is by now decides, not what it was when taken out.
Harvest(c) ==
  /\ epc = "harvest" /\ c \in Listed
  /\ \/ page[c].crashed /\ Finish(c, "error", page) /\ UNCHANGED wake
     \/ ~page[c].crashed /\ ~page[c].loaded /\ Finish(c, "error", page) /\ UNCHANGED wake
     \/ /\ ~page[c].crashed /\ page[c].loaded
        /\ epc' = "extract" /\ stage' = "ready"
        /\ page' = [page EXCEPT ![c].phase = "extracting"]
        /\ UNCHANGED <<queue, wake, expired, baseline, agent, calls>>

\* With pages left, the thread sleeps until the first of them completes or it is woken.
Harvested ==
  /\ epc = "harvest" /\ Listed = {}
  /\ epc' = IF Pending = {} THEN "drain" ELSE "sleep"
  /\ UNCHANGED <<queue, wake, page, stage, expired, baseline, agent, calls>>

\* Mutant: the wait has no timeout.
WakeBySignalOnly ==
  /\ epc = "sleep" /\ wake
  /\ wake' = FALSE /\ epc' = "drain"
  /\ UNCHANGED <<queue, page, stage, expired, baseline, agent, calls>>

WakeUp ==
  /\ epc = "sleep" /\ (wake \/ \E c \in Pending : page[c].due)
  /\ wake' = FALSE /\ epc' = "drain"
  /\ UNCHANGED <<queue, page, stage, expired, baseline, agent, calls>>

-----------------------------------------------------------------------------
(***************************************************************************)
(* The extraction of one page: steps that each spin the event loop until   *)
(* their result is there. Until the first of them reports "complete" the   *)
(* document is not read; text, layout and visibility may be missing, the   *)
(* snapshot may not; last the screenshot or the caller's script, if any.   *)
(***************************************************************************)
NextStage == [ready |-> "optional", optional |-> "html", html |-> "mode"]

\* No result yet: wait, and take whatever signal is there, whomever it was for.
ExtractWaits ==
  /\ epc = "extract" /\ ~expired
  /\ \A c \in Current : ~Delivered[c].crashed
  /\ page' = Delivered /\ wake' = FALSE
  /\ UNCHANGED <<epc, queue, stage, expired, baseline, agent, calls>>

\* The step's result is there; or the deadline is, which ready and optional survive, and
\* so does a screenshot.
ExtractGoesOn ==
  /\ epc = "extract" /\ stage # "mode"
  /\ \A c \in Current : ~Delivered[c].crashed
  /\ stage = "html" => ~expired
  /\ page' = Delivered /\ stage' = NextStage[stage]
  /\ UNCHANGED <<epc, queue, wake, expired, baseline, agent, calls>>

ExtractEnds ==
  /\ epc = "extract" /\ stage = "mode"
  /\ \E c \in Current : ~Delivered[c].crashed /\ Finish(c, "ok", Delivered)
  /\ UNCHANGED wake

\* The page crashed, its script thread is gone (an evaluation or a ping says so), the
\* snapshot or the script failed, or the document's URL is not allowed.
ExtractFails ==
  /\ epc = "extract"
  /\ \E c \in Current : Finish(c, "error", Delivered)
  /\ UNCHANGED wake

ExtractStep == ExtractGoesOn \/ ExtractEnds \/ ExtractFails

EngineStep ==
  \/ Build \/ BuildFails \/ Accept \/ Drained \/ Spin \/ (\E c \in Callers : Harvest(c))
  \/ Harvested \/ WakeUp \/ ExtractStep

ServoStep == \E c \in Callers : Loads(c) \/ Crashes(c)
ClockStep == BudgetPasses \/ \E c \in Callers : TimePasses(c)
=============================================================================
