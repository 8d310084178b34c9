---------------------------- MODULE WorkerProofs ----------------------------
(***************************************************************************)
(* Theorems about Worker, the engine included, for any callers, any        *)
(* capacity of the engine's queue and any concurrency of a crawl that the  *)
(* queue has room for.                                                     *)
(***************************************************************************)
EXTENDS Worker, FiniteSetTheorems, SequenceTheorems, TLAPS

Messages == [by : Callers, kind : Kinds, agent : Agents \cup {"baseline"}]

Pages == [phase : {"none", "pending", "listed", "extracting"},
          loaded : BOOLEAN, crashed : BOOLEAN, due : BOOLEAN,
          news : SUBSET {"load", "crash"}, agent : Agents]

\* A session's identity names its user agent, and an extraction is at one of its steps.
TypeInv ==
  /\ TypeOK
  /\ \A i \in 1..Len(queue) : queue[i].kind = "init" => queue[i].agent \in Agents
  /\ epc = "extract" => stage \in Stages

Idle(c) == req[c] = "idle" /\ ans[c] = "none"

Unanswered(c) == req[c] \in {"sent", "waiting"} /\ ans[c] = "none"

\* A request is in one place: in the queue, at work as a page, or answered.
PlaceInv ==
  /\ \A i \in 1..Len(queue) : Unanswered(queue[i].by) /\ page[queue[i].by].phase = "none"
  /\ \A i, j \in 1..Len(queue) : queue[i].by = queue[j].by => i = j
  /\ \A c \in Loading : Unanswered(c)
  /\ \A c \in Callers : req[c] # "lost" /\ ans[c] # "full"

\* Who has a request under way, by where the protocol thread is.
AtWorkInv ==
  /\ mpc \in {"read", "exited"} => \A c \in Callers : Idle(c)
  /\ mpc \in {"init", "fetch", "cookies"} => \A c \in Tasks : Idle(c)
  /\ mpc \in {"crawl", "drain"} => Idle(Main)

\* What the session's state says of the engine and of what is under way: before the session is
\* initialised nothing is, while it is only that is, and then all of it has the session's agent.
SessionInv ==
  /\ wstate = "awaiting" =>
       mpc \in {"read", "exited"} /\ ~configured /\ epc \in {"absent", "gone"}
  /\ mpc = "init" => wstate = "failed" /\ configured
  /\ mpc \in {"fetch", "cookies", "crawl", "drain"} => wstate = "ready"
  /\ wstate = "ready" => configured
  /\ wstate = "ready" \/ (mpc = "init" /\ ans[Main] = "ok") =>
       baseline = SessionAgent /\ agent = SessionAgent
  /\ \A i \in 1..Len(queue) :
       \/ mpc = "init" /\ queue[i].kind = "init" /\ queue[i].agent = SessionAgent
       \/ wstate = "ready" /\ queue[i].kind \in {"fetch", "cookies"} /\ queue[i].agent = "baseline"
  /\ \A c \in Loading : wstate = "ready" /\ page[c].agent = SessionAgent

ProtocolInv == PlaceInv /\ AtWorkInv /\ SessionInv

WorkerInv == TypeInv /\ (mode = "worker" => ProtocolInv)

-----------------------------------------------------------------------------
(***************************************************************************)
(* Helpers of the model.                                                   *)
(***************************************************************************)

\* The head of the queue is a message, and the others move up.
LEMMA HeadTaken ==
  ASSUME NEW w \in Seq(Messages), w # <<>>
  PROVE  /\ Len(w) \in Nat \ {0} /\ Head(w) = w[1] /\ Head(w) \in Messages
         /\ Tail(w) \in Seq(Messages) /\ Len(Tail(w)) = Len(w) - 1
         /\ \A i \in 1..Len(Tail(w)) : Tail(w)[i] = w[i + 1] /\ i + 1 \in 1..Len(w)
<1>1. Len(w) \in Nat \ {0}
  BY EmptySeq
<1>2. /\ Tail(w) \in Seq(Messages) /\ Len(Tail(w)) = Len(w) - 1
      /\ \A i \in 1..Len(Tail(w)) : Tail(w)[i] = w[i + 1]
      /\ Head(w) \in Messages
  BY HeadTailProperties
<1>3. Head(w) = w[1]
  OBVIOUS
<1>4. \A i \in 1..Len(Tail(w)) : i + 1 \in 1..Len(w)
  BY <1>1, <1>2
<1> QED BY <1>1, <1>2, <1>3, <1>4

\* What Servo tells changes neither the place of a page nor its user agent.
LEMMA DeliverKeeps ==
  ASSUME page \in [Callers -> Pages]
  PROVE  \A c \in Callers : /\ Delivered[c] \in Pages
                            /\ Delivered[c].phase = page[c].phase
                            /\ Delivered[c].agent = page[c].agent
<1>1. ASSUME NEW p \in Pages
      PROVE  Deliver(p) \in Pages /\ Deliver(p).phase = p.phase /\ Deliver(p).agent = p.agent
  <2>1. CASE p.crashed \/ "crash" \in p.news
    BY <2>1 DEF Deliver, Pages
  <2>2. CASE ~(p.crashed \/ "crash" \in p.news)
    BY <2>2 DEF Deliver, Pages
  <2> QED BY <2>1, <2>2
<1> QED BY <1>1 DEF Delivered

\* No page is a page without one.
LEMMA NoPageIsPage == NoPage \in Pages /\ NoPage.phase = "none"
BY EngineAssumption DEF NoPage, Pages

-----------------------------------------------------------------------------
(***************************************************************************)
(* Types.                                                                  *)
(***************************************************************************)

\* The callers' side of the engine keeps the types, whoever asks for what.
LEMMA RequestTypes ==
  ASSUME TypeInv, NEW c \in Callers, NEW kind \in Kinds, NEW ua \in Agents \cup {"baseline"},
         Request(c, kind, ua), kind = "init" => ua \in Agents
  PROVE  /\ EngineTypeOK'
         /\ \A i \in 1..Len(queue') : queue'[i].kind = "init" => queue'[i].agent \in Agents
         /\ epc' = "extract" => stage' \in Stages
<1> USE DEF engine, calls
<1>1. EngineTypeOK /\ queue \in Seq(Messages) /\ Len(queue) \in Nat /\ Capacity \in Nat
  BY EngineAssumption, LenProperties DEF TypeInv, TypeOK, EngineTypeOK, Messages
<1>2. CASE epc = "gone" \/ ~HasRoom
  BY <1>1, <1>2 DEF Request, EngineTypeOK, TypeInv, Answers
<1>3. CASE ~(epc = "gone" \/ ~HasRoom)
  <2> DEFINE m == Msg(c, kind, ua)
             v == Append(queue, m)
  <2>1. m \in Messages /\ m.kind = kind /\ m.agent = ua
    BY DEF Msg, Messages
  <2> HIDE DEF m
  <2>2. /\ v \in Seq(Messages) /\ Len(v) = Len(queue) + 1
        /\ \A i \in 1..Len(queue) : v[i] = queue[i]
        /\ v[Len(queue) + 1] = m
    BY <1>1, <2>1, AppendProperties
  <2> HIDE DEF v
  <2>3. queue' = v /\ Len(queue) < Capacity
    BY <1>3 DEF Request, HasRoom, v, m
  <2>4. \A i \in 1..Len(v) : v[i].kind = "init" => v[i].agent \in Agents
    BY <1>1, <2>1, <2>2 DEF TypeInv
  <2>5. EngineTypeOK'
    <3>1. queue' \in Seq(Messages) /\ Len(queue') <= Capacity
      BY <1>1, <2>2, <2>3
    <3>2. /\ req' = [req EXCEPT ![c] = "sent"]
          /\ epc' = IF epc = "absent" THEN "building" ELSE epc
          /\ UNCHANGED <<ans, wake, page, stage, expired, baseline, agent>>
      BY <1>3 DEF Request
    <3> QED BY <1>1, <3>1, <3>2 DEF EngineTypeOK, Messages
  <2>6. epc' = "extract" => stage' \in Stages
    BY <1>3 DEF Request, TypeInv
  <2> QED BY <2>3, <2>4, <2>5, <2>6
<1> QED BY <1>2, <1>3

\* An ended engine owes nothing.
LEMMA GoneTypes ==
  ASSUME EngineTypeOK, NEW e, Gone(e), \A c \in DOMAIN e : e[c] \in Answers
  PROVE  EngineTypeOK'
<1>1. queue' = <<>> /\ queue' \in Seq(Messages) /\ Len(queue') = 0 /\ Capacity \in Nat
  BY EmptySeq, EngineAssumption DEF Gone
<1>2. page' \in [Callers -> Pages]
  BY NoPageIsPage DEF Gone
<1>3. ans' \in [Callers -> Answers]
  BY DEF Gone, EngineTypeOK, Answers
<1>4. /\ epc' = "gone" /\ wake' = FALSE /\ stage' = "none" /\ expired' = FALSE
      /\ UNCHANGED <<baseline, agent, req>>
  BY DEF Gone
<1>5. queue' \in Seq(Messages) /\ Len(queue') <= Capacity
  BY <1>1
<1> QED BY <1>2, <1>3, <1>4, <1>5 DEF EngineTypeOK, Messages, Pages

\* A page that is done leaves the table and its caller has an answer.
LEMMA FinishTypes ==
  ASSUME EngineTypeOK, NEW c \in Callers, NEW what \in Answers,
         Finish(c, what, page) \/ Finish(c, what, Delivered), UNCHANGED wake
  PROVE  EngineTypeOK'
<1>1. page \in [Callers -> Pages]
  BY DEF EngineTypeOK, Pages
<1>2. Delivered \in [Callers -> Pages]
  <2>1. \A d \in Callers : Delivered[d] \in Pages
    BY <1>1, DeliverKeeps
  <2> QED BY <2>1 DEF Delivered
<1>3. page' \in [Callers -> Pages]
  BY <1>1, <1>2, NoPageIsPage DEF Finish
<1>4. ans' \in [Callers -> Answers]
  BY DEF Finish, Reply, EngineTypeOK
<1> QED BY <1>3, <1>4 DEF Finish, EngineTypeOK, Running, Pages

\* Whatever the engine's thread, Servo and the clock do keeps the types.
LEMMA EngineTypeStep ==
  ASSUME TypeInv, EngineStep \/ ExtractWaits \/ Panic \/ ServoStep \/ ClockStep
  PROVE  /\ EngineTypeOK'
         /\ \A i \in 1..Len(queue') : queue'[i].kind = "init" => queue'[i].agent \in Agents
         /\ epc' = "extract" => stage' \in Stages
<1> USE DEF calls
<1>1. /\ EngineTypeOK /\ queue \in Seq(Messages) /\ Len(queue) \in Nat
      /\ \A i \in 1..Len(queue) : queue[i].kind = "init" => queue[i].agent \in Agents
      /\ page \in [Callers -> Pages]
      /\ epc = "extract" => stage \in Stages
  BY LenProperties DEF TypeInv, TypeOK, EngineTypeOK, Messages, Pages
<1>2. ASSUME EngineTypeOK', queue' = queue \/ queue' = <<>>,
             epc' = "extract" => stage' \in Stages
      PROVE  /\ EngineTypeOK'
             /\ \A i \in 1..Len(queue') : queue'[i].kind = "init" => queue'[i].agent \in Agents
             /\ epc' = "extract" => stage' \in Stages
  <2>1. Len(<<>>) = 0
    BY EmptySeq
  <2> QED BY <1>1, <1>2, <2>1
<1>3. Delivered \in [Callers -> Pages]
  <2>1. \A d \in Callers : Delivered[d] \in Pages
    BY <1>1, DeliverKeeps
  <2> QED BY <2>1 DEF Delivered
<1>4. CASE Build \/ Drained \/ Harvested \/ WakeUp \/ BudgetPasses
  BY <1>1, <1>2, <1>4 DEF Build, Drained, Harvested, WakeUp, BudgetPasses, EngineTypeOK, Running
<1>5. CASE BuildFails
  <2> DEFINE m == Head(queue)
             e == [c \in {m.by} |-> IF m.kind = "cookies" THEN "ok" ELSE "error"]
  <2>1. Gone(e) /\ \A c \in DOMAIN e : e[c] \in Answers
    BY <1>5 DEF BuildFails, Answers
  <2> HIDE DEF e
  <2> QED BY <1>1, <1>2, <2>1, GoneTypes DEF Gone
<1>6. CASE Panic
  <2>1. Gone(<<>>) /\ \A c \in DOMAIN <<>> : <<>>[c] \in Answers
    BY <1>6 DEF Panic
  <2> QED BY <1>1, <1>2, <2>1, GoneTypes DEF Gone
<1>7. CASE Accept
  <2> DEFINE m == Head(queue)
  <2>1. /\ queue' = Tail(queue) /\ epc' = "drain" /\ UNCHANGED <<wake, stage, expired, req>>
        /\ \/ \E good \in BOOLEAN : AcceptInit(m, good)
           \/ AcceptCookies(m) \/ FetchRefused(m) \/ StartFetch(m)
        /\ queue # <<>>
    BY <1>7 DEF Accept
  <2>2. /\ m \in Messages /\ m = queue[1] /\ Len(queue) \in Nat \ {0}
        /\ queue' \in Seq(Messages) /\ Len(queue') = Len(queue) - 1
        /\ \A i \in 1..Len(queue') : queue'[i] = queue[i + 1] /\ i + 1 \in 1..Len(queue)
    BY <1>1, <2>1, HeadTaken
  <2> HIDE DEF m
  <2>3. m.by \in Callers /\ (m.agent = "baseline" \/ m.agent \in Agents)
        /\ (m.kind = "init" => m.agent \in Agents)
    BY <1>1, <2>2 DEF Messages
  <2>4. ans' \in [Callers -> Answers]
    BY <1>1, <2>1 DEF AcceptInit, AcceptCookies, FetchRefused, StartFetch, Reply, EngineTypeOK,
                      Answers
  <2>5. baseline' \in Agents /\ agent' \in Agents
    BY <1>1, <2>1, <2>3 DEF AcceptInit, AcceptCookies, FetchRefused, StartFetch, EngineTypeOK,
                            Resolved
  <2>6. page' \in [Callers -> Pages]
    <3>1. CASE StartFetch(m)
      <4> DEFINE p == [NoPage EXCEPT !.phase = "pending", !.agent = Resolved(m)]
      <4>1. p \in Pages
        BY <1>1, <2>3, NoPageIsPage DEF Pages, Resolved, EngineTypeOK
      <4> HIDE DEF p
      <4>2. page' = [page EXCEPT ![m.by] = p]
        BY <3>1 DEF StartFetch, p
      <4> QED BY <1>1, <4>1, <4>2
    <3>2. CASE ~StartFetch(m)
      BY <1>1, <2>1, <3>2 DEF AcceptInit, AcceptCookies, FetchRefused
    <3> QED BY <3>1, <3>2
  <2>7. Len(queue') <= Capacity
    BY <1>1, <2>2, EngineAssumption DEF EngineTypeOK
  <2>8. EngineTypeOK' /\ epc' # "extract"
    BY <1>1, <2>1, <2>2, <2>4, <2>5, <2>6, <2>7 DEF EngineTypeOK, Running, Pages, Messages
  <2> QED BY <1>1, <2>2, <2>8
<1>8. CASE Spin
  <2>1. page' \in [Callers -> Pages]
    <3>1. \A c \in Callers : [Delivered[c] EXCEPT !.phase = "listed"] \in Pages
      BY <1>3 DEF Pages
    <3> QED BY <1>3, <1>8, <3>1 DEF Spin
  <2> QED BY <1>1, <1>2, <1>8, <2>1 DEF Spin, EngineTypeOK, Running, Pages
<1>9. ASSUME NEW c \in Callers, Harvest(c)
      PROVE  EngineTypeOK' /\ queue' = queue /\ (epc' = "extract" => stage' \in Stages)
  <2>1. CASE Finish(c, "error", page) /\ UNCHANGED wake
    BY <1>1, <2>1, FinishTypes DEF Finish, Answers
  <2>2. CASE /\ epc' = "extract" /\ stage' = "ready"
             /\ page' = [page EXCEPT ![c].phase = "extracting"]
             /\ UNCHANGED <<queue, wake, expired, baseline, agent, calls>>
    <3>1. [page[c] EXCEPT !.phase = "extracting"] \in Pages
      BY <1>1 DEF Pages
    <3>2. page' \in [Callers -> Pages]
      BY <1>1, <2>2, <3>1
    <3> QED BY <1>1, <2>2, <3>2 DEF EngineTypeOK, Running, Pages, Stages
  <2> QED BY <1>9, <2>1, <2>2 DEF Harvest
<1>10. CASE ExtractWaits \/ ExtractGoesOn
  <2>1. page' \in [Callers -> Pages]
    BY <1>3, <1>10 DEF ExtractWaits, ExtractGoesOn
  <2>2. wake' \in BOOLEAN
    BY <1>1, <1>10 DEF ExtractWaits, ExtractGoesOn, EngineTypeOK
  <2>3. stage' \in Stages
    <3>1. CASE ExtractWaits
      BY <1>1, <3>1 DEF ExtractWaits
    <3>2. CASE ExtractGoesOn
      BY <1>1, <3>2 DEF ExtractGoesOn, NextStage, Stages
    <3> QED BY <1>10, <3>1, <3>2
  <2> QED BY <1>1, <1>2, <1>10, <2>1, <2>2, <2>3 DEF ExtractWaits, ExtractGoesOn, EngineTypeOK, Pages
<1>11. CASE ExtractEnds \/ ExtractFails
  <2>1. PICK c \in Callers : Finish(c, "ok", Delivered) \/ Finish(c, "error", Delivered)
    BY <1>11 DEF ExtractEnds, ExtractFails, Current
  <2>2. UNCHANGED wake
    BY <1>11 DEF ExtractEnds, ExtractFails
  <2>3. EngineTypeOK'
    BY <1>1, <2>1, <2>2, FinishTypes DEF Answers
  <2> QED BY <1>2, <2>1, <2>3 DEF Finish
<1>12. ASSUME NEW c \in Callers, Loads(c) \/ Crashes(c)
       PROVE  EngineTypeOK' /\ queue' = queue /\ (epc' = "extract" => stage' \in Stages)
  <2>1. PICK what \in {"load", "crash"} : Tell(c, what)
    BY <1>12 DEF Loads, Crashes
  <2>2. page' = [page EXCEPT ![c].news = @ \cup {what}] /\ wake' = TRUE
        /\ UNCHANGED <<epc, queue, stage, expired, baseline, agent, calls>>
    BY <2>1 DEF Tell
  <2>3. [page[c] EXCEPT !.news = @ \cup {what}] \in Pages
    BY <1>1 DEF Pages
  <2>4. page' \in [Callers -> Pages]
    BY <1>1, <2>2, <2>3
  <2> QED BY <1>1, <2>2, <2>4 DEF EngineTypeOK, Pages
<1>13. ASSUME NEW c \in Callers, TimePasses(c)
       PROVE  EngineTypeOK' /\ queue' = queue /\ (epc' = "extract" => stage' \in Stages)
  <2>1. [page[c] EXCEPT !.due = TRUE] \in Pages
    BY <1>1 DEF Pages
  <2>2. page' \in [Callers -> Pages]
    BY <1>1, <1>13, <2>1 DEF TimePasses
  <2> QED BY <1>1, <1>13, <2>2 DEF TimePasses, EngineTypeOK, Pages
<1>14. CASE EngineStep
  BY <1>2, <1>4, <1>5, <1>7, <1>8, <1>9, <1>10, <1>11, <1>14 DEF EngineStep, ExtractStep
<1>15. CASE ServoStep \/ ClockStep
  BY <1>2, <1>4, <1>12, <1>13, <1>15 DEF ServoStep, ClockStep
<1> QED BY <1>6, <1>10, <1>14, <1>15

\* Types hold in every state, in a worker and in process.
LEMMA TypeStep == TypeInv /\ [Next]_vars => TypeInv'
<1> SUFFICES ASSUME TypeInv, [Next]_vars PROVE TypeInv'
  OBVIOUS
<1> DEFINE P == /\ EngineTypeOK'
                /\ \A i \in 1..Len(queue') : queue'[i].kind = "init" => queue'[i].agent \in Agents
                /\ epc' = "extract" => stage' \in Stages
<1> USE DEF engine, calls, protocol
<1>1. /\ TypeOK /\ EngineTypeOK /\ Len(queue) \in Nat
      /\ \A i \in 1..Len(queue) : queue[i].kind = "init" => queue[i].agent \in Agents
      /\ epc = "extract" => stage \in Stages
  BY LenProperties DEF TypeInv, TypeOK, EngineTypeOK
<1>2. /\ Main \in Callers /\ SessionAgent \in Agents /\ MaxConcurrency \in Nat \ {0}
      /\ MaxRequests \in Nat /\ MaxCalls \in Nat /\ MaxPages \in Nat
  BY WorkerAssumption, EngineAssumption
<1>3. ASSUME UNCHANGED engine, req' \in [Callers -> {"idle", "sent", "waiting", "lost"}],
             ans' \in [Callers -> Answers]
      PROVE  P
  BY <1>1, <1>3 DEF EngineTypeOK
<1>4. ASSUME NEW c \in Callers, Take(c) \/ Abandon(c) PROVE P
  BY <1>1, <1>3, <1>4 DEF Take, Abandon, EngineTypeOK, Answers
<1>5. ASSUME P, UNCHANGED protocol PROVE TypeInv'
  BY <1>1, <1>5 DEF TypeOK, TypeInv
<1> HIDE DEF P
<1>6. CASE ParentStep
  <2>1. CASE Refuse
    <3>1. P
      BY <1>1, <1>3, <2>1 DEF Refuse, vars, EngineTypeOK
    <3> QED BY <1>5, <2>1, <3>1 DEF Refuse, vars
  <2>2. CASE Initialize
    <3>1. P
      BY <1>1, <1>2, <1>3, <2>2, RequestTypes DEF Initialize, Kinds, EngineTypeOK, P
    <3>2. /\ mpc' \in {mpc, "init"} /\ wstate' = "failed" /\ configured' \in BOOLEAN
          /\ count' = count + 1 /\ UNCHANGED <<mode, crawl>>
      BY <1>1, <2>2 DEF Initialize, TypeOK
    <3> QED BY <1>1, <3>1, <3>2 DEF TypeOK, TypeInv, P
  <2>3. ASSUME NEW kind \in {"fetch", "cookies"}, Ask(kind) PROVE TypeInv'
    <3>1. P
      BY <1>1, <1>2, <2>3, RequestTypes DEF Ask, Kinds, P
    <3> QED BY <1>1, <2>3, <3>1 DEF Ask, TypeOK, TypeInv, P
  <2>4. ASSUME NEW n \in MaxConcurrency..(MaxConcurrency + 1), StartCrawl(n) PROVE TypeInv'
    <3>1. P
      BY <1>1, <1>3, <2>4 DEF StartCrawl, EngineTypeOK
    <3>2. crawl' \in [conc : 0..MaxConcurrency, left : 0..MaxPages]
      BY <1>2, <2>4 DEF StartCrawl, ConcurrencyAllowed
    <3> QED BY <1>1, <2>4, <3>1, <3>2 DEF StartCrawl, TypeOK, TypeInv, P
  <2> QED BY <1>6, <2>1, <2>2, <2>3, <2>4 DEF ParentStep
<1>7. CASE ProtocolStep
  <2>1. CASE Initialized \/ Asked
    <3>1. P
      BY <1>2, <1>4, <2>1 DEF Initialized, Asked
    <3> QED BY <1>1, <2>1, <3>1 DEF Initialized, Asked, TypeOK, TypeInv, P
  <2>2. CASE CrawlEnds
    <3>1. P
      BY <1>1, <1>3, <2>2 DEF CrawlEnds, EngineTypeOK
    <3>2. crawl' \in [conc : 0..MaxConcurrency, left : 0..MaxPages]
      BY <1>2, <2>2 DEF CrawlEnds, NoCrawl
    <3> QED BY <1>1, <2>2, <3>1, <3>2 DEF CrawlEnds, TypeOK, TypeInv, P
  <2>3. ASSUME NEW t \in Tasks, CrawlFetch(t) PROVE TypeInv'
    <3>1. t \in Callers
      BY DEF Tasks
    <3>2. P
      BY <2>3, <3>1, RequestTypes DEF CrawlFetch, Kinds, P
    <3>3. crawl' \in [conc : 0..MaxConcurrency, left : 0..MaxPages]
      BY <1>1, <1>2, <2>3 DEF CrawlFetch, TypeOK
    <3> QED BY <1>1, <2>3, <3>2, <3>3 DEF CrawlFetch, TypeOK, TypeInv, P
  <2>4. ASSUME NEW t \in Tasks, CrawlJoin(t) PROVE TypeInv'
    <3>1. P
      BY <1>4, <2>4 DEF CrawlJoin, Tasks
    <3> QED BY <1>1, <2>4, <3>1 DEF CrawlJoin, TypeOK, TypeInv, P
  <2> QED BY <1>7, <2>1, <2>2, <2>3, <2>4 DEF ProtocolStep
<1>8. CASE Exit
  <2>1. /\ queue' \in Seq(Messages) /\ Len(queue') <= Capacity
        /\ \A i \in 1..Len(queue') : queue'[i].kind = "init" => queue'[i].agent \in Agents
    <3>1. queue' = <<>> /\ <<>> \in Seq(Messages) /\ Len(<<>>) = 0
      BY <1>8, EmptySeq DEF Exit
    <3> QED BY <3>1, EngineAssumption
  <2>2. page' \in [Callers -> Pages]
    BY <1>8, NoPageIsPage DEF Exit
  <2>3. crawl' \in [conc : 0..MaxConcurrency, left : 0..MaxPages]
    BY <1>2, <1>8 DEF Exit, NoCrawl
  <2>4. /\ epc' = "gone" /\ wake' = FALSE /\ stage' = "none" /\ expired' = FALSE
        /\ req' = [c \in Callers |-> "idle"] /\ ans' = [c \in Callers |-> "none"]
        /\ mpc' = "exited" /\ UNCHANGED <<mode, wstate, configured, count, baseline, agent>>
    BY <1>8 DEF Exit
  <2>5. EngineTypeOK'
    BY <1>1, <2>1, <2>2, <2>4 DEF EngineTypeOK, Messages, Pages, Answers
  <2> QED BY <1>1, <2>1, <2>3, <2>4, <2>5 DEF TypeOK, TypeInv
<1>9. ASSUME NEW c \in Callers, CallStep(c) \/ LibraryDrops(c) PROVE TypeInv'
  <2>1. CASE Signal(c) /\ UNCHANGED protocol
    <3>1. P
      BY <1>1, <2>1 DEF Signal, EngineTypeOK, P
    <3> QED BY <1>5, <2>1, <3>1
  <2>2. CASE LibraryReturns(c) \/ LibraryDrops(c)
    <3>1. P
      BY <1>4, <2>2 DEF LibraryReturns, LibraryDrops
    <3> QED BY <1>5, <2>2, <3>1 DEF LibraryReturns, LibraryDrops
  <2> QED BY <1>9, <2>1, <2>2 DEF CallStep
<1>10. ASSUME NEW c \in Callers, LibraryFetch(c) PROVE TypeInv'
  <2>1. PICK ua \in Agents \cup {"baseline"} : Request(c, "fetch", ua)
    <3>1. \E ua \in {"baseline", SessionAgent} : Request(c, "fetch", ua)
      BY <1>10, Zenon DEF LibraryFetch, RequestAsync
    <3> QED BY <1>2, <3>1
  <2>2. P
    BY <2>1, RequestTypes DEF Kinds, P
  <2> QED BY <1>1, <1>10, <2>2 DEF LibraryFetch, TypeOK, TypeInv, P
<1>11. CASE (EngineStep \/ ExtractWaits \/ Panic \/ ServoStep \/ ClockStep) /\ UNCHANGED protocol
  <2>1. P
    BY <1>11, EngineTypeStep DEF P
  <2> QED BY <1>5, <1>11, <2>1
<1>12. CASE UNCHANGED vars
  <2>1. P
    BY <1>1, <1>3, <1>12 DEF vars, EngineTypeOK
  <2> QED BY <1>5, <1>12, <2>1 DEF vars
<1> QED BY <1>6, <1>7, <1>8, <1>9, <1>10, <1>11, <1>12 DEF Next, Finished

-----------------------------------------------------------------------------
(***************************************************************************)
(* A worker's requests.                                                    *)
(***************************************************************************)

\* Where nobody waits for an answer, the engine has nothing to do.
LEMMA NothingAtWork ==
  ASSUME TypeInv, PlaceInv, \A c \in Callers : ~Unanswered(c)
  PROVE  queue = <<>> /\ Loading = {}
<1>1. queue \in Seq(Messages)
  BY DEF TypeInv, TypeOK, EngineTypeOK, Messages
<1>2. ASSUME queue # <<>> PROVE FALSE
  <2>1. Len(queue) \in Nat \ {0} /\ \A i \in 1..Len(queue) : queue[i] \in Messages
    BY <1>1, <1>2, EmptySeq, ElementOfSeq
  <2>2. queue[1].by \in Callers /\ Unanswered(queue[1].by)
    BY <2>1 DEF PlaceInv, Messages
  <2> QED BY <2>2
<1>3. Loading = {}
  BY DEF PlaceInv, Loading
<1> QED BY <1>2, <1>3

\* Of a crawl's fetches those in the queue are some of those under way.
LEMMA QueueOfCrawl ==
  ASSUME TypeInv, PlaceInv, Idle(Main)
  PROVE  Len(queue) <= Cardinality(Busy) /\ Cardinality(Busy) \in Nat
<1>1. /\ queue \in Seq(Messages) /\ Len(queue) \in Nat
      /\ \A i \in 1..Len(queue) : queue[i] \in Messages
  <2>1. queue \in Seq(Messages)
    BY DEF TypeInv, TypeOK, EngineTypeOK, Messages
  <2> QED BY <2>1, LenProperties, ElementOfSeq
<1>2. IsFiniteSet(Busy) /\ Cardinality(Busy) \in Nat
  <2>1. Busy \in SUBSET Callers
    BY DEF Busy, Tasks
  <2> QED BY <2>1, EngineAssumption, FS_Subset, FS_CardinalityType
<1> DEFINE f == [i \in 1..Len(queue) |-> queue[i].by]
<1>3. \A i \in 1..Len(queue) : queue[i].by \in Busy
  BY <1>1 DEF Messages, PlaceInv, Idle, Unanswered, Busy, Tasks
<1>4. f \in Injection(1..Len(queue), Busy)
  BY <1>3 DEF PlaceInv, Injection, IsInjective
<1>5. Cardinality(1..Len(queue)) <= Cardinality(Busy)
  BY <1>2, <1>4, FS_Injection
<1>6. Cardinality(1..Len(queue)) = Len(queue)
  <2> DEFINE n == Len(queue)
  <2>1. n \in Nat /\ Cardinality(1..n) = IF 1 > n THEN 0 ELSE n - 1 + 1
    BY <1>1, FS_Interval
  <2> HIDE DEF n
  <2>2. Cardinality(1..n) = n
    BY <2>1
  <2> QED BY <2>2 DEF n
<1> QED BY <1>2, <1>5, <1>6

\* A request that the queue has room for goes to its end, unless the engine is gone.
LEMMA RequestPlaced ==
  ASSUME TypeInv, PlaceInv, NEW c \in Callers, NEW kind \in Kinds,
         NEW ua \in Agents \cup {"baseline"}, Request(c, kind, ua), HasRoom
  PROVE  /\ PlaceInv' /\ UNCHANGED <<page, baseline, agent>>
         /\ Idle(c) /\ \A d \in Callers \ {c} : req'[d] = req[d] /\ ans'[d] = ans[d]
         /\ ans'[c] # "ok"
         /\ \A i \in 1..Len(queue') : \/ i \in 1..Len(queue) /\ queue'[i] = queue[i]
                                      \/ queue'[i].kind = kind /\ queue'[i].agent = ua
         /\ Len(queue') \in Nat
<1>1. /\ queue \in Seq(Messages) /\ Len(queue) \in Nat
      /\ \A i \in 1..Len(queue) : queue[i] \in Messages
      /\ req \in [Callers -> {"idle", "sent", "waiting", "lost"}] /\ ans \in [Callers -> Answers]
  <2>1. /\ queue \in Seq(Messages) /\ req \in [Callers -> {"idle", "sent", "waiting", "lost"}]
        /\ ans \in [Callers -> Answers]
    BY DEF TypeInv, TypeOK, EngineTypeOK, Messages
  <2> QED BY <2>1, LenProperties, ElementOfSeq
<1>2. UNCHANGED <<page, baseline, agent>> /\ Idle(c)
  BY DEF Request, Idle
<1>3. page[c].phase = "none" /\ \A i \in 1..Len(queue) : queue[i].by # c
  BY <1>2 DEF PlaceInv, Loading, Idle, Unanswered
<1>4. CASE epc = "gone"
  <2>1. ans' = [ans EXCEPT ![c] = "error"] /\ UNCHANGED <<queue, req>>
    BY <1>4 DEF Request
  <2>2. PlaceInv'
    BY <1>1, <1>2, <1>3, <2>1 DEF PlaceInv, Unanswered, Loading, Messages
  <2> QED BY <1>1, <1>2, <2>1, <2>2
<1>5. CASE epc # "gone"
  <2> DEFINE m == Msg(c, kind, ua)
             v == Append(queue, m)
  <2>1. m \in Messages /\ m.by = c /\ m.kind = kind /\ m.agent = ua
    BY DEF Msg, Messages
  <2> HIDE DEF m
  <2>2. /\ v \in Seq(Messages) /\ Len(v) = Len(queue) + 1
        /\ \A i \in 1..Len(queue) : v[i] = queue[i]
        /\ v[Len(queue) + 1] = m
    BY <1>1, <2>1, AppendProperties
  <2> HIDE DEF v
  <2>3. queue' = v /\ req' = [req EXCEPT ![c] = "sent"] /\ ans' = ans
    BY <1>5 DEF Request, v, m
  <2>4. /\ \A d \in Callers : ans'[d] = ans[d] /\ (d # c => req'[d] = req[d])
        /\ req'[c] = "sent" /\ ans'[c] = "none"
    BY <1>1, <1>2, <2>3 DEF Idle
  <2>5. ASSUME NEW i \in 1..Len(v)
        PROVE  /\ req'[v[i].by] \in {"sent", "waiting"} /\ ans'[v[i].by] = "none"
               /\ page'[v[i].by].phase = "none"
    <3>1. CASE i = Len(queue) + 1
      BY <1>2, <1>3, <2>1, <2>2, <2>4, <3>1
    <3>2. CASE i \in 1..Len(queue)
      <4>1. v[i].by \in Callers /\ v[i].by # c /\ v[i] = queue[i]
        BY <1>1, <1>3, <2>2, <3>2 DEF Messages
      <4>2. /\ req[queue[i].by] \in {"sent", "waiting"} /\ ans[queue[i].by] = "none"
            /\ page[queue[i].by].phase = "none"
        BY <3>2 DEF PlaceInv, Unanswered
      <4> QED BY <1>2, <2>4, <4>1, <4>2
    <3> QED BY <1>1, <2>2, <3>1, <3>2
  <2>6. ASSUME NEW i \in 1..Len(v), NEW j \in 1..Len(v), v[i].by = v[j].by PROVE i = j
    BY <1>1, <1>3, <2>1, <2>2, <2>6 DEF PlaceInv
  <2>7. \A d \in Loading' : Unanswered(d)'
    BY <1>1, <1>2, <1>3, <2>4 DEF PlaceInv, Loading, Unanswered
  <2>8. \A d \in Callers : req'[d] # "lost" /\ ans'[d] # "full"
    BY <2>4 DEF PlaceInv
  <2>9. PlaceInv'
    BY <2>3, <2>5, <2>6, <2>7, <2>8 DEF PlaceInv, Unanswered
  <2> QED BY <1>1, <1>2, <2>1, <2>2, <2>3, <2>4, <2>9
<1> QED BY <1>4, <1>5

\* An answer taken leaves the others' requests where they are.
LEMMA AnswerTaken ==
  ASSUME TypeInv, PlaceInv, NEW c \in Callers, Returned(c), Take(c)
  PROVE  /\ PlaceInv' /\ Idle(c)' /\ UNCHANGED engine
         /\ \A d \in Callers \ {c} : req'[d] = req[d] /\ ans'[d] = ans[d]
<1>1. /\ \A i \in 1..Len(queue) : queue[i] \in Messages
      /\ req \in [Callers -> {"idle", "sent", "waiting", "lost"}] /\ ans \in [Callers -> Answers]
  <2>1. /\ queue \in Seq(Messages) /\ req \in [Callers -> {"idle", "sent", "waiting", "lost"}]
        /\ ans \in [Callers -> Answers]
    BY DEF TypeInv, TypeOK, EngineTypeOK, Messages
  <2> QED BY <2>1, ElementOfSeq
<1>2. UNCHANGED engine /\ req' = [req EXCEPT ![c] = "idle"] /\ ans' = [ans EXCEPT ![c] = "none"]
  BY DEF Take
<1>3. queue' = queue /\ page' = page
  BY <1>2 DEF engine
<1>4. ~Unanswered(c)
  BY DEF Returned, Unanswered
<1>5. \A d \in Callers \ {c} : req'[d] = req[d] /\ ans'[d] = ans[d]
  BY <1>1, <1>2
<1>6. Idle(c)'
  BY <1>1, <1>2 DEF Idle
<1>7. \A i \in 1..Len(queue) : queue[i].by \in Callers /\ queue[i].by # c
  BY <1>1, <1>4 DEF PlaceInv, Messages
<1>8. PlaceInv'
  <2>1. \A i \in 1..Len(queue) : Unanswered(queue[i].by)'
    BY <1>3, <1>5, <1>7 DEF PlaceInv, Unanswered
  <2>2. \A d \in Loading : Unanswered(d)'
    BY <1>3, <1>4, <1>5 DEF PlaceInv, Unanswered, Loading
  <2>3. \A d \in Callers : req'[d] # "lost" /\ ans'[d] # "full"
    BY <1>5, <1>6 DEF PlaceInv, Idle
  <2> QED BY <1>3, <2>1, <2>2, <2>3 DEF PlaceInv, Loading
<1> QED BY <1>2, <1>5, <1>6, <1>8

-----------------------------------------------------------------------------
(***************************************************************************)
(* What the engine does to them.                                           *)
(***************************************************************************)

\* A step that answers nobody, takes no request and drops no page.
LEMMA QuietStep ==
  ASSUME TypeInv, ProtocolInv, UNCHANGED <<queue, ans, baseline, agent, protocol>>,
         \A c \in Callers : /\ page'[c].phase = "none" <=> page[c].phase = "none"
                            /\ page'[c].agent = page[c].agent
                            /\ req'[c] = req[c] \/ (req[c] = "sent" /\ req'[c] = "waiting"),
         epc' = epc \/ epc \notin {"absent", "gone"}
  PROVE  ProtocolInv'
<1>1. \A i \in 1..Len(queue) : queue[i].by \in Callers
  <2>1. queue \in Seq(Messages)
    BY DEF TypeInv, TypeOK, EngineTypeOK, Messages
  <2>2. \A i \in 1..Len(queue) : queue[i] \in Messages
    BY <2>1, ElementOfSeq
  <2> QED BY <2>2 DEF Messages
<1>2. \A c \in Callers : /\ Unanswered(c) => Unanswered(c)'
                         /\ Idle(c) => Idle(c)'
                         /\ req[c] # "lost" => req'[c] # "lost"
  BY DEF Unanswered, Idle
<1>3. Loading' = Loading
  BY DEF Loading
<1>4. PlaceInv'
  <2>1. \A i \in 1..Len(queue) : Unanswered(queue[i].by)' /\ page'[queue[i].by].phase = "none"
    BY <1>1, <1>2 DEF ProtocolInv, PlaceInv
  <2>2. \A c \in Loading : Unanswered(c)'
    BY <1>2 DEF ProtocolInv, PlaceInv, Loading
  <2>3. \A c \in Callers : req'[c] # "lost" /\ ans'[c] # "full"
    BY <1>2 DEF ProtocolInv, PlaceInv
  <2> QED BY <1>3, <2>1, <2>2, <2>3 DEF ProtocolInv, PlaceInv
<1>5. AtWorkInv'
  BY <1>2, WorkerAssumption DEF ProtocolInv, AtWorkInv, Tasks, protocol
<1>6. SessionInv'
  BY <1>3 DEF ProtocolInv, SessionInv, protocol, Loading
<1> QED BY <1>4, <1>5, <1>6 DEF ProtocolInv

\* A page is answered and gone.
LEMMA FinishStep ==
  ASSUME TypeInv, ProtocolInv, NEW c \in Loading, NEW what \in {"ok", "error"},
         Finish(c, what, page) \/ Finish(c, what, Delivered), UNCHANGED protocol
  PROVE  ProtocolInv'
<1>1. /\ \A i \in 1..Len(queue) : queue[i].by \in Callers
      /\ page \in [Callers -> Pages] /\ ans \in [Callers -> Answers] /\ c \in Callers
  <2>1. queue \in Seq(Messages)
    BY DEF TypeInv, TypeOK, EngineTypeOK, Messages
  <2>2. \A i \in 1..Len(queue) : queue[i] \in Messages
    BY <2>1, ElementOfSeq
  <2> QED BY <2>2 DEF Messages, TypeInv, TypeOK, EngineTypeOK, Pages, Loading
<1>2. \A d \in Callers : Delivered[d].phase = page[d].phase /\ Delivered[d].agent = page[d].agent
  BY <1>1, DeliverKeeps
<1>3. /\ page'[c].phase = "none"
      /\ \A d \in Callers \ {c} : page'[d].phase = page[d].phase /\ page'[d].agent = page[d].agent
  BY <1>1, <1>2, NoPageIsPage DEF Finish, Delivered
<1>4. /\ \A d \in Callers \ {c} : ans'[d] = ans[d]
      /\ ans'[c] = what
      /\ UNCHANGED <<queue, req, baseline, agent>>
  BY <1>1 DEF Finish, Reply, ProtocolInv, PlaceInv, Unanswered, Waiting
<1>5. Loading' \subseteq Loading \ {c} /\ wstate = "ready"
  BY <1>3 DEF Loading, ProtocolInv, SessionInv
<1>6. PlaceInv'
  <2>1. \A i \in 1..Len(queue) : queue[i].by # c
    BY DEF ProtocolInv, PlaceInv, Loading
  <2>2. \A i \in 1..Len(queue) : Unanswered(queue[i].by)' /\ page'[queue[i].by].phase = "none"
    BY <1>1, <1>3, <1>4, <2>1 DEF ProtocolInv, PlaceInv, Unanswered
  <2>3. \A d \in Loading' : Unanswered(d)'
    BY <1>4, <1>5 DEF ProtocolInv, PlaceInv, Unanswered, Loading
  <2>4. \A d \in Callers : req'[d] # "lost" /\ ans'[d] # "full"
    BY <1>4 DEF ProtocolInv, PlaceInv
  <2> QED BY <1>4, <2>2, <2>3, <2>4 DEF ProtocolInv, PlaceInv
<1>7. AtWorkInv'
  <2>1. Unanswered(c)
    BY DEF ProtocolInv, PlaceInv
  <2>2. \A d \in Callers : Idle(d) => Idle(d)'
    BY <1>4, <2>1 DEF Idle, Unanswered
  <2> QED BY <2>2, WorkerAssumption DEF ProtocolInv, AtWorkInv, Tasks, protocol
<1>8. SessionInv'
  <2>1. \A d \in Loading' : page'[d].agent = SessionAgent
    BY <1>3, <1>5 DEF ProtocolInv, SessionInv, Loading
  <2> QED BY <1>4, <1>5, <2>1 DEF ProtocolInv, SessionInv, protocol
<1> QED BY <1>6, <1>7, <1>8 DEF ProtocolInv

\* The engine thread ends: what it had is answered or dropped.
LEMMA GoneStep ==
  ASSUME TypeInv, ProtocolInv, NEW e, Gone(e), UNCHANGED protocol,
         \A c \in DOMAIN e : e[c] = "error" \/ (e[c] = "ok" /\ mpc # "init")
  PROVE  ProtocolInv'
<1>1. /\ queue' = <<>> /\ Len(<<>>) = 0 /\ Loading' = {} /\ epc' = "gone"
      /\ UNCHANGED <<baseline, agent, req>>
  BY EmptySeq, NoPageIsPage DEF Gone, Loading
<1>2. /\ \A c \in Callers : ~Waiting(c) \/ ans[c] # "none" => ans'[c] = ans[c]
      /\ \A c \in Callers : ans'[c] = ans[c] \/ ans'[c] = "error" \/ (ans'[c] = "ok" /\ mpc # "init")
  BY DEF Gone
<1>3. \A c \in Callers : Idle(c) => Idle(c)'
  BY <1>1, <1>2 DEF Idle, Waiting
<1>4. PlaceInv'
  BY <1>1, <1>2 DEF ProtocolInv, PlaceInv
<1>5. AtWorkInv'
  BY <1>3, WorkerAssumption DEF ProtocolInv, AtWorkInv, Tasks, protocol
<1>6. SessionInv'
  BY <1>1, <1>2, WorkerAssumption DEF ProtocolInv, SessionInv, protocol
<1> QED BY <1>4, <1>5, <1>6 DEF ProtocolInv

\* The next request is answered at once or becomes a page.
LEMMA AcceptStep ==
  ASSUME TypeInv, ProtocolInv, Accept, UNCHANGED protocol
  PROVE  ProtocolInv'
<1> DEFINE m == Head(queue)
<1>1. /\ queue' = Tail(queue) /\ epc' = "drain" /\ epc \in {"drain", "idle"} /\ req' = req
      /\ \/ \E good \in BOOLEAN : AcceptInit(m, good)
         \/ AcceptCookies(m) \/ FetchRefused(m) \/ StartFetch(m)
      /\ queue # <<>> /\ queue \in Seq(Messages)
      /\ page \in [Callers -> Pages] /\ ans \in [Callers -> Answers]
  BY DEF Accept, TypeInv, TypeOK, EngineTypeOK, Messages, Pages
<1>2. /\ m \in Messages /\ m = queue[1] /\ Len(queue) \in Nat \ {0}
      /\ queue' \in Seq(Messages) /\ Len(queue') = Len(queue) - 1
      /\ \A i \in 1..Len(queue') : queue'[i] = queue[i + 1] /\ i + 1 \in 1..Len(queue)
  BY <1>1, HeadTaken
<1> HIDE DEF m
<1> DEFINE c == m.by
<1>3. /\ c \in Callers /\ Unanswered(c) /\ page[c].phase = "none"
      /\ \A i \in 1..Len(queue') : /\ queue'[i].by \in Callers /\ queue'[i].by # c
                                   /\ Unanswered(queue'[i].by) /\ page[queue'[i].by].phase = "none"
  <2>1. 1 \in 1..Len(queue) /\ \A i \in 1..Len(queue') : i + 1 # 1
    BY <1>2
  <2>2. c \in Callers /\ Unanswered(c) /\ page[c].phase = "none"
    BY <1>2, <2>1 DEF Messages, ProtocolInv, PlaceInv
  <2>3. \A i \in 1..Len(queue') : queue'[i].by \in Callers
    <3>1. \A i \in 1..Len(queue') : queue'[i] \in Messages
      BY <1>2, ElementOfSeq
    <3> QED BY <3>1 DEF Messages
  <2>4. \A i \in 1..Len(queue') : queue'[i].by # c
    BY <1>2, <2>1 DEF ProtocolInv, PlaceInv
  <2> QED BY <1>2, <2>2, <2>3, <2>4 DEF ProtocolInv, PlaceInv
<1>4. \/ mpc = "init" /\ m.kind = "init" /\ m.agent = SessionAgent
      \/ wstate = "ready" /\ m.kind \in {"fetch", "cookies"} /\ m.agent = "baseline"
  BY <1>2 DEF ProtocolInv, SessionInv
<1>5. \A i \in 1..Len(queue') :
        \/ mpc = "init" /\ queue'[i].kind = "init" /\ queue'[i].agent = SessionAgent
        \/ wstate = "ready" /\ queue'[i].kind \in {"fetch", "cookies"} /\ queue'[i].agent = "baseline"
  BY <1>2 DEF ProtocolInv, SessionInv
<1>6. \A i, j \in 1..Len(queue') : queue'[i].by = queue'[j].by => i = j
  BY <1>2, SMTT(30) DEF ProtocolInv, PlaceInv
<1>7. mpc # "read" /\ mpc # "exited" /\ wstate # "awaiting"
  <2>1. ~Idle(c)
    BY <1>3 DEF Idle, Unanswered
  <2>2. mpc \notin {"read", "exited"}
    BY <1>3, <2>1 DEF ProtocolInv, AtWorkInv
  <2> QED BY <2>2 DEF ProtocolInv, SessionInv
<1>8. CASE StartFetch(m)
  <2>1. /\ wstate = "ready" /\ m.agent = "baseline" /\ mpc # "init"
        /\ baseline = SessionAgent /\ baseline' = baseline /\ agent' = SessionAgent /\ ans' = ans
    BY <1>4, <1>8 DEF StartFetch, Resolved, ProtocolInv, SessionInv
  <2>2. /\ page'[c].phase = "pending" /\ page'[c].agent = SessionAgent
        /\ \A d \in Callers \ {c} : page'[d] = page[d]
    BY <1>1, <1>3, <1>8, <2>1 DEF StartFetch, Resolved, NoPage
  <2>3. Loading' = Loading \cup {c}
    BY <1>3, <2>2 DEF Loading
  <2>4. \A d \in Callers : (Unanswered(d)' <=> Unanswered(d)) /\ (Idle(d)' <=> Idle(d))
    BY <1>1, <2>1 DEF Unanswered, Idle
  <2> HIDE DEF c
  <2>5. PlaceInv'
    <3>1. \A i \in 1..Len(queue') : /\ req'[queue'[i].by] \in {"sent", "waiting"}
                                     /\ ans'[queue'[i].by] = "none"
                                     /\ page'[queue'[i].by].phase = "none"
      BY <1>1, <1>3, <2>1, <2>2 DEF Unanswered
    <3>2. \A d \in Loading' : Unanswered(d)'
      BY <1>3, <2>3, <2>4 DEF ProtocolInv, PlaceInv, Loading
    <3>3. \A d \in Callers : req'[d] # "lost" /\ ans'[d] # "full"
      BY <1>1, <2>1 DEF ProtocolInv, PlaceInv
    <3> QED BY <1>6, <3>1, <3>2, <3>3 DEF PlaceInv, Unanswered
  <2>6. AtWorkInv'
    BY <2>4, WorkerAssumption DEF ProtocolInv, AtWorkInv, Tasks, protocol
  <2>7. SessionInv'
    <3>1. \A d \in Loading' : wstate = "ready" /\ page'[d].agent = SessionAgent
      BY <2>1, <2>2, <2>3 DEF ProtocolInv, SessionInv, Loading
    <3> QED BY <1>5, <1>7, <2>1, <3>1 DEF ProtocolInv, SessionInv, protocol
  <2> QED BY <2>5, <2>6, <2>7 DEF ProtocolInv
<1>9. CASE ~StartFetch(m)
  <2>1. PICK what \in {"ok", "error"} : Reply({c}, what)
    <3>1. \E what \in {"ok", "error"} : Reply({m.by}, what)
      BY <1>1, <1>9 DEF AcceptInit, AcceptCookies, FetchRefused
    <3> QED BY <3>1
  <2>2. /\ ans'[c] = what /\ \A d \in Callers \ {c} : ans'[d] = ans[d]
        /\ page' = page /\ Loading' = Loading
    BY <1>1, <1>3, <1>9, <2>1
       DEF Reply, Waiting, Unanswered, AcceptInit, AcceptCookies, FetchRefused, Loading
  <2>3. \/ mpc = "init" /\ baseline' = SessionAgent /\ agent' = SessionAgent
        \/ wstate = "ready" /\ baseline' = SessionAgent /\ agent' = SessionAgent
    BY <1>1, <1>4, <1>9 DEF AcceptInit, AcceptCookies, FetchRefused, Resolved, ProtocolInv,
                            SessionInv
  <2>4. PlaceInv'
    <3>1. \A i \in 1..Len(queue') : /\ req'[queue'[i].by] \in {"sent", "waiting"}
                                     /\ ans'[queue'[i].by] = "none"
                                     /\ page'[queue'[i].by].phase = "none"
      BY <1>1, <1>3, <2>2 DEF Unanswered
    <3>2. \A d \in Loading' : Unanswered(d)'
      BY <1>1, <1>3, <2>2 DEF ProtocolInv, PlaceInv, Loading, Unanswered
    <3>3. \A d \in Callers : req'[d] # "lost" /\ ans'[d] # "full"
      BY <1>1, <2>2 DEF ProtocolInv, PlaceInv
    <3> QED BY <1>6, <3>1, <3>2, <3>3 DEF PlaceInv, Unanswered
  <2>5. AtWorkInv'
    <3>1. \A d \in Callers : Idle(d) => Idle(d)'
      BY <1>1, <1>3, <2>2 DEF Idle, Unanswered
    <3> QED BY <3>1, WorkerAssumption DEF ProtocolInv, AtWorkInv, Tasks, protocol
  <2>6. SessionInv'
    BY <1>5, <1>7, <2>2, <2>3 DEF ProtocolInv, SessionInv, protocol, Loading
  <2> QED BY <2>4, <2>5, <2>6 DEF ProtocolInv
<1> QED BY <1>8, <1>9

\* Whatever the engine's thread, Servo and the clock do.
LEMMA EngineProtocolStep ==
  ASSUME TypeInv, ProtocolInv, UNCHANGED protocol,
         EngineStep \/ ExtractWaits \/ Panic \/ ServoStep \/ ClockStep
  PROVE  ProtocolInv'
<1> USE DEF calls
<1>1. /\ page \in [Callers -> Pages] /\ queue \in Seq(Messages)
      /\ \A c \in Callers : /\ Delivered[c].phase = page[c].phase
                            /\ Delivered[c].agent = page[c].agent
                            /\ Delivered[c] \in Pages
  <2>1. page \in [Callers -> Pages] /\ queue \in Seq(Messages)
    BY DEF TypeInv, TypeOK, EngineTypeOK, Pages, Messages
  <2> QED BY <2>1, DeliverKeeps
<1>2. CASE Build \/ Drained \/ Harvested \/ WakeUp \/ BudgetPasses
  <2>1. /\ UNCHANGED <<queue, page, ans, req, baseline, agent>>
        /\ epc' = epc \/ epc \notin {"absent", "gone"}
    BY <1>2 DEF Build, Drained, Harvested, WakeUp, BudgetPasses
  <2> QED BY <2>1, QuietStep
<1>3. CASE Spin
  <2>1. /\ UNCHANGED <<queue, ans, req, baseline, agent>> /\ epc = "spin"
        /\ \A c \in Callers : page'[c] = IF Delivered[c].phase = "pending" /\ Delivered[c].due
                                         THEN [Delivered[c] EXCEPT !.phase = "listed"]
                                         ELSE Delivered[c]
    BY <1>3 DEF Spin
  <2>2. \A c \in Callers : /\ page'[c].phase = "none" <=> page[c].phase = "none"
                           /\ page'[c].agent = page[c].agent
    BY <1>1, <2>1 DEF Pages
  <2> QED BY <2>1, <2>2, QuietStep
<1>4. CASE ExtractWaits \/ ExtractGoesOn
  <2>1. /\ UNCHANGED <<epc, queue, ans, req, baseline, agent>> /\ page' = Delivered
    BY <1>4 DEF ExtractWaits, ExtractGoesOn
  <2> QED BY <1>1, <2>1, QuietStep
<1>5. ASSUME NEW c \in Callers, Harvest(c) PROVE ProtocolInv'
  <2>1. CASE Finish(c, "error", page)
    <3>1. c \in Loading
      BY <1>5 DEF Harvest, Listed, Loading
    <3> QED BY <2>1, <3>1, FinishStep
  <2>2. CASE /\ page' = [page EXCEPT ![c].phase = "extracting"]
             /\ UNCHANGED <<queue, wake, expired, baseline, agent, calls>>
    <3>1. /\ \A d \in Callers \ {c} : page'[d] = page[d]
          /\ page'[c].phase = "extracting" /\ page'[c].agent = page[c].agent
      BY <1>1, <2>2 DEF Pages
    <3>2. page[c].phase = "listed" /\ epc = "harvest"
      BY <1>5 DEF Harvest, Listed
    <3>3. \A d \in Callers : /\ page'[d].phase = "none" <=> page[d].phase = "none"
                             /\ page'[d].agent = page[d].agent
      BY <3>1, <3>2
    <3> QED BY <2>2, <3>2, <3>3, QuietStep
  <2> QED BY <1>5, <2>1, <2>2 DEF Harvest
<1>6. CASE ExtractEnds \/ ExtractFails
  <2>1. PICK c \in Current : Finish(c, "ok", Delivered) \/ Finish(c, "error", Delivered)
    BY <1>6 DEF ExtractEnds, ExtractFails
  <2>2. c \in Loading
    BY DEF Current, Loading
  <2> QED BY <2>1, <2>2, FinishStep
<1>7. CASE BuildFails
  <2> DEFINE m == Head(queue)
             e == [c \in {m.by} |-> IF m.kind = "cookies" THEN "ok" ELSE "error"]
  <2>1. Gone(e) /\ queue # <<>>
    BY <1>7 DEF BuildFails
  <2>2. m = queue[1] /\ 1 \in 1..Len(queue)
    BY <1>1, <2>1, HeadTaken
  <2>3. m.kind = "cookies" => mpc # "init"
    BY <2>2 DEF ProtocolInv, SessionInv
  <2>4. \A c \in DOMAIN e : e[c] = "error" \/ (e[c] = "ok" /\ mpc # "init")
    BY <2>3
  <2> HIDE DEF e
  <2> QED BY <2>1, <2>4, GoneStep
<1>8. CASE Panic
  <2>1. /\ Gone(<<>>)
        /\ \A c \in DOMAIN <<>> : <<>>[c] = "error" \/ (<<>>[c] = "ok" /\ mpc # "init")
    BY <1>8 DEF Panic
  <2> QED BY <2>1, GoneStep
<1>9. CASE Accept
  BY <1>9, AcceptStep
<1>10. ASSUME NEW c \in Callers, Loads(c) \/ Crashes(c) PROVE ProtocolInv'
  <2>1. PICK what \in {"load", "crash"} : Tell(c, what)
    BY <1>10 DEF Loads, Crashes
  <2>2. /\ page' = [page EXCEPT ![c].news = @ \cup {what}]
        /\ UNCHANGED <<epc, queue, baseline, agent, calls>>
    BY <2>1 DEF Tell
  <2>3. \A d \in Callers : page'[d].phase = page[d].phase /\ page'[d].agent = page[d].agent
    BY <1>1, <2>2 DEF Pages
  <2> QED BY <2>2, <2>3, QuietStep
<1>11. ASSUME NEW c \in Callers, TimePasses(c) PROVE ProtocolInv'
  <2>1. /\ page' = [page EXCEPT ![c].due = TRUE]
        /\ UNCHANGED <<epc, queue, baseline, agent, calls>>
    BY <1>11 DEF TimePasses
  <2>2. \A d \in Callers : page'[d].phase = page[d].phase /\ page'[d].agent = page[d].agent
    BY <1>1, <2>1 DEF Pages
  <2> QED BY <2>1, <2>2, QuietStep
<1>12. CASE EngineStep
  BY <1>2, <1>3, <1>4, <1>5, <1>6, <1>7, <1>9, <1>12 DEF EngineStep, ExtractStep
<1>13. CASE ServoStep \/ ClockStep
  BY <1>2, <1>10, <1>11, <1>13 DEF ServoStep, ClockStep
<1> QED BY <1>4, <1>8, <1>12, <1>13

\* Whatever the protocol thread and a crawl's tasks do, until the process ends.
LEMMA RequestsStep ==
  ASSUME TypeInv, ProtocolInv, mode = "worker", ParentStep \/ ProtocolStep \/ Exit
  PROVE  ProtocolInv'
<1>1. /\ Main \in Callers /\ Capacity \in Nat \ {0} /\ MaxConcurrency \in 1..Capacity
      /\ Main \notin Tasks /\ Callers = Tasks \cup {Main}
  BY WorkerAssumption, EngineAssumption DEF Tasks
<1>2. /\ Len(<<>>) = 0 /\ (queue = <<>> => HasRoom)
      /\ \A c \in Callers : Idle(c) => ~Unanswered(c)
  BY <1>1, EmptySeq DEF HasRoom, Idle, Unanswered
<1>3. ASSUME UNCHANGED vars PROVE ProtocolInv'
  BY <1>3 DEF vars, engine, calls, protocol, ProtocolInv, PlaceInv, AtWorkInv, SessionInv, Loading,
              Unanswered, Idle
<1>4. CASE Initialize
  <2>1. /\ mpc = "read" /\ wstate = "awaiting" /\ wstate' = "failed" /\ ~configured
        /\ epc \in {"absent", "gone"} /\ \A c \in Callers : Idle(c)
    BY <1>4 DEF Initialize, Reads, ProtocolInv, SessionInv, AtWorkInv
  <2>2. queue = <<>> /\ Loading = {}
    BY <1>2, <2>1, NothingAtWork DEF ProtocolInv
  <2>3. CASE epc # "absent"
    <3>1. UNCHANGED <<engine, calls, mode, mpc, configured, crawl>>
      BY <1>4, <2>3 DEF Initialize
    <3>2. /\ PlaceInv' /\ AtWorkInv' /\ Loading' = Loading /\ queue' = queue /\ mpc' = mpc
      BY <3>1 DEF engine, calls, ProtocolInv, PlaceInv, AtWorkInv, Loading, Unanswered, Idle
    <3>3. SessionInv'
      BY <1>2, <2>1, <2>2, <3>2 DEF SessionInv
    <3> QED BY <3>2, <3>3 DEF ProtocolInv
  <2>4. CASE epc = "absent"
    <3>1. configured' = TRUE /\ mpc' = "init" /\ Request(Main, "init", SessionAgent)
      BY <1>4, <2>1, <2>4 DEF Initialize
    <3>2. /\ PlaceInv' /\ UNCHANGED <<page, baseline, agent>>
          /\ \A d \in Callers \ {Main} : req'[d] = req[d] /\ ans'[d] = ans[d]
          /\ ans'[Main] # "ok"
          /\ \A i \in 1..Len(queue') : \/ i \in 1..Len(queue) /\ queue'[i] = queue[i]
                                       \/ queue'[i].kind = "init" /\ queue'[i].agent = SessionAgent
      BY <1>1, <1>2, <2>2, <3>1, RequestPlaced, WorkerAssumption DEF ProtocolInv, Kinds
    <3>3. AtWorkInv'
      BY <1>1, <2>1, <3>1, <3>2 DEF AtWorkInv, Idle
    <3>4. Loading' = {}
      BY <2>2, <3>2 DEF Loading
    <3>5. \A i \in 1..Len(queue') : queue'[i].kind = "init" /\ queue'[i].agent = SessionAgent
      BY <1>2, <2>2, <3>2
    <3>6. SessionInv'
      BY <2>1, <3>1, <3>2, <3>4, <3>5 DEF SessionInv
    <3> QED BY <3>2, <3>3, <3>6 DEF ProtocolInv
  <2> QED BY <2>3, <2>4
<1>5. CASE Initialized \/ Asked
  <2>1. /\ mpc \in {"init", "fetch", "cookies"} /\ mpc' = "read" /\ Returned(Main) /\ Take(Main)
        /\ UNCHANGED <<mode, configured>>
    BY <1>5 DEF Initialized, Asked
  <2>2. /\ PlaceInv' /\ Idle(Main)' /\ UNCHANGED engine
        /\ \A d \in Callers \ {Main} : req'[d] = req[d] /\ ans'[d] = ans[d]
    BY <1>1, <2>1, AnswerTaken DEF ProtocolInv
  <2>3. \A t \in Tasks : Idle(t)
    BY <2>1 DEF ProtocolInv, AtWorkInv
  <2>4. \A c \in Callers : Idle(c)'
    BY <1>1, <2>2, <2>3 DEF Idle
  <2>5. queue = <<>> /\ Loading = {}
    <3>1. ~Unanswered(Main)
      BY <2>1 DEF Returned, Unanswered
    <3> QED BY <1>1, <1>2, <2>3, <3>1, NothingAtWork DEF ProtocolInv
  <2>6. queue' = <<>> /\ Loading' = {} /\ UNCHANGED <<baseline, agent>>
    BY <2>2, <2>5 DEF engine, Loading
  <2>7. /\ wstate' = "ready" => configured /\ baseline = SessionAgent /\ agent = SessionAgent
        /\ wstate' # "awaiting"
    <3>1. CASE mpc = "init"
      BY <1>5, <3>1 DEF Initialized, Asked, ProtocolInv, SessionInv
    <3>2. CASE mpc # "init"
      BY <1>5, <3>2 DEF Initialized, Asked, ProtocolInv, SessionInv
    <3> QED BY <3>1, <3>2
  <2>8. SessionInv'
    BY <1>2, <2>1, <2>6, <2>7 DEF SessionInv
  <2>9. AtWorkInv'
    BY <2>1, <2>4 DEF AtWorkInv
  <2> QED BY <2>2, <2>8, <2>9 DEF ProtocolInv
<1>6. ASSUME NEW kind \in {"fetch", "cookies"}, Ask(kind) PROVE ProtocolInv'
  <2>1. /\ mpc = "read" /\ wstate = "ready" /\ mpc' = kind
        /\ Request(Main, kind, "baseline") /\ UNCHANGED <<mode, wstate, configured>>
        /\ \A c \in Callers : Idle(c)
    BY <1>6 DEF Ask, Reads, Ready, ProtocolInv, AtWorkInv
  <2>2. queue = <<>> /\ Loading = {}
    BY <1>2, <2>1, NothingAtWork DEF ProtocolInv
  <2>3. /\ PlaceInv' /\ UNCHANGED <<page, baseline, agent>>
        /\ \A d \in Callers \ {Main} : req'[d] = req[d] /\ ans'[d] = ans[d]
        /\ \A i \in 1..Len(queue') : \/ i \in 1..Len(queue) /\ queue'[i] = queue[i]
                                     \/ queue'[i].kind = kind /\ queue'[i].agent = "baseline"
    BY <1>1, <1>2, <2>1, <2>2, RequestPlaced DEF ProtocolInv, Kinds
  <2>4. AtWorkInv'
    BY <1>1, <2>1, <2>3 DEF AtWorkInv, Idle
  <2>5. Loading' = {}
    BY <2>2, <2>3 DEF Loading
  <2>6. \A i \in 1..Len(queue') : queue'[i].kind = kind /\ queue'[i].agent = "baseline"
    BY <1>2, <2>2, <2>3
  <2>7. SessionInv'
    BY <2>1, <2>3, <2>5, <2>6 DEF ProtocolInv, SessionInv
  <2> QED BY <2>3, <2>4, <2>7 DEF ProtocolInv
<1>7. ASSUME NEW n \in MaxConcurrency..(MaxConcurrency + 1), StartCrawl(n) PROVE ProtocolInv'
  <2>1. /\ mpc = "read" /\ wstate = "ready" /\ mpc' = "crawl"
        /\ UNCHANGED <<engine, calls, mode, wstate, configured>>
        /\ \A c \in Callers : Idle(c)
    BY <1>7 DEF StartCrawl, Reads, Ready, ProtocolInv, AtWorkInv
  <2>2. PlaceInv' /\ AtWorkInv' /\ Loading' = Loading
    BY <1>1, <2>1 DEF engine, calls, ProtocolInv, PlaceInv, AtWorkInv, Loading, Unanswered, Idle
  <2>3. SessionInv'
    BY <2>1, <2>2 DEF engine, calls, ProtocolInv, SessionInv
  <2> QED BY <2>2, <2>3 DEF ProtocolInv
<1>8. ASSUME NEW t \in Tasks, CrawlFetch(t) PROVE ProtocolInv'
  <2>1. /\ mpc = "crawl" /\ mpc' = mpc /\ Request(t, "fetch", "baseline") /\ t \in Callers \ {Main}
        /\ Cardinality(Busy) < crawl.conc /\ UNCHANGED <<mode, wstate, configured>>
    BY <1>8 DEF CrawlFetch, Tasks
  <2>2. HasRoom
    <3>1. Idle(Main)
      BY <2>1 DEF ProtocolInv, AtWorkInv
    <3>2. Len(queue) <= Cardinality(Busy) /\ Cardinality(Busy) \in Nat /\ Len(queue) \in Nat
      BY <3>1, QueueOfCrawl, LenProperties DEF ProtocolInv, TypeInv, TypeOK, EngineTypeOK
    <3>3. crawl.conc \in 0..MaxConcurrency
      BY DEF TypeInv, TypeOK
    <3>4. Len(queue) < Capacity
      BY <1>1, <2>1, <3>2, <3>3
    <3> QED BY <3>4 DEF HasRoom
  <2>3. /\ PlaceInv' /\ UNCHANGED <<page, baseline, agent>>
        /\ \A d \in Callers \ {t} : req'[d] = req[d] /\ ans'[d] = ans[d]
        /\ \A i \in 1..Len(queue') : \/ i \in 1..Len(queue) /\ queue'[i] = queue[i]
                                     \/ queue'[i].kind = "fetch" /\ queue'[i].agent = "baseline"
    BY <2>1, <2>2, RequestPlaced DEF ProtocolInv, Kinds
  <2>4. AtWorkInv'
    BY <1>1, <2>1, <2>3 DEF ProtocolInv, AtWorkInv, Idle
  <2>5. Loading' = Loading /\ wstate = "ready"
    BY <2>1, <2>3 DEF Loading, ProtocolInv, SessionInv
  <2>6. \A i \in 1..Len(queue') : queue'[i].kind \in {"fetch", "cookies"} /\ queue'[i].agent = "baseline"
    BY <2>1, <2>3 DEF ProtocolInv, SessionInv
  <2>7. SessionInv'
    BY <2>1, <2>3, <2>5, <2>6 DEF ProtocolInv, SessionInv
  <2> QED BY <2>3, <2>4, <2>7 DEF ProtocolInv
<1>9. ASSUME NEW t \in Tasks, CrawlJoin(t) PROVE ProtocolInv'
  <2>1. /\ mpc \in {"crawl", "drain"} /\ mpc' \in {"crawl", "drain"} /\ Returned(t) /\ Take(t)
        /\ t \in Callers \ {Main} /\ UNCHANGED <<mode, wstate, configured>>
    BY <1>9 DEF CrawlJoin, Tasks
  <2>2. /\ PlaceInv' /\ UNCHANGED engine
        /\ \A d \in Callers \ {t} : req'[d] = req[d] /\ ans'[d] = ans[d]
    BY <2>1, AnswerTaken DEF ProtocolInv
  <2>3. AtWorkInv'
    BY <1>1, <2>1, <2>2 DEF ProtocolInv, AtWorkInv, Idle
  <2>4. SessionInv'
    BY <2>1, <2>2 DEF engine, ProtocolInv, SessionInv, Loading
  <2> QED BY <2>2, <2>3, <2>4 DEF ProtocolInv
<1>10. CASE CrawlEnds
  <2>1. /\ mpc \in {"crawl", "drain"} /\ mpc' = "read" /\ Busy = {}
        /\ UNCHANGED <<engine, calls, mode, wstate, configured>>
    BY <1>10 DEF CrawlEnds
  <2>2. \A c \in Callers : Idle(c)
    BY <1>1, <2>1 DEF ProtocolInv, AtWorkInv, Busy, Idle
  <2>3. PlaceInv' /\ AtWorkInv' /\ Loading' = Loading
    BY <2>1, <2>2 DEF engine, calls, ProtocolInv, PlaceInv, AtWorkInv, Loading, Unanswered, Idle
  <2>4. SessionInv'
    BY <2>1, <2>3 DEF engine, calls, ProtocolInv, SessionInv
  <2> QED BY <2>3, <2>4 DEF ProtocolInv
<1>11. CASE Exit
  <2>1. /\ mpc' = "exited" /\ epc' = "gone" /\ queue' = <<>> /\ Loading' = {}
        /\ \A c \in Callers : req'[c] = "idle" /\ ans'[c] = "none"
        /\ UNCHANGED <<mode, wstate, configured, baseline, agent>>
    BY <1>11, NoPageIsPage DEF Exit, Loading
  <2>2. PlaceInv'
    BY <1>2, <2>1 DEF PlaceInv
  <2>3. AtWorkInv'
    BY <2>1 DEF AtWorkInv, Idle
  <2>4. SessionInv'
    BY <1>2, <2>1 DEF ProtocolInv, SessionInv
  <2> QED BY <2>2, <2>3, <2>4 DEF ProtocolInv
<1>12. CASE ParentStep
  BY <1>3, <1>4, <1>6, <1>7, <1>12 DEF ParentStep, Refuse
<1>13. CASE ProtocolStep
  BY <1>5, <1>8, <1>9, <1>10, <1>13 DEF ProtocolStep
<1> QED BY <1>11, <1>12, <1>13

-----------------------------------------------------------------------------
(***************************************************************************)
(* The invariant and what follows from it.                                 *)
(***************************************************************************)

\* A new process has no engine and no session.
LEMMA WorkerInit == Init => WorkerInv
<1> SUFFICES ASSUME Init PROVE WorkerInv
  OBVIOUS
<1>1. /\ queue = <<>> /\ queue \in Seq(Messages) /\ Len(queue) = 0 /\ Len(queue) <= Capacity
      /\ \A c \in Callers : page[c] = NoPage /\ req[c] = "idle" /\ ans[c] = "none"
      /\ epc = "absent" /\ mpc = "read" /\ wstate = "awaiting" /\ configured = FALSE
  BY EmptySeq, EngineAssumption DEF Init, EngineInit
<1>2. page \in [Callers -> Pages]
  BY NoPageIsPage DEF Init, EngineInit
<1>3. crawl \in [conc : 0..MaxConcurrency, left : 0..MaxPages]
  BY WorkerAssumption, EngineAssumption DEF Init, NoCrawl
<1>4. EngineTypeOK
  BY <1>1, <1>2, EngineAssumption DEF Init, EngineInit, EngineTypeOK, Messages, Pages, Answers
<1>5. TypeInv
  <2>1. TypeOK
    BY <1>3, <1>4 DEF Init, TypeOK
  <2>2. \A i \in 1..Len(queue) : queue[i].kind = "init" => queue[i].agent \in Agents
    BY <1>1
  <2> QED BY <1>1, <2>1, <2>2 DEF TypeInv
<1>6. Loading = {}
  BY <1>1, NoPageIsPage DEF Loading
<1>7. PlaceInv /\ AtWorkInv /\ SessionInv
  <2>1. PlaceInv
    BY <1>1, <1>6 DEF PlaceInv
  <2>2. AtWorkInv
    BY <1>1, WorkerAssumption DEF AtWorkInv, Idle, Tasks
  <2>3. SessionInv
    BY <1>1, <1>6 DEF SessionInv
  <2> QED BY <2>1, <2>2, <2>3
<1> QED BY <1>5, <1>7 DEF WorkerInv, ProtocolInv

\* Every step keeps it; in process only the types are at stake.
LEMMA WorkerStep == WorkerInv /\ [Next]_vars => WorkerInv'
<1> SUFFICES ASSUME WorkerInv, [Next]_vars PROVE WorkerInv'
  OBVIOUS
<1>1. TypeInv /\ TypeInv'
  BY TypeStep DEF WorkerInv
<1>2. mode' = mode
  BY DEF Next, vars, protocol, ParentStep, Refuse, Initialize, Ask, StartCrawl, ProtocolStep,
         Initialized, Asked, CrawlEnds, CrawlFetch, CrawlJoin, Exit, CallStep, LibraryReturns,
         LibraryDrops, LibraryFetch, Finished
<1>3. ASSUME mode = "worker" PROVE ProtocolInv'
  <2>1. ProtocolInv
    BY <1>3 DEF WorkerInv
  <2>2. CASE UNCHANGED vars
    BY <2>1, <2>2 DEF vars, engine, calls, protocol, ProtocolInv, PlaceInv, AtWorkInv, SessionInv,
                      Loading, Unanswered, Idle
  <2>3. CASE ParentStep \/ ProtocolStep \/ Exit
    BY <1>1, <1>3, <2>1, <2>3, RequestsStep
  <2>4. ASSUME NEW c \in Callers, Signal(c), UNCHANGED protocol PROVE ProtocolInv'
    <3>1. /\ UNCHANGED <<epc, queue, page, ans, baseline, agent>>
          /\ req[c] = "sent" /\ req' = [req EXCEPT ![c] = "waiting"]
      BY <2>4 DEF Signal
    <3>2. \A d \in Callers : req'[d] = req[d] \/ (req[d] = "sent" /\ req'[d] = "waiting")
      BY <1>1, <3>1 DEF TypeInv, TypeOK, EngineTypeOK
    <3> QED BY <1>1, <2>1, <2>4, <3>1, <3>2, QuietStep
  <2>5. CASE /\ EngineStep \/ ExtractWaits \/ Panic \/ ServoStep \/ ClockStep
             /\ UNCHANGED protocol
    BY <1>1, <2>1, <2>5, EngineProtocolStep
  <2>6. ASSUME NEW c \in Callers, CallStep(c) \/ LibraryDrops(c) \/ LibraryFetch(c)
        PROVE  ProtocolInv'
    BY <1>3, <2>4, <2>6 DEF CallStep, LibraryReturns, LibraryDrops, LibraryFetch
  <2> QED BY <2>2, <2>3, <2>5, <2>6 DEF Next, Finished
<1> QED BY <1>1, <1>2, <1>3 DEF WorkerInv

\* The invariant holds of every behaviour.
LEMMA WorkerInvariant == Spec => []WorkerInv
BY WorkerInit, WorkerStep, PTL DEF Spec

\* The state of the worker, of its engine and of the calls of it has its types, whatever the
\* session asks for, whatever Servo does and wherever the engine fails (worker/protocol.rs,
\* bridge.rs).
THEOREM WorkerTypesHold == Spec => []TypeOK
<1>1. WorkerInv => TypeOK
  BY DEF WorkerInv, TypeInv
<1> QED BY <1>1, WorkerInvariant, PTL

\* No page is open in a worker whose session is not initialised, and with every page open the
\* process-wide user agent and the page's own are the session's: configure_session precedes
\* every fetch of the wire, and a fetch of the wire names no user agent (worker/protocol.rs,
\* bridge.rs, accept).
THEOREM SessionAgentHolds == Spec => []PagesUnderSession
<1>1. WorkerInv => PagesUnderSession
  BY DEF WorkerInv, ProtocolInv, SessionInv, PagesUnderSession
<1> QED BY <1>1, WorkerInvariant, PTL

\* The engine's queue of PENDING_CAPACITY never refuses a worker's request: a crawl has at most
\* MAX_WIRE_CRAWL_CONCURRENCY fetches under way and nothing else is asked meanwhile (wire.rs,
\* bridge.rs, Engine::request).
THEOREM QueueRoomHolds == Spec => []QueueNeverFull
<1>1. WorkerInv => QueueNeverFull
  BY DEF WorkerInv, ProtocolInv, PlaceInv, QueueNeverFull
<1> QED BY <1>1, WorkerInvariant, PTL

\* While a worker reads its next request nothing of the last one is left in the engine, be it a
\* fetch or a crawl that failed half way (worker/protocol.rs, crawl.rs).
THEOREM IdleHolds == Spec => []IdleBetweenRequests
<1>1. WorkerInv => IdleBetweenRequests
  <2> SUFFICES ASSUME WorkerInv, mode = "worker", mpc = "read"
               PROVE  queue = <<>> /\ Loading = {} /\ Busy = {}
    BY DEF IdleBetweenRequests
  <2>1. TypeInv /\ PlaceInv /\ \A c \in Callers : Idle(c)
    BY DEF WorkerInv, ProtocolInv, AtWorkInv
  <2>2. Busy = {} /\ \A c \in Callers : ~Unanswered(c)
    BY <2>1 DEF Busy, Tasks, Idle, Unanswered
  <2> QED BY <2>1, <2>2, NothingAtWork
<1> QED BY <1>1, WorkerInvariant, PTL
=============================================================================
