------------------------------- MODULE RpcProofs -------------------------------
(***************************************************************************)
(* Theorems about RpcServer at work (RpcSystem), for any ids, any number   *)
(* of requests, sessions and calls, any client, and processes that die.    *)
(***************************************************************************)
EXTENDS RpcSystem, SequenceTheorems, FiniteSetTheorems, FunctionTheorems, TLAPS

Outcomes     == {"none", "ok", "error", "cancelled"}
Abouts       == Outcomes \cup {"progress", "null", "duplicate"}
Fates        == Unsettled \cup {"ok", "error", "aborted", "stopped", "lost"}
Ends         == {"no", "ok", "error", "aborted", "lost"}
ReadFrames   == [kind : Methods \cup Notes, id : Ids, sid : Nat]
WrittenLines == [about : Abouts, id : Ids, sid : Nat]
CallRecords  == [kind : Kinds, gen : Nat, sid : Nat, state : Fates]
Handles      == [sid : Nat, gen : Nat, closed : BOOLEAN]
InWork       == {"begin", "slot", "lock", "work", "insert"}
Ended        == {"deregister", "answer", "done"}

PipeTypeInv ==
  /\ stdin \in Seq(ReadFrames)
  /\ stdout \in Seq(WrittenLines)

NodeTypeInv ==
  /\ gen \in Nat
  /\ calls \in Seq(CallRecords) /\ Len(calls) <= MaxCalls
  /\ pending \subseteq Calls /\ streams \subseteq Calls
  /\ fin \in [1..MaxCalls -> Ends]
  /\ objs \in Seq(Handles)

ServerTypeInv ==
  /\ registry \in [Ids -> Tasks \cup {0}]
  /\ tpc \in [Tasks -> InWork \cup Ended \cup {"none"}]
  /\ req \in [Tasks -> ReadFrames \cup {NoFrame}]
  /\ \A t \in Tasks : tpc[t] # "none" => req[t] \in ReadFrames
  /\ out \in [Tasks -> Outcomes]
  /\ own \in [Tasks -> Nat]

\* A task has an outcome only when its handler is over.
OutcomeInv == \A t \in Tasks : out[t] # "none" => tpc[t] \in Ended

RpcInv ==
  /\ PipeTypeInv /\ NodeTypeInv /\ ServerTypeInv
  /\ OutcomeInv /\ RegistryExact /\ NoOrphanSession

-----------------------------------------------------------------------------
(***************************************************************************)
(* What the steps of a task do to the registry and the table.              *)
(***************************************************************************)
\* A poll of a handler: the task goes on or ends, under the id it is registered with.
Goes(t) ==
  /\ tpc[t] \in InWork
  /\ tpc' = [tpc EXCEPT ![t] = tpc'[t]] /\ tpc'[t] \in InWork \cup {"deregister"}
  /\ UNCHANGED <<main, registry, req>>

\* ... which, unless it is the end of an opening, enters no session.
Quiet(t) ==
  /\ out' = [out EXCEPT ![t] = out'[t]] /\ out'[t] \in Outcomes
  /\ out'[t] = out[t] \/ tpc'[t] = "deregister"
  /\ UNCHANGED own
  /\ table' \subseteq table

LEMMA QuietSteps ==
  ASSUME RpcInv, NEW t \in Tasks,
         \/ Refuse(t) \/ Initialize(t) \/ BeginWork(t) \/ LookUp(t) \/ Remove(t)
         \/ AskLock(t) \/ Locked(t) \/ Progress(t)
         \/ FinishTool(t) \/ FinishCrawl(t) \/ OpenFails(t) \/ FinishFetch(t) \/ FinishClose(t)
         \/ Cancelled(t)
  PROVE  Goes(t) /\ Quiet(t)
<1>0. tpc \in [Tasks -> InWork \cup Ended \cup {"none"}] /\ out \in [Tasks -> Outcomes]
  BY DEF RpcInv, ServerTypeInv
<1> USE DEF Goes, Quiet, Step, EndsWith, InWork, Ended, Outcomes
<1>1. CASE Refuse(t) \/ Initialize(t)
  BY <1>0, <1>1 DEF pipes, Refuse, Initialize, reg, browser
<1>2. CASE BeginWork(t) \/ LookUp(t)
  BY <1>0, <1>2 DEF pipes, BeginWork, LookUp, reg, browser
<1>3. CASE Remove(t)
  BY <1>0, <1>3 DEF pipes, Remove, reg
<1>4. CASE AskLock(t)
  BY <1>0, <1>4 DEF pipes, AskLock, reg
<1>5. CASE Locked(t)
  BY <1>0, <1>5 DEF pipes, Locked, reg
<1>6. CASE Progress(t)
  <2>1. tpc[t] = "work" /\ UNCHANGED <<main, registry, req, out, own, table, tpc>>
    BY <1>6 DEF pipes, Progress, reg, browser
  <2>2. tpc' = [tpc EXCEPT ![t] = tpc'[t]] /\ out' = [out EXCEPT ![t] = out'[t]] /\ out'[t] \in Outcomes
    BY <1>0, <2>1
  <2> QED BY <1>0, <2>1, <2>2
<1>7. CASE FinishTool(t) \/ FinishCrawl(t) \/ OpenFails(t)
  BY <1>0, <1>7 DEF pipes, FinishTool, FinishCrawl, OpenFails, reg, browser
<1>8. CASE FinishFetch(t)
  BY <1>0, <1>8 DEF pipes, FinishFetch, reg
<1>9. CASE FinishClose(t)
  BY <1>0, <1>9 DEF pipes, FinishClose, reg
<1>10. CASE Cancelled(t)
  <2>1. tpc[t] \in InWork
    BY <1>0, <1>10 DEF Cancelled, InHandler, Live
  <2> QED BY <1>0, <1>10, <2>1 DEF pipes, Cancelled, reg
<1> QED BY <1>1, <1>2, <1>3, <1>4, <1>5, <1>6, <1>7, <1>8, <1>9, <1>10

\* A task that goes on under its id keeps the registry exact.
LEMMA RegistryKept ==
  ASSUME RpcInv, NEW t \in Tasks, Goes(t)
  PROVE  RegistryExact'
<1> USE DEF RpcInv, ServerTypeInv, Goes, InWork, Ended, Outcomes
<1>1. \A u \in Tasks : Live(u)' <=> Live(u)
  BY DEF Live
<1>2. \A i \in Ids : registry[i] # 0 => registry[i] \in Tasks
  OBVIOUS
<1> QED BY <1>1, <1>2 DEF RegistryExact

\* A handler that enters no session leaves those in the table to the requests that opened them.
LEMMA TableKept ==
  ASSUME RpcInv, NEW t \in Tasks, Goes(t), Quiet(t)
  PROVE  NoOrphanSession' /\ OutcomeInv'
<1> USE DEF RpcInv, ServerTypeInv, Goes, Quiet, InWork, Ended, Outcomes
<1>1. out[t] = "none"
  BY DEF OutcomeInv
<1>2. \A u \in Tasks : out[u] = "ok" => out'[u] = "ok"
  BY <1>1
<1>3. OutcomeInv'
  BY <1>1 DEF OutcomeInv
<1> QED BY <1>2, <1>3 DEF NoOrphanSession

-----------------------------------------------------------------------------
(***************************************************************************)
(* Types.                                                                  *)
(***************************************************************************)
LEMMA SendTypes ==
  ASSUME PipeTypeInv, NEW line \in WrittenLines, Send(line)
  PROVE  stdout' \in Seq(WrittenLines)
BY DEF PipeTypeInv, Send

LEMMA TaskTypes ==
  ASSUME RpcInv, NEW t \in Tasks, TaskStep(t)
  PROVE  ServerTypeInv' /\ PipeTypeInv'
<1> USE DEF RpcInv, ServerTypeInv, InWork, Ended, Outcomes
<1>1. CASE Opened(t)
  <2>1. own' \in [Tasks -> Nat]
    BY <1>1 DEF Opened, Sessions
  <2> QED BY <1>1, <2>1 DEF Opened, Step, pipes, reg, PipeTypeInv
<1>2. CASE Insert(t)
  BY <1>2 DEF Insert, EndsWith, pipes, reg, PipeTypeInv
<1>3. CASE Deregister(t)
  BY <1>3 DEF Deregister, Step, pipes, PipeTypeInv
<1>4. CASE Answer(t)
  <2>1. Line(out[t], req[t].id, own[t]) \in WrittenLines
    BY <1>4 DEF Answer, Step, Line, WrittenLines, ReadFrames, Abouts
  <2>2. stdout' \in Seq(WrittenLines)
    BY <1>4, <2>1, SendTypes DEF Answer
  <2> QED BY <1>4, <2>2 DEF Answer, Step, PipeTypeInv
<1>5. CASE Progress(t)
  <2>1. tpc[t] = "work" /\ req[t] \in ReadFrames
    BY <1>5 DEF Progress
  <2>2. Line("progress", req[t].id, 0) \in WrittenLines
    BY <2>1 DEF Line, WrittenLines, ReadFrames, Abouts
  <2>3. stdout' \in Seq(WrittenLines)
    BY <1>5, <2>2, SendTypes DEF Progress
  <2> QED BY <1>5, <2>3 DEF Progress, reg, PipeTypeInv
<1>6. CASE \/ Refuse(t) \/ Initialize(t) \/ BeginWork(t) \/ LookUp(t) \/ Remove(t)
           \/ AskLock(t) \/ Locked(t)
           \/ FinishTool(t) \/ FinishCrawl(t) \/ OpenFails(t) \/ FinishFetch(t) \/ FinishClose(t)
           \/ Cancelled(t)
  <2>1. Goes(t) /\ Quiet(t)
    BY <1>6, QuietSteps
  <2>2. UNCHANGED pipes
    BY <1>6 DEF Refuse, Initialize, BeginWork, LookUp, Remove, AskLock, Locked, FinishTool,
                FinishCrawl, OpenFails, FinishFetch, FinishClose, Cancelled
  <2> QED BY <2>1, <2>2 DEF Goes, Quiet, pipes, PipeTypeInv
<1> QED BY <1>1, <1>2, <1>3, <1>4, <1>5, <1>6 DEF TaskStep

-----------------------------------------------------------------------------
(***************************************************************************)
(* The invariant holds in every state.                                     *)
(***************************************************************************)
LEMMA TaskKeeps ==
  ASSUME RpcInv, NEW t \in Tasks, TaskStep(t)
  PROVE  OutcomeInv' /\ RegistryExact' /\ NoOrphanSession'
<1> USE DEF InWork, Ended, Outcomes
<1>0. ServerTypeInv /\ OutcomeInv /\ RegistryExact /\ NoOrphanSession
  BY DEF RpcInv
<1>1. CASE Opened(t)
  <2>1. Goes(t) /\ UNCHANGED <<out, table>> /\ own' = [own EXCEPT ![t] = own'[t]] /\ tpc[t] = "work"
    BY <1>0, <1>1 DEF Opened, Step, Goes, ServerTypeInv, pipes, reg
  <2>2. out[t] = "none"
    BY <1>0, <2>1 DEF OutcomeInv
  <2>3. OutcomeInv' /\ NoOrphanSession'
    BY <1>0, <2>1, <2>2 DEF OutcomeInv, NoOrphanSession, ServerTypeInv, Goes
  <2> QED BY <2>1, <2>3, RegistryKept
<1>2. CASE Insert(t)
  <2>1. /\ tpc[t] = "insert" /\ tpc' = [tpc EXCEPT ![t] = "deregister"]
        /\ out' = [out EXCEPT ![t] = "ok"]
        /\ table' = table \cup {own[t]} /\ UNCHANGED <<own, main, registry, req>>
    BY <1>2 DEF Insert, EndsWith, pipes, reg
  <2>2. Goes(t)
    BY <1>0, <2>1 DEF Goes, ServerTypeInv
  <2>3. OutcomeInv'
    BY <1>0, <2>1 DEF OutcomeInv, ServerTypeInv
  <2>4. NoOrphanSession'
    BY <1>0, <2>1 DEF NoOrphanSession, ServerTypeInv
  <2> QED BY <2>2, <2>3, <2>4, RegistryKept
<1>3. CASE Deregister(t)
  <2>1. /\ tpc[t] = "deregister" /\ tpc' = [tpc EXCEPT ![t] = "answer"] /\ main # "down"
        /\ registry' = [registry EXCEPT ![req[t].id] = 0]
        /\ UNCHANGED <<main, req, out, own, table>>
    BY <1>3 DEF Deregister, Step, pipes, browser
  <2>2. OutcomeInv' /\ NoOrphanSession'
    BY <1>0, <2>1 DEF OutcomeInv, NoOrphanSession, ServerTypeInv
  <2>3. RegistryExact'
    <3>1. req[t].id \in Ids /\ registry[req[t].id] = t
      BY <1>0, <2>1 DEF RegistryExact, ServerTypeInv, Live, ReadFrames
    <3>2. \A u \in Tasks : Live(u)' <=> Live(u) /\ u # t
      BY <1>0, <2>1 DEF ServerTypeInv, Live
    <3>3. ASSUME NEW u \in Tasks, Live(u)' PROVE registry'[req'[u].id] = u
      <4>1. Live(u) /\ u # t /\ registry[req[u].id] = u
        BY <1>0, <2>1, <3>2, <3>3 DEF RegistryExact
      <4> QED BY <1>0, <2>1, <3>1, <4>1 DEF ServerTypeInv
    <3>4. ASSUME NEW i \in Ids, registry'[i] # 0 PROVE (Live(registry[i]) /\ req[registry[i]].id = i)'
      <4>1. i # req[t].id /\ registry'[i] = registry[i] /\ registry[i] \in Tasks
        BY <1>0, <2>1, <3>1, <3>4 DEF ServerTypeInv
      <4>2. Live(registry[i]) /\ req[registry[i]].id = i /\ registry[i] # t
        BY <1>0, <2>1, <3>4, <4>1 DEF RegistryExact
      <4> QED BY <1>0, <2>1, <4>1, <4>2 DEF Live, ServerTypeInv
    <3> QED BY <3>3, <3>4 DEF RegistryExact
  <2> QED BY <2>2, <2>3
<1>4. CASE Answer(t)
  <2>1. /\ tpc[t] = "answer" /\ tpc' = [tpc EXCEPT ![t] = "done"]
        /\ UNCHANGED <<main, registry, req, out, own, table>>
    BY <1>4 DEF Answer, Step, browser
  <2>2. \A u \in Tasks : Live(u)' <=> Live(u)
    BY <1>0, <2>1 DEF ServerTypeInv, Live
  <2>3. \A i \in Ids : registry[i] # 0 => registry[i] \in Tasks
    BY <1>0 DEF ServerTypeInv
  <2> QED BY <1>0, <2>1, <2>2, <2>3 DEF OutcomeInv, NoOrphanSession, RegistryExact, ServerTypeInv
<1>5. CASE \/ Refuse(t) \/ Initialize(t) \/ BeginWork(t) \/ LookUp(t) \/ Remove(t)
           \/ AskLock(t) \/ Locked(t) \/ Progress(t)
           \/ FinishTool(t) \/ FinishCrawl(t) \/ OpenFails(t) \/ FinishFetch(t) \/ FinishClose(t)
           \/ Cancelled(t)
  BY <1>5, QuietSteps, RegistryKept, TableKept
<1> QED BY <1>1, <1>2, <1>3, <1>4, <1>5 DEF TaskStep

\* The loop of rpc::run.
LEMMA LoopKeeps ==
  ASSUME RpcInv, Read \/ EndOfInput \/ Return
  PROVE  /\ PipeTypeInv' /\ ServerTypeInv'
         /\ OutcomeInv' /\ RegistryExact' /\ NoOrphanSession'
<1> USE DEF InWork, Ended, Outcomes
<1>0. PipeTypeInv /\ ServerTypeInv /\ OutcomeInv /\ RegistryExact /\ NoOrphanSession
  BY DEF RpcInv
<1>1. CASE Read
  <2> DEFINE f == Head(stdin)
  <2>1. f \in ReadFrames /\ stdin' \in Seq(ReadFrames) /\ main = "read"
    BY <1>0, <1>1 DEF Read, PipeTypeInv
  <2>2. UNCHANGED <<out, own, table>> /\ main' # "down"
    BY <1>1 DEF Read, browser
  <2>3. CASE UNCHANGED <<registry, tpc, req>>
    <3>1. stdout' \in Seq(WrittenLines)
      <4>1. \A a \in {"duplicate", "null"} : Line(a, f.id, 0) \in WrittenLines
        BY <2>1 DEF Line, WrittenLines, ReadFrames, Abouts
      <4>2. UNCHANGED stdout \/ Send(Line("duplicate", f.id, 0)) \/ Send(Line("null", f.id, 0))
        <5>1. \/ f.kind \in Methods /\ Register(f)
              \/ CancelRequest(f)
              \/ Send(Line("null", f.id, 0))
              \/ UNCHANGED stdout
          BY <1>1 DEF Read
        <5>2. Register(f) => UNCHANGED stdout \/ Send(Line("duplicate", f.id, 0))
          BY DEF Register
        <5> QED BY <5>1, <5>2 DEF CancelRequest
      <4> QED BY <1>0, <4>1, <4>2, SendTypes DEF PipeTypeInv
    <3>2. \A i \in Ids : registry[i] # 0 => registry[i] \in Tasks
      BY <1>0 DEF ServerTypeInv
    <3> QED BY <1>0, <2>1, <2>2, <2>3, <3>1, <3>2
            DEF PipeTypeInv, ServerTypeInv, OutcomeInv, RegistryExact, NoOrphanSession, Live
  <2>4. CASE /\ registry[f.id] = 0 /\ UNCHANGED stdout
             /\ \E t \in Free : /\ registry' = [registry EXCEPT ![f.id] = t]
                               /\ tpc' = [tpc EXCEPT ![t] = "begin"]
                               /\ req' = [req EXCEPT ![t] = f]
    <3>1. PICK t \in Free : /\ registry' = [registry EXCEPT ![f.id] = t]
                            /\ tpc' = [tpc EXCEPT ![t] = "begin"]
                            /\ req' = [req EXCEPT ![t] = f]
      BY <2>4
    <3>2. t \in Tasks /\ tpc[t] = "none" /\ ~Live(t) /\ t # 0
      BY DEF Free, Live, Tasks
    <3>3. f.id \in Ids
      BY <2>1 DEF ReadFrames
    <3>4. PipeTypeInv' /\ ServerTypeInv'
      <4> HIDE DEF f
      <4> QED BY <1>0, <2>1, <2>2, <2>4, <3>1, <3>2, <3>3 DEF PipeTypeInv, ServerTypeInv
    <3>5. OutcomeInv' /\ NoOrphanSession'
      <4> HIDE DEF f
      <4> QED BY <1>0, <2>2, <3>1, <3>2 DEF OutcomeInv, NoOrphanSession, ServerTypeInv
    <3>6. \A u \in Tasks : Live(u)' <=> Live(u) \/ u = t
      BY <1>0, <3>1, <3>2 DEF ServerTypeInv, Live
    <3>7. ASSUME NEW u \in Tasks, Live(u)' PROVE registry'[req'[u].id] = u
      <4> HIDE DEF f
      <4>1. CASE u = t
        BY <1>0, <3>1, <3>2, <3>3, <4>1 DEF ServerTypeInv
      <4>2. CASE u # t
        <5>1. Live(u) /\ registry[req[u].id] = u /\ u # 0
          BY <1>0, <2>1, <3>6, <3>7, <4>2 DEF RegistryExact, Tasks
        <5>2. req'[u] = req[u] /\ req[u].id # f.id
          BY <1>0, <2>4, <3>1, <3>2, <4>2, <5>1 DEF ServerTypeInv
        <5>3. req[u].id \in Ids
          BY <1>0, <5>1 DEF ServerTypeInv, Live, ReadFrames
        <5> QED BY <1>0, <3>1, <5>1, <5>2, <5>3 DEF ServerTypeInv
      <4> QED BY <4>1, <4>2
    <3>8. ASSUME NEW i \in Ids, registry'[i] # 0 PROVE (Live(registry[i]) /\ req[registry[i]].id = i)'
      <4> HIDE DEF f
      <4>1. CASE i = f.id
        <5>1. registry'[i] = t /\ req'[t] = f
          BY <1>0, <3>1, <3>2, <3>3, <4>1 DEF ServerTypeInv
        <5> QED BY <1>0, <3>1, <3>2, <4>1, <5>1 DEF Live, ServerTypeInv
      <4>2. CASE i # f.id
        <5>1. registry'[i] = registry[i] /\ registry[i] \in Tasks
          BY <1>0, <3>1, <3>3, <3>8, <4>2 DEF ServerTypeInv
        <5>2. Live(registry[i]) /\ req[registry[i]].id = i /\ registry[i] # t
          BY <1>0, <2>1, <3>2, <3>8, <5>1 DEF RegistryExact
        <5>3. req'[registry[i]] = req[registry[i]]
          BY <1>0, <3>1, <3>2, <5>1, <5>2 DEF ServerTypeInv
        <5> QED BY <1>0, <3>1, <3>2, <5>1, <5>2, <5>3 DEF Live, ServerTypeInv
      <4> QED BY <4>1, <4>2
    <3> QED BY <3>4, <3>5, <3>7, <3>8 DEF RegistryExact
  <2>5. \/ f.kind \in Methods /\ Register(f)
        \/ UNCHANGED <<registry, tpc, req>>
    BY <1>1 DEF Read, CancelRequest, reg
  <2>6. CASE Register(f)
    <3>1. CASE UNCHANGED <<registry, tpc, req>>
      BY <2>3, <3>1
    <3>2. CASE /\ registry[f.id] = 0 /\ Free # {}
               /\ LET t == CHOOSE u \in Free : TRUE IN
                  /\ registry' = [registry EXCEPT ![f.id] = t]
                  /\ tpc' = [tpc EXCEPT ![t] = "begin"]
                  /\ req' = [req EXCEPT ![t] = f]
               /\ UNCHANGED <<stdout, tokens>>
      <4> DEFINE t == CHOOSE u \in Free : TRUE
      <4>1. t \in Free
        BY <3>2
      <4> QED BY <2>4, <3>2, <4>1
    <3> QED BY <2>6, <3>1, <3>2 DEF Register
  <2> QED BY <2>3, <2>5, <2>6
<1>2. CASE EndOfInput
  <2>1. UNCHANGED <<stdin, stdout, registry, tpc, req, out, own, table>> /\ main # "down"
    BY <1>2 DEF EndOfInput, pipes, reg, work, browser
  <2>2. \A i \in Ids : registry[i] # 0 => registry[i] \in Tasks
    BY <1>0 DEF ServerTypeInv
  <2> QED BY <1>0, <2>1, <2>2
          DEF PipeTypeInv, ServerTypeInv, OutcomeInv, RegistryExact, NoOrphanSession, Live
<1>3. CASE Return
  <2>1. /\ main' = "down" /\ table' = {}
        /\ tpc' = [t \in Tasks |-> IF tpc[t] = "none" THEN "none" ELSE "done"]
        /\ UNCHANGED <<stdin, stdout, registry, req, out, own>>
    BY <1>3 DEF Return, pipes, reg
  <2>2. OutcomeInv' /\ RegistryExact' /\ NoOrphanSession'
    BY <1>0, <2>1 DEF OutcomeInv, RegistryExact, NoOrphanSession
  <2> QED BY <1>0, <2>1, <2>2 DEF PipeTypeInv, ServerTypeInv
<1> QED BY <1>1, <1>2, <1>3

-----------------------------------------------------------------------------
(***************************************************************************)
(* The clients.                                                            *)
(***************************************************************************)
\* A client that talks to a process does not touch its state.
LEMMA ServerUntouched ==
  ASSUME RpcInv, UNCHANGED server
  PROVE  ServerTypeInv' /\ OutcomeInv' /\ RegistryExact' /\ NoOrphanSession'
<1>1. UNCHANGED <<main, registry, tpc, req, out, own, table>>
  BY DEF server, reg, work, browser
<1>2. \A i \in Ids : registry[i] # 0 => registry[i] \in Tasks
  BY DEF RpcInv, ServerTypeInv
<1> QED BY <1>1, <1>2
        DEF RpcInv, ServerTypeInv, OutcomeInv, RegistryExact, NoOrphanSession, Live

\* A process that starts knows of no request and no session.
LEMMA FreshServer ==
  ASSUME Fresh
  PROVE  ServerTypeInv /\ OutcomeInv /\ RegistryExact /\ NoOrphanSession
BY DEF Fresh, ServerTypeInv, OutcomeInv, RegistryExact, NoOrphanSession, Live, Outcomes

LEMMA ServerGone ==
  ASSUME ProcessGone
  PROVE  ServerTypeInv' /\ OutcomeInv' /\ RegistryExact' /\ NoOrphanSession'
BY DEF ProcessGone, ServerTypeInv, OutcomeInv, RegistryExact, NoOrphanSession, Live, Outcomes

LEMMA WrittenTypes ==
  ASSUME PipeTypeInv, NEW frames \in Seq(ReadFrames)
  PROVE  Written(frames) \in Seq(ReadFrames)
BY DEF PipeTypeInv, Written

LEMMA ConnectTypes ==
  ASSUME PipeTypeInv, NodeTypeInv, NEW frames \in Seq(ReadFrames), Connect(frames)
  PROVE  PipeTypeInv' /\ gen' \in Nat /\ UNCHANGED server /\ Generation \in Nat
<1>1. Written(frames) \in Seq(ReadFrames)
  BY WrittenTypes
<1>2. Generation \in Nat
  BY DEF NodeTypeInv, Generation
<1>3. gen' = Generation /\ UNCHANGED server
  BY DEF Connect
<1>4. stdin' \in Seq(ReadFrames) /\ stdout' \in Seq(WrittenLines)
  <2>1. CASE current
    BY <1>1, <2>1 DEF Connect, PipeTypeInv
  <2>2. CASE ~current
    BY <2>2, EmptySeq DEF Connect, PipeTypeInv
  <2> QED BY <2>1, <2>2
<1> QED BY <1>2, <1>3, <1>4 DEF PipeTypeInv

LEMMA NewCallTypes ==
  ASSUME PipeTypeInv, NodeTypeInv, NEW kind \in Kinds, NEW sid \in Nat, NEW state \in Fates,
         NewCall(kind, sid, state), objs' \in Seq(Handles)
  PROVE  PipeTypeInv' /\ NodeTypeInv' /\ UNCHANGED server
<1> DEFINE i == Len(calls) + 1
           c == [kind |-> kind, gen |-> Generation, sid |-> sid, state |-> state]
<1>1. /\ Len(calls) < MaxCalls /\ Connect(<<Frame(kind, i, sid)>>)
      /\ calls' = Append(calls, c) /\ fin' = fin
      /\ pending' \subseteq pending \cup {i} /\ streams' \subseteq streams \cup {i}
  BY DEF NewCall
<1>2. i \in 1..MaxCalls /\ MaxCalls \in Nat
  BY <1>1, NodeAssumption DEF NodeTypeInv
<1>3. Frame(kind, i, sid) \in ReadFrames
  BY <1>2, NodeAssumption DEF Frame, ReadFrames, Kinds, Methods
<1>4. PipeTypeInv' /\ gen' \in Nat /\ UNCHANGED server /\ Generation \in Nat
  <2>1. <<Frame(kind, i, sid)>> \in Seq(ReadFrames)
    BY <1>3
  <2> QED BY <1>1, <2>1, ConnectTypes
<1>5. c \in CallRecords
  BY <1>4 DEF CallRecords
<1>6. calls' \in Seq(CallRecords) /\ Len(calls') = i
  <2> HIDE DEF c
  <2> QED BY <1>1, <1>5 DEF NodeTypeInv
<1>7. pending' \subseteq Calls' /\ streams' \subseteq Calls'
  <2>1. Len(calls) \in Nat /\ Len(calls') = Len(calls) + 1
    BY <1>6, LenProperties DEF NodeTypeInv
  <2>2. Calls' = Calls \cup {i}
    BY <2>1 DEF Calls
  <2> QED BY <1>1, <2>2 DEF NodeTypeInv
<1> QED BY <1>1, <1>2, <1>4, <1>6, <1>7 DEF NodeTypeInv

\* Calls keep their number while their records change.
LEMMA CallsKept ==
  ASSUME NodeTypeInv, NEW how \in Fates, NEW i \in Calls
  PROVE  /\ [calls EXCEPT ![i].state = how] \in Seq(CallRecords)
         /\ Len([calls EXCEPT ![i].state = how]) = Len(calls)
<1> DEFINE d == [calls EXCEPT ![i].state = how]
<1>1. Len(calls) \in Nat /\ calls \in [1..Len(calls) -> CallRecords]
  BY LenProperties DEF NodeTypeInv
<1>2. [calls[i] EXCEPT !.state = how] \in CallRecords
  BY <1>1 DEF CallRecords, Calls
<1>3. d \in [1..Len(calls) -> CallRecords]
  BY <1>1, <1>2 DEF Calls
<1> HIDE DEF d
<1>4. d \in Seq(CallRecords)
  BY <1>1, <1>3, SeqDef
<1>5. Len(d) = Len(calls)
  <2>1. Len(d) \in Nat /\ DOMAIN d = 1..Len(d)
    BY <1>4, LenProperties
  <2> QED BY <1>1, <1>3, <2>1
<1> QED BY <1>4, <1>5 DEF d

LEMMA UserTypes ==
  ASSUME RpcInv, UserStep, ~Shutdown
  PROVE  PipeTypeInv' /\ NodeTypeInv' /\ UNCHANGED server
<1>0. PipeTypeInv /\ NodeTypeInv /\ MaxCalls \in Nat
  BY NodeAssumption DEF RpcInv
<1>1. CASE Request
  BY <1>0, <1>1, NewCallTypes DEF Request, Kinds, Fates, Unsettled, NodeTypeInv
<1>2. CASE Crawl
  BY <1>0, <1>2, NewCallTypes DEF Crawl, Kinds, Fates, Unsettled, NodeTypeInv
<1>3. ASSUME NEW o \in 1..Len(objs), SessionFetch(o) \/ SessionClose(o)
      PROVE  PipeTypeInv' /\ NodeTypeInv' /\ UNCHANGED server
  <2>1. objs' \in Seq(Handles) /\ objs[o].sid \in Nat
    <3>1. objs[o] \in Handles /\ objs \in Seq(Handles)
      BY <1>0 DEF NodeTypeInv
    <3>2. [objs EXCEPT ![o].closed = TRUE] \in Seq(Handles)
      <4>1. [objs[o] EXCEPT !.closed = TRUE] \in Handles
        BY <3>1 DEF Handles
      <4> QED BY <3>1, <4>1
    <3> QED BY <1>3, <3>1, <3>2 DEF SessionFetch, SessionClose, Handles
  <2>2. CASE NewCall("fetch", objs[o].sid, "pending") \/ NewCall("close", objs[o].sid, "pending")
    BY <1>0, <2>1, <2>2, NewCallTypes DEF Kinds, Fates, Unsettled
  <2>3. CASE Connect(<<>>) /\ UNCHANGED <<calls, pending, streams, active, buf, fin, got>>
    <3>1. PipeTypeInv' /\ gen' \in Nat /\ UNCHANGED server
      <4>1. <<>> \in Seq(ReadFrames)
        BY EmptySeq
      <4> QED BY <1>0, <2>3, <4>1, ConnectTypes
    <3> QED BY <1>0, <2>1, <2>3, <3>1 DEF NodeTypeInv, Calls
  <2> QED BY <1>3, <2>2, <2>3 DEF SessionFetch, SessionClose
<1>4. ASSUME NEW i \in Calls, Abort(i) \/ StopEarly(i)
      PROVE  PipeTypeInv' /\ NodeTypeInv' /\ UNCHANGED server
  <2>1. Written(<<Cancellation(i)>>) \in Seq(ReadFrames)
    <3>1. i \in Ids
      BY <1>0, NodeAssumption DEF NodeTypeInv, Calls
    <3>2. Cancellation(i) \in ReadFrames
      BY <3>1 DEF Cancellation, Frame, ReadFrames, Notes
    <3>3. <<Cancellation(i)>> \in Seq(ReadFrames)
      BY <3>2
    <3> QED BY <1>0, <3>3, WrittenTypes
  <2>2. PipeTypeInv' /\ UNCHANGED server
    BY <1>0, <1>4, <2>1 DEF Abort, StopEarly, PipeTypeInv
  <2>3. calls' \in Seq(CallRecords) /\ Len(calls') = Len(calls)
    <3>1. UNCHANGED calls \/ Settle(i, "aborted") \/ Settle(i, "stopped")
      BY <1>4 DEF Abort, StopEarly
    <3>2. "aborted" \in Fates /\ "stopped" \in Fates
      BY DEF Fates
    <3>3. \A h \in {"aborted", "stopped"} :
             /\ [calls EXCEPT ![i].state = h] \in Seq(CallRecords)
             /\ Len([calls EXCEPT ![i].state = h]) = Len(calls)
      BY <1>0, <3>2, CallsKept
    <3> QED BY <1>0, <3>1, <3>3 DEF Settle, NodeTypeInv
  <2>4. /\ UNCHANGED <<gen, objs>> /\ pending' \subseteq pending /\ streams' \subseteq streams
        /\ fin' \in [1..MaxCalls -> Ends]
    BY <1>0, <1>4 DEF Abort, StopEarly, NodeTypeInv, Ends
  <2> QED BY <1>0, <2>2, <2>3, <2>4 DEF NodeTypeInv, Calls
<1> QED BY <1>1, <1>2, <1>3, <1>4 DEF UserStep

LEMMA ReceiveTypes ==
  ASSUME RpcInv, Receive
  PROVE  PipeTypeInv' /\ NodeTypeInv' /\ UNCHANGED server
<1> DEFINE l == Head(stdout)
           how == IF l.about = "ok" THEN "ok" ELSE "error"
<1>0. PipeTypeInv /\ NodeTypeInv /\ MaxCalls \in Nat
  BY NodeAssumption DEF RpcInv
<1>1. l \in WrittenLines /\ PipeTypeInv' /\ UNCHANGED server /\ UNCHANGED gen
  BY <1>0 DEF Receive, PipeTypeInv
<1>2. how \in Fates /\ how \in Ends
  BY DEF Fates, Ends
<1>3. CASE l.id \notin pending \cup streams
  <2>1. UNCHANGED <<calls, pending, streams, fin, objs>>
    BY <1>3 DEF Receive
  <2> QED BY <1>0, <1>1, <2>1 DEF NodeTypeInv, Calls
<1>4. CASE l.id \in pending \cup streams
  <2>1. l.id \in Calls /\ l.id \in 1..MaxCalls
    <3>1. Calls \subseteq 1..MaxCalls
      <4>1. Len(calls) \in Nat /\ Len(calls) <= MaxCalls
        BY <1>0, LenProperties DEF NodeTypeInv
      <4> QED BY <1>0, <4>1 DEF Calls
    <3> HIDE DEF l
    <3> QED BY <1>0, <1>4, <3>1 DEF NodeTypeInv
  <2>2. calls' \in Seq(CallRecords) /\ Len(calls') = Len(calls)
    <3>1. UNCHANGED calls \/ Settle(l.id, "busy") \/ Settle(l.id, how)
      BY <1>4 DEF Receive
    <3>2. "busy" \in Fates
      BY DEF Fates, Unsettled
    <3> HIDE DEF l, how
    <3>3. \A h \in {"busy", how} :
             /\ [calls EXCEPT ![l.id].state = h] \in Seq(CallRecords)
             /\ Len([calls EXCEPT ![l.id].state = h]) = Len(calls)
      BY <1>0, <1>2, <2>1, <3>2, CallsKept
    <3> QED BY <1>0, <3>1, <3>3 DEF Settle, NodeTypeInv
  <2>3. pending' \subseteq pending /\ streams' \subseteq streams
    BY <1>4 DEF Receive
  <2>4. fin' \in [1..MaxCalls -> Ends]
    <3>1. fin' = fin \/ fin' = [fin EXCEPT ![l.id] = how]
      BY <1>4 DEF Receive
    <3> HIDE DEF l, how
    <3> QED BY <1>0, <1>2, <2>1, <3>1 DEF NodeTypeInv
  <2>5. objs' \in Seq(Handles)
    <3>1. objs' = objs \/ objs' = Append(objs, [sid |-> l.sid, gen |-> calls[l.id].gen, closed |-> FALSE])
      BY <1>4 DEF Receive
    <3>2. calls[l.id].gen \in Nat /\ l.sid \in Nat
      <4>1. calls \in [Calls -> CallRecords]
        BY <1>0, LenProperties DEF NodeTypeInv, Calls
      <4> HIDE DEF l
      <4> QED BY <1>1, <2>1, <4>1 DEF CallRecords, WrittenLines
    <3> HIDE DEF l
    <3>3. PICK h \in Handles : h = [sid |-> l.sid, gen |-> calls[l.id].gen, closed |-> FALSE]
      BY <3>2 DEF Handles
    <3>4. objs \in Seq(Handles)
      BY <1>0 DEF NodeTypeInv
    <3>5. objs' = objs \/ objs' = Append(objs, h)
      BY <3>1, <3>3
    <3> QED BY <3>4, <3>5, AppendProperties
  <2> QED BY <1>0, <1>1, <2>2, <2>3, <2>4, <2>5 DEF NodeTypeInv, Calls
<1> QED BY <1>3, <1>4

LEMMA CloseTypes ==
  ASSUME NodeTypeInv, Close, UNCHANGED <<gen, objs>>
  PROVE  NodeTypeInv'
<1>1. calls \in Seq(CallRecords) /\ Len(calls) \in Nat /\ Len(calls) <= MaxCalls /\ MaxCalls \in Nat
      /\ fin \in [1..MaxCalls -> Ends]
  BY NodeAssumption, LenProperties DEF NodeTypeInv
<1>2. \A i \in Calls : [calls[i] EXCEPT !.state = "lost"] \in CallRecords /\ calls[i] \in CallRecords
  <2>1. calls \in [Calls -> CallRecords]
    BY LenProperties DEF NodeTypeInv, Calls
  <2>2. \A c \in CallRecords : [c EXCEPT !.state = "lost"] \in CallRecords
    BY DEF CallRecords, Fates
  <2> QED BY <2>1, <2>2
<1>3. calls' \in Seq(CallRecords) /\ Len(calls') = Len(calls)
  BY <1>1, <1>2 DEF Close, Calls
<1>4. fin' \in [1..MaxCalls -> Ends]
  BY <1>1 DEF Close, Ends
<1>5. /\ UNCHANGED <<gen, objs>> /\ pending' = {} /\ streams' = {}
      /\ gen \in Nat /\ objs \in Seq(Handles)
  BY DEF Close, NodeTypeInv
<1> QED BY <1>1, <1>3, <1>4, <1>5 DEF NodeTypeInv

-----------------------------------------------------------------------------
LEMMA RpcInitInv == RpcInit => RpcInv
<1> SUFFICES ASSUME RpcInit PROVE RpcInv
  OBVIOUS
<1>1. PipeTypeInv
  BY DEF RpcInit, PipeTypeInv
<1>2. NodeTypeInv
  BY NodeAssumption DEF RpcInit, NodeInit, NodeTypeInv, Calls, Ends
<1> QED BY <1>1, <1>2, FreshServer DEF RpcInit, RpcInv

LEMMA RpcStepInv == RpcInv /\ [RpcNext]_vars => RpcInv'
<1> SUFFICES ASSUME RpcInv, [RpcNext]_vars PROVE RpcInv'
  OBVIOUS
<1>0. PipeTypeInv /\ NodeTypeInv /\ MaxCalls \in Nat
  BY NodeAssumption DEF RpcInv
<1>1. CASE ServerStep /\ UNCHANGED node
  <2>1. NodeTypeInv'
    BY <1>0, <1>1 DEF NodeTypeInv, node, Calls
  <2> QED BY <1>1, <2>1, TaskTypes, TaskKeeps, LoopKeeps DEF ServerStep, RpcInv
<1>2. CASE AnyClient /\ UNCHANGED <<peer, server, node>>
  <2>1. PipeTypeInv'
    <3>1. Frames \subseteq ReadFrames
      BY RpcAssumption DEF Frames, ReadFrames, Sessions
    <3>2. \/ UNCHANGED stdin
          \/ \E f \in ReadFrames : stdin' = <<f>>
      BY <1>2, <3>1 DEF AnyClient
    <3>3. UNCHANGED stdout \/ stdout' = <<>> \/ (stdout # <<>> /\ stdout' = Tail(stdout))
      BY <1>2 DEF AnyClient
    <3>4. \A f \in ReadFrames : <<f>> \in Seq(ReadFrames)
      OBVIOUS
    <3> QED BY <1>0, <3>2, <3>3, <3>4, EmptySeq, HeadTailProperties DEF PipeTypeInv
  <2>2. NodeTypeInv'
    BY <1>0, <1>2 DEF NodeTypeInv, node, Calls
  <2> QED BY <1>2, <2>1, <2>2, ServerUntouched DEF RpcInv
<1>3. CASE Shutdown
  <2>1. PipeTypeInv' /\ UNCHANGED <<gen, objs>> /\ Close /\ ProcessGone
    BY <1>3 DEF Shutdown, PipeTypeInv
  <2> QED BY <1>0, <2>1, CloseTypes, ServerGone DEF RpcInv
<1>4. CASE UserStep /\ ~Shutdown
  BY <1>4, UserTypes, ServerUntouched DEF RpcInv
<1>5. CASE Receive
  BY <1>5, ReceiveTypes, ServerUntouched DEF RpcInv
<1>6. CASE ExitEvent
  <2>1. PipeTypeInv' /\ UNCHANGED <<gen, objs>> /\ Close /\ UNCHANGED server
    BY <1>0, <1>6 DEF ExitEvent, PipeTypeInv
  <2> QED BY <1>0, <2>1, CloseTypes, ServerUntouched DEF RpcInv
<1>7. ASSUME NEW i \in Calls, Next(i) PROVE RpcInv'
  <2>1. PipeTypeInv' /\ UNCHANGED server /\ UNCHANGED <<gen, pending, streams, fin, objs>>
    BY <1>0, <1>7 DEF Next, PipeTypeInv, pipes
  <2>2. calls' \in Seq(CallRecords) /\ Len(calls') = Len(calls)
    <3>1. fin[i] \in Ends
      BY <1>0 DEF NodeTypeInv, Calls
    <3>2. UNCHANGED calls \/ Settle(i, IF fin[i] = "no" THEN "waiting" ELSE fin[i])
      BY <1>7 DEF Next
    <3>3. (IF fin[i] = "no" THEN "waiting" ELSE fin[i]) \in Fates
      BY <3>1 DEF Ends, Fates, Unsettled
    <3> QED BY <1>0, <3>2, <3>3, CallsKept DEF Settle, NodeTypeInv
  <2>3. NodeTypeInv'
    BY <1>0, <2>1, <2>2 DEF NodeTypeInv, Calls
  <2> QED BY <2>1, <2>3, ServerUntouched DEF RpcInv
<1>8. CASE Die
  <2>1. PipeTypeInv'
    <3>1. \A n \in 0..Len(stdout) : SubSeq(stdout, 1, n) \in Seq(WrittenLines)
      BY <1>0 DEF PipeTypeInv
    <3> QED BY <1>8, <3>1 DEF Die, PipeTypeInv
  <2>2. NodeTypeInv' /\ ProcessGone
    BY <1>0, <1>8 DEF Die, NodeTypeInv, Calls
  <2> QED BY <2>1, <2>2, ServerGone DEF RpcInv
<1>9. CASE UNCHANGED vars
  <2>1. PipeTypeInv' /\ NodeTypeInv' /\ UNCHANGED server
    BY <1>0, <1>9 DEF vars, pipes, node, PipeTypeInv, NodeTypeInv, Calls
  <2> QED BY <2>1, ServerUntouched DEF RpcInv
<1> QED BY <1>1, <1>2, <1>3, <1>4, <1>5, <1>6, <1>7, <1>8, <1>9
        DEF RpcNext, NodeStep, EventStep, Finished

\* The registry of requests in flight (rpc.rs, spawn_request and cancel): a cancellation reaches the
\* request it names and no other, whatever ids clients use twice and whenever a process dies.
THEOREM CancellationsReach == Spec => []RegistryExact
<1>1. RpcInv => RegistryExact
  BY DEF RpcInv
<1> QED BY <1>1, RpcInitInv, RpcStepInv, PTL DEF Spec

\* session/open enters a session in the table and ends with its number in one poll (rpc/dispatch.rs):
\* no cancellation leaves a session in the table whose number nobody is told.
THEOREM SessionsReachable == Spec => []NoOrphanSession
<1>1. RpcInv => NoOrphanSession
  BY DEF RpcInv
<1> QED BY <1>1, RpcInitInv, RpcStepInv, PTL DEF Spec

-----------------------------------------------------------------------------
(***************************************************************************)
(* The sessions' slots and their locks.                                    *)
(***************************************************************************)
In(u, w) == \E i \in 1..Len(w) : w[i] = u

Once(w) == \A i, j \in 1..Len(w) : w[i] = w[j] => i = j

SlotTypes ==
  /\ table \subseteq Sessions
  /\ slot \in [Sessions -> {"unused", "new", "open", "dead", "closing", "gone"}]
  /\ queue \in [Sessions -> Seq(Tasks)]

\* A task is in line for a slot's lock until its handler lets the lock go.
InLine(t) == tpc[t] = "lock" \/ (tpc[t] = "work" /\ req[t].kind = "fetch")

\* The queue of a slot's lock is of the tasks in line for it, each once, and its holder is the first.
LineInv ==
  /\ \A s \in Sessions : Once(queue[s])
  /\ \A s \in Sessions, t \in Tasks : \A i \in 1..Len(queue[s]) :
       queue[s][i] = t => InLine(t) /\ req[t].sid = s /\ (tpc[t] = "work" => i = 1)
  /\ \A t \in Tasks : InLine(t) => /\ req[t].kind \in OnSession /\ req[t].sid \in Sessions
                                   /\ In(t, queue[req[t].sid])

\* A slot is in the table, or held by a task, only once it was filled; a fetch uses one that is
\* open, and what a close has taken out is not.
SlotInv ==
  /\ \A s \in table : slot[s] \notin {"unused", "new"}
  /\ \A t \in Tasks : tpc[t] = "slot" => req[t].kind \in OnSession
  /\ \A t \in Tasks : Holding(t) => /\ req[t].sid \in Sessions
                                    /\ slot[req[t].sid] \notin {"unused", "new"}
  /\ \A t \in Tasks : tpc[t] = "work" =>
       /\ req[t].kind = "fetch" => slot[req[t].sid] \in {"open", "dead"}
       /\ req[t].kind = "close" => slot[req[t].sid] \in {"closing", "gone"}
  /\ \A t \in Tasks : tpc[t] = "insert" =>
       /\ own[t] \in Sessions /\ slot[own[t]] = "new" /\ req[t].kind = "open"
       /\ \A u \in Tasks : tpc[u] = "insert" /\ own[u] = own[t] => u = t

LockInv == SlotTypes /\ LineInv /\ SlotInv

\* v is w without its k-th element.
Without(v, w, k) ==
  /\ Len(v) + 1 = Len(w)
  /\ \A i \in 1..Len(v) : v[i] = IF i < k THEN w[i] ELSE w[i + 1]

\* An element leaves a sequence.
LEMMA OneLeaves ==
  ASSUME NEW S, NEW w \in Seq(S), NEW k \in 1..Len(w)
  PROVE  /\ SubSeq(w, 1, k - 1) \o SubSeq(w, k + 1, Len(w)) \in Seq(S)
         /\ Without(SubSeq(w, 1, k - 1) \o SubSeq(w, k + 1, Len(w)), w, k)
<1> DEFINE a == SubSeq(w, 1, k - 1)
           b == SubSeq(w, k + 1, Len(w))
<1>1. Len(w) \in Nat /\ k \in Nat /\ k >= 1 /\ k <= Len(w) /\ \A i \in 1..Len(w) : w[i] \in S
  BY LenProperties, ElementOfSeq
<1>2. /\ a \in Seq(S) /\ Len(a) = k - 1
      /\ \A i \in 1..(k - 1) : a[i] = w[i]
  <2>1. 1 \in Int /\ k - 1 \in Int /\ \A i \in 1..(k - 1) : w[i] \in S
    BY <1>1
  <2>2. /\ SubSeq(w, 1, k - 1) \in Seq(S)
        /\ Len(SubSeq(w, 1, k - 1)) = IF 1 <= k - 1 THEN k - 1 - 1 + 1 ELSE 0
        /\ \A i \in 1..(k - 1 - 1 + 1) : SubSeq(w, 1, k - 1)[i] = w[1 + i - 1]
    BY <2>1, SubSeqProperties
  <2> HIDE DEF a
  <2> QED BY <1>1, <2>2 DEF a
<1>3. /\ b \in Seq(S) /\ Len(b) = Len(w) - k
      /\ \A i \in 1..(Len(w) - k) : b[i] = w[k + i]
  <2>1. k + 1 \in Int /\ Len(w) \in Int /\ \A i \in (k + 1)..Len(w) : w[i] \in S
    BY <1>1
  <2>2. /\ SubSeq(w, k + 1, Len(w)) \in Seq(S)
        /\ Len(SubSeq(w, k + 1, Len(w))) = IF k + 1 <= Len(w) THEN Len(w) - (k + 1) + 1 ELSE 0
        /\ \A i \in 1..(Len(w) - (k + 1) + 1) : SubSeq(w, k + 1, Len(w))[i] = w[k + 1 + i - 1]
    BY <2>1, SubSeqProperties
  <2> HIDE DEF b
  <2> QED BY <1>1, <2>2 DEF b
<1> HIDE DEF a, b
<1>4. /\ a \o b \in Seq(S) /\ Len(a \o b) = Len(a) + Len(b)
      /\ \A i \in 1..(Len(a) + Len(b)) : (a \o b)[i] = IF i <= Len(a) THEN a[i] ELSE b[i - Len(a)]
  BY <1>2, <1>3, ConcatProperties
<1>5. Without(a \o b, w, k)
  BY <1>1, <1>2, <1>3, <1>4 DEF Without
<1> QED BY <1>4, <1>5 DEF a, b

\* The others move up, each of them once.
LEMMA OthersStay ==
  ASSUME NEW S, NEW w \in Seq(S), NEW v \in Seq(S), Once(w), NEW k \in 1..Len(w), Without(v, w, k)
  PROVE  /\ Once(v)
         /\ \A i \in 1..Len(v) : /\ v[i] # w[k]
                                 /\ \E j \in 1..Len(w) : v[i] = w[j] /\ (j = 1 => i = 1)
         /\ \A u : In(u, w) /\ u # w[k] => In(u, v)
<1>1. Len(w) \in Nat /\ Len(v) \in Nat /\ Len(v) + 1 = Len(w)
  BY LenProperties DEF Without
<1>2. ASSUME NEW i \in 1..Len(v)
      PROVE  /\ v[i] = w[IF i < k THEN i ELSE i + 1]
             /\ (IF i < k THEN i ELSE i + 1) \in 1..Len(w)
             /\ (IF i < k THEN i ELSE i + 1) # k
             /\ (IF i < k THEN i ELSE i + 1) = 1 => i = 1
  BY <1>1 DEF Without
<1>3. Once(v)
  <2>1. SUFFICES ASSUME NEW i \in 1..Len(v), NEW j \in 1..Len(v), v[i] = v[j] PROVE i = j
    BY DEF Once
  <2>2. (IF i < k THEN i ELSE i + 1) = (IF j < k THEN j ELSE j + 1)
    BY <1>2, <2>1 DEF Once
  <2> QED BY <1>1, <2>2
<1>4. ASSUME NEW i \in 1..Len(v)
      PROVE  v[i] # w[k] /\ \E j \in 1..Len(w) : v[i] = w[j] /\ (j = 1 => i = 1)
  <2> DEFINE j == IF i < k THEN i ELSE i + 1
  <2>1. v[i] = w[j] /\ j \in 1..Len(w) /\ j # k /\ (j = 1 => i = 1)
    BY <1>2
  <2> HIDE DEF j
  <2> QED BY <2>1 DEF Once
<1>5. ASSUME NEW u, In(u, w), u # w[k] PROVE In(u, v)
  <2>1. PICK i \in 1..Len(w) : w[i] = u
    BY <1>5 DEF In
  <2>2. CASE i < k
    <3>1. i \in 1..Len(v) /\ v[i] = u
      BY <1>1, <2>1, <2>2 DEF Without
    <3> QED BY <3>1 DEF In
  <2>3. CASE i > k
    <3>1. i - 1 \in 1..Len(v) /\ v[i - 1] = u
      BY <1>1, <2>1, <2>3 DEF Without
    <3> QED BY <3>1 DEF In
  <2> QED BY <1>1, <1>5, <2>1, <2>2, <2>3
<1> QED BY <1>3, <1>4, <1>5

\* What t leaves behind of a queue w.
LeftOne(v, w, t) ==
  /\ Once(v)
  /\ \A i \in 1..Len(v) : v[i] # t /\ \E j \in 1..Len(w) : v[i] = w[j] /\ (j = 1 => i = 1)
  /\ \A u : In(u, w) /\ u # t => In(u, v)

\* Who leaves a lock's queue leaves the others in their order.
LEMMA QueueLeft ==
  ASSUME SlotTypes, LineInv, NEW s \in Sessions, NEW t \in Tasks, LeaveQueue(t, s)
  PROVE  /\ queue' \in [Sessions -> Seq(Tasks)]
         /\ \A r \in Sessions \ {s} : queue'[r] = queue[r]
         /\ LeftOne(queue'[s], queue[s], t)
<1>1. queue \in [Sessions -> Seq(Tasks)] /\ queue[s] \in Seq(Tasks) /\ Once(queue[s])
  BY DEF SlotTypes, LineInv
<1>2. CASE \E i \in 1..Len(queue[s]) :
             /\ queue[s][i] = t
             /\ queue' = [queue EXCEPT ![s] = SubSeq(queue[s], 1, i - 1)
                                              \o SubSeq(queue[s], i + 1, Len(queue[s]))]
  <2>1. PICK i \in 1..Len(queue[s]) :
             /\ queue[s][i] = t
             /\ queue' = [queue EXCEPT ![s] = SubSeq(queue[s], 1, i - 1)
                                              \o SubSeq(queue[s], i + 1, Len(queue[s]))]
    BY <1>2
  <2> DEFINE w == queue[s]
             v == SubSeq(w, 1, i - 1) \o SubSeq(w, i + 1, Len(w))
  <2>2. v \in Seq(Tasks) /\ Without(v, w, i)
    BY <1>1, OneLeaves
  <2>3. queue' = [queue EXCEPT ![s] = v]
    BY <2>1
  <2> HIDE DEF v
  <2>4. /\ queue' \in [Sessions -> Seq(Tasks)] /\ queue'[s] = v
        /\ \A r \in Sessions \ {s} : queue'[r] = queue[r]
    BY <1>1, <2>2, <2>3
  <2>5. /\ Once(v)
        /\ \A k \in 1..Len(v) : /\ v[k] # w[i]
                                /\ \E j \in 1..Len(w) : v[k] = w[j] /\ (j = 1 => k = 1)
        /\ \A u : In(u, w) /\ u # w[i] => In(u, v)
    BY <1>1, <2>2, OthersStay
  <2> QED BY <2>1, <2>4, <2>5 DEF LeftOne
<1>3. CASE (\A i \in 1..Len(queue[s]) : queue[s][i] # t) /\ UNCHANGED queue
  BY <1>1, <1>3 DEF LeftOne
<1> QED BY <1>2, <1>3 DEF LeaveQueue

\* A task that stays in line or out of it leaves the queues as they are.
LEMMA LineStays ==
  ASSUME ServerTypeInv, LineInv, NEW t \in Tasks, tpc' = [tpc EXCEPT ![t] = tpc'[t]],
         UNCHANGED <<req, queue>>, InLine(t)' <=> InLine(t),
         InLine(t) /\ tpc'[t] = "work" => tpc[t] = "work" \/ queue[req[t].sid][1] = t
  PROVE  LineInv'
<1>1. \A u \in Tasks \ {t} : tpc'[u] = tpc[u]
  BY DEF ServerTypeInv
<1>2. \A u \in Tasks : InLine(u)' <=> InLine(u)
  BY <1>1 DEF InLine
<1>3. ASSUME NEW s \in Sessions, NEW u \in Tasks, NEW i \in 1..Len(queue[s]), queue[s][i] = u
      PROVE  InLine(u)' /\ req[u].sid = s /\ (tpc'[u] = "work" => i = 1)
  <2>1. InLine(u) /\ req[u].sid = s /\ (tpc[u] = "work" => i = 1)
    BY <1>3 DEF LineInv
  <2>2. ASSUME queue[s][1] = u PROVE i = 1
    <3>1. 1 \in 1..Len(queue[s])
      OBVIOUS
    <3> QED BY <1>3, <2>2, <3>1 DEF LineInv, Once
  <2> QED BY <1>1, <1>2, <2>1, <2>2
<1> QED BY <1>2, <1>3 DEF LineInv

\* A task lets the lock, or its place in the queue, go.
LEMMA LineLeft ==
  ASSUME ServerTypeInv, SlotTypes, LineInv, NEW t \in Tasks, tpc' = [tpc EXCEPT ![t] = tpc'[t]],
         UNCHANGED req, InLine(t), LeaveQueue(t, req[t].sid), ~InLine(t)'
  PROVE  LineInv' /\ queue' \in [Sessions -> Seq(Tasks)]
<1>1. \A u \in Tasks \ {t} : tpc'[u] = tpc[u]
  BY DEF ServerTypeInv
<1>2. \A u \in Tasks : InLine(u)' <=> InLine(u) /\ u # t
  BY <1>1 DEF InLine
<1>3. PICK s \in Sessions : req[t].sid = s
  BY DEF LineInv
<1>a. LeaveQueue(t, s)
  BY <1>3 DEF LeaveQueue
<1>4. /\ queue' \in [Sessions -> Seq(Tasks)]
      /\ \A r \in Sessions \ {s} : queue'[r] = queue[r]
      /\ LeftOne(queue'[s], queue[s], t)
  BY <1>a, QueueLeft
<1>5. \A r \in Sessions : Once(queue'[r])
  BY <1>4 DEF LineInv, LeftOne
<1>6. ASSUME NEW r \in Sessions, NEW u \in Tasks, NEW i \in 1..Len(queue'[r]), queue'[r][i] = u
      PROVE  InLine(u)' /\ req[u].sid = r /\ (tpc'[u] = "work" => i = 1)
  <2>1. PICK j \in 1..Len(queue[r]) : queue[r][j] = u /\ (j = 1 => i = 1)
    BY <1>4, <1>6 DEF LeftOne
  <2>2. InLine(u) /\ req[u].sid = r /\ (tpc[u] = "work" => i = 1)
    BY <2>1 DEF LineInv
  <2>3. u # t
    BY <1>3, <1>4, <1>6, <2>2 DEF LeftOne
  <2> QED BY <1>1, <1>2, <2>2, <2>3
<1>7. ASSUME NEW u \in Tasks, InLine(u)'
      PROVE  req[u].kind \in OnSession /\ req[u].sid \in Sessions /\ In(u, queue'[req[u].sid])
  BY <1>2, <1>4, <1>7 DEF LineInv, LeftOne
<1> QED BY <1>4, <1>5, <1>6, <1>7 DEF LineInv

\* A task joins a queue at its end.
LEMMA LineJoined ==
  ASSUME ServerTypeInv, SlotTypes, LineInv, NEW t \in Tasks, ~InLine(t),
         tpc' = [tpc EXCEPT ![t] = "lock"], UNCHANGED req,
         req[t].kind \in OnSession, req[t].sid \in Sessions,
         queue' = [queue EXCEPT ![req[t].sid] = Append(@, t)]
  PROVE  LineInv' /\ queue' \in [Sessions -> Seq(Tasks)]
<1>1. tpc'[t] = "lock" /\ \A u \in Tasks \ {t} : tpc'[u] = tpc[u]
  BY DEF ServerTypeInv
<1>2. \A u \in Tasks : InLine(u)' <=> InLine(u) \/ u = t
  BY <1>1 DEF InLine
<1>3. PICK s \in Sessions : req[t].sid = s
  OBVIOUS
<1> DEFINE w == queue[s]
           v == Append(w, t)
<1>4. w \in Seq(Tasks) /\ Once(w) /\ \A i \in 1..Len(w) : w[i] # t
  BY DEF SlotTypes, LineInv
<1>5. /\ v \in Seq(Tasks) /\ Len(v) = Len(w) + 1 /\ Len(w) \in Nat
      /\ \A i \in 1..Len(w) : v[i] = w[i]
      /\ v[Len(w) + 1] = t
  BY <1>4, AppendProperties, LenProperties
<1>6. queue' = [queue EXCEPT ![s] = v]
  BY <1>3
<1> HIDE DEF v
<1>7. /\ queue' \in [Sessions -> Seq(Tasks)] /\ queue'[s] = v
      /\ \A r \in Sessions \ {s} : queue'[r] = queue[r]
  BY <1>5, <1>6 DEF SlotTypes
<1>8. Once(v)
  BY <1>4, <1>5 DEF Once
<1>9. \A r \in Sessions : Once(queue'[r])
  BY <1>7, <1>8 DEF LineInv
<1>10. ASSUME NEW r \in Sessions, NEW u \in Tasks, NEW i \in 1..Len(queue'[r]), queue'[r][i] = u
       PROVE  InLine(u)' /\ req[u].sid = r /\ (tpc'[u] = "work" => i = 1)
  <2>1. CASE i \in 1..Len(queue[r]) /\ queue[r][i] = u
    <3>1. InLine(u) /\ req[u].sid = r /\ (tpc[u] = "work" => i = 1)
      BY <2>1 DEF LineInv
    <3> QED BY <1>1, <1>2, <3>1
  <2>2. CASE r = s /\ u = t
    BY <1>1, <1>2, <1>3, <2>2
  <2> QED BY <1>5, <1>7, <1>10, <2>1, <2>2
<1>11. ASSUME NEW u \in Tasks, InLine(u)'
       PROVE  req[u].kind \in OnSession /\ req[u].sid \in Sessions /\ In(u, queue'[req[u].sid])
  <2>1. \A u2 : In(u2, w) \/ u2 = t => In(u2, v)
    BY <1>5 DEF In
  <2>2. CASE u = t
    BY <1>3, <1>7, <2>1, <2>2
  <2>3. CASE u # t
    <3>1. req[u].kind \in OnSession /\ req[u].sid \in Sessions /\ In(u, queue[req[u].sid])
      BY <1>2, <1>11, <2>3 DEF LineInv
    <3> QED BY <1>7, <2>1, <3>1
  <2> QED BY <2>2, <2>3
<1> QED BY <1>7, <1>9, <1>10, <1>11 DEF LineInv

\* One fetch at a time uses a session: the one at the head of the queue.
LEMMA UserFirst ==
  ASSUME SlotTypes, LineInv, NEW t \in Tasks, tpc[t] = "work", req[t].kind = "fetch"
  PROVE  req[t].sid \in Sessions /\ queue[req[t].sid][1] = t /\ Head(queue[req[t].sid]) = t
<1>1. InLine(t)
  BY DEF InLine
<1>2. PICK s \in Sessions : req[t].sid = s /\ In(t, queue[s])
  BY <1>1 DEF LineInv
<1>3. PICK i \in 1..Len(queue[s]) : queue[s][i] = t
  BY <1>2 DEF In
<1>4. i = 1
  BY <1>3 DEF LineInv
<1>5. queue[s] \in Seq(Tasks) /\ queue[s] # <<>>
  BY <1>3, EmptySeq DEF SlotTypes
<1> QED BY <1>2, <1>3, <1>4, <1>5

\* A task in line at the head of the queue: nobody else uses the session.
LEMMA HeadOfLine ==
  ASSUME SlotTypes, LineInv, NEW t \in Tasks, tpc[t] = "lock", Head(queue[req[t].sid]) = t
  PROVE  /\ queue[req[t].sid][1] = t
         /\ \A u \in Tasks : ~(tpc[u] = "work" /\ req[u].kind = "fetch" /\ req[u].sid = req[t].sid)
<1>1. InLine(t)
  BY DEF InLine
<1>2. PICK s \in Sessions : req[t].sid = s /\ In(t, queue[s])
  BY <1>1 DEF LineInv
<1>3. queue[s] \in Seq(Tasks) /\ queue[s] # <<>>
  <2>1. queue[s] \in Seq(Tasks) /\ ~In(t, <<>>)
    BY EmptySeq DEF SlotTypes, In
  <2> QED BY <1>2, <2>1
<1>4. queue[s][1] = t
  BY <1>2, <1>3
<1>5. ASSUME NEW u \in Tasks, tpc[u] = "work", req[u].kind = "fetch", req[u].sid = s PROVE FALSE
  <2>1. queue[s][1] = u
    BY <1>5, UserFirst
  <2> QED BY <1>4, <1>5, <2>1
<1> QED BY <1>2, <1>4, <1>5

-----------------------------------------------------------------------------
\* What a step of a task does to the slots: what was filled stays so, and a session in use is in it.
LEMMA SlotsKept ==
  ASSUME ServerTypeInv, SlotTypes, SlotInv, NEW t \in Tasks, tpc' = [tpc EXCEPT ![t] = tpc'[t]],
         UNCHANGED <<req, own>>,
         \A s \in Sessions : \/ slot'[s] = slot[s]
                             \/ /\ slot'[s] \notin {"unused", "new"}
                                /\ \/ slot[s] \notin {"unused", "new"}
                                   \/ tpc[t] = "insert" /\ own[t] = s,
         \A s \in table' : slot'[s] \notin {"unused", "new"},
         \A u \in Tasks : tpc'[u] = "work" =>
           /\ req[u].kind = "fetch" => slot'[req[u].sid] \in {"open", "dead"}
           /\ req[u].kind = "close" => slot'[req[u].sid] \in {"closing", "gone"},
         tpc'[t] # "insert", tpc'[t] = "slot" => req[t].kind \in OnSession,
         Holding(t)' => Holding(t) \/ req[t].sid \in table
  PROVE  SlotInv'
<1>1. \A u \in Tasks \ {t} : tpc'[u] = tpc[u]
  BY DEF ServerTypeInv
<1>2. \A u \in Tasks \ {t} : Holding(u)' <=> Holding(u)
  BY <1>1 DEF Holding
<1>3. \A s \in Sessions : slot[s] \notin {"unused", "new"} => slot'[s] \notin {"unused", "new"}
  OBVIOUS
<1>4. ASSUME NEW u \in Tasks, Holding(u)'
      PROVE  req[u].sid \in Sessions /\ slot'[req[u].sid] \notin {"unused", "new"}
  BY <1>2, <1>3, <1>4 DEF SlotInv, SlotTypes
<1>5. ASSUME NEW u \in Tasks, tpc'[u] = "insert"
      PROVE  /\ own[u] \in Sessions /\ slot'[own[u]] = "new" /\ req[u].kind = "open"
             /\ \A v \in Tasks : tpc'[v] = "insert" /\ own[v] = own[u] => v = u
  <2>1. u # t /\ tpc[u] = "insert"
    BY <1>1, <1>5
  <2>2. /\ own[u] \in Sessions /\ slot[own[u]] = "new" /\ req[u].kind = "open"
        /\ \A v \in Tasks : tpc[v] = "insert" /\ own[v] = own[u] => v = u
    BY <2>1 DEF SlotInv
  <2>3. slot'[own[u]] = "new"
    BY <2>1, <2>2
  <2> QED BY <1>1, <2>2, <2>3
<1>6. \A u \in Tasks : tpc'[u] = "slot" => req[u].kind \in OnSession
  BY <1>1 DEF SlotInv
<1> QED BY <1>4, <1>5, <1>6 DEF SlotInv

\* A step that neither fills nor empties a slot.
LEMMA SlotsSame ==
  ASSUME ServerTypeInv, SlotTypes, SlotInv, NEW t \in Tasks, tpc' = [tpc EXCEPT ![t] = tpc'[t]],
         UNCHANGED <<req, own, slot>>, table' \subseteq table, tpc'[t] # "insert",
         tpc'[t] = "slot" => req[t].kind \in OnSession,
         Holding(t)' => Holding(t) \/ req[t].sid \in table,
         tpc'[t] = "work" => \/ tpc[t] = "work" \/ req[t].kind \notin OnSession
                             \/ req[t].kind = "fetch" /\ slot[req[t].sid] \in {"open", "dead"}
  PROVE  SlotInv'
<1>1. \A u \in Tasks \ {t} : tpc'[u] = tpc[u]
  BY DEF ServerTypeInv
<1>2. \A s \in table' : slot'[s] \notin {"unused", "new"}
  BY DEF SlotInv
<1>3. ASSUME NEW u \in Tasks, tpc'[u] = "work"
      PROVE  /\ req[u].kind = "fetch" => slot'[req[u].sid] \in {"open", "dead"}
             /\ req[u].kind = "close" => slot'[req[u].sid] \in {"closing", "gone"}
  BY <1>1, <1>3 DEF SlotInv, OnSession
<1> QED BY <1>2, <1>3, SlotsKept

\* A task lets go of a slot that nobody else uses or has taken out.
LEMMA LetGoKeeps ==
  ASSUME ServerTypeInv, SlotTypes, SlotInv, NEW t \in Tasks, tpc' = [tpc EXCEPT ![t] = tpc'[t]],
         UNCHANGED <<req, own, table>>, tpc'[t] = "deregister",
         NEW s \in Sessions, Holding(t), req[t].sid = s,
         NEW holds, LetGo(t, s, holds), holds \notin {"unused", "new"},
         \A u \in Tasks \ {t} : tpc[u] = "work" /\ req[u].sid = s =>
           /\ req[u].kind = "fetch" => holds \in {"open", "dead"}
           /\ req[u].kind = "close" => holds \in {"closing", "gone"}
  PROVE  SlotInv'
<1>1. \A u \in Tasks \ {t} : tpc'[u] = tpc[u]
  BY DEF ServerTypeInv
<1>2. /\ \A r \in Sessions \ {s} : slot'[r] = slot[r]
      /\ slot'[s] \in {holds, "gone"}
      /\ (\E u \in Tasks \ {t} : Holding(u) /\ req[u].sid = s) => slot'[s] = holds
  BY DEF LetGo, SlotTypes
<1>3. slot[s] \notin {"unused", "new"} /\ slot'[s] \notin {"unused", "new"}
  BY <1>2 DEF SlotInv
<1>4. \A r \in table' : slot'[r] \notin {"unused", "new"}
  BY <1>2, <1>3 DEF SlotInv, SlotTypes
<1>5. ASSUME NEW u \in Tasks, tpc'[u] = "work"
      PROVE  /\ req[u].kind = "fetch" => slot'[req[u].sid] \in {"open", "dead"}
             /\ req[u].kind = "close" => slot'[req[u].sid] \in {"closing", "gone"}
  <2>1. u # t /\ tpc[u] = "work"
    BY <1>1, <1>5
  <2>2. CASE req[u].kind \in OnSession
    <3>1. Holding(u) /\ req[u].sid \in Sessions
      BY <2>1, <2>2 DEF Holding, SlotInv
    <3>2. CASE req[u].sid = s
      BY <1>2, <2>1, <3>1, <3>2
    <3>3. CASE req[u].sid # s
      BY <1>2, <2>1, <3>1, <3>3 DEF SlotInv
    <3> QED BY <3>2, <3>3
  <2> QED BY <2>2 DEF OnSession
<1>6. ~Holding(t)'
  BY DEF Holding
<1> QED BY <1>2, <1>3, <1>4, <1>5, <1>6, SlotsKept

-----------------------------------------------------------------------------
(***************************************************************************)
(* A step of a task and the locks.                                         *)
(***************************************************************************)
\* A task that is not at a lock, nor at a session.
LEMMA ApartKeeps ==
  ASSUME ServerTypeInv, LockInv, NEW t \in Tasks, tpc' = [tpc EXCEPT ![t] = tpc'[t]],
         UNCHANGED <<req, own, table, slot, queue>>,
         tpc[t] # "lock", tpc[t] = "work" => req[t].kind \notin OnSession,
         tpc'[t] \notin {"slot", "lock", "insert"}, tpc'[t] = "work" => req[t].kind \notin OnSession
  PROVE  LockInv'
<1>1. LineInv'
  <2>1. ~InLine(t) /\ ~InLine(t)'
    BY DEF InLine, OnSession
  <2> QED BY <2>1, LineStays DEF LockInv
<1>2. SlotInv'
  <2>1. ~Holding(t)'
    BY DEF Holding
  <2> QED BY <2>1, SlotsSame DEF LockInv
<1> QED BY <1>1, <1>2 DEF LockInv, SlotTypes

LEMMA ApartSteps ==
  ASSUME ServerTypeInv, LockInv, NEW t \in Tasks,
         \/ Refuse(t) \/ Initialize(t) \/ BeginWork(t) \/ Progress(t) \/ FinishTool(t)
         \/ FinishCrawl(t) \/ OpenFails(t) \/ Deregister(t) \/ Answer(t)
  PROVE  LockInv'
<1>1. UNCHANGED <<req, own, table, slot, queue>>
  BY DEF Refuse, Initialize, BeginWork, Progress, FinishTool, FinishCrawl, OpenFails, Deregister,
         Answer, browser
<1>2. \/ tpc[t] = "begin" /\ tpc' = [tpc EXCEPT ![t] = "deregister"]
      \/ /\ tpc[t] = "begin" /\ tpc' = [tpc EXCEPT ![t] = "work"]
         /\ req[t].kind \in {"tool", "crawl", "open"}
      \/ tpc[t] = "work" /\ req[t].kind = "crawl" /\ UNCHANGED tpc
      \/ /\ tpc[t] = "work" /\ tpc' = [tpc EXCEPT ![t] = "deregister"]
         /\ req[t].kind \in {"tool", "crawl", "open"}
      \/ tpc[t] = "deregister" /\ tpc' = [tpc EXCEPT ![t] = "answer"]
      \/ tpc[t] = "answer" /\ tpc' = [tpc EXCEPT ![t] = "done"]
  BY DEF Refuse, Initialize, BeginWork, Progress, FinishTool, FinishCrawl, OpenFails, Deregister,
         Answer, Step, EndsWith
<1>3. /\ tpc' = [tpc EXCEPT ![t] = tpc'[t]]
      /\ tpc[t] # "lock" /\ tpc'[t] \notin {"slot", "lock", "insert"}
      /\ tpc[t] = "work" => req[t].kind \notin OnSession
      /\ tpc'[t] = "work" => req[t].kind \notin OnSession
  BY <1>2 DEF ServerTypeInv, OnSession
<1> QED BY <1>1, <1>3, ApartKeeps

\* session/fetch looks its slot up, session/close removes it from the table.
LEMMA LookUpKeeps ==
  ASSUME ServerTypeInv, LockInv, NEW t \in Tasks, LookUp(t) \/ Remove(t)
  PROVE  LockInv'
<1>1. /\ UNCHANGED <<req, own, slot, queue>> /\ table' \subseteq table
      /\ tpc[t] = "begin" /\ req[t].kind \in OnSession
      /\ \/ tpc' = [tpc EXCEPT ![t] = "slot"] /\ req[t].sid \in table
         \/ tpc' = [tpc EXCEPT ![t] = "deregister"]
  BY DEF LookUp, Remove, Step, EndsWith, browser, OnSession
<1>2. /\ tpc' = [tpc EXCEPT ![t] = tpc'[t]] /\ tpc'[t] \in {"slot", "deregister"}
      /\ tpc'[t] = "slot" => req[t].sid \in table
  BY <1>1 DEF ServerTypeInv
<1>3. LineInv'
  <2>1. ~InLine(t) /\ ~InLine(t)'
    BY <1>1, <1>2 DEF InLine
  <2> QED BY <1>1, <1>2, <2>1, LineStays DEF LockInv
<1>4. SlotInv'
  <2>1. Holding(t)' => req[t].sid \in table
    BY <1>1, <1>2 DEF Holding
  <2> QED BY <1>1, <1>2, <2>1, SlotsSame DEF LockInv
<1> QED BY <1>1, <1>3, <1>4 DEF LockInv, SlotTypes

\* slot.lock().
LEMMA AskKeeps ==
  ASSUME ServerTypeInv, LockInv, NEW t \in Tasks, AskLock(t)
  PROVE  LockInv'
<1>1. /\ UNCHANGED <<req, own, table, slot>> /\ tpc[t] = "slot"
      /\ tpc' = [tpc EXCEPT ![t] = "lock"]
      /\ queue' = [queue EXCEPT ![req[t].sid] = Append(@, t)]
  BY DEF AskLock, Step
<1>2. tpc' = [tpc EXCEPT ![t] = tpc'[t]] /\ tpc'[t] = "lock" /\ ~InLine(t)
  BY <1>1 DEF ServerTypeInv, InLine
<1>3. Holding(t) /\ req[t].kind \in OnSession /\ req[t].sid \in Sessions
  BY <1>1 DEF LockInv, SlotInv, Holding
<1>4. LineInv' /\ queue' \in [Sessions -> Seq(Tasks)]
  BY <1>1, <1>2, <1>3, LineJoined DEF LockInv
<1>5. SlotInv'
  BY <1>1, <1>2, <1>3, SlotsSame DEF LockInv
<1> QED BY <1>1, <1>4, <1>5 DEF LockInv, SlotTypes

\* The lock is granted to the head of the queue, who takes it or lets it go.
LEMMA LockedKeeps ==
  ASSUME ServerTypeInv, LockInv, NEW t \in Tasks, Locked(t)
  PROVE  LockInv'
<1>1. tpc[t] = "lock" /\ InLine(t) /\ UNCHANGED <<req, own, table>>
  BY DEF Locked, InLine
<1>2. PICK s \in Sessions : req[t].sid = s /\ req[t].kind \in OnSession
  BY <1>1 DEF LockInv, LineInv
<1>3. Head(queue[s]) = t
  BY <1>2 DEF Locked
<1>4. /\ queue[s][1] = t
      /\ \A u \in Tasks : ~(tpc[u] = "work" /\ req[u].kind = "fetch" /\ req[u].sid = s)
  BY <1>1, <1>2, <1>3, HeadOfLine DEF LockInv
<1>5. Holding(t) /\ slot[s] \notin {"unused", "new"}
  BY <1>1, <1>2 DEF Holding, LockInv, SlotInv
<1>6. CASE /\ req[t].kind = "fetch" /\ slot[s] \in {"open", "dead"}
           /\ Step(t, "lock", "work") /\ UNCHANGED <<slot, queue>>
  <2>1. tpc' = [tpc EXCEPT ![t] = tpc'[t]] /\ tpc'[t] = "work" /\ InLine(t)'
    BY <1>1, <1>6 DEF ServerTypeInv, InLine, Step
  <2>2. LineInv'
    BY <1>1, <1>2, <1>4, <1>6, <2>1, LineStays DEF LockInv
  <2>3. SlotInv'
    BY <1>1, <1>2, <1>5, <1>6, <2>1, SlotsSame DEF LockInv
  <2> QED BY <1>1, <1>6, <2>2, <2>3 DEF LockInv, SlotTypes
<1>7. CASE /\ req[t].kind = "fetch" /\ EndsWith(t, "error") /\ LeaveQueue(t, s) /\ UNCHANGED slot
  <2>1. tpc' = [tpc EXCEPT ![t] = tpc'[t]] /\ tpc'[t] = "deregister" /\ ~InLine(t)' /\ ~Holding(t)'
    BY <1>1, <1>7 DEF ServerTypeInv, InLine, EndsWith, Holding
  <2>2. LineInv' /\ queue' \in [Sessions -> Seq(Tasks)]
    BY <1>1, <1>2, <1>7, <2>1, LineLeft DEF LockInv
  <2>3. SlotInv'
    BY <1>1, <1>7, <2>1, SlotsSame DEF LockInv
  <2> QED BY <1>1, <1>7, <2>2, <2>3 DEF LockInv, SlotTypes
<1>8. CASE /\ req[t].kind = "close" /\ slot' = [slot EXCEPT ![s] = "closing"]
           /\ Step(t, "lock", "work") /\ LeaveQueue(t, s)
  <2>1. tpc' = [tpc EXCEPT ![t] = tpc'[t]] /\ tpc'[t] = "work" /\ ~InLine(t)'
    BY <1>1, <1>8 DEF ServerTypeInv, InLine, Step
  <2>2. LineInv' /\ queue' \in [Sessions -> Seq(Tasks)]
    BY <1>1, <1>2, <1>8, <2>1, LineLeft DEF LockInv
  <2>3. slot'[s] = "closing" /\ \A r \in Sessions \ {s} : slot'[r] = slot[r]
    BY <1>8 DEF LockInv, SlotTypes
  <2>4. ASSUME NEW u \in Tasks, tpc'[u] = "work"
        PROVE  /\ req[u].kind = "fetch" => slot'[req[u].sid] \in {"open", "dead"}
               /\ req[u].kind = "close" => slot'[req[u].sid] \in {"closing", "gone"}
    <3>1. CASE u = t
      BY <1>2, <1>8, <2>3, <3>1
    <3>2. CASE u # t
      <4>1. tpc[u] = "work"
        BY <2>1, <2>4, <3>2 DEF ServerTypeInv
      <4>2. ~(req[u].kind = "fetch" /\ req[u].sid = s)
        BY <1>4, <4>1
      <4>3. req[u].kind \in OnSession => req[u].sid \in Sessions
        BY <4>1 DEF LockInv, SlotInv, Holding
      <4>4. /\ req[u].kind = "fetch" => slot[req[u].sid] \in {"open", "dead"}
            /\ req[u].kind = "close" => slot[req[u].sid] \in {"closing", "gone"}
        BY <4>1 DEF LockInv, SlotInv
      <4> QED BY <2>3, <4>2, <4>3, <4>4 DEF OnSession
    <3> QED BY <3>1, <3>2
  <2>5. \A r \in table' : slot'[r] \notin {"unused", "new"}
    BY <1>1, <2>3 DEF LockInv, SlotInv, SlotTypes
  <2>6. \A r \in Sessions : \/ slot'[r] = slot[r]
                            \/ slot'[r] \notin {"unused", "new"} /\ slot[r] \notin {"unused", "new"}
    BY <1>5, <2>3
  <2>7. SlotInv'
    BY <1>1, <1>5, <2>1, <2>4, <2>5, <2>6, SlotsKept DEF LockInv
  <2>8. SlotTypes'
    BY <1>1, <1>8, <2>2 DEF LockInv, SlotTypes
  <2> QED BY <2>2, <2>7, <2>8 DEF LockInv
<1> QED BY <1>2, <1>6, <1>7, <1>8 DEF Locked

\* BrowserSession::new has returned: a number nobody had.
LEMMA OpenedKeeps ==
  ASSUME ServerTypeInv, LockInv, NEW t \in Tasks, Opened(t)
  PROVE  LockInv'
<1>1. /\ UNCHANGED <<req, table, queue>> /\ tpc[t] = "work" /\ req[t].kind = "open"
      /\ tpc' = [tpc EXCEPT ![t] = "insert"]
  BY DEF Opened, Step
<1>2. PICK s \in Sessions : /\ slot[s] = "unused" /\ own' = [own EXCEPT ![t] = s]
                            /\ slot' = [slot EXCEPT ![s] = "new"]
  BY DEF Opened
<1>3. /\ tpc'[t] = "insert" /\ own'[t] = s /\ slot'[s] = "new"
      /\ \A u \in Tasks \ {t} : tpc'[u] = tpc[u] /\ own'[u] = own[u]
      /\ \A r \in Sessions \ {s} : slot'[r] = slot[r]
  BY <1>1, <1>2 DEF ServerTypeInv, LockInv, SlotTypes
<1>4. LineInv'
  <2>1. ~InLine(t) /\ ~InLine(t)' /\ tpc' = [tpc EXCEPT ![t] = tpc'[t]]
    BY <1>1, <1>3 DEF InLine
  <2> QED BY <1>1, <1>3, <2>1, LineStays DEF LockInv
<1>5. SlotTypes'
  BY <1>1, <1>2 DEF LockInv, SlotTypes
<1>6. \A u \in Tasks : Holding(u)' => u # t /\ Holding(u)
  BY <1>1, <1>3 DEF Holding
<1>7. \A u \in Tasks : Holding(u) => req[u].sid \in Sessions /\ req[u].sid # s
                                     /\ slot[req[u].sid] \notin {"unused", "new"}
  BY <1>2 DEF LockInv, SlotInv
<1>8. \A r \in table' : slot'[r] \notin {"unused", "new"}
  BY <1>1, <1>2, <1>3 DEF LockInv, SlotInv, SlotTypes
<1>9. \A u \in Tasks : tpc'[u] = "slot" => req[u].kind \in OnSession
  BY <1>3 DEF LockInv, SlotInv
<1>10. \A u \in Tasks : Holding(u)' => /\ req[u].sid \in Sessions
                                       /\ slot'[req[u].sid] \notin {"unused", "new"}
  BY <1>3, <1>6, <1>7
<1>11. ASSUME NEW u \in Tasks, tpc'[u] = "work"
       PROVE  /\ req[u].kind = "fetch" => slot'[req[u].sid] \in {"open", "dead"}
              /\ req[u].kind = "close" => slot'[req[u].sid] \in {"closing", "gone"}
  <2>1. u # t /\ tpc[u] = "work"
    BY <1>3, <1>11
  <2>2. req[u].kind \in OnSession => req[u].sid \in Sessions /\ req[u].sid # s
    BY <1>7, <2>1 DEF Holding
  <2>3. /\ req[u].kind = "fetch" => slot[req[u].sid] \in {"open", "dead"}
        /\ req[u].kind = "close" => slot[req[u].sid] \in {"closing", "gone"}
    BY <2>1 DEF LockInv, SlotInv
  <2> QED BY <1>3, <2>2, <2>3 DEF OnSession
<1>12. ASSUME NEW u \in Tasks, tpc'[u] = "insert"
       PROVE  /\ own'[u] \in Sessions /\ slot'[own'[u]] = "new" /\ req[u].kind = "open"
              /\ \A v \in Tasks : tpc'[v] = "insert" /\ own'[v] = own'[u] => v = u
  <2>1. \A v \in Tasks \ {t} : tpc'[v] = "insert" =>
          /\ own'[v] = own[v] /\ own[v] \in Sessions /\ own[v] # s /\ slot[own[v]] = "new"
          /\ req[v].kind = "open"
          /\ \A w \in Tasks : tpc[w] = "insert" /\ own[w] = own[v] => w = v
    BY <1>2, <1>3 DEF LockInv, SlotInv
  <2>2. CASE u = t
    BY <1>1, <1>3, <2>1, <2>2
  <2>3. CASE u # t
    BY <1>3, <1>12, <2>1, <2>3
  <2> QED BY <2>2, <2>3
<1>13. SlotInv'
  BY <1>1, <1>8, <1>9, <1>10, <1>11, <1>12 DEF SlotInv
<1> QED BY <1>4, <1>5, <1>13 DEF LockInv

\* The session is entered in the table.
LEMMA InsertKeeps ==
  ASSUME ServerTypeInv, LockInv, NEW t \in Tasks, Insert(t)
  PROVE  LockInv'
<1>1. /\ UNCHANGED <<req, own, queue>> /\ tpc[t] = "insert"
      /\ tpc' = [tpc EXCEPT ![t] = "deregister"]
      /\ table' = table \cup {own[t]} /\ slot' = [slot EXCEPT ![own[t]] = "open"]
  BY DEF Insert, EndsWith
<1>2. PICK s \in Sessions : own[t] = s /\ slot[s] = "new" /\ req[t].kind = "open"
  BY <1>1 DEF LockInv, SlotInv
<1>3. /\ tpc' = [tpc EXCEPT ![t] = tpc'[t]] /\ tpc'[t] = "deregister"
      /\ slot'[s] = "open" /\ \A r \in Sessions \ {s} : slot'[r] = slot[r]
  BY <1>1, <1>2 DEF ServerTypeInv, LockInv, SlotTypes
<1>4. LineInv'
  <2>1. ~InLine(t) /\ ~InLine(t)'
    BY <1>1, <1>3 DEF InLine
  <2> QED BY <1>1, <1>3, <2>1, LineStays DEF LockInv
<1>5. SlotTypes'
  BY <1>1, <1>2 DEF LockInv, SlotTypes
<1>6. ASSUME NEW u \in Tasks, tpc'[u] = "work"
      PROVE  /\ req[u].kind = "fetch" => slot'[req[u].sid] \in {"open", "dead"}
             /\ req[u].kind = "close" => slot'[req[u].sid] \in {"closing", "gone"}
  <2>1. u # t /\ tpc[u] = "work"
    BY <1>1, <1>3, <1>6 DEF ServerTypeInv
  <2>2. req[u].kind \in OnSession => req[u].sid \in Sessions /\ req[u].sid # s
    BY <1>2, <2>1 DEF LockInv, SlotInv, Holding
  <2>3. /\ req[u].kind = "fetch" => slot[req[u].sid] \in {"open", "dead"}
        /\ req[u].kind = "close" => slot[req[u].sid] \in {"closing", "gone"}
    BY <2>1 DEF LockInv, SlotInv
  <2> QED BY <1>3, <2>2, <2>3 DEF OnSession
<1>7. \A r \in table' : slot'[r] \notin {"unused", "new"}
  BY <1>1, <1>2, <1>3 DEF LockInv, SlotInv, SlotTypes
<1>8. ~Holding(t)'
  BY <1>3 DEF Holding
<1>9. \A r \in Sessions : \/ slot'[r] = slot[r]
                          \/ /\ slot'[r] \notin {"unused", "new"}
                             /\ tpc[t] = "insert" /\ own[t] = r
  BY <1>1, <1>2, <1>3
<1>10. SlotInv'
  <2>1. SlotTypes /\ SlotInv /\ UNCHANGED <<req, own>>
    BY <1>1 DEF LockInv
  <2>2. tpc'[t] # "insert" /\ tpc'[t] # "slot"
    BY <1>3
  <2> QED BY <1>3, <1>6, <1>7, <1>8, <1>9, <2>1, <2>2, SlotsKept
<1> QED BY <1>4, <1>5, <1>10 DEF LockInv

\* A fetch ends, well or not, or is dropped: the slot goes on to the next in the queue.
LEMMA UserLeaves ==
  ASSUME ServerTypeInv, LockInv, NEW t \in Tasks, tpc[t] = "work", req[t].kind = "fetch",
         tpc' = [tpc EXCEPT ![t] = "deregister"], UNCHANGED <<req, own, table>>,
         NEW s \in Sessions, req[t].sid = s, LeaveQueue(t, s),
         NEW holds \in {"open", "dead"}, LetGo(t, s, holds)
  PROVE  LockInv'
<1>1. /\ tpc' = [tpc EXCEPT ![t] = tpc'[t]] /\ tpc'[t] = "deregister"
      /\ InLine(t) /\ ~InLine(t)' /\ Holding(t)
  BY DEF ServerTypeInv, InLine, Holding, OnSession
<1>2. LineInv' /\ queue' \in [Sessions -> Seq(Tasks)]
  BY <1>1, LineLeft DEF LockInv
<1>3. \A u \in Tasks \ {t} : tpc[u] = "work" /\ req[u].sid = s =>
        req[u].kind # "fetch" /\ req[u].kind # "close"
  <2>1. slot[s] \in {"open", "dead"} /\ queue[s][1] = t
    BY UserFirst DEF LockInv, SlotInv
  <2>2. ASSUME NEW u \in Tasks \ {t}, tpc[u] = "work", req[u].sid = s, req[u].kind = "fetch" PROVE FALSE
    BY <2>1, <2>2, UserFirst DEF LockInv
  <2>3. ASSUME NEW u \in Tasks \ {t}, tpc[u] = "work", req[u].sid = s, req[u].kind = "close" PROVE FALSE
    BY <2>1, <2>3 DEF LockInv, SlotInv
  <2> QED BY <2>2, <2>3
<1>4. SlotInv'
  <2>1. SlotTypes /\ SlotInv /\ holds \notin {"unused", "new"}
    BY DEF LockInv
  <2>2. \A u \in Tasks \ {t} : tpc[u] = "work" /\ req[u].sid = s =>
          /\ req[u].kind = "fetch" => holds \in {"open", "dead"}
          /\ req[u].kind = "close" => holds \in {"closing", "gone"}
    BY <1>3
  <2> QED BY <1>1, <2>1, <2>2, LetGoKeeps
<1>5. SlotTypes'
  <2>1. slot' \in [Sessions -> {"unused", "new", "open", "dead", "closing", "gone"}]
    BY DEF LetGo, LockInv, SlotTypes
  <2> QED BY <1>2, <2>1 DEF LockInv, SlotTypes
<1> QED BY <1>2, <1>4, <1>5 DEF LockInv

LEMMA FinishFetchKeeps ==
  ASSUME ServerTypeInv, LockInv, NEW t \in Tasks, FinishFetch(t)
  PROVE  LockInv'
<1>1. /\ tpc[t] = "work" /\ req[t].kind = "fetch" /\ UNCHANGED <<req, own, table>>
      /\ tpc' = [tpc EXCEPT ![t] = "deregister"]
  BY DEF FinishFetch, EndsWith
<1>2. PICK s \in Sessions : req[t].sid = s /\ slot[s] \in {"open", "dead"}
  <2>1. Holding(t)
    BY <1>1 DEF Holding, OnSession
  <2> QED BY <1>1, <2>1 DEF LockInv, SlotInv
<1>3. /\ LeaveQueue(t, s)
      /\ LetGo(t, s, "open") \/ \E then \in {slot[s], "dead"} : LetGo(t, s, then)
  BY <1>2 DEF FinishFetch
<1>4. PICK holds \in {"open", "dead"} : LetGo(t, s, holds)
  BY <1>2, <1>3
<1> QED BY <1>1, <1>2, <1>3, <1>4, UserLeaves

\* A close in the middle leaves nothing in the slot.
LEMMA SlotEmptied ==
  ASSUME ServerTypeInv, LockInv, NEW t \in Tasks, tpc[t] = "work", req[t].kind = "close",
         tpc' = [tpc EXCEPT ![t] = "deregister"], UNCHANGED <<req, own, table, queue>>,
         slot' = [slot EXCEPT ![req[t].sid] = "gone"]
  PROVE  LockInv'
<1>1. PICK s \in Sessions : req[t].sid = s /\ slot[s] \in {"closing", "gone"}
  <2>1. Holding(t)
    BY DEF Holding, OnSession
  <2> QED BY <2>1 DEF LockInv, SlotInv
<1>2. /\ tpc' = [tpc EXCEPT ![t] = tpc'[t]] /\ tpc'[t] = "deregister"
      /\ ~InLine(t) /\ ~InLine(t)' /\ ~Holding(t)'
      /\ slot'[s] = "gone" /\ \A r \in Sessions \ {s} : slot'[r] = slot[r]
  BY <1>1 DEF ServerTypeInv, InLine, Holding, LockInv, SlotTypes
<1>3. LineInv'
  BY <1>2, LineStays DEF LockInv
<1>4. SlotTypes'
  BY <1>1 DEF LockInv, SlotTypes
<1>5. ASSUME NEW u \in Tasks, tpc'[u] = "work"
      PROVE  /\ req[u].kind = "fetch" => slot'[req[u].sid] \in {"open", "dead"}
             /\ req[u].kind = "close" => slot'[req[u].sid] \in {"closing", "gone"}
  <2>1. u # t /\ tpc[u] = "work"
    BY <1>2, <1>5 DEF ServerTypeInv
  <2>2. req[u].kind \in OnSession => req[u].sid \in Sessions
    BY <2>1 DEF LockInv, SlotInv, Holding
  <2>3. /\ req[u].kind = "fetch" => slot[req[u].sid] \in {"open", "dead"}
        /\ req[u].kind = "close" => slot[req[u].sid] \in {"closing", "gone"}
    BY <2>1 DEF LockInv, SlotInv
  <2> QED BY <1>1, <1>2, <2>2, <2>3 DEF OnSession
<1>6. \A r \in table' : slot'[r] \notin {"unused", "new"}
  BY <1>2 DEF LockInv, SlotInv, SlotTypes
<1>7. \A r \in Sessions : \/ slot'[r] = slot[r]
                          \/ slot'[r] \notin {"unused", "new"} /\ slot[r] \notin {"unused", "new"}
  BY <1>1, <1>2
<1>8. SlotInv'
  BY <1>2, <1>5, <1>6, <1>7, SlotsKept DEF LockInv
<1> QED BY <1>3, <1>4, <1>8 DEF LockInv

LEMMA FinishCloseKeeps ==
  ASSUME ServerTypeInv, LockInv, NEW t \in Tasks, FinishClose(t)
  PROVE  LockInv'
BY SlotEmptied DEF FinishClose, EndsWith

\* The handler is dropped where it stands.
LEMMA CancelledKeeps ==
  ASSUME ServerTypeInv, LockInv, NEW t \in Tasks, Cancelled(t)
  PROVE  LockInv'
<1>1. /\ UNCHANGED <<req, own, table>> /\ tpc' = [tpc EXCEPT ![t] = "deregister"]
      /\ tpc[t] \in InWork
  BY DEF Cancelled, EndsWith, InHandler, Live, ServerTypeInv, InWork, Ended
<1>2. /\ tpc' = [tpc EXCEPT ![t] = tpc'[t]] /\ tpc'[t] = "deregister" /\ ~InLine(t)' /\ ~Holding(t)'
  BY <1>1 DEF ServerTypeInv, InLine, Holding
<1>3. CASE tpc[t] = "insert"
  <2>1. slot' = [slot EXCEPT ![own[t]] = "gone"] /\ UNCHANGED queue
    BY <1>3 DEF Cancelled
  <2>2. PICK s \in Sessions : own[t] = s /\ slot[s] = "new" /\ req[t].kind = "open"
    BY <1>3 DEF LockInv, SlotInv
  <2>3. slot'[s] = "gone" /\ \A r \in Sessions \ {s} : slot'[r] = slot[r]
    BY <2>1, <2>2 DEF LockInv, SlotTypes
  <2>4. LineInv'
    <3>1. ~InLine(t)
      BY <1>3 DEF InLine
    <3> QED BY <1>1, <1>2, <2>1, <3>1, LineStays DEF LockInv
  <2>5. SlotTypes'
    BY <1>1, <2>1, <2>2 DEF LockInv, SlotTypes
  <2>6. ASSUME NEW u \in Tasks, tpc'[u] = "work"
        PROVE  /\ req[u].kind = "fetch" => slot'[req[u].sid] \in {"open", "dead"}
               /\ req[u].kind = "close" => slot'[req[u].sid] \in {"closing", "gone"}
    <3>1. u # t /\ tpc[u] = "work"
      BY <1>2, <2>6 DEF ServerTypeInv
    <3>2. req[u].kind \in OnSession => req[u].sid \in Sessions /\ req[u].sid # s
      BY <2>2, <3>1 DEF LockInv, SlotInv, Holding
    <3>3. /\ req[u].kind = "fetch" => slot[req[u].sid] \in {"open", "dead"}
          /\ req[u].kind = "close" => slot[req[u].sid] \in {"closing", "gone"}
      BY <3>1 DEF LockInv, SlotInv
    <3> QED BY <2>3, <3>2, <3>3 DEF OnSession
  <2>7. \A r \in table' : slot'[r] \notin {"unused", "new"}
    BY <1>1, <2>3 DEF LockInv, SlotInv, SlotTypes
  <2>8. \A r \in Sessions : \/ slot'[r] = slot[r]
                            \/ /\ slot'[r] \notin {"unused", "new"}
                               /\ tpc[t] = "insert" /\ own[t] = r
    BY <1>3, <2>2, <2>3
  <2>9. SlotInv'
    BY <1>1, <1>2, <2>6, <2>7, <2>8, SlotsKept DEF LockInv
  <2> QED BY <2>4, <2>5, <2>9 DEF LockInv
<1>4. CASE tpc[t] = "work" /\ req[t].kind = "fetch"
  <2>1. InLine(t)
    BY <1>4 DEF InLine
  <2>2. PICK s \in Sessions : req[t].sid = s
    BY <2>1 DEF LockInv, LineInv
  <2>3. LeaveQueue(t, s) /\ LetGo(t, s, "dead")
    BY <1>4, <2>2 DEF Cancelled, OnSession
  <2> QED BY <1>1, <1>4, <2>2, <2>3, UserLeaves
<1>5. CASE tpc[t] = "work" /\ req[t].kind = "close"
  <2>1. PICK s \in Sessions : req[t].sid = s
    <3>1. Holding(t)
      BY <1>5 DEF Holding, OnSession
    <3> QED BY <3>1 DEF LockInv, SlotInv
  <2>2. LeaveQueue(t, s) /\ slot' = [slot EXCEPT ![req[t].sid] = "gone"]
    BY <1>5, <2>1 DEF Cancelled, OnSession
  <2>3. \A i \in 1..Len(queue[s]) : queue[s][i] # t
    <3>1. ~InLine(t)
      BY <1>5 DEF InLine
    <3> QED BY <3>1 DEF LockInv, LineInv
  <2>4. UNCHANGED queue
    BY <2>2, <2>3 DEF LeaveQueue
  <2> QED BY <1>1, <1>5, <2>2, <2>4, SlotEmptied
<1>6. CASE req[t].kind \in OnSession /\ tpc[t] \in {"slot", "lock"}
  <2>1. PICK s \in Sessions : req[t].sid = s /\ slot[s] \notin {"unused", "new"}
    <3>1. Holding(t)
      BY <1>6 DEF Holding
    <3> QED BY <3>1 DEF LockInv, SlotInv
  <2>2. LetGo(t, s, slot[s])
    BY <1>6, <2>1 DEF Cancelled
  <2>3. PICK holds : holds = slot[s]
    OBVIOUS
  <2>4. LetGo(t, s, holds)
    BY <2>2, <2>3 DEF LetGo
  <2>5. \A u \in Tasks \ {t} : tpc[u] = "work" /\ req[u].sid = s =>
          /\ req[u].kind = "fetch" => holds \in {"open", "dead"}
          /\ req[u].kind = "close" => holds \in {"closing", "gone"}
    BY <2>3 DEF LockInv, SlotInv
  <2>6. Holding(t)
    BY <1>6 DEF Holding
  <2>7. SlotInv'
    <3>1. holds \notin {"unused", "new"} /\ req[t].sid = s /\ SlotTypes /\ SlotInv
      BY <2>1, <2>3 DEF LockInv
    <3> QED BY <1>1, <1>2, <2>4, <2>5, <2>6, <3>1, LetGoKeeps
  <2>8. LineInv' /\ queue' \in [Sessions -> Seq(Tasks)]
    <3>1. CASE tpc[t] = "slot"
      <4>1. UNCHANGED queue /\ ~InLine(t)
        BY <3>1 DEF Cancelled, InLine
      <4> QED BY <1>1, <1>2, <4>1, LineStays DEF LockInv, SlotTypes
    <3>2. CASE tpc[t] = "lock"
      <4>1. LeaveQueue(t, s) /\ InLine(t)
        BY <1>6, <2>1, <3>2 DEF Cancelled, InLine
      <4> QED BY <1>1, <1>2, <2>1, <4>1, LineLeft DEF LockInv
    <3> QED BY <1>6, <3>1, <3>2
  <2>9. slot' \in [Sessions -> {"unused", "new", "open", "dead", "closing", "gone"}]
    BY <2>3, <2>4 DEF LetGo, LockInv, SlotTypes
  <2> QED BY <1>1, <2>7, <2>8, <2>9 DEF LockInv, SlotTypes
<1>7. CASE /\ tpc[t] # "insert" /\ tpc[t] # "lock"
           /\ ~(req[t].kind \in OnSession /\ tpc[t] \in {"slot", "lock", "work"})
  <2>1. UNCHANGED <<slot, queue>>
    BY <1>7 DEF Cancelled, OnSession
  <2> QED BY <1>1, <1>2, <1>7, <2>1, ApartKeeps
<1>8. tpc[t] = "lock" => req[t].kind \in OnSession
  BY DEF LockInv, LineInv, InLine
<1> QED BY <1>3, <1>4, <1>5, <1>6, <1>7, <1>8 DEF OnSession

LEMMA TaskLocks ==
  ASSUME ServerTypeInv, LockInv, NEW t \in Tasks, TaskStep(t)
  PROVE  LockInv'
BY ApartSteps, LookUpKeeps, AskKeeps, LockedKeeps, OpenedKeeps, InsertKeeps, FinishFetchKeeps,
   FinishCloseKeeps, CancelledKeeps DEF TaskStep

-----------------------------------------------------------------------------
(***************************************************************************)
(* The locks, whatever the loop, the clients and the process do.           *)
(***************************************************************************)
LEMMA LocksUntouched ==
  ASSUME LockInv, UNCHANGED <<tpc, req, own, table, slot, queue>>
  PROVE  LockInv'
BY DEF LockInv, SlotTypes, LineInv, SlotInv, InLine, Holding

\* Nobody is in line and no slot is filled: a process just started, or one that has returned.
NoLocks ==
  /\ \A t \in Tasks : tpc[t] \in {"none", "done"}
  /\ table = {} /\ queue = [s \in Sessions |-> <<>>]
  /\ slot \in [Sessions -> {"unused", "new", "open", "dead", "closing", "gone"}]

LEMMA NoLocksInv == NoLocks => LockInv
<1> SUFFICES ASSUME NoLocks PROVE LockInv
  OBVIOUS
<1>1. \A t \in Tasks : /\ ~InLine(t) /\ ~Holding(t)
                       /\ tpc[t] # "slot" /\ tpc[t] # "work" /\ tpc[t] # "insert"
  BY DEF NoLocks, InLine, Holding
<1>2. SlotTypes /\ table = {}
  BY EmptySeq DEF NoLocks, SlotTypes
<1>3. \A s \in Sessions : queue[s] = <<>> /\ 1..Len(queue[s]) = {}
  BY EmptySeq DEF NoLocks
<1>4. LineInv
  BY <1>1, <1>3 DEF LineInv, Once
<1>5. SlotInv
  BY <1>1, <1>2 DEF SlotInv
<1> QED BY <1>2, <1>4, <1>5 DEF LockInv

\* A request gets a task, which is at no lock yet.
LEMMA RequestLocks ==
  ASSUME ServerTypeInv, LockInv, NEW t \in Tasks, NEW f, tpc[t] = "none",
         tpc' = [tpc EXCEPT ![t] = "begin"], req' = [req EXCEPT ![t] = f],
         UNCHANGED <<own, table, slot, queue>>
  PROVE  LockInv'
<1>1. /\ tpc'[t] = "begin"
      /\ \A u \in Tasks \ {t} : tpc'[u] = tpc[u] /\ req'[u] = req[u]
  BY DEF ServerTypeInv
<1>2. \A u \in Tasks : /\ InLine(u)' <=> InLine(u) /\ u # t
                       /\ Holding(u)' <=> Holding(u) /\ u # t
  BY <1>1 DEF InLine, Holding
<1>3. ~InLine(t)
  BY DEF InLine
<1>4. LineInv'
  <2>1. ASSUME NEW s \in Sessions, NEW u \in Tasks, NEW i \in 1..Len(queue[s]), queue[s][i] = u
        PROVE  InLine(u)' /\ req'[u].sid = s /\ (tpc'[u] = "work" => i = 1)
    <3>1. InLine(u) /\ req[u].sid = s /\ (tpc[u] = "work" => i = 1)
      BY <2>1 DEF LockInv, LineInv
    <3> QED BY <1>1, <1>2, <1>3, <3>1
  <2>2. ASSUME NEW u \in Tasks, InLine(u)'
        PROVE  req'[u].kind \in OnSession /\ req'[u].sid \in Sessions /\ In(u, queue[req'[u].sid])
    <3>1. u # t /\ InLine(u) /\ req'[u] = req[u]
      BY <1>1, <1>2, <2>2
    <3> QED BY <3>1 DEF LockInv, LineInv
  <2>3. \A s \in Sessions : Once(queue[s])
    BY DEF LockInv, LineInv
  <2> QED BY <2>1, <2>2, <2>3 DEF LineInv
<1>5. SlotInv'
  <2>1. \A s \in table' : slot'[s] \notin {"unused", "new"}
    BY DEF LockInv, SlotInv
  <2>2. \A u \in Tasks : Holding(u)' => req'[u].sid \in Sessions /\ slot'[req'[u].sid] \notin {"unused", "new"}
    BY <1>1, <1>2 DEF LockInv, SlotInv
  <2>3. ASSUME NEW u \in Tasks, tpc'[u] \in {"slot", "work", "insert"}
        PROVE  u # t /\ tpc[u] = tpc'[u] /\ req'[u] = req[u]
    BY <1>1, <2>3
  <2>4. \A u \in Tasks : tpc'[u] = "slot" => req'[u].kind \in OnSession
    BY <2>3 DEF LockInv, SlotInv
  <2>5. \A u \in Tasks : tpc'[u] = "work" =>
          /\ req'[u].kind = "fetch" => slot'[req'[u].sid] \in {"open", "dead"}
          /\ req'[u].kind = "close" => slot'[req'[u].sid] \in {"closing", "gone"}
    BY <2>3 DEF LockInv, SlotInv
  <2>6. \A u \in Tasks : tpc'[u] = "insert" =>
          /\ own'[u] \in Sessions /\ slot'[own'[u]] = "new" /\ req'[u].kind = "open"
          /\ \A v \in Tasks : tpc'[v] = "insert" /\ own'[v] = own'[u] => v = u
    BY <2>3 DEF LockInv, SlotInv
  <2> QED BY <2>1, <2>2, <2>4, <2>5, <2>6 DEF SlotInv
<1> QED BY <1>4, <1>5 DEF LockInv, SlotTypes

LEMMA LoopLocks ==
  ASSUME ServerTypeInv, LockInv, Read \/ EndOfInput \/ Return
  PROVE  LockInv'
<1>1. CASE Read
  <2>1. UNCHANGED <<own, table, slot, queue>>
    BY <1>1 DEF Read, browser
  <2>2. PICK f : f = Head(stdin)
    OBVIOUS
  <2>3. \/ UNCHANGED <<tpc, req>>
        \/ \E t \in Free : tpc' = [tpc EXCEPT ![t] = "begin"] /\ req' = [req EXCEPT ![t] = f]
    <3>1. \/ f.kind \in Methods /\ Register(Head(stdin))
          \/ UNCHANGED <<tpc, req>>
      BY <1>1, <2>2 DEF Read, CancelRequest
    <3>2. CASE Register(Head(stdin))
      <4>1. Free # {} => (CHOOSE u \in Free : TRUE) \in Free
        OBVIOUS
      <4> QED BY <2>2, <3>2, <4>1 DEF Register
    <3> QED BY <3>1, <3>2
  <2>4. ASSUME NEW t \in Free, tpc' = [tpc EXCEPT ![t] = "begin"], req' = [req EXCEPT ![t] = f]
        PROVE  LockInv'
    <3>1. t \in Tasks /\ tpc[t] = "none"
      BY DEF Free
    <3> QED BY <2>1, <2>4, <3>1, RequestLocks
  <2> QED BY <2>1, <2>3, <2>4, LocksUntouched
<1>2. CASE EndOfInput
  BY <1>2, LocksUntouched DEF EndOfInput, work, browser
<1>3. CASE Return
  <2>1. NoLocks'
    <3>1. \A s \in Sessions : (IF slot[s] = "unused" THEN "unused" ELSE "gone") \in {"unused", "gone"}
      OBVIOUS
    <3> QED BY <1>3, <3>1 DEF Return, NoLocks
  <2> QED BY <2>1, NoLocksInv, PTL
<1> QED BY <1>1, <1>2, <1>3

LEMMA LockInit == RpcInit => LockInv
BY NoLocksInv DEF RpcInit, Fresh, NoLocks

LEMMA LockStep == RpcInv /\ LockInv /\ [RpcNext]_vars => LockInv'
<1> SUFFICES ASSUME RpcInv, LockInv, [RpcNext]_vars PROVE LockInv'
  OBVIOUS
<1>0. ServerTypeInv
  BY DEF RpcInv
<1>1. CASE ServerStep
  BY <1>0, <1>1, TaskLocks, LoopLocks DEF ServerStep
<1>2. CASE UNCHANGED server
  BY <1>2, LocksUntouched DEF server, work, browser
<1>3. CASE ProcessGone
  <2>1. NoLocks'
    BY <1>3 DEF ProcessGone, NoLocks
  <2> QED BY <2>1, NoLocksInv, PTL
<1>4. CASE NodeStep
  <2>1. ~Shutdown /\ UserStep => UNCHANGED server
    BY UserTypes
  <2>2. Shutdown \/ Die => ProcessGone
    BY DEF Shutdown, Die
  <2>3. Receive \/ ExitEvent => UNCHANGED server
    BY DEF Receive, ExitEvent
  <2>4. (\E i \in Calls : Next(i)) => UNCHANGED server
    BY DEF Next
  <2> QED BY <1>2, <1>3, <1>4, <2>1, <2>2, <2>3, <2>4 DEF NodeStep, EventStep
<1>5. CASE UNCHANGED vars
  BY <1>2, <1>5 DEF vars
<1> QED BY <1>1, <1>2, <1>4, <1>5 DEF RpcNext, Finished

\* Who uses a session: one fetch, and of a session that is still there.
LEMMA LocksExclude == SlotTypes /\ LineInv /\ SlotInv => SessionUse
<1> SUFFICES ASSUME SlotTypes, LineInv, SlotInv PROVE SessionUse
  OBVIOUS
<1> DEFINE Using(s) == {t \in Tasks : tpc[t] = "work" /\ req[t].kind = "fetch" /\ req[t].sid = s}
<1>1. ASSUME NEW s \in Sessions
      PROVE  /\ Cardinality(Using(s)) <= 1
             /\ Using(s) # {} => main = "down" \/ slot[s] \in {"open", "dead"}
  <2>1. \A t \in Using(s) : t = queue[s][1] /\ slot[s] \in {"open", "dead"}
    BY UserFirst DEF SlotInv
  <2>2. CASE Using(s) = {}
    BY <2>2, FS_EmptySet
  <2>3. CASE Using(s) # {}
    <3> HIDE DEF Using
    <3>1. PICK t \in Using(s) : TRUE
      BY <2>3
    <3>2. Using(s) = {t} /\ slot[s] \in {"open", "dead"}
      BY <2>1, <3>1
    <3>3. Cardinality({t}) = 1
      BY FS_Singleton
    <3> QED BY <3>2, <3>3
  <2> QED BY <2>2, <2>3
<1> QED BY <1>1 DEF SessionUse

\* session/close "waits for an in-flight fetch on this session; concurrent holders then observe None"
\* (rpc/dispatch.rs): two fetches never use a session at a time, and none one that a close has taken
\* out, however requests, cancellations and the end of the process interleave.
THEOREM SessionUseHolds == Spec => []SessionUse
<1>1. LockInv => SessionUse
  BY LocksExclude DEF LockInv
<1>2. RpcInit => RpcInv /\ LockInv
  BY RpcInitInv, LockInit
<1>3. RpcInv /\ LockInv /\ [RpcNext]_vars => (RpcInv /\ LockInv)'
  BY RpcStepInv, LockStep
<1> QED BY <1>1, <1>2, <1>3, PTL DEF Spec

-----------------------------------------------------------------------------
(***************************************************************************)
(* The calls of the Node client.                                           *)
(***************************************************************************)
\* What a call of the client is while it waits, and where its client keeps it: a call in
\* one of the maps is of the current process.
CallInv ==
  /\ \A i \in Calls : calls[i].state = "pending" => i \in pending
  /\ \A i \in Calls : calls[i].state = "waiting" => i \in streams
  /\ \A i \in Calls : calls[i].state = "busy" /\ fin[i] = "no" => i \in streams
  /\ \A i \in pending : calls[i].kind # "crawl"
  /\ \A i \in streams : calls[i].kind = "crawl"
  /\ \A i \in pending \cup streams : current /\ calls[i].gen = gen
  /\ active = Cardinality(pending) + Cardinality(streams)
  /\ peer = "any" => ~current

\* The maps are finite, and no call is in both.
LEMMA MapCounts ==
  ASSUME NodeTypeInv, CallInv
  PROVE  /\ IsFiniteSet(pending) /\ IsFiniteSet(streams)
         /\ Cardinality(pending) \in Nat /\ Cardinality(streams) \in Nat
         /\ \A i \in pending : i \notin streams
<1>1. IsFiniteSet(Calls)
  <2>1. Len(calls) \in Nat
    BY LenProperties DEF NodeTypeInv
  <2> QED BY <2>1, FS_Interval DEF Calls
<1>2. IsFiniteSet(pending) /\ IsFiniteSet(streams)
  BY <1>1, FS_Subset DEF NodeTypeInv
<1>3. Cardinality(pending) \in Nat /\ Cardinality(streams) \in Nat
  BY <1>2, FS_CardinalityType
<1>4. \A i \in pending : i \notin streams
  BY DEF CallInv
<1> QED BY <1>2, <1>3, <1>4

\* A call leaves the map it is in, and the count with it.
LEMMA CountLeft ==
  ASSUME NodeTypeInv, CallInv, NEW i \in pending \cup streams,
         pending' = pending \ {i}, streams' = streams \ {i}, active' = active - 1
  PROVE  active' = Cardinality(pending') + Cardinality(streams')
<1>1. /\ IsFiniteSet(pending) /\ IsFiniteSet(streams)
      /\ Cardinality(pending) \in Nat /\ Cardinality(streams) \in Nat
      /\ \A j \in pending : j \notin streams
      /\ active = Cardinality(pending) + Cardinality(streams)
  BY MapCounts DEF CallInv
<1>2. CASE i \in pending
  <2>1. Cardinality(pending \ {i}) = Cardinality(pending) - 1
    BY <1>1, <1>2, FS_RemoveElement
  <2>2. pending' = pending \ {i} /\ streams' = streams
    BY <1>1, <1>2
  <2>3. Cardinality(pending') = Cardinality(pending) - 1 /\ Cardinality(streams') = Cardinality(streams)
    BY <2>1, <2>2
  <2> QED BY <1>1, <2>3
<1>3. CASE i \in streams
  <2>1. Cardinality(streams \ {i}) = Cardinality(streams) - 1
    BY <1>1, <1>3, FS_RemoveElement
  <2>2. streams' = streams \ {i} /\ pending' = pending
    BY <1>1, <1>3
  <2>3. Cardinality(streams') = Cardinality(streams) - 1 /\ Cardinality(pending') = Cardinality(pending)
    BY <2>1, <2>2
  <2> QED BY <1>1, <2>3
<1> QED BY <1>2, <1>3

LEMMA SettleFacts ==
  ASSUME NodeTypeInv, NEW i \in Calls, NEW how, Settle(i, how)
  PROVE  /\ Calls' = Calls
         /\ \A j \in Calls \ {i} : calls'[j] = calls[j]
         /\ calls'[i].kind = calls[i].kind /\ calls'[i].gen = calls[i].gen
         /\ calls'[i].state = how
<1>1. Len(calls) \in Nat /\ calls \in [1..Len(calls) -> CallRecords] /\ calls[i] \in CallRecords
  BY LenProperties DEF NodeTypeInv, Calls
<1>2. calls' = [calls EXCEPT ![i].state = how]
  BY DEF Settle
<1>3. DOMAIN calls' = 1..Len(calls)
  BY <1>1, <1>2
<1>4. Len(calls') = Len(calls)
  BY <1>1, <1>2, <1>3
<1>5. \A j \in Calls \ {i} : calls'[j] = calls[j]
  BY <1>1, <1>2 DEF Calls
<1>6. calls'[i] = [calls[i] EXCEPT !.state = how]
  BY <1>1, <1>2 DEF Calls
<1>7. calls'[i].kind = calls[i].kind /\ calls'[i].gen = calls[i].gen /\ calls'[i].state = how
  BY <1>1, <1>6 DEF CallRecords
<1> QED BY <1>4, <1>5, <1>7 DEF Calls

\* A step that is about one call, which stays in a map as long as it waits.
LEMMA CallMoves ==
  ASSUME NodeTypeInv, CallInv, NEW i \in Calls, Calls' = Calls,
         \A j \in Calls \ {i} : calls'[j] = calls[j] /\ fin'[j] = fin[j],
         calls'[i].kind = calls[i].kind, calls'[i].gen = calls[i].gen,
         pending' \subseteq pending, pending \ {i} \subseteq pending',
         streams' \subseteq streams, streams \ {i} \subseteq streams',
         UNCHANGED <<gen, current, peer>>,
         calls'[i].state = "pending" => i \in pending',
         calls'[i].state = "waiting" => i \in streams',
         calls'[i].state = "busy" /\ fin'[i] = "no" => i \in streams',
         active' = Cardinality(pending') + Cardinality(streams')
  PROVE  CallInv'
<1>1. pending \subseteq Calls /\ streams \subseteq Calls
  BY DEF NodeTypeInv
<1>2. /\ \A j \in Calls : calls'[j].state = "pending" => j \in pending'
      /\ \A j \in Calls : calls'[j].state = "waiting" => j \in streams'
      /\ \A j \in Calls : calls'[j].state = "busy" /\ fin'[j] = "no" => j \in streams'
  BY DEF CallInv
<1>3. \A j \in Calls : calls'[j].kind = calls[j].kind /\ calls'[j].gen = calls[j].gen
  OBVIOUS
<1>4. /\ \A j \in pending' : calls'[j].kind # "crawl"
      /\ \A j \in streams' : calls'[j].kind = "crawl"
      /\ \A j \in pending' \cup streams' : current' /\ calls'[j].gen = gen'
  BY <1>1, <1>3 DEF CallInv
<1>5. peer' = "any" => ~current'
  BY DEF CallInv
<1> QED BY <1>2, <1>4, <1>5 DEF CallInv

\* The client has a process: the same, or a new one, which it has no call to yet.
LEMMA NewProcess ==
  ASSUME CallInv, NEW frames, Connect(frames)
  PROVE  /\ current' = TRUE /\ gen' = Generation
         /\ \A i \in pending \cup streams : calls[i].gen = gen'
BY DEF Connect, Generation, CallInv

LEMMA NewCallKeeps ==
  ASSUME NodeTypeInv, CallInv, peer = "node", UNCHANGED peer,
         NEW kind \in Kinds, NEW sid, NEW state, NewCall(kind, sid, state),
         state = IF kind = "crawl" THEN "waiting" ELSE "pending"
  PROVE  CallInv'
<1>1. PICK i : i = Len(calls) + 1
  OBVIOUS
<1>2. PICK g : g = Generation
  OBVIOUS
<1> DEFINE c == [kind |-> kind, gen |-> g, sid |-> sid, state |-> state]
<1>3. /\ calls' = Append(calls, c) /\ active' = active + 1 /\ UNCHANGED fin
      /\ IF kind = "crawl" THEN streams' = streams \cup {i} /\ UNCHANGED pending
                           ELSE pending' = pending \cup {i} /\ UNCHANGED streams
      /\ \E frames : Connect(frames)
  BY <1>1, <1>2 DEF NewCall
<1>4. /\ current' = TRUE /\ gen' = g
      /\ \A j \in pending \cup streams : calls[j].gen = gen'
  BY <1>2, <1>3, NewProcess
<1>5. /\ Len(calls) \in Nat /\ Len(calls') = i /\ calls'[i] = c
      /\ \A j \in Calls : calls'[j] = calls[j]
  BY <1>1, <1>3, LenProperties DEF NodeTypeInv, Calls
<1>6. c.kind = kind /\ c.gen = g /\ c.state = state
  OBVIOUS
<1> HIDE DEF c
<1>7. Calls' = Calls \cup {i} /\ i \notin Calls
  BY <1>1, <1>5 DEF Calls
<1>8. pending \subseteq Calls /\ streams \subseteq Calls
  BY DEF NodeTypeInv
<1>9. active' = Cardinality(pending') + Cardinality(streams')
  <2>1. /\ IsFiniteSet(pending) /\ IsFiniteSet(streams)
        /\ Cardinality(pending) \in Nat /\ Cardinality(streams) \in Nat
        /\ active = Cardinality(pending) + Cardinality(streams)
    BY MapCounts DEF CallInv
  <2>2. i \notin pending /\ i \notin streams
    BY <1>7, <1>8
  <2>3. /\ Cardinality(pending \cup {i}) = Cardinality(pending) + 1
        /\ Cardinality(streams \cup {i}) = Cardinality(streams) + 1
    BY <2>1, <2>2, FS_AddElement
  <2>4. \/ /\ Cardinality(pending') = Cardinality(pending) + 1
           /\ Cardinality(streams') = Cardinality(streams)
        \/ /\ Cardinality(pending') = Cardinality(pending)
           /\ Cardinality(streams') = Cardinality(streams) + 1
    BY <1>3, <2>3
  <2>5. active' = active + 1
    BY <1>3
  <2> QED BY <2>1, <2>4, <2>5
<1>10. /\ \A j \in Calls' : calls'[j].state = "pending" => j \in pending'
       /\ \A j \in Calls' : calls'[j].state = "waiting" => j \in streams'
       /\ \A j \in Calls' : calls'[j].state = "busy" /\ fin'[j] = "no" => j \in streams'
  <2>1. ASSUME NEW j \in Calls
        PROVE  /\ calls'[j].state = "pending" => j \in pending'
               /\ calls'[j].state = "waiting" => j \in streams'
               /\ calls'[j].state = "busy" /\ fin'[j] = "no" => j \in streams'
    BY <1>3, <1>5 DEF CallInv
  <2>2. /\ calls'[i].state = "pending" => i \in pending'
        /\ calls'[i].state = "waiting" => i \in streams'
        /\ calls'[i].state # "busy"
    BY <1>3, <1>5, <1>6
  <2> QED BY <1>7, <2>1, <2>2
<1>11. /\ \A j \in pending' : calls'[j].kind # "crawl"
       /\ \A j \in streams' : calls'[j].kind = "crawl"
       /\ \A j \in pending' \cup streams' : current' /\ calls'[j].gen = gen'
  <2>1. /\ \A j \in pending : calls'[j].kind # "crawl" /\ calls'[j].gen = gen'
        /\ \A j \in streams : calls'[j].kind = "crawl" /\ calls'[j].gen = gen'
    BY <1>4, <1>5, <1>8 DEF CallInv
  <2>2. calls'[i].kind = kind /\ calls'[i].gen = gen'
    BY <1>4, <1>5, <1>6
  <2>3. CASE kind = "crawl"
    BY <1>3, <1>4, <2>1, <2>2, <2>3
  <2>4. CASE kind # "crawl"
    BY <1>3, <1>4, <2>1, <2>2, <2>4
  <2> QED BY <2>3, <2>4
<1>12. peer' # "any"
  OBVIOUS
<1> QED BY <1>9, <1>10, <1>11, <1>12 DEF CallInv

\* close(error): whoever waits is told.
LEMMA CloseKeeps ==
  ASSUME NodeTypeInv, CallInv, Close
  PROVE  CallInv'
<1>1. /\ pending' = {} /\ streams' = {} /\ active' = 0 /\ current' = FALSE
      /\ fin' = [i \in 1..MaxCalls |->
           IF i \in streams /\ calls[i].state = "busy" THEN "lost" ELSE fin[i]]
      /\ calls' = [i \in Calls |->
           IF i \in pending \/ (i \in streams /\ calls[i].state = "waiting")
           THEN [calls[i] EXCEPT !.state = "lost"] ELSE calls[i]]
  BY DEF Close
<1>2. Calls' = Calls
  BY <1>1, LenProperties DEF NodeTypeInv, Calls
<1>3. ASSUME NEW i \in Calls
      PROVE  /\ calls'[i].state \notin {"pending", "waiting"}
             /\ ~(calls'[i].state = "busy" /\ fin'[i] = "no")
  <2>1. calls[i] \in CallRecords /\ i \in 1..MaxCalls
    <3>1. Len(calls) \in Nat /\ Len(calls) <= MaxCalls /\ calls \in [1..Len(calls) -> CallRecords]
      BY LenProperties DEF NodeTypeInv
    <3> QED BY <3>1, NodeAssumption DEF Calls
  <2>2. CASE i \in pending \/ (i \in streams /\ calls[i].state = "waiting")
    <3>1. calls'[i] = [calls[i] EXCEPT !.state = "lost"]
      BY <1>1, <2>2
    <3>2. calls'[i].state = "lost"
      BY <2>1, <3>1 DEF CallRecords
    <3> QED BY <3>2
  <2>3. CASE ~(i \in pending \/ (i \in streams /\ calls[i].state = "waiting"))
    <3>1. calls'[i] = calls[i]
      BY <1>1, <2>3
    <3>2. fin'[i] = IF i \in streams /\ calls[i].state = "busy" THEN "lost" ELSE fin[i]
      BY <1>1, <2>1
    <3>3. /\ calls[i].state = "pending" => i \in pending
          /\ calls[i].state = "waiting" => i \in streams
          /\ calls[i].state = "busy" /\ fin[i] = "no" => i \in streams
      BY DEF CallInv
    <3> QED BY <2>3, <3>1, <3>2, <3>3
  <2> QED BY <2>2, <2>3
<1>4. active' = Cardinality(pending') + Cardinality(streams')
  BY <1>1, FS_EmptySet
<1> QED BY <1>1, <1>2, <1>3, <1>4 DEF CallInv

\* A call is aborted, or its consumer stops: it leaves the maps.
LEMMA AbortKeeps ==
  ASSUME NodeTypeInv, CallInv, UNCHANGED peer, NEW i \in Calls, Abort(i) \/ StopEarly(i)
  PROVE  CallInv'
<1>1. UNCHANGED <<gen, current, peer>> /\ \A j \in Calls \ {i} : fin'[j] = fin[j]
  <2>1. fin \in [1..MaxCalls -> Ends] /\ Calls \subseteq 1..MaxCalls
    <3>1. Len(calls) \in Nat /\ Len(calls) <= MaxCalls
      BY LenProperties DEF NodeTypeInv
    <3> QED BY <3>1, NodeAssumption DEF NodeTypeInv, Calls
  <2>2. \/ UNCHANGED fin
        \/ fin' = [fin EXCEPT ![i] = "aborted"] \/ fin' = [fin EXCEPT ![i] = "no"]
    BY DEF Abort, StopEarly
  <2>3. UNCHANGED <<gen, current>>
    BY DEF Abort, StopEarly
  <2> QED BY <2>1, <2>2, <2>3
<1>2. CASE Abort(i) /\ (i \in pending \/ calls[i].state = "waiting")
  <2>1. /\ pending' = pending \ {i} /\ streams' = streams \ {i} /\ i \in pending \cup streams
        /\ active' = active - 1 /\ Settle(i, "aborted")
    BY <1>2 DEF Abort
  <2>2. active' = Cardinality(pending') + Cardinality(streams')
    BY <2>1, CountLeft
  <2>3. /\ Calls' = Calls /\ \A j \in Calls \ {i} : calls'[j] = calls[j]
        /\ calls'[i].kind = calls[i].kind /\ calls'[i].gen = calls[i].gen
        /\ calls'[i].state = "aborted"
    BY <2>1, SettleFacts
  <2> QED BY <1>1, <2>1, <2>2, <2>3, CallMoves
<1>3. CASE Abort(i) /\ ~(i \in pending \/ calls[i].state = "waiting")
  <2>1. /\ pending' = pending \ {i} /\ streams' = streams \ {i} /\ i \in pending \cup streams
        /\ active' = active - 1 /\ UNCHANGED calls /\ fin' = [fin EXCEPT ![i] = "aborted"]
    BY <1>3 DEF Abort
  <2>2. active' = Cardinality(pending') + Cardinality(streams')
    BY <2>1, CountLeft
  <2>3. fin'[i] = "aborted"
    <3>1. i \in 1..MaxCalls
      BY LenProperties, NodeAssumption DEF NodeTypeInv, Calls
    <3> QED BY <2>1, <3>1 DEF NodeTypeInv
  <2>4. calls[i].state # "pending" /\ calls[i].state # "waiting"
    BY <1>3 DEF CallInv
  <2>5. Calls' = Calls
    BY <2>1 DEF Calls
  <2> QED BY <1>1, <2>1, <2>2, <2>3, <2>4, <2>5, CallMoves
<1>4. CASE StopEarly(i)
  <2>1. /\ calls[i].kind = "crawl" /\ Settle(i, "stopped") /\ UNCHANGED pending
        /\ IF i \in streams THEN streams' = streams \ {i} /\ active' = active - 1
                            ELSE UNCHANGED <<streams, active>>
    BY <1>4 DEF StopEarly
  <2>2. i \notin pending
    BY <2>1 DEF CallInv
  <2>3. active' = Cardinality(pending') + Cardinality(streams')
    <3>1. CASE i \in streams
      <4>1. pending' = pending \ {i} /\ streams' = streams \ {i} /\ active' = active - 1
        BY <2>1, <2>2, <3>1
      <4> QED BY <3>1, <4>1, CountLeft
    <3>2. CASE i \notin streams
      BY <2>1, <3>2 DEF CallInv
    <3> QED BY <3>1, <3>2
  <2>4. /\ Calls' = Calls /\ \A j \in Calls \ {i} : calls'[j] = calls[j]
        /\ calls'[i].kind = calls[i].kind /\ calls'[i].gen = calls[i].gen
        /\ calls'[i].state = "stopped"
    BY <2>1, SettleFacts
  <2> QED BY <1>1, <2>1, <2>2, <2>3, <2>4, CallMoves
<1> QED BY <1>2, <1>3, <1>4

\* The consumer of a stream asks for more: it waits only for a stream that is still open.
LEMMA NextKeeps ==
  ASSUME NodeTypeInv, CallInv, UNCHANGED peer, NEW i \in Calls, Next(i)
  PROVE  CallInv'
<1>1. /\ UNCHANGED <<gen, current, pending, streams, active, fin>> /\ calls[i].state = "busy"
      /\ UNCHANGED calls \/ Settle(i, IF fin[i] = "no" THEN "waiting" ELSE fin[i])
  BY DEF Next
<1>2. CASE UNCHANGED calls
  BY <1>1, <1>2 DEF CallInv, Calls
<1>3. CASE Settle(i, IF fin[i] = "no" THEN "waiting" ELSE fin[i])
  <2>1. PICK how : how = IF fin[i] = "no" THEN "waiting" ELSE fin[i]
    OBVIOUS
  <2>2. Settle(i, how)
    BY <1>3, <2>1 DEF Settle
  <2>3. /\ Calls' = Calls /\ \A j \in Calls \ {i} : calls'[j] = calls[j]
        /\ calls'[i].kind = calls[i].kind /\ calls'[i].gen = calls[i].gen
        /\ calls'[i].state = how
    BY <2>2, SettleFacts
  <2>4. fin[i] \in Ends
    <3>1. i \in 1..MaxCalls
      BY LenProperties, NodeAssumption DEF NodeTypeInv, Calls
    <3> QED BY <3>1 DEF NodeTypeInv
  <2>5. how # "pending" /\ how # "busy" /\ (how = "waiting" => i \in streams)
    BY <1>1, <2>1, <2>4 DEF CallInv, Ends
  <2>6. active' = Cardinality(pending') + Cardinality(streams')
    BY <1>1 DEF CallInv
  <2> QED BY <1>1, <2>3, <2>5, <2>6, CallMoves
<1> QED BY <1>1, <1>2, <1>3

\* A line is dispatched: an answer takes its call out of the maps.
LEMMA ReceiveKeeps ==
  ASSUME NodeTypeInv, CallInv, UNCHANGED peer, Receive
  PROVE  CallInv'
<1>1. PICK i, how : i = Head(stdout).id /\ how = (IF Head(stdout).about = "ok" THEN "ok" ELSE "error")
  OBVIOUS
<1>2. UNCHANGED <<gen, current>>
  BY DEF Receive
<1>3. \/ /\ i \in streams /\ UNCHANGED <<pending, streams, active, fin>>
         /\ \/ calls[i].state = "waiting" /\ Settle(i, "busy")
            \/ UNCHANGED calls
      \/ /\ i \in streams /\ streams' = streams \ {i} /\ active' = active - 1 /\ UNCHANGED pending
         /\ \/ calls[i].state = "waiting" /\ Settle(i, how) /\ UNCHANGED fin
            \/ calls[i].state # "waiting" /\ fin' = [fin EXCEPT ![i] = how] /\ UNCHANGED calls
      \/ /\ i \in pending /\ pending' = pending \ {i} /\ active' = active - 1
         /\ Settle(i, how) /\ UNCHANGED <<streams, fin>>
      \/ UNCHANGED <<calls, pending, streams, active, fin>>
  BY <1>1 DEF Receive
<1>4. CASE UNCHANGED <<calls, pending, streams, active, fin>>
  BY <1>2, <1>4 DEF CallInv, Calls
<1>5. CASE i \in pending \cup streams
  <2>1. i \in Calls /\ i \in 1..MaxCalls
    <3>1. i \in Calls
      BY <1>5 DEF NodeTypeInv
    <3>2. Len(calls) \in Nat /\ Len(calls) <= MaxCalls
      BY LenProperties DEF NodeTypeInv
    <3> QED BY <3>1, <3>2, NodeAssumption DEF Calls
  <2>2. fin \in [1..MaxCalls -> Ends] /\ Calls \subseteq 1..MaxCalls
    <3>1. Len(calls) \in Nat /\ Len(calls) <= MaxCalls
      BY LenProperties DEF NodeTypeInv
    <3> QED BY <3>1, NodeAssumption DEF NodeTypeInv, Calls
  <2>3. CASE /\ i \in streams /\ UNCHANGED <<pending, streams, active, fin>>
             /\ calls[i].state = "waiting" /\ Settle(i, "busy")
    <3>1. /\ Calls' = Calls /\ \A j \in Calls \ {i} : calls'[j] = calls[j]
          /\ calls'[i].kind = calls[i].kind /\ calls'[i].gen = calls[i].gen
          /\ calls'[i].state = "busy"
      BY <2>1, <2>3, SettleFacts
    <3>2. active' = Cardinality(pending') + Cardinality(streams')
      BY <2>3 DEF CallInv
    <3> QED BY <1>2, <2>1, <2>3, <3>1, <3>2, CallMoves
  <2>4. CASE /\ i \in pending \cup streams /\ pending' = pending \ {i} /\ streams' = streams \ {i}
             /\ active' = active - 1 /\ Settle(i, how) /\ UNCHANGED fin
    <3>1. /\ Calls' = Calls /\ \A j \in Calls \ {i} : calls'[j] = calls[j]
          /\ calls'[i].kind = calls[i].kind /\ calls'[i].gen = calls[i].gen
          /\ calls'[i].state = how
      BY <2>1, <2>4, SettleFacts
    <3>2. active' = Cardinality(pending') + Cardinality(streams')
      BY <2>4, CountLeft
    <3>3. how \in {"ok", "error"}
      BY <1>1
    <3> QED BY <1>2, <2>1, <2>4, <3>1, <3>2, <3>3, CallMoves
  <2>5. CASE /\ i \in streams /\ i \notin pending /\ pending' = pending \ {i} /\ streams' = streams \ {i}
             /\ active' = active - 1 /\ calls[i].state # "waiting"
             /\ fin' = [fin EXCEPT ![i] = how] /\ UNCHANGED calls
    <3>1. active' = Cardinality(pending') + Cardinality(streams')
      BY <2>5, CountLeft
    <3>2. fin'[i] = how /\ how \in {"ok", "error"} /\ \A j \in Calls \ {i} : fin'[j] = fin[j]
      BY <1>1, <2>1, <2>2, <2>5
    <3>3. calls[i].state # "pending" /\ Calls' = Calls
      BY <2>1, <2>5 DEF CallInv, Calls
    <3> QED BY <1>2, <2>1, <2>5, <3>1, <3>2, <3>3, CallMoves
  <2>6. /\ i \in pending => i \notin streams /\ streams = streams \ {i}
        /\ i \in streams => i \notin pending /\ pending = pending \ {i}
    BY MapCounts
  <2> QED BY <1>3, <1>4, <2>3, <2>4, <2>5, <2>6
<1> QED BY <1>3, <1>4, <1>5

LEMMA CallInit == RpcInit => CallInv
BY FS_EmptySet DEF RpcInit, NodeInit, CallInv, Calls

LEMMA CallsStep == RpcInv /\ CallInv /\ [RpcNext]_vars => CallInv'
<1> SUFFICES ASSUME RpcInv, CallInv, [RpcNext]_vars PROVE CallInv'
  OBVIOUS
<1>0. NodeTypeInv /\ UNCHANGED peer
  <2>1. UNCHANGED peer
    BY DEF RpcNext, Finished, vars
  <2> QED BY <2>1 DEF RpcInv
<1>1. CASE UNCHANGED <<gen, current, calls, pending, streams, active, fin>>
  BY <1>0, <1>1 DEF CallInv, Calls
<1>2. CASE UNCHANGED node \/ UNCHANGED vars
  BY <1>1, <1>2 DEF node, vars
<1>3. CASE peer = "node" /\ (Request \/ Crawl)
  <2>1. Request => \E kind \in {"tool", "open"} : NewCall(kind, 0, "pending")
    BY DEF Request
  <2>2. Crawl => NewCall("crawl", 0, "waiting")
    BY DEF Crawl
  <2> QED BY <1>0, <1>3, <2>1, <2>2, NewCallKeeps DEF Kinds
<1>4. ASSUME NEW o \in 1..Len(objs), peer = "node", SessionFetch(o) \/ SessionClose(o)
      PROVE  CallInv'
  <2>1. PICK sid : sid = objs[o].sid
    OBVIOUS
  <2>2. CASE NewCall("fetch", objs[o].sid, "pending") \/ NewCall("close", objs[o].sid, "pending")
    <3>1. NewCall("fetch", sid, "pending") \/ NewCall("close", sid, "pending")
      BY <2>1, <2>2
    <3> QED BY <1>0, <1>4, <3>1, NewCallKeeps DEF Kinds
  <2>3. CASE Connect(<<>>) /\ UNCHANGED <<calls, pending, streams, active, buf, fin, got>>
    <3>1. /\ current' = TRUE /\ gen' = Generation
          /\ \A i \in pending \cup streams : calls[i].gen = gen'
      BY <2>3, NewProcess
    <3>2. UNCHANGED <<calls, pending, streams, active, fin, peer>> /\ Calls' = Calls
      BY <1>0, <2>3 DEF Calls
    <3> QED BY <1>4, <3>1, <3>2 DEF CallInv
  <2> QED BY <1>4, <2>2, <2>3 DEF SessionFetch, SessionClose
<1>5. CASE Shutdown \/ ExitEvent
  BY <1>0, <1>5, CloseKeeps DEF Shutdown, ExitEvent
<1>6. CASE Die
  BY <1>1, <1>6 DEF Die
<1>7. CASE peer = "node" /\ NodeStep
  BY <1>0, <1>3, <1>4, <1>5, <1>6, <1>7, AbortKeeps, NextKeeps, ReceiveKeeps
     DEF NodeStep, UserStep, EventStep
<1> QED BY <1>2, <1>7 DEF RpcNext, Finished

\* rpc-client.ts: a promise not settled, or a consumer that waits, is in a map of the current client,
\* where an answer, an abort or the end of the process finds it, and the count of references that
\* keeps the Node process alive is the number of these calls.
THEOREM NothingForgottenHolds == Spec => []NothingForgotten
<1>1. CallInv => NothingForgotten
  BY DEF CallInv, NothingForgotten
<1>2. RpcInit => RpcInv /\ CallInv
  BY RpcInitInv, CallInit
<1>3. RpcInv /\ CallInv /\ [RpcNext]_vars => (RpcInv /\ CallInv)'
  BY RpcStepInv, CallsStep
<1> QED BY <1>1, <1>2, <1>3, PTL DEF Spec

-----------------------------------------------------------------------------
(***************************************************************************)
(* What a session number on the pipe stands for.                           *)
(***************************************************************************)
\* A frame names a session by the number of an object of generation g.
Belongs(f, g) ==
  f.kind \in OnSession => \E o \in 1..Len(objs) : objs[o].gen = g /\ objs[o].sid = f.sid

\* Objects keep their number and their generation.
ObjectsKept ==
  /\ Len(objs) <= Len(objs')
  /\ \A o \in 1..Len(objs) : objs'[o].gen = objs[o].gen /\ objs'[o].sid = objs[o].sid

LEMMA BelongsStill ==
  ASSUME NodeTypeInv, NodeTypeInv', ObjectsKept, NEW f, NEW g, Belongs(f, g)
  PROVE  Belongs(f, g)'
<1>1. Len(objs) \in Nat /\ Len(objs') \in Nat /\ Len(objs) <= Len(objs')
  BY LenProperties DEF NodeTypeInv, ObjectsKept
<1> QED BY <1>1 DEF Belongs, ObjectsKept

\* The pipe loses its first frame, or everything, or gets one more.
LEMMA PipeBelongs ==
  ASSUME PipeTypeInv, NodeTypeInv, NodeTypeInv', SessionBelongs, ObjectsKept,
         current' => \/ current /\ gen' = gen /\ stdin # <<>> /\ stdin' = Tail(stdin)
                     \/ current /\ gen' = gen /\ UNCHANGED stdin
                     \/ stdin' = <<>>
  PROVE  SessionBelongs'
<1> SUFFICES ASSUME current', NEW k \in 1..Len(stdin') PROVE Belongs(stdin[k], gen)'
  BY DEF SessionBelongs, Belongs
<1>1. stdin' # <<>>
  BY EmptySeq
<1>2. PICK j \in 1..Len(stdin) : stdin'[k] = stdin[j]
  <2>1. stdin \in Seq(ReadFrames)
    BY DEF PipeTypeInv
  <2>2. CASE stdin # <<>> /\ stdin' = Tail(stdin)
    <3>1. Len(stdin) \in Nat /\ Len(stdin') = Len(stdin) - 1 /\ \A i \in 1..Len(stdin') : stdin'[i] = stdin[i + 1]
      BY <2>1, <2>2, HeadTailProperties, LenProperties
    <3>2. k + 1 \in 1..Len(stdin) /\ stdin'[k] = stdin[k + 1]
      BY <3>1
    <3> QED BY <3>2
  <2> QED BY <1>1, <2>2
<1>3. current /\ gen' = gen
  BY <1>1
<1>4. Belongs(stdin[j], gen)
  BY <1>3 DEF SessionBelongs, Belongs
<1>5. PICK f, g : f = stdin[j] /\ g = gen
  OBVIOUS
<1>6. Belongs(f, g)
  BY <1>4, <1>5 DEF Belongs
<1>7. Belongs(f, g)'
  BY <1>6, BelongsStill
<1> QED BY <1>2, <1>3, <1>5, <1>7 DEF Belongs

\* What the client writes is of the process it writes to.
LEMMA WrittenBelongs ==
  ASSUME PipeTypeInv, NodeTypeInv, NodeTypeInv', SessionBelongs, ObjectsKept,
         NEW f \in ReadFrames, Belongs(f, gen)',
         \/ current /\ gen' = gen /\ stdin' = Written(<<f>>)
         \/ stdin' = <<f>>
  PROVE  SessionBelongs'
<1> SUFFICES ASSUME current', NEW k \in 1..Len(stdin') PROVE Belongs(stdin[k], gen)'
  BY DEF SessionBelongs, Belongs
<1>1. CASE stdin'[k] = f
  BY <1>1 DEF Belongs
<1>2. CASE current /\ gen' = gen /\ \E j \in 1..Len(stdin) : stdin'[k] = stdin[j]
  <2>1. PICK j \in 1..Len(stdin) : stdin'[k] = stdin[j]
    BY <1>2
  <2>2. PICK h, g : h = stdin[j] /\ g = gen
    OBVIOUS
  <2>3. Belongs(h, g)
    BY <1>2, <2>2 DEF SessionBelongs, Belongs
  <2>4. Belongs(h, g)'
    BY <2>3, BelongsStill
  <2> QED BY <1>2, <2>1, <2>2, <2>4 DEF Belongs
<1>3. CASE stdin' = <<f>>
  BY <1>1, <1>3
<1>4. CASE current /\ gen' = gen /\ stdin' = Written(<<f>>)
  <2>1. stdin \in Seq(ReadFrames) /\ <<f>> \in Seq(ReadFrames) /\ Len(<<f>>) = 1 /\ <<f>>[1] = f
    BY DEF PipeTypeInv
  <2>2. CASE stdin' = stdin
    BY <1>2, <1>4, <2>2
  <2>3. CASE stdin' = stdin \o <<f>>
    <3>1. /\ Len(stdin') = Len(stdin) + 1 /\ Len(stdin) \in Nat
          /\ \A i \in 1..(Len(stdin) + 1) :
               stdin'[i] = IF i <= Len(stdin) THEN stdin[i] ELSE <<f>>[i - Len(stdin)]
      BY <2>1, <2>3, ConcatProperties, LenProperties
    <3>2. (k \in 1..Len(stdin) /\ stdin'[k] = stdin[k]) \/ stdin'[k] = f
      BY <2>1, <3>1
    <3> QED BY <1>1, <1>2, <1>4, <3>2
  <2> QED BY <1>4, <2>2, <2>3 DEF Written
<1> QED BY <1>3, <1>4

\* A call that is about no session, or about one of the process it goes to.
LEMMA CallBelongs ==
  ASSUME PipeTypeInv, NodeTypeInv, NodeTypeInv', SessionBelongs, ObjectsKept,
         NEW kind \in Kinds, NEW sid \in Nat, NEW state, NewCall(kind, sid, state),
         kind \in OnSession =>
           \E o \in 1..Len(objs) : objs[o].gen = Generation /\ objs[o].sid = sid
  PROVE  SessionBelongs'
<1>1. PICK i : i = Len(calls) + 1
  OBVIOUS
<1> DEFINE f == Frame(kind, i, sid)
<1>2. Connect(<<f>>) /\ Len(calls) < MaxCalls
  BY <1>1 DEF NewCall
<1>3. f \in ReadFrames
  <2>1. i \in 1..MaxCalls
    BY <1>1, <1>2, LenProperties, NodeAssumption DEF NodeTypeInv
  <2> QED BY <2>1, NodeAssumption DEF Frame, ReadFrames, Kinds, Methods
<1>4. f.kind = kind /\ f.sid = sid
  BY DEF Frame
<1> HIDE DEF f
<1>5. /\ gen' = Generation
      /\ \/ current /\ gen' = gen /\ stdin' = Written(<<f>>)
         \/ stdin' = <<f>>
  BY <1>2 DEF Connect, Generation
<1>6. PICK g : g = Generation
  OBVIOUS
<1>7. Belongs(f, g)
  BY <1>4, <1>6 DEF Belongs
<1>8. Belongs(f, g)'
  BY <1>7, BelongsStill
<1>9. Belongs(f, gen)'
  BY <1>5, <1>6, <1>8 DEF Belongs
<1> QED BY <1>3, <1>5, <1>9, WrittenBelongs

LEMMA BelongsStep ==
  RpcInv /\ RpcInv' /\ CallInv /\ SessionBelongs /\ [RpcNext]_vars => SessionBelongs'
<1> SUFFICES ASSUME RpcInv, RpcInv', CallInv, SessionBelongs, [RpcNext]_vars PROVE SessionBelongs'
  OBVIOUS
<1>0. PipeTypeInv /\ NodeTypeInv /\ NodeTypeInv'
  BY DEF RpcInv
<1>1. UNCHANGED objs => ObjectsKept
  <2>1. Len(objs) \in Nat
    BY <1>0, LenProperties DEF NodeTypeInv
  <2> QED BY <2>1 DEF ObjectsKept
<1>2. CASE ServerStep /\ UNCHANGED <<peer, node>>
  <2>1. \/ stdin # <<>> /\ stdin' = Tail(stdin)
        \/ UNCHANGED stdin
    <3>1. Read => stdin # <<>> /\ stdin' = Tail(stdin)
      BY DEF Read
    <3>2. EndOfInput \/ Return => UNCHANGED stdin
      BY DEF EndOfInput, Return, pipes
    <3>3. ASSUME NEW t \in Tasks, TaskStep(t) PROVE UNCHANGED stdin
      BY <3>3 DEF TaskStep, Refuse, Initialize, BeginWork, LookUp, Remove, AskLock, Locked, Progress,
         Opened, Insert, FinishTool, FinishCrawl, OpenFails, FinishFetch, FinishClose, Cancelled,
         Deregister, Answer, pipes
    <3> QED BY <1>2, <3>1, <3>2, <3>3 DEF ServerStep
  <2>2. UNCHANGED <<objs, gen, current>>
    BY <1>2 DEF node
  <2> QED BY <1>0, <1>1, <2>1, <2>2, PipeBelongs
<1>3. CASE peer = "any" /\ AnyClient /\ UNCHANGED <<peer, server, node>>
  <2>1. ~current'
    BY <1>3 DEF CallInv, node
  <2> QED BY <2>1 DEF SessionBelongs
<1>4. CASE UNCHANGED vars
  <2>1. UNCHANGED <<stdin, objs, gen, current>>
    BY <1>4 DEF vars, pipes, node
  <2> QED BY <1>0, <1>1, <2>1, PipeBelongs
<1>5. CASE Request \/ Crawl
  <2>1. UNCHANGED objs
    BY <1>5 DEF Request, Crawl
  <2>2. Request => \E kind \in {"tool", "open"} : NewCall(kind, 0, "pending")
    BY DEF Request
  <2>3. Crawl => NewCall("crawl", 0, "waiting")
    BY DEF Crawl
  <2> QED BY <1>0, <1>1, <1>5, <2>1, <2>2, <2>3, CallBelongs DEF Kinds, OnSession
<1>6. ASSUME NEW o \in 1..Len(objs), SessionFetch(o) \/ SessionClose(o) PROVE SessionBelongs'
  <2>1. objs \in Seq(Handles) /\ objs[o] \in Handles /\ objs[o].sid \in Nat
    <3>1. objs \in Seq(Handles) /\ objs[o] \in Handles
      BY <1>0 DEF NodeTypeInv
    <3> QED BY <3>1 DEF Handles
  <2>2. ObjectsKept
    <3>1. CASE UNCHANGED objs
      BY <1>1, <3>1
    <3>2. CASE objs' = [objs EXCEPT ![o].closed = TRUE]
      <4>1. Len(objs) \in Nat /\ objs \in [1..Len(objs) -> Handles]
        BY <2>1, LenProperties
      <4>2. Len(objs') = Len(objs)
        BY <2>1, <3>2
      <4>3. /\ \A p \in 1..Len(objs) : p # o => objs'[p] = objs[p]
            /\ objs'[o] = [objs[o] EXCEPT !.closed = TRUE]
        BY <3>2, <4>1
      <4>4. objs'[o].gen = objs[o].gen /\ objs'[o].sid = objs[o].sid
        BY <2>1, <4>3 DEF Handles
      <4>5. \A p \in 1..Len(objs) : objs'[p].gen = objs[p].gen /\ objs'[p].sid = objs[p].sid
        BY <4>3, <4>4
      <4> QED BY <4>1, <4>2, <4>5 DEF ObjectsKept
    <3> QED BY <1>6, <3>1, <3>2 DEF SessionFetch, SessionClose
  <2>3. PICK sid \in Nat : sid = objs[o].sid
    BY <2>1
  <2>4. CASE /\ Generation = objs[o].gen
             /\ NewCall("fetch", objs[o].sid, "pending") \/ NewCall("close", objs[o].sid, "pending")
    <3>1. NewCall("fetch", sid, "pending") \/ NewCall("close", sid, "pending")
      BY <2>3, <2>4
    <3>2. \E p \in 1..Len(objs) : objs[p].gen = Generation /\ objs[p].sid = sid
      BY <2>3, <2>4
    <3> QED BY <1>0, <2>2, <3>1, <3>2, CallBelongs DEF Kinds
  <2>5. CASE Connect(<<>>)
    <3>1. current => gen' = gen /\ stdin' = Written(<<>>)
      BY <2>5 DEF Connect, Generation
    <3>2. ~current => stdin' = <<>>
      BY <2>5 DEF Connect
    <3>3. Written(<<>>) = stdin
      BY <1>0, ConcatEmptySeq DEF Written, PipeTypeInv
    <3> QED BY <1>0, <2>2, <3>1, <3>2, <3>3, PipeBelongs
  <2> QED BY <1>6, <2>4, <2>5 DEF SessionFetch, SessionClose
<1>7. ASSUME NEW i \in Calls, Abort(i) \/ StopEarly(i) PROVE SessionBelongs'
  <2>1. UNCHANGED <<objs, gen, current>>
        /\ (UNCHANGED stdin \/ stdin' = Written(<<Cancellation(i)>>))
    BY <1>7 DEF Abort, StopEarly
  <2>2. CASE UNCHANGED stdin
    BY <1>0, <1>1, <2>1, <2>2, PipeBelongs
  <2>3. CASE stdin' = Written(<<Cancellation(i)>>)
    <3>1. i \in Ids
      BY <1>0, LenProperties, NodeAssumption DEF NodeTypeInv, Calls
    <3>2. Cancellation(i) \in ReadFrames /\ Cancellation(i).kind = "cancel"
      BY <3>1 DEF Cancellation, Frame, ReadFrames, Notes
    <3>3. PICK f \in ReadFrames : f = Cancellation(i) /\ f.kind \notin OnSession
      BY <3>2 DEF OnSession
    <3>4. Belongs(f, gen)'
      BY <3>3 DEF Belongs
    <3>5. stdin' = Written(<<f>>)
      BY <2>3, <3>3
    <3>6. CASE current
      BY <1>0, <1>1, <2>1, <3>4, <3>5, <3>6, WrittenBelongs
    <3>7. CASE ~current
      BY <2>1, <3>7 DEF SessionBelongs
    <3> QED BY <3>6, <3>7
  <2> QED BY <2>1, <2>2, <2>3
<1>8. CASE Receive
  <2>1. UNCHANGED <<stdin, gen, current>>
    BY <1>8 DEF Receive
  <2>2. UNCHANGED objs \/ \E h : objs' = Append(objs, h)
    BY <1>8 DEF Receive
  <2>3. ObjectsKept
    <3>1. CASE \E h : objs' = Append(objs, h)
      <4>1. PICK h : objs' = Append(objs, h)
        BY <3>1
      <4>2. objs \in Seq(Handles) /\ objs' \in Seq(Handles)
        BY <1>0 DEF NodeTypeInv
      <4>3. Len(objs) \in Nat /\ Len(objs') = Len(objs) + 1 /\ \A o \in 1..Len(objs) : objs'[o] = objs[o]
        BY <4>1, <4>2, LenProperties
      <4> QED BY <4>3 DEF ObjectsKept
    <3> QED BY <1>1, <2>2, <3>1
  <2> QED BY <1>0, <2>1, <2>3, PipeBelongs
<1>9. CASE Shutdown \/ ExitEvent
  <2>1. ~current'
    BY <1>9 DEF Shutdown, ExitEvent, Close
  <2> QED BY <2>1 DEF SessionBelongs
<1>10. CASE Die
  <2>1. UNCHANGED objs /\ stdin' = <<>>
    BY <1>10 DEF Die
  <2> QED BY <1>0, <1>1, <2>1, PipeBelongs
<1>11. ASSUME NEW i \in Calls, Next(i) PROVE SessionBelongs'
  <2>1. UNCHANGED <<stdin, objs, gen, current>>
    BY <1>11 DEF Next, pipes
  <2> QED BY <1>0, <1>1, <2>1, PipeBelongs
<1> QED BY <1>2, <1>3, <1>4, <1>5, <1>6, <1>7, <1>8, <1>9, <1>10, <1>11
        DEF RpcNext, Finished, NodeStep, UserStep, EventStep

\* "session belongs to a previous server process" (bindings/node, Session.guard): whatever frame the
\* current process reads a session's number from, it is a session that this process has opened for
\* the object the call is made through, though processes die and numbers start again.
THEOREM SessionBelongsHolds == Spec => []SessionBelongs
<1>1. RpcInit => RpcInv /\ CallInv /\ SessionBelongs
  BY RpcInitInv, CallInit DEF RpcInit, NodeInit, SessionBelongs
<1>2. RpcInv /\ CallInv /\ SessionBelongs /\ [RpcNext]_vars => (RpcInv /\ CallInv /\ SessionBelongs)'
  BY RpcStepInv, CallsStep, BelongsStep
<1> QED BY <1>1, <1>2, PTL DEF Spec

-----------------------------------------------------------------------------
(***************************************************************************)
(* The pages of a crawl on their way to the consumer.                      *)
(***************************************************************************)
\* How many pages the lines of w report to call i.
Pages(w, i) == Cardinality({k \in 1..Len(w) : w[k].id = i /\ w[k].about = "progress"})

Taken(t) == tpc[t] # "none"

\* A frame that asks for call i of the current process.
Asks(f) == f.kind \in Kinds
AsksRightly(f) ==
  f.kind \in Kinds /\ f.id \in Calls /\ calls[f.id].gen = gen /\ calls[f.id].kind = f.kind

StreamTypes ==
  /\ buf \in [1..MaxCalls -> Nat] /\ got \in [1..MaxCalls -> Nat] /\ sent \in [Tasks -> Nat]

\* A consumer that waits, or whose stream has ended well, has nothing queued; a stream in the map
\* is not at its end.
ConsumerInv ==
  /\ \A i \in 1..MaxCalls : i > Len(calls) => buf[i] = 0 /\ got[i] = 0 /\ fin[i] = "no"
  /\ \A i \in Calls : calls[i].gen <= gen
  /\ \A i \in Calls : calls[i].kind = "crawl" /\ calls[i].state \in {"waiting", "ok"} => buf[i] = 0
  /\ \A i \in streams : calls[i].state \in {"waiting", "busy"} /\ fin[i] = "no"

\* Pipes and process exist together, and a task starts with nothing reported.
ProcessInv ==
  /\ stdoutOpen /\ (child = "running" => current)
  /\ child # "running" => stdin = <<>> /\ \A t \in Tasks : ~Taken(t)
  /\ \A t \in Tasks : ~Taken(t) => sent[t] = 0

\* A call is asked for once: by a frame in the pipe, or by a task's.
OnceInv ==
  /\ \A k \in 1..Len(stdin) : AsksRightly(stdin[k]) \/ stdin[k].kind = "cancel"
  /\ \A t \in Tasks : Taken(t) => AsksRightly(req[t])
  /\ \A k, l \in 1..Len(stdin) : Asks(stdin[k]) /\ Asks(stdin[l]) /\ stdin[k].id = stdin[l].id => k = l
  /\ \A t, u \in Tasks : Taken(t) /\ Taken(u) /\ req[t].id = req[u].id => t = u
  /\ \A k \in 1..Len(stdin), t \in Tasks : Asks(stdin[k]) /\ Taken(t) => stdin[k].id # req[t].id

\* A line is some task's, and an answer is its last.
LinesInv ==
  /\ \A k \in 1..Len(stdout) : \E t \in Tasks : Taken(t) /\ req[t].id = stdout[k].id
  /\ \A k \in 1..Len(stdout) : stdout[k].about # "progress" =>
       /\ \A t \in Tasks : Taken(t) /\ req[t].id = stdout[k].id => tpc[t] = "done"
       /\ \A l \in 1..Len(stdout) : k < l => stdout[l].id # stdout[k].id

\* The client has not heard of call i, or knows nothing of its end.
Untouched(i) == got[i] = 0 /\ buf[i] = 0 /\ fin[i] # "ok" /\ calls[i].state # "ok"

\* Nothing comes before a crawl is begun.
FreshInv == \A k \in 1..Len(stdin) : stdin[k].kind = "crawl" => Untouched(stdin[k].id)

\* What a crawl has reported is consumed, queued, or on its way; at a good end nothing is on its
\* way any more.
Tally(t) ==
  LET i == req[t].id IN
  /\ i \in streams => got[i] + buf[i] + Pages(stdout, i) = sent[t]
  /\ fin[i] = "ok" \/ calls[i].state = "ok" => tpc[t] = "done" /\ got[i] + buf[i] = sent[t]

TallyInv == \A t \in Tasks : Taken(t) /\ req[t].kind = "crawl" => Tally(t)

NodeInv == ProcessInv /\ OnceInv /\ FreshInv /\ (child = "running" => LinesInv /\ TallyInv)

StreamInv ==
  /\ StreamTypes /\ ConsumerInv
  /\ peer = "node" => NodeInv
  /\ peer # "node" => child = "none"

\* The places of the lines that report a page to i.
Places(w, i) == {k \in 1..Len(w) : w[k].id = i /\ w[k].about = "progress"}

LEMMA PlacesFinite ==
  ASSUME NEW w \in Seq(WrittenLines), NEW i
  PROVE  IsFiniteSet(Places(w, i)) /\ Pages(w, i) = Cardinality(Places(w, i)) /\ Pages(w, i) \in Nat
<1>1. IsFiniteSet(1..Len(w))
  BY LenProperties, FS_Interval
<1>2. Places(w, i) \subseteq 1..Len(w)
  BY DEF Places
<1>3. IsFiniteSet(Places(w, i))
  BY <1>1, <1>2, FS_Subset
<1>4. Pages(w, i) = Cardinality(Places(w, i))
  BY DEF Pages, Places
<1> QED BY <1>3, <1>4, FS_CardinalityType

\* A line more.
LEMMA PagesMore ==
  ASSUME NEW w \in Seq(WrittenLines), NEW e \in WrittenLines, NEW i
  PROVE  Pages(Append(w, e), i) = Pages(w, i) + (IF e.id = i /\ e.about = "progress" THEN 1 ELSE 0)
<1> DEFINE v == Append(w, e)
           n == Len(w) + 1
<1>1. /\ Len(w) \in Nat /\ v \in Seq(WrittenLines) /\ Len(v) = n /\ v[n] = e
      /\ \A k \in 1..Len(w) : v[k] = w[k]
  BY LenProperties, AppendProperties
<1> HIDE DEF v
<1>2. n \notin Places(w, i)
  BY <1>1 DEF Places
<1>3. Places(v, i) = IF e.id = i /\ e.about = "progress" THEN Places(w, i) \cup {n} ELSE Places(w, i)
  <2>1. 1..Len(v) = 1..Len(w) \cup {n}
    BY <1>1
  <2>2. Places(v, i) = {k \in 1..Len(w) : v[k].id = i /\ v[k].about = "progress"}
                         \cup {k \in {n} : v[k].id = i /\ v[k].about = "progress"}
    BY <2>1 DEF Places
  <2>3. {k \in 1..Len(w) : v[k].id = i /\ v[k].about = "progress"} = Places(w, i)
    BY <1>1 DEF Places
  <2> QED BY <1>1, <2>2, <2>3
<1>4. /\ IsFiniteSet(Places(w, i)) /\ Pages(w, i) = Cardinality(Places(w, i)) /\ Pages(w, i) \in Nat
      /\ Pages(v, i) = Cardinality(Places(v, i))
  BY <1>1, PlacesFinite
<1>5. CASE e.id = i /\ e.about = "progress"
  <2>1. Cardinality(Places(w, i) \cup {n}) = Cardinality(Places(w, i)) + 1
    BY <1>2, <1>4, FS_AddElement
  <2> QED BY <1>3, <1>4, <1>5, <2>1 DEF v
<1>6. CASE ~(e.id = i /\ e.about = "progress")
  BY <1>3, <1>4, <1>6 DEF v
<1> QED BY <1>5, <1>6

\* The first line is read.
LEMMA PagesLess ==
  ASSUME NEW w \in Seq(WrittenLines), w # <<>>, NEW i
  PROVE  Pages(w, i) = Pages(Tail(w), i) + (IF Head(w).id = i /\ Head(w).about = "progress" THEN 1 ELSE 0)
<1> DEFINE v == Tail(w)
           R == Places(w, i) \ {1}
<1>1. /\ Len(w) \in Nat \ {0} /\ v \in Seq(WrittenLines) /\ Len(v) = Len(w) - 1 /\ Head(w) = w[1]
      /\ \A k \in 1..Len(v) : v[k] = w[k + 1]
  BY EmptySeq, HeadTailProperties
<1> HIDE DEF v
<1>2. /\ IsFiniteSet(Places(w, i)) /\ Pages(w, i) = Cardinality(Places(w, i))
      /\ IsFiniteSet(Places(v, i)) /\ Pages(v, i) = Cardinality(Places(v, i)) /\ Pages(v, i) \in Nat
  BY <1>1, PlacesFinite
<1>3. Cardinality(R) = Pages(v, i)
  <2> DEFINE f == [k \in Places(v, i) |-> k + 1]
  <2>1. ASSUME NEW k \in Places(v, i) PROVE k + 1 \in R
    <3>1. k \in 1..Len(v) /\ v[k].id = i /\ v[k].about = "progress"
      BY DEF Places
    <3>2. k + 1 \in 1..Len(w) /\ k + 1 # 1 /\ w[k + 1].id = i /\ w[k + 1].about = "progress"
      BY <1>1, <3>1
    <3> QED BY <3>2 DEF Places
  <2>2. ASSUME NEW m \in R PROVE m - 1 \in Places(v, i) /\ (m - 1) + 1 = m
    <3>1. m \in 1..Len(w) /\ m # 1 /\ w[m].id = i /\ w[m].about = "progress"
      BY DEF Places
    <3>2. m - 1 \in 1..Len(v) /\ (m - 1) + 1 = m
      BY <1>1, <3>1
    <3>3. v[m - 1] = w[m]
      BY <1>1, <3>2
    <3> QED BY <3>1, <3>2, <3>3 DEF Places
  <2>3. \A a, b \in Places(v, i) : a + 1 = b + 1 => a = b
    BY DEF Places
  <2> HIDE DEF R
  <2>4. f \in [Places(v, i) -> R]
    BY <2>1
  <2>5. \A a, b \in Places(v, i) : f[a] = f[b] => a = b
    BY <2>3
  <2>6. \A m \in R : \E k \in Places(v, i) : f[k] = m
    BY <2>2
  <2> HIDE DEF f
  <2>7. f \in Bijection(Places(v, i), R)
    BY <2>4, <2>5, <2>6, Fun_IsBij
  <2>8. ExistsBijection(Places(v, i), R)
    BY <2>7 DEF ExistsBijection
  <2> QED BY <1>2, <2>8, FS_Bijection
<1>4. 1 \in Places(w, i) <=> w[1].id = i /\ w[1].about = "progress"
  BY <1>1 DEF Places
<1>5. CASE 1 \in Places(w, i)
  <2>1. Cardinality(R) = Cardinality(Places(w, i)) - 1
    BY <1>2, <1>5, FS_RemoveElement
  <2>2. Cardinality(Places(w, i)) \in Nat
    BY <1>2, FS_CardinalityType
  <2> HIDE DEF R
  <2> QED BY <1>1, <1>2, <1>3, <1>4, <1>5, <2>1, <2>2 DEF v
<1>6. CASE 1 \notin Places(w, i)
  <2>1. R = Places(w, i)
    BY <1>6
  <2> HIDE DEF R
  <2> QED BY <1>1, <1>2, <1>3, <1>4, <1>6, <2>1 DEF v
<1> QED BY <1>5, <1>6

\* No line, no page.
LEMMA PagesNone ==
  ASSUME NEW w \in Seq(WrittenLines), NEW i, \A k \in 1..Len(w) : w[k].id # i
  PROVE  Pages(w, i) = 0
<1>1. Places(w, i) = {}
  BY DEF Places
<1> QED BY <1>1, PlacesFinite, FS_EmptySet

-----------------------------------------------------------------------------
\* Calls keep what they are about.
CallsStay == \A i \in Calls : i \in Calls' /\ calls'[i].kind = calls[i].kind /\ calls'[i].gen = calls[i].gen

Named(i) == \E k \in 1..Len(stdin) : Asks(stdin[k]) /\ stdin[k].id = i

\* Frames are read from the front of the pipe, and what is written behind them is a cancellation.
FramesMove(d) ==
  \A k \in 1..Len(stdin') : \/ stdin'[k].kind = "cancel"
                            \/ k + d \in 1..Len(stdin) /\ stdin'[k] = stdin[k + d]

LEMMA OnceKept ==
  ASSUME PipeTypeInv, PipeTypeInv', OnceInv, NEW d \in Nat, FramesMove(d),
         UNCHANGED <<req, gen>>, \A t \in Tasks : tpc'[t] # "none" <=> Taken(t), CallsStay
  PROVE  OnceInv'
<1>0. "cancel" \notin Kinds
  BY DEF Kinds
<1>1. Len(stdin) \in Nat /\ Len(stdin') \in Nat
  BY LenProperties DEF PipeTypeInv
<1>2. ASSUME NEW k \in 1..Len(stdin'), stdin'[k].kind # "cancel"
      PROVE  k + d \in 1..Len(stdin) /\ stdin'[k] = stdin[k + d]
  BY <1>2 DEF FramesMove
<1>3. \A f : AsksRightly(f) => AsksRightly(f)'
  BY DEF AsksRightly, CallsStay
<1>4. ASSUME NEW k \in 1..Len(stdin')
      PROVE  AsksRightly(stdin[k])' \/ stdin'[k].kind = "cancel"
  <2>1. SUFFICES ASSUME stdin'[k].kind # "cancel" PROVE AsksRightly(stdin[k])'
    OBVIOUS
  <2>2. AsksRightly(stdin[k + d]) /\ stdin'[k] = stdin[k + d]
    BY <1>2, <2>1 DEF OnceInv
  <2>3. PICK f : f = stdin[k + d]
    OBVIOUS
  <2>4. AsksRightly(f)'
    BY <1>3, <2>2, <2>3
  <2> QED BY <2>2, <2>3, <2>4 DEF AsksRightly
<1>5. ASSUME NEW t \in Tasks, tpc'[t] # "none" PROVE AsksRightly(req[t])'
  <2>1. PICK f : f = req[t]
    OBVIOUS
  <2>2. AsksRightly(f)'
    BY <1>3, <1>5, <2>1 DEF OnceInv
  <2> QED BY <2>1, <2>2 DEF AsksRightly
<1>6. ASSUME NEW k \in 1..Len(stdin'), NEW l \in 1..Len(stdin'),
             Asks(stdin[k])', Asks(stdin[l])', stdin'[k].id = stdin'[l].id
      PROVE  k = l
  <2>1. stdin'[k].kind # "cancel" /\ stdin'[l].kind # "cancel"
    BY <1>0, <1>6 DEF Asks
  <2>2. /\ k + d \in 1..Len(stdin) /\ stdin'[k] = stdin[k + d]
        /\ l + d \in 1..Len(stdin) /\ stdin'[l] = stdin[l + d]
    BY <1>2, <2>1
  <2>3. k + d = l + d
    BY <1>6, <2>2 DEF OnceInv, Asks
  <2> QED BY <1>1, <2>3
<1>7. ASSUME NEW k \in 1..Len(stdin'), NEW t \in Tasks, Asks(stdin[k])', tpc'[t] # "none"
      PROVE  stdin'[k].id # req'[t].id
  <2>1. k + d \in 1..Len(stdin) /\ stdin'[k] = stdin[k + d]
    BY <1>0, <1>2, <1>7 DEF Asks
  <2> QED BY <1>7, <2>1 DEF OnceInv, Asks
<1>8. \A t, u \in Tasks : tpc'[t] # "none" /\ tpc'[u] # "none" /\ req'[t].id = req'[u].id => t = u
  BY DEF OnceInv
<1> QED BY <1>4, <1>5, <1>6, <1>7, <1>8 DEF OnceInv, Taken

LEMMA FreshKept ==
  ASSUME OnceInv, FreshInv, NEW d \in Nat, FramesMove(d),
         \A i \in Calls : Named(i) /\ Untouched(i) => Untouched(i)'
  PROVE  FreshInv'
<1> SUFFICES ASSUME NEW k \in 1..Len(stdin'), stdin'[k].kind = "crawl"
             PROVE  Untouched(stdin[k].id)'
  BY DEF FreshInv
<1>1. k + d \in 1..Len(stdin) /\ stdin'[k] = stdin[k + d]
  BY DEF FramesMove
<1>2. PICK i : i = stdin[k + d].id
  OBVIOUS
<1>3. i \in Calls /\ Named(i) /\ Untouched(i)
  BY <1>1, <1>2 DEF OnceInv, FreshInv, AsksRightly, Asks, Named, Kinds
<1>4. Untouched(i)'
  BY <1>3
<1> QED BY <1>1, <1>2, <1>4 DEF Untouched

-----------------------------------------------------------------------------
\* A task that is not over goes on, and nothing is written.
GoesOn(t) ==
  /\ Taken(t) /\ tpc[t] # "done"
  /\ tpc' = [tpc EXCEPT ![t] = tpc'[t]] /\ tpc'[t] # "none"
  /\ UNCHANGED <<req, node, peer>>

LEMMA TakenStill ==
  ASSUME ServerTypeInv, NEW t \in Tasks, GoesOn(t)
  PROVE  /\ \A u \in Tasks : tpc'[u] # "none" <=> Taken(u)
         /\ \A u \in Tasks : tpc[u] = "done" => tpc'[u] = "done"
BY DEF ServerTypeInv, GoesOn, Taken

LEMMA QuietTallies ==
  ASSUME RpcInv, LinesInv, TallyInv, NEW t \in Tasks, GoesOn(t), UNCHANGED <<stdout, sent>>
  PROVE  LinesInv' /\ TallyInv'
<1>1. /\ \A u \in Tasks : tpc'[u] # "none" <=> Taken(u)
      /\ \A u \in Tasks : tpc[u] = "done" => tpc'[u] = "done"
  BY TakenStill DEF RpcInv
<1>2. UNCHANGED <<stdout, req, sent, got, buf, fin, streams, calls>>
  BY DEF GoesOn, node
<1>3. LinesInv'
  BY <1>1, <1>2 DEF LinesInv, Taken
<1>4. TallyInv'
  BY <1>1, <1>2 DEF TallyInv, Tally, Taken, Pages
<1> QED BY <1>3, <1>4

LEMMA ReportTallies ==
  ASSUME RpcInv, StreamTypes, OnceInv, LinesInv, TallyInv, stdoutOpen,
         NEW t \in Tasks, Progress(t), UNCHANGED <<peer, node>>
  PROVE  LinesInv' /\ TallyInv'
<1> DEFINE e == Line("progress", req[t].id, 0)
<1>1. /\ tpc[t] = "work" /\ req[t].kind = "crawl" /\ UNCHANGED <<tpc, req, node>>
      /\ sent' = [sent EXCEPT ![t] = @ + 1] /\ stdout' = Append(stdout, e)
  BY DEF Progress, Send
<1>2. Taken(t) /\ req[t] \in ReadFrames /\ req[t].id \in Ids
  BY <1>1 DEF RpcInv, ServerTypeInv, Taken, ReadFrames
<1>3. e \in WrittenLines /\ e.id = req[t].id /\ e.about = "progress"
  BY <1>2 DEF Line, WrittenLines, Abouts
<1> HIDE DEF e
<1>4. /\ Len(stdout) \in Nat /\ Len(stdout') = Len(stdout) + 1 /\ stdout'[Len(stdout) + 1] = e
      /\ \A k \in 1..Len(stdout) : stdout'[k] = stdout[k]
      /\ stdout \in Seq(WrittenLines)
  BY <1>1, <1>3, AppendProperties, LenProperties DEF RpcInv, PipeTypeInv
<1>5. ASSUME NEW k \in 1..Len(stdout') PROVE k \in 1..Len(stdout) \/ (k = Len(stdout) + 1 /\ stdout'[k] = e)
  BY <1>4
<1>6. LinesInv'
  <2>1. ASSUME NEW k \in 1..Len(stdout')
        PROVE  \E u \in Tasks : tpc'[u] # "none" /\ req'[u].id = stdout'[k].id
    BY <1>1, <1>2, <1>3, <1>4, <1>5 DEF LinesInv, Taken
  <2>2. ASSUME NEW k \in 1..Len(stdout'), stdout'[k].about # "progress"
        PROVE  /\ \A u \in Tasks : tpc'[u] # "none" /\ req'[u].id = stdout'[k].id => tpc'[u] = "done"
               /\ \A l \in 1..Len(stdout') : k < l => stdout'[l].id # stdout'[k].id
    <3>1. k \in 1..Len(stdout) /\ stdout'[k] = stdout[k]
      BY <1>3, <1>4, <1>5, <2>2
    <3>2. \A u \in Tasks : Taken(u) /\ req[u].id = stdout[k].id => tpc[u] = "done"
      BY <2>2, <3>1 DEF LinesInv
    <3>3. e.id # stdout[k].id
      BY <1>1, <1>2, <1>3, <3>2
    <3>4. ASSUME NEW l \in 1..Len(stdout'), k < l PROVE stdout'[l].id # stdout'[k].id
      <4>1. CASE l \in 1..Len(stdout)
        BY <1>4, <2>2, <3>1, <3>4, <4>1 DEF LinesInv
      <4>2. CASE stdout'[l] = e
        BY <3>1, <3>3, <4>2
      <4> QED BY <1>5, <4>1, <4>2
    <3> QED BY <1>1, <3>1, <3>2, <3>4 DEF Taken
  <2> QED BY <2>1, <2>2 DEF LinesInv, Taken
<1>7. ASSUME NEW u \in Tasks, Taken(u), req[u].kind = "crawl" PROVE Tally(u)'
  <2>1. PICK i : i = req[u].id
    OBVIOUS
  <2>2. /\ i \in streams => got[i] + buf[i] + Pages(stdout, i) = sent[u]
        /\ fin[i] = "ok" \/ calls[i].state = "ok" => tpc[u] = "done" /\ got[i] + buf[i] = sent[u]
        /\ i \in 1..MaxCalls
    <3>1. i \in Calls
      BY <1>7, <2>1 DEF OnceInv, AsksRightly
    <3>2. i \in 1..MaxCalls
      BY <3>1, LenProperties, NodeAssumption DEF RpcInv, NodeTypeInv, Calls
    <3> QED BY <1>7, <2>1, <3>2 DEF TallyInv, Tally
  <2>3. UNCHANGED <<got, buf, fin, calls, streams, req, tpc>>
    BY <1>1 DEF node
  <2>4. Pages(stdout', i) = Pages(stdout, i) + (IF e.id = i /\ e.about = "progress" THEN 1 ELSE 0)
    BY <1>1, <1>3, <1>4, PagesMore
  <2>5. Pages(stdout, i) \in Nat /\ got[i] \in Nat /\ buf[i] \in Nat /\ sent[u] \in Nat
    BY <1>4, <2>2, PlacesFinite DEF StreamTypes
  <2>6. CASE u = t
    <3>1. sent'[u] = sent[u] + 1 /\ Pages(stdout', i) = Pages(stdout, i) + 1
      BY <1>1, <1>3, <2>1, <2>4, <2>6 DEF StreamTypes
    <3>2. /\ i \in streams' => got'[i] + buf'[i] + Pages(stdout', i) = sent'[u]
          /\ ~(fin'[i] = "ok" \/ calls'[i].state = "ok")
      <4>1. tpc[u] # "done" /\ sent[u] + 1 \in Nat
        BY <1>1, <2>5, <2>6
      <4>2. i \in streams => got[i] + buf[i] + (Pages(stdout, i) + 1) = sent[u] + 1
        BY <2>2, <2>5
      <4> QED BY <2>2, <2>3, <3>1, <4>1, <4>2
    <3>3. req'[u].id = i
      BY <2>1, <2>3
    <3> QED BY <3>2, <3>3 DEF Tally
  <2>7. CASE u # t
    <3>1. e.id # i
      BY <1>2, <1>3, <1>7, <2>1, <2>7 DEF OnceInv
    <3>2. sent'[u] = sent[u] /\ Pages(stdout', i) = Pages(stdout, i)
      BY <1>1, <2>4, <2>5, <2>7, <3>1 DEF StreamTypes
    <3> QED BY <2>1, <2>2, <2>3, <3>2 DEF Tally
  <2> QED BY <2>6, <2>7
<1> QED BY <1>1, <1>6, <1>7 DEF TallyInv, Taken

LEMMA AnswerTallies ==
  ASSUME RpcInv, RpcInv', StreamTypes, OnceInv, LinesInv, TallyInv, stdoutOpen,
         NEW t \in Tasks, Answer(t), UNCHANGED <<peer, node>>
  PROVE  LinesInv' /\ TallyInv'
<1> DEFINE e == Line(out[t], req[t].id, own[t])
<1>1. /\ tpc[t] = "answer" /\ tpc' = [tpc EXCEPT ![t] = "done"] /\ UNCHANGED <<req, sent, node>>
      /\ stdout' = Append(stdout, e)
  BY DEF Answer, Send, Step
<1>2. Taken(t) /\ req[t] \in ReadFrames /\ req[t].id \in Ids /\ out[t] \in Outcomes /\ own[t] \in Nat
  BY <1>1 DEF RpcInv, ServerTypeInv, Taken, ReadFrames
<1>3. e \in WrittenLines /\ e.id = req[t].id /\ e.about # "progress"
  BY <1>2 DEF Line, WrittenLines, Abouts, Outcomes
<1> HIDE DEF e
<1>4. /\ Len(stdout) \in Nat /\ Len(stdout') = Len(stdout) + 1 /\ stdout'[Len(stdout) + 1] = e
      /\ \A k \in 1..Len(stdout) : stdout'[k] = stdout[k]
      /\ stdout \in Seq(WrittenLines)
  BY <1>1, <1>3, AppendProperties, LenProperties DEF RpcInv, PipeTypeInv
<1>5. ASSUME NEW k \in 1..Len(stdout') PROVE k \in 1..Len(stdout) \/ (k = Len(stdout) + 1 /\ stdout'[k] = e)
  BY <1>4
<1>6. /\ \A u \in Tasks : tpc'[u] # "none" <=> Taken(u)
      /\ \A u \in Tasks : tpc[u] = "done" => tpc'[u] = "done"
      /\ tpc'[t] = "done"
  BY <1>1 DEF RpcInv, ServerTypeInv, Taken
<1>7. LinesInv'
  <2>1. ASSUME NEW k \in 1..Len(stdout')
        PROVE  \E u \in Tasks : tpc'[u] # "none" /\ req'[u].id = stdout'[k].id
    BY <1>1, <1>2, <1>3, <1>4, <1>5, <1>6 DEF LinesInv
  <2>2. ASSUME NEW k \in 1..Len(stdout'), stdout'[k].about # "progress"
        PROVE  /\ \A u \in Tasks : tpc'[u] # "none" /\ req'[u].id = stdout'[k].id => tpc'[u] = "done"
               /\ \A l \in 1..Len(stdout') : k < l => stdout'[l].id # stdout'[k].id
    <3>1. CASE k \in 1..Len(stdout)
      <4>1. stdout'[k] = stdout[k]
        BY <1>4, <3>1
      <4>2. \A u \in Tasks : Taken(u) /\ req[u].id = stdout[k].id => tpc[u] = "done"
        BY <2>2, <3>1, <4>1 DEF LinesInv
      <4>3. e.id # stdout[k].id
        BY <1>1, <1>2, <1>3, <4>2
      <4>4. ASSUME NEW l \in 1..Len(stdout'), k < l PROVE stdout'[l].id # stdout'[k].id
        <5>1. CASE l \in 1..Len(stdout)
          BY <1>4, <2>2, <3>1, <4>1, <4>4, <5>1 DEF LinesInv
        <5>2. CASE stdout'[l] = e
          BY <4>1, <4>3, <5>2
        <5> QED BY <1>5, <5>1, <5>2
      <4> QED BY <1>1, <1>6, <4>1, <4>2, <4>4
    <3>2. CASE k = Len(stdout) + 1 /\ stdout'[k] = e
      <4>1. \A l \in 1..Len(stdout') : ~(k < l)
        BY <1>4, <3>2
      <4>2. ASSUME NEW u \in Tasks, tpc'[u] # "none", req'[u].id = stdout'[k].id PROVE tpc'[u] = "done"
        <5>1. u = t
          BY <1>1, <1>2, <1>3, <1>6, <3>2, <4>2 DEF OnceInv
        <5> QED BY <1>6, <5>1
      <4> QED BY <4>1, <4>2
    <3> QED BY <1>5, <3>1, <3>2
  <2> QED BY <2>1, <2>2 DEF LinesInv, Taken
<1>8. ASSUME NEW u \in Tasks, tpc'[u] # "none", req'[u].kind = "crawl" PROVE Tally(u)'
  <2>1. PICK i : i = req[u].id
    OBVIOUS
  <2>2. /\ i \in streams => got[i] + buf[i] + Pages(stdout, i) = sent[u]
        /\ fin[i] = "ok" \/ calls[i].state = "ok" => tpc[u] = "done" /\ got[i] + buf[i] = sent[u]
    BY <1>1, <1>6, <1>8, <2>1 DEF TallyInv, Tally
  <2>3. UNCHANGED <<got, buf, fin, calls, streams, req, sent>>
    BY <1>1 DEF node
  <2>4. Pages(stdout', i) = Pages(stdout, i)
    <3>1. Pages(stdout', i) = Pages(stdout, i) + (IF e.id = i /\ e.about = "progress" THEN 1 ELSE 0)
      BY <1>1, <1>3, <1>4, PagesMore
    <3>2. Pages(stdout, i) \in Nat
      BY <1>4, PlacesFinite
    <3> QED BY <1>3, <3>1, <3>2
  <2>5. /\ i \in streams' => got'[i] + buf'[i] + Pages(stdout', i) = sent'[u]
        /\ fin'[i] = "ok" \/ calls'[i].state = "ok" => tpc'[u] = "done" /\ got'[i] + buf'[i] = sent'[u]
    BY <1>6, <2>2, <2>3, <2>4
  <2>6. req'[u].id = i
    BY <2>1, <2>3
  <2> QED BY <2>5, <2>6 DEF Tally
<1> QED BY <1>7, <1>8 DEF TallyInv, Taken

-----------------------------------------------------------------------------
\* The steps of a task that write nothing.
LEMMA QuietGoesOn ==
  ASSUME RpcInv, NEW t \in Tasks, TaskStep(t), ~Progress(t), ~Answer(t), UNCHANGED <<peer, node>>
  PROVE  GoesOn(t) /\ UNCHANGED <<pipes, sent>>
<1>0. tpc \in [Tasks -> InWork \cup Ended \cup {"none"}]
  BY DEF RpcInv, ServerTypeInv
<1> USE DEF GoesOn, Taken
<1>1. CASE Opened(t)
  BY <1>0, <1>1 DEF Opened, Step
<1>2. CASE Insert(t)
  BY <1>0, <1>2 DEF Insert, EndsWith
<1>3. CASE Deregister(t)
  BY <1>0, <1>3 DEF Deregister, Step
<1>4. CASE \/ Refuse(t) \/ Initialize(t) \/ BeginWork(t) \/ LookUp(t) \/ Remove(t)
           \/ AskLock(t) \/ Locked(t)
           \/ FinishTool(t) \/ FinishCrawl(t) \/ OpenFails(t) \/ FinishFetch(t) \/ FinishClose(t)
           \/ Cancelled(t)
  <2>1. Goes(t)
    BY <1>4, QuietSteps
  <2>2. UNCHANGED <<pipes, sent>>
    BY <1>4 DEF Refuse, Initialize, BeginWork, LookUp, Remove, AskLock, Locked, FinishTool,
                FinishCrawl, OpenFails, FinishFetch, FinishClose, Cancelled
  <2> QED BY <1>0, <2>1, <2>2 DEF Goes, InWork
<1> QED BY <1>1, <1>2, <1>3, <1>4 DEF TaskStep

\* A task's step: what is asked for stays as it is, and reports go on their way.
LEMMA TaskStreams ==
  ASSUME RpcInv, RpcInv', StreamTypes, NodeInv, peer = "node", child = "running",
         NEW t \in Tasks, TaskStep(t), UNCHANGED <<peer, node>>
  PROVE  StreamTypes' /\ NodeInv'
<1>0. ProcessInv /\ OnceInv /\ FreshInv /\ LinesInv /\ TallyInv
  BY DEF NodeInv
<1>1. /\ Taken(t) /\ UNCHANGED <<req, stdin, stdoutOpen>>
      /\ \A u \in Tasks : tpc'[u] # "none" <=> Taken(u)
      /\ \E n \in Nat : sent' = [sent EXCEPT ![t] = n]
      /\ LinesInv' /\ TallyInv'
  <2>1. CASE Progress(t)
    <3>1. /\ tpc[t] = "work" /\ UNCHANGED <<req, stdin, stdoutOpen, tpc>>
          /\ sent' = [sent EXCEPT ![t] = sent[t] + 1]
      BY <2>1 DEF Progress
    <3>2. sent[t] + 1 \in Nat
      BY DEF StreamTypes
    <3>3. LinesInv' /\ TallyInv'
      BY <1>0, <2>1, ReportTallies DEF ProcessInv
    <3> QED BY <3>1, <3>2, <3>3 DEF Taken
  <2>2. CASE Answer(t)
    <3>1. tpc[t] = "answer" /\ tpc' = [tpc EXCEPT ![t] = "done"] /\ UNCHANGED <<req, stdin, stdoutOpen, sent>>
      BY <2>2 DEF Answer, Step
    <3>2. sent \in [Tasks -> Nat] /\ tpc \in [Tasks -> InWork \cup Ended \cup {"none"}]
      BY DEF StreamTypes, RpcInv, ServerTypeInv
    <3>3. \E n \in Nat : sent' = [sent EXCEPT ![t] = n]
      <4>1. sent[t] \in Nat /\ sent' = [sent EXCEPT ![t] = sent[t]]
        BY <3>1, <3>2
      <4> QED BY <4>1
    <3>4. LinesInv' /\ TallyInv'
      BY <1>0, <2>2, AnswerTallies DEF ProcessInv
    <3> QED BY <3>1, <3>2, <3>3, <3>4 DEF Taken
  <2>3. CASE ~Progress(t) /\ ~Answer(t)
    <3>1. GoesOn(t) /\ UNCHANGED <<pipes, sent>>
      BY <2>3, QuietGoesOn
    <3>2. LinesInv' /\ TallyInv'
      BY <1>0, <3>1, QuietTallies DEF pipes
    <3>3. \E n \in Nat : sent' = [sent EXCEPT ![t] = n]
      <4>1. sent[t] \in Nat /\ sent' = [sent EXCEPT ![t] = sent[t]]
        BY <3>1 DEF StreamTypes
      <4> QED BY <4>1
    <3>4. \A u \in Tasks : tpc'[u] # "none" <=> Taken(u)
      BY <3>1, TakenStill DEF RpcInv
    <3> QED BY <3>1, <3>2, <3>3, <3>4 DEF GoesOn, pipes
  <2> QED BY <2>1, <2>2, <2>3
<1>2. UNCHANGED <<gen, current, child, calls, buf, got, fin>>
  BY DEF node
<1>3. StreamTypes' /\ ProcessInv'
  BY <1>0, <1>1, <1>2 DEF StreamTypes, ProcessInv, Taken
<1>4. FramesMove(0) /\ CallsStay
  <2>1. Len(stdin) \in Nat
    BY LenProperties DEF RpcInv, PipeTypeInv
  <2> QED BY <1>1, <1>2, <2>1 DEF FramesMove, CallsStay, Calls
<1>5. OnceInv'
  BY <1>0, <1>1, <1>2, <1>4, OnceKept DEF RpcInv
<1>6. \A i \in Calls : Untouched(i) => Untouched(i)'
  BY <1>2 DEF Untouched
<1>7. FreshInv'
  BY <1>0, <1>4, <1>6, FreshKept
<1> QED BY <1>1, <1>3, <1>5, <1>7 DEF NodeInv

\* A cancellation is read, which touches no request of the pipe and no task's position.
LEMMA LoopStreams ==
  ASSUME RpcInv, RpcInv', StreamTypes, NodeInv, peer = "node", child = "running",
         UNCHANGED <<peer, node, stdout, stdoutOpen, req, sent>>,
         \A t \in Tasks : tpc'[t] = tpc[t],
         NEW d \in Nat, FramesMove(d)
  PROVE  StreamTypes' /\ NodeInv'
<1>0. ProcessInv /\ OnceInv /\ FreshInv /\ LinesInv /\ TallyInv
  BY DEF NodeInv
<1>1. UNCHANGED <<gen, current, child, calls, streams, buf, got, fin>>
  BY DEF node
<1>2. StreamTypes' /\ ProcessInv'
  BY <1>0, <1>1 DEF StreamTypes, ProcessInv, Taken
<1>3. CallsStay
  BY <1>1 DEF CallsStay, Calls
<1>4. OnceInv'
  BY <1>0, <1>1, <1>3, OnceKept DEF RpcInv, Taken
<1>5. \A i \in Calls : Untouched(i) => Untouched(i)'
  BY <1>1 DEF Untouched
<1>6. FreshInv'
  BY <1>0, <1>5, FreshKept
<1>7. LinesInv'
  BY <1>0 DEF LinesInv, Taken
<1>8. TallyInv'
  BY <1>0, <1>1 DEF TallyInv, Tally, Taken, Pages
<1> QED BY <1>2, <1>4, <1>6, <1>7, <1>8 DEF NodeInv

\* The frame that is read first: the others move up.
LEMMA FrontRead ==
  ASSUME PipeTypeInv, stdin # <<>>, stdin' = Tail(stdin)
  PROVE  /\ FramesMove(1) /\ 1 \in 1..Len(stdin) /\ Head(stdin) = stdin[1]
         /\ \A k \in 1..Len(stdin') : k + 1 \in 1..Len(stdin) /\ k + 1 # 1 /\ stdin'[k] = stdin[k + 1]
<1>1. /\ Len(stdin) \in Nat \ {0} /\ Len(stdin') = Len(stdin) - 1 /\ Head(stdin) = stdin[1]
      /\ \A k \in 1..Len(stdin') : stdin'[k] = stdin[k + 1]
  BY EmptySeq, HeadTailProperties, LenProperties DEF PipeTypeInv
<1> QED BY <1>1 DEF FramesMove

\* A request is read: a task that has reported nothing takes it, from a client that knows nothing
\* of its end.
LEMMA RegisterStreams ==
  ASSUME RpcInv, RpcInv', StreamTypes, NodeInv, peer = "node", child = "running",
         UNCHANGED <<peer, node, stdout, stdoutOpen, sent>>,
         stdin # <<>>, stdin' = Tail(stdin), AsksRightly(Head(stdin)),
         NEW t \in Free, tpc' = [tpc EXCEPT ![t] = "begin"],
         req' = [req EXCEPT ![t] = Head(stdin)]
  PROVE  StreamTypes' /\ NodeInv'
<1>0. ProcessInv /\ OnceInv /\ FreshInv /\ LinesInv /\ TallyInv
  BY DEF NodeInv
<1>1. UNCHANGED <<gen, current, child, calls, streams, buf, got, fin>>
  BY DEF node
<1>2. PICK f : f = Head(stdin)
  OBVIOUS
<1>3. /\ 1 \in 1..Len(stdin) /\ f = stdin[1] /\ AsksRightly(f) /\ Asks(f)
      /\ \A k \in 1..Len(stdin') : k + 1 \in 1..Len(stdin) /\ k + 1 # 1 /\ stdin'[k] = stdin[k + 1]
  BY <1>2, FrontRead DEF RpcInv, AsksRightly, Asks
<1>4. /\ t \in Tasks /\ ~Taken(t) /\ tpc'[t] = "begin" /\ req'[t] = f
      /\ \A u \in Tasks \ {t} : tpc'[u] = tpc[u] /\ req'[u] = req[u]
  BY <1>2 DEF Free, Taken, RpcInv, ServerTypeInv
<1>5. StreamTypes' /\ ProcessInv'
  BY <1>0, <1>1, <1>4 DEF StreamTypes, ProcessInv, Taken
<1>6. \A u \in Tasks : Taken(u) => req[u].id # f.id
  BY <1>0, <1>3 DEF OnceInv
<1>7. OnceInv'
  <2>1. \A h : AsksRightly(h) => AsksRightly(h)'
    BY <1>1 DEF AsksRightly, Calls
  <2>2. ASSUME NEW k \in 1..Len(stdin') PROVE AsksRightly(stdin[k])' \/ stdin'[k].kind = "cancel"
    <3>1. PICK h : h = stdin[k + 1]
      OBVIOUS
    <3>2. AsksRightly(h) \/ h.kind = "cancel"
      BY <1>0, <1>3, <3>1 DEF OnceInv
    <3>3. AsksRightly(h)' \/ h.kind = "cancel"
      BY <2>1, <3>2
    <3> QED BY <1>3, <3>1, <3>3 DEF AsksRightly
  <2>3. ASSUME NEW u \in Tasks, tpc'[u] # "none" PROVE AsksRightly(req[u])'
    <3>1. PICK h : h = req'[u]
      OBVIOUS
    <3>2. AsksRightly(h)
      BY <1>0, <1>3, <1>4, <2>3, <3>1 DEF OnceInv, Taken
    <3>3. AsksRightly(h)'
      BY <2>1, <3>2
    <3> QED BY <3>1, <3>3 DEF AsksRightly
  <2>4. ASSUME NEW k \in 1..Len(stdin'), NEW l \in 1..Len(stdin'),
               Asks(stdin[k])', Asks(stdin[l])', stdin'[k].id = stdin'[l].id
        PROVE  k = l
    <3>1. k + 1 = l + 1
      BY <1>0, <1>3, <2>4 DEF OnceInv, Asks
    <3>2. k \in Nat /\ l \in Nat
      <4>1. Len(stdin') \in Nat
        BY LenProperties DEF RpcInv, PipeTypeInv
      <4> QED BY <4>1
    <3> QED BY <3>1, <3>2
  <2>5. ASSUME NEW u \in Tasks, NEW v \in Tasks, tpc'[u] # "none", tpc'[v] # "none", req'[u].id = req'[v].id
        PROVE  u = v
    <3>1. CASE u # t /\ v # t
      BY <1>0, <1>4, <2>5, <3>1 DEF OnceInv, Taken
    <3>2. CASE u = t /\ v # t
      BY <1>4, <1>6, <2>5, <3>2 DEF Taken
    <3>3. CASE u # t /\ v = t
      BY <1>4, <1>6, <2>5, <3>3 DEF Taken
    <3> QED BY <3>1, <3>2, <3>3
  <2>6. ASSUME NEW k \in 1..Len(stdin'), NEW u \in Tasks, Asks(stdin[k])', tpc'[u] # "none"
        PROVE  stdin'[k].id # req'[u].id
    <3>1. CASE u = t
      BY <1>0, <1>3, <1>4, <2>6, <3>1 DEF OnceInv, Asks
    <3>2. CASE u # t
      BY <1>0, <1>3, <1>4, <2>6, <3>2 DEF OnceInv, Asks, Taken
    <3> QED BY <3>1, <3>2
  <2> QED BY <2>2, <2>3, <2>4, <2>5, <2>6 DEF OnceInv, Taken
<1>8. FreshInv'
  <2>1. \A i \in Calls : Untouched(i) => Untouched(i)'
    BY <1>1 DEF Untouched
  <2>2. FramesMove(1)
    BY FrontRead DEF RpcInv
  <2> QED BY <1>0, <2>1, <2>2, FreshKept
<1>9. LinesInv'
  <2>1. ASSUME NEW k \in 1..Len(stdout) PROVE stdout[k].id # f.id
    BY <1>0, <1>6 DEF LinesInv
  <2>2. ASSUME NEW k \in 1..Len(stdout)
        PROVE  \E u \in Tasks : tpc'[u] # "none" /\ req'[u].id = stdout[k].id
    <3>1. PICK u \in Tasks : Taken(u) /\ req[u].id = stdout[k].id
      BY <1>0 DEF LinesInv
    <3> QED BY <1>4, <3>1 DEF Taken
  <2>3. ASSUME NEW k \in 1..Len(stdout), stdout[k].about # "progress",
               NEW u \in Tasks, tpc'[u] # "none", req'[u].id = stdout[k].id
        PROVE  tpc'[u] = "done"
    <3>1. u # t
      BY <1>4, <2>1, <2>3
    <3> QED BY <1>0, <1>4, <2>3, <3>1 DEF LinesInv, Taken
  <2>4. \A k, l \in 1..Len(stdout) : stdout[k].about # "progress" /\ k < l => stdout[l].id # stdout[k].id
    BY <1>0 DEF LinesInv
  <2> QED BY <2>2, <2>3, <2>4 DEF LinesInv, Taken
<1>10. ASSUME NEW u \in Tasks, tpc'[u] # "none", req'[u].kind = "crawl" PROVE Tally(u)'
  <2>1. CASE u # t
    <3>1. Tally(u)
      BY <1>0, <1>4, <1>10, <2>1 DEF TallyInv, Taken
    <3> QED BY <1>1, <1>4, <2>1, <3>1 DEF Tally, Pages
  <2>2. CASE u = t
    <3>1. PICK i : i = f.id
      OBVIOUS
    <3>2. Untouched(i) /\ sent[t] = 0
      BY <1>0, <1>3, <1>4, <1>10, <2>2, <3>1 DEF FreshInv, ProcessInv
    <3>3. Pages(stdout, i) = 0
      <4>1. \A k \in 1..Len(stdout) : stdout[k].id # i
        BY <1>0, <1>6, <3>1 DEF LinesInv
      <4> QED BY <4>1, PagesNone DEF RpcInv, PipeTypeInv
    <3>4. Pages(stdout', i) = 0
      BY <3>3
    <3>5. got'[i] = 0 /\ buf'[i] = 0 /\ fin'[i] # "ok" /\ calls'[i].state # "ok" /\ sent'[u] = 0
      BY <1>1, <2>2, <3>2 DEF Untouched
    <3>6. got'[i] + buf'[i] + Pages(stdout', i) = sent'[u]
      BY <3>4, <3>5
    <3>7. req'[u].id = i
      BY <1>4, <2>2, <3>1
    <3> QED BY <3>5, <3>6, <3>7 DEF Tally
  <2> QED BY <2>1, <2>2
<1> QED BY <1>5, <1>7, <1>8, <1>9, <1>10 DEF NodeInv, TallyInv, Taken

\* The loop, serving the Node client: every frame it reads is a request asked for once, or a cancellation.
LEMMA LoopKeepsStreams ==
  ASSUME RpcInv, RpcInv', StreamTypes, NodeInv, peer = "node", child = "running",
         Read \/ EndOfInput \/ Return, UNCHANGED <<peer, node>>
  PROVE  StreamTypes' /\ NodeInv'
<1>0. ProcessInv /\ OnceInv /\ FreshInv /\ LinesInv /\ TallyInv /\ stdoutOpen
  BY DEF NodeInv, ProcessInv
<1>1. CASE EndOfInput \/ Return
  <2>1. UNCHANGED <<stdin, stdout, stdoutOpen, req, sent>>
    BY <1>1 DEF EndOfInput, Return, pipes, work
  <2>2. \A t \in Tasks : tpc'[t] = tpc[t]
    BY <1>0, <1>1 DEF EndOfInput, Return, work
  <2>3. FramesMove(0)
    <3>1. Len(stdin) \in Nat
      BY LenProperties DEF RpcInv, PipeTypeInv
    <3> QED BY <2>1, <3>1 DEF FramesMove
  <2> QED BY <2>1, <2>2, <2>3, LoopStreams
<1>2. CASE Read
  <2>1. PICK f : f = Head(stdin)
    OBVIOUS
  <2>2. stdin # <<>> /\ stdin' = Tail(stdin) /\ main = "read" /\ UNCHANGED <<stdoutOpen, sent>>
    BY <1>2 DEF Read
  <2>3. FramesMove(1) /\ 1 \in 1..Len(stdin) /\ f = stdin[1]
    BY <2>1, <2>2, FrontRead DEF RpcInv
  <2>4. AsksRightly(f) \/ f.kind = "cancel"
    BY <1>0, <2>3 DEF OnceInv
  <2>5. CASE f.kind = "cancel"
    <3>1. CancelRequest(f)
      BY <1>2, <2>1, <2>5 DEF Read, Methods
    <3>2. UNCHANGED <<stdout, tpc, req>>
      BY <3>1 DEF CancelRequest
    <3> QED BY <2>2, <2>3, <3>2, LoopStreams
  <2>6. CASE AsksRightly(f)
    <3>1. f.kind \in Methods
      BY <2>6 DEF AsksRightly, Kinds, Methods
    <3>2. Register(f)
      BY <1>2, <2>1, <3>1 DEF Read, Methods
    <3>3. f.id \in Ids
      <4>1. f \in ReadFrames
        BY <2>3 DEF RpcInv, PipeTypeInv
      <4> QED BY <4>1 DEF ReadFrames
    <3>4. registry[f.id] = 0
      <4>1. SUFFICES ASSUME registry[f.id] # 0 PROVE FALSE
        OBVIOUS
      <4>2. PICK u : u = registry[f.id]
        OBVIOUS
      <4>3. u \in Tasks /\ Live(u) /\ req[u].id = f.id
        BY <2>2, <3>3, <4>1, <4>2 DEF RpcInv, RegistryExact, ServerTypeInv
      <4> QED BY <1>0, <2>3, <2>6, <4>3 DEF OnceInv, Live, Taken, Asks, AsksRightly
    <3>5. PICK t \in Free : /\ tpc' = [tpc EXCEPT ![t] = "begin"]
                            /\ req' = [req EXCEPT ![t] = f]
      BY <3>2, <3>4 DEF Register
    <3>6. UNCHANGED stdout
      BY <3>2, <3>4 DEF Register
    <3> QED BY <2>1, <2>2, <2>6, <3>5, <3>6, RegisterStreams
  <2> QED BY <2>4, <2>5, <2>6
<1> QED BY <1>1, <1>2

LEMMA ServerStreams ==
  ASSUME RpcInv, RpcInv', StreamInv, Served, ServerStep, UNCHANGED <<peer, node>>
  PROVE  StreamInv'
<1>1. ConsumerInv'
  <2>1. UNCHANGED <<gen, calls, streams, buf, got, fin>>
    BY DEF node
  <2> QED BY <2>1 DEF StreamInv, ConsumerInv, Calls
<1>2. CASE peer = "node"
  BY <1>1, <1>2, LoopKeepsStreams, TaskStreams DEF Served, ServerStep, StreamInv
<1>3. CASE peer # "node"
  <2>1. StreamTypes'
    <3>1. UNCHANGED <<buf, got>>
      BY DEF node
    <3>2. sent' = sent \/ \E t \in Tasks : sent' = [sent EXCEPT ![t] = sent[t] + 1]
      <4>1. Read \/ EndOfInput \/ Return => UNCHANGED sent
        BY DEF Read, EndOfInput, Return, work
      <4>2. ASSUME NEW t \in Tasks, TaskStep(t) PROVE UNCHANGED sent \/ sent' = [sent EXCEPT ![t] = sent[t] + 1]
        BY <4>2 DEF TaskStep, Refuse, Initialize, BeginWork, LookUp, Remove, AskLock, Locked, Progress,
           Opened, Insert, FinishTool, FinishCrawl, OpenFails, FinishFetch, FinishClose, Cancelled,
           Deregister, Answer
      <4> QED BY <4>1, <4>2 DEF ServerStep
    <3> QED BY <3>1, <3>2 DEF StreamInv, StreamTypes
  <2>2. peer' # "node" /\ child' = "none"
    BY <1>3 DEF StreamInv, node
  <2> QED BY <1>1, <2>1, <2>2 DEF StreamInv
<1> QED BY <1>2, <1>3

-----------------------------------------------------------------------------
\* A step of the client that is about call i, and about no other.
OnlyCall(i) ==
  /\ Calls' = Calls
  /\ \A j \in Calls : calls'[j].kind = calls[j].kind /\ calls'[j].gen = calls[j].gen
  /\ \A j \in Calls : j # i => calls'[j].state = calls[j].state
  /\ \A j \in 1..MaxCalls : j # i => buf'[j] = buf[j] /\ got'[j] = got[j] /\ fin'[j] = fin[j]
  /\ streams' \subseteq streams /\ streams \ {i} \subseteq streams'
  /\ UNCHANGED <<peer, server, stdoutOpen, gen, current, child>>

LEMMA CallsBounded ==
  ASSUME NodeTypeInv
  PROVE  Len(calls) \in Nat /\ Calls \subseteq 1..MaxCalls /\ streams \subseteq Calls
<1>1. Len(calls) \in Nat /\ Len(calls) <= MaxCalls
  BY LenProperties DEF NodeTypeInv
<1> QED BY <1>1, NodeAssumption DEF NodeTypeInv, Calls

LEMMA OneCallConsumer ==
  ASSUME RpcInv, RpcInv', StreamTypes, ConsumerInv, NEW i \in Calls, OnlyCall(i),
         buf' = [buf EXCEPT ![i] = buf'[i]], buf'[i] \in Nat,
         got' = [got EXCEPT ![i] = got'[i]], got'[i] \in Nat,
         calls[i].kind = "crawl" /\ calls'[i].state \in {"waiting", "ok"} => buf'[i] = 0,
         i \in streams' => calls'[i].state \in {"waiting", "busy"} /\ fin'[i] = "no"
  PROVE  StreamTypes' /\ ConsumerInv'
<1>0. Len(calls) \in Nat /\ Calls \subseteq 1..MaxCalls /\ streams \subseteq Calls
  BY CallsBounded DEF RpcInv
<1>1. StreamTypes'
  BY DEF StreamTypes, OnlyCall, server, work
<1>2. ASSUME NEW j \in 1..MaxCalls, j > Len(calls') PROVE buf'[j] = 0 /\ got'[j] = 0 /\ fin'[j] = "no"
  <2>1. Len(calls') = Len(calls)
    <3>1. Len(calls') \in Nat
      BY LenProperties DEF RpcInv, NodeTypeInv
    <3>2. 1..Len(calls') = 1..Len(calls)
      BY DEF OnlyCall, Calls
    <3> QED BY <1>0, <3>1, <3>2
  <2>2. j # i /\ j > Len(calls)
    BY <1>0, <1>2, <2>1 DEF Calls
  <2> QED BY <2>2 DEF OnlyCall, ConsumerInv
<1>3. ASSUME NEW j \in Calls'
      PROVE  /\ calls'[j].gen <= gen'
             /\ calls'[j].kind = "crawl" /\ calls'[j].state \in {"waiting", "ok"} => buf'[j] = 0
  <2>1. j \in Calls /\ j \in 1..MaxCalls /\ calls'[j].kind = calls[j].kind /\ calls'[j].gen = calls[j].gen /\ gen' = gen
    BY <1>0 DEF OnlyCall
  <2>2. CASE j = i
    BY <2>1, <2>2 DEF ConsumerInv
  <2>3. CASE j # i
    BY <2>1, <2>3 DEF ConsumerInv, OnlyCall
  <2> QED BY <2>2, <2>3
<1>4. ASSUME NEW j \in streams' PROVE calls'[j].state \in {"waiting", "busy"} /\ fin'[j] = "no"
  <2>1. CASE j = i
    BY <1>4, <2>1
  <2>2. CASE j # i
    BY <1>0, <1>4, <2>2 DEF ConsumerInv, OnlyCall
  <2> QED BY <2>1, <2>2
<1> QED BY <1>1, <1>2, <1>3, <1>4 DEF ConsumerInv

\* What stays true of the pipes and the tasks when the client handles a call, or a line about it.
LEMMA OneCallNode ==
  ASSUME RpcInv, RpcInv', StreamTypes, NodeInv, NEW i, OnlyCall(i), FramesMove(0),
         child # "running" => UNCHANGED stdin,
         child = "running" => UNCHANGED stdout \/ (stdout # <<>> /\ stdout' = Tail(stdout) /\ Head(stdout).id = i),
         i \in Calls /\ Named(i) /\ Untouched(i) => Untouched(i)',
         \A t \in Tasks : child = "running" /\ Taken(t) /\ req[t].kind = "crawl" /\ req[t].id = i => Tally(t)'
  PROVE  NodeInv'
<1>0. /\ ProcessInv /\ OnceInv /\ FreshInv
      /\ Calls \subseteq 1..MaxCalls /\ streams \subseteq Calls
  BY CallsBounded DEF NodeInv, RpcInv
<1>1. UNCHANGED <<tpc, req, sent, stdoutOpen, gen, current, child>>
  BY DEF OnlyCall, server, work
<1>2. ProcessInv'
  BY <1>0, <1>1 DEF ProcessInv, Taken
<1>3. OnceInv'
  <2>1. CallsStay
    BY DEF OnlyCall, CallsStay
  <2> QED BY <1>0, <1>1, <2>1, OnceKept DEF Taken, RpcInv
<1>4. FreshInv'
  <2>1. ASSUME NEW j \in Calls, Named(j), Untouched(j) PROVE Untouched(j)'
    <3>1. CASE j = i
      BY <2>1, <3>1
    <3>2. CASE j # i
      BY <1>0, <2>1, <3>2 DEF OnlyCall, Untouched
    <3> QED BY <3>1, <3>2
  <2> QED BY <1>0, <2>1, FreshKept
<1>5. CASE child # "running"
  BY <1>1, <1>2, <1>3, <1>4, <1>5 DEF NodeInv
<1>6. CASE child = "running"
  <2>0. LinesInv /\ TallyInv
    BY <1>6 DEF NodeInv
  <2>1. PICK d \in Nat : /\ \A k \in 1..Len(stdout') : k + d \in 1..Len(stdout) /\ stdout'[k] = stdout[k + d]
                         /\ Len(stdout') \in Nat
    <3>1. CASE UNCHANGED stdout
      <4>1. Len(stdout) \in Nat
        BY LenProperties DEF RpcInv, PipeTypeInv
      <4>2. 0 \in Nat /\ \A k \in 1..Len(stdout') : k + 0 \in 1..Len(stdout) /\ stdout'[k] = stdout[k + 0]
        BY <3>1, <4>1
      <4> QED BY <3>1, <4>1, <4>2
    <3>2. CASE stdout # <<>> /\ stdout' = Tail(stdout)
      <4>1. /\ Len(stdout) \in Nat \ {0} /\ Len(stdout') = Len(stdout) - 1
            /\ \A k \in 1..Len(stdout') : stdout'[k] = stdout[k + 1]
        BY <3>2, EmptySeq, HeadTailProperties, LenProperties DEF RpcInv, PipeTypeInv
      <4>2. \A k \in 1..Len(stdout') : k + 1 \in 1..Len(stdout) /\ stdout'[k] = stdout[k + 1]
        BY <4>1
      <4>3. 1 \in Nat /\ Len(stdout') \in Nat
        BY <4>1
      <4> QED BY <4>2, <4>3
    <3> QED BY <1>6, <3>1, <3>2
  <2>2. LinesInv'
    <3>1. ASSUME NEW k \in 1..Len(stdout')
          PROVE  \E t \in Tasks : tpc'[t] # "none" /\ req'[t].id = stdout'[k].id
      BY <1>1, <2>0, <2>1 DEF LinesInv, Taken
    <3>2. ASSUME NEW k \in 1..Len(stdout'), stdout'[k].about # "progress"
          PROVE  /\ \A t \in Tasks : tpc'[t] # "none" /\ req'[t].id = stdout'[k].id => tpc'[t] = "done"
                 /\ \A l \in 1..Len(stdout') : k < l => stdout'[l].id # stdout'[k].id
      <4>1. k + d \in 1..Len(stdout) /\ stdout'[k] = stdout[k + d]
        BY <2>1
      <4>2. \A t \in Tasks : Taken(t) /\ req[t].id = stdout'[k].id => tpc[t] = "done"
        BY <2>0, <3>2, <4>1 DEF LinesInv
      <4>3. ASSUME NEW l \in 1..Len(stdout'), k < l PROVE stdout'[l].id # stdout'[k].id
        <5>1. l + d \in 1..Len(stdout) /\ stdout'[l] = stdout[l + d] /\ k + d < l + d
          BY <2>1, <4>3
        <5> QED BY <2>0, <3>2, <4>1, <5>1 DEF LinesInv
      <4> QED BY <1>1, <4>2, <4>3 DEF Taken
    <3> QED BY <3>1, <3>2 DEF LinesInv, Taken
  <2>3. ASSUME NEW t \in Tasks, tpc'[t] # "none", req'[t].kind = "crawl" PROVE Tally(t)'
    <3>1. PICK j : j = req[t].id
      OBVIOUS
    <3>2. Taken(t) /\ req[t].kind = "crawl" /\ req'[t].id = j /\ j \in Calls /\ j \in 1..MaxCalls
      BY <1>0, <1>1, <2>3, <3>1 DEF Taken, OnceInv, AsksRightly
    <3>3. CASE j = i
      BY <1>6, <3>1, <3>2, <3>3
    <3>4. CASE j # i
      <4>1. /\ j \in streams => got[j] + buf[j] + Pages(stdout, j) = sent[t]
            /\ fin[j] = "ok" \/ calls[j].state = "ok" => tpc[t] = "done" /\ got[j] + buf[j] = sent[t]
        BY <2>0, <3>1, <3>2 DEF TallyInv, Tally
      <4>2. Pages(stdout', j) = Pages(stdout, j)
        <5>1. CASE UNCHANGED stdout
          BY <5>1
        <5>2. CASE stdout # <<>> /\ stdout' = Tail(stdout) /\ Head(stdout).id = i
          <6>1. stdout \in Seq(WrittenLines) /\ stdout' \in Seq(WrittenLines)
            BY DEF RpcInv, PipeTypeInv
          <6>2. Pages(stdout, j) = Pages(Tail(stdout), j) + (IF Head(stdout).id = j /\ Head(stdout).about = "progress" THEN 1 ELSE 0)
            BY <5>2, <6>1, PagesLess
          <6>3. Pages(stdout', j) \in Nat
            BY <6>1, PlacesFinite
          <6>4. ~(Head(stdout).id = j /\ Head(stdout).about = "progress")
            BY <3>4, <5>2
          <6>5. Pages(Tail(stdout), j) = Pages(stdout', j)
            BY <5>2
          <6> QED BY <6>2, <6>3, <6>4, <6>5
        <5> QED BY <1>6, <5>1, <5>2
      <4>3. /\ buf'[j] = buf[j] /\ got'[j] = got[j] /\ fin'[j] = fin[j] /\ calls'[j].state = calls[j].state
            /\ j \in streams' => j \in streams
        BY <3>2, <3>4 DEF OnlyCall
      <4>4. /\ j \in streams' => got'[j] + buf'[j] + Pages(stdout', j) = sent'[t]
            /\ fin'[j] = "ok" \/ calls'[j].state = "ok" => tpc'[t] = "done" /\ got'[j] + buf'[j] = sent'[t]
        BY <1>1, <4>1, <4>2, <4>3
      <4> QED BY <3>2, <4>4 DEF Tally
    <3> QED BY <3>3, <3>4
  <2> QED BY <1>2, <1>3, <1>4, <2>2, <2>3 DEF NodeInv, TallyInv, Taken
<1> QED BY <1>5, <1>6

\* The client writes nothing, or that a call is cancelled.
LEMMA CancelMoves ==
  ASSUME PipeTypeInv, NEW i \in Ids, UNCHANGED stdin \/ stdin' = Written(<<Cancellation(i)>>)
  PROVE  FramesMove(0) /\ (child # "running" => UNCHANGED stdin)
<1>1. stdin \in Seq(ReadFrames) /\ Len(stdin) \in Nat
  BY LenProperties DEF PipeTypeInv
<1>2. CASE UNCHANGED stdin
  BY <1>1, <1>2 DEF FramesMove
<1>3. CASE child = "running" /\ stdin' = stdin \o <<Cancellation(i)>>
  <2>1. PICK f : f = Cancellation(i)
    OBVIOUS
  <2>2. f \in ReadFrames /\ f.kind = "cancel"
    BY <2>1 DEF Cancellation, Frame, ReadFrames, Notes
  <2>3. <<f>> \in Seq(ReadFrames) /\ Len(<<f>>) = 1 /\ <<f>>[1] = f /\ stdin' = stdin \o <<f>>
    BY <1>3, <2>1, <2>2
  <2>4. /\ Len(stdin') = Len(stdin) + 1
        /\ \A k \in 1..(Len(stdin) + 1) :
             stdin'[k] = IF k <= Len(stdin) THEN stdin[k] ELSE <<f>>[k - Len(stdin)]
    BY <1>1, <2>3, ConcatProperties
  <2>5. ASSUME NEW k \in 1..Len(stdin') PROVE (k \in 1..Len(stdin) /\ stdin'[k] = stdin[k]) \/ stdin'[k] = f
    BY <1>1, <2>3, <2>4
  <2>6. ASSUME NEW k \in 1..Len(stdin')
        PROVE  stdin'[k].kind = "cancel" \/ (k + 0 \in 1..Len(stdin) /\ stdin'[k] = stdin[k + 0])
    BY <1>1, <2>2, <2>5
  <2> QED BY <1>3, <2>6 DEF FramesMove
<1> QED BY <1>2, <1>3 DEF Written

\* A call is aborted, or its consumer stops: it has not ended well, and no more of it is awaited.
LEMMA AbortStreams ==
  ASSUME RpcInv, RpcInv', CallInv, StreamTypes, ConsumerInv, NodeInv, peer = "node", UNCHANGED peer,
         NEW i \in Calls, Abort(i) \/ StopEarly(i)
  PROVE  StreamTypes' /\ ConsumerInv' /\ NodeInv'
<1>0. NodeTypeInv /\ PipeTypeInv /\ Calls \subseteq 1..MaxCalls /\ streams \subseteq Calls
  BY CallsBounded DEF RpcInv
<1>1. /\ UNCHANGED <<server, stdout, stdoutOpen, gen, current, child, got>> /\ streams' = streams \ {i}
      /\ UNCHANGED stdin \/ stdin' = Written(<<Cancellation(i)>>)
  BY DEF Abort, StopEarly
<1>2. FramesMove(0) /\ (child # "running" => UNCHANGED stdin)
  BY <1>0, <1>1, CancelMoves, NodeAssumption
<1>3. \/ /\ i \in pending \/ calls[i].state = "waiting"
         /\ Settle(i, "aborted") /\ UNCHANGED <<fin, buf>> /\ i \in pending \cup streams
      \/ /\ i \in streams /\ calls[i].state # "waiting"
         /\ fin' = [fin EXCEPT ![i] = "aborted"] /\ UNCHANGED <<calls, buf>>
      \/ Settle(i, "stopped") /\ buf' = [buf EXCEPT ![i] = 0] /\ fin' = [fin EXCEPT ![i] = "no"]
  BY DEF Abort, StopEarly
<1>4. /\ Calls' = Calls /\ \A j \in Calls \ {i} : calls'[j] = calls[j]
      /\ calls'[i].kind = calls[i].kind /\ calls'[i].gen = calls[i].gen
      /\ \/ calls'[i].state \in {"aborted", "stopped"}
         \/ i \in streams /\ calls'[i].state = calls[i].state /\ calls[i].state # "waiting"
  <2>1. CASE Settle(i, "aborted") \/ Settle(i, "stopped")
    BY <1>0, <2>1, SettleFacts
  <2> QED BY <1>3, <2>1 DEF Calls
<1>5. /\ buf \in [1..MaxCalls -> Nat] /\ got \in [1..MaxCalls -> Nat] /\ fin \in [1..MaxCalls -> Ends]
  BY <1>0 DEF StreamTypes, NodeTypeInv
<1>6. /\ \A j \in 1..MaxCalls : j # i => buf'[j] = buf[j] /\ fin'[j] = fin[j]
      /\ buf' = [buf EXCEPT ![i] = buf'[i]] /\ buf'[i] \in {0, buf[i]}
      /\ fin'[i] \in {"no", "aborted", fin[i]}
      /\ fin'[i] = fin[i] => i \in pending \cup streams \/ fin[i] = "no"
  BY <1>0, <1>3, <1>5
<1>7. /\ \A j \in Calls : calls'[j].kind = calls[j].kind /\ calls'[j].gen = calls[j].gen
      /\ \A j \in Calls : j # i => calls'[j].state = calls[j].state
  BY <1>4
<1>8. OnlyCall(i)
  BY <1>1, <1>4, <1>6, <1>7 DEF OnlyCall
<1>9. i \in 1..MaxCalls /\ buf[i] \in Nat /\ got[i] \in Nat
  BY <1>0, <1>5
<1>10. i \in streams => calls[i].state \in {"waiting", "busy"} /\ fin[i] = "no"
  BY DEF ConsumerInv
<1>11. calls'[i].state \notin {"waiting", "ok"} /\ i \notin streams'
  BY <1>1, <1>4, <1>10
<1>12. StreamTypes' /\ ConsumerInv'
  <2>1. got' = [got EXCEPT ![i] = got'[i]] /\ got'[i] \in Nat /\ buf'[i] \in Nat
    BY <1>1, <1>5, <1>6, <1>9
  <2> QED BY <1>6, <1>8, <1>11, <2>1, OneCallConsumer
<1>13. Untouched(i) => Untouched(i)'
  BY <1>1, <1>6, <1>9, <1>11 DEF Untouched
<1>14. ASSUME NEW t \in Tasks, child = "running", Taken(t), req[t].kind = "crawl", req[t].id = i
       PROVE  Tally(t)'
  <2>1. calls[i].kind = "crawl" /\ i \notin pending
    BY <1>14 DEF NodeInv, OnceInv, AsksRightly, CallInv
  <2>2. fin'[i] # "ok"
    BY <1>6, <1>10, <2>1
  <2>3. req'[t].id = i
    BY <1>1, <1>14 DEF server, work
  <2> QED BY <1>11, <2>2, <2>3 DEF Tally
<1>15. NodeInv'
  BY <1>1, <1>2, <1>8, <1>13, <1>14, OneCallNode
<1> QED BY <1>12, <1>15

\* The consumer takes a value that is queued, or learns that there is none.
LEMMA NextStreams ==
  ASSUME RpcInv, RpcInv', CallInv, StreamTypes, ConsumerInv, NodeInv, peer = "node", UNCHANGED peer,
         NEW i \in Calls, Next(i)
  PROVE  StreamTypes' /\ ConsumerInv' /\ NodeInv'
<1>0. NodeTypeInv /\ PipeTypeInv /\ Calls \subseteq 1..MaxCalls /\ streams \subseteq Calls
  BY CallsBounded DEF RpcInv
<1>1. /\ UNCHANGED <<server, stdin, stdout, stdoutOpen, gen, current, child, fin, streams>>
      /\ calls[i].state = "busy"
  BY DEF Next, pipes
<1>2. FramesMove(0)
  BY <1>1, LenProperties DEF FramesMove, RpcInv, PipeTypeInv
<1>3. PICK how : how = IF fin[i] = "no" THEN "waiting" ELSE fin[i]
  OBVIOUS
<1>4. \/ /\ buf[i] > 0 /\ UNCHANGED calls
         /\ buf' = [buf EXCEPT ![i] = buf[i] - 1] /\ got' = [got EXCEPT ![i] = got[i] + 1]
      \/ buf[i] = 0 /\ Settle(i, how) /\ UNCHANGED <<buf, got>>
  BY <1>3 DEF Next, Settle
<1>5. i \in 1..MaxCalls /\ buf[i] \in Nat /\ got[i] \in Nat /\ fin[i] \in Ends
  BY <1>0 DEF StreamTypes, NodeTypeInv
<1>6. /\ Calls' = Calls /\ \A j \in Calls \ {i} : calls'[j] = calls[j]
      /\ calls'[i].kind = calls[i].kind /\ calls'[i].gen = calls[i].gen
      /\ \/ buf[i] > 0 /\ calls'[i].state = "busy"
         \/ buf[i] = 0 /\ calls'[i].state = how
  <2>1. CASE buf[i] = 0 /\ Settle(i, how)
    BY <1>0, <2>1, SettleFacts
  <2> QED BY <1>1, <1>4, <2>1 DEF Calls
<1>7. /\ \A j \in 1..MaxCalls : j # i => buf'[j] = buf[j] /\ got'[j] = got[j]
      /\ buf' = [buf EXCEPT ![i] = buf'[i]] /\ got' = [got EXCEPT ![i] = got'[i]]
      /\ buf'[i] \in Nat /\ got'[i] \in Nat /\ got'[i] + buf'[i] = got[i] + buf[i]
      /\ buf[i] = 0 => buf'[i] = 0 /\ got'[i] = got[i]
  <2>1. buf \in [1..MaxCalls -> Nat] /\ got \in [1..MaxCalls -> Nat]
    BY DEF StreamTypes
  <2>2. CASE buf[i] = 0 /\ UNCHANGED <<buf, got>>
    BY <1>5, <2>1, <2>2
  <2>3. CASE /\ buf[i] > 0
             /\ buf' = [buf EXCEPT ![i] = buf[i] - 1] /\ got' = [got EXCEPT ![i] = got[i] + 1]
    BY <1>5, <2>1, <2>3
  <2> QED BY <1>4, <2>2, <2>3
<1>8. OnlyCall(i)
  <2>1. /\ \A j \in Calls : calls'[j].kind = calls[j].kind /\ calls'[j].gen = calls[j].gen
        /\ \A j \in Calls : j # i => calls'[j].state = calls[j].state
    BY <1>6
  <2> QED BY <1>1, <1>6, <1>7, <2>1 DEF OnlyCall
<1>9. /\ calls'[i].state \in {"waiting", "ok"} => buf'[i] = 0
      /\ i \in streams' => calls'[i].state \in {"waiting", "busy"} /\ fin'[i] = "no"
  <2>1. i \in streams => fin[i] = "no"
    BY DEF ConsumerInv
  <2> QED BY <1>1, <1>3, <1>6, <1>7, <2>1
<1>10. StreamTypes' /\ ConsumerInv'
  BY <1>7, <1>8, <1>9, OneCallConsumer
<1>11. Untouched(i) => Untouched(i)'
  BY <1>1, <1>3, <1>5, <1>6, <1>7 DEF Untouched
<1>12. ASSUME NEW t \in Tasks, child = "running", Taken(t), req[t].kind = "crawl", req[t].id = i
       PROVE  Tally(t)'
  <2>1. /\ i \in streams => got[i] + buf[i] + Pages(stdout, i) = sent[t]
        /\ fin[i] = "ok" => tpc[t] = "done" /\ got[i] + buf[i] = sent[t]
    BY <1>12 DEF NodeInv, TallyInv, Tally
  <2>2. UNCHANGED <<tpc, req, sent>>
    BY <1>1 DEF server, work
  <2>3. calls'[i].state = "ok" => fin[i] = "ok"
    BY <1>3, <1>6
  <2>4. /\ i \in streams' => got'[i] + buf'[i] + Pages(stdout', i) = sent'[t]
        /\ fin'[i] = "ok" \/ calls'[i].state = "ok" => tpc'[t] = "done" /\ got'[i] + buf'[i] = sent'[t]
    BY <1>1, <1>7, <2>1, <2>2, <2>3
  <2>5. req'[t].id = i
    BY <1>12, <2>2
  <2> QED BY <2>4, <2>5 DEF Tally
<1>13. NodeInv'
  BY <1>1, <1>2, <1>8, <1>11, <1>12, OneCallNode
<1> QED BY <1>10, <1>13

\* A line is read that is about a call no longer awaited.
LEMMA LineDropped ==
  ASSUME RpcInv, RpcInv', StreamTypes, ConsumerInv, NodeInv, peer = "node", UNCHANGED peer,
         stdout # <<>>, stdout' = Tail(stdout), NEW i, i = Head(stdout).id, i \notin streams,
         UNCHANGED <<server, stdin, stdoutOpen, gen, current, child, calls, streams, buf, got, fin>>
  PROVE  StreamTypes' /\ ConsumerInv' /\ NodeInv'
<1>1. FramesMove(0)
  BY LenProperties DEF FramesMove, RpcInv, PipeTypeInv
<1>2. OnlyCall(i)
  BY DEF OnlyCall, Calls
<1>3. StreamTypes' /\ ConsumerInv'
  BY DEF StreamTypes, ConsumerInv, Calls, server, work
<1>4. Untouched(i) => Untouched(i)'
  BY DEF Untouched
<1>5. ASSUME NEW t \in Tasks, child = "running", Taken(t), req[t].kind = "crawl", req[t].id = i
      PROVE  Tally(t)'
  <2>1. Tally(t) /\ UNCHANGED <<tpc, req, sent>>
    BY <1>5 DEF NodeInv, TallyInv, server, work
  <2> QED BY <1>5, <2>1 DEF Tally
<1>6. NodeInv'
  BY <1>1, <1>2, <1>4, <1>5, OneCallNode
<1> QED BY <1>3, <1>6

\* A line about call i of a process that runs is of its task, so no frame asks for it any more.
LEMMA LineIsTasks ==
  ASSUME RpcInv, NodeInv, NEW i, stdout # <<>>, i = Head(stdout).id
  PROVE  ~Named(i)
<1>1. CASE child = "running"
  <2>1. 1 \in 1..Len(stdout) /\ Head(stdout) = stdout[1]
    BY EmptySeq, LenProperties, HeadTailProperties DEF RpcInv, PipeTypeInv
  <2>2. PICK t \in Tasks : Taken(t) /\ req[t].id = i
    BY <1>1, <2>1 DEF NodeInv, LinesInv
  <2> QED BY <2>2 DEF NodeInv, OnceInv, Named
<1>2. CASE child # "running"
  <2>1. stdin = <<>> /\ Len(stdin) = 0
    BY <1>2 DEF NodeInv, ProcessInv
  <2> QED BY <2>1 DEF Named
<1> QED BY <1>1, <1>2

\* A page is handed to the consumer, or queued.
PageArrives(i) ==
  IF calls[i].state = "waiting"
  THEN Settle(i, "busy") /\ got' = [got EXCEPT ![i] = got[i] + 1] /\ UNCHANGED buf
  ELSE buf' = [buf EXCEPT ![i] = buf[i] + 1] /\ UNCHANGED <<calls, got>>

LEMMA PageStreams ==
  ASSUME RpcInv, RpcInv', StreamTypes, ConsumerInv, NodeInv, peer = "node", UNCHANGED peer,
         stdout # <<>>, stdout' = Tail(stdout), NEW i \in streams, i = Head(stdout).id,
         Head(stdout).about = "progress",
         PageArrives(i),
         UNCHANGED <<server, stdin, stdoutOpen, gen, current, child, streams, fin>>
  PROVE  StreamTypes' /\ ConsumerInv' /\ NodeInv'
<1>0. NodeTypeInv /\ PipeTypeInv /\ PipeTypeInv' /\ i \in Calls /\ i \in 1..MaxCalls
  BY CallsBounded DEF RpcInv
<1>1. FramesMove(0)
  BY LenProperties DEF FramesMove, RpcInv, PipeTypeInv
<1>2. /\ Calls' = Calls /\ \A j \in Calls \ {i} : calls'[j] = calls[j]
      /\ calls'[i].kind = calls[i].kind /\ calls'[i].gen = calls[i].gen
      /\ calls'[i].state = "busy"
  <2>1. CASE calls[i].state = "waiting"
    BY <1>0, <2>1, SettleFacts DEF PageArrives
  <2>2. CASE calls[i].state # "waiting"
    BY <2>2 DEF PageArrives, ConsumerInv, Calls
  <2> QED BY <2>1, <2>2
<1>3. buf[i] \in Nat /\ got[i] \in Nat
  BY <1>0 DEF StreamTypes
<1>4. /\ \A j \in 1..MaxCalls : j # i => buf'[j] = buf[j] /\ got'[j] = got[j]
      /\ buf' = [buf EXCEPT ![i] = buf'[i]] /\ got' = [got EXCEPT ![i] = got'[i]]
      /\ buf'[i] \in Nat /\ got'[i] \in Nat /\ got'[i] + buf'[i] = got[i] + buf[i] + 1
  <2>1. buf \in [1..MaxCalls -> Nat] /\ got \in [1..MaxCalls -> Nat]
    BY DEF StreamTypes
  <2>2. CASE got' = [got EXCEPT ![i] = got[i] + 1] /\ UNCHANGED buf
    <3>1. got'[i] = got[i] + 1 /\ buf'[i] = buf[i] /\ \A j \in 1..MaxCalls : j # i => got'[j] = got[j]
      BY <1>0, <2>1, <2>2
    <3>2. buf' = [buf EXCEPT ![i] = buf'[i]] /\ got' = [got EXCEPT ![i] = got'[i]]
      BY <2>1, <2>2, <3>1
    <3>3. got'[i] \in Nat /\ buf'[i] \in Nat /\ got'[i] + buf'[i] = got[i] + buf[i] + 1
      BY <1>3, <3>1
    <3> QED BY <2>2, <3>1, <3>2, <3>3
  <2>3. CASE buf' = [buf EXCEPT ![i] = buf[i] + 1] /\ UNCHANGED got
    <3>1. buf'[i] = buf[i] + 1 /\ got'[i] = got[i] /\ \A j \in 1..MaxCalls : j # i => buf'[j] = buf[j]
      BY <1>0, <2>1, <2>3
    <3>2. buf' = [buf EXCEPT ![i] = buf'[i]] /\ got' = [got EXCEPT ![i] = got'[i]]
      BY <2>1, <2>3, <3>1
    <3>3. got'[i] \in Nat /\ buf'[i] \in Nat /\ got'[i] + buf'[i] = got[i] + buf[i] + 1
      BY <1>3, <3>1
    <3> QED BY <2>3, <3>1, <3>2, <3>3
  <2> QED BY <2>2, <2>3 DEF PageArrives
<1>5. fin[i] = "no"
  BY DEF ConsumerInv
<1>6. OnlyCall(i)
  <2>1. /\ \A j \in Calls : calls'[j].kind = calls[j].kind /\ calls'[j].gen = calls[j].gen
        /\ \A j \in Calls : j # i => calls'[j].state = calls[j].state
    BY <1>2
  <2> QED BY <1>2, <1>4, <2>1 DEF OnlyCall
<1>7. StreamTypes' /\ ConsumerInv'
  BY <1>0, <1>2, <1>4, <1>5, <1>6, OneCallConsumer
<1>8. ASSUME NEW t \in Tasks, child = "running", Taken(t), req[t].kind = "crawl", req[t].id = i
      PROVE  Tally(t)'
  <2>1. got[i] + buf[i] + Pages(stdout, i) = sent[t] /\ UNCHANGED <<req, sent>>
    BY <1>8 DEF NodeInv, TallyInv, Tally, server, work
  <2>2. Pages(stdout, i) = Pages(stdout', i) + 1 /\ Pages(stdout', i) \in Nat
    BY <1>0, PagesLess, PlacesFinite DEF PipeTypeInv
  <2>3. got'[i] + buf'[i] + Pages(stdout', i) = sent[t]
    <3>1. PICK p \in Nat : p = Pages(stdout', i)
      BY <2>2
    <3>2. Pages(stdout, i) = p + 1
      BY <2>2, <3>1
    <3>3. got'[i] + buf'[i] + p = got[i] + buf[i] + (p + 1)
      BY <1>3, <1>4
    <3> QED BY <2>1, <3>1, <3>2, <3>3
  <2>4. req'[t].id = i
    BY <1>8, <2>1
  <2> QED BY <1>2, <1>5, <2>1, <2>3, <2>4 DEF Tally
<1>9. NodeInv'
  BY <1>1, <1>6, <1>8, LineIsTasks, OneCallNode
<1> QED BY <1>7, <1>9

\* A stream is closed by its answer: every page came before.
LEMMA EndStreams ==
  ASSUME RpcInv, RpcInv', StreamTypes, ConsumerInv, NodeInv, peer = "node", UNCHANGED peer,
         stdout # <<>>, stdout' = Tail(stdout), NEW i \in streams, i = Head(stdout).id,
         Head(stdout).about # "progress", NEW how \in {"ok", "error"}, streams' = streams \ {i},
         IF calls[i].state = "waiting"
         THEN Settle(i, how) /\ UNCHANGED fin
         ELSE fin' = [fin EXCEPT ![i] = how] /\ UNCHANGED calls,
         UNCHANGED <<server, stdin, stdoutOpen, gen, current, child, buf, got>>
  PROVE  StreamTypes' /\ ConsumerInv' /\ NodeInv'
<1>0. NodeTypeInv /\ PipeTypeInv /\ PipeTypeInv' /\ i \in Calls /\ i \in 1..MaxCalls
  BY CallsBounded DEF RpcInv
<1>1. FramesMove(0)
  BY LenProperties DEF FramesMove, RpcInv, PipeTypeInv
<1>2. /\ Calls' = Calls /\ \A j \in Calls \ {i} : calls'[j] = calls[j]
      /\ calls'[i].kind = calls[i].kind /\ calls'[i].gen = calls[i].gen
      /\ \/ calls[i].state = "waiting" /\ calls'[i].state = how
         \/ calls'[i].state = "busy"
  <2>1. CASE calls[i].state = "waiting"
    BY <1>0, <2>1, SettleFacts
  <2>2. CASE calls[i].state # "waiting"
    BY <2>2 DEF ConsumerInv, Calls
  <2> QED BY <2>1, <2>2
<1>3. buf[i] \in Nat /\ got[i] \in Nat
  BY <1>0 DEF StreamTypes
<1>4. OnlyCall(i)
  <2>1. /\ \A j \in Calls : calls'[j].kind = calls[j].kind /\ calls'[j].gen = calls[j].gen
        /\ \A j \in Calls : j # i => calls'[j].state = calls[j].state
    BY <1>2
  <2>2. \A j \in 1..MaxCalls : j # i => fin'[j] = fin[j]
    BY <1>0 DEF NodeTypeInv
  <2> QED BY <1>2, <2>1, <2>2 DEF OnlyCall
<1>5. StreamTypes' /\ ConsumerInv'
  <2>1. buf' = [buf EXCEPT ![i] = buf'[i]] /\ got' = [got EXCEPT ![i] = got'[i]]
    BY DEF StreamTypes
  <2>2. calls[i].kind = "crawl" /\ calls'[i].state \in {"waiting", "ok"} => buf'[i] = 0
    BY <1>0, <1>2 DEF ConsumerInv
  <2> QED BY <1>0, <1>3, <1>4, <2>1, <2>2, OneCallConsumer
<1>6. ASSUME NEW t \in Tasks, child = "running", Taken(t), req[t].kind = "crawl", req[t].id = i
      PROVE  Tally(t)'
  <2>1. got[i] + buf[i] + Pages(stdout, i) = sent[t] /\ UNCHANGED <<tpc, req, sent>>
    BY <1>6 DEF NodeInv, TallyInv, Tally, server, work
  <2>2. /\ Len(stdout) \in Nat \ {0} /\ Head(stdout) = stdout[1] /\ Len(stdout') = Len(stdout) - 1
        /\ \A k \in 1..Len(stdout') : stdout'[k] = stdout[k + 1]
    BY <1>0, EmptySeq, HeadTailProperties, LenProperties DEF PipeTypeInv
  <2>3. 1 \in 1..Len(stdout) /\ \A k \in 1..Len(stdout') : k + 1 \in 1..Len(stdout) /\ 1 < k + 1
    BY <2>2
  <2>4. tpc[t] = "done" /\ \A k \in 1..Len(stdout') : stdout'[k].id # i
    BY <1>6, <2>2, <2>3 DEF NodeInv, LinesInv
  <2>5. Pages(stdout', i) = 0
    BY <1>0, <2>4, PagesNone DEF PipeTypeInv
  <2>6. Pages(stdout, i) = Pages(stdout', i) + 0
    BY <1>0, PagesLess DEF PipeTypeInv
  <2>7. tpc'[t] = "done" /\ got'[i] + buf'[i] = sent'[t]
    BY <1>3, <2>1, <2>4, <2>5, <2>6
  <2>8. req'[t].id = i
    BY <1>6, <2>1
  <2> QED BY <2>7, <2>8 DEF Tally
<1>7. NodeInv'
  BY <1>1, <1>4, <1>6, LineIsTasks, OneCallNode
<1> QED BY <1>5, <1>7

\* A promise is settled by its answer, which is no crawl's.
LEMMA PromiseStreams ==
  ASSUME RpcInv, RpcInv', CallInv, StreamTypes, ConsumerInv, NodeInv, peer = "node", UNCHANGED peer,
         stdout # <<>>, stdout' = Tail(stdout), NEW i \in pending, i = Head(stdout).id,
         NEW how \in {"ok", "error"}, Settle(i, how),
         UNCHANGED <<server, stdin, stdoutOpen, gen, current, child, streams, buf, got, fin>>
  PROVE  StreamTypes' /\ ConsumerInv' /\ NodeInv'
<1>0. NodeTypeInv /\ PipeTypeInv /\ i \in Calls /\ i \in 1..MaxCalls /\ i \notin streams /\ calls[i].kind # "crawl"
  BY CallsBounded DEF RpcInv, NodeTypeInv, CallInv
<1>1. FramesMove(0)
  BY LenProperties DEF FramesMove, RpcInv, PipeTypeInv
<1>2. /\ Calls' = Calls /\ \A j \in Calls \ {i} : calls'[j] = calls[j]
      /\ calls'[i].kind = calls[i].kind /\ calls'[i].gen = calls[i].gen
  BY <1>0, SettleFacts
<1>3. OnlyCall(i)
  <2>1. /\ \A j \in Calls : calls'[j].kind = calls[j].kind /\ calls'[j].gen = calls[j].gen
        /\ \A j \in Calls : j # i => calls'[j].state = calls[j].state
    BY <1>2
  <2> QED BY <1>2, <2>1 DEF OnlyCall
<1>4. StreamTypes' /\ ConsumerInv'
  <2>1. buf' = [buf EXCEPT ![i] = buf'[i]] /\ got' = [got EXCEPT ![i] = got'[i]] /\ buf'[i] \in Nat /\ got'[i] \in Nat
    BY <1>0 DEF StreamTypes
  <2> QED BY <1>0, <1>3, <2>1, OneCallConsumer
<1>5. ASSUME NEW t \in Tasks, child = "running", Taken(t), req[t].kind = "crawl", req[t].id = i
      PROVE  FALSE
  BY <1>0, <1>5 DEF NodeInv, OnceInv, AsksRightly
<1>6. NodeInv'
  BY <1>1, <1>3, <1>5, LineIsTasks, OneCallNode
<1> QED BY <1>4, <1>6

LEMMA ReceiveStreams ==
  ASSUME RpcInv, RpcInv', CallInv, StreamTypes, ConsumerInv, NodeInv, peer = "node", UNCHANGED peer, Receive
  PROVE  StreamTypes' /\ ConsumerInv' /\ NodeInv'
<1>1. PICK i, how : i = Head(stdout).id /\ how = (IF Head(stdout).about = "ok" THEN "ok" ELSE "error")
  OBVIOUS
<1>2. /\ stdout # <<>> /\ stdout' = Tail(stdout) /\ how \in {"ok", "error"}
      /\ UNCHANGED <<server, stdin, stdoutOpen, gen, current, child>>
  BY <1>1 DEF Receive
<1>3. \/ /\ Head(stdout).about = "progress" /\ i \in streams
         /\ IF calls[i].state = "waiting"
            THEN Settle(i, "busy") /\ got' = [got EXCEPT ![i] = got[i] + 1] /\ UNCHANGED buf
            ELSE buf' = [buf EXCEPT ![i] = buf[i] + 1] /\ UNCHANGED <<calls, got>>
         /\ UNCHANGED <<streams, fin>>
      \/ /\ Head(stdout).about # "progress" /\ i \in streams /\ streams' = streams \ {i}
         /\ IF calls[i].state = "waiting"
            THEN Settle(i, how) /\ UNCHANGED fin
            ELSE fin' = [fin EXCEPT ![i] = how] /\ UNCHANGED calls
         /\ UNCHANGED <<buf, got>>
      \/ i \in pending /\ Settle(i, how) /\ UNCHANGED <<streams, buf, got, fin>>
      \/ i \notin streams /\ UNCHANGED <<calls, streams, buf, got, fin>>
  BY <1>1 DEF Receive
<1>4. CASE /\ Head(stdout).about = "progress" /\ i \in streams
           /\ IF calls[i].state = "waiting"
              THEN Settle(i, "busy") /\ got' = [got EXCEPT ![i] = got[i] + 1] /\ UNCHANGED buf
              ELSE buf' = [buf EXCEPT ![i] = buf[i] + 1] /\ UNCHANGED <<calls, got>>
           /\ UNCHANGED <<streams, fin>>
  BY <1>1, <1>2, <1>4, PageStreams DEF PageArrives
<1>5. CASE /\ Head(stdout).about # "progress" /\ i \in streams /\ streams' = streams \ {i}
           /\ IF calls[i].state = "waiting"
              THEN Settle(i, how) /\ UNCHANGED fin
              ELSE fin' = [fin EXCEPT ![i] = how] /\ UNCHANGED calls
           /\ UNCHANGED <<buf, got>>
  BY <1>1, <1>2, <1>5, EndStreams
<1>6. CASE i \in pending /\ Settle(i, how) /\ UNCHANGED <<streams, buf, got, fin>>
  BY <1>1, <1>2, <1>6, PromiseStreams
<1>7. CASE i \notin streams /\ UNCHANGED <<calls, streams, buf, got, fin>>
  BY <1>1, <1>2, <1>7, LineDropped
<1> QED BY <1>3, <1>4, <1>5, <1>6, <1>7

\* What a new call, or a new process alone, does to the pipes and the process: frame f is written,
\* if at all, behind what is there, and a new process starts with nothing.
Writes(f, last) ==
  /\ \A k \in 1..Len(stdin') :
       (gen' = gen /\ k \in 1..Len(stdin) /\ stdin'[k] = stdin[k]) \/ (k = last /\ stdin'[k] = f)
  /\ current' /\ gen <= gen' /\ UNCHANGED <<server, stdoutOpen>>
  /\ child' # "running" => child # "running" /\ stdin' = <<>>
  /\ \/ child = "running" /\ UNCHANGED <<gen, child, stdout>>
     \/ child # "running" /\ (child' = "running" => stdout' = <<>>)

LEMMA ConnectWrites ==
  ASSUME RpcInv, ProcessInv, NEW f, Connect(<<f>>) \/ Connect(<<>>)
  PROVE  \E last \in Nat : Writes(f, last)
<1> DEFINE S == ReadFrames \cup {f}
<1>0. /\ stdin \in Seq(S) /\ Len(stdin) \in Nat /\ gen \in Nat
      /\ <<f>> \in Seq(S) /\ Len(<<f>>) = 1 /\ <<f>>[1] = f
  <2>1. stdin \in Seq(ReadFrames) /\ ReadFrames \subseteq S /\ f \in S
    BY DEF RpcInv, PipeTypeInv
  <2> HIDE DEF S
  <2>2. stdin \in Seq(S) /\ Len(stdin) \in Nat
    BY <2>1, LenProperties
  <2> QED BY <2>1, <2>2 DEF RpcInv, NodeTypeInv
<1> HIDE DEF S
<1>1. current' /\ gen' = Generation /\ gen <= gen' /\ UNCHANGED <<server, stdoutOpen>>
  BY <1>0 DEF Connect, Generation
<1>2. CASE ~current
  <2>1. child # "running"
    BY <1>2 DEF ProcessInv
  <2>2. child' = "running" /\ stdout' = <<>> /\ (stdin' = <<f>> \/ stdin' = <<>>)
    BY <1>2 DEF Connect
  <2>3. \A k \in 1..Len(stdin') : k = 1 /\ stdin'[k] = f
    <3>1. CASE stdin' = <<f>>
      BY <1>0, <3>1
    <3>2. CASE stdin' = <<>>
      BY <3>2
    <3> QED BY <2>2, <3>1, <3>2
  <2> QED BY <1>1, <2>1, <2>2, <2>3 DEF Writes
<1>3. CASE current /\ child # "running"
  <2>1. UNCHANGED <<gen, child, stdin>>
    BY <1>1, <1>3 DEF Connect, Written, Generation
  <2>2. stdin' = <<>> /\ child' # "running"
    BY <1>3, <2>1 DEF ProcessInv
  <2>3. \A k \in 1..Len(stdin') : gen' = gen /\ k \in 1..Len(stdin) /\ stdin'[k] = stdin[k]
    BY <2>1
  <2> QED BY <1>1, <1>3, <2>2, <2>3 DEF Writes
<1>4. CASE current /\ child = "running"
  <2>1. UNCHANGED <<gen, child, stdout>> /\ (stdin' = stdin \o <<f>> \/ stdin' = stdin \o <<>>)
    BY <1>1, <1>4 DEF Connect, Written, Generation
  <2>2. \A k \in 1..Len(stdin') :
          (gen' = gen /\ k \in 1..Len(stdin) /\ stdin'[k] = stdin[k]) \/ (k = Len(stdin) + 1 /\ stdin'[k] = f)
    <3>1. CASE stdin' = stdin \o <<f>>
      <4>1. /\ Len(stdin') = Len(stdin) + 1
            /\ \A k \in 1..(Len(stdin) + 1) :
                 stdin'[k] = IF k <= Len(stdin) THEN stdin[k] ELSE <<f>>[k - Len(stdin)]
        BY <1>0, <3>1, ConcatProperties
      <4>2. ASSUME NEW k \in 1..Len(stdin')
            PROVE  (k \in 1..Len(stdin) /\ stdin'[k] = stdin[k]) \/ (k = Len(stdin) + 1 /\ stdin'[k] = f)
        BY <1>0, <4>1
      <4> QED BY <2>1, <4>2
    <3>2. CASE stdin' = stdin \o <<>>
      <4>1. stdin' = stdin
        BY <1>0, <3>2, ConcatEmptySeq
      <4> QED BY <2>1, <4>1
    <3> QED BY <2>1, <3>1, <3>2
  <2>3. Len(stdin) + 1 \in Nat
    BY <1>0
  <2> QED BY <1>1, <1>4, <2>1, <2>2, <2>3 DEF Writes
<1> QED BY <1>2, <1>3, <1>4

\* The client has a process, and perhaps one call more, which no frame and no task was about.
LEMMA WritesStreams ==
  ASSUME RpcInv, RpcInv', StreamTypes, ConsumerInv, NodeInv, peer = "node", UNCHANGED peer,
         NEW f, NEW last \in Nat, Writes(f, last),
         f.id \notin Calls,
         (\E k \in 1..Len(stdin') : stdin'[k] = f) => AsksRightly(f)' /\ f.id \in 1..MaxCalls,
         CallsStay, \A j \in Calls : calls'[j] = calls[j], streams' \subseteq streams \cup {f.id},
         f.kind = "crawl" /\ f.id \in Calls' => calls'[f.id].state # "ok",
         UNCHANGED <<buf, got, fin>>
  PROVE  NodeInv'
<1>0. /\ ProcessInv /\ OnceInv /\ FreshInv /\ Len(calls) \in Nat
      /\ Calls \subseteq 1..MaxCalls /\ streams \subseteq Calls
  BY CallsBounded DEF NodeInv, RpcInv
<1>1. UNCHANGED <<tpc, req, sent, stdoutOpen>> /\ current' /\ gen <= gen'
  BY DEF Writes, server, work
<1>2. ASSUME NEW k \in 1..Len(stdin')
      PROVE  (gen' = gen /\ k \in 1..Len(stdin) /\ stdin'[k] = stdin[k]) \/ (k = last /\ stdin'[k] = f)
  BY DEF Writes
<1>3. (\E t \in Tasks : Taken(t)) => child = "running" /\ gen' = gen /\ stdout' = stdout
  BY <1>0 DEF ProcessInv, Writes
<1>4. ProcessInv'
  BY <1>0, <1>1 DEF ProcessInv, Writes, Taken
<1>5. \A h : AsksRightly(h) => h.id \in Calls /\ h.id # f.id /\ (gen' = gen => AsksRightly(h)')
  BY DEF AsksRightly, CallsStay
<1>6. ASSUME NEW k \in 1..Len(stdin), Asks(stdin[k]) PROVE AsksRightly(stdin[k])
  BY <1>0, <1>6 DEF OnceInv, Asks, Kinds
<1>7. OnceInv'
  <2>1. ASSUME NEW k \in 1..Len(stdin') PROVE AsksRightly(stdin[k])' \/ stdin'[k].kind = "cancel"
    <3>1. PICK h : h = stdin'[k]
      OBVIOUS
    <3>2. CASE gen' = gen /\ k \in 1..Len(stdin) /\ stdin'[k] = stdin[k]
      <4>1. AsksRightly(h) \/ h.kind = "cancel"
        BY <1>0, <3>1, <3>2 DEF OnceInv
      <4>2. AsksRightly(h)' \/ h.kind = "cancel"
        BY <1>5, <3>2, <4>1
      <4> QED BY <3>1, <4>2 DEF AsksRightly
    <3>3. CASE stdin'[k] = f
      BY <3>3 DEF AsksRightly
    <3> QED BY <1>2, <3>2, <3>3
  <2>2. ASSUME NEW t \in Tasks, tpc'[t] # "none" PROVE AsksRightly(req[t])'
    <3>1. PICK h : h = req[t]
      OBVIOUS
    <3>2. AsksRightly(h) /\ gen' = gen
      BY <1>0, <1>1, <1>3, <2>2, <3>1 DEF OnceInv, Taken
    <3>3. AsksRightly(h)'
      BY <1>5, <3>2
    <3> QED BY <1>1, <3>1, <3>3 DEF AsksRightly
  <2>3. ASSUME NEW k \in 1..Len(stdin'), NEW l \in 1..Len(stdin'),
               Asks(stdin[k])', Asks(stdin[l])', stdin'[k].id = stdin'[l].id
        PROVE  k = l
    <3>1. CASE k \in 1..Len(stdin) /\ stdin'[k] = stdin[k] /\ l \in 1..Len(stdin) /\ stdin'[l] = stdin[l]
      BY <1>0, <2>3, <3>1 DEF OnceInv, Asks
    <3>2. CASE k = last /\ stdin'[k] = f /\ l = last /\ stdin'[l] = f
      BY <3>2
    <3>3. CASE k \in 1..Len(stdin) /\ stdin'[k] = stdin[k] /\ stdin'[l] = f
      BY <1>5, <1>6, <2>3, <3>3 DEF Asks
    <3>4. CASE stdin'[k] = f /\ l \in 1..Len(stdin) /\ stdin'[l] = stdin[l]
      BY <1>5, <1>6, <2>3, <3>4 DEF Asks
    <3> QED BY <1>2, <3>1, <3>2, <3>3, <3>4
  <2>4. \A t, u \in Tasks : tpc'[t] # "none" /\ tpc'[u] # "none" /\ req'[t].id = req'[u].id => t = u
    BY <1>0, <1>1 DEF OnceInv, Taken
  <2>5. ASSUME NEW k \in 1..Len(stdin'), NEW t \in Tasks, Asks(stdin[k])', tpc'[t] # "none"
        PROVE  stdin'[k].id # req'[t].id
    <3>1. CASE k \in 1..Len(stdin) /\ stdin'[k] = stdin[k]
      BY <1>0, <1>1, <2>5, <3>1 DEF OnceInv, Asks, Taken
    <3>2. CASE stdin'[k] = f
      <4>1. AsksRightly(req[t])
        BY <1>0, <1>1, <2>5 DEF OnceInv, Taken
      <4> QED BY <1>1, <1>5, <3>2, <4>1
    <3> QED BY <1>2, <3>1, <3>2
  <2> QED BY <2>1, <2>2, <2>3, <2>4, <2>5 DEF OnceInv, Taken
<1>8. FreshInv'
  <2>1. SUFFICES ASSUME NEW k \in 1..Len(stdin'), stdin'[k].kind = "crawl"
                 PROVE  Untouched(stdin[k].id)'
    BY DEF FreshInv
  <2>2. PICK i : i = stdin'[k].id
    OBVIOUS
  <2>3. CASE k \in 1..Len(stdin) /\ stdin'[k] = stdin[k]
    <3>1. Untouched(i) /\ i \in Calls
      BY <1>0, <1>5, <1>6, <2>1, <2>2, <2>3 DEF FreshInv, Asks, Kinds
    <3>2. Untouched(i)'
      BY <3>1 DEF Untouched
    <3> QED BY <2>2, <3>2 DEF Untouched
  <2>4. CASE stdin'[k] = f
    <3>1. i \in 1..MaxCalls /\ i > Len(calls) /\ i \in Calls'
      BY <1>0, <2>2, <2>4 DEF Calls, AsksRightly
    <3>2. buf[i] = 0 /\ got[i] = 0 /\ fin[i] = "no"
      BY <3>1 DEF ConsumerInv
    <3>3. calls'[i].state # "ok"
      BY <2>1, <2>2, <2>4, <3>1
    <3>4. Untouched(i)'
      BY <3>2, <3>3 DEF Untouched
    <3> QED BY <2>2, <3>4 DEF Untouched
  <2> QED BY <1>2, <2>3, <2>4
<1>9. ASSUME child' = "running" PROVE LinesInv' /\ TallyInv'
  <2>1. CASE child = "running"
    <3>1. stdout' = stdout /\ LinesInv /\ TallyInv
      BY <2>1 DEF Writes, NodeInv
    <3>2. LinesInv'
      BY <1>1, <3>1 DEF LinesInv, Taken
    <3>3. ASSUME NEW t \in Tasks, tpc'[t] # "none", req'[t].kind = "crawl" PROVE Tally(t)'
      <4>1. PICK i : i = req[t].id
        OBVIOUS
      <4>2. Taken(t) /\ req[t].kind = "crawl" /\ req'[t].id = i /\ AsksRightly(req[t])
        BY <1>0, <1>1, <3>3, <4>1 DEF Taken, OnceInv
      <4>3. i \in Calls /\ (i \in streams' => i \in streams)
        BY <1>5, <4>1, <4>2
      <4>4. /\ i \in streams => got[i] + buf[i] + Pages(stdout, i) = sent[t]
            /\ fin[i] = "ok" \/ calls[i].state = "ok" => tpc[t] = "done" /\ got[i] + buf[i] = sent[t]
        BY <3>1, <4>1, <4>2 DEF TallyInv, Tally
      <4>5. Pages(stdout', i) = Pages(stdout, i)
        BY <3>1
      <4>6. /\ i \in streams' => got'[i] + buf'[i] + Pages(stdout', i) = sent'[t]
            /\ fin'[i] = "ok" \/ calls'[i].state = "ok" => tpc'[t] = "done" /\ got'[i] + buf'[i] = sent'[t]
        BY <1>1, <4>3, <4>4, <4>5
      <4> QED BY <4>2, <4>6 DEF Tally
    <3> QED BY <3>2, <3>3 DEF TallyInv, Taken
  <2>2. CASE child # "running"
    <3>1. stdout' = <<>> /\ Len(stdout') = 0 /\ \A t \in Tasks : tpc'[t] = "none"
      BY <1>0, <1>1, <1>9, <2>2 DEF Writes, ProcessInv, Taken
    <3> QED BY <3>1 DEF LinesInv, TallyInv, Taken
  <2> QED BY <2>1, <2>2
<1> QED BY <1>4, <1>7, <1>8, <1>9 DEF NodeInv

LEMMA NewCallStreams ==
  ASSUME RpcInv, RpcInv', CallInv, StreamTypes, ConsumerInv, NodeInv, peer = "node", UNCHANGED peer,
         NEW kind \in Kinds, NEW sid \in Nat, NEW state, NewCall(kind, sid, state),
         state = IF kind = "crawl" THEN "waiting" ELSE "pending"
  PROVE  StreamTypes' /\ ConsumerInv' /\ NodeInv'
<1>0. /\ Len(calls) \in Nat /\ Calls \subseteq 1..MaxCalls /\ streams \subseteq Calls
      /\ gen \in Nat /\ calls \in Seq(CallRecords) /\ calls' \in Seq(CallRecords) /\ MaxCalls \in Nat
  BY CallsBounded, NodeAssumption DEF RpcInv, NodeTypeInv
<1>1. PICK i, g : i = Len(calls) + 1 /\ g = Generation
  OBVIOUS
<1> DEFINE c == [kind |-> kind, gen |-> g, sid |-> sid, state |-> state]
           f == Frame(kind, i, sid)
<1>2. /\ Len(calls) < MaxCalls /\ Connect(<<f>>)
      /\ calls' = Append(calls, c) /\ streams' \subseteq streams \cup {i}
      /\ (kind # "crawl" => streams' = streams) /\ UNCHANGED <<buf, got, fin>>
  BY <1>1 DEF NewCall
<1>3. c.kind = kind /\ c.gen = g /\ c.state = state /\ f.kind = kind /\ f.id = i
  BY DEF Frame
<1> HIDE DEF c, f
<1>4. PICK last \in Nat : Writes(f, last)
  BY <1>2, ConnectWrites DEF NodeInv
<1>5. i \in 1..MaxCalls /\ i \notin Calls /\ Calls' = Calls \cup {i}
      /\ calls'[i] = c /\ \A j \in Calls : calls'[j] = calls[j]
  BY <1>0, <1>1, <1>2 DEF Calls
<1>6. gen' = g /\ gen <= gen' /\ UNCHANGED server
  BY <1>1, <1>2, <1>4 DEF Connect, Writes
<1>7. AsksRightly(f)'
  BY <1>3, <1>5, <1>6 DEF AsksRightly
<1>8. NodeInv'
  <2>1. CallsStay
    BY <1>5 DEF CallsStay
  <2>2. f.kind = "crawl" /\ f.id \in Calls' => calls'[f.id].state # "ok"
    BY <1>3, <1>5
  <2> QED BY <1>2, <1>3, <1>4, <1>5, <1>7, <2>1, <2>2, WritesStreams
<1>9. StreamTypes'
  BY <1>2, <1>6 DEF StreamTypes, server, work
<1>10. ConsumerInv'
  <2>1. buf[i] = 0 /\ fin[i] = "no"
    BY <1>0, <1>1, <1>5 DEF ConsumerInv
  <2>2. ASSUME NEW j \in 1..MaxCalls, j > Len(calls') PROVE buf'[j] = 0 /\ got'[j] = 0 /\ fin'[j] = "no"
    <3>1. Len(calls') = Len(calls) + 1
      BY <1>0, <1>2
    <3>2. j > Len(calls)
      BY <1>0, <2>2, <3>1
    <3> QED BY <1>2, <3>2 DEF ConsumerInv
  <2>3. ASSUME NEW j \in Calls'
        PROVE  /\ calls'[j].gen <= gen'
               /\ calls'[j].kind = "crawl" /\ calls'[j].state \in {"waiting", "ok"} => buf'[j] = 0
    <3>1. CASE j = i
      <4>1. g <= gen'
        BY <1>6, <1>0 DEF RpcInv, NodeTypeInv
      <4> QED BY <1>2, <1>3, <1>5, <2>1, <3>1, <4>1
    <3>2. CASE j \in Calls
      <4>1. calls[j].gen \in Nat /\ gen' \in Nat
        <5>1. calls[j] \in CallRecords
          BY <1>0, <3>2 DEF Calls
        <5> QED BY <5>1 DEF CallRecords, RpcInv, NodeTypeInv
      <4>2. calls[j].gen <= gen /\ (calls[j].kind = "crawl" /\ calls[j].state \in {"waiting", "ok"} => buf[j] = 0)
        BY <3>2 DEF ConsumerInv
      <4>3. calls[j].gen <= gen'
        BY <1>0, <1>6, <4>1, <4>2
      <4> QED BY <1>2, <1>5, <3>2, <4>2, <4>3
    <3> QED BY <1>5, <3>1, <3>2
  <2>4. ASSUME NEW j \in streams' PROVE calls'[j].state \in {"waiting", "busy"} /\ fin'[j] = "no"
    <3>1. CASE j \in streams
      BY <1>0, <1>2, <1>5, <3>1 DEF ConsumerInv
    <3>2. CASE j = i /\ kind = "crawl"
      BY <1>2, <1>3, <1>5, <2>1, <3>2
    <3> QED BY <1>2, <2>4, <3>1, <3>2
  <2> QED BY <2>2, <2>3, <2>4 DEF ConsumerInv
<1> QED BY <1>8, <1>9, <1>10

\* A process is spawned to compare generations, and nothing is asked of it.
LEMMA ConnectStreams ==
  ASSUME RpcInv, RpcInv', StreamTypes, ConsumerInv, NodeInv, peer = "node", UNCHANGED peer,
         Connect(<<>>), UNCHANGED <<calls, streams, buf, got, fin>>
  PROVE  StreamTypes' /\ ConsumerInv' /\ NodeInv'
<1>1. PICK f : f = [kind |-> "none", id |-> 0]
  OBVIOUS
<1>2. f.kind = "none" /\ f.id = 0
  BY <1>1
<1>3. \A k \in 1..Len(stdin') : stdin'[k] # f
  <2>1. stdin' \in Seq(ReadFrames)
    BY DEF RpcInv, PipeTypeInv
  <2>2. \A k \in 1..Len(stdin') : stdin'[k] \in ReadFrames
    BY <2>1
  <2>3. \A h \in ReadFrames : h.kind # "none"
    BY DEF ReadFrames, Methods, Notes
  <2> QED BY <1>2, <2>2, <2>3
<1>4. PICK last \in Nat : Writes(f, last)
  BY ConnectWrites DEF NodeInv
<1>5. CallsStay /\ f.id \notin Calls /\ Calls' = Calls
  BY <1>2 DEF CallsStay, Calls
<1>6. NodeInv'
  BY <1>2, <1>3, <1>4, <1>5, WritesStreams
<1>7. StreamTypes' /\ ConsumerInv'
  <2>1. UNCHANGED sent /\ gen <= gen' /\ gen \in Nat /\ gen' \in Nat
    BY <1>4 DEF Writes, server, work, RpcInv, NodeTypeInv
  <2>2. \A i \in Calls : calls[i].gen \in Nat
    <3>1. \A i \in Calls : calls[i] \in CallRecords
      BY DEF RpcInv, NodeTypeInv, Calls
    <3> QED BY <3>1 DEF CallRecords
  <2>3. \A i \in Calls' : calls'[i].gen <= gen'
    <3>1. \A i \in Calls : calls[i].gen <= gen
      BY DEF ConsumerInv
    <3> QED BY <1>5, <2>1, <2>2, <3>1
  <2> QED BY <1>5, <2>1, <2>3 DEF StreamTypes, ConsumerInv
<1> QED BY <1>6, <1>7

\* The process ends, or the client closes: nothing is asked for and nothing runs any more.
LEMMA EndedStreams ==
  ASSUME RpcInv, RpcInv', StreamTypes, ConsumerInv, NodeInv, peer = "node", UNCHANGED peer,
         Die \/ ExitEvent \/ Shutdown
  PROVE  StreamTypes' /\ ConsumerInv' /\ NodeInv'
<1>0. /\ Len(calls) \in Nat /\ Calls \subseteq 1..MaxCalls /\ streams \subseteq Calls
      /\ calls \in Seq(CallRecords)
  BY CallsBounded DEF RpcInv, NodeTypeInv
<1>1. child' # "running" /\ UNCHANGED <<stdoutOpen, gen, buf, got>>
  BY DEF Die, ExitEvent, Shutdown
<1>2. stdin' = <<>> /\ \A t \in Tasks : tpc'[t] = "none" /\ sent'[t] = 0
  <2>1. CASE Die \/ Shutdown
    BY <2>1 DEF Die, Shutdown, ProcessGone
  <2>2. CASE ExitEvent
    <3>1. child # "running" /\ UNCHANGED <<stdin, tpc, sent>>
      BY <2>2 DEF ExitEvent, server, work
    <3> QED BY <3>1 DEF NodeInv, ProcessInv, Taken
  <2> QED BY <2>1, <2>2
<1>3. sent' \in [Tasks -> Nat]
  <2>1. sent' = sent \/ sent' = [t \in Tasks |-> 0]
    BY DEF Die, ExitEvent, Shutdown, ProcessGone, server, work
  <2> QED BY <2>1 DEF StreamTypes
<1>4. StreamTypes'
  BY <1>1, <1>3 DEF StreamTypes
<1>5. NodeInv'
  <2>1. Len(stdin') = 0
    BY <1>2
  <2>2. ProcessInv'
    BY <1>1, <1>2 DEF NodeInv, ProcessInv, Taken
  <2>3. OnceInv' /\ FreshInv'
    BY <1>2, <2>1 DEF OnceInv, FreshInv, Taken
  <2> QED BY <1>1, <2>2, <2>3 DEF NodeInv
<1>6. CASE UNCHANGED <<calls, streams, fin>>
  <2>1. ConsumerInv'
    BY <1>1, <1>6 DEF ConsumerInv, Calls
  <2> QED BY <1>4, <1>5, <2>1
<1>7. CASE Close
  <2>1. /\ streams' = {}
        /\ fin' = [i \in 1..MaxCalls |->
             IF i \in streams /\ calls[i].state = "busy" THEN "lost" ELSE fin[i]]
        /\ calls' = [i \in Calls |->
             IF i \in pending \/ (i \in streams /\ calls[i].state = "waiting")
             THEN [calls[i] EXCEPT !.state = "lost"] ELSE calls[i]]
    BY <1>7 DEF Close
  <2>2. Len(calls') = Len(calls) /\ Calls' = Calls
    BY <1>0, <2>1 DEF Calls
  <2>3. \A i \in Calls : calls[i] \in CallRecords
    BY <1>0 DEF Calls
  <2>4. ASSUME NEW i \in Calls
        PROVE  /\ calls'[i].kind = calls[i].kind /\ calls'[i].gen = calls[i].gen
               /\ calls'[i].state \in {"lost", calls[i].state}
    BY <2>1, <2>3 DEF CallRecords
  <2>5. \A i \in 1..MaxCalls : i > Len(calls) => fin'[i] = "no"
    <3>1. ASSUME NEW i \in 1..MaxCalls, i > Len(calls) PROVE i \notin streams /\ fin[i] = "no"
      BY <1>0, <3>1 DEF Calls, ConsumerInv
    <3> QED BY <2>1, <3>1
  <2>6. \A i \in 1..MaxCalls : i > Len(calls') => buf'[i] = 0 /\ got'[i] = 0 /\ fin'[i] = "no"
    BY <1>1, <2>2, <2>5 DEF ConsumerInv
  <2>7. ASSUME NEW i \in Calls'
        PROVE  /\ calls'[i].gen <= gen'
               /\ calls'[i].kind = "crawl" /\ calls'[i].state \in {"waiting", "ok"} => buf'[i] = 0
    BY <1>1, <2>2, <2>4 DEF ConsumerInv
  <2>8. ConsumerInv'
    BY <2>1, <2>6, <2>7 DEF ConsumerInv
  <2> QED BY <1>4, <1>5, <2>8
<1>8. Close \/ UNCHANGED <<calls, streams, fin>>
  BY DEF Die, ExitEvent, Shutdown
<1> QED BY <1>6, <1>7, <1>8

LEMMA StreamInit == RpcInit => StreamInv
BY DEF RpcInit, Fresh, NodeInit, StreamInv, StreamTypes, ConsumerInv, NodeInv, ProcessInv, OnceInv, FreshInv,
       Calls, Taken

LEMMA ClientStreams ==
  ASSUME RpcInv, RpcInv', CallInv, StreamTypes, ConsumerInv, NodeInv, peer = "node", UNCHANGED peer, NodeStep
  PROVE  StreamTypes' /\ ConsumerInv' /\ NodeInv'
<1>1. CASE Request \/ Crawl
  <2>1. Request => \E kind \in {"tool", "open"} : NewCall(kind, 0, "pending")
    BY DEF Request
  <2>2. Crawl => NewCall("crawl", 0, "waiting")
    BY DEF Crawl
  <2> QED BY <1>1, <2>1, <2>2, NewCallStreams DEF Kinds
<1>2. ASSUME NEW o \in 1..Len(objs), SessionFetch(o) \/ SessionClose(o)
      PROVE  StreamTypes' /\ ConsumerInv' /\ NodeInv'
  <2>1. PICK sid \in Nat : sid = objs[o].sid
    <3>1. objs[o] \in Handles
      BY DEF RpcInv, NodeTypeInv
    <3> QED BY <3>1 DEF Handles
  <2>2. CASE NewCall("fetch", objs[o].sid, "pending") \/ NewCall("close", objs[o].sid, "pending")
    <3>1. NewCall("fetch", sid, "pending") \/ NewCall("close", sid, "pending")
      BY <2>1, <2>2
    <3> QED BY <3>1, NewCallStreams DEF Kinds
  <2>3. CASE Connect(<<>>) /\ UNCHANGED <<calls, streams, buf, got, fin>>
    BY <2>3, ConnectStreams
  <2> QED BY <1>2, <2>2, <2>3 DEF SessionFetch, SessionClose
<1> QED BY <1>1, <1>2, AbortStreams, NextStreams, ReceiveStreams, EndedStreams DEF NodeStep, UserStep, EventStep

LEMMA StreamStep == RpcInv /\ RpcInv' /\ CallInv /\ StreamInv /\ [RpcNext]_vars => StreamInv'
<1> SUFFICES ASSUME RpcInv, RpcInv', CallInv, StreamInv, [RpcNext]_vars PROVE StreamInv'
  OBVIOUS
<1>1. CASE Served /\ ServerStep /\ UNCHANGED <<peer, node>>
  BY <1>1, ServerStreams
<1>2. CASE peer = "any" /\ AnyClient /\ UNCHANGED <<peer, server, node>>
  <2>1. UNCHANGED <<peer, sent, gen, child, calls, streams, buf, got, fin>>
    BY <1>2 DEF server, work, node
  <2> QED BY <1>2, <2>1 DEF StreamInv, StreamTypes, ConsumerInv, Calls
<1>3. CASE peer = "node" /\ NodeStep /\ UNCHANGED peer
  BY <1>3, ClientStreams DEF StreamInv
<1>4. CASE UNCHANGED vars
  <2>1. UNCHANGED <<peer, stdin, stdout, stdoutOpen, tpc, req, sent, gen, current, child, calls, streams, buf, got, fin>>
    BY <1>4 DEF vars, pipes, server, work, node
  <2>2. StreamTypes' /\ ConsumerInv'
    BY <2>1 DEF StreamInv, StreamTypes, ConsumerInv, Calls
  <2>3. peer = "node" => ProcessInv' /\ OnceInv' /\ FreshInv'
    BY <2>1 DEF StreamInv, NodeInv, ProcessInv, OnceInv, FreshInv, Taken, Asks, AsksRightly, Calls, Untouched
  <2>4. peer = "node" /\ child = "running" => LinesInv' /\ TallyInv'
    BY <2>1 DEF StreamInv, NodeInv, LinesInv, TallyInv, Tally, Taken, Pages
  <2> QED BY <2>1, <2>2, <2>3, <2>4 DEF StreamInv, NodeInv
<1> QED BY <1>1, <1>2, <1>3, <1>4 DEF RpcNext, Finished

\* rpc-client.ts (ProgressStream) and rpc/dispatch.rs (crawl's callback): a crawl that ended well for
\* its consumer has handed it every page the server reported, each once, whatever was queued, aborted
\* or lost before, and whichever process the answer came from.
THEOREM StreamCompleteHolds == Spec => []StreamComplete
<1>1. RpcInv /\ StreamInv => StreamComplete
  <2> SUFFICES ASSUME RpcInv, StreamInv, NEW i \in Calls, NEW t \in Tasks,
                      child = "running", calls[i].kind = "crawl", calls[i].state = "ok",
                      Taken(t), req[t].id = i, req[t].kind = "crawl"
               PROVE  got[i] = sent[t]
    BY DEF StreamComplete, Taken
  <2>1. got[i] + buf[i] = sent[t]
    BY DEF StreamInv, NodeInv, TallyInv, Tally
  <2>2. buf[i] = 0
    BY DEF StreamInv, ConsumerInv
  <2>3. got[i] \in Nat
    BY CallsBounded DEF RpcInv, StreamInv, StreamTypes
  <2> QED BY <2>1, <2>2, <2>3
<1>2. RpcInit => RpcInv /\ CallInv /\ StreamInv
  BY RpcInitInv, CallInit, StreamInit
<1>3. RpcInv /\ CallInv /\ StreamInv /\ [RpcNext]_vars => (RpcInv /\ CallInv /\ StreamInv)'
  BY RpcStepInv, CallsStep, StreamStep
<1> QED BY <1>1, <1>2, <1>3, PTL DEF Spec
=============================================================================
