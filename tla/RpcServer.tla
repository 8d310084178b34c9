------------------------------- MODULE RpcServer -------------------------------
(***************************************************************************)
(* The JSON-RPC server of servo-fetch-cli: the loop that reads frames      *)
(* (rpc.rs), one task per request (spawn_request and rpc/dispatch.rs), the *)
(* registry through which requests are cancelled, the table of browser     *)
(* sessions with their locks. The channel of lines, the task that writes   *)
(* them (transport.rs) and the pipe are one queue; a process that dies     *)
(* loses what it had not written.                                          *)
(*                                                                         *)
(* The tasks run on a multi-threaded runtime. A step of a task is what it  *)
(* does in one poll between two awaits, or between two locks. What a       *)
(* handler works on (a page, an article, an image) is left out: it ends    *)
(* well, with an error, or in a panic.                                     *)
(***************************************************************************)
EXTENDS Naturals, Sequences, FiniteSets

CONSTANTS
  Ids,            \* request ids, JSON numbers and strings alike
  MaxTasks,       \* bound: requests a server process accepts
  MaxSessions,    \* bound: sessions it opens
  MaxProgress     \* bound: pages a crawl reports

ASSUME RpcAssumption ==
  MaxTasks \in Nat /\ MaxSessions \in Nat /\ MaxProgress \in Nat

Tasks    == 1..MaxTasks
Sessions == 1..MaxSessions

\* Methods that differ in what they do to the server's state. "quick" stands for
\* initialize and unknown methods, "tool" for fetch, extract, screenshot,
\* evaluate, extractSchema and map.
Methods == {"quick", "tool", "crawl", "open", "fetch", "close"}
OnSession == {"fetch", "close"}
Notes   == {"cancel", "exit", "notice", "blank", "garbage", "oversize"}
Frame(kind, id, sid) == [kind |-> kind, id |-> id, sid |-> sid]
Frames  == [kind : Methods \cup Notes, id : Ids, sid : Sessions \cup {0}]

Line(about, id, sid) == [about |-> about, id |-> id, sid |-> sid]
NoFrame == [kind |-> "none"]

VARIABLES
  stdin, stdinOpen,     \* the pipe of frames from the client
  stdout, stdoutOpen,   \* the lines on their way to it
  main,                 \* the loop of rpc::run: "read", "drain" or "down"
  registry,             \* Cancellations: the task registered under an id, or 0
  tokens,               \* tasks whose cancellation token is set
  tpc, req, out, sent,  \* tasks: position, frame, outcome, progress made
  own,                  \* the session number a "session/open" has obtained
  table,                \* Sessions: ids in the map
  slot,                 \* what a session's slot holds
  queue                 \* the FIFO of a slot's tokio mutex, its holder first

pipes   == <<stdin, stdinOpen, stdout, stdoutOpen>>
reg     == <<registry, tokens>>
work    == <<tpc, req, out, sent, own>>
browser == <<table, slot, queue>>
server  == <<main, reg, work, browser>>
rpcVars == <<pipes, server>>

Free == {t \in Tasks : tpc[t] = "none"}
Live(t) == tpc[t] \notin {"none", "answer", "done"}
InHandler(t) == Live(t) /\ tpc[t] # "deregister"

\* The state of a process just started.
Fresh ==
  /\ main = "read"
  /\ registry = [i \in Ids |-> 0] /\ tokens = {}
  /\ tpc = [t \in Tasks |-> "none"] /\ req = [t \in Tasks |-> NoFrame]
  /\ out = [t \in Tasks |-> "none"] /\ sent = [t \in Tasks |-> 0]
  /\ own = [t \in Tasks |-> 0]
  /\ table = {} /\ slot = [s \in Sessions |-> "unused"]
  /\ queue = [s \in Sessions |-> <<>>]

\* Lines go to an unbounded channel; once the writer has failed they go nowhere.
Send(line) == stdout' = IF stdoutOpen THEN Append(stdout, line) ELSE stdout

-----------------------------------------------------------------------------
(***************************************************************************)
(* The loop.                                                               *)
(***************************************************************************)
\* Mutant: an id in flight is taken over by the new request.
RegisterAnyway(f) ==
  /\ Free # {}
  /\ LET t == CHOOSE u \in Free : TRUE IN
     /\ registry' = [registry EXCEPT ![f.id] = t]
     /\ tpc' = [tpc EXCEPT ![t] = "begin"]
     /\ req' = [req EXCEPT ![t] = f]
  /\ UNCHANGED <<stdout, tokens>>

\* spawn_request: a second request under an id in flight is refused; otherwise the
\* id is registered and a task spawned, both under the registry's lock.
Register(f) ==
  \/ /\ registry[f.id] # 0
     /\ Send(Line("duplicate", f.id, 0))
     /\ UNCHANGED <<registry, tokens, tpc, req>>
  \/ /\ registry[f.id] = 0 /\ Free # {}
     /\ LET t == CHOOSE u \in Free : TRUE IN
        /\ registry' = [registry EXCEPT ![f.id] = t]
        /\ tpc' = [tpc EXCEPT ![t] = "begin"]
        /\ req' = [req EXCEPT ![t] = f]
     /\ UNCHANGED <<stdout, tokens>>

\* "$/cancelRequest" sets the token registered under the id, if there is one.
CancelRequest(f) ==
  /\ tokens' = IF registry[f.id] # 0 THEN tokens \cup {registry[f.id]} ELSE tokens
  /\ UNCHANGED <<stdout, registry, tpc, req>>

\* A frame that is no message is answered under the id null; one longer than the
\* codec allows also ends the stream, and so does "exit".
Read ==
  /\ main = "read" /\ stdin # <<>>
  /\ stdin' = Tail(stdin)
  /\ LET f == Head(stdin) IN
     \/ f.kind \in Methods /\ Register(f) /\ UNCHANGED main
     \/ f.kind = "cancel" /\ CancelRequest(f) /\ UNCHANGED main
     \/ /\ f.kind \in {"garbage", "oversize"} /\ Send(Line("null", f.id, 0))
        /\ main' = IF f.kind = "oversize" THEN "drain" ELSE "read"
        /\ UNCHANGED <<reg, tpc, req>>
     \/ /\ f.kind \in {"exit", "notice", "blank"}
        /\ main' = IF f.kind = "exit" THEN "drain" ELSE "read"
        /\ UNCHANGED <<stdout, reg, tpc, req>>
  /\ UNCHANGED <<stdinOpen, stdoutOpen, out, sent, own, browser>>

EndOfInput ==
  /\ main = "read" /\ stdin = <<>> /\ ~stdinOpen
  /\ main' = "drain"
  /\ UNCHANGED <<pipes, reg, work, browser>>

\* Mutant: run returns at end of input, whatever is in flight.
ReturnAtOnce ==
  /\ main = "drain" /\ main' = "down"
  /\ slot' = [s \in Sessions |-> IF slot[s] = "unused" THEN "unused" ELSE "gone"]
  /\ table' = {} /\ queue' = [s \in Sessions |-> <<>>]
  /\ tpc' = [t \in Tasks |-> IF tpc[t] = "none" THEN "none" ELSE "done"]
  /\ UNCHANGED <<pipes, reg, req, out, sent, own>>

\* The sender of the loop is dropped, so the writer ends when every task has
\* dropped its own and every line is written; or before, when the client no longer
\* reads. Whatever is left, tasks and sessions, is dropped with the runtime.
Return ==
  /\ main = "drain"
  /\ \/ ~stdoutOpen
     \/ \A t \in Tasks : tpc[t] \in {"none", "done"}
  /\ main' = "down"
  /\ slot' = [s \in Sessions |-> IF slot[s] = "unused" THEN "unused" ELSE "gone"]
  /\ table' = {} /\ queue' = [s \in Sessions |-> <<>>]
  /\ tpc' = [t \in Tasks |-> IF tpc[t] = "none" THEN "none" ELSE "done"]
  /\ UNCHANGED <<pipes, reg, req, out, sent, own>>

-----------------------------------------------------------------------------
(***************************************************************************)
(* A request's task.                                                       *)
(***************************************************************************)
Step(t, from, to) == tpc[t] = from /\ tpc' = [tpc EXCEPT ![t] = to]
EndsWith(t, o) ==
  /\ tpc' = [tpc EXCEPT ![t] = "deregister"]
  /\ out' = [out EXCEPT ![t] = o]
LeaveQueue(t, s) ==
  LET q == queue[s] IN
  \/ \E i \in 1..Len(q) :
       q[i] = t /\ queue' = [queue EXCEPT ![s] = SubSeq(q, 1, i - 1) \o SubSeq(q, i + 1, Len(q))]
  \/ (\A i \in 1..Len(q) : q[i] # t) /\ UNCHANGED queue

\* Task t lets go of slot s, which holds what it holds: a slot that neither the table
\* nor another task refers to is dropped, and its session with it.
Holding(t) == req[t].kind \in OnSession /\ tpc[t] \in {"slot", "lock", "work"}
LetGo(t, s, holds) ==
  slot' = [slot EXCEPT ![s] =
    IF s \in table \/ holds = "closing" \/ \E u \in Tasks \ {t} : Holding(u) /\ req[u].sid = s
    THEN holds ELSE "gone"]

\* The select is biased: no part of the handler runs once the token is set.
Running(t) == main # "down" /\ t \notin tokens

\* The first poll, up to the first await. Bad parameters and unknown methods, sessions
\* and schemas are answered at once.
Refuse(t) ==
  /\ Running(t) /\ tpc[t] = "begin" /\ EndsWith(t, "error")
  /\ UNCHANGED <<pipes, main, reg, req, sent, own, browser>>

Initialize(t) ==
  /\ Running(t) /\ tpc[t] = "begin" /\ req[t].kind = "quick" /\ EndsWith(t, "ok")
  /\ UNCHANGED <<pipes, main, reg, req, sent, own, browser>>

BeginWork(t) ==
  /\ Running(t) /\ req[t].kind \in {"tool", "crawl", "open"} /\ Step(t, "begin", "work")
  /\ UNCHANGED <<pipes, main, reg, req, out, sent, own, browser>>

\* session/fetch takes its slot from the table.
LookUp(t) ==
  /\ Running(t) /\ req[t].kind = "fetch" /\ req[t].sid \in table /\ Step(t, "begin", "slot")
  /\ UNCHANGED <<pipes, main, reg, req, out, sent, own, browser>>

\* session/close removes it from there, and has nothing to close if it is not there.
Remove(t) ==
  /\ Running(t) /\ req[t].kind = "close" /\ tpc[t] = "begin"
  /\ \/ req[t].sid \in table /\ Step(t, "begin", "slot") /\ UNCHANGED out
     \/ req[t].sid \notin table /\ EndsWith(t, "ok")
  /\ table' = table \ {req[t].sid}
  /\ UNCHANGED <<pipes, main, reg, req, sent, own, slot, queue>>

\* slot.lock(): into the queue of the mutex.
AskLock(t) ==
  /\ Running(t) /\ Step(t, "slot", "lock")
  /\ queue' = [queue EXCEPT ![req[t].sid] = Append(@, t)]
  /\ UNCHANGED <<pipes, main, reg, req, out, sent, own, table, slot>>

\* Mutant: session/close closes what is in the slot without waiting for its lock.
TakeWithoutLock(t) ==
  /\ Running(t) /\ tpc[t] = "lock"
  /\ LET s == req[t].sid IN
     \/ /\ req[t].kind = "fetch" /\ Head(queue[s]) = t /\ slot[s] = "open"
        /\ Step(t, "lock", "work") /\ UNCHANGED <<out, slot, queue>>
     \/ /\ req[t].kind = "fetch" /\ Head(queue[s]) = t /\ slot[s] # "open"
        /\ EndsWith(t, "error") /\ LeaveQueue(t, s) /\ UNCHANGED slot
     \/ /\ req[t].kind = "close"
        /\ slot' = [slot EXCEPT ![s] = "closing"]
        /\ Step(t, "lock", "work") /\ LeaveQueue(t, s) /\ UNCHANGED out
  /\ UNCHANGED <<pipes, main, reg, req, sent, own, table>>

\* The lock is granted. A fetch keeps it while it uses the session, or finds that the
\* session was closed; a close takes the session out and lets the lock go.
Locked(t) ==
  /\ Running(t) /\ tpc[t] = "lock"
  /\ LET s == req[t].sid IN
     /\ Head(queue[s]) = t
     /\ \/ /\ req[t].kind = "fetch" /\ slot[s] \in {"open", "dead"}
           /\ Step(t, "lock", "work") /\ UNCHANGED <<out, slot, queue>>
        \/ /\ req[t].kind = "fetch" /\ slot[s] \notin {"open", "dead"}
           /\ EndsWith(t, "error") /\ LeaveQueue(t, s) /\ UNCHANGED slot
        \/ /\ req[t].kind = "close"
           /\ slot' = [slot EXCEPT ![s] = "closing"]
           /\ Step(t, "lock", "work") /\ LeaveQueue(t, s) /\ UNCHANGED out
  /\ UNCHANGED <<pipes, main, reg, req, sent, own, table>>

\* A crawl's event callback.
Progress(t) ==
  /\ Running(t) /\ tpc[t] = "work" /\ req[t].kind = "crawl"
  /\ sent[t] < MaxProgress
  /\ sent' = [sent EXCEPT ![t] = @ + 1]
  /\ Send(Line("progress", req[t].id, 0))
  /\ UNCHANGED <<stdin, stdinOpen, stdoutOpen, main, reg, tpc, req, out, own, browser>>

\* BrowserSession::new has returned, and the next number is drawn. The handler has
\* yet to wait for the table.
Opened(t) ==
  /\ Running(t) /\ req[t].kind = "open" /\ Step(t, "work", "insert")
  /\ \E s \in Sessions :
       /\ slot[s] = "unused" /\ \A r \in Sessions : r < s => slot[r] # "unused"
       /\ own' = [own EXCEPT ![t] = s]
       /\ slot' = [slot EXCEPT ![s] = "new"]
  /\ UNCHANGED <<pipes, main, reg, req, out, sent, table, queue>>

\* Mutant: the handler yields once more between the insertion and its end.
InsertThenYield(t) ==
  \/ /\ Running(t) /\ Step(t, "insert", "inserted")
     /\ table' = table \cup {own[t]} /\ slot' = [slot EXCEPT ![own[t]] = "open"]
     /\ UNCHANGED <<pipes, main, reg, req, out, sent, own, queue>>
  \/ /\ Running(t) /\ tpc[t] = "inserted" /\ EndsWith(t, "ok")
     /\ UNCHANGED <<pipes, main, reg, req, sent, own, browser>>

\* The session is entered in the table and, without another await, answered.
Insert(t) ==
  /\ Running(t) /\ tpc[t] = "insert" /\ EndsWith(t, "ok")
  /\ table' = table \cup {own[t]} /\ slot' = [slot EXCEPT ![own[t]] = "open"]
  /\ UNCHANGED <<pipes, main, reg, req, sent, own, queue>>

\* The handler's own work ends, with a result, an error or a panic, which is caught and
\* unwinds the handler.
FinishTool(t) ==
  /\ Running(t) /\ req[t].kind = "tool" /\ tpc[t] = "work"
  /\ \E o \in {"ok", "error"} : EndsWith(t, o)
  /\ UNCHANGED <<pipes, main, reg, req, sent, own, browser>>

FinishCrawl(t) ==
  /\ Running(t) /\ req[t].kind = "crawl" /\ tpc[t] = "work"
  /\ \E o \in {"ok", "error"} : EndsWith(t, o)
  /\ UNCHANGED <<pipes, main, reg, req, sent, own, browser>>

OpenFails(t) ==
  /\ Running(t) /\ req[t].kind = "open" /\ tpc[t] = "work" /\ EndsWith(t, "error")
  /\ UNCHANGED <<pipes, main, reg, req, sent, own, browser>>

\* A failed fetch may have ended the session's worker, whose handle stays in the slot.
FinishFetch(t) ==
  /\ Running(t) /\ req[t].kind = "fetch" /\ tpc[t] = "work"
  /\ LET s == req[t].sid IN
     /\ \/ slot[s] = "open" /\ EndsWith(t, "ok") /\ LetGo(t, s, "open")
        \/ EndsWith(t, "error") /\ \E then \in {slot[s], "dead"} : LetGo(t, s, then)
     /\ LeaveQueue(t, s)
  /\ UNCHANGED <<pipes, main, reg, req, sent, own, table>>

\* However closing ends, the session is gone.
FinishClose(t) ==
  /\ Running(t) /\ req[t].kind = "close" /\ tpc[t] = "work"
  /\ \E o \in {"ok", "error"} : EndsWith(t, o)
  /\ slot' = [slot EXCEPT ![req[t].sid] = "gone"]
  /\ UNCHANGED <<pipes, main, reg, req, sent, own, table, queue>>

\* The token is set: the handler is dropped where it stands, with what it holds. A
\* fetch dropped in the middle ends the worker, as does dropping a session taken out
\* for closing or one not yet entered in the table; a slot that a close has removed
\* from the table goes with the last task that holds it.
Cancelled(t) ==
  /\ main # "down" /\ InHandler(t) /\ t \in tokens
  /\ EndsWith(t, "cancelled")
  /\ LET f == req[t] IN
     /\ IF f.kind \in OnSession /\ tpc[t] \in {"lock", "work"}
        THEN LeaveQueue(t, f.sid) ELSE UNCHANGED queue
     /\ CASE tpc[t] = "insert" -> slot' = [slot EXCEPT ![own[t]] = "gone"]
          [] f.kind = "fetch" /\ tpc[t] = "work" -> LetGo(t, f.sid, "dead")
          [] f.kind = "close" /\ tpc[t] = "work" -> slot' = [slot EXCEPT ![f.sid] = "gone"]
          [] f.kind \in OnSession /\ tpc[t] \in {"slot", "lock"} -> LetGo(t, f.sid, slot[f.sid])
          [] OTHER -> UNCHANGED slot
  /\ UNCHANGED <<pipes, main, reg, req, sent, own, table>>

\* Deregistered, then answered: two steps, and another thread may run in between.
Deregister(t) ==
  /\ main # "down" /\ Step(t, "deregister", "answer")
  /\ registry' = [registry EXCEPT ![req[t].id] = 0]
  /\ UNCHANGED <<pipes, main, tokens, req, out, sent, own, browser>>

Answer(t) ==
  /\ main # "down" /\ Step(t, "answer", "done")
  /\ Send(Line(out[t], req[t].id, own[t]))
  /\ tokens' = tokens \ {t}
  /\ UNCHANGED <<stdin, stdinOpen, stdoutOpen, main, registry, req, out, sent, own, browser>>

TaskStep(t) ==
  \/ Refuse(t) \/ Initialize(t) \/ BeginWork(t) \/ LookUp(t) \/ Remove(t)
  \/ AskLock(t) \/ Locked(t) \/ Progress(t) \/ Opened(t) \/ Insert(t)
  \/ FinishTool(t) \/ FinishCrawl(t) \/ OpenFails(t) \/ FinishFetch(t) \/ FinishClose(t)
  \/ Cancelled(t) \/ Deregister(t) \/ Answer(t)

ServerStep == Read \/ EndOfInput \/ Return \/ \E t \in Tasks : TaskStep(t)

-----------------------------------------------------------------------------
(***************************************************************************)
(* Any client: whatever frames it likes, ids used twice included.          *)
(***************************************************************************)
CONSTANTS
  MaxBacklog,     \* bound: lines the client leaves unread before it goes on
  MaxRequests,    \* bound: requests it makes
  AnyKinds        \* bound: kinds of frames it sends
AnyFrame(f) ==
  /\ f.kind \in AnyKinds
  /\ (f.kind \in OnSession) <=> (f.sid # 0)
  /\ f.id = CHOOSE i \in Ids : TRUE
  /\ f.kind \in Methods => Cardinality(Tasks \ Free) < MaxRequests
AnyClient ==
  \/ /\ stdinOpen /\ stdin = <<>> /\ Len(stdout) < MaxBacklog
     /\ \E f \in Frames : AnyFrame(f) /\ stdin' = <<f>>
     /\ UNCHANGED <<stdinOpen, stdout, stdoutOpen>>
  \/ stdinOpen /\ stdinOpen' = FALSE /\ UNCHANGED <<stdin, stdout, stdoutOpen>>
  \/ stdout # <<>> /\ stdout' = Tail(stdout) /\ UNCHANGED <<stdin, stdinOpen, stdoutOpen>>
  \/ /\ stdoutOpen /\ ~stdinOpen /\ stdoutOpen' = FALSE /\ stdout' = <<>>
     /\ UNCHANGED <<stdin, stdinOpen>>

-----------------------------------------------------------------------------
RpcTypeOK ==
  /\ stdin \in Seq(Frames) /\ stdinOpen \in BOOLEAN /\ stdoutOpen \in BOOLEAN
  /\ main \in {"read", "drain", "down"}
  /\ registry \in [Ids -> Tasks \cup {0}] /\ tokens \subseteq Tasks
  /\ tpc \in [Tasks -> {"none", "begin", "slot", "lock", "work", "insert",
                        "deregister", "answer", "done"}]
  /\ req \in [Tasks -> Frames \cup {NoFrame}]
  /\ out \in [Tasks -> {"none", "ok", "error", "cancelled"}]
  /\ sent \in [Tasks -> 0..MaxProgress] /\ own \in [Tasks -> Sessions \cup {0}]
  /\ table \subseteq Sessions
  /\ slot \in [Sessions -> {"unused", "new", "open", "dead", "closing", "gone"}]
  /\ queue \in [Sessions -> Seq(Tasks)]

\* A live request is registered under its id, and every registration is a live
\* request's: so a cancellation reaches the request it names, and no other, whatever
\* ids the client uses twice (spawn_request, cancel).
RegistryExact ==
  main # "down" =>
    /\ \A t \in Tasks : Live(t) => registry[req[t].id] = t
    /\ \A i \in Ids : registry[i] # 0 => Live(registry[i]) /\ req[registry[i]].id = i

\* A session is in the table only if the request that opened it is going to answer
\* with its number, or has: a cancellation that races the opening never leaves a
\* session nobody can close.
NoOrphanSession ==
  \A s \in table : \E t \in Tasks : own[t] = s /\ out[t] = "ok"

\* "Waits for an in-flight fetch on this session; concurrent holders then observe
\* None": nobody uses a session that is being closed or closed, and two fetches never
\* use one session at a time.
SessionUse ==
  LET Using(s) == {t \in Tasks : tpc[t] = "work" /\ req[t].kind = "fetch" /\ req[t].sid = s}
  IN \A s \in Sessions :
       /\ Cardinality(Using(s)) <= 1
       /\ Using(s) # {} => main = "down" \/ slot[s] \in {"open", "dead"}

=============================================================================
