------------------------------ MODULE NodeClient ------------------------------
(***************************************************************************)
(* The Node.js client of the JSON-RPC server (bindings/node: rpc-client.ts *)
(* and the Session class of index.ts) and the server process it spawns.    *)
(*                                                                         *)
(* The client runs on one thread: every callback is one step. A process of *)
(* the server may die at any time; the client learns of it by an event and *)
(* until then writes into a pipe nobody reads. The next call spawns a new  *)
(* process, a new generation, whose session numbers start again. Request   *)
(* numbers, which the code starts again too, are not reused here: messages *)
(* of two generations never meet, as each process has pipes of its own.    *)
(***************************************************************************)
EXTENDS RpcServer

CONSTANTS
  MaxCalls,      \* bound: calls of request and stream
  MaxPlain,      \* bound: of these, calls that are about no session
  MaxActive,     \* bound: calls in flight at a time
  MaxSpawns      \* bound: server processes

ASSUME NodeAssumption == MaxCalls \in Nat /\ MaxPlain \in Nat /\ MaxActive \in Nat /\ MaxSpawns \in Nat /\ 1..MaxCalls \subseteq Ids

VARIABLES
  gen,           \* currentGeneration
  current,       \* whether there is a client that is not closed
  child,         \* its process: "none", "running" or "dead"
  calls,         \* every call made: kind, generation, what became of it
  pending, streams, active,      \* the maps of the current client, its count of refs
  buf, fin, got, \* ProgressStream: queued values, whether closed, values consumed
  objs           \* Session objects: session number, bound generation, #closed

node == <<gen, current, child, calls, pending, streams, active, buf, fin, got, objs>>

Calls == 1..Len(calls)
Kinds == {"tool", "crawl", "open", "fetch", "close"}
Unsettled == {"pending", "waiting", "busy"}

NodeInit ==
  /\ gen = 0 /\ current = FALSE /\ child = "none" /\ calls = <<>>
  /\ pending = {} /\ streams = {} /\ active = 0
  /\ buf = [i \in 1..MaxCalls |-> 0] /\ got = [i \in 1..MaxCalls |-> 0]
  /\ fin = [i \in 1..MaxCalls |-> "no"] /\ objs = <<>>

Settle(i, how) == calls' = [calls EXCEPT ![i].state = how]
\* A written frame reaches the process if it is still there.
Written(frames) == IF child = "running" THEN stdin \o frames ELSE stdin
Cancellation(i) == Frame("cancel", i, 0)

-----------------------------------------------------------------------------
(***************************************************************************)
(* client(): the current client, or a new one with a new process.          *)
(***************************************************************************)
Generation == IF current THEN gen ELSE gen + 1
CanSpawn == current \/ gen < MaxSpawns

\* A process is gone, and with it what it knew; the next one starts like this (Fresh).
ProcessGone ==
  /\ main' = "read"
  /\ registry' = [i \in Ids |-> 0] /\ tokens' = {}
  /\ tpc' = [t \in Tasks |-> "none"] /\ req' = [t \in Tasks |-> NoFrame]
  /\ out' = [t \in Tasks |-> "none"] /\ sent' = [t \in Tasks |-> 0]
  /\ own' = [t \in Tasks |-> 0]
  /\ table' = {} /\ slot' = [s \in Sessions |-> "unused"]
  /\ queue' = [s \in Sessions |-> <<>>]

\* The pipes and, if a process is spawned, its state; `frames` is written first thing.
Connect(frames) ==
  /\ CanSpawn /\ gen' = Generation /\ current' = TRUE
  /\ IF current
     THEN stdin' = Written(frames) /\ UNCHANGED <<stdout, child>>
     ELSE stdin' = frames /\ stdout' = <<>> /\ child' = "running"
  /\ UNCHANGED <<stdinOpen, stdoutOpen, server>>

Plain(i) == calls[i].kind \in {"tool", "crawl"}
NewCall(kind, sid, state) ==
  /\ Len(calls) < MaxCalls /\ active < MaxActive
  /\ kind \in {"tool", "crawl"} => Cardinality({i \in Calls : Plain(i)}) < MaxPlain
  /\ LET i == Len(calls) + 1 IN
     /\ Connect(<<Frame(kind, i, sid)>>)
     /\ calls' = Append(calls, [kind |-> kind, gen |-> Generation, sid |-> sid, state |-> state])
     /\ active' = active + 1
     /\ IF kind = "crawl" THEN streams' = streams \cup {i} /\ UNCHANGED pending
                          ELSE pending' = pending \cup {i} /\ UNCHANGED streams
  /\ UNCHANGED <<buf, fin, got>>

\* request(...); Session.open notes the generation before it asks.
Request == \E kind \in {"tool", "open"} : NewCall(kind, 0, "pending") /\ UNCHANGED objs

\* stream(...), run up to its first wait by the first next() of the consumer.
Crawl == NewCall("crawl", 0, "waiting") /\ UNCHANGED objs

\* Mutant: Session.fetch trusts the session number whatever process it talks to.
FetchAnyGeneration(o) ==
  /\ ~objs[o].closed
  /\ NewCall("fetch", objs[o].sid, "pending")
  /\ UNCHANGED objs

\* Session.fetch: guard() throws for a closed session and for one of an earlier process,
\* having spawned a process just to compare.
SessionFetch(o) ==
  /\ ~objs[o].closed
  /\ \/ /\ Generation = objs[o].gen
        /\ NewCall("fetch", objs[o].sid, "pending")
     \/ /\ Generation # objs[o].gen /\ ~current
        /\ Connect(<<>>)
        /\ UNCHANGED <<calls, pending, streams, active, buf, fin, got>>
  /\ UNCHANGED objs

\* Session.close.
SessionClose(o) ==
  /\ ~objs[o].closed
  /\ objs' = [objs EXCEPT ![o].closed = TRUE]
  /\ \/ /\ Generation = objs[o].gen
        /\ NewCall("close", objs[o].sid, "pending")
     \/ /\ Generation # objs[o].gen /\ Connect(<<>>)
        /\ UNCHANGED <<calls, pending, streams, active, buf, fin, got>>

\* The caller's AbortSignal fires. What was queued is still handed to the consumer.
Abort(i) ==
  /\ i \in pending \cup streams /\ calls[i].kind \notin {"open", "close"}
  /\ pending' = pending \ {i} /\ streams' = streams \ {i}
  /\ active' = active - 1
  /\ stdin' = Written(<<Cancellation(i)>>)
  /\ IF i \in pending \/ calls[i].state = "waiting"
     THEN Settle(i, "aborted") /\ UNCHANGED fin
     ELSE fin' = [fin EXCEPT ![i] = "aborted"] /\ UNCHANGED calls
  /\ UNCHANGED <<stdinOpen, stdout, stdoutOpen, server, gen, current, child, buf, got, objs>>

-----------------------------------------------------------------------------
(***************************************************************************)
(* The consumer of a stream.                                               *)
(***************************************************************************)
\* Mutant: a closed stream ends although values are queued.
NextDroppingQueue(i) ==
  /\ calls[i].kind = "crawl" /\ calls[i].state = "busy"
  /\ \/ /\ buf[i] > 0 /\ fin[i] = "no"
        /\ buf' = [buf EXCEPT ![i] = @ - 1] /\ got' = [got EXCEPT ![i] = @ + 1]
        /\ UNCHANGED calls
     \/ /\ buf[i] = 0 \/ fin[i] # "no"
        /\ Settle(i, IF fin[i] = "no" THEN "waiting" ELSE fin[i])
        /\ UNCHANGED <<buf, got>>
  /\ UNCHANGED <<pipes, server, gen, current, child, pending, streams, active, fin, objs>>

\* It asks for the next value: queued ones first, then the end or the failure.
Next(i) ==
  /\ calls[i].kind = "crawl" /\ calls[i].state = "busy"
  /\ \/ /\ buf[i] > 0
        /\ buf' = [buf EXCEPT ![i] = @ - 1] /\ got' = [got EXCEPT ![i] = @ + 1]
        /\ UNCHANGED calls
     \/ /\ buf[i] = 0
        /\ Settle(i, IF fin[i] = "no" THEN "waiting" ELSE fin[i])
        /\ UNCHANGED <<buf, got>>
  /\ UNCHANGED <<pipes, server, gen, current, child, pending, streams, active, fin, objs>>

\* It stops early: the generator's finally clause cancels what still runs.
StopEarly(i) ==
  /\ calls[i].kind = "crawl" /\ calls[i].state = "busy"
  /\ Settle(i, "stopped")
  /\ IF i \in streams
     THEN /\ streams' = streams \ {i} /\ active' = active - 1
          /\ stdin' = Written(<<Cancellation(i)>>)
     ELSE UNCHANGED <<streams, active, stdin>>
  /\ buf' = [buf EXCEPT ![i] = 0] /\ fin' = [fin EXCEPT ![i] = "no"]
  /\ UNCHANGED <<stdinOpen, stdout, stdoutOpen, server, gen, current, child, pending, got, objs>>

-----------------------------------------------------------------------------
(***************************************************************************)
(* dispatch(line).                                                         *)
(***************************************************************************)
\* Mutant: an answer that comes after the abort is looked up as if still pending.
ReceiveTwice ==
  /\ current /\ stdout # <<>> /\ stdout' = Tail(stdout)
  /\ LET l == Head(stdout) IN
     /\ l.about \notin {"progress", "null"} /\ calls[l.id].kind # "crawl"
     /\ pending' = pending \ {l.id} /\ active' = active - 1
     /\ Settle(l.id, IF l.about = "ok" THEN "ok" ELSE "error")
     /\ objs' = IF l.about = "ok" /\ calls[l.id].kind = "open"
                THEN Append(objs, [sid |-> l.sid, gen |-> calls[l.id].gen, closed |-> FALSE])
                ELSE objs
  /\ UNCHANGED <<stdin, stdinOpen, stdoutOpen, server, gen, current, child, streams, buf, fin, got>>

\* A line of an unknown id, or for nobody, changes nothing.
Receive ==
  /\ current /\ stdout # <<>> /\ stdout' = Tail(stdout)
  /\ LET l == Head(stdout)  how == IF l.about = "ok" THEN "ok" ELSE "error" IN
     \/ /\ l.about = "progress" /\ l.id \in streams
        /\ IF calls[l.id].state = "waiting"
           THEN /\ Settle(l.id, "busy") /\ got' = [got EXCEPT ![l.id] = @ + 1]
                /\ UNCHANGED buf
           ELSE buf' = [buf EXCEPT ![l.id] = @ + 1] /\ UNCHANGED <<calls, got>>
        /\ UNCHANGED <<pending, streams, active, fin, objs>>
     \/ /\ l.about # "progress" /\ l.id \in streams
        /\ streams' = streams \ {l.id} /\ active' = active - 1
        /\ IF calls[l.id].state = "waiting"
           THEN Settle(l.id, how) /\ UNCHANGED fin
           ELSE fin' = [fin EXCEPT ![l.id] = how] /\ UNCHANGED calls
        /\ UNCHANGED <<pending, buf, got, objs>>
     \/ /\ l.about # "progress" /\ l.id \in pending
        /\ pending' = pending \ {l.id} /\ active' = active - 1
        /\ Settle(l.id, how)
        /\ objs' = IF how = "ok" /\ calls[l.id].kind = "open"
                   THEN Append(objs, [sid |-> l.sid, gen |-> calls[l.id].gen, closed |-> FALSE])
                   ELSE objs
        /\ UNCHANGED <<streams, buf, fin, got>>
     \/ /\ l.id \notin pending \cup streams
        /\ UNCHANGED <<calls, pending, streams, active, buf, fin, got, objs>>
  /\ UNCHANGED <<stdin, stdinOpen, stdoutOpen, server, gen, current, child>>

-----------------------------------------------------------------------------
(***************************************************************************)
(* The end of a process.                                                   *)
(***************************************************************************)
\* Mutant: only the promises are rejected when the connection is lost.
CloseForgettingStreams ==
  /\ calls' = [i \in Calls |-> IF i \in pending THEN [calls[i] EXCEPT !.state = "lost"]
                               ELSE calls[i]]
  /\ UNCHANGED fin
  /\ pending' = {} /\ streams' = {} /\ active' = 0
  /\ current' = FALSE

\* close(error): every promise is rejected and every stream closed.
Close ==
  /\ calls' = [i \in Calls |->
       IF i \in pending \/ (i \in streams /\ calls[i].state = "waiting")
       THEN [calls[i] EXCEPT !.state = "lost"] ELSE calls[i]]
  /\ fin' = [i \in 1..MaxCalls |->
       IF i \in streams /\ calls[i].state = "busy" THEN "lost" ELSE fin[i]]
  /\ pending' = {} /\ streams' = {} /\ active' = 0
  /\ current' = FALSE

\* The process dies: crash, kill from outside, out of memory. It had written only some
\* of its lines.
Die ==
  /\ child = "running" /\ child' = "dead" /\ ProcessGone
  /\ stdin' = <<>>
  /\ \E n \in 0..Len(stdout) : stdout' = SubSeq(stdout, 1, n)
  /\ UNCHANGED <<stdinOpen, stdoutOpen, gen, current, calls, pending, streams,
                 active, buf, fin, got, objs>>

\* The "exit" or "error" event of the child; what it wrote may still
\* be unread, and will find nobody waiting for it.
ExitEvent ==
  /\ child = "dead" /\ current /\ Close
  /\ child' = "none" /\ stdout' = <<>>
  /\ UNCHANGED <<stdin, stdinOpen, stdoutOpen, server, gen, buf, got, objs>>

\* shutdown(): dispose() closes the client and kills the process.
Shutdown ==
  /\ current /\ Close
  /\ child' = "none" /\ ProcessGone
  /\ stdin' = <<>> /\ stdout' = <<>>
  /\ UNCHANGED <<stdinOpen, stdoutOpen, gen, buf, got, objs>>

UserStep ==
  \/ Request \/ Crawl \/ Shutdown
  \/ \E o \in 1..Len(objs) : SessionFetch(o) \/ SessionClose(o)
  \/ \E i \in Calls : Abort(i) \/ StopEarly(i)
EventStep == Receive \/ ExitEvent \/ \E i \in Calls : Next(i)
NodeStep == UserStep \/ EventStep \/ Die

-----------------------------------------------------------------------------
NodeTypeOK ==
  /\ gen \in 0..MaxSpawns /\ current \in BOOLEAN /\ child \in {"none", "running", "dead"}
  /\ Len(calls) <= MaxCalls
  /\ \A i \in Calls :
       /\ calls[i].kind \in Kinds /\ calls[i].gen \in 1..MaxSpawns
       /\ calls[i].state \in Unsettled \cup {"ok", "error", "aborted", "stopped", "lost"}
  /\ pending \subseteq Calls /\ streams \subseteq Calls /\ active \in Nat
  /\ \A i \in 1..MaxCalls : buf[i] \in 0..MaxProgress /\ got[i] \in 0..MaxProgress
  /\ fin \in [1..MaxCalls -> {"no", "ok", "error", "aborted", "lost"}]

\* A promise not settled, or a consumer waiting, is in the maps of a client that is not
\* closed, so that an answer, an abort or the end of the process will reach it; and the
\* count that keeps the Node process alive is the number of these calls.
NothingForgotten ==
  /\ \A i \in Calls : calls[i].state \in {"pending", "waiting"} =>
       current /\ calls[i].gen = gen /\ i \in pending \cup streams
  /\ active = Cardinality(pending) + Cardinality(streams)

\* "session belongs to a previous server process": whatever a request names a session
\* by, the process that reads it opened that session for the object it is made through.
SessionBelongs ==
  current => \A k \in 1..Len(stdin) : stdin[k].kind \in OnSession =>
    \E o \in 1..Len(objs) : objs[o].gen = gen /\ objs[o].sid = stdin[k].sid

\* A crawl that ended well has handed its consumer every page the server reported.
StreamComplete ==
  \A i \in Calls, t \in Tasks :
    /\ child = "running" /\ calls[i].gen = gen
    /\ calls[i].kind = "crawl" /\ calls[i].state = "ok"
    /\ tpc[t] # "none" /\ req[t].id = i /\ req[t].kind = "crawl"
    => got[i] = sent[t]
=============================================================================
