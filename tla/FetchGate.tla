------------------------------ MODULE FetchGate ------------------------------
(***************************************************************************)
(* tools/fetch.rs: the process-wide gate of the fetches that the HTTP      *)
(* server and the JSON-RPC server make on the engine of their own process. *)
(*                                                                         *)
(* A fetch runs on a thread that nobody can stop.  A handler is a future   *)
(* that is dropped where it stands when its client hangs up or cancels.    *)
(***************************************************************************)
EXTENDS Naturals, FiniteSets

CONSTANTS
  Handlers,        \* requests, the first come, first served at the gate
  BatchSizes,      \* [Handlers -> Nat]: URLs of a batch_fetch, 0 for a fetch of one page
  GateSize         \* SERVO_FETCH_MAX_CONCURRENCY, 4 if it is not set

ASSUME GateAssumption == GateSize \in Nat /\ BatchSizes \in [Handlers -> Nat]

VARIABLES
  handler,   \* [pc, spawned, collected]
  fetching,  \* fetches that run: [by, n]
  holding    \* permits taken: [by, n] of the fetch, or n = 0 for a handler

gateVars == <<handler, fetching, holding>>

GateInit ==
  /\ handler = [h \in Handlers |-> [pc |-> "new", spawned |-> 0, ended |-> {}]]
  /\ fetching = {} /\ holding = {}

Fetch(h, n) == [by |-> h, n |-> n]
Running(h) == {f \in fetching : f.by = h}
Opens == Cardinality(holding) < GateSize
Batch(h) == BatchSizes[h] > 0

MovesTo(h, pc) == handler' = [handler EXCEPT ![h].pc = pc]

-----------------------------------------------------------------------------
(***************************************************************************)
(* fetch_with                                                              *)
(***************************************************************************)
StartPage(h) ==
  /\ handler[h].pc = "new" /\ ~Batch(h) /\ Opens
  /\ MovesTo(h, "awaiting")
  /\ holding' = holding \cup {Fetch(h, 0)}
  /\ fetching' = fetching \cup {Fetch(h, 1)}

AnswerPageFetch(h) ==
  /\ handler[h].pc = "awaiting" /\ Running(h) = {}
  /\ MovesTo(h, "answered")
  /\ holding' = holding \ {Fetch(h, 0)}
  /\ UNCHANGED fetching

-----------------------------------------------------------------------------
(***************************************************************************)
(* batch_fetch_pages                                                       *)
(***************************************************************************)
\* The permit moves into the task.
StartBatchPage(h) ==
  /\ handler[h].pc = "new" /\ handler[h].spawned < BatchSizes[h] /\ Opens
  /\ LET f == Fetch(h, handler[h].spawned + 1) IN
       /\ handler' = [handler EXCEPT ![h].spawned = @ + 1]
       /\ holding' = holding \cup {f}
       /\ fetching' = fetching \cup {f}

\* collect_batch_tasks, once all are spawned: a task that has panicked ends the batch ...
Collect(h) ==
  /\ handler[h].pc = "new" /\ Batch(h) /\ handler[h].spawned = BatchSizes[h]
  /\ \/ "panic" \in handler[h].ended /\ MovesTo(h, "shutdown")
     \/ "panic" \notin handler[h].ended /\ Running(h) = {} /\ MovesTo(h, "answered")
  /\ UNCHANGED <<fetching, holding>>

\* Mutant: the batch answers at once.
AnswerFailed(h) ==
  /\ handler[h].pc = "shutdown"
  /\ MovesTo(h, "answered")
  /\ UNCHANGED <<fetching, holding>>

\* ... but only with the tasks that run.
ShutDown(h) ==
  /\ handler[h].pc = "shutdown" /\ Running(h) = {}
  /\ MovesTo(h, "answered")
  /\ UNCHANGED <<fetching, holding>>

-----------------------------------------------------------------------------
\* A fetch returns or panics; its task gives its permit back.
FetchReturns(f, result) ==
  /\ f \in fetching
  /\ fetching' = fetching \ {f}
  /\ holding' = holding \ {f}
  /\ handler' = [handler EXCEPT ![f.by].ended = @ \cup {result}]

\* What the handler held is dropped with it, what runs on runs on.
DropHandler(h) ==
  /\ handler[h].pc \in {"new", "awaiting", "shutdown"}
  /\ MovesTo(h, "dropped")
  /\ holding' = holding \ {Fetch(h, 0)}
  /\ UNCHANGED fetching

GateNext ==
  \/ \E h \in Handlers :
       \/ StartPage(h) \/ AnswerPageFetch(h) \/ StartBatchPage(h) \/ Collect(h) \/ ShutDown(h)
       \/ DropHandler(h)
  \/ \E f \in fetching, result \in {"done", "panic"} : FetchReturns(f, result)

GateDone == \A h \in Handlers : handler[h].pc \in {"answered", "dropped"} /\ fetching = {}

-----------------------------------------------------------------------------
(***************************************************************************)
(* Properties                                                              *)
(***************************************************************************)
\* "Process-wide gate bounding concurrent engine fetches" (tools/fetch.rs:17), a fetch being "bounded
\* by the global fetch semaphore" (tools/fetch.rs:30): no more fetches run than the gate has permits.
FetchesBounded == Cardinality(fetching) <= GateSize

\* How far that fails: permits keep to the gate; a fetch that runs without one was started by a
\* single-page handler that has been dropped, and by no batch, whether it is dropped or answers
\* after a panic; and no answered handler has one running.
GateKept ==
  /\ Cardinality(holding) <= GateSize
  /\ \A f \in fetching :
       /\ handler[f.by].pc # "answered"
       /\ f \notin holding => /\ ~Batch(f.by)
                              /\ Fetch(f.by, 0) \in holding \/ handler[f.by].pc = "dropped"
=============================================================================
