------------------------------ MODULE McpSessions ------------------------------
(***************************************************************************)
(* mcp/executor.rs: the sessions of one tool call, each used once, with    *)
(* every step raced against the client's cancellation.                     *)
(*                                                                         *)
(* A job is a session from acquisition to close.  Its future is the call   *)
(* into the session that is awaited; what becomes of the worker meanwhile  *)
(* is what SessionBroker and Supervisor promise when kills work: a         *)
(* terminal error and a close are answered when the worker is gone, a      *)
(* handle that is dropped or a signalled cancellation makes it end.        *)
(***************************************************************************)
EXTENDS Naturals, Sequences, FiniteSets

CONSTANTS Jobs, SessionCapacity

VARIABLES
  token,      \* the client's CancellationToken
  job,        \* the sessions of the call
  outcomes    \* what they brought, in order of completion

jobVars == <<token, job, outcomes>>

NoJob == [pc |-> "none", late |-> FALSE, future |-> "none", worker |-> "none",
          handle |-> FALSE, handed |-> FALSE, result |-> "none"]

JobsInit ==
  /\ token = FALSE
  /\ job = [j \in Jobs |-> NoJob]
  /\ outcomes = <<>>

Errors == {"operation", "input", "internal"}
Steps == {"acquire", "operate", "close"}
Active == {j \in Jobs : job[j].pc \in Steps \cup {"force"}}

ClientCancels ==
  /\ ~token
  /\ token' = TRUE
  /\ UNCHANGED <<job, outcomes>>

JobDone(j, outcome) ==
  /\ job' = [job EXCEPT ![j].pc = "done", ![j].future = "none", ![j].handle = FALSE]
  /\ outcomes' = Append(outcomes, outcome)
  /\ UNCHANGED token

JobMoves(j, new) ==
  /\ job' = [job EXCEPT ![j] = new]
  /\ UNCHANGED <<token, outcomes>>

\* buffer_unordered, and the first test of in_session.
StartJob(j) ==
  /\ job[j].pc = "queued" /\ Cardinality(Active) < SessionCapacity
  /\ IF token THEN JobDone(j, "cancelled")
     ELSE JobMoves(j, [job[j] EXCEPT !.pc = "acquire", !.future = "pending"])

-----------------------------------------------------------------------------
(***************************************************************************)
(* The session under the futures.                                          *)
(***************************************************************************)
Awaits(j, step) == job[j].pc = step /\ job[j].future = "pending"

WorkerStarts(j) ==
  /\ Awaits(j, "acquire") /\ job[j].worker = "none" /\ ~job[j].late
  /\ JobMoves(j, [job[j] EXCEPT !.worker = "alive"])

\* A session, also one whose worker has been signalled since.
Acquires(j) ==
  /\ Awaits(j, "acquire") /\ job[j].worker \in {"alive", "ending"}
  /\ JobMoves(j, [job[j] EXCEPT !.future = "ok", !.handle = TRUE, !.handed = TRUE])

\* No session, and what was started for it ends.
AcquireFails(j, failure) ==
  /\ Awaits(j, "acquire")
  /\ JobMoves(j, [job[j] EXCEPT !.future = failure, !.worker = IF @ = "alive" THEN "ending" ELSE @])

Operates(j, result) ==
  /\ Awaits(j, "operate")
  /\ JobMoves(j, [job[j] EXCEPT !.future = result])

\* A terminal error takes the handle with it.
OperateFails(j) ==
  /\ Awaits(j, "operate")
  /\ JobMoves(j, [job[j] EXCEPT !.future = "internal", !.worker = "gone", !.handle = FALSE])

\* Closing a session given up before does nothing.
Closes(j, result) ==
  /\ Awaits(j, "close")
  /\ IF job[j].handle
       THEN JobMoves(j, [job[j] EXCEPT !.future = result, !.worker = "gone", !.handle = FALSE])
       ELSE JobMoves(j, [job[j] EXCEPT !.future = "ok"])

WorkerEnds(j) ==
  /\ job[j].worker = "ending"
  /\ JobMoves(j, [job[j] EXCEPT !.worker = "gone"])

-----------------------------------------------------------------------------
(***************************************************************************)
(* in_session: each future is raced against the token, the token first;    *)
(* once it is cancelled the session is signalled and the future awaited.   *)
(***************************************************************************)
RaceLost(j) ==
  /\ job[j].pc \in Steps /\ token /\ ~job[j].late
  /\ JobMoves(j, [job[j] EXCEPT !.late = TRUE, !.worker = IF @ = "alive" THEN "ending" ELSE @])

Returned(j, step) == job[j].pc = step /\ job[j].future # "pending"
InTime(j, step) == Returned(j, step) /\ ~job[j].late /\ ~token
TooLate(j, step) == Returned(j, step) /\ job[j].late

Acquired(j) ==
  /\ InTime(j, "acquire")
  /\ IF job[j].future = "ok"
       THEN JobMoves(j, [job[j] EXCEPT !.pc = "operate", !.future = "pending"])
       ELSE JobDone(j, job[j].future)

Operated(j) ==
  /\ InTime(j, "operate")
  /\ JobMoves(j, [job[j] EXCEPT !.pc = "close", !.future = "pending", !.result = job[j].future])

\* A failure to clean up is reported only where there is no other.
Closed(j) ==
  /\ InTime(j, "close")
  /\ JobDone(j, IF job[j].result = "ok" THEN job[j].future ELSE job[j].result)

\* Mutant: the session that came too late is dropped.
DropLateSession(j) ==
  /\ TooLate(j, "acquire")
  /\ JobDone(j, "cancelled")

AcquiredTooLate(j) ==
  /\ TooLate(j, "acquire")
  /\ IF job[j].future = "ok" THEN JobMoves(j, [job[j] EXCEPT !.pc = "force"])
     ELSE JobDone(j, "cancelled")

OperatedTooLate(j) ==
  /\ TooLate(j, "operate")
  /\ JobMoves(j, [job[j] EXCEPT !.pc = "force"])

ClosedTooLate(j) ==
  /\ TooLate(j, "close")
  /\ JobDone(j, "cancelled")

\* force_close waits for the supervisor, if the session has not been given up before.
ForceClose(j) ==
  /\ job[j].pc = "force"
  /\ job[j].handle => job[j].worker = "gone"
  /\ JobDone(j, "cancelled")

JobStep(j) ==
  \/ StartJob(j) \/ WorkerStarts(j) \/ Acquires(j)
  \/ \E failure \in {"operation", "internal"} : AcquireFails(j, failure)
  \/ \E result \in {"ok", "operation", "input"} : Operates(j, result)
  \/ OperateFails(j)
  \/ \E result \in {"ok", "internal"} : Closes(j, result)
  \/ WorkerEnds(j)
  \/ RaceLost(j) \/ Acquired(j) \/ Operated(j) \/ Closed(j)
  \/ AcquiredTooLate(j) \/ OperatedTooLate(j) \/ ClosedTooLate(j) \/ ForceClose(j)

-----------------------------------------------------------------------------
(***************************************************************************)
(* Properties                                                              *)
(***************************************************************************)
\* However the client's cancellation meets its acquisition, operation or close: when a job is done
\* the session it was given is gone, its place with the broker free again, and no worker it
\* started lives on unasked.
NoWorkerLeft ==
  \A j \in Jobs : job[j].pc = "done" =>
    job[j].worker # "alive" /\ (job[j].handed => job[j].worker = "gone")
=============================================================================
