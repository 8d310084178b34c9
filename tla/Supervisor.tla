----------------------------- MODULE Supervisor -----------------------------
(***************************************************************************)
(* One supervised browser session (session/supervisor.rs, kill.rs,         *)
(* process_tree.rs and the BrowserSession half of session.rs):             *)
(*                                                                         *)
(*   - the supervisor thread, from WorkerProcess::spawn through the        *)
(*     command loop to cleanup and the drop of everything it owns;         *)
(*   - the stdout reader thread and the one-slot frame channel;            *)
(*   - the worker process, which may answer, answer nonsense, hang or die; *)
(*   - the caller that owns the session handle: initialise, operate, drop  *)
(*     an operation half-way, close, force-close, drop the handle;         *)
(*   - cancellers: other threads that hold a clone of the ForcePort.       *)
(*                                                                         *)
(* Every channel operation, lock and system call is a step of its own.     *)
(***************************************************************************)
EXTENDS Naturals, Sequences

CONSTANTS
  Cancellers,       \* threads holding a clone of the ForcePort
  Caller,           \* the thread that owns the BrowserSession
  NoThread,         \* "the authority's mutex is free"
  MaxOps,           \* bound: commands the caller sends over the session's life
  PipeCap,          \* bound: frames the worker's stdout pipe holds
  MaxKillFaults,    \* bound: times the process-group kill fails
  MaxRemoveFaults   \* bound: times deleting the storage fails three in a row

ASSUME SupervisorAssumption ==
  /\ Caller \notin Cancellers
  /\ NoThread \notin Cancellers \cup {Caller}
  /\ MaxOps \in Nat \ {0}
  /\ PipeCap \in Nat \ {0}
  /\ MaxKillFaults \in Nat
  /\ MaxRemoveFaults \in Nat

Forcers == Cancellers \cup {Caller}

Ops        == 1..MaxOps
Recoverable == {"recoverable"}
Terminal   == {"cancelled", "timeout", "unavailable"}
Results    == {"ok"} \cup Recoverable \cup Terminal
Frames     == {"done", "error", "event", "bad", "eof"}
OpKinds    == {"hello", "init", "fetch", "crawl", "shutdown", "none"}

\* The supervisor thread's program counter, in the order of the code.
Launching  == {"precheck", "own", "launch", "attach", "recheck"}
Serving    == {"loop", "select", "write", "await", "frame", "emit", "send", "exitPoll"}
CleaningUp == {"revoke", "kill", "reap", "dropFrames", "join", "release"}
Leaving    == {"answer", "unwind", "dropOwner", "return", "done"}

VARIABLES
  \* supervisor thread
  spc, op, result, built, pass,
  \* channels into and out of the supervisor
  lifecycle, commands, replies, boot, terminal,
  \* kill authority: the target and the thread inside its mutex
  authority, holder,
  \* worker process and what the parent holds of it
  child, owes, lifeline,
  \* stdout pipe, reader thread, frame channel, crawl event channel
  pipe, reader, held, slot, framesOpen, events, sinks,
  \* what SupervisorOwner owns
  storage, permit,
  \* the caller, and the threads inside ForcePort::force
  cpc, doing, armed, issued, fpc, forceClosed,
  \* faults so far
  killFaults, removeFaults

svars == <<spc, op, result, built, pass>>
chans == <<lifecycle, commands, replies, boot, terminal>>
auth  == <<authority, holder>>
wvars == <<child, owes, lifeline>>
rvars == <<pipe, reader, held, slot, framesOpen, events, sinks>>
owner == <<storage, permit>>
cvars == <<cpc, doing, armed, issued, fpc, forceClosed>>
fault == <<killFaults, removeFaults>>
vars  == <<svars, chans, auth, wvars, rvars, owner, cvars, fault>>

\* An operation in the supervisor's hands: its number, its kind, and whether
\* a fetch has already received part of its answer.
Op(n, k) == [n |-> n, kind |-> k, partial |-> FALSE]
Hello    == Op(0, "hello")   \* waiting for WorkerProtocolInfo
NoOp     == Op(0, "none")    \* a cleanup no command asked for

FlagsTypeOK ==
  /\ built \in BOOLEAN /\ owes \in BOOLEAN /\ lifeline \in BOOLEAN /\ framesOpen \in BOOLEAN
  /\ events \in BOOLEAN /\ storage \in BOOLEAN /\ armed \in BOOLEAN /\ forceClosed \in BOOLEAN

DataTypeOK ==
  /\ spc \in Launching \cup Serving \cup CleaningUp \cup Leaving
  /\ op \in [n : 0..MaxOps, kind : OpKinds, partial : BOOLEAN]
  /\ result \in Results /\ pass \in {1, 2}
  /\ lifecycle \in 0..1
  /\ commands \in Seq([n : Ops, kind : OpKinds, partial : {FALSE}]) /\ Len(commands) <= 1
  /\ replies \in [Ops -> Results \cup {"none", "closed"}]
  /\ boot \in {"none", "ok", "err"} /\ terminal \in {"none", "ok", "err"}
  /\ authority \in {"empty", "granted", "revoked"}
  /\ holder \in Forcers \cup {NoThread}
  /\ child \in {"none", "running", "exited", "reaped"}
  /\ pipe \in Seq(Frames) /\ Len(pipe) <= PipeCap
  /\ reader \in {"none", "reading", "sending", "done"}
  /\ held \in Frames /\ slot \in Frames \cup {"empty"} /\ sinks \subseteq Ops
  /\ permit \in {"held", "released", "retained"}
  /\ cpc \in {"spawn", "start", "ready", "wait", "forceWait", "closed", "gone"}
  /\ doing \in OpKinds /\ issued \in 0..MaxOps
  /\ fpc \in [Forcers -> {"idle", "signal", "lock", "kill", "spent"}]
  /\ killFaults \in 0..MaxKillFaults /\ removeFaults \in 0..MaxRemoveFaults

TypeOK == FlagsTypeOK /\ DataTypeOK

\* SupervisorHandle::spawn has created the channels and started the thread.
Init ==
  /\ spc = "precheck" /\ op = Hello /\ result = "ok" /\ built = FALSE /\ pass = 1
  /\ lifecycle = 0 /\ commands = <<>> /\ replies = [n \in Ops |-> "none"]
  /\ boot = "none" /\ terminal = "none"
  /\ authority = "empty" /\ holder = NoThread
  /\ child = "none" /\ owes = FALSE /\ lifeline = FALSE
  /\ pipe = <<>> /\ reader = "none" /\ held = "bad" /\ slot = "empty"
  /\ framesOpen = FALSE /\ events = FALSE /\ sinks = {}
  /\ storage = FALSE /\ permit = "held"
  /\ cpc = "spawn" /\ doing = "none" /\ armed = FALSE /\ issued = 0
  /\ fpc = [f \in Forcers |-> "idle"] /\ forceClosed = FALSE
  /\ killFaults = 0 /\ removeFaults = 0

\* The command sender lives until the handle's Drop has run its force.
HandleOpen == cpc \notin {"closed", "gone"} \/ fpc[Caller] # "idle"

-----------------------------------------------------------------------------
(***************************************************************************)
(* ForcePort::force, run by the caller or by any canceller: coalescing     *)
(* try_send, then the kill inside the authority's mutex.                   *)
(***************************************************************************)
BeginForce(f) == fpc' = [fpc EXCEPT ![f] = "signal"]

\* Mutant: force only kills and tells the supervisor nothing.
ForceSignalOmitted(f) ==
  /\ fpc[f] = "signal"
  /\ fpc' = [fpc EXCEPT ![f] = "lock"]
  /\ UNCHANGED <<svars, chans, auth, wvars, rvars, owner,
                 cpc, doing, armed, issued, forceClosed, fault>>

ForceSignal(f) ==
  /\ fpc[f] = "signal"
  /\ lifecycle' = IF spc = "done" THEN lifecycle ELSE 1
  /\ fpc' = [fpc EXCEPT ![f] = "lock"]
  /\ UNCHANGED <<svars, commands, replies, boot, terminal, auth, wvars, rvars, owner,
                 cpc, doing, armed, issued, forceClosed, fault>>

AfterForce(f) == [fpc EXCEPT ![f] = IF f = Caller THEN "idle" ELSE "spent"]

\* KillAuthority::terminate_now looks at the target with the mutex held and
\* makes the system call before it lets go; without a target nothing is killed.
ForceLock(f) ==
  /\ fpc[f] = "lock" /\ holder = NoThread
  /\ \/ /\ authority = "granted"
        /\ holder' = f
        /\ fpc' = [fpc EXCEPT ![f] = "kill"]
     \/ /\ authority # "granted"
        /\ fpc' = AfterForce(f)
        /\ UNCHANGED holder
  /\ UNCHANGED <<svars, chans, authority, wvars, rvars, owner,
                 cpc, doing, armed, issued, forceClosed, fault>>

\* The kill reaches the whole process group; a failed kill is only logged.
ForceKill(f) ==
  /\ fpc[f] = "kill"
  /\ \/ /\ child' = IF child = "running" THEN "exited" ELSE child
        /\ owes' = FALSE
        /\ UNCHANGED killFaults
     \/ /\ killFaults < MaxKillFaults
        /\ killFaults' = killFaults + 1
        /\ UNCHANGED <<child, owes>>
  /\ holder' = NoThread
  /\ fpc' = AfterForce(f)
  /\ UNCHANGED <<svars, chans, authority, lifeline, rvars, owner,
                 cpc, doing, armed, issued, forceClosed, removeFaults>>

\* SessionCancellation::cancel from another thread, at any moment.
Cancel(f) ==
  /\ f \in Cancellers /\ fpc[f] = "idle"
  /\ BeginForce(f)
  /\ UNCHANGED <<svars, chans, auth, wvars, rvars, owner,
                 cpc, doing, armed, issued, forceClosed, fault>>

-----------------------------------------------------------------------------
(***************************************************************************)
(* Cleanup, entered from every failing path.                               *)
(***************************************************************************)

\* WorkerProcess::cleanup: stdin and the parent lifeline close first; a worker
\* already reaped needs no termination.
BeginCleanup(r) ==
  /\ result' = r
  /\ lifeline' = FALSE
  /\ spc' = IF child = "reaped" THEN "dropFrames" ELSE "revoke"

\* Mutant: revocation does not wait for a kill in flight.
RevokeUnlocked ==
  /\ spc = "revoke"
  /\ authority' = IF authority = "granted" THEN "revoked" ELSE authority
  /\ spc' = "kill"
  /\ UNCHANGED <<op, result, built, pass, chans, holder, wvars, rvars, owner, cvars, fault>>

\* Taking the authority serialises with a kill in flight.
Revoke ==
  /\ spc = "revoke" /\ holder = NoThread
  /\ authority' = IF authority = "granted" THEN "revoked" ELSE authority
  /\ spc' = "kill"
  /\ UNCHANGED <<op, result, built, pass, chans, holder, wvars, rvars, owner, cvars, fault>>

Kill ==
  /\ spc = "kill"
  /\ child' = IF child = "running" THEN "exited" ELSE child
  /\ owes' = FALSE
  /\ spc' = "reap"
  /\ UNCHANGED <<op, result, built, pass, chans, auth, lifeline, rvars, owner,
                 cvars, fault>>

\* Mutant: a cleanup that cannot kill leaves the lifeline open.
KillFailsLifelineOpen ==
  /\ spc = "kill" /\ killFaults < MaxKillFaults
  /\ killFaults' = killFaults + 1
  /\ result' = IF pass = 1 THEN "unavailable" ELSE result
  /\ spc' = IF ~built \/ pass = 2 THEN "dropOwner"
            ELSE IF op.kind = "shutdown" /\ result = "ok" THEN "revoke" ELSE "answer"
  /\ UNCHANGED <<op, built, pass, chans, auth, wvars, rvars, owner, cvars, removeFaults>>

\* The kill fails: a graceful shutdown falls back to a forced cleanup; a forced
\* cleanup gives up and reports, leaving the retry to Drop; Drop gives up for
\* good; a spawn that failed gives up at once.
KillFails ==
  /\ spc = "kill" /\ killFaults < MaxKillFaults
  /\ killFaults' = killFaults + 1
  /\ result' = IF pass = 1 THEN "unavailable" ELSE result
  /\ spc' = IF ~built \/ pass = 2 THEN "dropOwner"
            ELSE IF op.kind = "shutdown" /\ result = "ok" THEN "revoke" ELSE "answer"
  /\ lifeline' = FALSE
  /\ UNCHANGED <<op, built, pass, chans, auth, child, owes, rvars, owner, cvars, removeFaults>>

\* wait() on the dead child. After a graceful shutdown the exit status counts.
Reap ==
  /\ spc = "reap" /\ child = "exited"
  /\ child' = "reaped"
  /\ lifeline' = FALSE
  /\ result' \in IF op.kind = "shutdown" /\ result = "ok" THEN {"ok", "unavailable"} ELSE {result}
  /\ spc' = IF built THEN "dropFrames" ELSE "dropOwner"
  /\ UNCHANGED <<op, built, pass, chans, auth, owes, rvars, owner, cvars, fault>>

\* Mutant: the reader is joined while the frame receiver is still alive.
DropFramesLate ==
  /\ spc = "dropFrames"
  /\ spc' = "join"
  /\ UNCHANGED <<op, result, built, pass, chans, auth, wvars, rvars, owner, cvars, fault>>

\* The frame receiver goes before the reader is joined, so that a reader
\* blocked on the full channel can leave.
DropFrames ==
  /\ spc = "dropFrames"
  /\ framesOpen' = FALSE /\ slot' = "empty"
  /\ spc' = "join"
  /\ UNCHANGED <<op, result, built, pass, chans, auth, wvars, pipe, reader, held,
                 events, sinks, owner, cvars, fault>>

Join ==
  /\ spc = "join" /\ reader \in {"done", "none"}
  /\ reader' = "none"
  /\ spc' = "release"
  /\ UNCHANGED <<op, result, built, pass, chans, auth, wvars, pipe, held, slot,
                 framesOpen, events, sinks, owner, cvars, fault>>

\* SupervisorOwner::release deletes the directory and only then drops the
\* permit; when the directory stays, both stay.
GiveBack == storage' = FALSE /\ permit' = "released"

AfterCleanup == IF pass = 1 THEN "answer" ELSE "dropOwner"

Release ==
  /\ spc = "release"
  /\ GiveBack
  /\ spc' = AfterCleanup
  /\ UNCHANGED <<op, result, built, pass, chans, auth, wvars, rvars, cvars, fault>>

\* Mutant: the permit is dropped although the storage is still there.
ReleaseFailsLetsGo ==
  /\ spc = "release" /\ storage /\ removeFaults < MaxRemoveFaults
  /\ removeFaults' = removeFaults + 1
  /\ permit' = "released"
  /\ spc' = AfterCleanup
  /\ UNCHANGED <<op, result, built, pass, chans, auth, wvars, rvars, storage, cvars,
                 killFaults>>

ReleaseFails ==
  /\ spc = "release" /\ storage /\ removeFaults < MaxRemoveFaults
  /\ removeFaults' = removeFaults + 1
  /\ result' = IF pass = 1 THEN "unavailable" ELSE result
  /\ spc' = AfterCleanup
  /\ UNCHANGED <<op, built, pass, chans, auth, wvars, rvars, owner, cvars, killFaults>>

\* The result reaches whoever waits for it: the bootstrap receiver or the
\* reply channel of the command. A cleanup no command asked for is answered by
\* the thread's return value.
Answer ==
  /\ spc = "answer"
  /\ boot' = IF op.kind = "hello" THEN "err" ELSE boot
  /\ replies' = IF op.n \in Ops THEN [replies EXCEPT ![op.n] = result] ELSE replies
  /\ spc' = IF built THEN "unwind" ELSE "return"
  /\ UNCHANGED <<op, result, built, pass, lifecycle, commands, terminal, auth, wvars,
                 rvars, owner, cvars, fault>>

\* Drop of WorkerProcess: a second, best-effort cleanup that redoes what the
\* first could not; its outcome is only logged.
Unwind ==
  /\ spc = "unwind"
  /\ pass' = 2
  /\ spc' = IF child = "reaped" THEN "dropFrames" ELSE "revoke"
  /\ UNCHANGED <<op, result, built, chans, auth, wvars, rvars, owner, cvars, fault>>

\* Drop of SupervisorOwner: the last attempt to delete the storage.
DropOwner ==
  /\ spc = "dropOwner"
  /\ \/ /\ GiveBack
        /\ UNCHANGED removeFaults
     \/ /\ storage /\ removeFaults < MaxRemoveFaults
        /\ removeFaults' = removeFaults + 1
        /\ permit' = "retained"
        /\ UNCHANGED storage
  /\ framesOpen' = FALSE /\ slot' = "empty"
  /\ spc' = IF built THEN "return" ELSE "answer"
  /\ UNCHANGED <<op, result, built, pass, chans, auth, wvars, pipe, reader, held, events,
                 sinks, cvars, killFaults>>

\* Mutant: the command receiver outlives the thread with a command in it.
ReturnKeepsQueue ==
  /\ spc = "return"
  /\ spc' = "done"
  /\ terminal' = IF op.kind = "none" /\ result # "ok" THEN "err" ELSE "ok"
  /\ UNCHANGED <<op, result, built, pass, lifecycle, commands, replies, boot, auth, wvars,
                 rvars, owner, cvars, fault>>

\* supervisor_thread returns: the command receiver goes with whatever is still
\* queued, then the terminal result is sent.
Return ==
  /\ spc = "return"
  /\ spc' = "done"
  /\ terminal' = IF op.kind = "none" /\ result # "ok" THEN "err" ELSE "ok"
  /\ commands' = <<>>
  /\ replies' = [n \in Ops |-> IF \E i \in DOMAIN commands : commands[i].n = n
                               THEN "closed" ELSE replies[n]]
  /\ UNCHANGED <<op, result, built, pass, lifecycle, boot, auth, wvars, rvars, owner,
                 cvars, fault>>

-----------------------------------------------------------------------------
(***************************************************************************)
(* WorkerProcess::spawn.                                                   *)
(***************************************************************************)

\* Before the storage exists the permit is a plain argument: any failure, or a
\* Force already queued, drops it.
GiveUpEarly(r) ==
  /\ result' = r
  /\ permit' = "released"
  /\ spc' = "answer"

Precheck ==
  /\ spc = "precheck"
  /\ \/ /\ lifecycle = 1
        /\ lifecycle' = 0
        /\ GiveUpEarly("cancelled")
     \/ /\ lifecycle = 0
        /\ spc' = "own"
        /\ UNCHANGED <<lifecycle, result, permit>>
  /\ UNCHANGED <<op, built, pass, commands, replies, boot, terminal, auth, wvars, rvars,
                 storage, cvars, fault>>

Own ==
  /\ spc = "own"
  /\ \/ /\ storage' = TRUE
        /\ spc' = "launch"
        /\ UNCHANGED <<result, permit>>
     \/ /\ GiveUpEarly("unavailable")
        /\ UNCHANGED storage
  /\ UNCHANGED <<op, built, pass, chans, auth, wvars, rvars, cvars, fault>>

Launch ==
  /\ spc = "launch"
  /\ \/ /\ child' = "running" /\ owes' = TRUE /\ lifeline' = TRUE
        /\ spc' = "attach"
        /\ UNCHANGED result
     \/ /\ result' = "unavailable"
        /\ spc' = "dropOwner"
        /\ UNCHANGED wvars
  /\ UNCHANGED <<op, built, pass, chans, auth, rvars, owner, cvars, fault>>

\* ProcessTree::attach, then the grant that lets cancellers kill.
Attach ==
  /\ spc = "attach"
  /\ \/ /\ holder = NoThread
        /\ authority' = "granted"
        /\ spc' = "recheck"
        /\ UNCHANGED result
     \/ /\ result' = "unavailable"
        /\ spc' = "kill"
        /\ UNCHANGED authority
  /\ UNCHANGED <<op, built, pass, chans, holder, wvars, rvars, owner, cvars, fault>>

\* The second look at the lifecycle channel, for a Force that came too early to
\* kill anything; then the pipes and the reader thread.
Recheck ==
  /\ spc = "recheck"
  /\ \/ /\ lifecycle = 1
        /\ lifecycle' = 0
        /\ result' = "cancelled" /\ spc' = "revoke"
        /\ UNCHANGED <<built, reader, framesOpen>>
     \/ /\ lifecycle = 0
        /\ result' = "unavailable" /\ spc' = "revoke"
        /\ UNCHANGED <<lifecycle, built, reader, framesOpen>>
     \/ /\ lifecycle = 0
        /\ built' = TRUE /\ reader' = "reading" /\ framesOpen' = TRUE
        /\ spc' = "await"
        /\ UNCHANGED <<lifecycle, result>>
  /\ UNCHANGED <<op, pass, commands, replies, boot, terminal, auth, wvars, pipe, held, slot,
                 events, sinks, owner, cvars, fault>>

-----------------------------------------------------------------------------
(***************************************************************************)
(* The supervisor thread serving: the hello, then the command loop.        *)
(***************************************************************************)

\* select_biased! tries the lifecycle channel first and only then waits for
\* whichever branch is ready: a Force arriving between the two may lose once.
Poll ==
  /\ spc \in {"loop", "await", "emit"} /\ lifecycle = 0
  /\ spc' = CASE spc = "loop" -> "select" [] spc = "await" -> "frame" [] spc = "emit" -> "send"
  /\ UNCHANGED <<op, result, built, pass, chans, auth, wvars, rvars, owner, cvars, fault>>

TakeForce ==
  /\ spc \in {"loop", "select", "await", "frame", "emit", "send"} /\ lifecycle = 1
  /\ lifecycle' = 0
  /\ \/ /\ spc \in {"loop", "select"}
        /\ op' = NoOp
        /\ BeginCleanup("ok")
     \/ /\ spc \notin {"loop", "select"}
        /\ BeginCleanup("cancelled")
        /\ UNCHANGED op
  /\ UNCHANGED <<built, pass, commands, replies, boot, terminal, auth, child, owes, rvars,
                 owner, cvars, fault>>

TakeCommand ==
  /\ spc = "select" /\ commands # <<>>
  /\ op' = Head(commands) /\ commands' = <<>>
  /\ result' = "ok" /\ events' = FALSE
  /\ spc' = "write"
  /\ UNCHANGED <<built, pass, lifecycle, replies, boot, terminal, auth, wvars, pipe, reader,
                 held, slot, framesOpen, sinks, owner, cvars, fault>>

\* Every sender of the command channel is gone.
Disconnected ==
  /\ spc = "select" /\ commands = <<>> /\ ~HandleOpen
  /\ op' = NoOp
  /\ BeginCleanup("ok")
  /\ UNCHANGED <<built, pass, chans, auth, child, owes, rvars, owner, cvars, fault>>

\* Mutant: a terminal error is answered before the cleanup it starts.
FailAnswersFirst(r) ==
  /\ replies' = IF op.n \in Ops THEN [replies EXCEPT ![op.n] = r] ELSE replies
  /\ BeginCleanup(r)

\* An operation fails with r. A terminal error, and any error of the hello, of
\* initialisation or of shutdown, cleans up before it is answered; a
\* recoverable one is answered at once and the worker stays in service.
Fail(r) ==
  \/ /\ r \in Terminal \/ op.kind \in {"hello", "init", "shutdown"}
     /\ BeginCleanup(r)
     /\ UNCHANGED replies
  \/ /\ r \notin Terminal /\ op.kind \in {"fetch", "crawl"}
     /\ replies' = [replies EXCEPT ![op.n] = r]
     /\ spc' = "loop"
     /\ UNCHANGED <<result, lifeline>>

Write ==
  /\ spc = "write" /\ child = "running"
  /\ owes' = TRUE
  /\ spc' = "await"
  /\ UNCHANGED <<op, result, built, pass, chans, auth, child, lifeline, rvars, owner,
                 cvars, fault>>

\* The pipe is broken, or the request exceeds the frame limit.
WriteFails ==
  /\ spc = "write"
  /\ Fail("unavailable")
  /\ UNCHANGED <<op, built, pass, lifecycle, commands, boot, terminal, auth, child, owes,
                 rvars, owner, cvars, fault>>

\* The watchdog of recv_frame: idle or absolute.
Timeout ==
  /\ spc \in {"await", "frame"}
  /\ Fail("timeout")
  /\ UNCHANGED <<op, built, pass, lifecycle, commands, boot, terminal, auth, child, owes,
                 rvars, owner, cvars, fault>>

\* A frame that ends the operation as the protocol foresees.
Completes(f) == f = "done" /\ (op.kind = "fetch" => op.partial)

\* A typed error the session survives: before any part of a fetch arrived, or
\* at any point of a crawl; during initialisation and shutdown it is fatal.
Refuses(f) == f = "error" /\ op.kind # "hello" /\ ~op.partial

FrameCompletes ==
  /\ spc = "frame" /\ Completes(slot)
  /\ slot' = "empty"
  /\ boot' = IF op.kind = "hello" THEN "ok" ELSE boot
  /\ replies' = IF op.kind \in {"init", "fetch", "crawl"}
                THEN [replies EXCEPT ![op.n] = "ok"] ELSE replies
  /\ spc' = IF op.kind = "shutdown" THEN "exitPoll" ELSE "loop"
  /\ UNCHANGED <<op, result, built, pass, lifecycle, commands, terminal, auth, wvars, pipe,
                 reader, held, framesOpen, events, sinks, owner, cvars, fault>>

FrameContinues ==
  /\ spc = "frame" /\ slot = "event" /\ op.kind \in {"fetch", "crawl"}
  /\ slot' = "empty"
  /\ op' = [op EXCEPT !.partial = (op.kind = "fetch")]
  /\ \/ spc' = "await"                       \* a page part, or crawl progress
     \/ op.kind = "crawl" /\ spc' = "emit"
  /\ UNCHANGED <<result, built, pass, chans, auth, wvars, pipe, reader, held, framesOpen,
                 events, sinks, owner, cvars, fault>>

FrameFails ==
  /\ spc = "frame" /\ slot # "empty" /\ ~Completes(slot)
  /\ ~(slot = "event" /\ op.kind \in {"fetch", "crawl"})
  /\ slot' = "empty"
  /\ Fail(IF Refuses(slot) THEN "recoverable" ELSE "unavailable")
  /\ UNCHANGED <<op, built, pass, lifecycle, commands, boot, terminal, auth, child, owes,
                 pipe, reader, held, framesOpen, events, sinks, owner, cvars, fault>>

\* A crawl result goes to the caller's one-slot channel.
SendEvent ==
  /\ spc = "send"
  /\ \/ /\ op.n \in sinks /\ ~events
        /\ events' = TRUE
        /\ spc' = "await"
        /\ UNCHANGED <<result, replies, lifeline>>
     \/ /\ op.n \notin sinks
        /\ Fail("unavailable")
        /\ UNCHANGED events
  /\ UNCHANGED <<op, built, pass, lifecycle, commands, boot, terminal, auth, child, owes, pipe,
                 reader, held, slot, framesOpen, sinks, owner, cvars, fault>>

\* Mutant: a worker seen to exit after the acknowledgement is not reaped.
ExitObservedNotReaped ==
  /\ spc = "exitPoll"
  /\ \/ /\ child = "exited"
        /\ spc' = "dropFrames"
        /\ UNCHANGED <<result, lifeline>>
     \/ BeginCleanup("unavailable")
  /\ UNCHANGED <<op, built, pass, chans, auth, child, owes, rvars, owner, cvars, fault>>

\* After the shutdown acknowledgement the exit is observed without reaping, so
\* that the process group can still be swept; or it does not come in time.
ExitObserved ==
  /\ spc = "exitPoll"
  /\ \/ /\ child = "exited"
        /\ spc' = "revoke"
        /\ UNCHANGED <<result, lifeline>>
     \/ BeginCleanup("unavailable")
  /\ UNCHANGED <<op, built, pass, chans, auth, child, owes, rvars, owner, cvars, fault>>

-----------------------------------------------------------------------------
(***************************************************************************)
(* The worker process and the reader thread.                               *)
(***************************************************************************)
WorkerWrites(f) ==
  /\ child = "running" /\ Len(pipe) < PipeCap
  /\ f \in {"done", "error", "event", "bad"}
  /\ f # "bad" => owes
  /\ pipe' = Append(pipe, f)
  /\ owes' = (owes /\ f \in {"event", "bad"})
  /\ UNCHANGED <<svars, chans, auth, child, lifeline, reader, held, slot, framesOpen, events,
                 sinks, owner, cvars, fault>>

\* The worker exits or crashes; it may also simply hang.
WorkerExits ==
  /\ child = "running"
  /\ child' = "exited" /\ owes' = FALSE
  /\ UNCHANGED <<svars, chans, auth, lifeline, rvars, owner, cvars, fault>>

ReaderReads ==
  /\ reader = "reading"
  /\ \/ /\ pipe # <<>>
        /\ held' = Head(pipe) /\ pipe' = Tail(pipe)
     \/ /\ pipe = <<>> /\ child \in {"exited", "reaped"}
        /\ held' = "eof"
        /\ UNCHANGED pipe
  /\ reader' = "sending"
  /\ UNCHANGED <<svars, chans, auth, wvars, slot, framesOpen, events, sinks, owner, cvars,
                 fault>>

\* The send blocks while the slot is full and fails once the receiver is gone.
ReaderSends ==
  /\ reader = "sending"
  /\ \/ /\ framesOpen /\ slot = "empty"
        /\ slot' = held
        /\ reader' = IF held = "eof" THEN "done" ELSE "reading"
     \/ /\ ~framesOpen
        /\ reader' = "done"
        /\ UNCHANGED slot
  /\ held' = "bad"
  /\ UNCHANGED <<svars, chans, auth, wvars, pipe, framesOpen, events, sinks, owner,
                 cvars, fault>>

-----------------------------------------------------------------------------
(***************************************************************************)
(* The caller. It is inside ForcePort::force, and does nothing else, while *)
(* fpc[Caller] is not "idle".                                              *)
(***************************************************************************)
CallerFree == fpc[Caller] = "idle"

\* Drop of the handle, or cancel(), or begin_force: force once, then disarm.
LoseHandle(next) ==
  /\ BeginForce(Caller)
  /\ armed' = FALSE
  /\ cpc' = next

\* SupervisorHandle::spawn returns.
SpawnReturns ==
  /\ cpc = "spawn" /\ boot # "none"
  /\ cpc' = IF boot = "ok" THEN "start" ELSE "gone"
  /\ armed' = (boot = "ok")
  /\ UNCHANGED <<svars, chans, auth, wvars, rvars, owner, doing, issued, fpc, forceClosed,
                 fault>>

\* A command goes into the one-slot channel; the send blocks while it is full.
Issue(k) ==
  /\ CallerFree /\ commands = <<>> /\ spc # "done" /\ issued < MaxOps
  /\ \/ cpc = "start" /\ k = "init"
     \/ cpc = "ready" /\ k \in {"fetch", "crawl", "shutdown"}
  /\ issued' = issued + 1
  /\ commands' = <<Op(issued + 1, k)>>
  /\ sinks' = IF k = "crawl" THEN sinks \cup {issued + 1} ELSE sinks
  /\ doing' = k
  /\ cpc' = "wait"
  /\ UNCHANGED <<svars, lifecycle, replies, boot, terminal, auth, wvars, pipe, reader, held,
                 slot, framesOpen, events, owner, armed, fpc, forceClosed, fault>>

\* The supervisor is gone: initialisation and close drop the handle, other
\* operations fail and leave the session as it was.
IssueFails ==
  /\ CallerFree /\ spc = "done" /\ cpc \in {"start", "ready"}
  /\ LoseHandle("gone")
  /\ UNCHANGED <<svars, chans, auth, wvars, rvars, owner, doing, issued, forceClosed, fault>>

\* A crawl's caller drains the events before it looks at the reply.
TakeEvent ==
  /\ CallerFree /\ cpc = "wait" /\ events /\ op.n = issued
  /\ events' = FALSE
  /\ UNCHANGED <<svars, chans, auth, wvars, pipe, reader, held, slot, framesOpen, sinks,
                 owner, cvars, fault>>

\* finish_operation, and the ends of start_session_blocking and close. A
\* terminal error takes the handle and disarms it: the supervisor is trusted to
\* have cleaned up. A failed initialisation drops it armed; a failed close drops
\* it armed (async) or disarmed (blocking).
Receive ==
  /\ CallerFree /\ cpc = "wait" /\ replies[issued] # "none"
  /\ ~(events /\ op.n = issued)
  /\ \/ /\ doing # "shutdown" /\ replies[issued] = "ok"
        /\ cpc' = "ready"
        /\ UNCHANGED <<armed, fpc>>
     \/ /\ doing \in {"fetch", "crawl"} /\ replies[issued] \in Recoverable
        /\ cpc' = "ready"
        /\ UNCHANGED <<armed, fpc>>
     \/ /\ doing \in {"fetch", "crawl"} /\ replies[issued] \in Terminal \cup {"closed"}
        /\ cpc' = "closed" /\ armed' = FALSE
        /\ UNCHANGED fpc
     \/ /\ doing = "init" /\ replies[issued] # "ok"
        /\ LoseHandle("gone")
     \/ /\ doing = "shutdown" /\ replies[issued] # "ok"
        /\ LoseHandle("gone")
     \/ /\ doing = "shutdown"
        /\ cpc' = "gone" /\ armed' = FALSE
        /\ UNCHANGED fpc
  /\ UNCHANGED <<svars, chans, auth, wvars, rvars, owner, doing, issued, forceClosed, fault>>

\* The future of an operation is dropped (or its callback panics): the
\* OperationGuard forces and the session stays with the caller; a dropped close
\* drops the handle. A receive already handed to a blocking thread keeps the
\* event receiver for one more event.
Abandon ==
  /\ CallerFree /\ cpc = "wait" /\ doing \in {"fetch", "crawl", "shutdown"}
  /\ \/ /\ doing # "shutdown"
        /\ BeginForce(Caller)
        /\ cpc' = "ready"
        /\ UNCHANGED armed
     \/ /\ doing = "shutdown"
        /\ LoseHandle("gone")
  /\ sinks' \in {sinks, sinks \ {issued}}
  /\ UNCHANGED <<svars, chans, auth, wvars, pipe, reader, held, slot, framesOpen, events,
                 owner, doing, issued, forceClosed, fault>>

LingeringReceive ==
  /\ events /\ op.n \in sinks
  /\ cpc # "wait" \/ op.n # issued
  /\ events' = FALSE /\ sinks' = sinks \ {op.n}
  /\ UNCHANGED <<svars, chans, auth, wvars, pipe, reader, held, slot, framesOpen, owner,
                 cvars, fault>>

\* The handle is dropped before initialisation (attach found the acquisition
\* cancelled), the session is dropped, or it is cancelled and kept.
DropSession ==
  /\ CallerFree /\ cpc \in {"start", "ready"}
  /\ LoseHandle("gone")
  /\ UNCHANGED <<svars, chans, auth, wvars, rvars, owner, doing, issued, forceClosed, fault>>

CancelSession ==
  /\ CallerFree /\ cpc = "ready"
  /\ LoseHandle("closed")
  /\ UNCHANGED <<svars, chans, auth, wvars, rvars, owner, doing, issued, forceClosed, fault>>

ForceClose ==
  /\ CallerFree /\ cpc = "ready"
  /\ LoseHandle("forceWait")
  /\ UNCHANGED <<svars, chans, auth, wvars, rvars, owner, doing, issued, forceClosed, fault>>

\* force_close returns: after the thread's terminal result, or at once when the
\* session no longer has its handle.
ForceCloseReturns ==
  /\ CallerFree
  /\ (cpc = "forceWait" /\ terminal # "none") \/ cpc = "closed"
  /\ forceClosed' = TRUE
  /\ cpc' = "gone"
  /\ UNCHANGED <<svars, chans, auth, wvars, rvars, owner, doing, armed, issued, fpc, fault>>

-----------------------------------------------------------------------------
LaunchStep == Precheck \/ Own \/ Launch \/ Attach \/ Recheck
ServeStep  == Poll \/ TakeForce \/ TakeCommand \/ Disconnected \/ WriteFails
           \/ FrameCompletes \/ FrameContinues \/ FrameFails \/ SendEvent \/ ExitObserved
CleanStep  == Revoke \/ Kill \/ KillFails \/ Reap \/ DropFrames \/ Join \/ Release
           \/ ReleaseFails \/ Answer \/ Unwind \/ DropOwner \/ Return

WorkerStep == WorkerExits \/ \E f \in Frames : WorkerWrites(f)
ReaderStep == ReaderReads \/ ReaderSends
ForceStep(f) == ForceSignal(f) \/ ForceLock(f) \/ ForceKill(f)
CallerStep == SpawnReturns \/ (\E k \in OpKinds : Issue(k)) \/ IssueFails \/ TakeEvent \/ Receive
           \/ Abandon \/ LingeringReceive \/ DropSession \/ CancelSession \/ ForceClose
           \/ ForceCloseReturns

\* Nothing is left to happen: the thread has returned, the caller is gone.
Finished ==
  /\ spc = "done" /\ cpc = "gone" /\ \A f \in Forcers : fpc[f] \in {"idle", "spent"}
  /\ UNCHANGED vars

Next ==
  \/ LaunchStep \/ ServeStep \/ Write \/ Timeout \/ CleanStep
  \/ WorkerStep \/ ReaderStep
  \/ \E f \in Forcers : ForceStep(f) \/ Cancel(f)
  \/ CallerStep \/ Finished

(***************************************************************************)
(* Fairness, thread by thread: the supervisor thread, the reader, every    *)
(* thread inside force and the caller once it waits keep running; timers   *)
(* fire; and a worker whose parent lifeline closed exits (its lifeline     *)
(* thread calls _exit). Nothing obliges a worker to answer or even to read *)
(* its stdin, so a request write to a live worker may block for ever;      *)
(* nothing obliges the caller to start or stop anything, or a canceller to *)
(* cancel. The absolute watchdog makes Timeout strongly fair: time passes  *)
(* even while events keep coming.                                          *)
(***************************************************************************)
Fairness ==
  /\ WF_vars(LaunchStep \/ CleanStep \/ (ServeStep /\ (spc = "write" => child # "running")))
  /\ SF_vars(Timeout)
  /\ WF_vars(ReaderStep)
  /\ WF_vars(~lifeline /\ WorkerExits)
  /\ \A f \in Forcers : WF_vars(ForceStep(f))
  /\ WF_vars(SpawnReturns \/ TakeEvent \/ Receive \/ LingeringReceive
             \/ (cpc = "forceWait" /\ ForceCloseReturns))

Spec     == Init /\ [][Next]_vars
FairSpec == Spec /\ Fairness

-----------------------------------------------------------------------------
(***************************************************************************)
(* Safety.                                                                 *)
(***************************************************************************)

\* A thread inside the kill holds the mutex, and the child it aims at has not
\* been reaped, so the process-group id still names this worker: revocation
\* takes the same mutex and always precedes the reaping (kill.rs, and the
\* SAFETY comment of ProcessTree::terminate_now).
KillTargetsOwnChild ==
  \A f \in Forcers : fpc[f] = "kill" => holder = f /\ child \in {"running", "exited"}

\* While a worker is unreaped or its storage exists, the broker's permit is not
\* available to anybody else. (Needs kills that work: see KillFails.)
PermitCoversWorker ==
  permit = "released" => child \in {"none", "reaped"} /\ ~storage

\* An operation that reports a terminal error has already been cleaned up: that
\* is why finish_operation may disarm the handle instead of forcing.
TerminalAnswerMeansDown ==
  \A n \in Ops : replies[n] \in Terminal \cup {"closed"} => child \in {"none", "reaped"}

\* force_close "waits for supervisor-owned cleanup to finish".
ForceCloseWaits == forceClosed => permit # "held"

(***************************************************************************)
(* Liveness.                                                               *)
(***************************************************************************)

\* The premise of the next two: a kill that failed does not leave the thread
\* blocked in writing a request to a live worker. With kills that work it holds
\* by itself.
KillsUnblock == []<>(spc # "write" \/ killFaults = 0)

\* A force, whenever it comes (before the worker exists, between the two looks
\* at the lifecycle channel, during an operation, during cleanup) and whoever
\* sends it, is never lost: the permit is settled.
ForceSettles ==
  KillsUnblock => ((\E f \in Forcers : fpc[f] = "lock") ~> (permit # "held"))

\* Whatever way the caller parts with the session, its capacity comes back.
HandleGoneSettles ==
  KillsUnblock => ((cpc \in {"closed", "gone"}) ~> (permit # "held"))

\* Every command is answered, or its reply channel closes, unless the
\* supervisor stays blocked in writing a request to a live worker.
CommandAnswered ==
  []<>(spc # "write") => []<>(\A n \in 1..issued : replies[n] # "none")

\* Even when killing fails for good and the capacity is handed back, the worker
\* does not outlive it for long: the parent's end of the lifeline is closed.
WorkerDiesWithLease == (permit # "held") ~> (child # "running")

(***************************************************************************)
(* Refinement: the supervisor keeps the lease.                             *)
(***************************************************************************)
Lease == INSTANCE SessionLease WITH
  worker <- IF child = "none" THEN "none" ELSE IF child = "reaped" THEN "gone" ELSE "live"

LeaseSpec == Lease!Spec
=============================================================================
