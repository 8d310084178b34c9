---------------------------- MODULE SessionBroker ----------------------------
(***************************************************************************)
(* The session broker and the cancellation handle of session.rs.           *)
(*                                                                         *)
(* Each caller owns one SessionCancellation and may acquire sessions one   *)
(* after the other. An acquisition is a future: it takes a prewarmed       *)
(* worker or a permit, queueing for the latter, and hands over to a        *)
(* blocking task that starts and initialises the worker and that runs on   *)
(* when the future is dropped. Each handle may be cancelled at any moment, *)
(* by its user or by the AcquisitionGuard of a dropped future.             *)
(*                                                                         *)
(* Of a session's supervisor the broker sees its lease (SessionLease): a   *)
(* permit that comes back, or does not, after a force or a failure;        *)
(* Supervisor.tla shows that it keeps to this.                             *)
(***************************************************************************)
EXTENDS Naturals, Sequences, FiniteSets

CONSTANTS
  Callers,        \* each with a cancellation handle of its own
  Cancellable,    \* those whose user may cancel the handle
  NoSession,
  MaxSessions, QueueCapacity, Prewarm,   \* SessionBrokerConfig
  MaxStarts,      \* bound: calls of session_with_cancellation
  MaxRetained     \* bound: permits written off because their storage stays

ASSUME BrokerAssumption ==
  /\ MaxSessions \in Nat \ {0} /\ QueueCapacity \in Nat
  /\ Prewarm \in 0..MaxSessions
  /\ MaxStarts \in Nat /\ MaxRetained \in Nat
  /\ NoSession \notin 1..(Prewarm + MaxStarts)
  /\ IsFiniteSet(Callers) /\ Cancellable \subseteq Callers

Sessions == 1..(Prewarm + MaxStarts)
Threads  == Callers \X {"user", "guard"}   \* who may run cancel() on a handle
Calling  == {"pop", "try", "slot", "check", "poll", "waiting", "unslot", "joining"}

VARIABLES
  \* the two tokio semaphores
  permits, waiters, granted, slots,
  prewarmed,            \* Mutex<Vec<SupervisorHandle>>
  \* the acquisition futures: where each is, the bare permit and the handle it
  \* or its blocking task holds
  cpc, bare, sess, starts,
  tpc,                  \* start_session_blocking, per caller
  woken,                \* a cancelled() future that notify_waiters reached
  \* SessionCancellation, and the threads inside cancel()
  cancelled, port, kpc, kport,
  \* supervisors: the lease and whether a force has reached it
  lease, forced, spawned

sem     == <<permits, waiters, granted>>
calls   == <<cpc, bare, sess, starts>>
handles == <<cancelled, port>>
cancels == <<kpc, kport>>
leases  == <<lease, forced, spawned>>
vars == <<sem, slots, prewarmed, calls, tpc, woken, handles, cancels, leases>>

TypeOK ==
  /\ permits \in 0..MaxSessions /\ slots \in 0..QueueCapacity
  /\ waiters \in Seq(Callers) /\ granted \subseteq Callers
  /\ prewarmed \in Seq(Sessions)
  /\ cpc \in [Callers -> Calling \cup {"idle", "open", "dropped"}]
  /\ bare \subseteq Callers /\ sess \in [Callers -> Sessions \cup {NoSession}]
  /\ starts \in 0..MaxStarts
  /\ tpc \in [Callers -> {"none", "begin", "boot", "attach", "init", "ok", "err"}]
  /\ woken \subseteq Callers /\ cancelled \subseteq Callers
  /\ port \in [Callers -> Sessions \cup {NoSession}]
  /\ kpc \in [Threads -> {"idle", "lock", "force", "notify", "done"}]
  /\ kport \in [Threads -> Sessions \cup {NoSession}]
  /\ lease \in [Sessions -> {"unused", "held", "released", "retained"}]
  /\ forced \subseteq Sessions /\ spawned \in 0..(Prewarm + MaxStarts)

\* SessionBroker::new has started the prewarmed workers, each with a permit.
Init ==
  /\ permits = MaxSessions - Prewarm /\ waiters = <<>> /\ granted = {}
  /\ slots = QueueCapacity
  /\ prewarmed = [i \in 1..Prewarm |-> i]
  /\ cpc = [c \in Callers |-> "idle"] /\ bare = {}
  /\ sess = [c \in Callers |-> NoSession] /\ starts = 0
  /\ tpc = [c \in Callers |-> "none"] /\ woken = {} /\ cancelled = {}
  /\ port = [c \in Callers |-> NoSession]
  /\ kpc = [t \in Threads |-> "idle"] /\ kport = [t \in Threads |-> NoSession]
  /\ lease = [s \in Sessions |-> IF s <= Prewarm THEN "held" ELSE "unused"]
  /\ forced = {} /\ spawned = Prewarm

Go(c, at) == cpc' = [cpc EXCEPT ![c] = at]

-----------------------------------------------------------------------------
(***************************************************************************)
(* tokio's semaphore: a released permit goes to the head of the queue.     *)
(***************************************************************************)
ReleasePermit(g) ==
  IF waiters = <<>>
  THEN permits' = permits + 1 /\ granted' = g /\ UNCHANGED waiters
  ELSE granted' = g \cup {Head(waiters)} /\ waiters' = Tail(waiters) /\ UNCHANGED permits

\* Dropping the acquire future: out of the queue, or the permit it was granted
\* goes on to the next.
LeaveQueue(c) ==
  \/ c \in granted /\ ReleasePermit(granted \ {c})
  \/ /\ c \notin granted /\ UNCHANGED <<permits, granted>>
     /\ \/ \E i \in 1..Len(waiters) :
             /\ waiters[i] = c
             /\ waiters' = SubSeq(waiters, 1, i - 1) \o SubSeq(waiters, i + 1, Len(waiters))
        \/ /\ \A i \in 1..Len(waiters) : waiters[i] # c
           /\ UNCHANGED waiters

-----------------------------------------------------------------------------
(***************************************************************************)
(* session_with_cancellation.                                              *)
(***************************************************************************)
Begin(c) ==
  /\ cpc[c] = "idle" /\ tpc[c] = "none" /\ starts < MaxStarts
  /\ starts' = starts + 1
  /\ Go(c, IF c \in cancelled THEN "idle" ELSE "pop")
  /\ UNCHANGED <<sem, slots, prewarmed, bare, sess, tpc, woken, handles, cancels, leases>>

\* The guard is armed and the blocking task spawned: there is no await between
\* taking the worker or the permit and this point.
StartTask(c) ==
  /\ Go(c, "joining")
  /\ tpc' = [tpc EXCEPT ![c] = "begin"]

\* take_prewarmed pops the worker started last; nobody refills the stack.
TakePrewarmed(c) ==
  /\ cpc[c] = "pop"
  /\ \/ /\ prewarmed # <<>>
        /\ sess' = [sess EXCEPT ![c] = prewarmed[Len(prewarmed)]]
        /\ prewarmed' = SubSeq(prewarmed, 1, Len(prewarmed) - 1)
        /\ StartTask(c)
     \/ /\ prewarmed = <<>>
        /\ Go(c, "try")
        /\ UNCHANGED <<prewarmed, sess, tpc>>
  /\ UNCHANGED <<sem, slots, bare, starts, woken, handles, cancels, leases>>

TryAcquire(c) ==
  /\ cpc[c] = "try"
  /\ \/ /\ permits > 0
        /\ permits' = permits - 1 /\ bare' = bare \cup {c}
        /\ StartTask(c)
     \/ /\ permits = 0
        /\ Go(c, "slot")
        /\ UNCHANGED <<permits, bare, tpc>>
  /\ UNCHANGED <<waiters, granted, slots, prewarmed, sess, starts, woken, handles, cancels,
                 leases>>

\* Mutant: a caller that finds no queue slot stands in line all the same.
TakeSlotOrNot(c) ==
  /\ cpc[c] = "slot"
  /\ slots' = IF slots > 0 THEN slots - 1 ELSE slots
  /\ Go(c, "check")
  /\ UNCHANGED <<sem, prewarmed, bare, sess, starts, tpc, woken, handles, cancels, leases>>

\* A queue slot, or SessionBrokerFull. With the slot, cancelled() is polled
\* first: it enables its Notified and then reads the flag.
TakeSlot(c) ==
  /\ cpc[c] = "slot"
  /\ \/ /\ slots > 0
        /\ slots' = slots - 1
        /\ Go(c, "check")
     \/ /\ slots = 0
        /\ Go(c, "idle")
        /\ UNCHANGED slots
  /\ UNCHANGED <<sem, prewarmed, bare, sess, starts, tpc, woken, handles, cancels, leases>>

\* Mutant: the flag is read before the Notified is enabled.
ListensLate(c) == cpc[c] = "waiting"

\* The Notified is enabled from before the flag is read to the select's end.
Listening(c) == cpc[c] \in {"check", "poll", "waiting"}

CheckFlag(c) ==
  /\ cpc[c] = "check"
  /\ Go(c, IF c \in cancelled THEN "unslot" ELSE "poll")
  /\ UNCHANGED <<sem, slots, prewarmed, bare, sess, starts, tpc, woken, handles, cancels, leases>>

\* The first poll of the acquire future takes a permit or queues for one.
PollAcquire(c) ==
  /\ cpc[c] = "poll"
  /\ \/ /\ permits > 0
        /\ permits' = permits - 1 /\ bare' = bare \cup {c}
        /\ Go(c, "unslot")
        /\ UNCHANGED waiters
     \/ /\ permits = 0
        /\ waiters' = Append(waiters, c)
        /\ Go(c, "waiting")
        /\ UNCHANGED <<permits, bare>>
  /\ UNCHANGED <<granted, slots, prewarmed, sess, starts, tpc, woken, handles, cancels, leases>>

\* The cancelled() branch comes first; it wins over a permit already granted.
QueueCancelled(c) ==
  /\ cpc[c] \in {"poll", "waiting"} /\ c \in woken
  /\ LeaveQueue(c)
  /\ Go(c, "unslot")
  /\ UNCHANGED <<slots, prewarmed, bare, sess, starts, tpc, woken, handles, cancels, leases>>

QueueGranted(c) ==
  /\ cpc[c] = "waiting" /\ c \in granted /\ c \notin woken
  /\ granted' = granted \ {c} /\ bare' = bare \cup {c}
  /\ Go(c, "unslot")
  /\ UNCHANGED <<permits, waiters, slots, prewarmed, sess, starts, tpc, woken, handles, cancels,
                 leases>>

\* Mutant: a waiter that times out takes a permit granted meanwhile with it.
QueueTimesOutKeeping(c) ==
  /\ cpc[c] = "waiting"
  /\ waiters' = SelectSeq(waiters, LAMBDA w : w # c) /\ granted' = granted \ {c}
  /\ Go(c, "unslot")
  /\ UNCHANGED <<permits, slots, prewarmed, bare, sess, starts, tpc, woken, handles, cancels,
                 leases>>

\* Mutant: the wait has no timeout of its own.
QueueNeverTimesOut(c) ==
  /\ cpc[c] = "waiting" /\ c \in woken
  /\ LeaveQueue(c)
  /\ Go(c, "unslot")
  /\ UNCHANGED <<slots, prewarmed, bare, sess, starts, tpc, woken, handles, cancels, leases>>

\* acquire_timeout. A permit granted between the last poll and the timer is
\* passed on.
QueueTimesOut(c) ==
  /\ cpc[c] = "waiting"
  /\ LeaveQueue(c)
  /\ Go(c, "unslot")
  /\ UNCHANGED <<slots, prewarmed, bare, sess, starts, tpc, woken, handles, cancels, leases>>

\* The queue slot goes last; with a permit the call continues, else it fails.
DropSlot(c) ==
  /\ cpc[c] = "unslot"
  /\ slots' = slots + 1
  /\ woken' = woken \ {c}
  /\ IF c \in bare THEN StartTask(c) ELSE Go(c, "idle") /\ UNCHANGED tpc
  /\ UNCHANGED <<sem, prewarmed, bare, sess, starts, handles, cancels, leases>>

\* The join completes: the guard is disarmed and the result returned.
Join(c) ==
  /\ cpc[c] = "joining" /\ tpc[c] \in {"ok", "err"}
  /\ Go(c, IF tpc[c] = "ok" THEN "open" ELSE "idle")
  /\ tpc' = [tpc EXCEPT ![c] = "none"]
  /\ UNCHANGED <<sem, slots, prewarmed, bare, sess, starts, woken, handles, cancels, leases>>

\* The future is dropped at one of its awaits. In the queue it just leaves; at
\* the join the guard cancels the handle, since the task cannot be stopped.
DropQueued(c) ==
  /\ cpc[c] = "waiting"
  /\ LeaveQueue(c)
  /\ Go(c, "unslot")
  /\ UNCHANGED <<slots, prewarmed, bare, sess, starts, tpc, woken, handles, cancels, leases>>

DropJoining(c) ==
  /\ cpc[c] = "joining"
  /\ Go(c, "dropped")
  /\ kpc' = [kpc EXCEPT ![<<c, "guard">>] = "lock"]
  /\ UNCHANGED <<sem, slots, prewarmed, bare, sess, starts, tpc, woken, handles, kport, leases>>

\* Close, force_close, cancel or drop of the session; after a graceful close
\* the lease is already settled and the force finds nobody.
EndSession(c) ==
  /\ cpc[c] = "open"
  /\ forced' = forced \cup {sess[c]}
  /\ sess' = [sess EXCEPT ![c] = NoSession]
  /\ Go(c, "idle")
  /\ UNCHANGED <<sem, slots, prewarmed, bare, starts, tpc, woken, handles, cancels, lease, spawned>>

-----------------------------------------------------------------------------
(***************************************************************************)
(* start_session_blocking, on a thread of its own.                         *)
(***************************************************************************)
Task(c, at) == tpc' = [tpc EXCEPT ![c] = at]

\* Mutant: a dropped handle leaves its supervisor alone.
DropHandleSilently(c) ==
  /\ sess' = [sess EXCEPT ![c] = NoSession]
  /\ UNCHANGED forced

\* Dropping the supervisor handle forces the session.
DropHandle(c) ==
  /\ forced' = forced \cup ({sess[c]} \ {NoSession})
  /\ sess' = [sess EXCEPT ![c] = NoSession]

\* Cancelled before anything was started: the clean worker or the permit the
\* task was given is dropped with its arguments.
TaskRefuses(c) ==
  /\ tpc[c] = "begin" /\ c \in cancelled
  /\ Task(c, "err")
  /\ DropHandle(c)
  /\ IF c \in bare THEN ReleasePermit(granted) ELSE UNCHANGED sem
  /\ bare' = bare \ {c}
  /\ UNCHANGED <<slots, prewarmed, cpc, starts, woken, handles, cancels, lease, spawned>>

TaskUsesClean(c) ==
  /\ tpc[c] = "begin" /\ c \notin cancelled /\ c \notin bare
  /\ Task(c, "attach")
  /\ UNCHANGED <<sem, slots, prewarmed, calls, woken, handles, cancels, leases>>

\* Mutant: the permit stays with the task's arguments instead of going to the
\* supervisor.
TaskSpawnsWithoutPermit(c) ==
  LET s == spawned + 1 IN
  /\ tpc[c] = "begin" /\ c \in bare /\ c \notin cancelled
  /\ bare' = bare \ {c}
  /\ spawned' = s
  /\ lease' = [lease EXCEPT ![s] = "held"]
  /\ sess' = [sess EXCEPT ![c] = s] /\ port' = [port EXCEPT ![c] = s]
  /\ Task(c, "boot")
  /\ ReleasePermit(granted)
  /\ UNCHANGED <<slots, prewarmed, cpc, starts, woken, cancelled, cancels, forced>>

\* SupervisorHandle::spawn publishes the port before the thread exists, in the
\* critical section that reads the flag (attach); a cancel from here on has a
\* port to force.
TaskSpawns(c) ==
  LET s == spawned + 1 IN
  /\ tpc[c] = "begin" /\ c \in bare
  /\ bare' = bare \ {c}
  /\ \/ /\ c \notin cancelled
        /\ spawned' = s
        /\ lease' = [lease EXCEPT ![s] = "held"]
        /\ sess' = [sess EXCEPT ![c] = s] /\ port' = [port EXCEPT ![c] = s]
        /\ Task(c, "boot")
        /\ UNCHANGED sem
     \/ /\ c \in cancelled
        /\ port' = [port EXCEPT ![c] = NoSession]   \* a port nobody listens to
        /\ Task(c, "err")
        /\ ReleasePermit(granted)
        /\ UNCHANGED <<spawned, lease, sess>>
  /\ UNCHANGED <<slots, prewarmed, cpc, starts, woken, cancelled, cancels, forced>>

\* The bootstrap result: an error comes after the supervisor gave its lease back.
TaskBoots(c) ==
  /\ tpc[c] = "boot"
  /\ \/ /\ lease[sess[c]] = "held"
        /\ Task(c, "attach")
        /\ UNCHANGED sess
     \/ /\ lease[sess[c]] # "held"
        /\ Task(c, "err")
        /\ sess' = [sess EXCEPT ![c] = NoSession]
  /\ UNCHANGED <<sem, slots, prewarmed, cpc, bare, starts, woken, handles, cancels, leases>>

\* Mutant: the flag is not read again once the port is published.
TaskAttachesBlindly(c) ==
  /\ tpc[c] = "attach"
  /\ port' = [port EXCEPT ![c] = sess[c]]
  /\ Task(c, "init")
  /\ UNCHANGED <<sem, slots, prewarmed, calls, woken, cancelled, cancels, leases>>

\* attach: publish the port and read the flag under one lock.
TaskAttaches(c) ==
  /\ tpc[c] = "attach"
  /\ port' = [port EXCEPT ![c] = sess[c]]
  /\ \/ /\ c \notin cancelled
        /\ Task(c, "init")
        /\ UNCHANGED <<sess, forced>>
     \/ /\ c \in cancelled
        /\ Task(c, "err")
        /\ DropHandle(c)
  /\ UNCHANGED <<sem, slots, prewarmed, cpc, bare, starts, woken, cancelled, cancels, lease,
                 spawned>>

\* initialize_session returns: with an initialised worker, or after the
\* supervisor has cleaned up. Nothing bounds the time its write_request takes,
\* so a worker that does not read need never let it return.
TaskInitialises(c) ==
  /\ tpc[c] = "init"
  /\ \/ /\ lease[sess[c]] = "held"
        /\ Task(c, "ok")
        /\ UNCHANGED <<sess, forced>>
     \/ /\ lease[sess[c]] # "held"
        /\ Task(c, "err")
        /\ DropHandle(c)
  /\ UNCHANGED <<sem, slots, prewarmed, cpc, bare, starts, woken, handles, cancels, lease,
                 spawned>>

\* Nobody waits for the task any more: its result is dropped.
TaskOrphaned(c) ==
  /\ cpc[c] = "dropped" /\ tpc[c] \in {"ok", "err"}
  /\ Task(c, "none")
  /\ DropHandle(c)
  /\ UNCHANGED <<sem, slots, prewarmed, cpc, bare, starts, woken, handles, cancels, lease, spawned>>

-----------------------------------------------------------------------------
(***************************************************************************)
(* SessionCancellation::cancel: the flag and a clone of the port under the *)
(* lock, the force outside it, the notification last.                      *)
(***************************************************************************)
Cancel(c) ==
  /\ c \in Cancellable /\ kpc[<<c, "user">>] = "idle"
  /\ kpc' = [kpc EXCEPT ![<<c, "user">>] = "lock"]
  /\ UNCHANGED <<sem, slots, prewarmed, calls, tpc, woken, handles, kport, leases>>

CancelLocks(t) ==
  /\ kpc[t] = "lock"
  /\ cancelled' = cancelled \cup {t[1]}
  /\ kport' = [kport EXCEPT ![t] = port[t[1]]]
  /\ kpc' = [kpc EXCEPT ![t] = "force"]
  /\ UNCHANGED <<sem, slots, prewarmed, calls, tpc, woken, port, leases>>

CancelForces(t) ==
  /\ kpc[t] = "force"
  /\ forced' = forced \cup ({kport[t]} \ {NoSession})
  /\ kport' = [kport EXCEPT ![t] = NoSession]
  /\ kpc' = [kpc EXCEPT ![t] = "notify"]
  /\ UNCHANGED <<sem, slots, prewarmed, calls, tpc, woken, handles, lease, spawned>>

CancelNotifies(t) ==
  /\ kpc[t] = "notify"
  /\ woken' = IF Listening(t[1]) THEN woken \cup {t[1]} ELSE woken
  /\ kpc' = [kpc EXCEPT ![t] = "done"]
  /\ UNCHANGED <<sem, slots, prewarmed, calls, tpc, handles, kport, leases>>

-----------------------------------------------------------------------------
(***************************************************************************)
(* Supervisors, seen through their leases.                                 *)
(***************************************************************************)

\* Only a supervisor at work on a command can fail of its own accord.
Working(s) == \E c \in Callers : sess[c] = s /\ (tpc[c] \in {"boot", "init"} \/ cpc[c] = "open")

Settle(s) ==
  /\ lease[s] = "held" /\ (s \in forced \/ Working(s))
  /\ \/ /\ lease' = [lease EXCEPT ![s] = "released"]
        /\ ReleasePermit(granted)
     \/ /\ Cardinality({r \in Sessions : lease[r] = "retained"}) < MaxRetained
        /\ lease' = [lease EXCEPT ![s] = "retained"]
        /\ UNCHANGED sem
  /\ UNCHANGED <<slots, prewarmed, calls, tpc, woken, handles, cancels, forced, spawned>>

-----------------------------------------------------------------------------
CallStep(c) ==
  \/ TakePrewarmed(c) \/ TryAcquire(c) \/ TakeSlot(c) \/ CheckFlag(c) \/ PollAcquire(c)
  \/ QueueCancelled(c) \/ QueueGranted(c) \/ QueueTimesOut(c) \/ DropSlot(c) \/ Join(c)

TaskStep(c) ==
  \/ TaskRefuses(c) \/ TaskUsesClean(c) \/ TaskSpawns(c) \/ TaskBoots(c) \/ TaskAttaches(c)
  \/ TaskInitialises(c) \/ TaskOrphaned(c)

UserStep(c) == Begin(c) \/ DropQueued(c) \/ DropJoining(c) \/ EndSession(c) \/ Cancel(c)

CancelStep(t) == CancelLocks(t) \/ CancelForces(t) \/ CancelNotifies(t)

\* No call is under way and none can begin.
Finished ==
  /\ \A c \in Callers : cpc[c] \in {"idle", "dropped"} /\ tpc[c] = "none"
  /\ UNCHANGED vars

Next ==
  \/ \E c \in Callers : CallStep(c) \/ TaskStep(c) \/ UserStep(c)
  \/ \E t \in Threads : CancelStep(t)
  \/ \E s \in Sessions : Settle(s)
  \/ Finished

(***************************************************************************)
(* Fairness: the runtime polls futures that can move, blocking threads and *)
(* cancelling threads run on, and a forced supervisor settles its lease    *)
(* (ForceSettles of Supervisor). A start task is not fair while it waits   *)
(* for a live worker to be initialised: the request is written without a   *)
(* deadline. Users need do nothing: they may keep a session open for ever. *)
(***************************************************************************)
Fairness ==
  /\ \A c \in Callers :
       /\ WF_vars(CallStep(c))
       /\ WF_vars(TaskStep(c) /\ (tpc[c] = "init" => lease[sess[c]] # "held"))
  /\ \A t \in Threads : WF_vars(CancelStep(t))
  /\ \A s \in Sessions : WF_vars(s \in forced /\ Settle(s))

Spec     == Init /\ [][Next]_vars
FairSpec == Spec /\ Fairness

-----------------------------------------------------------------------------
(***************************************************************************)
(* Safety.                                                                 *)
(***************************************************************************)

\* Every permit of max_sessions is in exactly one place: free, on its way to a
\* waiter, in a call, or bound to a session that has not given it back.
CapacityConserved ==
  permits + Cardinality(granted) + Cardinality(bare)
    + Cardinality({s \in Sessions : lease[s] \in {"held", "retained"}}) = MaxSessions

\* No more than queue_capacity callers stand in line, and nobody stands in line
\* while a permit is free or a clean worker is idle.
QueueDisciplined ==
  /\ Len(waiters) + Cardinality(granted) <= QueueCapacity
  /\ waiters # <<>> => permits = 0 /\ prewarmed = <<>>

\* Once cancel() has returned, no waiter of that handle sleeps on: a cancel
\* that falls between the check of the flag and the wait is not lost.
CancelWakes ==
  \A c \in Callers : kpc[<<c, "user">>] = "done" /\ cpc[c] = "waiting" => c \in woken

\* Once cancel() has returned, the worker of that handle has been forced or is
\* not started yet; that holds while the worker boots, while it initialises,
\* and when a session was opened and closed on the handle before.
CancelReachesWorker ==
  \A t \in Threads :
    kpc[t] = "done" /\ (tpc[t[1]] \in {"boot", "init", "ok"} \/ cpc[t[1]] = "open")
      => sess[t[1]] \in forced

(***************************************************************************)
(* Liveness.                                                               *)
(***************************************************************************)

\* A call of session() ends: with a session, an error, or a dropped future;
\* unless its own worker stays blocked in the initialisation, whatever the
\* workers of others do meanwhile.
CallEnds ==
  \A c \in Callers :
    []<>(tpc[c] # "init") => ((cpc[c] = "pop") ~> (cpc[c] \in {"idle", "open", "dropped"}))

\* A future dropped while its worker starts gives the capacity back, although
\* the blocking task runs on, or is blocked in the initialisation.
DroppedCallReleases ==
  \A s \in Sessions :
    (\E c \in Callers : cpc[c] = "dropped" /\ sess[c] = s) ~> (lease[s] # "held")

(***************************************************************************)
(* Refinement: the broker is a bounded pool of sessions.                   *)
(***************************************************************************)
Pool == INSTANCE SessionPool WITH
  live   <- {s \in Sessions : lease[s] \in {"held", "retained"}},
  warm   <- {prewarmed[i] : i \in DOMAIN prewarmed},
  used   <- {s \in Sessions : lease[s] # "unused"},
  holder <- sess

PoolSpec == Pool!Spec
=============================================================================
