---------------------------- MODULE SessionLease ----------------------------
(***************************************************************************)
(* What one supervised browser session promises the broker that lent it a  *)
(* slot of its capacity.                                                   *)
(*                                                                         *)
(* A lease is one permit of the broker's semaphore, the session's private  *)
(* storage directory, and the worker process that uses that directory.     *)
(* The promise: the permit goes back to the broker only when the worker    *)
(* has been reaped and its storage deleted, and a permit that cannot go    *)
(* back is written off exactly when the storage could not be deleted.      *)
(* Supervisor.tla is the machinery that keeps the promise; SessionBroker   *)
(* uses nothing of a session but this.                                     *)
(***************************************************************************)

VARIABLES
  worker,   \* "none", "live" (spawned, not yet reaped), "gone" (reaped)
  storage,  \* does the session's directory exist?
  permit    \* "held", "released" (back with the broker), "retained" (lost)

lvars == <<worker, storage, permit>>

LeaseTypeOK ==
  /\ worker \in {"none", "live", "gone"}
  /\ storage \in BOOLEAN
  /\ permit \in {"held", "released", "retained"}

Init ==
  /\ worker = "none"
  /\ storage = FALSE
  /\ permit = "held"

\* The session gets its directory before anything can write to it.
CreateStorage ==
  /\ permit = "held" /\ worker = "none" /\ ~storage
  /\ storage' = TRUE
  /\ UNCHANGED <<worker, permit>>

\* The worker runs only over existing storage and under a held permit.
StartWorker ==
  /\ permit = "held" /\ worker = "none" /\ storage
  /\ worker' = "live"
  /\ UNCHANGED <<storage, permit>>

ReapWorker ==
  /\ worker = "live"
  /\ worker' = "gone"
  /\ UNCHANGED <<storage, permit>>

\* Storage and permit leave together, never while the worker is live.
GiveBack ==
  /\ permit = "held" /\ worker # "live"
  /\ storage' = FALSE
  /\ permit' = "released"
  /\ UNCHANGED worker

\* Capacity is written off when, and only when, storage stays behind.
WriteOff ==
  /\ permit = "held" /\ worker # "live" /\ storage
  /\ permit' = "retained"
  /\ UNCHANGED <<worker, storage>>

Next == CreateStorage \/ StartWorker \/ ReapWorker \/ GiveBack \/ WriteOff

Spec == Init /\ [][Next]_lvars

\* A lease whose worker was started ends: the worker is reaped and the permit
\* is settled one way or the other.
Settled == permit # "held" /\ worker # "live"
=============================================================================
