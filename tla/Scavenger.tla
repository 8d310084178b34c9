------------------------------- MODULE Scavenger -------------------------------
(***************************************************************************)
(* Session storage that outlives its process: every process that makes a   *)
(* session broker first has a thread look through the temporary directory  *)
(* for storage whose owner is dead (session/scavenge.rs), while sessions   *)
(* of other processes are being made, used and closed there.               *)
(*                                                                         *)
(* One session per process. A process number is its sequence of digits,    *)
(* and may be given again once its process is dead. The worker writes to   *)
(* the storage, also for a moment after its parent is gone.                *)
(***************************************************************************)
EXTENDS Naturals, Sequences

CONSTANTS
  Processes,
  Owners,      \* bound: those that open a session
  Pids         \* sequences of digits

VARIABLES
  alive,       \* process: "no" yet, "yes", or "dead"
  pid,         \* its number
  storage,     \* its session's storage: none, made, staged, open, closing, left, gone
  files,       \* what is in that directory: owner.pid.tmp, owner.pid, the profile
  marked,      \* the number in owner.pid
  scan         \* its scavenger: where it is, directories done with, the one at hand

scavengeVars == <<alive, pid, storage, files, marked, scan>>

Exists(d) == storage[d] \notin {"none", "gone"}
NoScan == [at |-> "none", done |-> {}, dir |-> "none", owner |-> <<>>]

ScavengeInit ==
  /\ alive = [p \in Processes |-> "no"] /\ pid = [p \in Processes |-> <<>>]
  /\ storage = [p \in Processes |-> "none"] /\ files = [p \in Processes |-> {}]
  /\ marked = [p \in Processes |-> <<>>] /\ scan = [p \in Processes |-> NoScan]

\* scavenge_stale_sessions_once, in SessionBroker::new.
StartProcess(p, n) ==
  /\ alive[p] = "no" /\ \A q \in Processes : alive[q] = "yes" => pid[q] # n
  /\ alive' = [alive EXCEPT ![p] = "yes"] /\ pid' = [pid EXCEPT ![p] = n]
  /\ scan' = [scan EXCEPT ![p].at = "scan"]
  /\ UNCHANGED <<storage, files, marked>>

-----------------------------------------------------------------------------
(***************************************************************************)
(* The owner.                                                              *)
(***************************************************************************)
MakeStorage(p) ==
  /\ p \in Owners /\ alive[p] = "yes" /\ storage[p] = "none"
  /\ storage' = [storage EXCEPT ![p] = "made"]
  /\ UNCHANGED <<alive, pid, files, marked, scan>>

\* Mutant: the number is written where others look for it.
MarkInPlace(p) ==
  /\ alive[p] = "yes" /\ storage[p] = "made"
  /\ storage' = [storage EXCEPT ![p] = "staged"]
  /\ files' = [files EXCEPT ![p] = {"tmp", "marker"}]
  /\ \E n \in 1..Len(pid[p]) : marked' = [marked EXCEPT ![p] = SubSeq(pid[p], 1, n)]
  /\ UNCHANGED <<alive, pid, scan>>

\* write_owner_marker: into a file of another name. If that fails, there is no marker.
StageMarker(p) ==
  /\ alive[p] = "yes" /\ storage[p] = "made"
  /\ \E to \in {"staged", "open"} : storage' = [storage EXCEPT ![p] = to]
  /\ files' = [files EXCEPT ![p] = {"tmp"}]
  /\ UNCHANGED <<alive, pid, marked, scan>>

\* ... then the rename, which may fail too.
PublishMarker(p) ==
  /\ alive[p] = "yes" /\ storage[p] = "staged"
  /\ storage' = [storage EXCEPT ![p] = "open"]
  /\ \/ /\ files' = [files EXCEPT ![p] = {"marker"}] /\ marked' = [marked EXCEPT ![p] = pid[p]]
     \/ UNCHANGED <<files, marked>>
  /\ UNCHANGED <<alive, pid, scan>>

WorkerWrites(p) ==
  /\ storage[p] = "open"
  /\ files' = [files EXCEPT ![p] = @ \cup {"profile"}]
  /\ UNCHANGED <<alive, pid, storage, marked, scan>>

\* The session ends, or the worker whose parent is dead does.
StopWorker(p) ==
  /\ storage[p] = "open"
  /\ storage' = [storage EXCEPT ![p] = IF alive[p] = "yes" THEN "closing" ELSE "left"]
  /\ UNCHANGED <<alive, pid, files, marked, scan>>

\* remove_dir_all takes a directory file by file.
RemoveFile(d) ==
  /\ \E f \in files[d] : files' = [files EXCEPT ![d] = @ \ {f}]
  /\ UNCHANGED <<alive, pid, storage, marked, scan>>

\* SupervisorOwner::release.
ReleaseStorage(p) ==
  /\ alive[p] = "yes" /\ storage[p] = "closing"
  /\ \/ RemoveFile(p)
     \/ /\ files[p] = {} /\ storage' = [storage EXCEPT ![p] = "gone"]
        /\ UNCHANGED <<alive, pid, files, marked, scan>>

OwnerDies(p) ==
  /\ alive[p] = "yes" /\ alive' = [alive EXCEPT ![p] = "dead"]
  /\ scan' = [scan EXCEPT ![p] = NoScan]
  /\ UNCHANGED <<pid, storage, files, marked>>

-----------------------------------------------------------------------------
(***************************************************************************)
(* The scavenger of process p.                                             *)
(***************************************************************************)
NextEntry(p, d) ==
  scan' = [scan EXCEPT ![p] = [at |-> "scan", done |-> @.done \cup {d}, dir |-> "none", owner |-> <<>>]]

\* An entry of the directory: one without a marker is passed over.
ReadMarker(p, d) ==
  /\ scan[p].at = "scan" /\ d \notin scan[p].done /\ Exists(d)
  /\ IF "marker" \in files[d]
     THEN scan' = [scan EXCEPT ![p] = [at |-> "probe", done |-> @.done, dir |-> d, owner |-> marked[d]]]
     ELSE NextEntry(p, d)
  /\ UNCHANGED <<alive, pid, storage, files, marked>>

\* process_is_alive
Probe(p) ==
  /\ scan[p].at = "probe"
  /\ IF \E q \in Processes : alive[q] = "yes" /\ pid[q] = scan[p].owner
     THEN NextEntry(p, scan[p].dir)
     ELSE scan' = [scan EXCEPT ![p].at = "delete"]
  /\ UNCHANGED <<alive, pid, storage, files, marked>>

\* The directory goes last, and only when it is empty. Any error ends this one.
RemoveStale(p) ==
  /\ scan[p].at = "delete"
  /\ LET d == scan[p].dir IN
     \/ RemoveFile(d)
     \/ /\ files[d] = {} /\ storage' = [storage EXCEPT ![d] = "gone"]
        /\ NextEntry(p, d) /\ UNCHANGED <<alive, pid, files, marked>>
     \/ NextEntry(p, d) /\ UNCHANGED <<alive, pid, storage, files, marked>>

ScavengeNext ==
  \E p \in Processes :
    \/ \E n \in Pids : StartProcess(p, n)
    \/ MakeStorage(p) \/ StageMarker(p) \/ PublishMarker(p) \/ WorkerWrites(p) \/ StopWorker(p)
    \/ ReleaseStorage(p) \/ OwnerDies(p)
    \/ \E d \in Processes : ReadMarker(p, d)
    \/ Probe(p) \/ RemoveStale(p)

ScavengeDone == \A p \in Processes : alive[p] = "dead" /\ storage[p] # "open"

-----------------------------------------------------------------------------
\* No process ever sets out to delete the storage of a live one ("Record the owning process so
\* future processes can tell stale storage from a live broker's"), whoever starts or dies between
\* the making of the storage, its marking, the scan, the probe and the deletion, and though numbers
\* of dead processes are given again.
LiveStorageKept ==
  \A p, q \in Processes : alive[p] = "yes" /\ scan[q].at = "delete" => scan[q].dir # p
================================================================================
