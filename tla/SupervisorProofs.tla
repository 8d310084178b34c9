-------------------------- MODULE SupervisorProofs --------------------------
(***************************************************************************)
(* Theorems about Supervisor, for any set of cancellers and any bounds.    *)
(***************************************************************************)
EXTENDS Supervisor, TLAPS

Unreaped == {"running", "exited"}

\* Which worker each place in the supervisor thread's code is about, and
\* whether other threads may be aiming at it.
KillInv ==
  /\ \A f \in Forcers : fpc[f] = "kill" <=> holder = f
  /\ holder # NoThread => authority = "granted"
  /\ authority = "granted" => child \in Unreaped
  /\ spc \in {"precheck", "own", "launch"} => child = "none" /\ authority = "empty"
  /\ spc = "attach" => child \in Unreaped /\ authority = "empty"
  /\ spc \in {"recheck", "revoke"} \cup Serving => child \in Unreaped
  /\ spc \in {"kill", "reap"} => child \in Unreaped /\ authority # "granted"
  /\ spc \in {"dropFrames", "join", "release"} => child = "reaped"
  /\ spc = "unwind" => built
  /\ built => child # "none"

\* Where the permit and the storage are, as long as kills work.
LeaseInv ==
  /\ spc \in {"precheck", "own"} => ~storage
  /\ spc = "launch" => storage
  /\ spc \in {"precheck", "own", "launch"} \/ child \in Unreaped => permit = "held"
  /\ child \in Unreaped => storage
  /\ permit = "released" => ~storage
  /\ permit = "retained" => spc \in {"return", "done"} \/ (spc = "answer" /\ ~built)
  /\ spc \in Leaving => child \in {"none", "reaped"}

-----------------------------------------------------------------------------
USE DEF Launching, Serving, CleaningUp, Leaving

-----------------------------------------------------------------------------
(***************************************************************************)
(* Type correctness. Boolean-valued variables are kept apart from the rest *)
(* because no one prover is good at both.                                  *)
(***************************************************************************)

\* The Boolean half of the type invariant.
LEMMA FlagsStep == FlagsTypeOK /\ [Next]_vars => FlagsTypeOK'
<1> SUFFICES ASSUME FlagsTypeOK, [Next]_vars PROVE FlagsTypeOK'
  OBVIOUS
<1> USE DEF FlagsTypeOK, svars, chans, auth, wvars, rvars, owner, cvars, fault
<1>1. CASE LaunchStep
  <2>1. CASE Precheck BY <2>1 DEF Precheck, GiveUpEarly
  <2>2. CASE Own BY <2>2 DEF Own, GiveUpEarly
  <2>3. CASE Launch BY <2>3 DEF Launch
  <2>4. CASE Attach BY <2>4 DEF Attach
  <2>5. CASE Recheck BY <2>5 DEF Recheck
  <2> QED BY <1>1, <2>1, <2>2, <2>3, <2>4, <2>5 DEF LaunchStep
<1>2. CASE ServeStep
  <2>1. CASE Poll BY <2>1 DEF Poll
  <2>2. CASE TakeForce BY <2>2 DEF TakeForce, BeginCleanup
  <2>3. CASE TakeCommand BY <2>3 DEF TakeCommand
  <2>4. CASE Disconnected BY <2>4 DEF Disconnected, BeginCleanup
  <2>5. CASE WriteFails BY <2>5 DEF WriteFails, Fail, BeginCleanup
  <2>6. CASE FrameCompletes BY <2>6 DEF FrameCompletes
  <2>7. CASE FrameContinues BY <2>7 DEF FrameContinues
  <2>8. CASE FrameFails BY <2>8 DEF FrameFails, Fail, BeginCleanup
  <2>9. CASE SendEvent BY <2>9 DEF SendEvent, Fail, BeginCleanup
  <2>10. CASE ExitObserved BY <2>10 DEF ExitObserved, BeginCleanup
  <2> QED BY <1>2, <2>1, <2>2, <2>3, <2>4, <2>5, <2>6, <2>7, <2>8, <2>9, <2>10 DEF ServeStep
<1>3. CASE Write BY <1>3 DEF Write
<1>4. CASE Timeout BY <1>4 DEF Timeout, Fail, BeginCleanup
<1>5. CASE CleanStep
  <2>1. CASE Revoke BY <2>1 DEF Revoke
  <2>2. CASE Kill BY <2>2 DEF Kill
  <2>3. CASE KillFails BY <2>3 DEF KillFails
  <2>4. CASE Reap BY <2>4 DEF Reap
  <2>5. CASE DropFrames BY <2>5 DEF DropFrames
  <2>6. CASE Join BY <2>6 DEF Join
  <2>7. CASE Release BY <2>7 DEF Release, GiveBack, AfterCleanup
  <2>8. CASE ReleaseFails BY <2>8 DEF ReleaseFails, AfterCleanup
  <2>9. CASE Answer BY <2>9 DEF Answer
  <2>10. CASE Unwind BY <2>10 DEF Unwind
  <2>11. CASE DropOwner BY <2>11 DEF DropOwner, GiveBack
  <2>12. CASE Return BY <2>12 DEF Return
  <2> QED BY <1>5, <2>1, <2>2, <2>3, <2>4, <2>5, <2>6, <2>7, <2>8, <2>9, <2>10, <2>11, <2>12
      DEF CleanStep
<1>6. CASE WorkerStep
  <2>1. CASE WorkerExits BY <2>1 DEF WorkerExits
  <2>2. ASSUME NEW f \in Frames, WorkerWrites(f) PROVE FlagsTypeOK'
    BY <2>2 DEF WorkerWrites
  <2> QED BY <1>6, <2>1, <2>2 DEF WorkerStep
<1>7. CASE ReaderStep
  BY <1>7 DEF ReaderStep, ReaderReads, ReaderSends
<1>8. ASSUME NEW f \in Forcers, ForceStep(f) \/ Cancel(f) PROVE FlagsTypeOK'
  <2>1. CASE ForceSignal(f) BY <2>1 DEF ForceSignal
  <2>2. CASE ForceLock(f) BY <2>2 DEF ForceLock, AfterForce
  <2>3. CASE ForceKill(f) BY <2>3 DEF ForceKill, AfterForce
  <2>4. CASE Cancel(f) BY <2>4 DEF Cancel, BeginForce
  <2> QED BY <1>8, <2>1, <2>2, <2>3, <2>4 DEF ForceStep
<1>9. CASE CallerStep
  <2>1. CASE SpawnReturns BY <2>1 DEF SpawnReturns
  <2>2. ASSUME NEW k \in OpKinds, Issue(k) PROVE FlagsTypeOK'
    BY <2>2 DEF Issue
  <2>3. CASE IssueFails BY <2>3 DEF IssueFails, LoseHandle, BeginForce
  <2>4. CASE TakeEvent BY <2>4 DEF TakeEvent
  <2>5. CASE Receive BY <2>5 DEF Receive, LoseHandle, BeginForce
  <2>6. CASE Abandon BY <2>6 DEF Abandon, LoseHandle, BeginForce
  <2>7. CASE LingeringReceive BY <2>7 DEF LingeringReceive
  <2>8. CASE DropSession BY <2>8 DEF DropSession, LoseHandle, BeginForce
  <2>9. CASE CancelSession BY <2>9 DEF CancelSession, LoseHandle, BeginForce
  <2>10. CASE ForceClose BY <2>10 DEF ForceClose, LoseHandle, BeginForce
  <2>11. CASE ForceCloseReturns BY <2>11 DEF ForceCloseReturns
  <2> QED BY <1>9, <2>1, <2>2, <2>3, <2>4, <2>5, <2>6, <2>7, <2>8, <2>9, <2>10, <2>11
      DEF CallerStep
<1>10. CASE UNCHANGED vars BY <1>10 DEF vars
<1> QED BY <1>1, <1>2, <1>3, <1>4, <1>5, <1>6, <1>7, <1>8, <1>9, <1>10 DEF Next, Finished

OpType == [n : 0..MaxOps, kind : OpKinds, partial : BOOLEAN]

\* Taking the head of a queue: what comes out, what is left.
LEMMA HeadTail ==
  ASSUME NEW S, NEW q \in Seq(S), q # <<>>
  PROVE Head(q) \in S /\ Tail(q) \in Seq(S) /\ Len(Tail(q)) <= Len(q)
OBVIOUS

\* A forced cleanup serves no operation (NoOp).
LEMMA NoOpType == NoOp \in OpType
<1>1. 0 \in 0..MaxOps BY SupervisorAssumption
<1> QED BY <1>1 DEF OpType, NoOp, Op, OpKinds

\* A queued command is an operation.
LEMMA CommandType == DataTypeOK /\ commands # <<>> => Head(commands) \in OpType
<1> SUFFICES ASSUME DataTypeOK, commands # <<>> PROVE Head(commands) \in OpType
  OBVIOUS
<1>1. Head(commands) \in [n : Ops, kind : OpKinds, partial : {FALSE}]
  <2>1. commands \in Seq([n : Ops, kind : OpKinds, partial : {FALSE}]) BY DEF DataTypeOK
  <2> QED BY <2>1, HeadTail
<1>2. Ops \subseteq 0..MaxOps BY SupervisorAssumption DEF Ops
<1>3. [n : Ops, kind : OpKinds, partial : {FALSE}] \subseteq OpType BY <1>2 DEF OpType
<1> QED BY <1>1, <1>3

\* Recording a partial answer keeps an operation an operation.
LEMMA PartialType ==
  ASSUME NEW o \in OpType, NEW b \in BOOLEAN PROVE [o EXCEPT !.partial = b] \in OpType
BY DEF OpType

\* The other half: program counters, channels and counters within their bounds.
LEMMA DataStep == DataTypeOK /\ [Next]_vars => DataTypeOK'
<1> SUFFICES ASSUME DataTypeOK, [Next]_vars PROVE DataTypeOK'
  OBVIOUS
<1> USE DEF DataTypeOK, svars, chans, auth, wvars, rvars, owner, cvars, fault
<1>1. CASE LaunchStep
  <2>1. CASE Precheck BY <2>1 DEF Precheck, GiveUpEarly, Results, Terminal
  <2>2. CASE Own BY <2>2 DEF Own, GiveUpEarly, Results, Terminal
  <2>3. CASE Launch BY <2>3 DEF Launch, Results, Terminal
  <2>4. CASE Attach BY <2>4 DEF Attach, Results, Terminal
  <2>5. CASE Recheck BY <2>5 DEF Recheck, Results, Terminal
  <2> QED BY <1>1, <2>1, <2>2, <2>3, <2>4, <2>5 DEF LaunchStep
<1>2. CASE ServeStep
  <2>1. CASE Poll BY <2>1 DEF Poll
  <2>2. CASE TakeForce
    <3>1. op' \in OpType BY <2>2, NoOpType DEF OpType, TakeForce
    <3>2. lifecycle' \in 0..1 /\ result' \in Results
      BY <2>2 DEF TakeForce, BeginCleanup, Results, Terminal
    <3>3. spc' \in {"dropFrames", "revoke"} BY <2>2 DEF TakeForce, BeginCleanup
    <3> QED BY <2>2, <3>1, <3>2, <3>3 DEF OpType, TakeForce
  <2>3. CASE TakeCommand
    <3>1. op' \in OpType BY <2>3, CommandType DEF TakeCommand
    <3>2. commands' \in Seq([n : Ops, kind : OpKinds, partial : {FALSE}]) /\ Len(commands') <= 1
      BY <2>3 DEF TakeCommand
    <3> QED BY <2>3, <3>1, <3>2 DEF OpType, TakeCommand, Results
  <2>4. CASE Disconnected
    <3>1. op' \in OpType BY <2>4, NoOpType DEF Disconnected
    <3>2. result' \in Results /\ spc' \in {"dropFrames", "revoke"}
      BY <2>4 DEF Disconnected, BeginCleanup, Results
    <3> QED BY <2>4, <3>1, <3>2 DEF OpType, Disconnected
  <2>5. CASE WriteFails BY <2>5 DEF WriteFails, Fail, BeginCleanup, Results, Terminal
  <2>6. CASE FrameCompletes
    <3>1. replies' \in [Ops -> Results \cup {"none", "closed"}] BY <2>6 DEF FrameCompletes, Results
    <3>2. boot' \in {"none", "ok", "err"} /\ spc' \in {"exitPoll", "loop"}
      BY <2>6 DEF FrameCompletes
    <3> QED BY <2>6, <3>1, <3>2 DEF FrameCompletes
  <2>7. CASE FrameContinues
    <3>1. op' \in OpType BY <2>7, PartialType DEF OpType, FrameContinues
    <3> QED BY <2>7, <3>1 DEF OpType, FrameContinues
  <2>8. CASE FrameFails BY <2>8 DEF FrameFails, Fail, BeginCleanup, Results, Recoverable, Terminal
  <2>9. CASE SendEvent BY <2>9 DEF SendEvent, Fail, BeginCleanup, Results, Terminal
  <2>10. CASE ExitObserved BY <2>10 DEF ExitObserved, BeginCleanup, Results, Terminal
  <2> QED BY <1>2, <2>1, <2>2, <2>3, <2>4, <2>5, <2>6, <2>7, <2>8, <2>9, <2>10 DEF ServeStep
<1>3. CASE Write BY <1>3 DEF Write
<1>4. CASE Timeout BY <1>4 DEF Timeout, Fail, BeginCleanup, Results, Terminal
<1>5. CASE CleanStep
  <2>1. CASE Revoke BY <2>1 DEF Revoke
  <2>2. CASE Kill BY <2>2 DEF Kill
  <2>3. CASE KillFails BY <2>3, SupervisorAssumption DEF KillFails, Results, Terminal
  <2>4. CASE Reap BY <2>4 DEF Reap, Results, Terminal
  <2>5. CASE DropFrames BY <2>5 DEF DropFrames
  <2>6. CASE Join BY <2>6 DEF Join
  <2>7. CASE Release BY <2>7 DEF Release, GiveBack, AfterCleanup
  <2>8. CASE ReleaseFails BY <2>8, SupervisorAssumption DEF ReleaseFails, AfterCleanup, Results, Terminal
  <2>9. CASE Answer BY <2>9 DEF Answer
  <2>10. CASE Unwind BY <2>10 DEF Unwind
  <2>11. CASE DropOwner BY <2>11, SupervisorAssumption DEF DropOwner, GiveBack
  <2>12. CASE Return BY <2>12 DEF Return
  <2> QED BY <1>5, <2>1, <2>2, <2>3, <2>4, <2>5, <2>6, <2>7, <2>8, <2>9, <2>10, <2>11, <2>12
      DEF CleanStep
<1>6. CASE WorkerStep
  <2>1. CASE WorkerExits BY <2>1 DEF WorkerExits
  <2>2. ASSUME NEW f \in Frames, WorkerWrites(f) PROVE DataTypeOK'
    BY <2>2, SupervisorAssumption DEF WorkerWrites
  <2> QED BY <1>6, <2>1, <2>2 DEF WorkerStep
<1>7. CASE ReaderStep
  <2>1. CASE ReaderReads
    <3>1. CASE pipe # <<>>
      <4>1. pipe' = Tail(pipe) /\ held' = Head(pipe) BY <2>1, <3>1 DEF ReaderReads
      <4>2. Head(pipe) \in Frames /\ Tail(pipe) \in Seq(Frames) /\ Len(Tail(pipe)) <= PipeCap
        <5>1. pipe \in Seq(Frames) /\ Len(pipe) <= PipeCap /\ PipeCap \in Nat
          BY SupervisorAssumption
        <5> QED BY ONLY <3>1, <5>1
      <4> QED BY <2>1, <4>1, <4>2 DEF ReaderReads
    <3>2. CASE pipe = <<>>
      <4>1. held' \in Frames /\ pipe' = pipe BY <2>1, <3>2 DEF ReaderReads, Frames
      <4> QED BY <2>1, <4>1 DEF ReaderReads
    <3> QED BY <3>1, <3>2
  <2>2. CASE ReaderSends BY <2>2 DEF ReaderSends, Frames
  <2> QED BY <1>7, <2>1, <2>2 DEF ReaderStep
<1>8. ASSUME NEW f \in Forcers, ForceStep(f) \/ Cancel(f) PROVE DataTypeOK'
  <2>1. CASE ForceSignal(f) BY <2>1 DEF ForceSignal
  <2>2. CASE ForceLock(f) BY <2>2 DEF ForceLock, AfterForce
  <2>3. CASE ForceKill(f) BY <2>3, SupervisorAssumption DEF ForceKill, AfterForce
  <2>4. CASE Cancel(f) BY <2>4 DEF Cancel, BeginForce
  <2> QED BY <1>8, <2>1, <2>2, <2>3, <2>4 DEF ForceStep
<1>9. CASE CallerStep
  <2>1. CASE SpawnReturns BY <2>1 DEF SpawnReturns
  <2>2. ASSUME NEW k \in OpKinds, Issue(k) PROVE DataTypeOK'
    BY <2>2, SupervisorAssumption DEF Issue, Op, Ops
  <2>3. CASE IssueFails BY <2>3 DEF IssueFails, LoseHandle, BeginForce, Forcers
  <2>4. CASE TakeEvent BY <2>4 DEF TakeEvent
  <2>5. CASE Receive BY <2>5 DEF Receive, LoseHandle, BeginForce, Forcers
  <2>6. CASE Abandon BY <2>6 DEF Abandon, LoseHandle, BeginForce, Forcers
  <2>7. CASE LingeringReceive BY <2>7 DEF LingeringReceive
  <2>8. CASE DropSession BY <2>8 DEF DropSession, LoseHandle, BeginForce, Forcers
  <2>9. CASE CancelSession BY <2>9 DEF CancelSession, LoseHandle, BeginForce, Forcers
  <2>10. CASE ForceClose BY <2>10 DEF ForceClose, LoseHandle, BeginForce, Forcers
  <2>11. CASE ForceCloseReturns BY <2>11 DEF ForceCloseReturns
  <2> QED BY <1>9, <2>1, <2>2, <2>3, <2>4, <2>5, <2>6, <2>7, <2>8, <2>9, <2>10, <2>11
      DEF CallerStep
<1>10. CASE UNCHANGED vars BY <1>10 DEF vars
<1> QED BY <1>1, <1>2, <1>3, <1>4, <1>5, <1>6, <1>7, <1>8, <1>9, <1>10 DEF Next, Finished

\* Type correctness: no channel overflows its capacity and no thread leaves the
\* code it is written for (TypeOK of supervisor_safety, for all bounds).
THEOREM TypeCorrect == Spec => []TypeOK
<1>1. Init => FlagsTypeOK
  BY DEF Init, FlagsTypeOK
<1>2. Init => DataTypeOK
  <2> SUFFICES ASSUME Init PROVE DataTypeOK
    OBVIOUS
  <2>1. op \in OpType
    <3>1. 0 \in 0..MaxOps BY SupervisorAssumption
    <3> QED BY <3>1 DEF Init, Hello, Op, OpType, OpKinds
  <2>2. pipe \in Seq(Frames) /\ Len(pipe) <= PipeCap
    BY SupervisorAssumption DEF Init
  <2>3. commands \in Seq([n : Ops, kind : OpKinds, partial : {FALSE}]) /\ Len(commands) <= 1
    BY DEF Init
  <2>4. issued \in 0..MaxOps /\ killFaults \in 0..MaxKillFaults /\ removeFaults \in 0..MaxRemoveFaults
    BY SupervisorAssumption DEF Init
  <2> QED BY <2>1, <2>2, <2>3, <2>4 DEF Init, DataTypeOK, OpType, Results, Frames, OpKinds
<1>3. TypeOK /\ [Next]_vars => TypeOK'
  BY FlagsStep, DataStep DEF TypeOK
<1> QED BY <1>1, <1>2, <1>3, PTL DEF Spec, TypeOK

-----------------------------------------------------------------------------
(***************************************************************************)
(* Kills aim at a live target.                                             *)
(***************************************************************************)

\* Every step keeps the worker and the kill authority in agreement with the
\* place of the supervisor thread, however many kills fail.
LEMMA KillStep == TypeOK /\ KillInv /\ [Next]_vars => KillInv'
<1> SUFFICES ASSUME TypeOK, KillInv, [Next]_vars PROVE KillInv'
  OBVIOUS
<1> DEFINE ChildTypeOK == child \in {"none", "running", "exited", "reaped"}
<1>a. ChildTypeOK /\ fpc \in [Forcers -> {"idle", "signal", "lock", "kill", "spent"}]
      /\ NoThread \notin Forcers /\ Caller \in Forcers
  BY SupervisorAssumption DEF TypeOK, DataTypeOK, Forcers
<1> USE <1>a DEF KillInv, Unreaped, svars, chans, auth, wvars, rvars, owner, cvars, fault
<1>1. CASE LaunchStep
  <2>1. CASE Precheck BY <2>1 DEF Precheck, GiveUpEarly
  <2>2. CASE Own BY <2>2 DEF Own, GiveUpEarly
  <2>3. CASE Launch BY <2>3 DEF Launch
  <2>4. CASE Attach BY <2>4 DEF Attach
  <2>5. CASE Recheck BY <2>5 DEF Recheck
  <2> QED BY <1>1, <2>1, <2>2, <2>3, <2>4, <2>5 DEF LaunchStep
<1>2. CASE ServeStep
  <2>1. CASE Poll BY <2>1 DEF Poll
  <2>2. CASE TakeForce BY <2>2 DEF TakeForce, BeginCleanup
  <2>3. CASE TakeCommand BY <2>3 DEF TakeCommand
  <2>4. CASE Disconnected BY <2>4 DEF Disconnected, BeginCleanup
  <2>5. CASE WriteFails BY <2>5 DEF WriteFails, Fail, BeginCleanup
  <2>6. CASE FrameCompletes BY <2>6 DEF FrameCompletes
  <2>7. CASE FrameContinues BY <2>7 DEF FrameContinues
  <2>8. CASE FrameFails BY <2>8 DEF FrameFails, Fail, BeginCleanup
  <2>9. CASE SendEvent BY <2>9 DEF SendEvent, Fail, BeginCleanup
  <2>10. CASE ExitObserved BY <2>10 DEF ExitObserved, BeginCleanup
  <2> QED BY <1>2, <2>1, <2>2, <2>3, <2>4, <2>5, <2>6, <2>7, <2>8, <2>9, <2>10 DEF ServeStep
<1>3. CASE Write BY <1>3 DEF Write
<1>4. CASE Timeout BY <1>4 DEF Timeout, Fail, BeginCleanup
<1>5. CASE CleanStep
  <2>1. CASE Revoke BY <2>1 DEF Revoke
  <2>2. CASE Kill BY <2>2 DEF Kill
  <2>3. CASE KillFails BY <2>3 DEF KillFails
  <2>4. CASE Reap BY <2>4 DEF Reap
  <2>5. CASE DropFrames BY <2>5 DEF DropFrames
  <2>6. CASE Join BY <2>6 DEF Join
  <2>7. CASE Release BY <2>7 DEF Release, GiveBack, AfterCleanup
  <2>8. CASE ReleaseFails BY <2>8 DEF ReleaseFails, AfterCleanup
  <2>9. CASE Answer BY <2>9 DEF Answer
  <2>10. CASE Unwind BY <2>10 DEF Unwind
  <2>11. CASE DropOwner BY <2>11 DEF DropOwner, GiveBack
  <2>12. CASE Return BY <2>12 DEF Return
  <2> QED BY <1>5, <2>1, <2>2, <2>3, <2>4, <2>5, <2>6, <2>7, <2>8, <2>9, <2>10, <2>11, <2>12
      DEF CleanStep
<1>6. CASE WorkerStep
  BY <1>6 DEF WorkerStep, WorkerExits, WorkerWrites
<1>7. CASE ReaderStep
  BY <1>7 DEF ReaderStep, ReaderReads, ReaderSends
<1>8. ASSUME NEW f \in Forcers, ForceStep(f) \/ Cancel(f) PROVE KillInv'
  <2>1. CASE ForceSignal(f) BY <2>1 DEF ForceSignal
  <2>2. CASE ForceLock(f) BY <2>2 DEF ForceLock, AfterForce
  <2>3. CASE ForceKill(f) BY <2>3 DEF ForceKill, AfterForce
  <2>4. CASE Cancel(f) BY <2>4 DEF Cancel, BeginForce
  <2> QED BY <1>8, <2>1, <2>2, <2>3, <2>4 DEF ForceStep
<1>9. CASE CallerStep
  <2>1. CASE SpawnReturns BY <2>1 DEF SpawnReturns
  <2>2. ASSUME NEW k \in OpKinds, Issue(k) PROVE KillInv'
    BY <2>2 DEF Issue
  <2>3. CASE IssueFails BY <2>3 DEF IssueFails, CallerFree, LoseHandle, BeginForce
  <2>4. CASE TakeEvent BY <2>4 DEF TakeEvent
  <2>5. CASE Receive BY <2>5 DEF Receive, CallerFree, LoseHandle, BeginForce
  <2>6. CASE Abandon BY <2>6 DEF Abandon, CallerFree, LoseHandle, BeginForce
  <2>7. CASE LingeringReceive BY <2>7 DEF LingeringReceive
  <2>8. CASE DropSession BY <2>8 DEF DropSession, CallerFree, LoseHandle, BeginForce
  <2>9. CASE CancelSession BY <2>9 DEF CancelSession, CallerFree, LoseHandle, BeginForce
  <2>10. CASE ForceClose BY <2>10 DEF ForceClose, CallerFree, LoseHandle, BeginForce
  <2>11. CASE ForceCloseReturns BY <2>11 DEF ForceCloseReturns
  <2> QED BY <1>9, <2>1, <2>2, <2>3, <2>4, <2>5, <2>6, <2>7, <2>8, <2>9, <2>10, <2>11
      DEF CallerStep
<1>10. CASE UNCHANGED vars BY <1>10 DEF vars
<1> QED BY <1>1, <1>2, <1>3, <1>4, <1>5, <1>6, <1>7, <1>8, <1>9, <1>10 DEF Next, Finished

\* The supervisor never reaps a worker another thread is about to kill, so the
\* process-group id in that thread's hands is never stale.
THEOREM KillSafe == Spec => []KillTargetsOwnChild
<1>1. Init => KillInv
  BY SupervisorAssumption DEF Init, KillInv, Unreaped, Forcers
<1>2. KillInv => KillTargetsOwnChild
  BY SupervisorAssumption DEF KillInv, KillTargetsOwnChild, Unreaped, Forcers
<1>3. Spec => []KillInv
  BY <1>1, KillStep, TypeCorrect, PTL DEF Spec
<1> QED BY <1>2, <1>3, PTL

-----------------------------------------------------------------------------
(***************************************************************************)
(* Permit and storage outlive the worker. A kill that fails breaks this    *)
(* (the lease is handed back although the worker may still run), and so    *)
(* these theorems assume MaxKillFaults = 0.                                *)
(***************************************************************************)

\* Every step keeps permit and storage where the supervisor thread's place in
\* the code says they are.
LEMMA LeaseStep ==
  ASSUME MaxKillFaults = 0
  PROVE  TypeOK /\ KillInv /\ LeaseInv /\ [Next]_vars => LeaseInv'
<1> SUFFICES ASSUME TypeOK, KillInv, LeaseInv, [Next]_vars PROVE LeaseInv'
  OBVIOUS
<1>a. child \in {"none", "running", "exited", "reaped"} /\ ~(killFaults < MaxKillFaults)
  BY DEF TypeOK, DataTypeOK
<1> USE <1>a DEF KillInv, LeaseInv, Unreaped, svars, chans, auth, wvars, rvars, owner, cvars,
      fault
<1>1. CASE LaunchStep
  <2>1. CASE Precheck BY <2>1 DEF Precheck, GiveUpEarly
  <2>2. CASE Own BY <2>2 DEF Own, GiveUpEarly
  <2>3. CASE Launch BY <2>3 DEF Launch
  <2>4. CASE Attach BY <2>4 DEF Attach
  <2>5. CASE Recheck BY <2>5 DEF Recheck
  <2> QED BY <1>1, <2>1, <2>2, <2>3, <2>4, <2>5 DEF LaunchStep
<1>2. CASE ServeStep
  <2>1. CASE Poll BY <2>1 DEF Poll
  <2>2. CASE TakeForce BY <2>2 DEF TakeForce, BeginCleanup
  <2>3. CASE TakeCommand BY <2>3 DEF TakeCommand
  <2>4. CASE Disconnected BY <2>4 DEF Disconnected, BeginCleanup
  <2>5. CASE WriteFails BY <2>5 DEF WriteFails, Fail, BeginCleanup
  <2>6. CASE FrameCompletes BY <2>6 DEF FrameCompletes
  <2>7. CASE FrameContinues BY <2>7 DEF FrameContinues
  <2>8. CASE FrameFails BY <2>8 DEF FrameFails, Fail, BeginCleanup
  <2>9. CASE SendEvent BY <2>9 DEF SendEvent, Fail, BeginCleanup
  <2>10. CASE ExitObserved BY <2>10 DEF ExitObserved, BeginCleanup
  <2> QED BY <1>2, <2>1, <2>2, <2>3, <2>4, <2>5, <2>6, <2>7, <2>8, <2>9, <2>10 DEF ServeStep
<1>3. CASE Write BY <1>3 DEF Write
<1>4. CASE Timeout BY <1>4 DEF Timeout, Fail, BeginCleanup
<1>5. CASE CleanStep
  <2>1. CASE Revoke BY <2>1 DEF Revoke
  <2>2. CASE Kill BY <2>2 DEF Kill
  <2>3. CASE KillFails BY <2>3 DEF KillFails
  <2>4. CASE Reap BY <2>4 DEF Reap
  <2>5. CASE DropFrames BY <2>5 DEF DropFrames
  <2>6. CASE Join BY <2>6 DEF Join
  <2>7. CASE Release BY <2>7 DEF Release, GiveBack, AfterCleanup
  <2>8. CASE ReleaseFails BY <2>8 DEF ReleaseFails, AfterCleanup
  <2>9. CASE Answer BY <2>9 DEF Answer
  <2>10. CASE Unwind BY <2>10 DEF Unwind
  <2>11. CASE DropOwner BY <2>11 DEF DropOwner, GiveBack
  <2>12. CASE Return BY <2>12 DEF Return
  <2> QED BY <1>5, <2>1, <2>2, <2>3, <2>4, <2>5, <2>6, <2>7, <2>8, <2>9, <2>10, <2>11, <2>12
      DEF CleanStep
<1>6. CASE WorkerStep
  BY <1>6 DEF WorkerStep, WorkerExits, WorkerWrites
<1>7. CASE ReaderStep
  BY <1>7 DEF ReaderStep, ReaderReads, ReaderSends
<1>8. ASSUME NEW f \in Forcers, ForceStep(f) \/ Cancel(f) PROVE LeaseInv'
  <2>1. CASE ForceSignal(f) BY <2>1 DEF ForceSignal
  <2>2. CASE ForceLock(f) BY <2>2 DEF ForceLock, AfterForce
  <2>3. CASE ForceKill(f) BY <2>3 DEF ForceKill, AfterForce
  <2>4. CASE Cancel(f) BY <2>4 DEF Cancel, BeginForce
  <2> QED BY <1>8, <2>1, <2>2, <2>3, <2>4 DEF ForceStep
<1>9. CASE CallerStep
  <2>1. CASE SpawnReturns BY <2>1 DEF SpawnReturns
  <2>2. ASSUME NEW k \in OpKinds, Issue(k) PROVE LeaseInv'
    BY <2>2 DEF Issue
  <2>3. CASE IssueFails BY <2>3 DEF IssueFails, LoseHandle, BeginForce
  <2>4. CASE TakeEvent BY <2>4 DEF TakeEvent
  <2>5. CASE Receive BY <2>5 DEF Receive, LoseHandle, BeginForce
  <2>6. CASE Abandon BY <2>6 DEF Abandon, LoseHandle, BeginForce
  <2>7. CASE LingeringReceive BY <2>7 DEF LingeringReceive
  <2>8. CASE DropSession BY <2>8 DEF DropSession, LoseHandle, BeginForce
  <2>9. CASE CancelSession BY <2>9 DEF CancelSession, LoseHandle, BeginForce
  <2>10. CASE ForceClose BY <2>10 DEF ForceClose, LoseHandle, BeginForce
  <2>11. CASE ForceCloseReturns BY <2>11 DEF ForceCloseReturns
  <2> QED BY <1>9, <2>1, <2>2, <2>3, <2>4, <2>5, <2>6, <2>7, <2>8, <2>9, <2>10, <2>11
      DEF CallerStep
<1>10. CASE UNCHANGED vars BY <1>10 DEF vars
<1> QED BY <1>1, <1>2, <1>3, <1>4, <1>5, <1>6, <1>7, <1>8, <1>9, <1>10 DEF Next, Finished

\* As long as kills work, nobody else gets the permit while the worker is
\* unreaped or its storage exists.
THEOREM PermitSafe ==
  ASSUME MaxKillFaults = 0
  PROVE  Spec => []PermitCoversWorker
<1>1. Init => LeaseInv
  BY DEF Init, LeaseInv, Unreaped
<1>2. TypeOK /\ LeaseInv => PermitCoversWorker
  BY DEF TypeOK, DataTypeOK, LeaseInv, PermitCoversWorker, Unreaped
<1>3. Init => KillInv
  BY SupervisorAssumption DEF Init, KillInv, Unreaped, Forcers
<1>4. Spec => []LeaseInv
  BY <1>1, <1>3, KillStep, LeaseStep, TypeCorrect, PTL DEF Spec
<1> QED BY <1>2, <1>4, TypeCorrect, PTL

-----------------------------------------------------------------------------
(***************************************************************************)
(* A terminal answer comes after the cleanup. What is answered so is       *)
(* answered by a thread that only has its ends to tie, and that will not   *)
(* start another worker.                                                   *)
(***************************************************************************)
DownFor == Terminal \cup {"closed"}
Settled == {"dropFrames", "join", "release"} \cup Leaving

AnswerInv == \A n \in Ops : replies[n] \in DownFor => spc \in Settled

\* Once an operation was answered by a terminal error the thread never goes
\* back to where a worker is alive.
LEMMA AnswerStep ==
  ASSUME MaxKillFaults = 0
  PROVE  TypeOK /\ KillInv /\ LeaseInv /\ AnswerInv /\ [Next]_vars => AnswerInv'
<1> SUFFICES ASSUME TypeOK, KillInv, LeaseInv, AnswerInv, [Next]_vars PROVE AnswerInv'
  OBVIOUS
<1>1. replies \in [Ops -> Results \cup {"none", "closed"}]
  BY DEF TypeOK, DataTypeOK
<1>2. spc = "unwind" => child = "reaped"
  BY DEF KillInv, LeaseInv
<1>a. ASSUME spc' \in Settled PROVE AnswerInv'
  BY <1>a DEF AnswerInv
<1>b. ASSUME UNCHANGED <<spc, replies>> PROVE AnswerInv'
  BY <1>b DEF AnswerInv
<1>c. ASSUME spc \notin Settled, \A n \in Ops : replies'[n] \in DownFor => replies[n] \in DownFor
      PROVE  AnswerInv'
  BY <1>c DEF AnswerInv
<1>d. ASSUME spc \notin Settled, UNCHANGED replies PROVE AnswerInv'
  BY <1>c, <1>d
<1>e. ASSUME spc \notin Settled, NEW r \in {"recoverable", "timeout", "unavailable"}, Fail(r)
      PROVE  AnswerInv'
  <2>1. CASE UNCHANGED replies
    BY <1>d, <1>e, <2>1
  <2>2. CASE r \notin Terminal /\ replies' = [replies EXCEPT ![op.n] = r]
    <3>1. r \notin DownFor
      BY <1>e, <2>2 DEF DownFor
    <3>2. \A n \in Ops : replies'[n] = r \/ replies'[n] = replies[n]
      BY <1>1, <2>2
    <3> QED BY <1>c, <1>e, <3>1, <3>2
  <2> QED BY <1>e, <2>1, <2>2 DEF Fail
<1> USE DEF Settled
<1>3. CASE LaunchStep
  <2>1. spc \notin Settled /\ UNCHANGED replies
    BY <1>3 DEF LaunchStep, Precheck, Own, Launch, Attach, Recheck, chans, wvars
  <2> QED BY <1>d, <2>1
<1>4. CASE ServeStep
  <2>1. CASE Poll BY <1>d, <2>1 DEF Poll, chans
  <2>2. CASE TakeForce BY <1>d, <2>2 DEF TakeForce
  <2>3. CASE TakeCommand BY <1>d, <2>3 DEF TakeCommand
  <2>4. CASE Disconnected BY <1>d, <2>4 DEF Disconnected, chans
  <2>5. CASE WriteFails BY <1>e, <2>5 DEF WriteFails
  <2>6. CASE FrameCompletes
    <3>1. spc \notin Settled /\ (replies' = replies \/ replies' = [replies EXCEPT ![op.n] = "ok"])
      BY <2>6 DEF FrameCompletes
    <3>2. \A n \in Ops : replies'[n] = "ok" \/ replies'[n] = replies[n]
      BY <1>1, <3>1
    <3>3. "ok" \notin DownFor
      BY DEF DownFor, Terminal
    <3> QED BY <1>c, <3>1, <3>2, <3>3
  <2>7. CASE FrameContinues BY <1>d, <2>7 DEF FrameContinues, chans
  <2>8. CASE FrameFails BY <1>e, <2>8 DEF FrameFails
  <2>9. CASE SendEvent BY <1>d, <1>e, <2>9 DEF SendEvent
  <2>10. CASE ExitObserved BY <1>d, <2>10 DEF ExitObserved, chans
  <2> QED BY <1>4, <2>1, <2>2, <2>3, <2>4, <2>5, <2>6, <2>7, <2>8, <2>9, <2>10 DEF ServeStep
<1>5. CASE Write BY <1>5, <1>d DEF Write, chans
<1>6. CASE Timeout BY <1>6, <1>e DEF Timeout
<1>7. CASE CleanStep
  <2>1. CASE Revoke BY <1>d, <2>1 DEF Revoke, chans
  <2>2. CASE Kill BY <1>d, <2>2 DEF Kill, chans
  <2>3. CASE KillFails BY <1>d, <2>3 DEF KillFails, chans
  <2>4. CASE Reap BY <1>a, <2>4 DEF Reap
  <2>5. CASE DropFrames BY <1>a, <2>5 DEF DropFrames
  <2>6. CASE Join BY <1>a, <2>6 DEF Join
  <2>7. CASE Release BY <1>a, <2>7 DEF Release, AfterCleanup
  <2>8. CASE ReleaseFails BY <1>a, <2>8 DEF ReleaseFails, AfterCleanup
  <2>9. CASE Answer BY <1>a, <2>9 DEF Answer
  <2>10. CASE Unwind BY <1>2, <1>a, <2>10 DEF Unwind
  <2>11. CASE DropOwner BY <1>a, <2>11 DEF DropOwner
  <2>12. CASE Return BY <1>a, <2>12 DEF Return
  <2> QED BY <1>7, <2>1, <2>2, <2>3, <2>4, <2>5, <2>6, <2>7, <2>8, <2>9, <2>10, <2>11, <2>12
      DEF CleanStep
<1>8. CASE WorkerStep \/ ReaderStep
  <2>1. UNCHANGED <<spc, replies>>
    BY <1>8 DEF WorkerStep, WorkerExits, WorkerWrites, ReaderStep, ReaderReads, ReaderSends, svars, chans
  <2> QED BY <1>b, <2>1
<1>9. ASSUME NEW f \in Forcers, ForceStep(f) \/ Cancel(f) PROVE AnswerInv'
  <2>1. UNCHANGED <<spc, replies>>
    BY <1>9 DEF ForceStep, ForceSignal, ForceLock, ForceKill, Cancel, svars, chans
  <2> QED BY <1>b, <2>1
<1>10. CASE CallerStep
  <2>1. UNCHANGED <<spc, replies>>
    <3>1. CASE \E k \in OpKinds : Issue(k) BY <3>1 DEF Issue, svars
    <3>2. CASE SpawnReturns \/ IssueFails \/ TakeEvent \/ Receive \/ Abandon \/ LingeringReceive
      BY <3>2 DEF SpawnReturns, IssueFails, TakeEvent, Receive, Abandon, LingeringReceive, svars, chans
    <3>3. CASE DropSession \/ CancelSession \/ ForceClose \/ ForceCloseReturns
      BY <3>3 DEF DropSession, CancelSession, ForceClose, ForceCloseReturns, svars, chans
    <3> QED BY <1>10, <3>1, <3>2, <3>3 DEF CallerStep
  <2> QED BY <1>b, <2>1
<1>11. CASE Finished \/ UNCHANGED vars BY <1>11, <1>b DEF Finished, vars, svars, chans
<1> QED BY <1>3, <1>4, <1>5, <1>6, <1>7, <1>8, <1>9, <1>10, <1>11 DEF Next

\* An operation that reports a terminal error finds its worker reaped, as long
\* as kills work: finish_operation may disarm the handle.
THEOREM TerminalAnswerHolds ==
  ASSUME MaxKillFaults = 0
  PROVE  Spec => []TerminalAnswerMeansDown
<1>1. Init => AnswerInv
  <2> SUFFICES ASSUME Init PROVE AnswerInv
    OBVIOUS
  <2>1. \A n \in Ops : replies[n] = "none"
    BY DEF Init
  <2> QED BY <2>1 DEF AnswerInv, DownFor, Terminal
<1>2. KillInv /\ LeaseInv /\ AnswerInv => TerminalAnswerMeansDown
  BY DEF KillInv, LeaseInv, AnswerInv, TerminalAnswerMeansDown, DownFor, Settled
<1>3. Init => LeaseInv /\ KillInv
  BY SupervisorAssumption DEF Init, LeaseInv, KillInv, Unreaped, Forcers
<1>4. Spec => [](TypeOK /\ KillInv /\ LeaseInv)
  BY <1>3, KillStep, LeaseStep, TypeCorrect, PTL DEF Spec
<1> QED BY <1>1, <1>2, <1>4, AnswerStep, PTL DEF Spec

-----------------------------------------------------------------------------
(***************************************************************************)
(* The supervisor implements the lease.                                    *)
(***************************************************************************)

\* What a step does to worker, storage and permit is a step of the lease, or
\* nothing.
LEMMA LeaseSimulation ==
  ASSUME MaxKillFaults = 0
  PROVE  TypeOK /\ KillInv /\ LeaseInv /\ [Next]_vars => [Lease!Next]_(Lease!lvars)
<1> DEFINE Kept == Lease!Next \/ UNCHANGED Lease!lvars
<1> SUFFICES ASSUME TypeOK, KillInv, LeaseInv, [Next]_vars PROVE Kept
  OBVIOUS
<1>a. /\ child \in {"none", "running", "exited", "reaped"}
      /\ permit \in {"held", "released", "retained"}
      /\ ~(killFaults < MaxKillFaults)
  BY DEF TypeOK, DataTypeOK
<1>b. storage \in BOOLEAN
  BY DEF TypeOK, FlagsTypeOK
<1> USE <1>a, <1>b DEF KillInv, LeaseInv, Unreaped, svars, chans, auth, wvars, rvars, owner, cvars,
      fault, Lease!lvars
<1>1. CASE LaunchStep
  <2>1. CASE Precheck BY <2>1 DEF Precheck, GiveUpEarly, Lease!Next, Lease!GiveBack
  <2>2. CASE Own BY <2>2 DEF Own, GiveUpEarly, Lease!Next, Lease!GiveBack, Lease!CreateStorage
  <2>3. CASE Launch BY <2>3 DEF Launch, Lease!Next, Lease!StartWorker
  <2>4. CASE Attach BY <2>4 DEF Attach
  <2>5. CASE Recheck BY <2>5 DEF Recheck
  <2> QED BY <1>1, <2>1, <2>2, <2>3, <2>4, <2>5 DEF LaunchStep
<1>2. CASE ServeStep
  <2>1. CASE Poll BY <2>1 DEF Poll
  <2>2. CASE TakeForce BY <2>2 DEF TakeForce, BeginCleanup
  <2>3. CASE TakeCommand BY <2>3 DEF TakeCommand
  <2>4. CASE Disconnected BY <2>4 DEF Disconnected, BeginCleanup
  <2>5. CASE WriteFails BY <2>5 DEF WriteFails, Fail, BeginCleanup
  <2>6. CASE FrameCompletes BY <2>6 DEF FrameCompletes
  <2>7. CASE FrameContinues BY <2>7 DEF FrameContinues
  <2>8. CASE FrameFails BY <2>8 DEF FrameFails, Fail, BeginCleanup
  <2>9. CASE SendEvent BY <2>9 DEF SendEvent, Fail, BeginCleanup
  <2>10. CASE ExitObserved BY <2>10 DEF ExitObserved, BeginCleanup
  <2> QED BY <1>2, <2>1, <2>2, <2>3, <2>4, <2>5, <2>6, <2>7, <2>8, <2>9, <2>10 DEF ServeStep
<1>3. CASE Write BY <1>3 DEF Write
<1>4. CASE Timeout BY <1>4 DEF Timeout, Fail, BeginCleanup
<1>5. CASE CleanStep
  <2>1. CASE Revoke BY <2>1 DEF Revoke
  <2>2. CASE Kill BY <2>2 DEF Kill
  <2>3. CASE KillFails BY <2>3 DEF KillFails
  <2>4. CASE Reap BY <2>4 DEF Reap, Lease!Next, Lease!ReapWorker
  <2>5. CASE DropFrames BY <2>5 DEF DropFrames
  <2>6. CASE Join BY <2>6 DEF Join
  <2>7. CASE Release BY <2>7 DEF Release, GiveBack, AfterCleanup, Lease!Next, Lease!GiveBack
  <2>8. CASE ReleaseFails BY <2>8 DEF ReleaseFails, AfterCleanup
  <2>9. CASE Answer BY <2>9 DEF Answer
  <2>10. CASE Unwind BY <2>10 DEF Unwind
  <2>11. CASE DropOwner
    BY <2>11 DEF DropOwner, GiveBack, Lease!Next, Lease!GiveBack, Lease!WriteOff
  <2>12. CASE Return BY <2>12 DEF Return
  <2> QED BY <1>5, <2>1, <2>2, <2>3, <2>4, <2>5, <2>6, <2>7, <2>8, <2>9, <2>10, <2>11, <2>12
      DEF CleanStep
<1>6. CASE WorkerStep
  BY <1>6 DEF WorkerStep, WorkerExits, WorkerWrites
<1>7. CASE ReaderStep
  BY <1>7 DEF ReaderStep, ReaderReads, ReaderSends
<1>8. ASSUME NEW f \in Forcers, ForceStep(f) \/ Cancel(f) PROVE Kept
  <2>1. CASE ForceSignal(f) BY <2>1 DEF ForceSignal
  <2>2. CASE ForceLock(f) BY <2>2 DEF ForceLock, AfterForce
  <2>3. CASE ForceKill(f) BY <2>3 DEF ForceKill, AfterForce
  <2>4. CASE Cancel(f) BY <2>4 DEF Cancel, BeginForce
  <2> QED BY <1>8, <2>1, <2>2, <2>3, <2>4 DEF ForceStep
<1>9. CASE CallerStep
  <2>1. CASE SpawnReturns BY <2>1 DEF SpawnReturns
  <2>2. ASSUME NEW k \in OpKinds, Issue(k) PROVE Kept
    BY <2>2 DEF Issue
  <2>3. CASE IssueFails BY <2>3 DEF IssueFails, LoseHandle, BeginForce
  <2>4. CASE TakeEvent BY <2>4 DEF TakeEvent
  <2>5. CASE Receive BY <2>5 DEF Receive, LoseHandle, BeginForce
  <2>6. CASE Abandon BY <2>6 DEF Abandon, LoseHandle, BeginForce
  <2>7. CASE LingeringReceive BY <2>7 DEF LingeringReceive
  <2>8. CASE DropSession BY <2>8 DEF DropSession, LoseHandle, BeginForce
  <2>9. CASE CancelSession BY <2>9 DEF CancelSession, LoseHandle, BeginForce
  <2>10. CASE ForceClose BY <2>10 DEF ForceClose, LoseHandle, BeginForce
  <2>11. CASE ForceCloseReturns BY <2>11 DEF ForceCloseReturns
  <2> QED BY <1>9, <2>1, <2>2, <2>3, <2>4, <2>5, <2>6, <2>7, <2>8, <2>9, <2>10, <2>11
      DEF CallerStep
<1>10. CASE UNCHANGED vars BY <1>10 DEF vars
<1> QED BY <1>1, <1>2, <1>3, <1>4, <1>5, <1>6, <1>7, <1>8, <1>9, <1>10 DEF Next, Finished

\* The detailed supervisor implements SessionLease: a lease is created, used and
\* settled in its order, once, whatever the threads around it do.
THEOREM KeepsLease ==
  ASSUME MaxKillFaults = 0
  PROVE  Spec => LeaseSpec
<1>1. Init => Lease!Init
  BY DEF Init, Lease!Init
<1>2. Init => LeaseInv /\ KillInv
  BY SupervisorAssumption DEF Init, LeaseInv, KillInv, Unreaped, Forcers
<1>3. Spec => [](TypeOK /\ KillInv /\ LeaseInv)
  BY <1>2, KillStep, LeaseStep, TypeCorrect, PTL DEF Spec
<1> QED BY <1>1, <1>3, LeaseSimulation, PTL DEF Spec, LeaseSpec, Lease!Spec

=============================================================================
