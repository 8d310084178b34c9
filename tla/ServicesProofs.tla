--------------------------- MODULE ServicesProofs ---------------------------
(***************************************************************************)
(* Theorems about the parts around a fetch, for any values of their        *)
(* constants: each part first, as a specification of its own, then the     *)
(* behaviours of Services, which are behaviours of every part.             *)
(***************************************************************************)
EXTENDS Services, FiniteSetTheorems, SequenceTheorems, TLAPS

IsList(s) == \E S : s \in Seq(S)

-----------------------------------------------------------------------------
(***************************************************************************)
(* MCP: the sessions of a tool call and its answer, for any calls, any number*)
(* of jobs, any sizes and any limit of an answer.                          *)
(***************************************************************************)
McpSpec == McpInit /\ [][McpNext]_mcpVars

JobRecord ==
  [pc : {"none", "queued", "acquire", "operate", "close", "force", "done"}, late : BOOLEAN,
   future : {"none", "pending", "ok"} \cup Errors, worker : {"none", "alive", "ending", "gone"},
   handle : BOOLEAN, handed : BOOLEAN, result : {"none", "ok"} \cup Errors]

\* Nothing was given to a job that has not begun.
Untouched(r) == r.worker = "none" /\ ~r.handle /\ ~r.handed /\ ~r.late

\* A job without a handle has a worker only while its acquisition is awaited; a job that lost the
\* race has signalled its worker.
Acquiring(r) ==
  /\ r.late => r.worker # "alive"
  /\ r.future = "ok" => r.handle /\ r.handed
  /\ r.future # "ok" => ~r.handle /\ ~r.handed
  /\ r.future \notin {"pending", "ok"} => r.worker # "alive"

\* A session that was handed out is held, or its worker is gone.
Holding(r) == r.handed /\ (r.handle \/ r.worker = "gone") /\ (r.late => r.worker # "alive")

SessionInv(r) ==
  /\ r.pc \in {"none", "queued"} => Untouched(r)
  /\ r.pc = "acquire" => Acquiring(r)
  /\ r.pc = "operate" => Holding(r)
  /\ r.pc = "close" => Holding(r) /\ (r.future # "pending" => r.worker = "gone")
  /\ r.pc = "force" => Holding(r) /\ r.late
  /\ r.pc = "done" => r.worker # "alive" /\ (r.handed => r.worker = "gone")

JobsInv ==
  /\ job \in [Jobs -> JobRecord]
  /\ \A j \in Jobs : SessionInv(job[j])

-----------------------------------------------------------------------------
\* What a step makes of one job is all that has to be looked at.
LEMMA OneJob ==
  ASSUME JobsInv, NEW j \in Jobs, NEW new \in JobRecord, SessionInv(new),
         job' = [job EXCEPT ![j] = new]
  PROVE  JobsInv'
<1>1. job' \in [Jobs -> JobRecord]
  BY DEF JobsInv
<1>2. ASSUME NEW i \in Jobs PROVE SessionInv(job'[i])
  <2>1. CASE i = j
    <3>1. job'[i] = new
      BY <2>1 DEF JobsInv
    <3> QED BY <3>1
  <2>2. CASE i # j
    <3>1. job'[i] = job[i]
      BY <2>2 DEF JobsInv
    <3> QED BY <3>1 DEF JobsInv
  <2> QED BY <2>1, <2>2
<1> QED BY <1>1, <1>2 DEF JobsInv

\* Ending a job changes its program counter and lets go of the handle.
LEMMA StepEnds ==
  ASSUME JobsInv, NEW j \in Jobs, NEW outcome, JobDone(j, outcome),
         job[j].worker # "alive", job[j].handed => job[j].worker = "gone"
  PROVE  JobsInv'
<1> DEFINE new == [job[j] EXCEPT !.pc = "done", !.future = "none", !.handle = FALSE]
<1>1. job[j] \in JobRecord
  BY DEF JobsInv
<1>2. new \in JobRecord
  BY <1>1 DEF JobRecord, Errors
<1>3. SessionInv(new)
  BY <1>1 DEF SessionInv, JobRecord
<1>4. job' = [job EXCEPT ![j] = new]
  BY DEF JobDone, JobsInv
<1> QED BY <1>2, <1>3, <1>4, OneJob

\* Every step of a job leads from a job in order to a job in order.
LEMMA JobStepKeeps ==
  ASSUME JobsInv, NEW j \in Jobs, JobStep(j)
  PROVE  JobsInv'
<1> DEFINE r == job[j]
<1>1. r \in JobRecord /\ SessionInv(r)
  BY DEF JobsInv
<1> USE DEF JobMoves
<1>2. CASE StartJob(j)
  <2>1. CASE token
    BY <1>1, <1>2, <2>1, StepEnds DEF StartJob, SessionInv, Untouched
  <2>2. CASE ~token
    <3> DEFINE new == [r EXCEPT !.pc = "acquire", !.future = "pending"]
    <3>1. new \in JobRecord /\ SessionInv(new)
      BY <1>1, <1>2 DEF StartJob, JobRecord, Errors, SessionInv, Untouched, Acquiring
    <3> QED BY <1>2, <2>2, <3>1, OneJob DEF StartJob
  <2> QED BY <2>1, <2>2
<1>3. CASE WorkerStarts(j)
  <2> DEFINE new == [r EXCEPT !.worker = "alive"]
  <2>1. new \in JobRecord /\ SessionInv(new)
    BY <1>1, <1>3 DEF WorkerStarts, Awaits, JobRecord, Errors, SessionInv, Acquiring
  <2> QED BY <1>3, <2>1, OneJob DEF WorkerStarts
<1>4. CASE Acquires(j)
  <2> DEFINE new == [r EXCEPT !.future = "ok", !.handle = TRUE, !.handed = TRUE]
  <2>1. new \in JobRecord /\ SessionInv(new)
    BY <1>1, <1>4 DEF Acquires, Awaits, JobRecord, Errors, SessionInv, Acquiring
  <2> QED BY <1>4, <2>1, OneJob DEF Acquires
<1>5. ASSUME NEW error \in {"operation", "internal"}, AcquireFails(j, error) PROVE JobsInv'
  <2> DEFINE new == [r EXCEPT !.future = error, !.worker = IF @ = "alive" THEN "ending" ELSE @]
  <2>1. new \in JobRecord /\ SessionInv(new)
    BY <1>1, <1>5 DEF AcquireFails, Awaits, JobRecord, Errors, SessionInv, Acquiring
  <2> QED BY <1>5, <2>1, OneJob DEF AcquireFails
<1>6. ASSUME NEW result \in {"ok", "operation", "input"}, Operates(j, result) PROVE JobsInv'
  <2> DEFINE new == [r EXCEPT !.future = result]
  <2>1. new \in JobRecord /\ SessionInv(new)
    BY <1>1, <1>6 DEF Operates, Awaits, JobRecord, Errors, SessionInv, Holding
  <2> QED BY <1>6, <2>1, OneJob DEF Operates
<1>7. CASE OperateFails(j)
  <2> DEFINE new == [r EXCEPT !.future = "internal", !.worker = "gone", !.handle = FALSE]
  <2>1. new \in JobRecord /\ SessionInv(new)
    BY <1>1, <1>7 DEF OperateFails, Awaits, JobRecord, Errors, SessionInv, Holding
  <2> QED BY <1>7, <2>1, OneJob DEF OperateFails
<1>8. ASSUME NEW result \in {"ok", "internal"}, Closes(j, result) PROVE JobsInv'
  <2> DEFINE new == IF r.handle THEN [r EXCEPT !.future = result, !.worker = "gone", !.handle = FALSE]
                    ELSE [r EXCEPT !.future = "ok"]
  <2>1. new \in JobRecord /\ SessionInv(new)
    BY <1>1, <1>8 DEF Closes, Awaits, JobRecord, Errors, SessionInv, Holding
  <2> QED BY <1>8, <2>1, OneJob DEF Closes
<1>9. CASE WorkerEnds(j)
  <2> DEFINE new == [r EXCEPT !.worker = "gone"]
  <2>1. new \in JobRecord /\ SessionInv(new)
    BY <1>1, <1>9 DEF WorkerEnds, JobRecord, Errors, SessionInv, Untouched, Acquiring, Holding
  <2> QED BY <1>9, <2>1, OneJob DEF WorkerEnds
<1>10. CASE RaceLost(j)
  <2> DEFINE new == [r EXCEPT !.late = TRUE, !.worker = IF @ = "alive" THEN "ending" ELSE @]
  <2>1. new \in JobRecord
    BY <1>1 DEF JobRecord
  <2>2. r.pc \in {"acquire", "operate", "close"}
    BY <1>10 DEF RaceLost, Steps
  <2>3. /\ new.pc = r.pc /\ new.future = r.future /\ new.handle = r.handle /\ new.handed = r.handed
        /\ new.late /\ new.worker # "alive" /\ (r.worker = "gone" => new.worker = "gone")
    BY <1>1 DEF JobRecord
  <2>4. SessionInv(new)
    BY <1>1, <2>2, <2>3 DEF SessionInv, Acquiring, Holding
  <2> QED BY <1>10, <2>1, <2>4, OneJob DEF RaceLost
<1>11. CASE Acquired(j)
  <2>1. CASE r.future = "ok"
    <3> DEFINE new == [r EXCEPT !.pc = "operate", !.future = "pending"]
    <3>1. new \in JobRecord /\ SessionInv(new)
      BY <1>1, <1>11, <2>1 DEF Acquired, InTime, Returned, JobRecord, Errors, SessionInv, Acquiring, Holding
    <3> QED BY <1>11, <2>1, <3>1, OneJob DEF Acquired
  <2>2. CASE r.future # "ok"
    BY <1>1, <1>11, <2>2, StepEnds DEF Acquired, InTime, Returned, SessionInv, Acquiring
  <2> QED BY <2>1, <2>2
<1>12. CASE Operated(j)
  <2> DEFINE new == [r EXCEPT !.pc = "close", !.future = "pending", !.result = r.future]
  <2>1. r.future \in {"none", "ok"} \cup Errors
    BY <1>1, <1>12 DEF Operated, InTime, Returned, JobRecord
  <2>2. new \in JobRecord /\ SessionInv(new)
    BY <1>1, <1>12, <2>1 DEF Operated, InTime, Returned, JobRecord, Errors, SessionInv, Holding
  <2> QED BY <1>12, <2>2, OneJob DEF Operated
<1>13. CASE Closed(j)
  BY <1>1, <1>13, StepEnds DEF Closed, InTime, Returned, SessionInv
<1>14. CASE AcquiredTooLate(j)
  <2>1. CASE r.future = "ok"
    <3> DEFINE new == [r EXCEPT !.pc = "force"]
    <3>1. new \in JobRecord /\ SessionInv(new)
      BY <1>1, <1>14, <2>1
      DEF AcquiredTooLate, TooLate, Returned, JobRecord, Errors, SessionInv, Acquiring, Holding
    <3> QED BY <1>14, <2>1, <3>1, OneJob DEF AcquiredTooLate
  <2>2. CASE r.future # "ok"
    BY <1>1, <1>14, <2>2, StepEnds DEF AcquiredTooLate, TooLate, Returned, SessionInv, Acquiring
  <2> QED BY <2>1, <2>2
<1>15. CASE OperatedTooLate(j)
  <2> DEFINE new == [r EXCEPT !.pc = "force"]
  <2>1. new \in JobRecord /\ SessionInv(new)
    BY <1>1, <1>15 DEF OperatedTooLate, TooLate, Returned, JobRecord, Errors, SessionInv, Holding
  <2> QED BY <1>15, <2>1, OneJob DEF OperatedTooLate
<1>16. CASE ClosedTooLate(j)
  BY <1>1, <1>16, StepEnds DEF ClosedTooLate, TooLate, Returned, SessionInv
<1>17. CASE ForceClose(j)
  BY <1>1, <1>17, StepEnds DEF ForceClose, SessionInv, Holding, JobRecord
<1> QED
  BY <1>2, <1>3, <1>4, <1>5, <1>6, <1>7, <1>8, <1>9, <1>10, <1>11, <1>12, <1>13, <1>14, <1>15,
     <1>16, <1>17 DEF JobStep

-----------------------------------------------------------------------------
LEMMA JobsInvHolds == McpSpec => []JobsInv
<1>1. McpInit => JobsInv
  <2> SUFFICES ASSUME McpInit PROVE JobsInv
    OBVIOUS
  <2>1. job = [j \in Jobs |-> NoJob]
    BY DEF McpInit, JobsInit
  <2>2. NoJob \in JobRecord /\ SessionInv(NoJob)
    BY DEF NoJob, JobRecord, SessionInv, Untouched
  <2> QED BY <2>1, <2>2 DEF JobsInv
<1>2. JobsInv /\ [McpNext]_mcpVars => JobsInv'
  <2> SUFFICES ASSUME JobsInv, [McpNext]_mcpVars PROVE JobsInv'
    OBVIOUS
  <2>1. ASSUME job' = job PROVE JobsInv'
    BY <2>1 DEF JobsInv
  <2>2. ASSUME NEW c \in Calls, CallTool(c) PROVE JobsInv'
    <3> DEFINE new(j) == IF j <= JobCount(c) THEN [NoJob EXCEPT !.pc = "queued"] ELSE NoJob
    <3>1. job' = [j \in Jobs |-> new(j)]
      BY <2>2 DEF CallTool
    <3>2. ASSUME NEW j \in Jobs PROVE new(j) \in JobRecord /\ SessionInv(new(j))
      BY DEF NoJob, JobRecord, SessionInv, Untouched
    <3> HIDE DEF new
    <3> QED BY <3>1, <3>2 DEF JobsInv
  <2>3. ASSUME NEW c \in Calls, RefuseCall(c) PROVE JobsInv'
    BY <2>1, <2>3 DEF RefuseCall, jobVars
  <2>4. CASE AnswerCancelled \/ AnswerBatch \/ AnswerFailure \/ AnswerCrawl \/ AnswerScript
             \/ AnswerPage \/ AnswerMap
    <3>1. job' = job
      BY <2>4 DEF AnswerCancelled, AnswerBatch, AnswerFailure, AnswerCrawl, AnswerScript, AnswerPage,
                  AnswerMap, AnswerWith, ReplyWith, jobVars
    <3> QED BY <2>1, <3>1
  <2>5. CASE ClientCancels
    BY <2>1, <2>5 DEF ClientCancels
  <2>6. ASSUME NEW j \in Jobs, JobStep(j) PROVE JobsInv'
    BY <2>6, JobStepKeeps
  <2>7. ASSUME NEW j \in Jobs, WorkerEnds(j) PROVE JobsInv'
    BY <2>7, JobStepKeeps DEF JobStep
  <2>8. CASE UNCHANGED mcpVars
    BY <2>1, <2>8 DEF mcpVars, jobVars
  <2> QED BY <2>2, <2>3, <2>4, <2>5, <2>6, <2>7, <2>8 DEF McpNext
<1> QED BY <1>1, <1>2, PTL DEF McpSpec

\* However the cancellation of a tool call meets the acquisition, the operation or the close of its
\* sessions (mcp/executor.rs in_session), a job that is done has left no worker behind.
THEOREM NoWorkerSurvives == McpSpec => []NoWorkerLeft
<1>1. JobsInv => NoWorkerLeft
  BY DEF JobsInv, NoWorkerLeft, SessionInv
<1> QED BY <1>1, JobsInvHolds, PTL

-----------------------------------------------------------------------------
(***************************************************************************)
(* The size of an answer.  Its texts are taken in one after the other, so  *)
(* the facts about it are proved along the folds that take them in.        *)
(***************************************************************************)
NaturalSum(sizes, i, sum) == sum \in Nat

Sums == INSTANCE FoldRules WITH Step <- +, Holds <- NaturalSum

LEMMA TotalIsFold ==
  ASSUME NEW sizes
  PROVE  Total(sizes) = Sums!Fold(0, sizes)
BY DEF Total, Sums!Fold, FoldLeft, MapThenFoldSet, Max, Sums!Max

\* What Total adds up.
LEMMA Totals ==
  /\ Total(<<>>) = 0
  /\ \A sizes \in Seq(Nat) : Total(sizes) \in Nat
  /\ \A sizes \in Seq(Nat), size \in Nat : Total(Append(sizes, size)) = Total(sizes) + size
<1>1. Total(<<>>) = 0
  BY TotalIsFold, Sums!FoldOfNothing
<1>2. ASSUME NEW sizes \in Seq(Nat) PROVE Total(sizes) \in Nat
  <2>1. NaturalSum(sizes, 0, 0)
    BY DEF NaturalSum
  <2>2. \A i \in 1..Len(sizes) : \A sum :
          NaturalSum(sizes, i - 1, sum) => NaturalSum(sizes, i, sum + sizes[i])
    BY DEF NaturalSum
  <2>3. NaturalSum(sizes, Len(sizes), Sums!Fold(0, sizes))
    BY <2>1, <2>2, Sums!FoldRule
  <2> QED BY <2>3, TotalIsFold DEF NaturalSum
<1>3. ASSUME NEW sizes \in Seq(Nat), NEW size \in Nat
      PROVE  Total(Append(sizes, size)) = Total(sizes) + size
  BY TotalIsFold, Sums!FoldOfAppend
<1> QED BY <1>1, <1>2, <1>3

\* The longest beginning that leaves room is there as soon as the empty one leaves it.
LEMMA LongestFits ==
  ASSUME NEW lines \in Seq(Nat), NEW room \in Nat, room <= AnswerLimit
  PROVE  /\ Longest(lines, room) \in Seq(Nat)
         /\ Len(Longest(lines, room)) <= Len(lines)
         /\ Total(Longest(lines, room)) + room <= AnswerLimit
<1> DEFINE keeps == {k \in 0..Len(lines) : Total(SubSeq(lines, 1, k)) + room <= AnswerLimit}
           k == CHOOSE k \in keeps : \A l \in keeps : l <= k
<1>1. Len(lines) \in Nat
  OBVIOUS
<1>2. 0 \in keeps
  <2>1. SubSeq(lines, 1, 0) = <<>>
    OBVIOUS
  <2>2. Total(SubSeq(lines, 1, 0)) = 0
    BY <2>1, Totals
  <2> QED BY <1>1, <2>2
<1>3. \E m \in keeps : \A l \in keeps : l <= m
  BY <1>1, <1>2, Sums!GreatestNumber
<1>4. k \in keeps
  BY <1>3
<1>5. Longest(lines, room) = SubSeq(lines, 1, k)
  BY DEF Longest
<1>6. k \in 0..Len(lines) /\ Total(SubSeq(lines, 1, k)) + room <= AnswerLimit
  BY <1>4
<1> HIDE DEF k, keeps
<1>7. SubSeq(lines, 1, k) \in Seq(Nat) /\ Len(SubSeq(lines, 1, k)) = k
  BY <1>6
<1> QED BY <1>1, <1>5, <1>6, <1>7

\* TextOutput: every block so far is held or counted, and what is held keeps to the limit.
Filled(sizes, i, out) ==
  \E blocks \in Seq(Nat), omitted \in Nat :
    /\ out = [blocks |-> blocks, omitted |-> omitted]
    /\ Len(blocks) + omitted = i
    /\ SizeOf(blocks) <= AnswerLimit

Filling == INSTANCE FoldRules WITH Step <- Push, Holds <- Filled

NoBlocks == [blocks |-> <<>>, omitted |-> 0]

\* The size of one block more, which is what Fits has measured.
LEMMA SizeOfMore ==
  ASSUME NEW blocks \in Seq(Nat), NEW size \in Nat
  PROVE  SizeOf(Append(blocks, size)) = AnswerFrame + Total(blocks) + size + Len(blocks)
<1> DEFINE more == Append(blocks, size)
<1>1. more # <<>> /\ Len(more) = Len(blocks) + 1 /\ Len(blocks) \in Nat
  OBVIOUS
<1>2. Total(more) = Total(blocks) + size /\ Total(blocks) \in Nat
  BY Totals
<1>3. SizeOf(more) = AnswerFrame + Total(more) + (Len(more) - 1)
  BY <1>1 DEF SizeOf
<1> HIDE DEF more
<1>4. AnswerFrame \in Nat
  BY AnswerAssumption
<1> QED BY <1>1, <1>2, <1>3, <1>4 DEF more

LEMMA PushKeeps ==
  ASSUME NEW sizes, NEW i \in Nat \ {0}, NEW out, Filled(sizes, i - 1, out), NEW size \in Nat
  PROVE  Filled(sizes, i, Push(out, size))
<1>1. PICK blocks \in Seq(Nat), omitted \in Nat :
        /\ out = [blocks |-> blocks, omitted |-> omitted]
        /\ Len(blocks) + omitted = i - 1
        /\ SizeOf(blocks) <= AnswerLimit
  BY DEF Filled
<1>2. CASE Fits(blocks, size)
  <2>1. PICK more : more = Append(blocks, size)
    OBVIOUS
  <2>2. Push(out, size) = [blocks |-> more, omitted |-> omitted]
    BY <1>1, <1>2, <2>1 DEF Push
  <2>3. more \in Seq(Nat) /\ Len(more) = Len(blocks) + 1
    BY <2>1
  <2>4. SizeOf(more) <= AnswerLimit
    BY <1>2, <2>1, SizeOfMore DEF Fits
  <2>5. Len(more) + omitted = i
    BY <1>1, <2>3
  <2> QED BY <2>2, <2>3, <2>4, <2>5 DEF Filled
<1>3. CASE ~Fits(blocks, size)
  <2>1. Push(out, size) = [blocks |-> blocks, omitted |-> omitted + 1]
    BY <1>1, <1>3 DEF Push
  <2>2. Len(blocks) + (omitted + 1) = i
    BY <1>1
  <2> QED BY <1>1, <2>1, <2>2 DEF Filled
<1> QED BY <1>2, <1>3

\* finish: blocks make room for the line that counts them among those left out.
LEMMA FinishAccounts ==
  ASSUME NEW blocks \in Seq(Nat), NEW omitted \in Nat, SizeOf(blocks) <= AnswerLimit,
         NEW out, out = [blocks |-> blocks, omitted |-> omitted]
  PROVE  /\ Finish(out).kind = "result" /\ Finish(out).size <= AnswerLimit
         /\ Finish(out).shown + Finish(out).omitted = Len(blocks) + omitted
<1> DEFINE keeps == {k \in 0..Len(blocks) : Fits(SubSeq(blocks, 1, k), SummarySize)}
           k == CHOOSE k \in keeps : \A l \in keeps : l <= k
<1>1. /\ AnswerLimit \in Nat /\ AnswerFrame \in Nat /\ SummarySize \in Nat
      /\ AnswerFrame + SummarySize <= AnswerLimit /\ Len(blocks) \in Nat
  BY AnswerAssumption
<1>2. CASE omitted = 0
  <2>1. Finish(out) = [kind |-> "result", size |-> SizeOf(blocks), shown |-> Len(blocks), omitted |-> 0]
    BY <1>2 DEF Finish
  <2> QED BY <1>1, <1>2, <2>1
<1>3. CASE omitted # 0
  <2>1. k \in keeps
    <3>1. SubSeq(blocks, 1, 0) = <<>> /\ Total(<<>>) = 0 /\ Len(<<>>) = 0
      BY Totals
    <3>2. Fits(<<>>, SummarySize)
      BY <1>1, <3>1 DEF Fits
    <3>3. Fits(SubSeq(blocks, 1, 0), SummarySize)
      BY <3>1, <3>2
    <3>4. 0 \in keeps
      BY <1>1, <3>3
    <3>5. \E m \in keeps : \A l \in keeps : l <= m
      BY <1>1, <3>4, Sums!GreatestNumber
    <3> QED BY <3>5
  <2>2. Finish(out) = [kind |-> "result", size |-> SizeOf(Append(SubSeq(blocks, 1, k), SummarySize)),
                       shown |-> k, omitted |-> omitted + Len(blocks) - k]
    BY <1>3 DEF Finish
  <2>3. k \in 0..Len(blocks) /\ Fits(SubSeq(blocks, 1, k), SummarySize)
    BY <2>1
  <2> HIDE DEF k, keeps
  <2>4. PICK kept : kept = SubSeq(blocks, 1, k)
    OBVIOUS
  <2>5. kept \in Seq(Nat)
    BY <2>3, <2>4
  <2>6. SizeOf(Append(kept, SummarySize)) <= AnswerLimit
    BY <1>1, <2>3, <2>4, <2>5, SizeOfMore DEF Fits
  <2>7. Finish(out).kind = "result" /\ Finish(out).size = SizeOf(Append(kept, SummarySize))
        /\ Finish(out).shown = k /\ Finish(out).omitted = omitted + Len(blocks) - k
    BY <2>2, <2>4
  <2>8. k + (omitted + Len(blocks) - k) = Len(blocks) + omitted
    BY <1>1, <2>3
  <2> QED BY <2>6, <2>7, <2>8
<1> QED BY <1>2, <1>3

LEMMA TextFoldIs ==
  ASSUME NEW sizes
  PROVE  TextAnswer(sizes) = Finish(Filling!Fold(NoBlocks, sizes))
BY DEF TextAnswer, NoBlocks, Filling!Fold, FoldLeft, MapThenFoldSet, Max, Filling!Max

\* However many texts there are and however long they are, each is held or counted.
LEMMA TextAnswerAccounts ==
  ASSUME NEW sizes \in Seq(Nat)
  PROVE  /\ TextAnswer(sizes).kind = "result" /\ TextAnswer(sizes).size <= AnswerLimit
         /\ TextAnswer(sizes).shown + TextAnswer(sizes).omitted = Len(sizes)
<1>1. Filled(sizes, 0, NoBlocks)
  <2>1. SizeOf(<<>>) = AnswerFrame
    BY Totals, AnswerAssumption DEF SizeOf
  <2>2. AnswerFrame <= AnswerLimit
    BY AnswerAssumption
  <2>3. <<>> \in Seq(Nat) /\ Len(<<>>) + 0 = 0
    OBVIOUS
  <2> QED BY <2>1, <2>2, <2>3 DEF Filled, NoBlocks
<1>2. \A i \in 1..Len(sizes) : \A out :
        Filled(sizes, i - 1, out) => Filled(sizes, i, Push(out, sizes[i]))
  BY PushKeeps
<1>3. Filled(sizes, Len(sizes), Filling!Fold(NoBlocks, sizes))
  BY <1>1, <1>2, Filling!FoldRule
<1>4. PICK out : out = Filling!Fold(NoBlocks, sizes)
  OBVIOUS
<1>5. PICK blocks \in Seq(Nat), omitted \in Nat :
        /\ out = [blocks |-> blocks, omitted |-> omitted]
        /\ Len(blocks) + omitted = Len(sizes)
        /\ SizeOf(blocks) <= AnswerLimit
  BY <1>3, <1>4 DEF Filled
<1>6. TextAnswer(sizes) = Finish(out)
  BY <1>4, TextFoldIs
<1> QED BY <1>5, <1>6, FinishAccounts

\* map_text: what is kept never grows past the limit.
KeptFits(lines, i, kept) == kept \in Seq(Nat) /\ Total(kept) <= AnswerLimit

Keeping == INSTANCE FoldRules WITH Step <- KeepFitting, Holds <- KeptFits

LEMMA KeptFoldIs ==
  ASSUME NEW lines
  PROVE  Kept(lines, FALSE) = Keeping!Fold(<<>>, lines)
BY DEF Kept, Keeping!Fold, FoldLeft, MapThenFoldSet, Max, Keeping!Max

LEMMA KeptInLimit ==
  ASSUME NEW lines \in Seq(Nat), NEW stops \in BOOLEAN
  PROVE  Kept(lines, stops) \in Seq(Nat) /\ Total(Kept(lines, stops)) <= AnswerLimit
<1>1. AnswerLimit \in Nat
  BY AnswerAssumption
<1>2. CASE stops
  <2>1. Longest(lines, 0) \in Seq(Nat) /\ Total(Longest(lines, 0)) + 0 <= AnswerLimit
    BY <1>1, LongestFits
  <2>2. Total(Longest(lines, 0)) \in Nat
    BY <2>1, Totals
  <2> QED BY <1>2, <2>1, <2>2 DEF Kept
<1>3. CASE ~stops
  <2>1. KeptFits(lines, 0, <<>>)
    <3>1. Total(<<>>) <= AnswerLimit
      BY <1>1, Totals
    <3> QED BY <3>1 DEF KeptFits
  <2>2. ASSUME NEW i \in 1..Len(lines), NEW kept, KeptFits(lines, i - 1, kept)
        PROVE  KeptFits(lines, i, KeepFitting(kept, lines[i]))
    <3>1. lines[i] \in Nat /\ kept \in Seq(Nat)
      BY <2>2 DEF KeptFits
    <3>2. Total(Append(kept, lines[i])) = Total(kept) + lines[i]
      BY <3>1, Totals
    <3> QED BY <2>2, <3>1, <3>2 DEF KeptFits, KeepFitting
  <2>3. KeptFits(lines, Len(lines), Keeping!Fold(<<>>, lines))
    BY <2>1, <2>2, Keeping!FoldRule
  <2>4. stops = FALSE
    BY <1>3
  <2> QED BY <2>3, <2>4, KeptFoldIs DEF KeptFits
<1> QED BY <1>2, <1>3

\* However many lines there are and however long they are, their text keeps to the limit.
LEMMA LinesAnswerFits ==
  ASSUME NEW lines \in Seq(Nat), NEW stops \in BOOLEAN
  PROVE  LinesAnswer(lines, stops).size <= AnswerLimit
<1>1. PICK kept : kept = Kept(lines, stops)
  OBVIOUS
<1>2. PICK cut : cut = Longest(kept, SummarySize)
  OBVIOUS
<1>3. SummarySize \in Nat /\ SummarySize <= AnswerLimit
  BY AnswerAssumption
<1>4. kept \in Seq(Nat) /\ Total(kept) <= AnswerLimit
  BY <1>1, KeptInLimit
<1>5. Total(cut) + SummarySize <= AnswerLimit
  BY <1>2, <1>3, <1>4, LongestFits
<1>6. \/ LinesAnswer(lines, stops) = [kind |-> "result", size |-> Total(kept), shown |-> Len(kept),
                                      omitted |-> 0]
      \/ LinesAnswer(lines, stops) = [kind |-> "result", size |-> Total(cut) + SummarySize,
                                      shown |-> Len(cut), omitted |-> Len(lines) - Len(cut)]
  BY <1>1, <1>2 DEF LinesAnswer
<1> QED BY <1>4, <1>5, <1>6

-----------------------------------------------------------------------------
(***************************************************************************)
(* The URLs of a batch.  A job is counted by one outcome, once it is done. *)
(***************************************************************************)
Ended == {j \in Jobs : job[j].pc = "done"}

Reported == {"none", "ok", "cancelled"} \cup Errors

\* Before the client cancels no job is late and none ends as cancelled.
InTimeSoFar ==
  /\ \A j \in Jobs : ~job[j].late
  /\ \A k \in 1..Len(outcomes) : outcomes[k] # "cancelled"

AnswerInv ==
  /\ mcpPc \in {"idle", "run", "answered"}
  /\ mcpPc = "idle" => outcomes = <<>> /\ mcpAnswer = NoReply
  /\ mcpPc = "run" =>
       /\ call \in Calls /\ call.good /\ mcpAnswer = NoReply
       /\ outcomes \in Seq(Reported)
       /\ \A j \in Jobs : job[j].pc # "none" <=> j \in 1..JobCount(call)
       /\ Len(outcomes) = Cardinality(Ended)
       /\ ~token => InTimeSoFar
  /\ mcpPc = "answered" => AnswerAccounts

\* A step of a job either leaves open whether it is done, or reports that it is.
Advances(j) ==
  /\ outcomes' = outcomes /\ token' = token
  /\ \E new : /\ job' = [job EXCEPT ![j] = new]
              /\ new.pc = "done" <=> job[j].pc = "done"
              /\ new.pc = "none" <=> job[j].pc = "none"
              /\ new.late => token \/ job[j].late

Finishes(j) ==
  /\ job[j].pc \notin {"none", "done"}
  /\ \E outcome \in Reported :
       JobDone(j, outcome) /\ (outcome = "cancelled" => token \/ job[j].late)

LEMMA AdvancesTo ==
  ASSUME NEW j \in Jobs, NEW new, JobMoves(j, new), new.pc = "done" <=> job[j].pc = "done",
         new.pc = "none" <=> job[j].pc = "none", new.late => token \/ job[j].late
  PROVE  Advances(j)
BY DEF JobMoves, Advances

LEMMA JobStepReports ==
  ASSUME JobsInv, NEW j \in Jobs, JobStep(j)
  PROVE  Advances(j) \/ Finishes(j)
<1>1. job[j] \in JobRecord /\ SessionInv(job[j])
  BY DEF JobsInv
<1>2. CASE StartJob(j)
  <2>1. CASE token
    BY <1>2, <2>1 DEF StartJob, Finishes, Reported
  <2>2. CASE ~token
    BY <1>1, <1>2, <2>2, AdvancesTo DEF StartJob, JobRecord
  <2> QED BY <2>1, <2>2
<1>3. CASE WorkerStarts(j)
  BY <1>1, <1>3, AdvancesTo DEF WorkerStarts, Awaits, JobRecord
<1>4. CASE Acquires(j)
  BY <1>1, <1>4, AdvancesTo DEF Acquires, Awaits, JobRecord
<1>5. ASSUME NEW error, AcquireFails(j, error) PROVE Advances(j)
  BY <1>1, <1>5, AdvancesTo DEF AcquireFails, Awaits, JobRecord
<1>6. ASSUME NEW result, Operates(j, result) PROVE Advances(j)
  BY <1>1, <1>6, AdvancesTo DEF Operates, Awaits, JobRecord
<1>7. CASE OperateFails(j)
  BY <1>1, <1>7, AdvancesTo DEF OperateFails, Awaits, JobRecord
<1>8. ASSUME NEW result, Closes(j, result) PROVE Advances(j)
  BY <1>1, <1>8, AdvancesTo DEF Closes, Awaits, JobRecord
<1>9. CASE WorkerEnds(j)
  BY <1>1, <1>9, AdvancesTo DEF WorkerEnds, JobRecord
<1>10. CASE RaceLost(j)
  BY <1>1, <1>10, AdvancesTo DEF RaceLost, JobRecord
<1>11. CASE Acquired(j)
  <2>1. CASE job[j].future = "ok"
    BY <1>1, <1>11, <2>1, AdvancesTo DEF Acquired, InTime, Returned, JobRecord
  <2>2. CASE job[j].future # "ok"
    <3>1. job[j].future \in Reported \ {"cancelled"}
      BY <1>1, <1>11, <2>2 DEF Acquired, InTime, Returned, JobRecord, Reported, Errors
    <3> QED BY <1>11, <2>2, <3>1 DEF Acquired, InTime, Returned, Finishes
  <2> QED BY <2>1, <2>2
<1>12. CASE Operated(j)
  BY <1>1, <1>12, AdvancesTo DEF Operated, InTime, Returned, JobRecord
<1>13. CASE Closed(j)
  <2> DEFINE outcome == IF job[j].result = "ok" THEN job[j].future ELSE job[j].result
  <2>1. outcome \in Reported \ {"cancelled"}
    BY <1>1, <1>13 DEF Closed, InTime, Returned, JobRecord, Reported, Errors
  <2> QED BY <1>13, <2>1 DEF Closed, InTime, Returned, Finishes
<1>14. CASE AcquiredTooLate(j)
  <2>1. CASE job[j].future = "ok"
    BY <1>1, <1>14, <2>1, AdvancesTo DEF AcquiredTooLate, TooLate, Returned, JobRecord
  <2>2. CASE job[j].future # "ok"
    BY <1>14, <2>2 DEF AcquiredTooLate, TooLate, Returned, Finishes, Reported
  <2> QED BY <2>1, <2>2
<1>15. CASE OperatedTooLate(j)
  BY <1>1, <1>15, AdvancesTo DEF OperatedTooLate, TooLate, Returned, JobRecord
<1>16. CASE ClosedTooLate(j)
  BY <1>16 DEF ClosedTooLate, TooLate, Returned, Finishes, Reported
<1>17. CASE ForceClose(j)
  BY <1>1, <1>17 DEF ForceClose, Finishes, Reported, SessionInv
<1> QED
  BY <1>2, <1>3, <1>4, <1>5, <1>6, <1>7, <1>8, <1>9, <1>10, <1>11, <1>12, <1>13, <1>14, <1>15,
     <1>16, <1>17 DEF JobStep

\* A job that steps keeps the count.
LEMMA CountKept ==
  ASSUME JobsInv, AnswerInv, mcpPc = "run", NEW j \in Jobs, Advances(j) \/ Finishes(j),
         UNCHANGED <<call, mcpPc, mcpAnswer, labeled>>
  PROVE  AnswerInv'
<1>1. /\ call \in Calls /\ call.good /\ mcpAnswer = NoReply /\ outcomes \in Seq(Reported)
      /\ \A i \in Jobs : job[i].pc # "none" <=> i \in 1..JobCount(call)
      /\ Len(outcomes) = Cardinality(Ended) /\ job \in [Jobs -> JobRecord]
      /\ ~token => InTimeSoFar
  BY DEF AnswerInv, JobsInv
<1>2. CASE Advances(j)
  <2>1. PICK new : /\ job' = [job EXCEPT ![j] = new]
                   /\ new.pc = "done" <=> job[j].pc = "done"
                   /\ new.pc = "none" <=> job[j].pc = "none"
                   /\ new.late => token \/ job[j].late
    BY <1>2 DEF Advances
  <2>2. \A i \in Jobs : /\ job'[i].pc = "done" <=> job[i].pc = "done"
                        /\ job'[i].pc = "none" <=> job[i].pc = "none"
    BY <1>1, <2>1
  <2>3. Ended' = Ended
    BY <2>2 DEF Ended
  <2>4. outcomes' = outcomes /\ token' = token
    BY <1>2 DEF Advances
  <2>5. ~token' => InTimeSoFar'
    <3>1. ASSUME ~token, NEW i \in Jobs PROVE ~job'[i].late
      BY <1>1, <2>1, <3>1 DEF InTimeSoFar
    <3> QED BY <1>1, <2>4, <3>1 DEF InTimeSoFar
  <2> QED BY <1>1, <2>2, <2>3, <2>4, <2>5 DEF AnswerInv
<1>3. CASE Finishes(j)
  <2>1. PICK outcome \in Reported :
          JobDone(j, outcome) /\ (outcome = "cancelled" => token \/ job[j].late)
    BY <1>3 DEF Finishes
  <2>2. job' = [job EXCEPT ![j] = [job[j] EXCEPT !.pc = "done", !.future = "none", !.handle = FALSE]]
    BY <1>1, <2>1 DEF JobDone
  <2>3. job'[j].pc = "done" /\ job[j].pc \notin {"none", "done"}
    BY <1>1, <1>3, <2>2 DEF Finishes, JobRecord
  <2>4. \A i \in Jobs \ {j} : job'[i] = job[i]
    BY <1>1, <2>2
  <2>5. Ended' = Ended \cup {j} /\ j \notin Ended
    BY <2>3, <2>4 DEF Ended
  <2>6. IsFiniteSet(Ended)
    <3>1. Ended \subseteq 1..JobCount(call)
      BY <1>1 DEF Ended
    <3>2. JobCount(call) \in Nat
      BY <1>1, CallsAssumption DEF JobCount
    <3>3. IsFiniteSet(1..JobCount(call))
      BY <3>2, FS_Interval
    <3> QED BY <3>1, <3>3, FS_Subset
  <2>7. Cardinality(Ended') = Cardinality(Ended) + 1
    BY <2>5, <2>6, FS_AddElement
  <2>8. outcomes' = Append(outcomes, outcome)
    BY <2>1 DEF JobDone
  <2>9. outcomes' \in Seq(Reported) /\ Len(outcomes') = Len(outcomes) + 1
    BY <1>1, <2>8
  <2>10. \A i \in Jobs : job'[i].pc # "none" <=> i \in 1..JobCount(call)
    BY <1>1, <2>3, <2>4
  <2>11. ~token' => InTimeSoFar'
    <3>1. token' = token
      BY <2>1 DEF JobDone
    <3>2. ASSUME ~token, NEW i \in Jobs PROVE ~job'[i].late
      BY <1>1, <2>2, <2>4, <3>2 DEF InTimeSoFar, JobRecord
    <3>3. ASSUME ~token, NEW k \in 1..Len(outcomes') PROVE outcomes'[k] # "cancelled"
      <4>1. outcome # "cancelled"
        BY <1>1, <2>1, <3>3 DEF InTimeSoFar
      <4> QED BY <1>1, <2>8, <3>3, <4>1 DEF InTimeSoFar
    <3> QED BY <3>1, <3>2, <3>3 DEF InTimeSoFar
  <2> QED BY <1>1, <2>7, <2>9, <2>10, <2>11 DEF AnswerInv
<1> QED BY <1>2, <1>3

\* A batch that ends without a cancellation has an outcome for each of its URLs.
LEMMA BatchComplete ==
  ASSUME JobsInv, AnswerInv, AllDone, mcpPc = "run", call.tool = "batch"
  PROVE  Len(outcomes) = call.items
<1>1. /\ call \in Calls /\ call.good /\ Len(outcomes) = Cardinality(Ended)
      /\ \A i \in Jobs : job[i].pc # "none" <=> i \in 1..JobCount(call)
  BY DEF AnswerInv
<1>2. JobCount(call) = call.items /\ call.items \in Nat /\ 1..call.items \subseteq Jobs
  BY <1>1, CallsAssumption DEF JobCount
<1>3. Ended = 1..call.items
  BY <1>1, <1>2 DEF Ended, AllDone
<1>4. Cardinality(1..call.items) = call.items
  BY <1>2, FS_Interval
<1> QED BY <1>1, <1>3, <1>4

\* What the texts of an answer weigh is a list of numbers.
LEMMA SizesAreNumbers ==
  ASSUME NEW n \in Nat, NEW sizes \in SizesOf(n)
  PROVE  sizes \in Seq(Nat) /\ Len(sizes) = n
<1>1. sizes \in [1..n -> Nat]
  BY AnswerAssumption DEF SizesOf
<1> QED BY <1>1

LEMMA LabeledAccounts ==
  ASSUME NEW n \in Nat, NEW items \in [1..n -> {"ok"} \cup Errors], NEW sizes \in SizesOf(n)
  PROVE  LET reply == Labeled(items, sizes) IN
         \/ /\ reply.kind = "result" /\ reply.size <= AnswerLimit
            /\ reply.shown + reply.omitted = Len(items)
            /\ \A k \in 1..Len(items) : items[k] \in {"ok", "operation"}
         \/ /\ reply.kind \in {"internalError", "toolError"}
            /\ \E k \in 1..Len(items) : items[k] \in {"input", "internal"}
<1>1. sizes \in Seq(Nat) /\ Len(sizes) = n /\ Len(items) = n
  BY SizesAreNumbers
<1>2. /\ TextAnswer(sizes).kind = "result" /\ TextAnswer(sizes).size <= AnswerLimit
      /\ TextAnswer(sizes).shown + TextAnswer(sizes).omitted = n
  BY <1>1, TextAnswerAccounts
<1> DEFINE fatal == {k \in 1..Len(items) : items[k] \in {"input", "internal"}}
<1>3. PICK bad : bad = SelectInSeq(items, LAMBDA o : o \in {"input", "internal"})
  OBVIOUS
<1>4. Labeled(items, sizes) = IF bad # 0 THEN ErrorAnswer(items[bad]) ELSE TextAnswer(sizes)
  BY <1>3 DEF Labeled
<1>5. bad = IF fatal # {} THEN Min(fatal) ELSE 0
  BY <1>3 DEF SelectInSeq
<1>6. CASE fatal = {}
  <2>1. bad = 0
    BY <1>5, <1>6
  <2>2. \A k \in 1..Len(items) : items[k] \in {"ok", "operation"}
    BY <1>1, <1>6 DEF Errors
  <2> QED BY <1>1, <1>2, <1>4, <2>1, <2>2
<1>7. CASE fatal # {}
  <2>1. \E m \in fatal : \A k \in fatal : m <= k
    <3>1. fatal \subseteq Nat
      BY <1>1
    <3> QED BY <1>7, <3>1, Sums!LeastNumber
  <2>2. bad \in fatal
    BY <1>5, <1>7, <2>1 DEF Min
  <2>3. bad # 0
    BY <1>1, <2>2
  <2>4. ErrorAnswer(items[bad]).kind \in {"internalError", "toolError"}
    BY DEF ErrorAnswer, NoReply
  <2> QED BY <1>4, <2>2, <2>3, <2>4
<1> QED BY <1>6, <1>7

\* Every reply is in order.
LEMMA AnswersInOrder ==
  ASSUME NEW reply, NEW items, ReplyWith(reply, items),
         reply.kind = "result" => reply.size <= AnswerLimit,
         call.good /\ call.tool \in {"batch", "crawl"} => UrlsAnswered(reply, items)
  PROVE  AnswerInv'
BY DEF ReplyWith, AnswerInv, AnswerAccounts, UrlsAnswered, jobVars

LEMMA AnswerStep ==
  ASSUME JobsInv, AnswerInv, McpNext
  PROVE  AnswerInv'
<1> USE AnswersInOrder DEF AnswerWith
<1>1. ASSUME NEW c \in Calls, CallTool(c) PROVE AnswerInv'
  <2>1. /\ call' = c /\ c \in Calls /\ c.good /\ mcpPc' = "run" /\ mcpAnswer' = NoReply
        /\ outcomes' = <<>>
    BY <1>1 DEF CallTool, AnswerInv
  <2>2. JobCount(c) \in Nat
    BY CallsAssumption DEF JobCount
  <2>3. \A j \in Jobs : /\ j \in 1..JobCount(c) => job'[j].pc = "queued"
                        /\ j \notin 1..JobCount(c) => job'[j].pc = "none"
    <3> SUFFICES ASSUME NEW j \in Jobs
                 PROVE  /\ j \in 1..JobCount(c) => job'[j].pc = "queued"
                        /\ j \notin 1..JobCount(c) => job'[j].pc = "none"
      OBVIOUS
    <3>1. j \in Nat \ {0}
      BY CallsAssumption
    <3>2. job'[j] = IF j <= JobCount(c) THEN [NoJob EXCEPT !.pc = "queued"] ELSE NoJob
      BY <1>1 DEF CallTool
    <3> QED BY <2>2, <3>1, <3>2 DEF NoJob
  <2>4. Ended' = {}
    BY <2>3 DEF Ended
  <2>5. outcomes' \in Seq(Reported) /\ Len(outcomes') = 0
    BY <2>1
  <2>6. InTimeSoFar'
    <3>1. \A j \in Jobs : ~job'[j].late
      BY <1>1 DEF CallTool, NoJob
    <3> QED BY <2>5, <3>1 DEF InTimeSoFar
  <2> QED BY <2>1, <2>3, <2>4, <2>5, <2>6, FS_EmptySet DEF AnswerInv
<1>2. ASSUME NEW c \in Calls, RefuseCall(c) PROVE AnswerInv'
  BY <1>2 DEF RefuseCall, AnswerInv, AnswerAccounts, NoReply
<1>3. CASE AnswerCancelled
  <2>1. mcpPc = "run" /\ "cancelled" \in ToSet(outcomes) /\ AnswerWith(Cancelled)
    BY <1>3 DEF AnswerCancelled
  <2>2. token
    BY <2>1 DEF AnswerInv, InTimeSoFar, ToSet
  <2>3. Cancelled.kind = "cancelled"
    BY DEF Cancelled, NoReply
  <2> QED BY <2>1, <2>2, <2>3 DEF UrlsAnswered
<1>4. CASE AnswerBatch
  <2>1. mcpPc = "run" /\ AllDone /\ call.tool = "batch"
    BY <1>4 DEF AnswerBatch, Completed
  <2>2. PICK items \in [1..Len(outcomes) -> {"ok"} \cup Errors], sizes \in SizesOf(Len(outcomes)) :
          ReplyWith(Labeled(items, sizes), items)
    BY <1>4 DEF AnswerBatch
  <2>3. Len(outcomes) = call.items /\ call.items \in Nat /\ Len(items) = call.items
    BY <2>1, BatchComplete, CallsAssumption DEF AnswerInv
  <2>4. PICK reply : reply = Labeled(items, sizes)
    OBVIOUS
  <2>5. \/ /\ reply.kind = "result" /\ reply.size <= AnswerLimit
           /\ reply.shown + reply.omitted = Len(items)
           /\ \A k \in 1..Len(items) : items[k] \in {"ok", "operation"}
        \/ /\ reply.kind \in {"internalError", "toolError"}
           /\ \E k \in 1..Len(items) : items[k] \in {"input", "internal"}
    BY <2>3, <2>4, LabeledAccounts
  <2>6. (reply.kind = "result" => reply.size <= AnswerLimit) /\ UrlsAnswered(reply, items)
    BY <2>3, <2>5 DEF UrlsAnswered
  <2> QED BY <2>2, <2>4, <2>6
<1>5. CASE AnswerFailure
  <2>1. call.tool # "batch" /\ outcomes # <<"ok">> /\ AnswerWith(ErrorAnswer(outcomes[1]))
    BY <1>5 DEF AnswerFailure
  <2>2. ErrorAnswer(outcomes[1]).kind \in {"internalError", "toolError"}
    BY DEF ErrorAnswer, NoReply
  <2> QED BY <2>1, <2>2 DEF UrlsAnswered
<1>6. CASE AnswerCrawl
  <2>1. call.items \in Nat /\ call.tool = "crawl"
    BY <1>6, CallsAssumption DEF AnswerCrawl, Completed, AnswerInv
  <2>2. PICK n \in 0..call.items : \E items \in [1..n -> {"ok"} \cup Errors], sizes \in SizesOf(n) :
          ReplyWith(Labeled(items, sizes), items)
    BY <1>6 DEF AnswerCrawl
  <2>3. PICK items \in [1..n -> {"ok"} \cup Errors], sizes \in SizesOf(n) :
          ReplyWith(Labeled(items, sizes), items)
    BY <2>2
  <2>4. PICK reply : reply = Labeled(items, sizes)
    OBVIOUS
  <2>5. \/ /\ reply.kind = "result" /\ reply.size <= AnswerLimit
           /\ reply.shown + reply.omitted = Len(items)
           /\ \A k \in 1..Len(items) : items[k] \in {"ok", "operation"}
        \/ /\ reply.kind \in {"internalError", "toolError"}
           /\ \E k \in 1..Len(items) : items[k] \in {"input", "internal"}
    BY <2>1, <2>4, LabeledAccounts
  <2>6. (reply.kind = "result" => reply.size <= AnswerLimit) /\ UrlsAnswered(reply, items)
    BY <2>1, <2>5 DEF UrlsAnswered
  <2> QED BY <2>3, <2>4, <2>6
<1>7. CASE AnswerScript
  <2>1. call.items \in Nat /\ call.tool = "evaluate"
    BY <1>7, CallsAssumption DEF AnswerScript, Completed, AnswerInv
  <2>2. PICK n \in 0..call.items : \E lines \in SizesOf(n) : AnswerWith(LinesAnswer(lines, TRUE))
    BY <1>7 DEF AnswerScript
  <2>3. PICK lines \in SizesOf(n) : AnswerWith(LinesAnswer(lines, TRUE))
    BY <2>2
  <2>4. LinesAnswer(lines, TRUE).size <= AnswerLimit
    <3>1. n \in Nat /\ TRUE \in BOOLEAN
      BY <2>1
    <3> QED BY <3>1, SizesAreNumbers, LinesAnswerFits
  <2> QED BY <2>1, <2>3, <2>4
<1>8. CASE AnswerPage
  <2>1. call.tool = "fetch"
    BY <1>8 DEF AnswerPage, Completed
  <2>2. ASSUME NEW size \in TextSizes, AnswerWith(TextAnswer(<<size>>)) PROVE AnswerInv'
    <3>1. <<size>> \in Seq(Nat)
      BY AnswerAssumption
    <3> QED BY <2>1, <2>2, <3>1, TextAnswerAccounts
  <2>3. ASSUME NEW class, AnswerWith(ErrorAnswer(class)) PROVE AnswerInv'
    BY <2>1, <2>3 DEF ErrorAnswer, NoReply
  <2> QED BY <1>8, <2>2, <2>3 DEF AnswerPage
<1>9. CASE AnswerMap
  <2>1. call.tool = "map" /\ mcpPc = "run"
    BY <1>9 DEF AnswerMap
  <2>2. CASE token
    BY <1>9, <2>2 DEF AnswerMap, Cancelled, NoReply
  <2>3. ASSUME NEW n \in 0..call.items, NEW lines \in SizesOf(n), AnswerWith(LinesAnswer(lines, FALSE))
        PROVE  AnswerInv'
    <3>1. call.items \in Nat
      BY <2>1, CallsAssumption DEF AnswerInv
    <3>2. LinesAnswer(lines, FALSE).size <= AnswerLimit
      <4>1. n \in Nat /\ FALSE \in BOOLEAN
        BY <3>1
      <4> QED BY <4>1, SizesAreNumbers, LinesAnswerFits
    <3> QED BY <2>1, <2>3, <3>2
  <2>4. ASSUME NEW class, AnswerWith(ErrorAnswer(class)) PROVE AnswerInv'
    BY <2>1, <2>4 DEF ErrorAnswer, NoReply
  <2> QED BY <1>9, <2>2, <2>3, <2>4 DEF AnswerMap
<1>10. CASE mcpPc = "run" /\ ClientCancels /\ UNCHANGED <<call, mcpPc, mcpAnswer, labeled>>
  BY <1>10 DEF ClientCancels, AnswerInv, Ended
<1>11. ASSUME NEW j \in Jobs, mcpPc = "run", JobStep(j), UNCHANGED <<call, mcpPc, mcpAnswer, labeled>>
       PROVE  AnswerInv'
  BY <1>11, JobStepReports, CountKept
<1>12. CASE mcpPc = "answered" /\ (\E j \in Jobs : WorkerEnds(j)) /\ UNCHANGED <<call, mcpPc, mcpAnswer, labeled>>
  <2>1. PICK j \in Jobs : WorkerEnds(j)
    BY <1>12
  <2>2. UNCHANGED <<token, outcomes>>
    BY <2>1 DEF WorkerEnds, JobMoves
  <2> QED BY <1>12, <2>2 DEF AnswerInv, AnswerAccounts, UrlsAnswered
<1> QED
  BY <1>1, <1>2, <1>3, <1>4, <1>5, <1>6, <1>7, <1>8, <1>9, <1>10, <1>11, <1>12 DEF McpNext

\* A result of the MCP server (mcp/output.rs, mcp/server.rs) keeps to its size, and the one of a batch
\* or a crawl holds a block for every URL or page or counts it among those left out.  Either is
\* answered otherwise only if its client cancelled, if the crawl failed, or if the error of one URL
\* was not of its operation (labeled_results): for every limit, any number of URLs, texts of any
\* size, any outcomes.
THEOREM AnswersAccount == McpSpec => []AnswerAccounts
<1>1. McpInit => AnswerInv
  BY DEF McpInit, JobsInit, AnswerInv
<1>2. JobsInv /\ AnswerInv /\ [McpNext]_mcpVars => AnswerInv'
  <2> SUFFICES ASSUME JobsInv, AnswerInv, [McpNext]_mcpVars PROVE AnswerInv'
    OBVIOUS
  <2>1. CASE UNCHANGED mcpVars
    BY <2>1 DEF mcpVars, jobVars, AnswerInv, AnswerAccounts, UrlsAnswered, Ended, InTimeSoFar
  <2> QED BY <2>1, AnswerStep
<1>3. AnswerInv => AnswerAccounts
  BY DEF AnswerInv, AnswerAccounts, NoReply
<1> QED BY <1>1, <1>2, <1>3, JobsInvHolds, PTL DEF McpSpec

-----------------------------------------------------------------------------
(***************************************************************************)
(* Command line: the mails of a batch and the pages of a crawl, for any    *)
(* number of URLs, any forms of output and any failures.                   *)
(***************************************************************************)
CommandSpec == CommandInit /\ [][CommandNext]_cmdVars

\* Mails of the batch's items, each of an item that has nothing to show yet.
MailsFresh ==
  /\ \A a \in 1..Len(mailed) :
       /\ fetches[mailed[a].item] \in {"mailing", "mailed"}
       /\ mailed[a].item \notin shown /\ failure[mailed[a].item] = "none"
  /\ \A a, b \in 1..Len(mailed) : mailed[a].item = mailed[b].item => a = b

\* An item of a batch is still to be mailed, or its mail is on the way, or it was taken in.
BatchItems ==
  \A i \in Items :
    /\ fetches[i] \in {"unasked", "fetching", "mailing", "mailed"}
    /\ fetches[i] \in {"unasked", "fetching"} =>
         i \notin shown /\ failure[i] = "none" /\ \A a \in 1..Len(mailed) : mailed[a].item # i
    /\ fetches[i] \in {"mailing", "mailed"} =>
         \/ i \in shown \/ failure[i] # "none" \/ trouble # "none"
         \/ \E a \in 1..Len(mailed) : mailed[a].item = i
    /\ i \in shown => failure[i] = "none"

CrawlItems ==
  \A i \in Items :
    /\ fetches[i] \in {"unasked", "fetched", "failed"}
    /\ fetches[i] = "unasked" => i \notin shown /\ failure[i] = "none"
    /\ fetches[i] = "fetched" => failure[i] = "none" /\ (i \in shown \/ trouble # "none")
    /\ fetches[i] = "failed" =>
         failure[i] # "none" /\ (cmd.format = "json" => i \in shown \/ trouble # "none")

CmdTypes ==
  /\ cmdPc \in {"start", "single", "batch", "crawl", "exited"}
  /\ cmdPc # "start" =>
       /\ cmd \in CommandLines
       /\ DOMAIN fetches = Items /\ failure \in [Items -> Categories \cup {"none"}]
       /\ shown \subseteq Items
  /\ mailed \in Seq([item : Items, result : FetchErrors \cup {"ok"}])
  /\ trouble \in {"none", "pipe"} \cup Categories

CmdInv ==
  /\ CmdTypes
  /\ cmdPc = "start" => mailed = <<>> /\ shown = {} /\ trouble = "none"
  /\ cmdPc = "single" =>
       /\ cmd.command = "fetch" /\ cmd.urls = 1
       /\ shown = {} /\ trouble = "none" /\ failure[1] = "none"
  /\ cmdPc = "batch" =>
       /\ cmd.command = "fetch" /\ cmd.urls > 1 /\ ClapAccepts(cmd) /\ ValidArguments(cmd)
       /\ MailsFresh /\ BatchItems
  /\ cmdPc = "crawl" => cmd.command = "crawl" /\ CrawlItems
  /\ BatchAccounted

-----------------------------------------------------------------------------
\* Every error has a category, and every category an exit code that is not 0.
LEMMA CategoryKnown ==
  ASSUME NEW error
  PROVE  CategoryOf(error) \in Categories /\ CategoryOf(error) # "none"
<1>1. Categories = {"usage", "data", "noInput", "unavailable", "software", "io", "tempFail", "unknown"}
  <2>1. \A i \in 1..Len(Precedence) : i \in {1, 2, 3, 4, 5, 6, 7, 8}
    BY DEF Precedence
  <2>2. {1, 2, 3, 4, 5, 6, 7, 8} \subseteq 1..Len(Precedence)
    BY DEF Precedence
  <2> QED BY <2>1, <2>2 DEF Categories, Precedence
<1> QED BY <1>1 DEF CategoryOf

LEMMA CodesFail ==
  ASSUME NEW c \in Categories
  PROVE  CodeOf[c] # 0
<1>1. \A i \in 1..Len(Precedence) : i \in {1, 2, 3, 4, 5, 6, 7, 8}
  BY DEF Precedence
<1>2. c \in {"usage", "data", "noInput", "unavailable", "software", "io", "tempFail", "unknown"}
  BY <1>1 DEF Categories, Precedence
<1> QED BY <1>2 DEF CodeOf

LEMMA WorstKnown ==
  ASSUME NEW failed, failed \subseteq Categories, failed # {}
  PROVE  Worst(failed) \in Categories
<1> DEFINE T == {i \in 1..Len(Precedence) : Precedence[i] \in failed}
<1>1. T \subseteq Nat /\ T # {}
  <2>1. Len(Precedence) \in Nat
    BY DEF Precedence
  <2> QED BY <2>1 DEF Categories
<1>2. PICK m \in T : \A k \in T : m <= k
  BY <1>1, Sums!LeastNumber
<1>3. m \in 1..Len(Precedence) /\ Precedence[m] \in failed
  BY <1>2
<1>4. \A j \in 1..(m - 1) : Precedence[j] \notin failed
  <2>1. Len(Precedence) \in Nat
    BY DEF Precedence
  <2>2. SUFFICES ASSUME NEW j \in 1..(m - 1), Precedence[j] \in failed PROVE FALSE
    OBVIOUS
  <2>3. j \in 1..Len(Precedence) /\ j < m
    BY <2>1, <2>2, <1>3
  <2>4. m <= j
    BY <2>2, <2>3, <1>2
  <2> QED BY <2>1, <2>3, <2>4, <1>3
<1>5. \E i \in 1..Len(Precedence) :
        Precedence[i] \in failed /\ \A j \in 1..(i - 1) : Precedence[j] \notin failed
  BY <1>3, <1>4
<1> HIDE DEF T
<1> QED BY <1>5 DEF Worst, Categories

\* Exit code 0 is given only when nothing failed and output, if it stopped, stopped at its reader.
LEMMA NoFailureAtZero ==
  ASSUME NEW output \in {"none", "pipe"} \cup Categories, NEW failed, failed \subseteq Categories,
         Finalize(output, failed) = 0
  PROVE  output \in {"none", "pipe"} /\ failed = {}
<1>1. CASE output \in {"none", "pipe"}
  <2>1. CASE failed # {}
    <3>1. Finalize(output, failed) = CodeOf[Worst(failed)]
      BY <1>1, <2>1 DEF Finalize
    <3> QED BY <3>1, <2>1, WorstKnown, CodesFail
  <2> QED BY <2>1, <1>1
<1>2. CASE output \notin {"none", "pipe"}
  <2>1. output \in Categories /\ Finalize(output, failed) = CodeOf[output]
    BY <1>2 DEF Finalize
  <2> QED BY <2>1, CodesFail
<1> QED BY <1>1, <1>2

\* Every trouble with output is a closed reader or has a category.
LEMMA TroublesKnown ==
  ASSUME NEW c
  PROVE  Troubles(c) \subseteq {"pipe"} \cup Categories /\ "none" \notin Troubles(c)
<1>1. {"software", "unknown", "io"} \subseteq Categories
  <2>1. 5 \in 1..Len(Precedence) /\ 6 \in 1..Len(Precedence) /\ 8 \in 1..Len(Precedence)
    BY DEF Precedence
  <2>2. Precedence[5] = "software" /\ Precedence[6] = "io" /\ Precedence[8] = "unknown"
    BY DEF Precedence
  <2> QED BY <2>1, <2>2 DEF Categories
<1>2. \A x \in Troubles(c) : x \in {"software", "unknown", "io", "pipe"}
  BY DEF Troubles
<1>3. "none" \notin {"software", "unknown", "io", "pipe"}
  OBVIOUS
<1> QED BY <1>1, <1>2, <1>3

-----------------------------------------------------------------------------
LEMMA LineShape ==
  ASSUME NEW c \in CommandLines
  PROVE  /\ c.command \in {"fetch", "crawl"} /\ c.urls \in Nat /\ c.format \in Formats
         /\ c.js \in BOOLEAN /\ c.schema \in BOOLEAN
         /\ c.command = "crawl" => c.format \in {"none", "markdown", "json"} /\ ~c.js /\ ~c.schema
<1>1. c \in [command : {"fetch", "crawl"}, urls : Nat, format : Formats, js : BOOLEAN,
             schema : BOOLEAN, selector : BOOLEAN, fullPage : BOOLEAN, jar : BOOLEAN, sink : Sinks]
  BY CommandAssumption
<1> QED BY <1>1, CommandAssumption

\* A batch that got past the arguments has an arm for its output.
LEMMA BatchHasArm ==
  ASSUME NEW c \in CommandLines, c.command = "fetch", c.urls > 1, ClapAccepts(c), ValidArguments(c)
  PROVE  OutputOf(c) # "unreachable"
<1>1. c.format \in Formats /\ c.urls \in Nat /\ c.schema \in BOOLEAN /\ c.js \in BOOLEAN
  BY LineShape
<1>2. ~c.js /\ c.format \notin {"html", "text", "png"}
  BY <1>1 DEF ValidArguments, Raw
<1>3. FormatOf(c) \in {"markdown", "json"}
  BY <1>1, <1>2 DEF FormatOf, Formats
<1>4. CASE c.schema
  BY <1>1, <1>2, <1>3, <1>4 DEF OutputOf
<1>5. CASE ~c.schema
  <2>1. OutputOf(c) = FormatOf(c)
    BY <1>2, <1>3, <1>5 DEF OutputOf
  <2> QED BY <2>1, <1>3
<1> QED BY <1>1, <1>4, <1>5

LEMMA CommandStarts == CommandInit => CmdInv
<1> SUFFICES ASSUME CommandInit PROVE CmdInv
  OBVIOUS
<1>1. mailed \in Seq([item : Items, result : FetchErrors \cup {"ok"}])
  BY DEF CommandInit
<1> QED BY <1>1 DEF CommandInit, CmdInv, CmdTypes, BatchAccounted

LEMMA RefusalKept ==
  ASSUME CmdInv, NEW c \in CommandLines, RefuseCommand(c)
  PROVE  CmdInv'
<1>1. /\ cmdPc = "start" /\ mailed = <<>> /\ shown = {} /\ trouble = "none"
      /\ cmd' = c /\ mailed' = <<>> /\ shown' = {} /\ trouble' = "none"
      /\ fetches' = [i \in 1..c.urls |-> "unasked"] /\ failure' = [i \in 1..c.urls |-> "none"]
  BY DEF RefuseCommand, CmdInv
<1>2. cmdPc' = "exited" /\ exitCode' # 0
  <2>1. "unknown" \in Categories
    <3>1. 8 \in 1..Len(Precedence) /\ Precedence[8] = "unknown"
      BY DEF Precedence
    <3> QED BY <3>1 DEF Categories
  <2>2. \A error : CodeOf[CategoryOf(error)] # 0
    BY CategoryKnown, CodesFail
  <2>3. CodeOf["unknown"] # 0
    BY <2>1, CodesFail
  <2> QED BY <2>2, <2>3 DEF RefuseCommand, Exits, ClapCode
<1>3. CmdTypes'
  <2>1. Items' = 1..c.urls
    BY <1>1 DEF Items
  <2>2. mailed' \in Seq([item : Items, result : FetchErrors \cup {"ok"}]')
    BY <1>1
  <2> QED BY <1>1, <1>2, <2>1, <2>2 DEF CmdTypes
<1> QED BY <1>2, <1>3 DEF CmdInv, BatchAccounted

LEMMA BeginKept ==
  ASSUME CmdInv, NEW c \in CommandLines, Begin(c)
  PROVE  CmdInv'
<1>1. /\ cmdPc = "start" /\ mailed = <<>> /\ shown = {} /\ trouble = "none"
      /\ cmd' = c /\ mailed' = <<>> /\ shown' = {} /\ trouble' = "none"
      /\ fetches' = [i \in 1..c.urls |-> "unasked"] /\ failure' = [i \in 1..c.urls |-> "none"]
      /\ c.command = "fetch" => ClapAccepts(c) /\ ValidArguments(c)
      /\ cmdPc' = IF c.command = "crawl" THEN "crawl" ELSE IF c.urls = 1 THEN "single" ELSE "batch"
  BY DEF Begin, CmdInv
<1>2. Items' = 1..c.urls /\ c.urls \in Nat /\ c.command \in {"fetch", "crawl"}
  BY <1>1, LineShape DEF Items
<1>3. CmdTypes'
  <2>1. mailed' \in Seq([item : Items, result : FetchErrors \cup {"ok"}]')
    BY <1>1
  <2> QED BY <1>1, <1>2, <2>1 DEF CmdTypes
<1>4. \A i \in Items' : fetches'[i] = "unasked" /\ failure'[i] = "none" /\ i \notin shown'
  BY <1>1, <1>2
<1>5. Len(mailed') = 0
  BY <1>1
<1>6. CASE cmdPc' = "single"
  <2>1. cmd'.command = "fetch" /\ cmd'.urls = 1
    BY <1>1, <1>2, <1>6
  <2>2. failure'[1] = "none"
    BY <2>1, <1>1
  <2> QED BY <1>1, <1>3, <1>6, <2>1, <2>2 DEF CmdInv, BatchAccounted
<1>7. CASE cmdPc' = "batch"
  <2>1. c.command = "fetch" /\ c.urls # 1 /\ ClapAccepts(c) /\ ValidArguments(c)
    BY <1>1, <1>2, <1>7
  <2>2. c.urls > 1
    BY <2>1, <1>2 DEF ValidArguments
  <2>3. MailsFresh' /\ BatchItems'
    BY <1>4, <1>5 DEF MailsFresh, BatchItems
  <2>4. OutputOf(c) # "unreachable"
    BY <2>1, <2>2, BatchHasArm
  <2>5. BatchAccounted'
    BY <1>1, <1>7, <2>4 DEF BatchAccounted
  <2> QED BY <1>1, <1>3, <1>7, <2>1, <2>2, <2>3, <2>5 DEF CmdInv
<1>8. CASE cmdPc' = "crawl"
  <2>1. cmd'.command = "crawl"
    BY <1>1, <1>8
  <2> QED BY <1>3, <1>4, <1>8, <2>1 DEF CmdInv, CrawlItems, BatchAccounted
<1> QED BY <1>1, <1>6, <1>7, <1>8

LEMMA SingleKept ==
  ASSUME CmdInv, FetchSingle
  PROVE  CmdInv'
<1>1. /\ cmdPc = "single" /\ CmdTypes /\ cmd.command = "fetch" /\ cmd.urls = 1
      /\ shown = {} /\ trouble = "none" /\ failure[1] = "none"
      /\ UNCHANGED <<cmd, mailed, failure>> /\ cmdPc' = "exited"
  BY DEF FetchSingle, CmdInv, Exits
<1>2. Items = {1} /\ Items' = {1}
  BY <1>1 DEF Items
<1>3. CASE Emit(1) /\ Exits(Finalize(trouble', {})) /\ fetches' = [fetches EXCEPT ![1] = "fetched"]
  <2>1. trouble' \in {"none", "pipe"} \cup Categories /\ shown' \subseteq Items
    BY <1>1, <1>2, <1>3, TroublesKnown DEF Emit
  <2>2. DOMAIN fetches' = Items /\ fetches'[1] = "fetched"
    BY <1>1, <1>2, <1>3 DEF CmdTypes
  <2>3. CmdTypes'
    BY <1>1, <1>2, <2>1, <2>2 DEF CmdTypes
  <2>4. exitCode' = 0 => trouble' \in {"none", "pipe"}
    BY <1>3, <2>1, NoFailureAtZero DEF Exits
  <2>5. trouble' = "none" => shown' = {1}
    BY <1>1, <1>3, TroublesKnown DEF Emit
  <2>6. Failing' = {}
    BY <1>1, <1>2 DEF Failing
  <2>7. BatchAccounted'
    BY <1>1, <1>2, <2>2, <2>4, <2>5, <2>6 DEF BatchAccounted
  <2> QED BY <1>1, <2>3, <2>7 DEF CmdInv
<1>4. CASE \E error \in FetchErrors :
             /\ Exits(CodeOf[CategoryOf(error)]) /\ fetches' = [fetches EXCEPT ![1] = "failed"]
             /\ UNCHANGED <<shown, trouble>>
  <2>1. exitCode' # 0
    BY <1>4, CategoryKnown, CodesFail DEF Exits
  <2>2. CmdTypes'
    BY <1>1, <1>2, <1>4 DEF CmdTypes
  <2> QED BY <1>1, <2>1, <2>2 DEF CmdInv, BatchAccounted
<1> QED BY <1>3, <1>4 DEF FetchSingle

\* Every mail is of an item.
LEMMA MailItem ==
  ASSUME NEW S, NEW R, NEW q \in Seq([item : S, result : R]), NEW a \in 1..Len(q)
  PROVE  q[a].item \in S
<1> DEFINE M == [item : S, result : R]
<1>1. q \in Seq(M) /\ a \in 1..Len(q)
  OBVIOUS
<1> HIDE DEF M
<1>2. q[a] \in M
  BY <1>1
<1> QED BY <1>2 DEF M

LEMMA SpawnKept ==
  ASSUME CmdInv, NEW i \in Items, SpawnFetch(i)
  PROVE  CmdInv'
<1>1. /\ cmdPc = "batch" /\ fetches[i] = "unasked" /\ CmdTypes /\ MailsFresh /\ BatchItems
      /\ fetches' = [fetches EXCEPT ![i] = "fetching"]
      /\ UNCHANGED <<cmd, cmdPc, mailed, failure, shown, trouble, exitCode>>
  BY DEF SpawnFetch, CmdInv
<1>2. Items' = Items /\ i \in DOMAIN fetches
  BY <1>1 DEF Items, CmdTypes
<1>3. CmdTypes'
  BY <1>1, <1>2 DEF CmdTypes
<1>4. fetches'[i] = "fetching" /\ \A k \in Items \ {i} : fetches'[k] = fetches[k]
  BY <1>1, <1>2 DEF CmdTypes
<1>5. MailsFresh'
  <2>1. \A a \in 1..Len(mailed) : mailed[a].item \in Items /\ mailed[a].item # i
    BY <1>1, MailItem DEF BatchItems, CmdTypes
  <2> QED BY <1>1, <1>4, <2>1 DEF MailsFresh
<1>6. BatchItems'
  BY <1>1, <1>2, <1>4 DEF BatchItems
<1>7. BatchAccounted'
  BY <1>1, <1>2 DEF CmdInv, BatchAccounted, Failing
<1> QED BY <1>1, <1>3, <1>5, <1>6, <1>7 DEF CmdInv, ClapAccepts, ValidArguments

LEMMA MailKept ==
  ASSUME CmdInv, NEW i \in Items, NEW result \in FetchErrors \cup {"ok"}, FetchMails(i, result)
  PROVE  CmdInv'
<1>1. /\ cmdPc = "batch" /\ fetches[i] = "fetching" /\ CmdTypes /\ MailsFresh /\ BatchItems
      /\ fetches' = [fetches EXCEPT ![i] = "mailing"]
      /\ UNCHANGED <<cmd, cmdPc, failure, shown, trouble, exitCode>>
  BY DEF FetchMails, CmdInv
<1>2. Items' = Items /\ i \in DOMAIN fetches
  BY <1>1 DEF Items, CmdTypes
<1>3. PICK mail : mail = [item |-> i, result |-> result]
  OBVIOUS
<1>4. /\ mailed' = Append(mailed, mail) /\ mail.item = i
      /\ mail \in [item : Items, result : FetchErrors \cup {"ok"}]
  BY <1>3 DEF FetchMails
<1>5. /\ mailed \in Seq([item : Items, result : FetchErrors \cup {"ok"}])
      /\ mailed' \in Seq([item : Items, result : FetchErrors \cup {"ok"}])
      /\ Len(mailed') = Len(mailed) + 1 /\ Len(mailed) \in Nat
      /\ mailed'[Len(mailed) + 1] = mail /\ \A a \in 1..Len(mailed) : mailed'[a] = mailed[a]
  BY <1>1, <1>4 DEF CmdTypes
<1>6. CmdTypes'
  BY <1>1, <1>2, <1>5 DEF CmdTypes
<1>7. fetches'[i] = "mailing" /\ \A k \in Items \ {i} : fetches'[k] = fetches[k]
  BY <1>1, <1>2 DEF CmdTypes
<1>8. \A a \in 1..Len(mailed) : mailed[a].item \in Items /\ mailed[a].item # i
  BY <1>1, <1>5, MailItem DEF BatchItems
<1>9. i \notin shown /\ failure[i] = "none"
  BY <1>1 DEF BatchItems
<1>10. MailsFresh'
  <2>1. ASSUME NEW a \in 1..Len(mailed')
        PROVE  /\ fetches'[mailed'[a].item] \in {"mailing", "mailed"}
               /\ mailed'[a].item \notin shown' /\ failure'[mailed'[a].item] = "none"
    <3>1. CASE a = Len(mailed) + 1
      BY <3>1, <1>1, <1>4, <1>5, <1>7, <1>9
    <3>2. CASE a \in 1..Len(mailed)
      BY <3>2, <1>1, <1>5, <1>7, <1>8 DEF MailsFresh
    <3> QED BY <1>5, <3>1, <3>2
  <2>2. ASSUME NEW a \in 1..Len(mailed'), NEW b \in 1..Len(mailed'), mailed'[a].item = mailed'[b].item
        PROVE  a = b
    <3>1. CASE a \in 1..Len(mailed) /\ b \in 1..Len(mailed)
      BY <3>1, <2>2, <1>1, <1>5 DEF MailsFresh
    <3>2. CASE a = Len(mailed) + 1
      BY <3>2, <2>2, <1>4, <1>5, <1>8
    <3>3. CASE b = Len(mailed) + 1
      BY <3>3, <2>2, <1>4, <1>5, <1>8
    <3> QED BY <1>5, <3>1, <3>2, <3>3
  <2> QED BY <2>1, <2>2 DEF MailsFresh
<1>11. BatchItems'
  <2>1. \E a \in 1..Len(mailed') : mailed'[a].item = i
    <3>1. Len(mailed) + 1 \in 1..Len(mailed')
      BY <1>5
    <3> QED BY <3>1, <1>4, <1>5
  <2>2. ASSUME NEW k \in Items, k # i, \A a \in 1..Len(mailed) : mailed[a].item # k
        PROVE  \A a \in 1..Len(mailed') : mailed'[a].item # k
    BY <2>2, <1>4, <1>5
  <2>3. ASSUME NEW k \in Items, \E a \in 1..Len(mailed) : mailed[a].item = k
        PROVE  \E a \in 1..Len(mailed') : mailed'[a].item = k
    BY <2>3, <1>5
  <2> QED BY <1>1, <1>2, <1>7, <1>9, <2>1, <2>2, <2>3 DEF BatchItems
<1>12. BatchAccounted'
  BY <1>1, <1>2 DEF CmdInv, BatchAccounted, Failing
<1> QED BY <1>1, <1>6, <1>10, <1>11, <1>12 DEF CmdInv

LEMMA PermitKept ==
  ASSUME CmdInv, NEW i \in Items, DropPermit(i)
  PROVE  CmdInv'
<1>1. /\ cmdPc = "batch" /\ fetches[i] = "mailing" /\ CmdTypes /\ MailsFresh /\ BatchItems
      /\ fetches' = [fetches EXCEPT ![i] = "mailed"]
      /\ UNCHANGED <<cmd, cmdPc, mailed, failure, shown, trouble, exitCode>>
  BY DEF DropPermit, CmdInv
<1>2. Items' = Items /\ i \in DOMAIN fetches
  BY <1>1 DEF Items, CmdTypes
<1>3. CmdTypes'
  BY <1>1, <1>2 DEF CmdTypes
<1>4. fetches'[i] = "mailed" /\ \A k \in Items \ {i} : fetches'[k] = fetches[k]
  BY <1>1, <1>2 DEF CmdTypes
<1>5. MailsFresh'
  <2>1. \A a \in 1..Len(mailed) : mailed[a].item \in Items
    BY <1>1, MailItem DEF CmdTypes
  <2> QED BY <1>1, <1>4, <2>1 DEF MailsFresh
<1>6. BatchItems'
  BY <1>1, <1>2, <1>4 DEF BatchItems
<1>7. BatchAccounted'
  BY <1>1, <1>2 DEF CmdInv, BatchAccounted, Failing
<1> QED BY <1>1, <1>3, <1>5, <1>6, <1>7 DEF CmdInv

\* A mail taken in leaves its item shown, failed or met by trouble, and no other mail speaks of it.
LEMMA ReceiveKept ==
  ASSUME CmdInv, ReceiveFetch
  PROVE  CmdInv'
<1>1. /\ cmdPc = "batch" /\ CmdTypes /\ MailsFresh /\ BatchItems /\ mailed # <<>>
      /\ mailed' = Tail(mailed) /\ UNCHANGED <<cmd, cmdPc, fetches, exitCode>>
  BY DEF ReceiveFetch, CmdInv
<1>2. Items' = Items
  BY <1>1 DEF Items
<1>3. PICK mail : mail = Head(mailed)
  OBVIOUS
<1>4. /\ mailed \in Seq([item : Items, result : FetchErrors \cup {"ok"}])
      /\ mailed' \in Seq([item : Items, result : FetchErrors \cup {"ok"}])
      /\ Len(mailed) \in Nat \ {0} /\ Len(mailed') = Len(mailed) - 1 /\ mail = mailed[1]
      /\ \A a \in 1..Len(mailed') : a + 1 \in 1..Len(mailed) /\ mailed'[a] = mailed[a + 1]
  BY <1>1, <1>3 DEF CmdTypes
<1>5. PICK i \in Items : mail.item = i
  <2>1. 1 \in 1..Len(mailed)
    BY <1>4
  <2> QED BY <2>1, <1>4, MailItem
<1>6. i \notin shown /\ failure[i] = "none" /\ fetches[i] \in {"mailing", "mailed"}
  <2>1. 1 \in 1..Len(mailed)
    BY <1>4
  <2> QED BY <2>1, <1>1, <1>4, <1>5 DEF MailsFresh
<1>7. \A a \in 1..Len(mailed') : mailed'[a].item # i
  <2>1. 1 \in 1..Len(mailed) /\ \A a \in 1..Len(mailed') : a + 1 # 1
    BY <1>4
  <2> QED BY <2>1, <1>1, <1>4, <1>5 DEF MailsFresh
<1>8. \/ shown' = shown \cup {i} /\ trouble' = trouble /\ failure' = failure
      \/ shown' = shown /\ failure' = failure /\ trouble' # "none"
         /\ trouble' \in {"none", "pipe"} \cup Categories
      \/ shown' = shown /\ trouble' = trouble /\ failure'[i] # "none"
         /\ failure' = [failure EXCEPT ![i] = failure'[i]] /\ failure'[i] \in Categories
  <2>1. CASE mail.result = "ok"
    <3>1. Emit(i) /\ failure' = failure
      BY <1>3, <1>5, <2>1 DEF ReceiveFetch
    <3>2. CASE trouble # "none"
      BY <3>1, <3>2, <1>1 DEF Emit, CmdTypes
    <3>3. CASE trouble = "none"
      BY <3>1, <3>3, TroublesKnown DEF Emit
    <3> QED BY <3>2, <3>3
  <2>2. CASE mail.result # "ok"
    <3>1. Record(i, mail.result) /\ UNCHANGED <<shown, trouble>>
      BY <1>3, <1>5, <2>2 DEF ReceiveFetch
    <3>2. failure' = [failure EXCEPT ![i] = CategoryOf(mail.result)] /\ i \in DOMAIN failure
      BY <3>1, <1>1 DEF Record, CmdTypes
    <3>3. failure'[i] = CategoryOf(mail.result)
      BY <3>2
    <3> QED BY <3>1, <3>2, <3>3, CategoryKnown
  <2> QED BY <2>1, <2>2
<1>9. \A k \in Items \ {i} : (k \in shown' <=> k \in shown) /\ failure'[k] = failure[k]
  BY <1>1, <1>8 DEF CmdTypes
<1>10. i \in shown' \/ failure'[i] # "none" \/ trouble' # "none"
  BY <1>8
<1>11. i \in shown' => failure'[i] = "none"
  BY <1>6, <1>8
<1>12. trouble # "none" => trouble' # "none"
  BY <1>8
<1>13. CmdTypes'
  <2>1. failure' \in [Items -> Categories \cup {"none"}]
    BY <1>1, <1>8 DEF CmdTypes
  <2>2. shown' \subseteq Items /\ trouble' \in {"none", "pipe"} \cup Categories
    BY <1>1, <1>8 DEF CmdTypes
  <2> QED BY <1>1, <1>2, <1>4, <2>1, <2>2 DEF CmdTypes
<1>14. MailsFresh'
  <2>1. ASSUME NEW a \in 1..Len(mailed')
        PROVE  /\ fetches'[mailed'[a].item] \in {"mailing", "mailed"}
               /\ mailed'[a].item \notin shown' /\ failure'[mailed'[a].item] = "none"
    <3>1. mailed'[a].item \in Items \ {i}
      BY <1>4, <1>7, MailItem
    <3> QED BY <3>1, <1>1, <1>4, <1>9 DEF MailsFresh
  <2>2. ASSUME NEW a \in 1..Len(mailed'), NEW b \in 1..Len(mailed'), mailed'[a].item = mailed'[b].item
        PROVE  a = b
    <3>1. a + 1 = b + 1
      BY <2>2, <1>1, <1>4 DEF MailsFresh
    <3> QED BY <3>1
  <2> QED BY <2>1, <2>2 DEF MailsFresh
<1>15. BatchItems'
  <2>1. ASSUME NEW k \in Items, k # i, \E a \in 1..Len(mailed) : mailed[a].item = k
        PROVE  \E a \in 1..Len(mailed') : mailed'[a].item = k
    <3>1. PICK a \in 1..Len(mailed) : mailed[a].item = k
      BY <2>1
    <3>2. a # 1
      BY <3>1, <2>1, <1>4, <1>5
    <3>3. a - 1 \in 1..Len(mailed') /\ (a - 1) + 1 = a
      BY <3>2, <1>4
    <3> QED BY <3>1, <3>3, <1>4
  <2>2. ASSUME NEW k \in Items, \A a \in 1..Len(mailed) : mailed[a].item # k
        PROVE  \A a \in 1..Len(mailed') : mailed'[a].item # k
    BY <2>2, <1>4
  <2>3. ASSUME NEW k \in Items, k # i
        PROVE /\ fetches'[k] \in {"unasked", "fetching", "mailing", "mailed"}
              /\ fetches'[k] \in {"unasked", "fetching"} =>
                   k \notin shown' /\ failure'[k] = "none" /\ \A a \in 1..Len(mailed') : mailed'[a].item # k
              /\ fetches'[k] \in {"mailing", "mailed"} =>
                   \/ k \in shown' \/ failure'[k] # "none" \/ trouble' # "none"
                   \/ \E a \in 1..Len(mailed') : mailed'[a].item = k
              /\ k \in shown' => failure'[k] = "none"
    BY <2>1, <2>2, <2>3, <1>1, <1>9, <1>12 DEF BatchItems
  <2>4. fetches'[i] \in {"mailing", "mailed"}
    BY <1>1, <1>6
  <2> QED BY <1>2, <1>10, <1>11, <2>3, <2>4 DEF BatchItems
<1>16. BatchAccounted'
  <2>1. shown' \cap Failing' = {}
    BY <1>2, <1>15 DEF BatchItems, Failing
  <2> QED BY <1>1, <2>1 DEF CmdInv, BatchAccounted
<1> QED BY <1>1, <1>13, <1>14, <1>15, <1>16 DEF CmdInv

LEMMA FinishBatchKept ==
  ASSUME CmdInv, FinishBatch
  PROVE  CmdInv'
<1>1. /\ cmdPc = "batch" /\ cmd.command = "fetch" /\ cmd.urls > 1 /\ CmdTypes /\ BatchItems
      /\ mailed = <<>> /\ \A i \in Items : fetches[i] = "mailed"
      /\ cmdPc' = "exited" /\ exitCode' = Finalize(trouble, Failed)
      /\ UNCHANGED <<cmd, fetches, mailed, failure, shown, trouble>>
  BY DEF FinishBatch, CmdInv, Exits
<1>2. Items' = Items /\ Failing' = Failing
  BY <1>1 DEF Items, Failing
<1>3. CmdTypes'
  BY <1>1, <1>2 DEF CmdTypes
<1>4. Failed \subseteq Categories /\ (Failed = {} => Failing = {})
  BY <1>1 DEF Failed, Failing, CmdTypes
<1>5. exitCode' = 0 => trouble \in {"none", "pipe"} /\ Failing = {}
  BY <1>1, <1>4, NoFailureAtZero DEF CmdTypes
<1>6. Failing = {} /\ trouble = "none" => shown = Items
  <2>1. ~ \E a \in 1..Len(mailed) : TRUE
    <3>1. Len(mailed) = 0
      BY <1>1
    <3> QED BY <3>1
  <2>2. \A i \in Items : i \in shown \/ failure[i] # "none" \/ trouble # "none"
    BY <2>1, <1>1 DEF BatchItems
  <2>3. shown \subseteq Items
    BY <1>1 DEF CmdTypes
  <2> QED BY <2>2, <2>3 DEF Failing
<1>7. {i \in Items : fetches[i] # "unasked"} = Items /\ Items # {}
  <2>1. Items # {}
    BY <1>1, LineShape DEF Items, CmdTypes
  <2> QED BY <2>1, <1>1
<1>8. BatchAccounted'
  BY <1>1, <1>2, <1>5, <1>6, <1>7 DEF BatchAccounted
<1> QED BY <1>1, <1>3, <1>8 DEF CmdInv

LEMMA ReportKept ==
  ASSUME CmdInv, NEW i \in Items, NEW result \in FetchErrors \cup {"ok"}, CrawlReports(i, result)
  PROVE  CmdInv'
<1>1. /\ cmdPc = "crawl" /\ cmd.command = "crawl" /\ fetches[i] = "unasked" /\ CmdTypes /\ CrawlItems
      /\ UNCHANGED <<cmd, cmdPc, mailed, exitCode>>
  BY DEF CrawlReports, CmdInv
<1>2. Items' = Items /\ i \in DOMAIN fetches /\ i \in DOMAIN failure
  BY <1>1 DEF Items, CmdTypes
<1>3. ASSUME Emit(i)
      PROVE  /\ shown' = shown \/ shown' = shown \cup {i}
             /\ i \in shown' \/ trouble' # "none"
             /\ trouble # "none" => trouble' # "none"
             /\ trouble' \in {"none", "pipe"} \cup Categories
  <2>1. CASE trouble # "none"
    BY <2>1, <1>1, <1>3 DEF Emit, CmdTypes
  <2>2. CASE trouble = "none"
    BY <2>2, <1>3, TroublesKnown DEF Emit
  <2> QED BY <2>1, <2>2
<1>4. CASE result = "ok"
  <2>1. /\ failure' = failure /\ Emit(i) /\ fetches' = [fetches EXCEPT ![i] = "fetched"]
    BY <1>4 DEF CrawlReports
  <2>2. fetches'[i] = "fetched" /\ DOMAIN fetches' = Items
        /\ \A k \in Items \ {i} : fetches'[k] = fetches[k]
    BY <2>1, <1>1, <1>2 DEF CmdTypes
  <2>3. CmdTypes'
    BY <1>1, <1>2, <1>3, <2>1, <2>2 DEF CmdTypes
  <2>4. CrawlItems'
    <3>1. failure'[i] = "none"
      BY <1>1, <2>1 DEF CrawlItems
    <3>2. \A k \in Items \ {i} : k \in shown' <=> k \in shown
      BY <1>3, <2>1
    <3> QED BY <3>1, <3>2, <1>1, <1>2, <1>3, <2>1, <2>2 DEF CrawlItems
  <2> QED BY <1>1, <2>3, <2>4 DEF CmdInv, BatchAccounted
<1>5. CASE result # "ok"
  <2>1. /\ Record(i, result) /\ fetches' = [fetches EXCEPT ![i] = "failed"]
        /\ IF cmd.format = "json" THEN Emit(i) ELSE UNCHANGED <<shown, trouble>>
    BY <1>5 DEF CrawlReports
  <2>2. fetches'[i] = "failed" /\ DOMAIN fetches' = Items
        /\ \A k \in Items \ {i} : fetches'[k] = fetches[k]
    BY <2>1, <1>1, <1>2 DEF CmdTypes
  <2>3. /\ failure'[i] # "none" /\ failure' \in [Items -> Categories \cup {"none"}]
        /\ \A k \in Items \ {i} : failure'[k] = failure[k]
    BY <2>1, <1>1, <1>2, CategoryKnown DEF Record, CmdTypes
  <2>4. /\ shown' = shown \/ shown' = shown \cup {i}
        /\ cmd.format = "json" => i \in shown' \/ trouble' # "none"
        /\ trouble # "none" => trouble' # "none"
        /\ trouble' \in {"none", "pipe"} \cup Categories
    <3>1. CASE cmd.format = "json"
      BY <3>1, <2>1, <1>3
    <3>2. CASE cmd.format # "json"
      BY <3>2, <2>1, <1>1 DEF CmdTypes
    <3> QED BY <3>1, <3>2
  <2>5. CmdTypes'
    BY <1>1, <1>2, <2>2, <2>3, <2>4 DEF CmdTypes
  <2>6. CrawlItems'
    <3>1. \A k \in Items \ {i} : k \in shown' <=> k \in shown
      BY <2>4
    <3> QED BY <3>1, <1>1, <1>2, <2>2, <2>3, <2>4 DEF CrawlItems
  <2> QED BY <1>1, <2>5, <2>6 DEF CmdInv, BatchAccounted
<1> QED BY <1>4, <1>5

LEMMA CrawlFailureKept ==
  ASSUME CmdInv, NEW error \in FetchErrors, CrawlFails(error)
  PROVE  CmdInv'
<1>1. /\ cmdPc = "crawl" /\ CmdTypes /\ cmdPc' = "exited" /\ exitCode' = CodeOf[CategoryOf(error)]
      /\ UNCHANGED <<cmd, fetches, mailed, failure, shown, trouble>>
  BY DEF CrawlFails, CmdInv, Exits
<1>2. exitCode' # 0
  BY <1>1, CategoryKnown, CodesFail
<1>3. CmdTypes'
  BY <1>1 DEF CmdTypes, Items
<1> QED BY <1>1, <1>2, <1>3 DEF CmdInv, BatchAccounted

LEMMA FinishCrawlKept ==
  ASSUME CmdInv, FinishCrawl
  PROVE  CmdInv'
<1> DEFINE begun == {i \in Items : fetches[i] # "unasked"}
<1> DEFINE failed == IF begun # {} /\ Failing = begun THEN Failed ELSE {}
<1>1. /\ cmdPc = "crawl" /\ cmd.command = "crawl" /\ CmdTypes /\ CrawlItems
      /\ cmdPc' = "exited" /\ exitCode' = Finalize(trouble', failed)
      /\ UNCHANGED <<cmd, fetches, mailed, failure, shown>>
  BY DEF FinishCrawl, CmdInv, Exits
<1>2. /\ trouble' \in {"none", "pipe"} \cup Categories
      /\ trouble' = "none" => trouble = "none"
  <2>1. "io" \in Categories
    <3>1. 6 \in 1..Len(Precedence) /\ Precedence[6] = "io"
      BY DEF Precedence
    <3> QED BY <3>1 DEF Categories
  <2>2. CASE trouble = "none"
    BY <2>1, <2>2 DEF FinishCrawl
  <2>3. CASE trouble # "none"
    BY <2>3, <1>1 DEF FinishCrawl, CmdTypes
  <2> QED BY <2>2, <2>3
<1>3. Items' = Items /\ Failing' = Failing
  BY <1>1 DEF Items, Failing
<1>4. CmdTypes'
  BY <1>1, <1>2, <1>3 DEF CmdTypes
<1>5. Failed \subseteq Categories /\ (Failed = {} => Failing = {})
  BY <1>1 DEF Failed, Failing, CmdTypes
<1>6. exitCode' = 0 => trouble' \in {"none", "pipe"} /\ (Failing = begun => begun = {})
  <2>1. failed \subseteq Categories
    BY <1>5
  <2>2. exitCode' = 0 => trouble' \in {"none", "pipe"} /\ failed = {}
    BY <1>1, <1>2, <2>1, NoFailureAtZero
  <2> QED BY <2>2, <1>5
<1>7. trouble' = "none" /\ (OutputOf(cmd) # "markdown" \/ Failing = {}) => begun = shown
  <2>1. OutputOf(cmd) # "markdown" => cmd.format = "json"
    <3>1. cmd \in CommandLines
      BY <1>1 DEF CmdTypes
    <3>2. cmd.format \in {"none", "markdown", "json"} /\ ~cmd.js /\ ~cmd.schema
      BY <1>1, <3>1, LineShape
    <3>3. OutputOf(cmd) = FormatOf(cmd)
      BY <1>1, <3>2 DEF OutputOf, FormatOf
    <3> QED BY <3>2, <3>3 DEF FormatOf
  <2>2. SUFFICES ASSUME trouble' = "none", cmd.format = "json" \/ Failing = {} PROVE begun = shown
    BY <2>1
  <2>3. ASSUME NEW i \in Items PROVE i \in shown <=> fetches[i] # "unasked"
    <3>1. CASE fetches[i] = "unasked"
      BY <3>1, <1>1 DEF CrawlItems
    <3>2. CASE fetches[i] = "fetched"
      BY <3>2, <1>1, <1>2, <2>2 DEF CrawlItems
    <3>3. CASE fetches[i] = "failed"
      BY <3>3, <1>1, <1>2, <2>2 DEF CrawlItems, Failing
    <3> QED BY <3>1, <3>2, <3>3, <1>1 DEF CrawlItems
  <2> QED BY <2>3, <1>1 DEF CmdTypes
<1>8. BatchAccounted'
  <2>1. OutputOf(cmd') = OutputOf(cmd) /\ cmd'.command = "crawl"
    BY <1>1
  <2>2. {i \in Items' : fetches'[i] # "unasked"} = begun
    BY <1>1, <1>3
  <2> HIDE DEF begun, failed
  <2> QED BY <1>1, <1>3, <1>6, <1>7, <2>1, <2>2 DEF BatchAccounted
<1> QED BY <1>1, <1>4, <1>8 DEF CmdInv

LEMMA CommandStep == CmdInv /\ [CommandNext]_cmdVars => CmdInv'
<1> SUFFICES ASSUME CmdInv, [CommandNext]_cmdVars PROVE CmdInv'
  OBVIOUS
<1>1. ASSUME NEW c \in CommandLines, Begin(c) PROVE CmdInv'
  BY <1>1, BeginKept
<1>2. ASSUME NEW c \in CommandLines, RefuseCommand(c) PROVE CmdInv'
  BY <1>2, RefusalKept
<1>3. CASE FetchSingle
  BY <1>3, SingleKept
<1>4. ASSUME NEW i \in Items, SpawnFetch(i) PROVE CmdInv'
  BY <1>4, SpawnKept
<1>5. ASSUME NEW i \in Items, DropPermit(i) PROVE CmdInv'
  BY <1>5, PermitKept
<1>6. ASSUME NEW i \in Items, NEW result \in FetchErrors \cup {"ok"}, FetchMails(i, result) PROVE CmdInv'
  BY <1>6, MailKept
<1>7. ASSUME NEW i \in Items, NEW result \in FetchErrors \cup {"ok"}, CrawlReports(i, result) PROVE CmdInv'
  BY <1>7, ReportKept
<1>8. CASE ReceiveFetch
  BY <1>8, ReceiveKept
<1>9. CASE FinishBatch
  BY <1>9, FinishBatchKept
<1>10. ASSUME NEW error \in FetchErrors, CrawlFails(error) PROVE CmdInv'
  BY <1>10, CrawlFailureKept
<1>11. CASE FinishCrawl
  BY <1>11, FinishCrawlKept
<1>12. CASE UNCHANGED cmdVars
  BY <1>12 DEF cmdVars, CmdInv, CmdTypes, MailsFresh, BatchItems, CrawlItems, BatchAccounted, Items, Failing
<1> QED BY <1>1, <1>2, <1>3, <1>4, <1>5, <1>6, <1>7, <1>8, <1>9, <1>10, <1>11, <1>12 DEF CommandNext

\* An exit code 0 of the command line means what it says, for any command line, any number of URLs and
\* any number of permits: no failure of a batch and no output that was never written hides behind it
\* (finalize_multi_item_result, run_batch, crawl::run).
THEOREM BatchesAccount == CommandSpec => []BatchAccounted
<1>1. CmdInv => BatchAccounted
  BY DEF CmdInv
<1> QED BY <1>1, CommandStarts, CommandStep, PTL DEF CommandSpec

-----------------------------------------------------------------------------
(***************************************************************************)
(* Exchange: what a request with any set of mistakes is refused with, by any*)
(* surface.                                                                *)
(***************************************************************************)
OnItsWay == {"surface", "host", "session", "worker", "engine", "render"}

\* What a surface that lets a request through has seen to.
SurfaceCleared == {"malformed", "private", "hugeSelector"}

\* What a session that sends a request has seen to.
SessionCleared == {"malformed", "private", "badHeader", "manyHeaders", "badGlob", "identity", "longDelay"}

RequestInv ==
  /\ request = [surface |-> request.surface, op |-> request.op, flaws |-> request.flaws,
                 before |-> request.before]
  /\ request.surface \in {"mcp", "http", "rpc", "library"} /\ request.before \in {"none", "up", "ended"}
  /\ held \in {"none", "up", "ended"}
  /\ stage \in OnItsWay \cup {"idle", "answered"}
  /\ stage = "idle" => refusal = "none" /\ fault = "none"
  /\ stage # "idle" => request.op \in Offers[request.surface] /\ request.flaws \subseteq Flaws(request)
  /\ stage \in OnItsWay => refusal = "none" /\ fault = "none" /\ held = request.before

StageInv ==
  /\ stage = "surface" => request.surface # "library"
  /\ stage \in OnItsWay \ {"surface"} /\ request.surface # "library" =>
       /\ request.flaws \cap SurfaceCleared = {}
       /\ request.op = "session" => request.before # "none"
  /\ stage = "host" => ~InSession(request)
  /\ stage \in {"session", "worker"} => InSession(request)
  /\ stage = "worker" /\ request.op # "open" =>
       /\ request.flaws \cap SessionCleared = {}
       /\ Left \cap {"longTimeout", "wide"} = {}
       /\ request.surface # "mcp" => held = "up"
  /\ stage \in {"engine", "render"} =>
       request.op # "open" /\ request.flaws \cap {"malformed", "private"} = {}

ExchangeInv == RequestInv /\ StageInv /\ CallerMistakeNamed

-----------------------------------------------------------------------------
\* The checks of a list, as a set of flaws and what each is refused with.
Pairs(checks) == {checks[i] : i \in 1..Len(checks)}

LEMMA PairsOfConcat ==
  ASSUME NEW a, IsList(a), NEW b, IsList(b)
  PROVE  IsList(a \o b) /\ Pairs(a \o b) = Pairs(a) \cup Pairs(b)
<1>1. PICK S : a \in Seq(S)
  BY DEF IsList
<1>2. PICK T : b \in Seq(T)
  BY DEF IsList
<1>3. PICK U : U = S \cup T
  OBVIOUS
<1>4. a \in Seq(U)
  <2>1. Len(a) \in Nat /\ a = [i \in 1..Len(a) |-> a[i]] /\ \A i \in 1..Len(a) : a[i] \in U
    BY <1>1, <1>3
  <2> QED BY <2>1
<1>5. b \in Seq(U)
  <2>1. Len(b) \in Nat /\ b = [i \in 1..Len(b) |-> b[i]] /\ \A i \in 1..Len(b) : b[i] \in U
    BY <1>2, <1>3
  <2> QED BY <2>1
<1>6. PICK ab : ab = a \o b
  OBVIOUS
<1>7. /\ ab \in Seq(U) /\ Len(ab) = Len(a) + Len(b) /\ Len(a) \in Nat /\ Len(b) \in Nat
      /\ \A i \in 1..Len(a) : ab[i] = a[i]
      /\ \A i \in 1..Len(b) : ab[Len(a) + i] = b[i]
  BY <1>4, <1>5, <1>6
<1>8. Pairs(ab) \subseteq Pairs(a) \cup Pairs(b)
  <2>1. SUFFICES ASSUME NEW i \in 1..Len(ab) PROVE ab[i] \in Pairs(a) \cup Pairs(b)
    BY DEF Pairs
  <2>2. CASE i \in 1..Len(a)
    BY <2>2, <1>7 DEF Pairs
  <2>3. CASE i > Len(a)
    <3>1. i - Len(a) \in 1..Len(b) /\ Len(a) + (i - Len(a)) = i
      BY <2>3, <1>7
    <3> QED BY <3>1, <1>7 DEF Pairs
  <2> QED BY <2>2, <2>3, <1>7
<1>9. Pairs(a) \subseteq Pairs(ab)
  BY <1>7 DEF Pairs
<1>10. Pairs(b) \subseteq Pairs(ab)
  <2>1. SUFFICES ASSUME NEW i \in 1..Len(b) PROVE b[i] \in Pairs(ab)
    BY DEF Pairs
  <2>2. Len(a) + i \in 1..Len(ab)
    BY <1>7
  <2> QED BY <2>2, <1>7 DEF Pairs
<1> QED BY <1>6, <1>7, <1>8, <1>9, <1>10 DEF IsList

\* What refuses is a check whose flaw is there, and none of them is when nothing refuses.
LEMMA RefusedIs ==
  ASSUME NEW checks, IsList(checks), NEW flaws
  PROVE  \/ Refused(checks, flaws) = "none" /\ \A p \in Pairs(checks) : p[1] \notin flaws
         \/ \E p \in Pairs(checks) : p[1] \in flaws /\ Refused(checks, flaws) = p[2]
<1> DEFINE hits == {i \in 1..Len(checks) : checks[i][1] \in flaws}
<1>1. CASE hits = {}
  <2>1. Refused(checks, flaws) = "none"
    BY <1>1 DEF Refused
  <2> QED BY <1>1, <2>1 DEF Pairs
<1>2. CASE hits # {}
  <2>1. \E i \in hits : \A j \in hits : i <= j
    <3>1. Len(checks) \in Nat
      BY DEF IsList
    <3>2. hits \subseteq Nat
      BY <3>1
    <3> QED BY <3>2, <1>2, Sums!LeastNumber
  <2>2. PICK k : k = CHOOSE i \in hits : \A j \in hits : i <= j
    OBVIOUS
  <2>3. k \in hits
    BY <2>1, <2>2
  <2>4. Refused(checks, flaws) = checks[k][2]
    BY <1>2, <2>2 DEF Refused
  <2> QED BY <2>3, <2>4 DEF Pairs
<1> QED BY <1>1, <1>2

LEMMA OneCheck ==
  ASSUME NEW p
  PROVE  IsList(<<p>>) /\ Pairs(<<p>>) = {p}
<1>1. PICK s : s = <<p>>
  OBVIOUS
<1>2. s \in Seq({p}) /\ Len(s) = 1 /\ s[1] = p
  BY <1>1
<1>3. Pairs(s) = {p}
  BY <1>2 DEF Pairs
<1> QED BY <1>1, <1>2, <1>3 DEF IsList

LEMMA TwoChecks ==
  ASSUME NEW p, NEW q
  PROVE  IsList(<<p, q>>) /\ Pairs(<<p, q>>) = {p, q}
<1>1. PICK s : s = <<p, q>>
  OBVIOUS
<1>2. s \in Seq({p, q}) /\ Len(s) = 2 /\ s[1] = p /\ s[2] = q
  BY <1>1
<1>3. Pairs(s) = {p, q}
  BY <1>2 DEF Pairs
<1> QED BY <1>1, <1>2, <1>3 DEF IsList

LEMMA FiveLists ==
  ASSUME NEW a, NEW b, NEW c, NEW d, NEW e,
         IsList(a), IsList(b), IsList(c), IsList(d), IsList(e)
  PROVE  /\ IsList(a \o b \o c \o d \o e)
         /\ Pairs(a \o b \o c \o d \o e)
              = Pairs(a) \cup Pairs(b) \cup Pairs(c) \cup Pairs(d) \cup Pairs(e)
<1>1. PICK ab : ab = a \o b
  OBVIOUS
<1>2. IsList(ab) /\ Pairs(ab) = Pairs(a) \cup Pairs(b)
  BY <1>1, PairsOfConcat
<1>3. PICK abc : abc = ab \o c
  OBVIOUS
<1>4. IsList(abc) /\ Pairs(abc) = Pairs(ab) \cup Pairs(c)
  BY <1>2, <1>3, PairsOfConcat
<1>5. PICK abcd : abcd = abc \o d
  OBVIOUS
<1>6. IsList(abcd) /\ Pairs(abcd) = Pairs(abc) \cup Pairs(d)
  BY <1>4, <1>5, PairsOfConcat
<1>7. IsList(abcd \o e) /\ Pairs(abcd \o e) = Pairs(abcd) \cup Pairs(e)
  BY <1>6, PairsOfConcat
<1> QED BY <1>1, <1>2, <1>3, <1>4, <1>5, <1>6, <1>7

LEMMA SixChecks ==
  ASSUME NEW p, NEW q, NEW r, NEW s, NEW t, NEW u
  PROVE  IsList(<<p, q, r, s, t, u>>) /\ Pairs(<<p, q, r, s, t, u>>) = {p, q, r, s, t, u}
<1>1. PICK l : l = <<p, q, r, s, t, u>>
  OBVIOUS
<1>2. l \in Seq({p, q, r, s, t, u})
  BY <1>1
<1>3. /\ Len(l) = 6 /\ l[1] = p /\ l[2] = q /\ l[3] = r /\ l[4] = s /\ l[5] = t /\ l[6] = u
  BY <1>1
<1>4. \A i : i \in 1..6 <=> i \in {1, 2, 3, 4, 5, 6}
  OBVIOUS
<1>5. Pairs(l) = {p, q, r, s, t, u}
  BY <1>3, <1>4 DEF Pairs
<1> QED BY <1>1, <1>2, <1>5 DEF IsList

-----------------------------------------------------------------------------
\* What each list of checks looks for, and what it answers.
LEMMA PlainLists ==
  /\ IsList(UrlChecks) /\ Pairs(UrlChecks) = {<<"malformed", "url">>, <<"private", "address">>}
  /\ IsList(HeaderNames) /\ Pairs(HeaderNames) = {<<"badHeader", "header">>}
  /\ IsList(HeaderSizes) /\ Pairs(HeaderSizes) = {<<"manyHeaders", "header">>}
  /\ IsList(SelectorChecks)
  /\ Pairs(SelectorChecks) = {<<"longSelector", "params">>, <<"hugeSelector", "params">>}
  /\ IsList(ScriptChecks) /\ Pairs(ScriptChecks) = {<<"longScript", "params">>}
  /\ IsList(ArgumentChecks) /\ Pairs(ArgumentChecks) = {<<"undecodable", "params">>}
  /\ IsList(GlobChecks) /\ Pairs(GlobChecks) = {<<"badGlob", "glob">>}
  /\ IsList(InitializeChecks) /\ Pairs(InitializeChecks) = {<<"longAgent", "worker">>}
  /\ IsList(BodyChecks) /\ Pairs(BodyChecks) = {<<"hugeUrl", "body">>, <<"undecodable", "decode">>}
  /\ IsList(DurationChecks)
  /\ Pairs(DurationChecks) = {<<"longTimeout", "worker">>, <<"longDelay", "worker">>}
BY OneCheck, TwoChecks, Zenon
   DEF UrlChecks, HeaderNames, HeaderSizes, SelectorChecks, ScriptChecks, ArgumentChecks, GlobChecks,
       InitializeChecks, BodyChecks, DurationChecks

LEMMA OptionPairs ==
  /\ IsList(OptionChecks)
  /\ Pairs(OptionChecks) = {<<"cookieFile", "cookies">>, <<"badHeader", "header">>}
<1>1. PICK c : c = << <<"cookieFile", "cookies">> >>
  OBVIOUS
<1>2. IsList(c) /\ Pairs(c) = {<<"cookieFile", "cookies">>}
  BY <1>1, OneCheck
<1>3. OptionChecks = c \o HeaderNames
  BY <1>1 DEF OptionChecks
<1> QED BY <1>2, <1>3, PlainLists, PairsOfConcat

\* A tool refuses what is wrong with the arguments, the URL, the selector or the options.
ToolPairs ==
  {<<"longScript", "params">>, <<"malformed", "url">>, <<"private", "address">>,
   <<"longSelector", "params">>, <<"hugeSelector", "params">>, <<"cookieFile", "cookies">>,
   <<"badHeader", "header">>}

LEMMA ToolLists ==
  /\ IsList(McpChecks) /\ Pairs(McpChecks) = {<<"undecodable", "params">>} \cup ToolPairs
  /\ IsList(HttpChecks)
  /\ Pairs(HttpChecks) = {<<"hugeUrl", "body">>, <<"undecodable", "decode">>} \cup ToolPairs
  /\ IsList(RpcChecks)
  /\ Pairs(RpcChecks) = {<<"undecodable", "params">>, <<"badSchema", "params">>} \cup ToolPairs
<1>2. /\ IsList(McpChecks)
      /\ Pairs(McpChecks) = Pairs(ArgumentChecks) \cup Pairs(ScriptChecks) \cup Pairs(UrlChecks)
                            \cup Pairs(SelectorChecks) \cup Pairs(OptionChecks)
  BY FiveLists, PlainLists, OptionPairs DEF McpChecks
<1>3. /\ IsList(HttpChecks)
      /\ Pairs(HttpChecks) = Pairs(BodyChecks) \cup Pairs(ScriptChecks) \cup Pairs(UrlChecks)
                             \cup Pairs(SelectorChecks) \cup Pairs(OptionChecks)
  BY FiveLists, PlainLists, OptionPairs DEF HttpChecks
<1>4. PICK decoded, schema : decoded = << <<"undecodable", "params">> >> /\ schema = << <<"badSchema", "params">> >>
  OBVIOUS
<1>5. /\ IsList(decoded) /\ Pairs(decoded) = {<<"undecodable", "params">>}
      /\ IsList(schema) /\ Pairs(schema) = {<<"badSchema", "params">>}
  BY <1>4, OneCheck
<1>6. PICK five : five = decoded \o ScriptChecks \o UrlChecks \o SelectorChecks \o schema
  OBVIOUS
<1>7. /\ IsList(five)
      /\ Pairs(five) = Pairs(decoded) \cup Pairs(ScriptChecks) \cup Pairs(UrlChecks)
                       \cup Pairs(SelectorChecks) \cup Pairs(schema)
  BY <1>5, <1>6, PlainLists, FiveLists
<1>8. RpcChecks = five \o OptionChecks
  BY <1>4, <1>6 DEF RpcChecks
<1>9. IsList(RpcChecks) /\ Pairs(RpcChecks) = Pairs(five) \cup Pairs(OptionChecks)
  BY <1>7, <1>8, OptionPairs, PairsOfConcat
<1> QED BY <1>2, <1>3, <1>5, <1>7, <1>9, PlainLists, OptionPairs DEF ToolPairs

\* What a session, the engine of the process and the worker refuse.
LEMMA LibraryLists ==
  /\ IsList(InProcessChecks)
  /\ Pairs(InProcessChecks) = Pairs(UrlChecks) \cup Pairs(GlobChecks)
  /\ IsList(SessionChecks)
  /\ Pairs(SessionChecks) =
       {<<"identity", "worker">>, <<"wide", "worker">>} \cup Pairs(HeaderNames) \cup Pairs(HeaderSizes)
         \cup Pairs(DurationChecks) \cup Pairs(UrlChecks) \cup Pairs(GlobChecks)
  /\ IsList(FetchWireChecks)
  /\ Pairs(FetchWireChecks) =
       {<<"hugeUrl", "worker">>, <<"hugeScript", "worker">>, <<"hugeSchema", "worker">>}
         \cup Pairs(UrlChecks) \cup Pairs(DurationChecks) \cup Pairs(HeaderNames) \cup Pairs(HeaderSizes)
  /\ IsList(CrawlWireChecks)
  /\ Pairs(CrawlWireChecks) =
       {<<"hugeUrl", "worker">>, <<"hugeLimit", "worker">>, <<"deep", "worker">>,
        <<"manyGlobs", "worker">>, <<"hugeSelector", "worker">>, <<"wide", "worker">>}
         \cup Pairs(UrlChecks) \cup Pairs(DurationChecks) \cup Pairs(HeaderNames) \cup Pairs(HeaderSizes)
<1>1. IsList(InProcessChecks) /\ Pairs(InProcessChecks) = Pairs(UrlChecks) \cup Pairs(GlobChecks)
  BY PlainLists, PairsOfConcat DEF InProcessChecks
<1>2. PICK identity, wide :
        identity = << <<"identity", "worker">> >> /\ wide = << <<"wide", "worker">> >>
  OBVIOUS
<1>3. /\ IsList(identity) /\ Pairs(identity) = {<<"identity", "worker">>}
      /\ IsList(wide) /\ Pairs(wide) = {<<"wide", "worker">>}
  BY <1>2, OneCheck
<1>4. /\ IsList(ImmutableSettings)
      /\ Pairs(ImmutableSettings) = Pairs(identity) \cup Pairs(HeaderNames) \cup Pairs(HeaderSizes)
  <2>1. PICK some : some = identity \o HeaderNames
    OBVIOUS
  <2>2. IsList(some) /\ Pairs(some) = Pairs(identity) \cup Pairs(HeaderNames)
    BY <1>3, <2>1, PlainLists, PairsOfConcat
  <2>3. ImmutableSettings = some \o HeaderSizes
    BY <1>2, <2>1 DEF ImmutableSettings
  <2> QED BY <2>2, <2>3, PlainLists, PairsOfConcat
<1>5. SessionChecks = ImmutableSettings \o DurationChecks \o wide \o UrlChecks \o GlobChecks
  BY <1>2 DEF SessionChecks
<1>6. /\ IsList(SessionChecks)
      /\ Pairs(SessionChecks) = Pairs(ImmutableSettings) \cup Pairs(DurationChecks) \cup Pairs(wide)
                                \cup Pairs(UrlChecks) \cup Pairs(GlobChecks)
  BY <1>3, <1>4, <1>5, PlainLists, FiveLists
<1>7. PICK sizes, schema : /\ sizes = << <<"hugeUrl", "worker">>, <<"hugeScript", "worker">> >>
                           /\ schema = << <<"hugeSchema", "worker">> >>
  OBVIOUS
<1>8. /\ IsList(sizes) /\ Pairs(sizes) = {<<"hugeUrl", "worker">>, <<"hugeScript", "worker">>}
      /\ IsList(schema) /\ Pairs(schema) = {<<"hugeSchema", "worker">>}
  BY <1>7, OneCheck, TwoChecks
<1>9. PICK five : five = sizes \o UrlChecks \o DurationChecks \o HeaderNames \o HeaderSizes
  OBVIOUS
<1>10. /\ IsList(five)
       /\ Pairs(five) = Pairs(sizes) \cup Pairs(UrlChecks) \cup Pairs(DurationChecks)
                        \cup Pairs(HeaderNames) \cup Pairs(HeaderSizes)
  BY <1>8, <1>9, PlainLists, FiveLists
<1>11. FetchWireChecks = five \o schema
  BY <1>7, <1>9 DEF FetchWireChecks
<1>12. IsList(FetchWireChecks) /\ Pairs(FetchWireChecks) = Pairs(five) \cup Pairs(schema)
  BY <1>8, <1>10, <1>11, PairsOfConcat
<1>13. PICK crawl :
         crawl = << <<"hugeUrl", "worker">>, <<"hugeLimit", "worker">>, <<"deep", "worker">>,
                    <<"manyGlobs", "worker">>, <<"hugeSelector", "worker">>, <<"wide", "worker">> >>
  OBVIOUS
<1>14. /\ IsList(crawl)
       /\ Pairs(crawl) = {<<"hugeUrl", "worker">>, <<"hugeLimit", "worker">>, <<"deep", "worker">>,
                          <<"manyGlobs", "worker">>, <<"hugeSelector", "worker">>, <<"wide", "worker">>}
  BY <1>13, SixChecks
<1>15. CrawlWireChecks = crawl \o UrlChecks \o DurationChecks \o HeaderNames \o HeaderSizes
  BY <1>13 DEF CrawlWireChecks
<1>16. /\ IsList(CrawlWireChecks)
       /\ Pairs(CrawlWireChecks) = Pairs(crawl) \cup Pairs(UrlChecks) \cup Pairs(DurationChecks)
                                   \cup Pairs(HeaderNames) \cup Pairs(HeaderSizes)
  BY <1>14, <1>15, PlainLists, FiveLists
<1>17. Pairs(SessionChecks) =
         {<<"identity", "worker">>, <<"wide", "worker">>} \cup Pairs(HeaderNames) \cup Pairs(HeaderSizes)
           \cup Pairs(DurationChecks) \cup Pairs(UrlChecks) \cup Pairs(GlobChecks)
  BY <1>3, <1>4, <1>6
<1>18. Pairs(FetchWireChecks) =
         {<<"hugeUrl", "worker">>, <<"hugeScript", "worker">>, <<"hugeSchema", "worker">>}
           \cup Pairs(UrlChecks) \cup Pairs(DurationChecks) \cup Pairs(HeaderNames) \cup Pairs(HeaderSizes)
  BY <1>8, <1>10, <1>12
<1> QED BY <1>1, <1>6, <1>12, <1>14, <1>16, <1>17, <1>18

-----------------------------------------------------------------------------
SurfaceErrors == {"params", "url", "address", "cookies", "header"}

ChecksOf(surface) ==
  CASE surface = "mcp" -> McpChecks [] surface = "http" -> HttpChecks [] surface = "rpc" -> RpcChecks

\* What a tool refuses at once is its caller's mistake, and what it lets through is free of these.
LEMMA SurfaceRefuses ==
  ASSUME NEW surface \in {"mcp", "http", "rpc"}, NEW flaws,
         NEW error, error = Refused(ChecksOf(surface), flaws)
  PROVE  /\ error \in {"none"} \cup SurfaceErrors \cup (IF surface = "http" THEN {"body", "decode"} ELSE {})
         /\ error = "none" => flaws \cap SurfaceCleared = {}
         /\ flaws = {} => error = "none"
<1>1. PICK checks : checks = ChecksOf(surface)
  OBVIOUS
<1>2. /\ IsList(checks) /\ ToolPairs \subseteq Pairs(checks)
      /\ \A p \in Pairs(checks) :
           p[2] \in SurfaceErrors \cup (IF surface = "http" THEN {"body", "decode"} ELSE {})
  <2>1. CASE surface = "mcp"
    BY <2>1, <1>1, ToolLists DEF ChecksOf, ToolPairs, SurfaceErrors
  <2>2. CASE surface = "http"
    BY <2>2, <1>1, ToolLists DEF ChecksOf, ToolPairs, SurfaceErrors
  <2>3. CASE surface = "rpc"
    BY <2>3, <1>1, ToolLists DEF ChecksOf, ToolPairs, SurfaceErrors
  <2> QED BY <2>1, <2>2, <2>3
<1>3. CASE error = "none" /\ \A p \in Pairs(checks) : p[1] \notin flaws
  <2>1. {<<"malformed", "url">>, <<"private", "address">>, <<"hugeSelector", "params">>} \subseteq Pairs(checks)
    BY <1>2 DEF ToolPairs
  <2>2. "malformed" \notin flaws /\ "private" \notin flaws /\ "hugeSelector" \notin flaws
    BY <2>1, <1>3
  <2> QED BY <2>2, <1>3 DEF SurfaceCleared
<1>4. CASE \E p \in Pairs(checks) : p[1] \in flaws /\ error = p[2]
  <2>1. error # "none" /\ flaws # {}
    BY <1>2, <1>4 DEF SurfaceErrors
  <2> QED BY <2>1, <1>2, <1>4
<1> QED BY <1>1, <1>2, <1>3, <1>4, RefusedIs

\* What a session refuses before it sends anything.
LEMMA SessionRefuses ==
  ASSUME NEW flaws, NEW error, error = Refused(SessionChecks, flaws)
  PROVE  /\ error \in {"none", "worker", "header", "url", "address", "glob"}
         /\ error = "none" => flaws \cap (SessionCleared \cup {"longTimeout", "wide"}) = {}
         /\ error = "worker" => flaws \cap {"identity", "longTimeout", "longDelay", "wide"} # {}
         /\ flaws = {} => error = "none"
<1>1. Pairs(SessionChecks) =
        {<<"identity", "worker">>, <<"wide", "worker">>, <<"badHeader", "header">>,
         <<"manyHeaders", "header">>, <<"longTimeout", "worker">>, <<"longDelay", "worker">>,
         <<"malformed", "url">>, <<"private", "address">>, <<"badGlob", "glob">>}
  BY LibraryLists, PlainLists
<1>2. CASE error = "none" /\ \A p \in Pairs(SessionChecks) : p[1] \notin flaws
  <2>1. /\ "identity" \notin flaws /\ "wide" \notin flaws /\ "badHeader" \notin flaws
        /\ "manyHeaders" \notin flaws /\ "longTimeout" \notin flaws /\ "longDelay" \notin flaws
        /\ "malformed" \notin flaws /\ "private" \notin flaws /\ "badGlob" \notin flaws
    BY <1>1, <1>2
  <2> QED BY <2>1, <1>2 DEF SessionCleared
<1>3. CASE \E p \in Pairs(SessionChecks) : p[1] \in flaws /\ error = p[2]
  BY <1>1, <1>3
<1> QED BY <1>2, <1>3, LibraryLists, RefusedIs

\* What the process refuses on its own engine.
LEMMA HostRefuses ==
  ASSUME NEW flaws, NEW error, error = Refused(InProcessChecks, flaws)
  PROVE  /\ error \in {"none", "url", "address", "glob"}
         /\ error = "none" => flaws \cap {"malformed", "private"} = {}
         /\ flaws = {} => error = "none"
<1>1. Pairs(InProcessChecks) = {<<"malformed", "url">>, <<"private", "address">>, <<"badGlob", "glob">>}
  BY LibraryLists, PlainLists
<1>2. CASE error = "none" /\ \A p \in Pairs(InProcessChecks) : p[1] \notin flaws
  BY <1>1, <1>2
<1>3. CASE \E p \in Pairs(InProcessChecks) : p[1] \in flaws /\ error = p[2]
  BY <1>1, <1>3
<1> QED BY <1>2, <1>3, LibraryLists, RefusedIs

\* What a worker refuses when it is initialised, and what it refuses of a fetch and of a crawl that
\* a session has let through: sizes only.
LEMMA WorkerRefuses ==
  ASSUME NEW flaws
  PROVE  /\ Refused(InitializeChecks, flaws) \in {"none", "worker"}
         /\ Refused(InitializeChecks, flaws) = "worker" => "longAgent" \in flaws
         /\ flaws \cap (SessionCleared \cup {"longTimeout", "wide"}) = {} =>
              /\ Refused(FetchWireChecks, flaws) \in {"none", "worker"}
              /\ Refused(FetchWireChecks, flaws) = "worker" =>
                   flaws \cap {"hugeUrl", "hugeScript", "hugeSchema"} # {}
              /\ Refused(CrawlWireChecks, flaws) \in {"none", "worker"}
              /\ Refused(CrawlWireChecks, flaws) = "worker" =>
                   flaws \cap {"hugeUrl", "hugeLimit", "deep", "manyGlobs", "hugeSelector"} # {}
<1>1. /\ Pairs(InitializeChecks) = {<<"longAgent", "worker">>}
      /\ Pairs(FetchWireChecks) =
           {<<"hugeUrl", "worker">>, <<"hugeScript", "worker">>, <<"hugeSchema", "worker">>,
            <<"badHeader", "header">>, <<"manyHeaders", "header">>, <<"longTimeout", "worker">>,
            <<"longDelay", "worker">>, <<"malformed", "url">>, <<"private", "address">>}
      /\ Pairs(CrawlWireChecks) =
           {<<"hugeUrl", "worker">>, <<"hugeLimit", "worker">>, <<"deep", "worker">>,
            <<"manyGlobs", "worker">>, <<"hugeSelector", "worker">>, <<"wide", "worker">>,
            <<"badHeader", "header">>, <<"manyHeaders", "header">>, <<"longTimeout", "worker">>,
            <<"longDelay", "worker">>, <<"malformed", "url">>, <<"private", "address">>}
  BY LibraryLists, PlainLists
<1>2. IsList(InitializeChecks) /\ IsList(FetchWireChecks) /\ IsList(CrawlWireChecks)
  BY LibraryLists, PlainLists
<1>3. \/ Refused(InitializeChecks, flaws) = "none"
      \/ "longAgent" \in flaws /\ Refused(InitializeChecks, flaws) = "worker"
  <2>1. PICK error : error = Refused(InitializeChecks, flaws)
    OBVIOUS
  <2>2. CASE error = "none"
    BY <2>1, <2>2
  <2>3. CASE \E p \in Pairs(InitializeChecks) : p[1] \in flaws /\ error = p[2]
    BY <2>1, <2>3, <1>1
  <2> QED BY <2>1, <2>2, <2>3, <1>2, RefusedIs
<1>4. ASSUME flaws \cap (SessionCleared \cup {"longTimeout", "wide"}) = {}
      PROVE  \/ Refused(FetchWireChecks, flaws) = "none"
             \/ /\ Refused(FetchWireChecks, flaws) = "worker"
                /\ flaws \cap {"hugeUrl", "hugeScript", "hugeSchema"} # {}
  <2>1. PICK error : error = Refused(FetchWireChecks, flaws)
    OBVIOUS
  <2>2. CASE error = "none"
    BY <2>1, <2>2
  <2>3. CASE \E p \in Pairs(FetchWireChecks) : p[1] \in flaws /\ error = p[2]
    <3>1. PICK p \in Pairs(FetchWireChecks) : p[1] \in flaws /\ error = p[2]
      BY <2>3
    <3> QED BY <2>1, <3>1, <1>1, <1>4 DEF SessionCleared
  <2> QED BY <2>1, <2>2, <2>3, <1>2, RefusedIs
<1>5. ASSUME flaws \cap (SessionCleared \cup {"longTimeout", "wide"}) = {}
      PROVE  \/ Refused(CrawlWireChecks, flaws) = "none"
             \/ /\ Refused(CrawlWireChecks, flaws) = "worker"
                /\ flaws \cap {"hugeUrl", "hugeLimit", "deep", "manyGlobs", "hugeSelector"} # {}
  <2>1. PICK error : error = Refused(CrawlWireChecks, flaws)
    OBVIOUS
  <2>2. CASE error = "none"
    BY <2>1, <2>2
  <2>3. CASE \E p \in Pairs(CrawlWireChecks) : p[1] \in flaws /\ error = p[2]
    <3>1. PICK p \in Pairs(CrawlWireChecks) : p[1] \in flaws /\ error = p[2]
      BY <2>3
    <3> QED BY <2>1, <3>1, <1>1, <1>5 DEF SessionCleared
  <2> QED BY <2>1, <2>2, <2>3, <1>2, RefusedIs
<1> QED BY <1>3, <1>4, <1>5

-----------------------------------------------------------------------------
ToolAnswer(surface, error) ==
  CASE surface = "mcp" -> McpAnswer(error)
    [] surface = "http" -> HttpAnswer(error)
    [] surface = "rpc" -> RpcAnswer(error)

\* How the surfaces answer the errors that are their callers', and those that are not.
LEMMA AnswersNamed ==
  ASSUME NEW surface \in {"mcp", "http", "rpc"}, NEW error
  PROVE  /\ error \in SurfaceErrors \cup {"glob"} => ToolAnswer(surface, error) \in Blames
         /\ surface = "http" /\ error \in {"body", "decode"} => ToolAnswer(surface, error) \in Blames
         /\ error = "selector" => ToolAnswer(surface, error) \in Blames \cup {"500", "-32603"}
         /\ error \in {"none", "worker", "protocolTimeout", "internal", "extract"} =>
              ToolAnswer(surface, error) \notin Blames
<1>1. CASE surface = "mcp"
  BY <1>1 DEF ToolAnswer, SurfaceErrors, Blames, McpAnswer, Class
<1>2. CASE surface = "http"
  BY <1>2 DEF ToolAnswer, SurfaceErrors, Blames, HttpAnswer, Kind
<1>3. CASE surface = "rpc"
  BY <1>3 DEF ToolAnswer, SurfaceErrors, Blames, RpcAnswer, Kind
<1> QED BY <1>1, <1>2, <1>3

\* Only a caller of the library can set an identity in a session, or send a script or a schema unread.
LEMMA ToolFlaws ==
  ASSUME NEW r, r.surface \in {"mcp", "http", "rpc"}, r.op \in Offers[r.surface]
  PROVE  Flaws(r) \cap {"identity", "hugeScript", "hugeSchema"} = {}
<1>1. r.op \in {"fetch", "extract", "screenshot", "evaluate", "schema", "crawl", "map", "open", "session"}
  BY DEF Offers, McpOffers, HttpOffers, RpcOffers
<1>2. "identity" \notin Fields(r)
  BY <1>1 DEF Fields, SessionOpenRequest, SessionFetchRequest, CrawlRequest, FetchRequest, ExtractRequest,
              SchemaExtractRequest, ScreenshotRequest, EvaluateRequest, MapRequest, RequestOptions,
              SessionRequestOptions
<1>3. ASSUME NEW field, field # "identity"
      PROVE  FlawsOf(field, FALSE) \cap {"identity", "hugeScript", "hugeSchema"} = {}
  BY <1>3 DEF FlawsOf
<1>4. Flaws(r) = (UNION {FlawsOf(field, FALSE) : field \in Fields(r)}) \cup {"undecodable"}
  BY DEF Flaws
<1> QED BY <1>2, <1>3, <1>4

\* A session of the library is opened with an agent, and nothing else can be wrong with that.
LEMMA OpenFlaws ==
  ASSUME NEW r, r.op = "open"
  PROVE  Flaws(r) \subseteq {"longAgent", "undecodable"}
<1>1. Fields(r) = {"agent"}
  BY DEF Fields, SessionOpenRequest
<1>2. \A library \in BOOLEAN : FlawsOf("agent", library) = {"longAgent"}
  BY DEF FlawsOf
<1>3. PICK library \in BOOLEAN : library = (r.surface = "library")
  OBVIOUS
<1>4. (UNION {FlawsOf(field, library) : field \in Fields(r)}) = {"longAgent"}
  BY <1>1, <1>2
<1>5. Flaws(r) = (UNION {FlawsOf(field, library) : field \in Fields(r)})
                   \cup (IF library THEN {} ELSE {"undecodable"})
  BY <1>3 DEF Flaws
<1> QED BY <1>4, <1>5

LEMMA FlawsAlike ==
  ASSUME NEW r, NEW q, r.surface = q.surface, r.op = q.op
  PROVE  Flaws(r) = Flaws(q)
<1>1. Fields(r) = Fields(q)
  BY DEF Fields
<1> QED BY <1>1 DEF Flaws

-----------------------------------------------------------------------------
LEMMA ExchangeStarts == ExchangeInit => ExchangeInv
<1> SUFFICES ASSUME ExchangeInit PROVE ExchangeInv
  OBVIOUS
<1>1. PICK surface \in DOMAIN Offers : request = NotAsked(surface)
  BY DEF ExchangeInit
<1>2. surface \in {"mcp", "http", "rpc", "library"}
  BY DEF Offers
<1>3. /\ request.surface = surface /\ request.before = "none" /\ request.op = "none"
      /\ request.flaws = {}
  BY <1>1 DEF NotAsked
<1>4. RequestInv
  BY <1>1, <1>2, <1>3 DEF RequestInv, ExchangeInit, OnItsWay, NotAsked
<1> QED BY <1>2, <1>3, <1>4 DEF ExchangeInv, StageInv, CallerMistakeNamed, ExchangeInit, OnItsWay

LEMMA RequestKept ==
  ASSUME ExchangeInv, NEW op \in Offers[request.surface], NEW flaws,
         Request(op, flaws), flaws \subseteq Flaws([surface |-> request.surface, op |-> op])
  PROVE  ExchangeInv'
<1>1. /\ RequestInv /\ stage = "idle" /\ UNCHANGED <<refusal, fault, held>>
      /\ stage' = IF request.surface = "library" THEN "session" ELSE "surface"
  BY DEF Request, ExchangeInv
<1>2. request' = [surface |-> request.surface, op |-> op, flaws |-> flaws, before |-> held]
  <2>1. PICK s, o, f, b :
          request = [surface |-> s, op |-> o, flaws |-> f, before |-> b]
    BY <1>1 DEF RequestInv
  <2> QED BY <2>1 DEF Request
<1>3. /\ request'.surface = request.surface /\ request'.op = op /\ request'.flaws = flaws
      /\ request'.before = held
  BY <1>2
<1>4. Flaws(request') = Flaws([surface |-> request.surface, op |-> op])
  <2>1. PICK q : q = [surface |-> request.surface, op |-> op]
    OBVIOUS
  <2> QED BY <1>3, <2>1, FlawsAlike
<1>5. RequestInv'
  BY <1>1, <1>2, <1>3, <1>4 DEF RequestInv, OnItsWay
<1>6. request.surface = "library" => InSession(request')
  BY <1>3 DEF InSession, Offers, LibraryOffers
<1>7. StageInv'
  BY <1>1, <1>3, <1>6 DEF StageInv
<1>8. CallerMistakeNamed'
  BY <1>1 DEF CallerMistakeNamed
<1> QED BY <1>5, <1>7, <1>8 DEF ExchangeInv

LEMMA SurfaceKept ==
  ASSUME ExchangeInv, CheckSurface
  PROVE  ExchangeInv'
<1>1. /\ RequestInv /\ StageInv /\ stage = "surface" /\ UNCHANGED <<request, fault, held>>
      /\ request.surface \in {"mcp", "http", "rpc"}
  BY DEF CheckSurface, ExchangeInv, StageInv, RequestInv
<1>2. PICK error : error = Refused(ChecksOf(request.surface), request.flaws)
  OBVIOUS
<1>3. Passes(IF error = "none" /\ request.op = "session" /\ held = "none" THEN "params" ELSE error,
             IF InSession(request) THEN "session" ELSE "host")
  BY <1>1, <1>2 DEF CheckSurface, ChecksOf
<1>4. /\ error \in {"none"} \cup SurfaceErrors \cup (IF request.surface = "http" THEN {"body", "decode"} ELSE {})
      /\ error = "none" => request.flaws \cap SurfaceCleared = {}
      /\ request.flaws = {} => error = "none"
  BY <1>1, <1>2, SurfaceRefuses
<1>5. held = request.before /\ fault = "none"
  BY <1>1 DEF RequestInv, OnItsWay
<1>6. CASE refusal' = "none"
  <2>1. /\ error = "none" /\ (request.op = "session" => held # "none")
        /\ stage' = IF InSession(request) THEN "session" ELSE "host"
    BY <1>3, <1>6 DEF Passes
  <2>2. RequestInv'
    BY <1>1, <1>5, <1>6, <2>1 DEF RequestInv, OnItsWay
  <2>3. StageInv'
    BY <1>1, <1>4, <1>5, <2>1 DEF StageInv, InSession
  <2> QED BY <2>1, <2>2, <2>3 DEF ExchangeInv, CallerMistakeNamed
<1>7. CASE refusal' # "none"
  <2>1. /\ stage' = "answered"
        /\ refusal' = IF error = "none" /\ request.op = "session" /\ held = "none" THEN "params" ELSE error
    BY <1>3, <1>7 DEF Passes
  <2>2. Answer' = ToolAnswer(request.surface, refusal')
    BY <1>1 DEF Answer, ToolAnswer
  <2>3. Answer' \in Blames
    <3>1. refusal' \in SurfaceErrors \cup (IF request.surface = "http" THEN {"body", "decode"} ELSE {})
      BY <1>4, <1>7, <2>1 DEF SurfaceErrors
    <3> QED BY <3>1, <2>2, <1>1, AnswersNamed
  <2>4. request.flaws = {} => request.op = "session" /\ request.before = "none"
    BY <1>4, <1>5, <1>7, <2>1
  <2>5. RequestInv'
    BY <1>1, <2>1 DEF RequestInv, OnItsWay
  <2>6. CallerMistakeNamed'
    BY <1>1, <1>5, <2>1, <2>3, <2>4 DEF CallerMistakeNamed
  <2> QED BY <1>1, <2>1, <2>5, <2>6 DEF ExchangeInv, StageInv, OnItsWay
<1> QED BY <1>6, <1>7

LEMMA HostKept ==
  ASSUME ExchangeInv, CheckHost
  PROVE  ExchangeInv'
<1>1. /\ RequestInv /\ StageInv /\ stage = "host" /\ UNCHANGED <<request, fault, held>>
      /\ ~InSession(request) /\ held = request.before /\ fault = "none"
  BY DEF CheckHost, ExchangeInv, StageInv, RequestInv, OnItsWay
<1>2. PICK error : error = Refused(InProcessChecks, Left)
  OBVIOUS
<1>3. Passes(error, "engine")
  BY <1>2 DEF CheckHost
<1>4. /\ error \in {"none", "url", "address", "glob"}
      /\ error = "none" => Left \cap {"malformed", "private"} = {}
      /\ Left = {} => error = "none"
  BY <1>2, HostRefuses
<1>5. request.op # "open" /\ request.surface \in {"mcp", "http", "rpc"}
  BY <1>1 DEF InSession, RequestInv, OnItsWay, Offers, LibraryOffers
<1>6. CASE error = "none"
  <2>1. stage' = "engine" /\ refusal' = "none"
    BY <1>3, <1>6 DEF Passes
  <2>2. request.flaws \cap {"malformed", "private"} = {}
    BY <1>4, <1>6 DEF Left, Clamped
  <2>3. RequestInv'
    BY <1>1, <2>1 DEF RequestInv, OnItsWay
  <2>4. StageInv'
    BY <1>1, <1>5, <2>1, <2>2 DEF StageInv, OnItsWay
  <2> QED BY <1>1, <2>1, <2>2, <2>3, <2>4 DEF ExchangeInv, CallerMistakeNamed
<1>7. CASE error # "none"
  <2>1. stage' = "answered" /\ refusal' = error
    BY <1>3, <1>7 DEF Passes
  <2>2. Answer' = ToolAnswer(request.surface, refusal')
    BY <1>1, <1>5 DEF Answer, ToolAnswer
  <2>3. Answer' \in Blames
    BY <1>4, <1>5, <1>7, <2>1, <2>2, AnswersNamed DEF SurfaceErrors
  <2>4. request.flaws # {}
    BY <1>4, <1>7 DEF Left
  <2>5. RequestInv'
    BY <1>1, <2>1 DEF RequestInv, OnItsWay
  <2>6. CallerMistakeNamed'
    BY <1>1, <2>1, <2>3, <2>4 DEF CallerMistakeNamed
  <2> QED BY <1>1, <2>1, <2>5, <2>6 DEF ExchangeInv, StageInv, OnItsWay
<1> QED BY <1>6, <1>7

LEMMA PdfKept ==
  ASSUME ExchangeInv, ProbePdf
  PROVE  ExchangeInv'
<1>1. /\ RequestInv /\ StageInv /\ stage \in {"worker", "engine"} /\ stage' = "render"
      /\ Content(request) /\ UNCHANGED <<request, refusal, fault, held>>
  BY DEF ProbePdf, ExchangeInv
<1>2. request.op # "open"
  BY <1>1 DEF Content
<1>3. request.flaws \cap {"malformed", "private"} = {}
  BY <1>1, <1>2 DEF StageInv, SessionCleared
<1>4. RequestInv'
  BY <1>1 DEF RequestInv, OnItsWay
<1>5. StageInv'
  BY <1>1, <1>2, <1>3 DEF StageInv, OnItsWay
<1> QED BY <1>1, <1>3, <1>4, <1>5 DEF ExchangeInv, CallerMistakeNamed

\* What the request still carries wrong when a session looks at it.
LEMMA WhatIsLeft ==
  /\ Left \subseteq request.flaws
  /\ request.surface # "library" => Left \cap Clamped = {}
  /\ \A flaw \in request.flaws \ Clamped : flaw \in Left
BY DEF Left

LEMMA SessionKept ==
  ASSUME ExchangeInv, CheckSession
  PROVE  ExchangeInv'
<1>1. /\ RequestInv /\ StageInv /\ stage = "session" /\ UNCHANGED <<request, fault, held>>
      /\ InSession(request) /\ held = request.before /\ fault = "none"
      /\ request.op \in Offers[request.surface] /\ request.flaws \subseteq Flaws(request)
  BY DEF CheckSession, ExchangeInv, StageInv, RequestInv, OnItsWay
<1>2. PICK error : error = IF request.op = "open" THEN "none" ELSE Refused(SessionChecks, Left)
  OBVIOUS
<1>3. Passes(IF error = "none" /\ request.surface # "mcp" /\ request.op # "open" /\ held # "up"
               THEN "worker" ELSE error, "worker")
  BY <1>2 DEF CheckSession
<1>4. /\ error \in {"none", "worker", "header", "url", "address", "glob"}
      /\ error = "none" /\ request.op # "open" => Left \cap (SessionCleared \cup {"longTimeout", "wide"}) = {}
      /\ error = "worker" => Left \cap {"identity", "longTimeout", "longDelay", "wide"} # {}
      /\ Left = {} => error = "none"
  <2>1. CASE request.op = "open"
    BY <2>1, <1>2
  <2>2. CASE request.op # "open"
    <3>1. error = Refused(SessionChecks, Left)
      BY <2>2, <1>2
    <3> QED BY <3>1, SessionRefuses
  <2> QED BY <2>1, <2>2
<1>5. CASE refusal' = "none"
  <2>1. /\ stage' = "worker" /\ error = "none"
        /\ request.surface # "mcp" /\ request.op # "open" => held = "up"
    BY <1>3, <1>5 DEF Passes
  <2>2. request.op # "open" => request.flaws \cap SessionCleared = {} /\ Left \cap {"longTimeout", "wide"} = {}
    BY <1>4, <2>1, WhatIsLeft DEF SessionCleared, Clamped
  <2>3. RequestInv'
    BY <1>1, <1>5, <2>1 DEF RequestInv, OnItsWay
  <2>4. StageInv'
    <3>1. Left' = Left
      BY <1>1 DEF Left
    <3> QED BY <1>1, <2>1, <2>2, <3>1 DEF StageInv, OnItsWay
  <2> QED BY <2>1, <2>3, <2>4 DEF ExchangeInv, CallerMistakeNamed
<1>6. CASE refusal' # "none"
  <2>1. /\ stage' = "answered"
        /\ refusal' = IF error = "none" /\ request.surface # "mcp" /\ request.op # "open" /\ held # "up"
                        THEN "worker" ELSE error
    BY <1>3, <1>6 DEF Passes
  <2>2. ASSUME request.surface \in {"mcp", "http", "rpc"}
        PROVE  /\ request.before # "ended" /\ request.flaws \cap Unbounded = {} => Answer' \in Blames
               /\ request.flaws = {} => Answer' \notin Blames
    <3>1. Answer' = ToolAnswer(request.surface, refusal')
      BY <1>1, <2>2 DEF Answer, ToolAnswer
    <3>2. ASSUME request.before # "ended", request.flaws \cap Unbounded = {}
          PROVE  refusal' \in {"header", "url", "address", "glob"}
      <4>1. error # "worker"
        <5>1. "identity" \notin request.flaws
          BY <1>1, <2>2, ToolFlaws
        <5>2. "longDelay" \notin request.flaws
          BY <3>2 DEF Unbounded
        <5>3. "longTimeout" \notin Left /\ "wide" \notin Left
          BY <2>2, WhatIsLeft DEF Clamped
        <5> QED BY <5>1, <5>2, <5>3, <1>4, WhatIsLeft
      <4>2. request.surface # "mcp" /\ request.op # "open" => held = "up"
        <5>1. SUFFICES ASSUME request.surface # "mcp", request.op # "open" PROVE held = "up"
          OBVIOUS
        <5>2. request.op = "session"
          BY <5>1, <1>1, <2>2 DEF InSession
        <5>3. request.before # "none"
          BY <5>2, <1>1, <2>2 DEF StageInv, OnItsWay
        <5> QED BY <5>3, <3>2, <1>1 DEF RequestInv
      <4> QED BY <4>1, <4>2, <1>4, <1>6, <2>1
    <3>3. ASSUME request.flaws = {} PROVE refusal' = "worker"
      <4>1. Left = {}
        BY <3>3, WhatIsLeft
      <4> QED BY <4>1, <1>4, <1>6, <2>1
    <3> QED BY <3>1, <3>2, <3>3, <2>2, AnswersNamed DEF SurfaceErrors
  <2>3. RequestInv'
    BY <1>1, <2>1 DEF RequestInv, OnItsWay
  <2>4. CallerMistakeNamed'
    BY <1>1, <2>1, <2>2 DEF CallerMistakeNamed
  <2> QED BY <1>1, <2>1, <2>3, <2>4 DEF ExchangeInv, StageInv, OnItsWay
<1> QED BY <1>5, <1>6

LEMMA WorkerKept ==
  ASSUME ExchangeInv, CheckWorker
  PROVE  ExchangeInv'
<1> DEFINE initializes == request.op = "open" \/ request.surface = "mcp"
<1> DEFINE first == IF initializes THEN Refused(InitializeChecks, Left) ELSE "none"
<1> DEFINE second == CASE request.op = "open" -> "none"
                       [] request.op = "crawl" -> Refused(CrawlWireChecks, Left)
                       [] OTHER -> Refused(FetchWireChecks, Left)
<1>1. /\ RequestInv /\ StageInv /\ stage = "worker" /\ UNCHANGED <<request, fault>>
      /\ InSession(request) /\ held = request.before /\ fault = "none"
      /\ request.op \in Offers[request.surface] /\ request.flaws \subseteq Flaws(request)
  BY DEF CheckWorker, ExchangeInv, StageInv, RequestInv, OnItsWay
<1>2. PICK one, two : one = first /\ two = second
  OBVIOUS
<1>3. PICK error : error = AcrossTheWire(IF one # "none" THEN one ELSE two)
  OBVIOUS
<1>4. /\ Passes(error, IF request.op = "open" THEN "answered" ELSE "engine")
      /\ IF request.op = "open" THEN held' = (IF error = "none" THEN "up" ELSE held)
         ELSE IF request.surface = "mcp" THEN UNCHANGED held ELSE Ends(error)
  BY <1>2, <1>3 DEF CheckWorker
<1>5. request.op # "open" => Left \cap (SessionCleared \cup {"longTimeout", "wide"}) = {}
  BY <1>1, WhatIsLeft DEF StageInv
<1>6. one \in {"none", "worker"} /\ (one = "worker" => initializes /\ "longAgent" \in Left)
  BY <1>2, WorkerRefuses
<1>7. /\ two \in {"none", "worker"}
      /\ two = "worker" =>
           \/ request.op # "crawl" /\ Left \cap {"hugeUrl", "hugeScript", "hugeSchema"} # {}
           \/ request.op = "crawl" /\ Left \cap {"hugeUrl", "hugeLimit", "deep", "manyGlobs", "hugeSelector"} # {}
  <2>1. CASE request.op = "open"
    BY <2>1, <1>2
  <2>2. CASE request.op = "crawl"
    <3>1. two = Refused(CrawlWireChecks, Left) /\ request.op # "open"
      BY <2>2, <1>2
    <3> QED BY <3>1, <2>2, <1>5, WorkerRefuses
  <2>3. CASE request.op \notin {"open", "crawl"}
    <3>1. two = Refused(FetchWireChecks, Left)
      BY <2>3, <1>2
    <3> QED BY <3>1, <2>3, <1>5, WorkerRefuses
  <2> QED BY <2>1, <2>2, <2>3
<1> HIDE DEF first, second
<1>8. error \in {"none", "worker"} /\ (error = "worker" => one = "worker" \/ (one = "none" /\ two = "worker"))
  BY <1>3, <1>6, <1>7 DEF AcrossTheWire, Names
<1>9. CASE error = "none" /\ request.op = "open"
  <2>1. stage' = "answered" /\ refusal' = "none" /\ held' = "up"
    BY <1>4, <1>9 DEF Passes
  <2>2. request.surface \in {"mcp", "http", "rpc"} => Answer' \notin Blames
    <3>1. request.surface \in {"mcp", "http", "rpc"} => Answer' = ToolAnswer(request.surface, "none")
      BY <1>1, <2>1 DEF Answer, ToolAnswer
    <3> QED BY <3>1, AnswersNamed
  <2>3. RequestInv'
    BY <1>1, <2>1 DEF RequestInv, OnItsWay
  <2>4. CallerMistakeNamed'
    BY <1>1, <2>1, <2>2 DEF CallerMistakeNamed
  <2> QED BY <1>1, <2>1, <2>3, <2>4 DEF ExchangeInv, StageInv, OnItsWay
<1>10. CASE error = "none" /\ request.op # "open"
  <2>1. stage' = "engine" /\ refusal' = "none"
    BY <1>4, <1>10 DEF Passes
  <2>2. held' = held
    BY <1>4, <1>10 DEF Ends, Terminal
  <2>3. request.flaws \cap {"malformed", "private"} = {}
    BY <1>1, <1>10 DEF StageInv, SessionCleared
  <2>4. RequestInv'
    BY <1>1, <2>1, <2>2 DEF RequestInv, OnItsWay
  <2>5. StageInv'
    BY <1>1, <1>10, <2>1, <2>3 DEF StageInv, OnItsWay
  <2> QED BY <1>1, <2>1, <2>3, <2>4, <2>5 DEF ExchangeInv, CallerMistakeNamed
<1>11. CASE error = "worker"
  <2>1. stage' = "answered" /\ refusal' = "worker" /\ held' \in {held, "ended"}
    BY <1>4, <1>11 DEF Passes, Ends
  <2>2. ASSUME request.surface \in {"mcp", "http", "rpc"}
        PROVE  /\ request.flaws \cap Unbounded # {}
               /\ Answer' \notin Blames
    <3>1. Answer' = ToolAnswer(request.surface, "worker")
      BY <1>1, <2>1, <2>2 DEF Answer, ToolAnswer
    <3>2. /\ "hugeScript" \notin request.flaws /\ "hugeSchema" \notin request.flaws
          /\ "hugeLimit" \notin Left /\ "deep" \notin Left /\ "hugeSelector" \notin request.flaws
      <4>1. "hugeSelector" \notin request.flaws
        BY <1>1, <2>2 DEF StageInv, OnItsWay, SurfaceCleared
      <4> QED BY <4>1, <1>1, <2>2, ToolFlaws, WhatIsLeft DEF Clamped
    <3>3. "longAgent" \in Left \/ "hugeUrl" \in Left \/ "manyGlobs" \in Left
      BY <3>2, <1>6, <1>7, <1>8, <1>11, WhatIsLeft
    <3> QED BY <3>1, <3>3, <2>2, AnswersNamed, WhatIsLeft DEF Unbounded
  <2>3. ASSUME request.before = "up", held' = "ended"
        PROVE  \/ request.flaws \cap (Unbounded \ {"longDelay"}) # {}
               \/ /\ request.surface = "library"
                  /\ request.flaws \cap {"hugeLimit", "deep", "hugeSelector", "hugeScript", "hugeSchema"} # {}
    <3>1. request.op # "open" /\ request.surface # "mcp"
      BY <2>3, <1>1, <1>4, <1>11
    <3>2. two = "worker"
      BY <3>1, <1>6, <1>8, <1>11
    <3>3. CASE request.surface = "library"
      BY <3>2, <3>3, <1>7, WhatIsLeft DEF Unbounded
    <3>4. CASE request.surface # "library"
      <4>1. request.op = "session"
        BY <3>1, <3>4, <1>1 DEF InSession
      <4>2. request.surface \in {"http", "rpc"}
        BY <3>1, <3>4, <1>1 DEF RequestInv
      <4>3. "hugeScript" \notin request.flaws /\ "hugeSchema" \notin request.flaws
        BY <4>2, <1>1, ToolFlaws
      <4>4. "hugeUrl" \in request.flaws
        BY <4>1, <4>3, <3>2, <1>7, WhatIsLeft
      <4> QED BY <4>4 DEF Unbounded
    <3> QED BY <3>3, <3>4
  <2>4. RequestInv'
    BY <1>1, <2>1 DEF RequestInv, OnItsWay
  <2>5. CallerMistakeNamed'
    BY <1>1, <2>1, <2>2, <2>3 DEF CallerMistakeNamed
  <2> QED BY <1>1, <2>1, <2>4, <2>5 DEF ExchangeInv, StageInv, OnItsWay
<1> QED BY <1>8, <1>9, <1>10, <1>11

LEMMA EngineKept ==
  ASSUME ExchangeInv, NEW f, RunEngine(f)
  PROVE  ExchangeInv'
<1>1. /\ RequestInv /\ StageInv /\ stage = "engine" /\ f \in Faults(request) /\ fault' = f
      /\ held = request.before /\ UNCHANGED request
      /\ request.op # "open" /\ request.flaws \cap {"malformed", "private"} = {}
  BY DEF RunEngine, ExchangeInv, StageInv, RequestInv, OnItsWay
<1>2. PICK error : error = FaultError(f, InSession(request))
  OBVIOUS
<1>3. /\ Passes(error, "render")
      /\ IF request.surface # "mcp" /\ InSession(request) THEN Ends(error) ELSE UNCHANGED held
  BY <1>2 DEF RunEngine
<1>4. /\ error = "none" <=> f = "none"
      /\ error \in {"none", "timeout", "engine", "tooLarge", "worker", "protocolTimeout", "internal"}
      /\ error \in Terminal => f \in {"died", "silent", "garbled"}
  <2>1. CASE InSession(request)
    <3>1. f \in {"none", "timeout", "engine", "tooLarge", "died", "silent", "garbled"}
      BY <2>1, <1>1 DEF Faults
    <3>2. error = FaultError(f, TRUE)
      BY <2>1, <1>2 DEF FaultError
    <3> QED BY <3>1, <3>2 DEF FaultError, IntoPage, FromPage, EngineError, AcrossTheWire, Names, Terminal
  <2>2. CASE ~InSession(request)
    <3>1. f \in {"none", "timeout", "engine", "panic"}
      BY <2>2, <1>1 DEF Faults
    <3>2. error = FaultError(f, FALSE)
      BY <2>2, <1>2 DEF FaultError
    <3> QED BY <3>1, <3>2 DEF FaultError, EngineError, Terminal
  <2> QED BY <2>1, <2>2
<1>5. CASE error = "none"
  <2>1. stage' = "render" /\ refusal' = "none" /\ held' = held
    BY <1>3, <1>5 DEF Passes, Ends, Terminal
  <2>2. RequestInv'
    BY <1>1, <1>4, <1>5, <2>1 DEF RequestInv, OnItsWay
  <2>3. StageInv'
    BY <1>1, <2>1 DEF StageInv, OnItsWay
  <2> QED BY <1>1, <2>1, <2>2, <2>3 DEF ExchangeInv, CallerMistakeNamed
<1>6. CASE error # "none"
  <2>1. stage' = "answered" /\ refusal' = error /\ held' \in {held, "ended"}
    BY <1>3, <1>6 DEF Passes, Ends
  <2>2. f # "none"
    BY <1>4, <1>6
  <2>3. ASSUME request.surface \in {"mcp", "http", "rpc"}, Answer' \in Blames
        PROVE  refusal' \in {"timeout", "engine", "tooLarge"}
    <3>1. Answer' = ToolAnswer(request.surface, refusal')
      BY <1>1, <2>3 DEF Answer, ToolAnswer
    <3> QED BY <3>1, <1>4, <2>1, <2>3, AnswersNamed
  <2>4. held # "ended" /\ held' = "ended" => fault' \in {"died", "silent", "garbled"}
    BY <1>1, <1>3, <1>4 DEF Ends
  <2>5. RequestInv'
    BY <1>1, <2>1 DEF RequestInv, OnItsWay
  <2>6. CallerMistakeNamed'
    BY <1>1, <2>1, <2>2, <2>3, <2>4 DEF CallerMistakeNamed
  <2> QED BY <1>1, <2>1, <2>5, <2>6 DEF ExchangeInv, StageInv, OnItsWay
<1> QED BY <1>5, <1>6

LEMMA RenderKept ==
  ASSUME ExchangeInv, NEW f, Render(f)
  PROVE  ExchangeInv'
<1> DEFINE applies == CASE request.op = "crawl" -> request.surface = "mcp"
                        [] OTHER -> request.surface # "library"
<1> DEFINE selector == applies /\ "badSelector" \in request.flaws
<1>1. /\ RequestInv /\ StageInv /\ stage = "render" /\ held = request.before /\ fault = "none"
      /\ UNCHANGED <<request, held>>
  BY DEF Render, ExchangeInv, RequestInv, OnItsWay
<1>2. PICK error :
        /\ error = CASE selector -> IF request.op = "crawl" THEN AcrossTheWire("selector") ELSE "selector"
                     [] f = "extract" /\ request.surface # "library" -> "extract"
                     [] f = "blank" -> "internal"
                     [] OTHER -> "none"
        /\ Passes(error, "answered") /\ fault' = IF error \in {"extract", "internal"} THEN f ELSE fault
  BY DEF Render
<1>3. AcrossTheWire("selector") = "selector"
  BY DEF AcrossTheWire, Names
<1>4. /\ error \in {"none", "selector", "extract", "internal"}
      /\ error = "selector" => "badSelector" \in request.flaws
      /\ error \in {"extract", "internal"} => f # "none"
  <2>1. CASE selector
    BY <2>1, <1>2, <1>3
  <2>2. CASE ~selector /\ f = "extract" /\ request.surface # "library"
    BY <2>2, <1>2
  <2>3. CASE ~selector /\ ~(f = "extract" /\ request.surface # "library")
    BY <2>3, <1>2
  <2> QED BY <2>1, <2>2, <2>3
<1> HIDE DEF selector
<1>5. stage' = "answered" /\ refusal' = error
  BY <1>2 DEF Passes
<1>6. error \in {"extract", "internal"} => fault' # "none"
  BY <1>2, <1>4
<1>7. ASSUME request.surface \in {"mcp", "http", "rpc"}
      PROVE  /\ error = "selector" => Answer' \in Blames \cup {"500", "-32603"}
             /\ error # "selector" => Answer' \notin Blames
  <2>1. Answer' = ToolAnswer(request.surface, error)
    BY <1>1, <1>5, <1>7 DEF Answer, ToolAnswer
  <2> QED BY <2>1, <1>4, <1>7, AnswersNamed
<1>8. RequestInv'
  BY <1>1, <1>5 DEF RequestInv, OnItsWay
<1>9. CallerMistakeNamed'
  BY <1>1, <1>4, <1>5, <1>6, <1>7 DEF CallerMistakeNamed
<1> QED BY <1>1, <1>5, <1>8, <1>9 DEF ExchangeInv, StageInv, OnItsWay

LEMMA IdleKept ==
  ASSUME ExchangeInv, Answered \/ CloseSession
  PROVE  ExchangeInv'
<1>1. RequestInv
  BY DEF ExchangeInv
<1>2. CASE Answered
  <2>1. request' = NotAsked(request.surface) /\ stage' = "idle" /\ refusal' = "none" /\ fault' = "none"
        /\ held' = held
    BY <1>2 DEF Answered
  <2>2. RequestInv'
    BY <1>1, <2>1 DEF RequestInv, NotAsked, OnItsWay
  <2> QED BY <2>1, <2>2 DEF ExchangeInv, StageInv, CallerMistakeNamed, OnItsWay
<1>3. CASE CloseSession
  <2>1. stage = "idle" /\ stage' = "idle" /\ held' = "none" /\ UNCHANGED <<request, refusal, fault>>
    BY <1>3 DEF CloseSession
  <2>2. RequestInv'
    BY <1>1, <2>1 DEF RequestInv, OnItsWay
  <2> QED BY <2>1, <2>2 DEF ExchangeInv, StageInv, CallerMistakeNamed, OnItsWay
<1> QED BY <1>2, <1>3

LEMMA ExchangeStep == ExchangeInv /\ [ExchangeNext]_exchangeVars => ExchangeInv'
<1> SUFFICES ASSUME ExchangeInv, [ExchangeNext]_exchangeVars PROVE ExchangeInv'
  OBVIOUS
<1>1. ASSUME NEW op \in Offers[request.surface],
             NEW flaw \in Flaws([surface |-> request.surface, op |-> op]),
             NEW other \in Flaws([surface |-> request.surface, op |-> op]),
             Request(op, {flaw, other})
      PROVE  ExchangeInv'
  BY <1>1, RequestKept
<1>2. ASSUME NEW op \in Offers[request.surface], Request(op, {})
      PROVE  ExchangeInv'
  BY <1>2, RequestKept
<1>3. CASE CheckSurface
  BY <1>3, SurfaceKept
<1>4. CASE CheckHost
  BY <1>4, HostKept
<1>5. CASE ProbePdf
  BY <1>5, PdfKept
<1>6. CASE CheckSession
  BY <1>6, SessionKept
<1>7. CASE CheckWorker
  BY <1>7, WorkerKept
<1>8. ASSUME NEW f, RunEngine(f) PROVE ExchangeInv'
  BY <1>8, EngineKept
<1>9. ASSUME NEW f, Render(f) PROVE ExchangeInv'
  BY <1>9, RenderKept
<1>10. CASE Answered \/ CloseSession
  BY <1>10, IdleKept
<1>11. CASE UNCHANGED exchangeVars
  BY <1>11 DEF exchangeVars, ExchangeInv, RequestInv, StageInv, CallerMistakeNamed, Left, Answer
<1> QED BY <1>1, <1>2, <1>3, <1>4, <1>5, <1>6, <1>7, <1>8, <1>9, <1>10, <1>11 DEF ExchangeNext

\* Whoever sends a request with whatever is wrong in it, and however often: no bad address gets to the
\* engine, a mistake is answered as its maker's, and no session is lost to a request that nobody but
\* its caller got wrong (validate_url, ToolError, worker/wire.rs).
THEOREM MistakesNamed == ExchangeSpec => []CallerMistakeNamed
<1>1. ExchangeInv => CallerMistakeNamed
  BY DEF ExchangeInv
<1> QED BY <1>1, ExchangeStarts, ExchangeStep, PTL DEF ExchangeSpec

-----------------------------------------------------------------------------
(***************************************************************************)
(* Cookies: the jar, for any processes, any capacity and any mix of captures,*)
(* writes and crashes.                                                     *)
(***************************************************************************)
CookieSpec == CookieInit /\ [][CookieNext]_cookieVars

\* The rows save_cookies writes for a sequence of cookies.
Rows(cookies) == [k \in 1..Len(cookies) |-> WriteNetscape(cookies[k])]

\* Cookies one file can hold: each of a key of its own, and no more than load again.
FileCookies(s) ==
  /\ IsList(s) /\ Len(s) <= MaxCookies
  /\ \A k \in 1..Len(s) : IsCookie(s[k])
  /\ \A j, k \in 1..Len(s) : CookieKey(s[j]) = CookieKey(s[k]) => j = k

\* A temporary file has the rows of the first cookies captured, then all of them, then on the disk.
TempInv(i) ==
  /\ temp[i] = [exists |-> temp[i].exists, rows |-> temp[i].rows, synced |-> temp[i].synced]
  /\ ipc[i] = "write" =>
       \E n \in 0..Len(captured[i]) :
         temp[i].rows = [k \in 1..n |-> WriteNetscape(captured[i][k])]
  /\ ipc[i] \in {"sync", "persist"} => temp[i].rows = Rows(captured[i])
  /\ ipc[i] = "persist" => temp[i].synced

BrowserInv(i) ==
  /\ IsFiniteSet(browser[i]) /\ OnePerKey(browser[i]) /\ \A c \in browser[i] : IsCookie(c)
  /\ FileCookies(captured[i]) /\ ToSet(captured[i]) \subseteq browser[i]
  /\ ipc[i] \in {"load", "browse", "capture"} => captured[i] = <<>>

JarInv ==
  /\ now \in Nat \ {0}
  /\ DOMAIN ipc = Invocations /\ DOMAIN page = Invocations /\ DOMAIN browser = Invocations
  /\ DOMAIN captured = Invocations /\ DOMAIN temp = Invocations
  /\ FileCookies(image) /\ jar = [rows |-> Rows(image), whole |-> TRUE, synced |-> TRUE]
  /\ \A i \in Invocations : TempInv(i) /\ BrowserInv(i)

-----------------------------------------------------------------------------
\* What is taken in after i rows of a file without two rows of a key: what has not expired.
Taken(reads, i, cookies) ==
  /\ cookies \in Seq({reads[k].cookie : k \in 1..Len(reads)}) /\ Len(cookies) <= i
  /\ {cookies[j] : j \in 1..Len(cookies)} = {reads[k].cookie : k \in {m \in 1..i : ~reads[m].expired}}

Reading == INSTANCE FoldRules WITH Step <- TakeRow, Holds <- Taken

LEMMA ReadingIsFold ==
  ASSUME NEW reads
  PROVE  FoldLeft(TakeRow, <<>>, reads) = Reading!Fold(<<>>, reads)
BY DEF Reading!Fold, FoldLeft, MapThenFoldSet, Max, Reading!Max

\* A row of a new key is added, or passed over if it has expired.
LEMMA TakeNew ==
  ASSUME NEW cookies, NEW read, read.expired \in BOOLEAN, read.cookie # NoCookie,
         \A j \in 1..Len(cookies) : CookieKey(cookies[j]) # CookieKey(read.cookie)
  PROVE  TakeRow(cookies, read) = IF read.expired THEN cookies ELSE Append(cookies, read.cookie)
<1>1. PlaceOf(read.cookie, cookies) = 0
  BY DEF PlaceOf, SelectInSeq
<1> QED BY <1>1 DEF TakeRow

\* What is written is what is read back.
LEMMA WrittenIsRead ==
  ASSUME NEW c, IsCookie(c)
  PROVE  ParseNetscape(WriteNetscape(c)) = c /\ c # NoCookie
<1>1. c # NoCookie
  BY DEF IsCookie, NoCookie
<1>2. PICK row : row = WriteNetscape(c)
  OBVIOUS
<1>3. /\ row.domain = c.host /\ row.subdomains = ~c.hostOnly /\ row.path = c.path
      /\ row.secure = c.secure /\ row.name = c.name
      /\ row.expires = IF c.expires = Session THEN 0 ELSE c.expires[1]
  BY <1>2 DEF WriteNetscape
<1>4. /\ ~ row.expires < 0
      /\ (IF row.expires = 0 THEN Session ELSE <<row.expires>>) = c.expires
  <2>1. CASE c.expires = Session
    <3>1. row.expires = 0
      BY <1>3, <2>1
    <3> QED BY <2>1, <3>1
  <2>2. CASE c.expires # Session
    <3>1. PICK date \in Nat \ {0} : c.expires = <<date>>
      BY <2>2 DEF IsCookie
    <3>2. row.expires = date
      BY <1>3, <2>2, <3>1
    <3> QED BY <3>1, <3>2
  <2> QED BY <2>1, <2>2
<1>5. (~row.subdomains) = c.hostOnly
  BY <1>3 DEF IsCookie
<1>6. ParseNetscape(row) = [name |-> c.name, host |-> c.host, path |-> c.path, secure |-> c.secure,
                            expires |-> c.expires, hostOnly |-> c.hostOnly]
  BY <1>3, <1>4, <1>5 DEF ParseNetscape
<1>7. ParseNetscape(row) = c
  BY <1>6 DEF IsCookie
<1> QED BY <1>1, <1>2, <1>7

\* A saved file loads as its unexpired cookies.
LEMMA FileLoads ==
  ASSUME NEW s, FileCookies(s), NEW t \in Nat
  PROVE  /\ Len(FoldNetscape(Rows(s), t)) <= MaxCookies
         /\ ToSet(FoldNetscape(Rows(s), t)) = {c \in ToSet(s) : ~Expired(c, t)}
<1> DEFINE reads == [k \in 1..Len(Rows(s)) |-> ReadRow(Rows(s)[k], t)]
<1>1. Len(s) \in Nat /\ DOMAIN s = 1..Len(s) /\ Len(s) <= MaxCookies
  BY DEF FileCookies, IsList
<1>2. Len(Rows(s)) = Len(s) /\ \A k \in 1..Len(s) : Rows(s)[k] = WriteNetscape(s[k])
  BY <1>1 DEF Rows
<1>3. \A k \in 1..Len(s) : reads[k].cookie = s[k] /\ reads[k].expired = Expired(s[k], t) /\ s[k] # NoCookie
  <2>1. SUFFICES ASSUME NEW k \in 1..Len(s)
                 PROVE  reads[k].cookie = s[k] /\ reads[k].expired = Expired(s[k], t) /\ s[k] # NoCookie
    OBVIOUS
  <2>2. IsCookie(s[k])
    BY DEF FileCookies
  <2>3. ParseNetscape(Rows(s)[k]) = s[k] /\ s[k] # NoCookie
    BY <1>2, <2>2, WrittenIsRead
  <2>4. reads[k] = [cookie |-> s[k], expired |-> Expired(s[k], t)]
    BY <1>2, <2>3 DEF ReadRow
  <2> QED BY <2>3, <2>4
<1>4. PICK S : reads \in Seq(S)
  <2>1. PICK R : R = {reads[k] : k \in 1..Len(s)}
    OBVIOUS
  <2>2. reads \in [1..Len(s) -> R]
    BY <1>2, <2>1
  <2>3. reads \in Seq(R)
    BY <1>1, <2>2
  <2> QED BY <2>3
<1>5. Len(reads) = Len(s)
  BY <1>1, <1>2
<1>6. FoldNetscape(Rows(s), t) = Reading!Fold(<<>>, reads)
  BY ReadingIsFold DEF FoldNetscape
<1> HIDE DEF reads
<1>7. Taken(reads, 0, <<>>)
  <2>1. PICK none : none = <<>>
    OBVIOUS
  <2>2. none \in Seq({reads[k].cookie : k \in 1..Len(reads)}) /\ Len(none) = 0
    BY <2>1
  <2>3. {none[j] : j \in 1..Len(none)} = {} /\ {m \in 1..0 : ~reads[m].expired} = {}
    BY <2>2
  <2> QED BY <2>1, <2>2, <2>3 DEF Taken
<1>8. ASSUME NEW i \in 1..Len(reads), NEW cookies, Taken(reads, i - 1, cookies)
      PROVE  Taken(reads, i, TakeRow(cookies, reads[i]))
  <2>1. /\ cookies \in Seq({reads[k].cookie : k \in 1..Len(reads)}) /\ Len(cookies) <= i - 1
        /\ {cookies[j] : j \in 1..Len(cookies)} = {reads[k].cookie : k \in {m \in 1..(i - 1) : ~reads[m].expired}}
    BY <1>8 DEF Taken
  <2>2. i \in 1..Len(s) /\ reads[i].cookie = s[i] /\ reads[i].expired \in BOOLEAN /\ s[i] # NoCookie
    BY <1>3, <1>5 DEF Expired
  <2>3. \A j \in 1..Len(cookies) : CookieKey(cookies[j]) # CookieKey(s[i])
    <3>1. SUFFICES ASSUME NEW j \in 1..Len(cookies), CookieKey(cookies[j]) = CookieKey(s[i]) PROVE FALSE
      OBVIOUS
    <3>2. PICK k \in 1..(i - 1) : cookies[j] = reads[k].cookie
      BY <2>1
    <3>3. k \in 1..Len(s) /\ cookies[j] = s[k] /\ k # i
      BY <3>2, <2>2, <1>1, <1>3
    <3> QED BY <3>1, <3>3, <2>2 DEF FileCookies
  <2>4. PICK after : after = TakeRow(cookies, reads[i])
    OBVIOUS
  <2>5. after = IF reads[i].expired THEN cookies ELSE Append(cookies, s[i])
    <3>1. PICK read : read = reads[i]
      OBVIOUS
    <3>2. /\ read.cookie = s[i] /\ read.expired \in BOOLEAN /\ read.cookie # NoCookie
          /\ \A j \in 1..Len(cookies) : CookieKey(cookies[j]) # CookieKey(read.cookie)
      BY <2>2, <2>3, <3>1
    <3>3. TakeRow(cookies, read) = IF read.expired THEN cookies ELSE Append(cookies, read.cookie)
      BY <3>2, TakeNew
    <3> QED BY <2>4, <3>1, <3>2, <3>3
  <2>6. CASE reads[i].expired
    <3>1. {m \in 1..i : ~reads[m].expired} = {m \in 1..(i - 1) : ~reads[m].expired}
      BY <2>2, <2>6, <1>1
    <3>2. after = cookies
      BY <2>5, <2>6
    <3>3. Len(cookies) \in Nat
      BY <2>1
    <3>4. Len(cookies) <= i
      BY <2>1, <2>2, <3>3, <1>1
    <3>5. Taken(reads, i, cookies)
      BY <2>1, <3>1, <3>4 DEF Taken
    <3> QED BY <2>4, <3>2, <3>5
  <2>7. CASE ~reads[i].expired
    <3>1. {m \in 1..i : ~reads[m].expired} = {m \in 1..(i - 1) : ~reads[m].expired} \cup {i}
      BY <2>2, <2>7, <1>1
    <3>2. /\ after \in Seq({reads[k].cookie : k \in 1..Len(reads)}) /\ Len(after) = Len(cookies) + 1
          /\ after[Len(cookies) + 1] = s[i] /\ Len(cookies) \in Nat
          /\ \A j \in 1..Len(cookies) : after[j] = cookies[j]
      <4>1. s[i] \in {reads[k].cookie : k \in 1..Len(reads)}
        BY <2>2
      <4> QED BY <4>1, <2>1, <2>5, <2>7
    <3>3. {after[j] : j \in 1..Len(after)} = {cookies[j] : j \in 1..Len(cookies)} \cup {s[i]}
      <4>1. 1..Len(after) = 1..Len(cookies) \cup {Len(cookies) + 1}
        BY <3>2
      <4> QED BY <3>2, <4>1
    <3>4. {after[j] : j \in 1..Len(after)} = {reads[k].cookie : k \in {m \in 1..i : ~reads[m].expired}}
      BY <3>1, <3>3, <2>1, <2>2
    <3>5. Len(after) <= i
      BY <3>2, <2>1, <2>2, <1>1
    <3> QED BY <2>4, <3>2, <3>4, <3>5 DEF Taken
  <2> QED BY <2>6, <2>7, <2>2
<1>9. PICK loaded : loaded = FoldNetscape(Rows(s), t)
  OBVIOUS
<1>10. Taken(reads, Len(reads), loaded)
  BY <1>4, <1>6, <1>7, <1>8, <1>9, Reading!FoldRule
<1>11. /\ Len(loaded) <= MaxCookies /\ DOMAIN loaded = 1..Len(loaded)
  BY <1>1, <1>5, <1>10, CookieAssumption DEF Taken
<1>12. ToSet(loaded) = {reads[k].cookie : k \in {m \in 1..Len(s) : ~reads[m].expired}}
  BY <1>5, <1>10, <1>11 DEF Taken, ToSet
<1>13. {reads[k].cookie : k \in {m \in 1..Len(s) : ~reads[m].expired}} = {c \in ToSet(s) : ~Expired(c, t)}
  BY <1>1, <1>3 DEF ToSet
<1> QED BY <1>9, <1>11, <1>12, <1>13

-----------------------------------------------------------------------------
\* The sequence of a finite set's elements has each of them once.
LEMMA Listed ==
  ASSUME NEW S, IsFiniteSet(S)
  PROVE  /\ SetToSeq(S) \in Seq(S) /\ Len(SetToSeq(S)) = Cardinality(S)
         /\ \A j, k \in 1..Len(SetToSeq(S)) : SetToSeq(S)[j] = SetToSeq(S)[k] => j = k
         /\ Cardinality(S) \in Nat
<1>1. PICK n : n = Cardinality(S)
  OBVIOUS
<1>2. n \in Nat /\ ExistsBijection(1..n, S)
  BY <1>1, FS_CardinalityType
<1>3. \E f \in [1..n -> S] : IsInjective(f)
  <2>1. Bijection(1..n, S) # {}
    BY <1>2 DEF ExistsBijection
  <2>2. PICK f : f \in Bijection(1..n, S)
    BY <2>1
  <2> QED BY <2>2 DEF Bijection, Injection
<1>4. PICK s : s = SetToSeq(S)
  OBVIOUS
<1>5. s \in [1..n -> S] /\ IsInjective(s)
  BY <1>1, <1>3, <1>4 DEF SetToSeq
<1>6. s \in Seq(S) /\ Len(s) = n
  BY <1>2, <1>5
<1> QED BY <1>1, <1>2, <1>4, <1>5, <1>6 DEF IsInjective

\* What follows a first element.
LEMMA PutBefore ==
  ASSUME NEW S, NEW p \in Seq(S), NEW h \in Seq(S), Len(p) = 1
  PROVE  Len(p \o h) = Len(h) + 1 /\ SubSeq(p \o h, 2, Len(h) + 1) = h
<1>1. PICK n \in Nat : n = Len(h)
  OBVIOUS
<1>2. PICK q : q = p \o h
  OBVIOUS
<1>3. /\ q \in Seq(S) /\ Len(q) = n + 1
      /\ \A i \in 1..n + 1 : q[i] = IF i <= 1 THEN p[i] ELSE h[i - 1]
  <2>1. /\ p \o h \in Seq(S) /\ Len(p \o h) = Len(p) + Len(h)
        /\ \A i \in 1..Len(p) + Len(h) : (p \o h)[i] = IF i <= Len(p) THEN p[i] ELSE h[i - Len(p)]
    BY ConcatProperties, Zenon
  <2>2. /\ q \in Seq(S) /\ Len(q) = 1 + n
        /\ \A i \in 1..1 + n : q[i] = IF i <= 1 THEN p[i] ELSE h[i - 1]
    BY <1>1, <1>2, <2>1, Zenon
  <2>3. 1 + n = n + 1
    BY <1>1
  <2> QED BY <2>2, <2>3
<1>4. \A i \in 2..n + 1 : q[i] \in S
  BY <1>3
<1>5. PICK r : r = SubSeq(q, 2, n + 1)
  OBVIOUS
<1>6. /\ r \in Seq(S) /\ Len(r) = IF 2 <= n + 1 THEN (n + 1) - 2 + 1 ELSE 0
      /\ \A i \in 1..(n + 1) - 2 + 1 : r[i] = q[2 + i - 1]
  BY <1>1, <1>4, <1>5, SubSeqProperties
<1>7. Len(r) = n /\ \A i \in 1..n : r[i] = h[i]
  <2>1. Len(r) = n
    BY <1>1, <1>6
  <2>2. ASSUME NEW i \in 1..n PROVE r[i] = h[i]
    <3>1. r[i] = q[i + 1] /\ i + 1 \in 1..n + 1 /\ ~ i + 1 <= 1 /\ (i + 1) - 1 = i
      BY <1>1, <1>6
    <3> QED BY <3>1, <1>3
  <2> QED BY <2>1, <2>2
<1>8. r = h
  BY <1>1, <1>6, <1>7, SeqEqual
<1> QED BY <1>1, <1>2, <1>3, <1>5, <1>8

\* A made-up subdomain of a cookie's host is sent the cookie exactly when it is not host-only.
LEMMA ProbeTells ==
  ASSUME NEW cookies, OnePerKey(cookies), NEW c \in cookies, IsCookie(c),
         NEW t, Sendable(c, t, now)
  PROVE  ProbeHostOnly(c, t, cookies) = c.hostOnly
<1> DEFINE probe == <<"probe">> \o c.host
<1>1. PICK n : n = Len(c.host)
  OBVIOUS
<1>2. c.host \in Seq(STRING) /\ c.path \in Seq(STRING) /\ c.hostOnly \in BOOLEAN /\ n \in Nat
  BY <1>1 DEF IsCookie
<1>3. Len(probe) = n + 1 /\ SubSeq(probe, Len(probe) - n + 1, Len(probe)) = c.host
  <2>1. PICK T : T = STRING \cup {"probe"}
    OBVIOUS
  <2>2. <<"probe">> \in Seq(T) /\ c.host \in Seq(T)
    BY <1>2, <2>1
  <2>3. PICK p, h : p = <<"probe">> /\ h = c.host
    OBVIOUS
  <2>4. p \in Seq(T) /\ h \in Seq(T) /\ Len(p) = 1 /\ Len(h) = n
    BY <1>1, <2>2, <2>3
  <2>5. Len(p \o h) = n + 1 /\ SubSeq(p \o h, 2, n + 1) = h
    BY <2>4, PutBefore
  <2>6. (n + 1) - n + 1 = 2
    BY <1>2
  <2> QED BY <2>3, <2>5, <2>6
<1> HIDE DEF probe
<1>4. probe # c.host /\ SubdomainOf(probe, c.host)
  BY <1>1, <1>2, <1>3 DEF SubdomainOf
<1>5. PathMatches(c.path, c.path)
  <2>1. Len(c.path) \in Nat
    BY <1>2
  <2> QED BY <2>1 DEF PathMatches, IsPrefix
<1>6. \A d \in cookies : CookieKey(d) = CookieKey(c) => d = c
  BY DEF OnePerKey
<1>7. /\ ProbeTarget(c, t).host = probe /\ ProbeTarget(c, t).path = c.path
      /\ ProbeTarget(c, t).https = (t.https \/ c.secure)
  BY DEF ProbeTarget, probe
<1>8. Sendable(c, ProbeTarget(c, t), now) <=> ~c.hostOnly
  BY <1>2, <1>4, <1>5, <1>7 DEF Sendable
<1>9. c.host # t.host => ~c.hostOnly
  BY DEF Sendable
<1> QED BY <1>2, <1>6, <1>8, <1>9 DEF ProbeHostOnly

\* What is read back from a browser is cookies of it that one file can hold.
LEMMA ReadBackFits ==
  ASSUME NEW cookies, IsFiniteSet(cookies), OnePerKey(cookies), \A c \in cookies : IsCookie(c), NEW t
  PROVE  FileCookies(Capture(t, cookies)) /\ ToSet(Capture(t, cookies)) \subseteq cookies
<1>1. PICK S : S = {c \in cookies : Sendable(c, t, now)}
  OBVIOUS
<1>2. IsFiniteSet(S)
  <2>1. S \in SUBSET cookies
    BY <1>1
  <2> QED BY <2>1, FS_Subset
<1>3. PICK sent : sent = SetToSeq(S)
  OBVIOUS
<1>4. /\ sent \in Seq(S) /\ \A j, k \in 1..Len(sent) : sent[j] = sent[k] => j = k
  BY <1>2, <1>3, Listed
<1>5. PICK n \in Nat : n = Len(sent)
  BY <1>4
<1>6. \A i \in 1..n : sent[i] \in cookies /\ IsCookie(sent[i]) /\ Sendable(sent[i], t, now)
  BY <1>1, <1>4, <1>5
<1>7. \A i \in 1..n : [sent[i] EXCEPT !.hostOnly = ProbeHostOnly(sent[i], t, cookies)] = sent[i]
  <2>1. SUFFICES ASSUME NEW i \in 1..n
                 PROVE  [sent[i] EXCEPT !.hostOnly = ProbeHostOnly(sent[i], t, cookies)] = sent[i]
    OBVIOUS
  <2>2. PICK c : c = sent[i]
    OBVIOUS
  <2>3. c \in cookies /\ IsCookie(c) /\ Sendable(c, t, now)
    BY <1>6, <2>2
  <2>4. ProbeHostOnly(c, t, cookies) = c.hostOnly
    BY <2>3, ProbeTells
  <2>5. [c EXCEPT !.hostOnly = c.hostOnly] = c
    BY <2>3 DEF IsCookie
  <2> QED BY <2>2, <2>4, <2>5
<1> DEFINE specs == [i \in 1..Len(sent) |->
                       [sent[i] EXCEPT !.hostOnly = ProbeHostOnly(sent[i], t, cookies)]]
<1>8. specs = sent
  <2>1. specs = [i \in 1..n |-> sent[i]]
    BY <1>5, <1>7
  <2>2. sent = [i \in 1..n |-> sent[i]]
    BY <1>4, <1>5
  <2> QED BY <2>1, <2>2
<1>9. PICK m : m = IF n > MaxCookies THEN MaxCookies ELSE n
  OBVIOUS
<1>10. m \in 0..n /\ m <= MaxCookies
  BY <1>9, CookieAssumption
<1>11. Capture(t, cookies) = SubSeq(sent, 1, m)
  <2>1. Capture(t, cookies) = SubSeq(specs, 1, IF Len(specs) > MaxCookies THEN MaxCookies ELSE Len(specs))
    BY <1>1, <1>3 DEF Capture
  <2>2. Len(specs) = n
    BY <1>8, <1>5
  <2> HIDE DEF specs
  <2> QED BY <2>1, <2>2, <1>8, <1>9
<1>12. PICK s : s = SubSeq(sent, 1, m)
  OBVIOUS
<1>13. s \in Seq(cookies) /\ Len(s) = m /\ \A i \in 1..m : s[i] = sent[i]
  <2>1. \A i \in 1..m : sent[i] \in cookies
    BY <1>6, <1>10
  <2>2. 1 \in Int /\ m \in Int
    BY <1>10
  <2>3. /\ s \in Seq(cookies) /\ Len(s) = IF 1 <= m THEN m - 1 + 1 ELSE 0
        /\ \A i \in 1..m - 1 + 1 : s[i] = sent[1 + i - 1]
    BY <2>1, <2>2, <1>12, SubSeqProperties
  <2> QED BY <2>3, <1>10
<1>14. FileCookies(s)
  <2>1. IsList(s)
    BY <1>13 DEF IsList
  <2>2. \A k \in 1..Len(s) : IsCookie(s[k])
    BY <1>13, <1>10, <1>6
  <2>3. ASSUME NEW j \in 1..Len(s), NEW k \in 1..Len(s), CookieKey(s[j]) = CookieKey(s[k]) PROVE j = k
    <3>1. j \in 1..n /\ k \in 1..n /\ s[j] = sent[j] /\ s[k] = sent[k]
      BY <1>10, <1>13
    <3>2. sent[j] = sent[k]
      BY <3>1, <2>3, <1>6 DEF OnePerKey
    <3> QED BY <3>1, <3>2, <1>4, <1>5
  <2> QED BY <2>1, <2>2, <2>3, <1>10, <1>13 DEF FileCookies
<1>15. ToSet(s) \subseteq cookies
  BY <1>13 DEF ToSet
<1> QED BY <1>11, <1>12, <1>14, <1>15

-----------------------------------------------------------------------------
\* What has been saved loads, as its unexpired cookies.
LEMMA JarLoads ==
  ASSUME JarInv
  PROVE  /\ Loads(jar, now)
         /\ ToSet(FoldNetscape(jar.rows, now)) = {c \in ToSet(image) : ~Expired(c, now)}
<1>1. FileCookies(image) /\ now \in Nat /\ jar.rows = Rows(image) /\ jar.whole
  BY DEF JarInv
<1>2. /\ Len(FoldNetscape(Rows(image), now)) <= MaxCookies
      /\ ToSet(FoldNetscape(Rows(image), now)) = {c \in ToSet(image) : ~Expired(c, now)}
  BY <1>1, FileLoads
<1> QED BY <1>1, <1>2 DEF Loads

LEMMA NothingFits == FileCookies(<<>>) /\ ToSet(<<>>) = {}
<1>1. PICK none : none = <<>>
  OBVIOUS
<1>2. none \in Seq({}) /\ Len(none) = 0
  BY <1>1
<1>3. IsList(none) /\ ToSet(none) = {}
  BY <1>2 DEF IsList, ToSet
<1> QED BY <1>1, <1>2, <1>3, CookieAssumption DEF FileCookies

\* The cookies of a file, in a browser.
LEMMA FileInBrowser ==
  ASSUME NEW s, FileCookies(s), NEW B, B \subseteq ToSet(s)
  PROVE  IsFiniteSet(B) /\ OnePerKey(B) /\ \A c \in B : IsCookie(c)
<1>1. DOMAIN s = 1..Len(s) /\ Len(s) \in Nat
  BY DEF FileCookies, IsList
<1>2. \A c \in B : \E k \in 1..Len(s) : c = s[k]
  BY <1>1 DEF ToSet
<1>3. OnePerKey(B) /\ \A c \in B : IsCookie(c)
  BY <1>2 DEF FileCookies, OnePerKey
<1>4. IsFiniteSet(ToSet(s))
  <2>1. IsFiniteSet(1..Len(s))
    BY <1>1, FS_Interval
  <2>2. ToSet(s) = {s[k] : k \in 1..Len(s)}
    BY <1>1 DEF ToSet
  <2>3. PICK f : f = [k \in 1..Len(s) |-> s[k]]
    OBVIOUS
  <2>4. f \in Surjection(1..Len(s), ToSet(s))
    BY <2>2, <2>3 DEF Surjection
  <2> QED BY <2>1, <2>4, FS_Surjection
<1> QED BY <1>3, <1>4, FS_Subset

-----------------------------------------------------------------------------
LEMMA JarBegins == CookieInit => JarInv
<1> SUFFICES ASSUME CookieInit PROVE JarInv
  OBVIOUS
<1>1. FileCookies(image)
  <2>1. /\ image \in Seq(JarAtStart) /\ Len(image) = Cardinality(JarAtStart)
        /\ \A j, k \in 1..Len(image) : image[j] = image[k] => j = k
    BY CookieAssumption, Listed DEF CookieInit
  <2>2. IsList(image) /\ Len(image) <= MaxCookies
    BY <2>1, CookieAssumption DEF IsList
  <2>3. \A k \in 1..Len(image) : image[k] \in JarAtStart
    BY <2>1
  <2>4. \A k \in 1..Len(image) : IsCookie(image[k])
    BY <2>3, CookieAssumption
  <2>5. \A j, k \in 1..Len(image) : CookieKey(image[j]) = CookieKey(image[k]) => j = k
    BY <2>1, <2>3, CookieAssumption DEF OnePerKey
  <2> QED BY <2>2, <2>4, <2>5 DEF FileCookies
<1>2. jar = [rows |-> Rows(image), whole |-> TRUE, synced |-> TRUE]
  BY DEF CookieInit, Rows
<1>3. ASSUME NEW i \in Invocations PROVE TempInv(i) /\ BrowserInv(i)
  <2>1. temp[i] = NoTemp /\ ipc[i] = "load" /\ browser[i] = {} /\ captured[i] = <<>>
    BY DEF CookieInit
  <2>2. TempInv(i)
    BY <2>1 DEF TempInv, NoTemp
  <2>3. IsFiniteSet(browser[i]) /\ OnePerKey(browser[i]) /\ \A c \in browser[i] : IsCookie(c)
    BY <2>1, FS_EmptySet DEF OnePerKey
  <2>4. FileCookies(captured[i]) /\ ToSet(captured[i]) \subseteq browser[i]
    BY <2>1, NothingFits
  <2> QED BY <2>1, <2>2, <2>3, <2>4 DEF BrowserInv
<1> QED BY <1>1, <1>2, <1>3 DEF JarInv, CookieInit

\* An invocation's step that leaves the jar and the clock alone.
LEMMA OwnStep ==
  ASSUME JarInv, NEW i \in Invocations, UNCHANGED <<jar, image, now>>,
         DOMAIN ipc' = Invocations, DOMAIN page' = Invocations, DOMAIN browser' = Invocations,
         DOMAIN captured' = Invocations, DOMAIN temp' = Invocations,
         \A j \in Invocations \ {i} : /\ ipc'[j] = ipc[j] /\ browser'[j] = browser[j]
                                      /\ captured'[j] = captured[j] /\ temp'[j] = temp[j],
         TempInv(i)', BrowserInv(i)'
  PROVE  JarInv'
<1>1. ASSUME NEW j \in Invocations PROVE TempInv(j)' /\ BrowserInv(j)'
  <2>1. CASE j = i
    BY <2>1
  <2>2. CASE j # i
    <3>1. /\ ipc'[j] = ipc[j] /\ browser'[j] = browser[j]
          /\ captured'[j] = captured[j] /\ temp'[j] = temp[j]
      BY <2>2
    <3>2. TempInv(j) /\ BrowserInv(j)
      BY DEF JarInv
    <3> QED BY <3>1, <3>2 DEF TempInv, BrowserInv, Rows
  <2> QED BY <2>1, <2>2
<1> QED BY <1>1 DEF JarInv

LEMMA LoadKeeps ==
  ASSUME JarInv, NEW i \in Invocations, NEW t \in Targets, LoadAndSeed(i, t) PROVE JarInv'
<1>1. ipc[i] = "load" /\ TempInv(i) /\ BrowserInv(i)
  BY DEF LoadAndSeed, JarInv
<1>2. captured[i] = <<>> /\ captured' = captured /\ temp' = temp /\ ipc'[i] \in {"browse", "failed"}
  BY <1>1 DEF BrowserInv, LoadAndSeed, JarInv
<1>3. TempInv(i)'
  BY <1>1, <1>2 DEF TempInv
<1>4. IsFiniteSet(browser'[i]) /\ OnePerKey(browser'[i]) /\ \A c \in browser'[i] : IsCookie(c)
  <2>1. CASE Loads(jar, now)
    <3>1. browser'[i] = {c \in ToSet(FoldNetscape(jar.rows, now)) : Seedable(c, t)}
      BY <2>1 DEF LoadAndSeed, JarInv
    <3>2. browser'[i] \subseteq ToSet(image)
      BY <3>1, JarLoads
    <3> QED BY <3>2, FileInBrowser DEF JarInv
  <2>2. CASE ~Loads(jar, now)
    BY <1>1, <2>2 DEF LoadAndSeed, BrowserInv
  <2> QED BY <2>1, <2>2
<1>5. BrowserInv(i)'
  <2>1. FileCookies(captured'[i]) /\ ToSet(captured'[i]) \subseteq browser'[i] /\ captured'[i] = <<>>
    BY <1>2, NothingFits
  <2> QED BY <2>1, <1>4 DEF BrowserInv
<1>6. /\ UNCHANGED <<jar, image, now>>
      /\ DOMAIN ipc' = Invocations /\ DOMAIN page' = Invocations /\ DOMAIN browser' = Invocations
      /\ DOMAIN captured' = Invocations /\ DOMAIN temp' = Invocations
      /\ \A j \in Invocations \ {i} : /\ ipc'[j] = ipc[j] /\ browser'[j] = browser[j]
                                      /\ captured'[j] = captured[j] /\ temp'[j] = temp[j]
  BY DEF LoadAndSeed, JarInv
<1> QED BY <1>3, <1>5, <1>6, OwnStep

LEMMA BrowseKeeps ==
  ASSUME JarInv, NEW i \in Invocations, NEW c \in SetBySites, Browse(i, c) PROVE JarInv'
<1>1. ipc[i] = "browse" /\ TempInv(i) /\ BrowserInv(i)
  BY DEF Browse, JarInv
<1>2. captured[i] = <<>> /\ captured' = captured /\ temp' = temp /\ ipc'[i] = "capture"
  BY <1>1 DEF BrowserInv, Browse, JarInv
<1>3. TempInv(i)'
  BY <1>1, <1>2 DEF TempInv
<1>4. PICK B : B = browser[i]
  OBVIOUS
<1>5. browser'[i] = {d \in B : CookieKey(d) # CookieKey(c)} \cup {c}
  BY <1>4 DEF Browse, Store, JarInv
<1>6. IsFiniteSet(B) /\ OnePerKey(B) /\ \A d \in B : IsCookie(d)
  BY <1>1, <1>4 DEF BrowserInv
<1>7. IsFiniteSet(browser'[i])
  <2>1. {d \in B : CookieKey(d) # CookieKey(c)} \in SUBSET B
    OBVIOUS
  <2>2. IsFiniteSet({d \in B : CookieKey(d) # CookieKey(c)})
    BY <1>6, <2>1, FS_Subset
  <2> QED BY <1>5, <2>2, FS_AddElement
<1>8. OnePerKey(browser'[i]) /\ \A d \in browser'[i] : IsCookie(d)
  BY <1>5, <1>6, CookieAssumption DEF OnePerKey
<1>9. BrowserInv(i)'
  <2>1. FileCookies(captured'[i]) /\ ToSet(captured'[i]) \subseteq browser'[i] /\ captured'[i] = <<>>
    BY <1>2, NothingFits
  <2> QED BY <2>1, <1>7, <1>8 DEF BrowserInv
<1>10. /\ UNCHANGED <<jar, image, now>>
       /\ DOMAIN ipc' = Invocations /\ DOMAIN page' = Invocations /\ DOMAIN browser' = Invocations
       /\ DOMAIN captured' = Invocations /\ DOMAIN temp' = Invocations
       /\ \A j \in Invocations \ {i} : /\ ipc'[j] = ipc[j] /\ browser'[j] = browser[j]
                                       /\ captured'[j] = captured[j] /\ temp'[j] = temp[j]
  BY DEF Browse, JarInv
<1> QED BY <1>3, <1>9, <1>10, OwnStep

LEMMA ReadBackKeeps ==
  ASSUME JarInv, NEW i \in Invocations, ReadBack(i) PROVE JarInv'
<1>1. ipc[i] = "capture" /\ TempInv(i) /\ BrowserInv(i)
  BY DEF ReadBack, JarInv
<1>2. /\ captured'[i] = Capture(page[i], browser[i]) /\ temp' = temp /\ browser' = browser
      /\ ipc'[i] = "create"
  BY DEF ReadBack, JarInv
<1>3. TempInv(i)'
  BY <1>1, <1>2 DEF TempInv
<1>4. FileCookies(captured'[i]) /\ ToSet(captured'[i]) \subseteq browser'[i]
  BY <1>1, <1>2, ReadBackFits DEF BrowserInv
<1>5. BrowserInv(i)'
  BY <1>1, <1>2, <1>4 DEF BrowserInv
<1>6. /\ UNCHANGED <<jar, image, now>>
      /\ DOMAIN ipc' = Invocations /\ DOMAIN page' = Invocations /\ DOMAIN browser' = Invocations
      /\ DOMAIN captured' = Invocations /\ DOMAIN temp' = Invocations
      /\ \A j \in Invocations \ {i} : /\ ipc'[j] = ipc[j] /\ browser'[j] = browser[j]
                                      /\ captured'[j] = captured[j] /\ temp'[j] = temp[j]
  BY DEF ReadBack, JarInv
<1> QED BY <1>3, <1>5, <1>6, OwnStep

\* The steps that write a temporary file or give up leave the browser as it is.
LEMMA FileStep ==
  ASSUME JarInv, NEW i \in Invocations, UNCHANGED <<page, browser, captured, jar, image, now>>,
         DOMAIN ipc' = Invocations, DOMAIN temp' = Invocations,
         \A j \in Invocations \ {i} : ipc'[j] = ipc[j] /\ temp'[j] = temp[j],
         ipc'[i] \in {"load", "browse", "capture"} => ipc[i] \in {"load", "browse", "capture"},
         TempInv(i)'
  PROVE  JarInv'
<1>1. BrowserInv(i)'
  <2>1. BrowserInv(i)
    BY DEF JarInv
  <2> QED BY <2>1 DEF BrowserInv
<1>2. /\ DOMAIN page' = Invocations /\ DOMAIN browser' = Invocations /\ DOMAIN captured' = Invocations
  BY DEF JarInv
<1> QED BY <1>1, <1>2, OwnStep

LEMMA WriteRowKeeps ==
  ASSUME JarInv, NEW i \in Invocations, WriteRow(i) PROVE JarInv'
<1>1. ipc[i] = "write" /\ TempInv(i) /\ BrowserInv(i) /\ captured' = captured
  BY DEF WriteRow, JarInv
<1>2. PICK s : s = captured[i]
  OBVIOUS
<1>3. PICK n \in 0..Len(s) : temp[i].rows = [k \in 1..n |-> WriteNetscape(s[k])]
  BY <1>1, <1>2 DEF TempInv
<1>4. Len(s) \in Nat /\ n \in Nat
  BY <1>1, <1>2 DEF BrowserInv, FileCookies, IsList
<1>5. Len(temp[i].rows) = n
  BY <1>3, <1>4
<1>6. TempInv(i)' /\ ipc'[i] \in {"write", "sync"}
  <2>1. CASE n < Len(s)
    <3>1. PICK row : row = WriteNetscape(s[n + 1])
      OBVIOUS
    <3>2. PICK rows : rows = [k \in 1..n |-> WriteNetscape(s[k])]
      OBVIOUS
    <3>3. PICK more : more = [k \in 1..(n + 1) |-> WriteNetscape(s[k])]
      OBVIOUS
    <3>4. Append(rows, row) = more
      <4>1. PICK R : R = {rows[k] : k \in 1..n} \cup {row}
        OBVIOUS
      <4>2. rows \in Seq(R) /\ Len(rows) = n /\ row \in R
        <5>1. rows \in [1..n -> R]
          BY <3>2, <4>1
        <5> QED BY <5>1, <4>1, <1>4
      <4>3. more \in [1..(n + 1) -> R]
        <5>1. ASSUME NEW k \in 1..(n + 1) PROVE more[k] \in R
          <6>1. CASE k = n + 1
            BY <6>1, <3>1, <3>3, <4>1
          <6>2. CASE k # n + 1
            <7>1. k \in 1..n
              BY <6>2, <1>4
            <7>2. rows[k] = more[k]
              BY <7>1, <3>2, <3>3
            <7> QED BY <7>1, <7>2, <4>1
          <6> QED BY <6>1, <6>2
        <5>2. DOMAIN more = 1..(n + 1) /\ more = [k \in DOMAIN more |-> more[k]]
          BY <3>3
        <5> QED BY <5>1, <5>2
      <4>4. more \in Seq(R) /\ Len(more) = n + 1
        <5>1. n + 1 \in Nat
          BY <1>4
        <5> QED BY <4>3, <5>1
      <4>5. \A k \in 1..n : rows[k] = more[k]
        BY <3>2, <3>3, <1>4
      <4>6. more[n + 1] = row
        BY <3>1, <3>3, <1>4
      <4>7. Append(rows, row) \in Seq(R) /\ Len(Append(rows, row)) = n + 1
        BY <4>2
      <4>8. \A k \in 1..(n + 1) : Append(rows, row)[k] = more[k]
        BY <4>2, <4>5, <4>6, <1>4
      <4> QED BY <4>4, <4>7, <4>8, SeqEqual
    <3>5. temp' = [temp EXCEPT ![i].rows = Append(@, WriteNetscape(captured[i][n + 1]))] /\ ipc' = ipc
      BY <1>5, <2>1, <1>2 DEF WriteRow
    <3>6. temp'[i] = [temp[i] EXCEPT !.rows = Append(@, row)]
      BY <3>5, <3>1, <1>2 DEF JarInv
    <3>7. /\ temp'[i].rows = more
          /\ temp'[i] = [exists |-> temp'[i].exists, rows |-> temp'[i].rows, synced |-> temp'[i].synced]
      BY <3>2, <3>4, <3>6, <1>1, <1>3 DEF TempInv
    <3>8. n + 1 \in 0..Len(s)
      BY <2>1, <1>4
    <3>9. ipc'[i] = "write"
      BY <3>5, <1>1
    <3>10. temp'[i].rows = [k \in 1..(n + 1) |-> WriteNetscape(captured'[i][k])]
      BY <3>3, <3>7, <1>1, <1>2
    <3>11. n + 1 \in 0..Len(captured'[i])
      BY <3>8, <1>1, <1>2
    <3>12. \E m \in 0..Len(captured'[i]) :
             temp'[i].rows = [k \in 1..m |-> WriteNetscape(captured'[i][k])]
      BY <3>10, <3>11
    <3> QED BY <3>7, <3>9, <3>12 DEF TempInv
  <2>2. CASE ~ n < Len(s)
    <3>1. n = Len(s)
      BY <2>2, <1>4
    <3>2. temp' = temp /\ ipc'[i] = "sync"
      BY <1>5, <2>2, <1>2 DEF WriteRow, JarInv
    <3>3. temp'[i].rows = [k \in 1..Len(captured'[i]) |-> WriteNetscape(captured'[i][k])]
      BY <3>1, <3>2, <1>1, <1>2, <1>3
    <3> QED BY <3>2, <3>3, <1>1 DEF TempInv, Rows
  <2> QED BY <2>1, <2>2
<1>7. /\ UNCHANGED <<page, browser, captured, jar, image, now>>
      /\ DOMAIN ipc' = Invocations /\ DOMAIN temp' = Invocations
      /\ \A j \in Invocations \ {i} : ipc'[j] = ipc[j] /\ temp'[j] = temp[j]
  BY DEF WriteRow, JarInv
<1> QED BY <1>6, <1>7, FileStep

LEMMA OtherStepsKeep ==
  ASSUME JarInv, NEW i \in Invocations,
         \/ BrowseOnly(i) \/ CreateTemp(i) \/ SyncAll(i) \/ SaveFails(i) \/ ProcessDies(i)
  PROVE  JarInv'
<1>1. TempInv(i) /\ DOMAIN ipc = Invocations /\ DOMAIN temp = Invocations
  BY DEF JarInv
<1>2. CASE BrowseOnly(i)
  <2>1. ipc'[i] = "capture" /\ temp' = temp /\ captured' = captured /\ ipc[i] = "browse"
    BY <1>1, <1>2 DEF BrowseOnly
  <2>2. TempInv(i)'
    BY <1>1, <2>1 DEF TempInv
  <2>3. /\ UNCHANGED <<page, browser, captured, jar, image, now>>
        /\ DOMAIN ipc' = Invocations /\ DOMAIN temp' = Invocations
        /\ \A j \in Invocations \ {i} : ipc'[j] = ipc[j] /\ temp'[j] = temp[j]
    BY <1>1, <1>2 DEF BrowseOnly
  <2> QED BY <2>1, <2>2, <2>3, FileStep
<1>3. CASE CreateTemp(i)
  <2>1. ipc'[i] = "write" /\ temp'[i] = [exists |-> TRUE, rows |-> <<>>, synced |-> FALSE]
    BY <1>1, <1>3 DEF CreateTemp, NoTemp
  <2>2. captured' = captured /\ Len(captured[i]) \in Nat
    BY <1>3 DEF CreateTemp, JarInv, BrowserInv, FileCookies, IsList
  <2>3. temp'[i].rows = [k \in 1..0 |-> WriteNetscape(captured'[i][k])] /\ 0 \in 0..Len(captured'[i])
    <3>1. <<>> = [k \in 1..0 |-> WriteNetscape(captured'[i][k])]
      <4>1. PICK none : none = <<>>
        OBVIOUS
      <4>2. PICK rows : rows = [k \in 1..0 |-> WriteNetscape(captured'[i][k])]
        OBVIOUS
      <4>3. rows \in Seq({}) /\ Len(rows) = 0
        BY <4>2
      <4> QED BY <4>1, <4>2, <4>3
    <3> QED BY <2>1, <2>2, <3>1
  <2>4. \E m \in 0..Len(captured'[i]) : temp'[i].rows = [k \in 1..m |-> WriteNetscape(captured'[i][k])]
    BY <2>3
  <2>5. TempInv(i)'
    BY <2>1, <2>4 DEF TempInv
  <2>6. /\ UNCHANGED <<page, browser, captured, jar, image, now>>
        /\ DOMAIN ipc' = Invocations /\ DOMAIN temp' = Invocations
        /\ \A j \in Invocations \ {i} : ipc'[j] = ipc[j] /\ temp'[j] = temp[j]
    BY <1>1, <1>3 DEF CreateTemp
  <2> QED BY <2>1, <2>5, <2>6, FileStep
<1>4. CASE SyncAll(i)
  <2>1. ipc'[i] = "persist" /\ temp'[i] = [temp[i] EXCEPT !.synced = TRUE] /\ captured' = captured
    BY <1>1, <1>4 DEF SyncAll
  <2>2. temp[i].rows = Rows(captured[i])
    BY <1>1, <1>4 DEF TempInv, SyncAll
  <2>3. temp'[i] = [exists |-> temp[i].exists, rows |-> temp[i].rows, synced |-> TRUE]
    BY <1>1, <2>1 DEF TempInv
  <2>4. TempInv(i)'
    BY <2>1, <2>2, <2>3 DEF TempInv, Rows
  <2>5. /\ UNCHANGED <<page, browser, captured, jar, image, now>>
        /\ DOMAIN ipc' = Invocations /\ DOMAIN temp' = Invocations
        /\ \A j \in Invocations \ {i} : ipc'[j] = ipc[j] /\ temp'[j] = temp[j]
    BY <1>1, <1>4 DEF SyncAll
  <2> QED BY <2>1, <2>4, <2>5, FileStep
<1>5. CASE SaveFails(i)
  <2>1. ipc'[i] = "failed" /\ temp'[i] = NoTemp
    BY <1>1, <1>5 DEF SaveFails
  <2>2. TempInv(i)'
    BY <2>1 DEF TempInv, NoTemp
  <2>3. /\ UNCHANGED <<page, browser, captured, jar, image, now>>
        /\ DOMAIN ipc' = Invocations /\ DOMAIN temp' = Invocations
        /\ \A j \in Invocations \ {i} : ipc'[j] = ipc[j] /\ temp'[j] = temp[j]
    BY <1>1, <1>5 DEF SaveFails
  <2> QED BY <2>1, <2>2, <2>3, FileStep
<1>6. CASE ProcessDies(i)
  <2>1. ipc'[i] = "dead" /\ temp' = temp /\ captured' = captured
    BY <1>1, <1>6 DEF ProcessDies
  <2>2. TempInv(i)'
    BY <1>1, <2>1 DEF TempInv
  <2>3. /\ UNCHANGED <<page, browser, captured, jar, image, now>>
        /\ DOMAIN ipc' = Invocations /\ DOMAIN temp' = Invocations
        /\ \A j \in Invocations \ {i} : ipc'[j] = ipc[j] /\ temp'[j] = temp[j]
    BY <1>1, <1>6 DEF ProcessDies
  <2> QED BY <2>1, <2>2, <2>3, FileStep
<1> QED BY <1>2, <1>3, <1>4, <1>5, <1>6

LEMMA PersistKeeps ==
  ASSUME JarInv, NEW i \in Invocations, Persist(i) PROVE JarInv'
<1>1. ipc[i] = "persist" /\ TempInv(i) /\ BrowserInv(i)
  BY DEF Persist, JarInv
<1>2. /\ image' = captured[i] /\ jar' = [rows |-> temp[i].rows, whole |-> TRUE, synced |-> temp[i].synced]
      /\ temp'[i] = NoTemp /\ ipc'[i] = "saved" /\ now' = now
      /\ UNCHANGED <<page, browser, captured>>
      /\ DOMAIN ipc' = Invocations /\ DOMAIN temp' = Invocations
      /\ \A j \in Invocations \ {i} : ipc'[j] = ipc[j] /\ temp'[j] = temp[j]
  BY DEF Persist, JarInv
<1>3. temp[i].rows = Rows(captured[i]) /\ temp[i].synced
  BY <1>1 DEF TempInv
<1>4. temp[i].synced = TRUE
  BY <1>1, <1>3 DEF TempInv
<1>5. FileCookies(image)' /\ (jar = [rows |-> Rows(image), whole |-> TRUE, synced |-> TRUE])'
  BY <1>1, <1>2, <1>3, <1>4 DEF BrowserInv, Rows
<1>6. ASSUME NEW j \in Invocations PROVE TempInv(j)' /\ BrowserInv(j)'
  <2>1. TempInv(j) /\ BrowserInv(j)
    BY DEF JarInv
  <2>2. CASE j = i
    BY <1>2, <2>1, <2>2 DEF TempInv, BrowserInv, NoTemp
  <2>3. CASE j # i
    <3>1. ipc'[j] = ipc[j] /\ temp'[j] = temp[j]
      BY <1>2, <2>3
    <3> QED BY <1>2, <2>1, <3>1 DEF TempInv, BrowserInv, Rows
  <2> QED BY <2>2, <2>3
<1> QED BY <1>2, <1>5, <1>6 DEF JarInv

LEMMA MachineKeeps == JarInv /\ MachineFails => JarInv'
<1> SUFFICES ASSUME JarInv, MachineFails PROVE JarInv'
  OBVIOUS
<1>1. jar' = jar
  <2>1. jar = [rows |-> Rows(image), whole |-> TRUE, synced |-> TRUE]
    BY DEF JarInv
  <2> QED BY <2>1 DEF MachineFails
<1>2. ASSUME NEW i \in Invocations PROVE TempInv(i)' /\ BrowserInv(i)'
  <2>1. TempInv(i) /\ BrowserInv(i) /\ ipc'[i] = "dead" /\ UNCHANGED <<browser, captured, temp>>
    BY DEF JarInv, MachineFails
  <2> QED BY <2>1 DEF TempInv, BrowserInv
<1>3. UNCHANGED <<page, browser, captured, temp, image, now>> /\ DOMAIN ipc' = Invocations
  BY DEF MachineFails
<1>4. FileCookies(image)' /\ (jar = [rows |-> Rows(image), whole |-> TRUE, synced |-> TRUE])'
  BY <1>1, <1>3 DEF JarInv
<1> QED BY <1>2, <1>3, <1>4 DEF JarInv

LEMMA SameJar ==
  ASSUME JarInv, now' \in Nat \ {0}, UNCHANGED <<ipc, page, browser, captured, temp, jar, image>>
  PROVE  JarInv'
<1>1. ASSUME NEW i \in Invocations PROVE TempInv(i)' /\ BrowserInv(i)'
  <2>1. TempInv(i) /\ BrowserInv(i)
    BY DEF JarInv
  <2> QED BY <2>1 DEF TempInv, BrowserInv, Rows
<1> QED BY <1>1 DEF JarInv

LEMMA JarKept == JarInv /\ [CookieNext]_cookieVars => JarInv'
<1> SUFFICES ASSUME JarInv, [CookieNext]_cookieVars PROVE JarInv'
  OBVIOUS
<1>1. ASSUME NEW i \in Invocations, CookieSteps(i) \/ SaveFails(i) \/ ProcessDies(i) PROVE JarInv'
  <2>1. ASSUME NEW t \in Targets, LoadAndSeed(i, t) PROVE JarInv'
    BY <2>1, LoadKeeps
  <2>2. ASSUME NEW c \in SetBySites, Browse(i, c) PROVE JarInv'
    BY <2>2, BrowseKeeps
  <2>3. CASE ReadBack(i)
    BY <2>3, ReadBackKeeps
  <2>4. CASE WriteRow(i)
    BY <2>4, WriteRowKeeps
  <2>5. CASE Persist(i)
    BY <2>5, PersistKeeps
  <2>6. CASE BrowseOnly(i) \/ CreateTemp(i) \/ SyncAll(i) \/ SaveFails(i) \/ ProcessDies(i)
    BY <2>6, OtherStepsKeep
  <2> QED BY <1>1, <2>1, <2>2, <2>3, <2>4, <2>5, <2>6 DEF CookieSteps
<1>2. CASE MachineFails
  BY <1>2, MachineKeeps
<1>3. CASE TimePasses
  <2>1. now' \in Nat \ {0}
    BY <1>3 DEF TimePasses, JarInv
  <2> QED BY <1>3, <2>1, SameJar DEF TimePasses
<1>4. CASE UNCHANGED cookieVars
  <2>1. now' \in Nat \ {0} /\ UNCHANGED <<ipc, page, browser, captured, temp, jar, image>>
    BY <1>4 DEF cookieVars, JarInv
  <2> QED BY <2>1, SameJar
<1> QED BY <1>1, <1>2, <1>3, <1>4 DEF CookieNext

\* For any pages, cookies, invocations and clock: whoever fails and at whatever step, the cookies.txt
\* is one whole jar that some invocation saved, loads as exactly its unexpired cookies, and what an
\* invocation reads back has the scope it has in its browser (save_cookies, load_cookies, capture).
THEOREM JarHolds == CookieSpec => []JarSurvives
<1>1. JarInv => JarSurvives
  <2> SUFFICES ASSUME JarInv PROVE JarSurvives
    OBVIOUS
  <2>1. \A i \in Invocations : ToSet(captured[i]) \subseteq browser[i]
    BY DEF JarInv, BrowserInv
  <2> QED BY <2>1, JarLoads DEF JarSurvives
<1> QED BY <1>1, JarBegins, JarKept, PTL DEF CookieSpec

-----------------------------------------------------------------------------
(***************************************************************************)
(* Watchdog: the idle time of a crawl, for any operations, timeouts and number*)
(* of pages at once.                                                       *)
(***************************************************************************)
WatchdogSpec == WatchdogInit /\ [][WatchdogNext]_watchdogVars

Before == BeforePages(budget)

Phases == {"free", "sent", "loading", "loaded", "extracting", "ended"}

\* Ages end at the timeout, the ticker at its interval, an extraction at its budget or its page's.
WatchTypeInv ==
  /\ budget \in Budgets \cup {NoBudget}
  /\ coord \in {"new", "robots", "fill", "join", "done"}
  /\ waited \in Nat /\ interval \in 0..budget.delay /\ quiet \in Nat
  /\ counted \in Nat
  /\ slots \in [Slots -> [phase : Phases, age : Nat]] /\ \A s \in Slots : slots[s].age <= PageTimeout
  /\ \A s \in In("free") \cup In("sent") : slots[s].age = 0
  /\ harvest \subseteq In("loading") \cup In("loaded") \cup In("extracting")
  /\ In("extracting") \subseteq harvest
  /\ left \in Nat /\ left <= PageTimeout + ExtractionBudget

\* Filling: every tick was paid for by a place filled since the last event.
FillInv ==
  /\ quiet <= Before
  /\ quiet + interval <= PageTimeout + budget.delay * (Cardinality(InFlight) + 1)

\* Waiting with nothing to join: the pages the engine may turn to next have grown old meanwhile, or
\* the one it extracts will end in time.
Turn == IF harvest = {} THEN InFlight ELSE harvest

JoinInv ==
  /\ InFlight # {}
  /\ quiet <= Before + PageTimeout + ExtractionBudget
  /\ In("ended") = {} =>
       IF Extracting = {} THEN \A s \in Turn : quiet <= Before + slots[s].age
       ELSE quiet + left <= Before + PageTimeout + ExtractionBudget

WatchInv ==
  /\ WatchTypeInv
  /\ coord = "new" => quiet = 0 /\ waited = 0 /\ interval = 0 /\ left = 0 /\ InFlight = {}
  /\ coord = "robots" => /\ budget.kind = "crawl" /\ quiet = waited /\ waited <= PageTimeout
                         /\ interval = 0 /\ InFlight = {}
  /\ coord = "fill" => budget.kind = "crawl" /\ FillInv
  /\ coord = "join" => JoinInv
  /\ coord = "done" => quiet <= Before + PageTimeout + ExtractionBudget
  /\ coord # "new" => budget \in Budgets

-----------------------------------------------------------------------------
LEMMA Multiples ==
  ASSUME NEW d \in Nat, NEW m \in Nat, NEW n \in Nat, m <= n
  PROVE  /\ d * m \in Nat /\ d * n \in Nat /\ d * m <= d * n
         /\ d * (m + 1) = d * m + d
OBVIOUS

\* The operation's own numbers.
LEMMA BudgetNumbers ==
  ASSUME NEW b \in Budgets \cup {NoBudget}
  PROVE  /\ b.timeout \in Nat /\ b.settle \in Nat /\ b.delay \in Nat
         /\ b.concurrency \in Nat /\ b.limit \in Nat
         /\ Dispatches(b) \in Nat \ {0} /\ b.delay * Dispatches(b) \in Nat
         /\ BeforePages(b) \in Nat /\ ExtractionBudget \in Nat /\ Slack \in Nat
<1>1. /\ b.timeout \in Nat /\ b.settle \in Nat /\ b.delay \in Nat /\ b.concurrency \in Nat /\ b.limit \in Nat
  <2>1. CASE b \in Budgets
    BY <2>1, WatchdogAssumption
  <2>2. CASE b = NoBudget
    BY <2>2 DEF NoBudget
  <2> QED BY <2>1, <2>2
<1>2. Dispatches(b) \in Nat \ {0}
  BY <1>1 DEF Dispatches, Most, Least
<1>3. b.delay * Dispatches(b) \in Nat
  BY <1>1, <1>2
<1>4. BeforePages(b) \in Nat
  BY <1>1, <1>3 DEF BeforePages
<1> QED BY <1>1, <1>2, <1>3, <1>4, WatchdogAssumption

\* One slot changes its phase.
LEMMA PhaseMoves ==
  ASSUME WatchTypeInv, NEW s \in Slots, NEW ph \in Phases, slots' = [slots EXCEPT ![s].phase = ph]
  PROVE  /\ slots' \in [Slots -> [phase : Phases, age : Nat]]
         /\ slots'[s].phase = ph /\ slots'[s].age = slots[s].age
         /\ \A q \in Slots \ {s} : slots'[q].phase = slots[q].phase /\ slots'[q].age = slots[q].age
<1>1. PICK r : r = slots[s]
  OBVIOUS
<1>2. r \in [phase : Phases, age : Nat]
  BY <1>1 DEF WatchTypeInv
<1>3. [r EXCEPT !.phase = ph] = [phase |-> ph, age |-> r.age] /\ r.age \in Nat
  BY <1>2
<1>4. PICK a \in Nat : a = r.age
  BY <1>3
<1>5. slots' = [slots EXCEPT ![s] = [phase |-> ph, age |-> a]]
  BY <1>1, <1>3, <1>4
<1>6. /\ slots' \in [Slots -> [phase : Phases, age : Nat]]
      /\ slots'[s].phase = ph /\ slots'[s].age = a
      /\ \A q \in Slots \ {s} : slots'[q].phase = slots[q].phase /\ slots'[q].age = slots[q].age
  <2>1. slots'[s] = [phase |-> ph, age |-> a] /\ \A q \in Slots \ {s} : slots'[q] = slots[q]
    BY <1>5 DEF WatchTypeInv
  <2>2. slots' \in [Slots -> [phase : Phases, age : Nat]]
    BY <1>5 DEF WatchTypeInv
  <2> QED BY <2>1, <2>2
<1> QED BY <1>1, <1>4, <1>6

LEMMA InFlightIsFinite ==
  IsFiniteSet(InFlight) /\ Cardinality(InFlight) \in Nat
<1>1. IsFiniteSet(Slots)
  <2>1. 1 \in Int /\ 3 \in Int
    OBVIOUS
  <2>2. IsFiniteSet(1..3)
    BY <2>1, FS_Interval, Zenon
  <2> QED BY <2>2 DEF Slots
<1>2. InFlight \in SUBSET Slots
  BY DEF InFlight
<1>3. IsFiniteSet(InFlight)
  BY <1>1, <1>2, FS_Subset
<1> QED BY <1>3, FS_CardinalityType

-----------------------------------------------------------------------------
LEMMA WatchBegins == WatchdogInit => WatchInv
<1> SUFFICES ASSUME WatchdogInit PROVE WatchInv
  OBVIOUS
<1>1. budget = NoBudget /\ coord = "new" /\ waited = 0 /\ interval = 0 /\ quiet = 0
      /\ counted = 0 /\ harvest = {} /\ left = 0
  BY DEF WatchdogInit
<1>2. /\ slots \in [Slots -> [phase : Phases, age : Nat]]
      /\ \A s \in Slots : slots[s].phase = "free" /\ slots[s].age = 0
  BY DEF WatchdogInit, FreeSlot, Phases
<1>3. WatchTypeInv
  BY <1>1, <1>2, WatchdogAssumption DEF WatchTypeInv, NoBudget, PageTimeout, In
<1>4. InFlight = {}
  BY <1>2 DEF InFlight, In
<1> QED BY <1>1, <1>3, <1>4 DEF WatchInv

-----------------------------------------------------------------------------
LEMMA StartKeeps ==
  ASSUME WatchInv, NEW b \in Budgets, StartOperation(b) PROVE WatchInv'
<1>1. /\ coord = "new" /\ WatchTypeInv /\ quiet = 0 /\ waited = 0 /\ interval = 0 /\ left = 0
      /\ InFlight = {}
      /\ budget' = b /\ UNCHANGED <<waited, interval, harvest, left, counted, quiet>>
  BY DEF StartOperation, WatchInv
<1>2. slots \in [Slots -> [phase : Phases, age : Nat]] /\ \A s \in Slots : slots[s].phase = "free" /\ slots[s].age = 0
  BY <1>1 DEF InFlight, In, WatchTypeInv
<1>3. harvest = {}
  BY <1>1, <1>2 DEF WatchTypeInv, In
<1>4. /\ b.timeout \in Nat /\ b.delay \in Nat /\ b.kind \in {"fetch", "crawl"}
      /\ BeforePages(b) \in Nat /\ ExtractionBudget \in Nat
  BY BudgetNumbers, WatchdogAssumption
<1>5. left' \in Nat /\ left' <= b.timeout + ExtractionBudget /\ interval' \in 0..b.delay
  BY <1>1, <1>4
<1>6. CASE b.kind = "crawl"
  <2>1. slots' = slots /\ coord' = "robots"
    BY <1>6 DEF StartOperation
  <2>2. WatchTypeInv'
    BY <1>1, <1>2, <1>3, <1>4, <1>5, <2>1 DEF WatchTypeInv, In, PageTimeout
  <2>3. InFlight' = {}
    BY <1>2, <2>1 DEF InFlight, In
  <2> QED BY <1>1, <1>4, <1>6, <2>1, <2>2, <2>3 DEF WatchInv, PageTimeout
<1>7. CASE b.kind # "crawl"
  <2>1. coord' = "join" /\ slots' = [slots EXCEPT ![1].phase = "sent"] /\ 1 \in Slots /\ "sent" \in Phases
    BY <1>7 DEF StartOperation, Slots, Phases
  <2>2. /\ slots' \in [Slots -> [phase : Phases, age : Nat]]
        /\ slots'[1].phase = "sent" /\ slots'[1].age = 0
        /\ \A q \in Slots \ {1} : slots'[q].phase = "free" /\ slots'[q].age = 0
    BY <1>1, <1>2, <2>1, PhaseMoves
  <2>3. WatchTypeInv'
    BY <1>1, <1>3, <1>4, <1>5, <2>1, <2>2 DEF WatchTypeInv, In, PageTimeout
  <2>4. InFlight' = {1} /\ Extracting' = {} /\ Turn' = {1}
    BY <1>1, <1>3, <2>1, <2>2 DEF InFlight, In, Extracting, Turn
  <2>5. JoinInv'
    BY <1>1, <1>4, <2>2, <2>4 DEF JoinInv, Before, PageTimeout
  <2> QED BY <1>1, <2>1, <2>3, <2>5 DEF WatchInv
<1> QED BY <1>6, <1>7

LEMMA RobotsEndKeeps ==
  ASSUME WatchInv, RobotsEnd PROVE WatchInv'
<1>1. /\ coord = "robots" /\ coord' = "fill" /\ WatchTypeInv /\ quiet <= budget.timeout /\ interval = 0
      /\ budget \in Budgets /\ budget.kind = "crawl"
      /\ UNCHANGED <<budget, waited, interval, slots, harvest, left, found, counted, quiet>>
  BY DEF RobotsEnd, WatchInv, PageTimeout
<1>2. WatchTypeInv'
  BY <1>1 DEF WatchTypeInv, In, PageTimeout
<1>3. PICK k \in Nat : k = Cardinality(InFlight)
  BY InFlightIsFinite
<1>4. InFlight' = InFlight
  BY <1>1 DEF InFlight, In
<1>5. budget.timeout \in Nat /\ budget.delay \in Nat /\ Dispatches(budget) \in Nat
  BY <1>1, BudgetNumbers
<1>6. budget.delay * (k + 1) \in Nat /\ budget.delay * Dispatches(budget) \in Nat
  <2>1. k + 1 \in Nat
    BY <1>3
  <2> QED BY <1>5, <2>1, Multiples
<1>7. quiet <= Before
  BY <1>1, <1>5, <1>6 DEF Before, BeforePages, WatchTypeInv
<1>8. quiet + interval <= PageTimeout + budget.delay * (k + 1)
  BY <1>1, <1>5, <1>6 DEF PageTimeout, WatchTypeInv
<1>9. FillInv'
  BY <1>1, <1>3, <1>4, <1>7, <1>8 DEF FillInv, Before, PageTimeout
<1> QED BY <1>1, <1>2, <1>9 DEF WatchInv

LEMMA FillKeeps ==
  ASSUME WatchInv, FillSlot PROVE WatchInv'
<1>1. /\ coord = "fill" /\ coord' = coord /\ WatchTypeInv /\ budget \in Budgets /\ interval = 0
      /\ budget.kind = "crawl" /\ FillInv /\ interval' = budget.delay
      /\ UNCHANGED <<budget, waited, harvest, left, counted, quiet>>
  BY DEF FillSlot, WatchInv
<1>2. PICK s \in In("free") : slots' = [slots EXCEPT ![s].phase = "sent"]
  BY DEF FillSlot
<1>3. s \in Slots /\ slots[s].phase = "free" /\ slots[s].age = 0 /\ "sent" \in Phases
  BY <1>1, <1>2 DEF In, WatchTypeInv, Phases
<1>4. /\ slots' \in [Slots -> [phase : Phases, age : Nat]]
      /\ slots'[s].phase = "sent" /\ slots'[s].age = 0
      /\ \A q \in Slots \ {s} : slots'[q].phase = slots[q].phase /\ slots'[q].age = slots[q].age
  BY <1>1, <1>2, <1>3, PhaseMoves
<1>5. /\ budget.timeout \in Nat /\ budget.delay \in Nat
  BY <1>1, BudgetNumbers
<1>6. WatchTypeInv'
  BY <1>1, <1>3, <1>4, <1>5 DEF WatchTypeInv, In, PageTimeout
<1>7. InFlight' = InFlight \cup {s} /\ s \notin InFlight
  BY <1>3, <1>4 DEF InFlight, In
<1>8. PICK k \in Nat : k = Cardinality(InFlight)
  BY InFlightIsFinite
<1>9. Cardinality(InFlight') = k + 1
  BY <1>7, <1>8, InFlightIsFinite, FS_AddElement
<1>10. quiet + budget.delay <= budget.timeout + budget.delay * (k + 1 + 1)
  <2>1. quiet <= budget.timeout + budget.delay * (k + 1) /\ quiet \in Nat
    BY <1>1, <1>8 DEF FillInv, PageTimeout, WatchTypeInv
  <2>2. k + 1 \in Nat
    BY <1>8
  <2>3. budget.delay * (k + 1 + 1) = budget.delay * (k + 1) + budget.delay /\ budget.delay * (k + 1) \in Nat
    BY <1>5, <2>2, Multiples
  <2> QED BY <1>5, <2>1, <2>3
<1>11. FillInv'
  BY <1>1, <1>9, <1>10 DEF FillInv, Before, PageTimeout
<1> QED BY <1>1, <1>6, <1>11 DEF WatchInv

LEMMA AllFilledKeeps ==
  ASSUME WatchInv, AllFilled PROVE WatchInv'
<1>1. /\ coord = "fill" /\ coord' = (IF InFlight = {} THEN "done" ELSE "join")
      /\ WatchTypeInv /\ budget \in Budgets /\ quiet <= Before
      /\ UNCHANGED <<budget, waited, interval, slots, harvest, left, found, counted, quiet>>
  BY DEF AllFilled, WatchInv, FillInv
<1>2. /\ budget.timeout \in Nat /\ Before \in Nat /\ ExtractionBudget \in Nat /\ quiet \in Nat
      /\ left \in Nat /\ left <= budget.timeout + ExtractionBudget
  BY <1>1, BudgetNumbers DEF Before, WatchTypeInv, PageTimeout
<1>3. WatchTypeInv'
  BY <1>1 DEF WatchTypeInv, In, PageTimeout
<1>4. Turn \subseteq Slots /\ \A s \in Slots : slots[s].age \in Nat
  BY <1>1 DEF WatchTypeInv, Turn, InFlight, In
<1>5. /\ quiet <= Before + PageTimeout + ExtractionBudget
      /\ \A s \in Turn : quiet <= Before + slots[s].age
      /\ quiet + left <= Before + PageTimeout + ExtractionBudget
  BY <1>1, <1>2, <1>4 DEF PageTimeout
<1>6. InFlight # {} => JoinInv
  BY <1>5 DEF JoinInv
<1>7. InFlight # {} => JoinInv'
  BY <1>1, <1>6 DEF JoinInv, InFlight, In, Extracting, Turn, Before, PageTimeout
<1> QED BY <1>1, <1>3, <1>5, <1>7 DEF WatchInv, Before, PageTimeout

LEMMA JoinKeeps ==
  ASSUME WatchInv, NEW s \in Slots, NEW n, NEW c \in Nat, JoinNext(s, n, c) PROVE WatchInv'
<1>1. /\ coord = "join" /\ coord' \in {"fill", "done"} /\ (coord' = "fill" => budget.kind = "crawl")
      /\ WatchTypeInv /\ budget \in Budgets /\ slots[s].phase = "ended"
      /\ quiet' = 0 /\ UNCHANGED <<budget, waited, interval, harvest, left>>
  BY DEF JoinNext, WatchInv
<1>2. slots' = [slots EXCEPT ![s] = [phase |-> "free", age |-> 0]] /\ "free" \in Phases
  BY DEF JoinNext, FreeSlot, Phases
<1>3. /\ slots' \in [Slots -> [phase : Phases, age : Nat]]
      /\ slots'[s].phase = "free" /\ slots'[s].age = 0
      /\ \A q \in Slots \ {s} : slots'[q].phase = slots[q].phase /\ slots'[q].age = slots[q].age
  <2>1. slots'[s] = [phase |-> "free", age |-> 0] /\ \A q \in Slots \ {s} : slots'[q] = slots[q]
    BY <1>1, <1>2 DEF WatchTypeInv
  <2>2. slots' \in [Slots -> [phase : Phases, age : Nat]]
    BY <1>1, <1>2 DEF WatchTypeInv
  <2> QED BY <2>1, <2>2
<1>4. /\ budget.timeout \in Nat /\ budget.delay \in Nat /\ Before \in Nat /\ ExtractionBudget \in Nat
  BY <1>1, BudgetNumbers DEF Before
<1>5. WatchTypeInv'
  <2>1. harvest' \subseteq (In("loading") \cup In("loaded") \cup In("extracting"))' /\ In("extracting")' \subseteq harvest'
    BY <1>1, <1>3 DEF WatchTypeInv, In
  <2>2. \A q \in Slots : slots'[q].age <= PageTimeout'
    BY <1>1, <1>3, <1>4 DEF WatchTypeInv, PageTimeout
  <2>3. \A q \in (In("free") \cup In("sent"))' : slots'[q].age = 0
    BY <1>1, <1>3 DEF WatchTypeInv, In
  <2>4. coord' \in {"new", "robots", "fill", "join", "done"} /\ quiet' \in Nat /\ counted' \in Nat
    BY <1>1 DEF JoinNext, WatchTypeInv
  <2>5. /\ budget' \in Budgets \cup {NoBudget} /\ waited' \in Nat /\ interval' \in 0..budget'.delay
        /\ left' \in Nat /\ left' <= PageTimeout' + ExtractionBudget
    BY <1>1 DEF WatchTypeInv, PageTimeout
  <2> QED BY <1>3, <2>1, <2>2, <2>3, <2>4, <2>5 DEF WatchTypeInv
<1>6. PICK k \in Nat : k = Cardinality(InFlight)'
  <2>1. InFlight' \in SUBSET InFlight
    BY <1>1, <1>3 DEF InFlight, In
  <2>2. IsFiniteSet(InFlight')
    BY <2>1, InFlightIsFinite, FS_Subset
  <2> QED BY <2>2, FS_CardinalityType
<1>7. 0 + interval <= budget.timeout + budget.delay * (k + 1)
  <2>1. budget.delay * (k + 1) = budget.delay * k + budget.delay /\ budget.delay * k \in Nat
    BY <1>4, Multiples
  <2>2. interval \in Nat /\ interval <= budget.delay
    BY <1>1, <1>4 DEF WatchTypeInv
  <2> QED BY <1>4, <2>1, <2>2
<1>8. coord' = "fill" => FillInv'
  BY <1>1, <1>4, <1>6, <1>7 DEF FillInv, Before, PageTimeout
<1> QED BY <1>1, <1>4, <1>5, <1>8 DEF WatchInv, Before, PageTimeout

\* A step of the engine: busy slots stay busy, and the coordinator does nothing.
LEMMA EngineStep ==
  ASSUME WatchInv, WatchTypeInv', UNCHANGED <<budget, coord, waited, interval, quiet>>,
         InFlight # {}, InFlight' = InFlight, coord = "join" => JoinInv'
  PROVE  WatchInv'
<1>1. coord \notin {"new", "robots"}
  BY DEF WatchInv
<1> QED BY <1>1 DEF WatchInv, FillInv, Before, PageTimeout

LEMMA TakeOnKeeps ==
  ASSUME WatchInv, NEW s \in Slots, TakeOn(s) PROVE WatchInv'
<1>1. /\ WatchTypeInv /\ slots[s].phase = "sent" /\ harvest = {} /\ slots[s].age = 0
      /\ UNCHANGED <<budget, coord, waited, interval, harvest, left, found, counted, quiet>>
  BY DEF TakeOn, WatchInv, WatchTypeInv, In
<1>2. slots' = [slots EXCEPT ![s] = [phase |-> "loading", age |-> 0]] /\ "loading" \in Phases
  BY DEF TakeOn, Phases
<1>3. /\ slots' \in [Slots -> [phase : Phases, age : Nat]]
      /\ slots'[s].phase = "loading" /\ slots'[s].age = 0
      /\ \A q \in Slots \ {s} : slots'[q].phase = slots[q].phase /\ slots'[q].age = slots[q].age
  <2>1. slots'[s] = [phase |-> "loading", age |-> 0] /\ \A q \in Slots \ {s} : slots'[q] = slots[q]
    BY <1>1, <1>2 DEF WatchTypeInv
  <2>2. slots' \in [Slots -> [phase : Phases, age : Nat]]
    BY <1>1, <1>2 DEF WatchTypeInv
  <2> QED BY <2>1, <2>2
<1>4. budget.timeout \in Nat
  BY <1>1, BudgetNumbers DEF WatchTypeInv
<1>5. WatchTypeInv'
  BY <1>1, <1>3, <1>4 DEF WatchTypeInv, In, PageTimeout
<1>6. s \in InFlight /\ InFlight' = InFlight /\ Extracting' = Extracting /\ In("ended")' = In("ended")
  BY <1>1, <1>3 DEF InFlight, In, Extracting
<1>7. Turn' = Turn /\ Turn \subseteq Slots /\ \A q \in Slots : slots'[q].age = slots[q].age
  BY <1>1, <1>3, <1>6 DEF Turn, InFlight
<1>8. coord = "join" => JoinInv'
  BY <1>1, <1>6, <1>7 DEF WatchInv, JoinInv, Before, PageTimeout
<1> QED BY <1>1, <1>5, <1>6, <1>8, EngineStep

LEMMA LoadKeepsWatch ==
  ASSUME WatchInv, NEW s \in Slots, Load(s) PROVE WatchInv'
<1>1. /\ WatchTypeInv /\ slots[s].phase = "loading"
      /\ UNCHANGED <<budget, coord, waited, interval, harvest, left, found, counted, quiet>>
  BY DEF Load, WatchInv
<1>2. slots' = [slots EXCEPT ![s].phase = "loaded"] /\ "loaded" \in Phases
  BY DEF Load, Phases
<1>3. /\ slots' \in [Slots -> [phase : Phases, age : Nat]]
      /\ slots'[s].phase = "loaded" /\ slots'[s].age = slots[s].age
      /\ \A q \in Slots \ {s} : slots'[q].phase = slots[q].phase /\ slots'[q].age = slots[q].age
  BY <1>1, <1>2, PhaseMoves
<1>4. WatchTypeInv'
  BY <1>1, <1>3 DEF WatchTypeInv, In, PageTimeout
<1>5. s \in InFlight /\ InFlight' = InFlight /\ Extracting' = Extracting /\ In("ended")' = In("ended")
  BY <1>1, <1>3 DEF InFlight, In, Extracting
<1>6. Turn' = Turn /\ Turn \subseteq Slots /\ \A q \in Slots : slots'[q].age = slots[q].age
  BY <1>1, <1>3, <1>5 DEF Turn, InFlight, In, WatchTypeInv
<1>7. coord = "join" => JoinInv'
  BY <1>1, <1>5, <1>6 DEF WatchInv, JoinInv, Before, PageTimeout
<1> QED BY <1>1, <1>4, <1>5, <1>7, EngineStep

LEMMA StartRoundKeeps ==
  ASSUME WatchInv, StartRound PROVE WatchInv'
<1>1. /\ WatchTypeInv /\ harvest = {} /\ harvest' = DonePages /\ DonePages # {}
      /\ UNCHANGED <<budget, coord, waited, interval, slots, left, found, counted, quiet>>
  BY DEF StartRound, WatchInv
<1>2. DonePages \subseteq In("loading") \cup In("loaded")
  BY DEF DonePages
<1>3. WatchTypeInv'
  BY <1>1, <1>2 DEF WatchTypeInv, In, PageTimeout
<1>4. DonePages \subseteq InFlight /\ InFlight' = InFlight /\ Extracting' = Extracting /\ In("ended")' = In("ended")
  BY <1>1, <1>2 DEF InFlight, In, Extracting
<1>5. Turn' \subseteq Turn
  BY <1>1, <1>4 DEF Turn
<1>6. coord = "join" => JoinInv'
  BY <1>1, <1>4, <1>5 DEF WatchInv, JoinInv, Before, PageTimeout
<1>7. InFlight # {}
  BY <1>1, <1>4
<1> QED BY <1>1, <1>3, <1>4, <1>6, <1>7, EngineStep

\* Once a page has ended, what is quiet waits for nothing but the joining of it.
LEMMA SomeEnded ==
  ASSUME WatchInv, UNCHANGED <<budget, coord, quiet>>, InFlight' = InFlight, coord = "join", In("ended")' # {}
  PROVE  JoinInv'
BY DEF WatchInv, JoinInv, Before, PageTimeout

LEMMA ExtractKeeps ==
  ASSUME WatchInv, NEW s \in Slots, Extract(s) PROVE WatchInv'
<1>1. /\ WatchTypeInv /\ s \in harvest /\ Extracting = {}
      /\ UNCHANGED <<budget, coord, waited, interval, found, counted, quiet>>
  BY DEF Extract, WatchInv
<1>2. slots[s].phase \in {"loading", "loaded"} /\ slots[s].age \in Nat /\ slots[s].age <= budget.timeout
  BY <1>1 DEF WatchTypeInv, In, Extracting, PageTimeout
<1>3. budget.timeout \in Nat /\ ExtractionBudget \in Nat /\ Before \in Nat
  BY <1>1, BudgetNumbers DEF WatchTypeInv, Before
<1>4. CASE slots[s].phase = "loaded"
  <2>1. /\ slots' = [slots EXCEPT ![s].phase = "extracting"] /\ "extracting" \in Phases
        /\ left' = (IF slots[s].age < PageTimeout
                      THEN Most(PageTimeout - slots[s].age, ExtractionBudget) ELSE ExtractionBudget)
        /\ harvest' = harvest
    BY <1>4 DEF Extract, Phases
  <2>2. /\ slots' \in [Slots -> [phase : Phases, age : Nat]]
        /\ slots'[s].phase = "extracting" /\ slots'[s].age = slots[s].age
        /\ \A q \in Slots \ {s} : slots'[q].phase = slots[q].phase /\ slots'[q].age = slots[q].age
    BY <1>1, <2>1, PhaseMoves
  <2>3. /\ left' \in Nat /\ left' <= PageTimeout + ExtractionBudget
        /\ slots[s].age + left' <= PageTimeout + ExtractionBudget
    BY <1>2, <1>3, <2>1 DEF Most, PageTimeout
  <2>4. WatchTypeInv'
    BY <1>1, <1>2, <2>1, <2>2, <2>3 DEF WatchTypeInv, In, PageTimeout, Extracting
  <2>5. s \in InFlight /\ InFlight' = InFlight /\ Extracting' # {} /\ In("ended")' = In("ended")
    BY <1>2, <2>2 DEF InFlight, In, Extracting
  <2>6. ASSUME coord = "join" PROVE JoinInv'
    <3>1. JoinInv
      BY <2>6 DEF WatchInv
    <3>2. ASSUME In("ended") = {} PROVE quiet + left' <= Before + PageTimeout + ExtractionBudget
      <4>1. s \in Turn
        BY <1>1 DEF Turn
      <4>2. quiet <= Before + slots[s].age
        BY <3>1, <3>2, <4>1, <1>1 DEF JoinInv
      <4> QED BY <4>2, <2>3, <1>2, <1>3, <1>1 DEF WatchTypeInv, PageTimeout
    <3> QED BY <1>1, <2>5, <3>1, <3>2 DEF JoinInv, Before, PageTimeout
  <2> QED BY <1>1, <2>4, <2>5, <2>6, EngineStep
<1>5. CASE slots[s].phase # "loaded"
  <2>1. /\ slots' = [slots EXCEPT ![s].phase = "ended"] /\ "ended" \in Phases
        /\ left' = left /\ harvest' = harvest \ {s}
    BY <1>5 DEF Extract, Phases
  <2>2. /\ slots' \in [Slots -> [phase : Phases, age : Nat]]
        /\ slots'[s].phase = "ended" /\ slots'[s].age = slots[s].age
        /\ \A q \in Slots \ {s} : slots'[q].phase = slots[q].phase /\ slots'[q].age = slots[q].age
    BY <1>1, <2>1, PhaseMoves
  <2>3. WatchTypeInv'
    BY <1>1, <1>2, <2>1, <2>2 DEF WatchTypeInv, In, PageTimeout
  <2>4. s \in InFlight /\ InFlight' = InFlight /\ In("ended")' # {}
    BY <1>2, <2>2 DEF InFlight, In
  <2>5. coord = "join" => JoinInv'
    BY <1>1, <2>4, SomeEnded
  <2> QED BY <1>1, <2>3, <2>4, <2>5, EngineStep
<1> QED BY <1>4, <1>5

LEMMA ReplyKeeps ==
  ASSUME WatchInv, NEW s \in Slots, Reply(s) PROVE WatchInv'
<1>1. /\ WatchTypeInv /\ slots[s].phase = "extracting" /\ left' = 0 /\ harvest' = harvest \ {s}
      /\ UNCHANGED <<budget, coord, waited, interval, found, counted, quiet>>
  BY DEF Reply, WatchInv
<1>2. slots' = [slots EXCEPT ![s].phase = "ended"] /\ "ended" \in Phases
  BY DEF Reply, Phases
<1>3. /\ slots' \in [Slots -> [phase : Phases, age : Nat]]
      /\ slots'[s].phase = "ended" /\ slots'[s].age = slots[s].age
      /\ \A q \in Slots \ {s} : slots'[q].phase = slots[q].phase /\ slots'[q].age = slots[q].age
  BY <1>1, <1>2, PhaseMoves
<1>4. budget.timeout \in Nat /\ ExtractionBudget \in Nat
  BY <1>1, BudgetNumbers DEF WatchTypeInv
<1>5. WatchTypeInv'
  BY <1>1, <1>3, <1>4 DEF WatchTypeInv, In, PageTimeout
<1>6. s \in InFlight /\ InFlight' = InFlight /\ In("ended")' # {}
  BY <1>1, <1>3 DEF InFlight, In
<1>7. coord = "join" => JoinInv'
  BY <1>1, <1>6, SomeEnded
<1> QED BY <1>1, <1>5, <1>6, <1>7, EngineStep

-----------------------------------------------------------------------------
\* When time passes while the coordinator fills places, a tick is awaited that will fill one more.
LEMMA TickInFill ==
  ASSUME WatchInv, WatchdogTick, coord = "fill"
  PROVE  quiet + 1 <= Before /\ interval > 0
<1>1. ~DueNow /\ WatchTypeInv /\ FillInv /\ budget \in Budgets /\ budget.kind = "crawl"
  BY DEF WatchdogTick, WatchInv
<1>2. MayFill /\ interval # 0
  BY <1>1 DEF DueNow
<1>3. PICK k \in Nat : k = Cardinality(InFlight)
  BY InFlightIsFinite
<1>4. /\ budget.timeout \in Nat /\ budget.delay \in Nat /\ budget.concurrency \in Nat /\ budget.limit \in Nat
      /\ Dispatches(budget) \in Nat
  BY <1>1, BudgetNumbers
<1>5. k + 1 <= Dispatches(budget)
  <2>1. k < Most(budget.concurrency, 1) /\ k < budget.limit
    BY <1>1, <1>2, <1>3, <1>4 DEF MayFill, Most, WatchTypeInv
  <2> QED BY <1>3, <1>4, <2>1 DEF Dispatches, Most, Least
<1>6. k + 1 \in Nat /\ budget.delay * (k + 1) <= budget.delay * Dispatches(budget)
      /\ budget.delay * (k + 1) \in Nat /\ budget.delay * Dispatches(budget) \in Nat
  <2>1. k + 1 \in Nat
    BY <1>3
  <2> QED BY <1>4, <1>5, <2>1, Multiples
<1>7. interval \in Nat /\ interval > 0 /\ quiet \in Nat
  BY <1>1, <1>2, <1>4 DEF WatchTypeInv
<1>8. quiet + interval <= budget.timeout + budget.delay * (k + 1)
  BY <1>1, <1>3 DEF FillInv, PageTimeout
<1>9. Before = budget.timeout + budget.delay * Dispatches(budget)
  BY <1>1 DEF Before, BeforePages
<1> QED BY <1>4, <1>6, <1>7, <1>8, <1>9

LEMMA TickKeeps ==
  ASSUME WatchInv, WatchdogTick PROVE WatchInv'
<1>1. /\ WatchTypeInv /\ coord \notin {"new", "done"} /\ ~DueNow /\ budget \in Budgets
      /\ waited' = (IF coord = "robots" THEN waited + 1 ELSE waited)
      /\ interval' = (IF interval > 0 THEN interval - 1 ELSE 0)
      /\ left' = (IF left > 0 THEN left - 1 ELSE 0) /\ quiet' = quiet + 1
      /\ UNCHANGED <<budget, coord, harvest, found, counted>>
  BY DEF WatchdogTick, WatchInv
<1>2. /\ budget.timeout \in Nat /\ budget.delay \in Nat /\ ExtractionBudget \in Nat /\ Before \in Nat
  BY <1>1, BudgetNumbers DEF Before
<1> DEFINE Ages(s) == slots[s].phase \in {"loading", "loaded"} /\ slots[s].age < PageTimeout
<1>3. \A s \in Slots : slots'[s].phase = slots[s].phase
                       /\ slots'[s].age = IF Ages(s) THEN slots[s].age + 1 ELSE slots[s].age
  <2>1. SUFFICES ASSUME NEW s \in Slots
                 PROVE  slots'[s].phase = slots[s].phase
                        /\ slots'[s].age = IF Ages(s) THEN slots[s].age + 1 ELSE slots[s].age
    OBVIOUS
  <2>2. PICK r : r = slots[s]
    OBVIOUS
  <2>3. r \in [phase : Phases, age : Nat]
    BY <1>1, <2>2 DEF WatchTypeInv
  <2>4. slots'[s] = IF Ages(s) THEN [r EXCEPT !.age = @ + 1] ELSE r
    BY <2>2 DEF WatchdogTick
  <2> QED BY <2>2, <2>3, <2>4
<1>4. slots' \in [Slots -> [phase : Phases, age : Nat]]
  <2>1. slots' = [s \in Slots |-> IF Ages(s) THEN [slots[s] EXCEPT !.age = @ + 1] ELSE slots[s]]
    BY DEF WatchdogTick
  <2>2. ASSUME NEW s \in Slots
        PROVE  (IF Ages(s) THEN [slots[s] EXCEPT !.age = @ + 1] ELSE slots[s]) \in [phase : Phases, age : Nat]
    BY <1>1 DEF WatchTypeInv
  <2> QED BY <2>1, <2>2
<1>5. \A s \in Slots : slots[s].age \in Nat /\ slots[s].age <= budget.timeout
  BY <1>1 DEF WatchTypeInv, PageTimeout
<1>6. WatchTypeInv'
  <2>1. \A s \in Slots : slots'[s].age <= budget.timeout
    BY <1>3, <1>5, <1>2 DEF PageTimeout
  <2>2. \A s \in (In("free") \cup In("sent"))' : slots'[s].age = 0
    BY <1>1, <1>3 DEF WatchTypeInv, In
  <2>3. harvest' \subseteq (In("loading") \cup In("loaded") \cup In("extracting"))' /\ In("extracting")' \subseteq harvest'
    BY <1>1, <1>3 DEF WatchTypeInv, In
  <2>4. waited' \in Nat /\ interval' \in 0..budget.delay /\ quiet' \in Nat /\ counted' \in Nat
        /\ left' \in Nat /\ left' <= budget.timeout + ExtractionBudget
    BY <1>1, <1>2 DEF WatchTypeInv, PageTimeout
  <2>5. budget' \in Budgets \cup {NoBudget} /\ coord' \in {"new", "robots", "fill", "join", "done"}
    BY <1>1 DEF WatchTypeInv
  <2> QED BY <1>1, <1>4, <2>1, <2>2, <2>3, <2>4, <2>5 DEF WatchTypeInv, PageTimeout
<1>7. /\ InFlight' = InFlight /\ Extracting' = Extracting /\ In("ended")' = In("ended")
      /\ In("sent")' = In("sent")
  BY <1>3 DEF InFlight, Extracting, In
<1>8. CASE coord = "robots"
  <2>1. waited < budget.timeout
    BY <1>1, <1>2, <1>8 DEF DueNow, PageTimeout, WatchTypeInv
  <2>2. quiet = waited /\ interval = 0 /\ InFlight = {} /\ budget.kind = "crawl"
    BY <1>8 DEF WatchInv
  <2>3. waited + 1 <= budget.timeout /\ waited' = waited + 1 /\ quiet' = waited + 1 /\ interval' = 0
    BY <1>1, <1>2, <1>8, <2>1, <2>2 DEF WatchTypeInv
  <2> QED BY <1>1, <1>6, <1>7, <1>8, <2>2, <2>3 DEF WatchInv, PageTimeout
<1>9. CASE coord = "fill"
  <2>1. quiet + 1 <= Before /\ interval > 0 /\ FillInv /\ budget.kind = "crawl"
    BY <1>9, TickInFill DEF WatchInv
  <2>2. quiet' + interval' = quiet + interval
    BY <1>1, <1>2, <2>1 DEF WatchTypeInv
  <2>3. FillInv'
    BY <1>1, <1>7, <2>1, <2>2 DEF FillInv, Before, PageTimeout
  <2> QED BY <1>1, <1>6, <1>9, <2>1, <2>3 DEF WatchInv
<1>10. CASE coord = "join"
  <2>1. JoinInv /\ In("ended") = {}
    BY <1>1, <1>10 DEF WatchInv, DueNow
  <2>2. /\ harvest = {} => In("sent") = {} /\ DonePages = {}
        /\ harvest # {} => Extracting # {} /\ left # 0
    BY <1>1 DEF DueNow
  <2>3. quiet \in Nat /\ left \in Nat
    BY <1>1 DEF WatchTypeInv
  <2>4. CASE harvest = {}
    <3>1. Extracting = {} /\ Turn = InFlight
      BY <1>1, <2>4 DEF WatchTypeInv, Extracting, Turn
    <3>2. \A s \in InFlight : slots[s].phase = "loading" /\ slots[s].age < budget.timeout
      <4>1. SUFFICES ASSUME NEW s \in InFlight
                     PROVE  slots[s].phase = "loading" /\ slots[s].age < budget.timeout
        OBVIOUS
      <4>2. s \in Slots /\ slots[s].phase \in Phases /\ slots[s].phase # "free"
        BY <1>1 DEF InFlight, In, WatchTypeInv
      <4>3. slots[s].phase = "loading"
        BY <4>2, <2>1, <2>2, <2>4, <3>1 DEF In, Extracting, DonePages, Phases
      <4>4. ~ slots[s].age >= PageTimeout
        BY <4>2, <4>3, <2>2, <2>4 DEF In, DonePages
      <4> QED BY <4>2, <4>3, <4>4, <1>2, <1>5 DEF PageTimeout
    <3>3. \A s \in InFlight : s \in Slots /\ slots'[s].age = slots[s].age + 1 /\ slots[s].age \in Nat
      BY <1>3, <1>5, <3>2 DEF InFlight, PageTimeout
    <3>4. \A s \in InFlight : quiet <= Before + slots[s].age
      BY <2>1, <3>1 DEF JoinInv
    <3>5. \A s \in InFlight : quiet' <= Before + slots'[s].age /\ quiet' <= Before + budget.timeout
      BY <1>1, <1>2, <2>3, <3>2, <3>3, <3>4
    <3>6. PICK s : s \in InFlight
      BY <2>1 DEF JoinInv
    <3>7. quiet' <= Before + budget.timeout + ExtractionBudget
      BY <1>1, <1>2, <2>3, <3>5, <3>6
    <3>8. JoinInv'
      BY <1>1, <1>7, <2>1, <2>4, <3>1, <3>5, <3>7 DEF JoinInv, Turn, Before, PageTimeout
    <3> QED BY <1>1, <1>6, <1>10, <3>8 DEF WatchInv
  <2>5. CASE harvest # {}
    <3>1. Extracting # {} /\ left > 0
      BY <2>2, <2>3, <2>5
    <3>2. quiet + left <= Before + budget.timeout + ExtractionBudget
      BY <2>1, <3>1 DEF JoinInv, PageTimeout
    <3>3. /\ quiet' + left' <= Before + budget.timeout + ExtractionBudget
          /\ quiet' <= Before + budget.timeout + ExtractionBudget
      BY <1>1, <1>2, <2>3, <3>1, <3>2
    <3>4. JoinInv'
      BY <1>1, <1>7, <2>1, <3>1, <3>3 DEF JoinInv, Before, PageTimeout
    <3> QED BY <1>1, <1>6, <1>10, <3>4 DEF WatchInv
  <2> QED BY <2>4, <2>5
<1> QED BY <1>1, <1>8, <1>9, <1>10 DEF WatchTypeInv

LEMMA SameWatch == WatchInv /\ UNCHANGED watchdogVars => WatchInv'
BY DEF WatchInv, watchdogVars, WatchTypeInv, FillInv, JoinInv, Turn, Extracting, InFlight, In, Before, PageTimeout

LEMMA WatchKept == WatchInv /\ [WatchdogNext]_watchdogVars => WatchInv'
<1> SUFFICES ASSUME WatchInv, [WatchdogNext]_watchdogVars PROVE WatchInv'
  OBVIOUS
<1>1. ASSUME NEW b \in Budgets, StartOperation(b) PROVE WatchInv'
  BY <1>1, StartKeeps
<1>2. CASE RobotsEnd
  BY <1>2, RobotsEndKeeps
<1>3. CASE FillSlot
  BY <1>3, FillKeeps
<1>4. CASE AllFilled
  BY <1>4, AllFilledKeeps
<1>5. ASSUME NEW s \in Slots, NEW n \in 0..2, NEW c \in 0..1, JoinNext(s, n, c) PROVE WatchInv'
  <2>1. c \in Nat
    OBVIOUS
  <2> QED BY <1>5, <2>1, JoinKeeps
<1>6. ASSUME NEW s \in Slots, TakeOn(s) \/ Load(s) \/ Extract(s) \/ Reply(s) PROVE WatchInv'
  BY <1>6, TakeOnKeeps, LoadKeepsWatch, ExtractKeeps, ReplyKeeps
<1>7. CASE StartRound
  BY <1>7, StartRoundKeeps
<1>8. CASE WatchdogTick
  BY <1>8, TickKeeps
<1>9. CASE UNCHANGED watchdogVars
  BY <1>9, SameWatch
<1> QED BY <1>1, <1>2, <1>3, <1>4, <1>5, <1>6, <1>7, <1>8, <1>9 DEF WatchdogNext

\* For any operation whose own limits keep below the cap of a day: the inactivity watchdog never ends
\* it while robots.txt, the ticks, the pages and the extractions keep to those limits
\* (fetch_wire_watchdog, crawl_wire_watchdog).
THEOREM WatchdogHolds == WatchdogSpec => []IdleCoversPages
<1>1. WatchInv => IdleCoversPages
  <2> SUFFICES ASSUME WatchInv, quiet > 0 PROVE quiet < Idle
    BY DEF IdleCoversPages
  <2>1. WatchTypeInv /\ coord # "new" /\ budget \in Budgets
    BY DEF WatchInv
  <2>2. /\ budget.timeout \in Nat /\ budget.settle \in Nat /\ budget.delay \in Nat
        /\ Dispatches(budget) \in Nat /\ budget.delay * Dispatches(budget) \in Nat
        /\ Before \in Nat /\ ExtractionBudget \in Nat /\ Slack \in Nat
    BY <2>1, BudgetNumbers DEF Before
  <2>3. quiet \in Nat /\ quiet <= Before + budget.timeout + ExtractionBudget
    <3>1. CASE coord = "robots"
      <4>1. quiet <= budget.timeout /\ budget.kind = "crawl" /\ quiet \in Nat
        BY <3>1 DEF WatchInv, WatchTypeInv, PageTimeout
      <4> QED BY <4>1, <2>2 DEF Before, BeforePages
    <3>2. CASE coord = "fill"
      <4>1. quiet <= Before /\ quiet \in Nat
        BY <3>2 DEF WatchInv, WatchTypeInv, FillInv
      <4> QED BY <4>1, <2>2
    <3>3. CASE coord \in {"join", "done"}
      BY <3>3 DEF WatchInv, WatchTypeInv, JoinInv, PageTimeout
    <3> QED BY <2>1, <3>1, <3>2, <3>3 DEF WatchTypeInv
  <2>4. Before + budget.timeout + ExtractionBudget < MaxOperationWatchdog /\ ExtractionBudget < Slack
        /\ MaxOperationWatchdog \in Nat
    BY <2>1, WatchdogAssumption DEF Before
  <2>5. CASE budget.kind = "crawl"
    <3>1. Before = budget.timeout + budget.delay * Dispatches(budget)
      BY <2>5 DEF Before, BeforePages
    <3>2. PICK ticks \in Nat : ticks = budget.delay * Dispatches(budget)
      BY <2>2
    <3>3. Idle = Least(2 * budget.timeout + budget.settle + ticks + Slack, MaxOperationWatchdog)
      BY <2>5, <3>2 DEF Idle, CrawlWatchdog, Dispatches
    <3>4. quiet < 2 * budget.timeout + budget.settle + ticks + Slack
      BY <2>2, <2>3, <2>4, <3>1, <3>2
    <3>5. quiet < MaxOperationWatchdog
      BY <2>2, <2>3, <2>4
    <3> QED BY <3>3, <3>4, <3>5 DEF Least
  <2>6. CASE budget.kind # "crawl"
    <3>1. Before = 0
      BY <2>6 DEF Before, BeforePages
    <3>2. Idle = Least(budget.timeout + budget.settle + Slack, MaxOperationWatchdog)
      BY <2>6 DEF Idle, FetchWatchdog
    <3>3. quiet < budget.timeout + budget.settle + Slack /\ quiet < MaxOperationWatchdog
      BY <2>2, <2>3, <2>4, <3>1
    <3> QED BY <3>2, <3>3 DEF Least
  <2> QED BY <2>5, <2>6
<1> QED BY <1>1, WatchBegins, WatchKept, PTL DEF WatchdogSpec

-----------------------------------------------------------------------------
(***************************************************************************)
(* Gate: the permits of the HTTP server, for any requests, any sizes of    *)
(* batches and any number of permits.                                      *)
(***************************************************************************)
GateSpec == GateInit /\ [][GateNext]_gateVars

HandlerPcs == {"new", "awaiting", "shutdown", "answered", "dropped"}

GateTypeInv ==
  /\ handler \in [Handlers -> [pc : HandlerPcs, spawned : Nat, ended : SUBSET {"done", "panic"}]]
  /\ fetching \subseteq [by : Handlers, n : Nat \ {0}]
  /\ holding \subseteq [by : Handlers, n : Nat]
  /\ IsFiniteSet(holding)

\* A fetch has a permit of its own, or its handler has one, unless that was dropped.
Covered(f) ==
  /\ handler[f.by].pc # "answered"
  /\ f \notin holding => /\ ~Batch(f.by)
                         /\ Fetch(f.by, 0) \in holding \/ handler[f.by].pc = "dropped"

GateInv ==
  /\ GateTypeInv
  /\ Cardinality(holding) <= GateSize
  /\ \A f \in fetching : Covered(f)

-----------------------------------------------------------------------------
\* Where the gate is open there is room for one permit more.
LEMMA RoomAtGate ==
  ASSUME GateInv, Opens, NEW f
  PROVE  IsFiniteSet(holding \cup {f}) /\ Cardinality(holding \cup {f}) <= GateSize
<1>1. IsFiniteSet(holding) /\ Cardinality(holding) \in Nat /\ GateSize \in Nat
  BY GateAssumption, FS_CardinalityType DEF GateInv, GateTypeInv
<1>2. Cardinality(holding) + 1 <= GateSize
  BY <1>1 DEF Opens
<1>3. CASE f \in holding
  <2>1. holding \cup {f} = holding
    BY <1>3
  <2> QED BY <1>1, <2>1 DEF GateInv
<1>4. CASE f \notin holding
  BY <1>1, <1>2, <1>4, FS_AddElement
<1> QED BY <1>3, <1>4

\* A permit given back leaves no more of them than before.
LEMMA PermitGivenBack ==
  ASSUME GateInv, NEW f
  PROVE  IsFiniteSet(holding \ {f}) /\ Cardinality(holding \ {f}) <= GateSize
<1>1. IsFiniteSet(holding) /\ Cardinality(holding) \in Nat /\ GateSize \in Nat
  BY GateAssumption, FS_CardinalityType DEF GateInv, GateTypeInv
<1>2. /\ IsFiniteSet(holding \ {f})
      /\ Cardinality(holding \ {f}) \in Nat
      /\ Cardinality(holding \ {f}) <= Cardinality(holding)
  BY <1>1, FS_Subset, FS_CardinalityType
<1> QED BY <1>1, <1>2 DEF GateInv

-----------------------------------------------------------------------------
LEMMA GateInitInv == GateInit => GateInv
<1> SUFFICES ASSUME GateInit PROVE GateInv
  OBVIOUS
<1>1. GateTypeInv
  BY FS_EmptySet DEF GateInit, GateTypeInv, HandlerPcs
<1>2. Cardinality(holding) <= GateSize
  BY GateAssumption, FS_EmptySet DEF GateInit
<1> QED BY <1>1, <1>2 DEF GateInit, GateInv

LEMMA GateStepInv == GateInv /\ [GateNext]_gateVars => GateInv'
<1> SUFFICES ASSUME GateInv, [GateNext]_gateVars PROVE GateInv'
  OBVIOUS
<1> USE DEF MovesTo
<1>1. ASSUME NEW h \in Handlers, StartPage(h) PROVE GateInv'
  <2>1. GateTypeInv' /\ Cardinality(holding') <= GateSize
    <3>1. /\ handler' = [handler EXCEPT ![h].pc = "awaiting"]
          /\ holding' = holding \cup {Fetch(h, 0)}
          /\ fetching' = fetching \cup {Fetch(h, 1)}
      BY <1>1 DEF StartPage
    <3>2. IsFiniteSet(holding') /\ Cardinality(holding') <= GateSize
      BY <1>1, <3>1, RoomAtGate DEF StartPage
    <3> QED BY <3>1, <3>2 DEF GateInv, GateTypeInv, HandlerPcs, Fetch
  <2>2. ASSUME NEW f \in fetching' PROVE Covered(f)'
    BY <1>1 DEF StartPage, GateInv, GateTypeInv, Covered, Fetch, Batch
  <2> QED BY <2>1, <2>2 DEF GateInv
<1>2. ASSUME NEW h \in Handlers, AnswerPageFetch(h) PROVE GateInv'
  <2>1. GateTypeInv' /\ Cardinality(holding') <= GateSize
    BY <1>2, PermitGivenBack DEF AnswerPageFetch, GateInv, GateTypeInv, HandlerPcs
  <2>2. ASSUME NEW f \in fetching' PROVE Covered(f)'
    <3>1. f \in fetching /\ f.by # h
      BY <1>2 DEF AnswerPageFetch, Running
    <3> QED BY <1>2, <3>1 DEF AnswerPageFetch, GateInv, GateTypeInv, Covered, Fetch, Batch
  <2> QED BY <2>1, <2>2 DEF GateInv
<1>3. ASSUME NEW h \in Handlers, StartBatchPage(h) PROVE GateInv'
  <2> DEFINE g == Fetch(h, handler[h].spawned + 1)
  <2>1. /\ handler' = [handler EXCEPT ![h].spawned = @ + 1]
        /\ holding' = holding \cup {g}
        /\ fetching' = fetching \cup {g}
        /\ handler[h].pc = "new"
    BY <1>3 DEF StartBatchPage
  <2>2. g \in [by : Handlers, n : Nat \ {0}] /\ g.by = h
    BY DEF GateInv, GateTypeInv, Fetch
  <2>3. GateTypeInv' /\ Cardinality(holding') <= GateSize
    <3>1. IsFiniteSet(holding') /\ Cardinality(holding') <= GateSize
      BY <1>3, <2>1, RoomAtGate DEF StartBatchPage
    <3> HIDE DEF g
    <3> QED BY <2>1, <2>2, <3>1 DEF GateInv, GateTypeInv, HandlerPcs
  <2>4. ASSUME NEW f \in fetching' PROVE Covered(f)'
    <3> HIDE DEF g
    <3> QED BY <2>1, <2>2 DEF GateInv, GateTypeInv, Covered, Batch
  <2> QED BY <2>3, <2>4 DEF GateInv
<1>4. ASSUME NEW h \in Handlers, Collect(h) \/ ShutDown(h) PROVE GateInv'
  <2>1. GateTypeInv' /\ Cardinality(holding') <= GateSize
    BY <1>4 DEF Collect, ShutDown, GateInv, GateTypeInv, HandlerPcs
  <2>2. ASSUME NEW f \in fetching' PROVE Covered(f)'
    BY <1>4 DEF Collect, ShutDown, Running, GateInv, GateTypeInv, Covered
  <2> QED BY <2>1, <2>2 DEF GateInv
<1>5. ASSUME NEW h \in Handlers, DropHandler(h) PROVE GateInv'
  <2>1. GateTypeInv' /\ Cardinality(holding') <= GateSize
    BY <1>5, PermitGivenBack DEF DropHandler, GateInv, GateTypeInv, HandlerPcs
  <2>2. ASSUME NEW f \in fetching' PROVE Covered(f)'
    BY <1>5 DEF DropHandler, GateInv, GateTypeInv, Covered, Fetch, Batch
  <2> QED BY <2>1, <2>2 DEF GateInv
<1>6. ASSUME NEW g \in fetching, NEW result \in {"done", "panic"}, FetchReturns(g, result) PROVE GateInv'
  <2>1. GateTypeInv' /\ Cardinality(holding') <= GateSize
    BY <1>6, PermitGivenBack DEF FetchReturns, GateInv, GateTypeInv, HandlerPcs
  <2>2. ASSUME NEW f \in fetching' PROVE Covered(f)'
    BY <1>6 DEF FetchReturns, GateInv, GateTypeInv, Covered, Fetch
  <2> QED BY <2>1, <2>2 DEF GateInv
<1>7. CASE UNCHANGED gateVars
  BY <1>7 DEF gateVars, GateInv, GateTypeInv, Covered
<1> QED BY <1>1, <1>2, <1>3, <1>4, <1>5, <1>6, <1>7 DEF GateNext

\* No more permits are out than the gate has, no batch leaves a fetch behind without one, however it
\* ends, and an answered handler has nothing running (tools/fetch.rs).
THEOREM GateHolds == GateSpec => []GateKept
<1>1. GateInv => GateKept
  BY DEF GateInv, Covered, GateKept
<1> QED BY <1>1, GateInitInv, GateStepInv, PTL DEF GateSpec

-----------------------------------------------------------------------------
(***************************************************************************)
(* Scavenger: the storage of the processes, for any number of processes and*)
(* any process numbers.                                                    *)
(***************************************************************************)
ScavengeSpec == ScavengeInit /\ [][ScavengeNext]_scavengeVars

ScanRecord ==
  [at : {"none", "scan", "probe", "delete"}, done : SUBSET Processes,
   dir : Processes \cup {"none"}, owner : Pids \cup {<<>>}]

ScavengeTypeInv ==
  /\ alive \in [Processes -> {"no", "yes", "dead"}]
  /\ pid \in [Processes -> Pids \cup {<<>>}]
  /\ files \in [Processes -> SUBSET {"tmp", "marker", "profile"}]
  /\ marked \in [Processes -> Pids \cup {<<>>}]
  /\ scan \in [Processes -> ScanRecord]

\* A marker that can be read holds the number of the owner, who has started.
MarkerTrue == \A d \in Processes : "marker" \in files[d] => alive[d] # "no" /\ marked[d] = pid[d]

\* A scavenger asks for the owner's number, and deletes only when the owner is dead for good.
ScanTrue(q) ==
  LET s == scan[q] IN
  /\ s.at \in {"probe", "delete"} => s.dir \in Processes
  /\ s.at = "probe" => alive[s.dir] # "no" /\ s.owner = pid[s.dir]
  /\ s.at = "delete" => alive[s.dir] = "dead"

ScavengeInv ==
  /\ ScavengeTypeInv
  /\ MarkerTrue
  /\ \A q \in Processes : ScanTrue(q)

-----------------------------------------------------------------------------
LEMMA ScavengeInitInv == ScavengeInit => ScavengeInv
  BY SMT DEF ScavengeInit, ScavengeInv, ScavengeTypeInv, MarkerTrue, ScanTrue, NoScan, ScanRecord

LEMMA ScavengeStepInv == ScavengeInv /\ [ScavengeNext]_scavengeVars => ScavengeInv'
<1> SUFFICES ASSUME ScavengeInv, [ScavengeNext]_scavengeVars
             PROVE  ScavengeInv'
  OBVIOUS
<1> USE DEF ScavengeInv, ScavengeTypeInv, MarkerTrue, ScanTrue, ScanRecord, NoScan
<1>1. ASSUME NEW p \in Processes, NEW n \in Pids, StartProcess(p, n)
      PROVE  ScavengeInv'
  BY <1>1, SMT DEF StartProcess
<1>2. ASSUME NEW p \in Processes, MakeStorage(p) \/ StopWorker(p)
      PROVE  ScavengeInv'
  BY <1>2, SMT DEF MakeStorage, StopWorker
<1>3. ASSUME NEW p \in Processes, StageMarker(p)
      PROVE  ScavengeInv'
  BY <1>3, SMT DEF StageMarker
<1>4. ASSUME NEW p \in Processes, PublishMarker(p)
      PROVE  ScavengeInv'
  BY <1>4, SMT DEF PublishMarker
<1>5. ASSUME NEW p \in Processes, WorkerWrites(p)
      PROVE  ScavengeInv'
  BY <1>5, SMT DEF WorkerWrites
<1>6. ASSUME NEW d \in Processes, RemoveFile(d)
      PROVE  ScavengeInv'
  BY <1>6, SMT DEF RemoveFile
<1>7. ASSUME NEW p \in Processes, ReleaseStorage(p)
      PROVE  ScavengeInv'
  BY <1>6, <1>7, SMT DEF ReleaseStorage
<1>8. ASSUME NEW p \in Processes, OwnerDies(p)
      PROVE  ScavengeInv'
  BY <1>8, SMT DEF OwnerDies
<1>9. ASSUME NEW p \in Processes, NEW d \in Processes, NextEntry(p, d),
             UNCHANGED <<alive, pid, files, marked>>
      PROVE  ScavengeInv'
  <2> DEFINE next == [at |-> "scan", done |-> scan[p].done \cup {d}, dir |-> "none", owner |-> <<>>]
  <2>1. scan[p].done \cup {d} \in SUBSET Processes
    OBVIOUS
  <2>2. next \in ScanRecord /\ next.at = "scan"
    BY <2>1
  <2>3. scan' = [scan EXCEPT ![p] = next]
    BY <1>9 DEF NextEntry
  <2> HIDE DEF next
  <2>4. QED
    BY <1>9, <2>2, <2>3
<1>10. ASSUME NEW p \in Processes, NEW d \in Processes, ReadMarker(p, d)
       PROVE  ScavengeInv'
  <2>1. CASE "marker" \in files[d]
    <3> DEFINE read == [at |-> "probe", done |-> scan[p].done, dir |-> d, owner |-> marked[d]]
    <3>1. read \in ScanRecord /\ read.at = "probe" /\ read.dir = d /\ read.owner = marked[d]
      <4>1. scan[p].done \in SUBSET Processes /\ marked[d] \in Pids \cup {<<>>}
        OBVIOUS
      <4>2. QED
        BY <4>1
    <3>2. scan' = [scan EXCEPT ![p] = read] /\ UNCHANGED <<alive, pid, storage, files, marked>>
      BY <1>10, <2>1 DEF ReadMarker
    <3> HIDE DEF read
    <3>3. scan' \in [Processes -> ScanRecord]
      BY <3>1, <3>2
    <3>4. \A q \in Processes : ScanTrue(q)'
      BY <2>1, <3>1, <3>2
    <3>5. QED
      BY <3>2, <3>3, <3>4
  <2>2. CASE "marker" \notin files[d]
    BY <1>9, <1>10, <2>2 DEF ReadMarker
  <2>3. QED
    BY <2>1, <2>2
<1>11. ASSUME NEW p \in Processes, Probe(p)
       PROVE  ScavengeInv'
  <2>1. CASE \E q \in Processes : alive[q] = "yes" /\ pid[q] = scan[p].owner
    BY <1>9, <1>11, <2>1 DEF Probe
  <2>2. CASE ~\E q \in Processes : alive[q] = "yes" /\ pid[q] = scan[p].owner
    <3>1. scan' = [scan EXCEPT ![p].at = "delete"] /\ UNCHANGED <<alive, pid, storage, files, marked>>
      BY <1>11, <2>2 DEF Probe
    <3>2. scan[p].dir \in Processes /\ alive[scan[p].dir] = "dead"
      BY <1>11, <2>2 DEF Probe
    <3>3. QED
      BY <3>1, <3>2
  <2>3. QED
    BY <2>1, <2>2
<1>12. ASSUME NEW p \in Processes, RemoveStale(p)
       PROVE  ScavengeInv'
  BY <1>6, <1>9, <1>12, SMT DEF RemoveStale
<1>13. CASE UNCHANGED scavengeVars
  BY <1>13 DEF scavengeVars
<1>14. QED
  BY <1>1, <1>2, <1>3, <1>4, <1>5, <1>7, <1>8, <1>10, <1>11, <1>12, <1>13 DEF ScavengeNext

\* No process ever sets out to delete the storage of a live one (write_owner_marker,
\* scavenge_stale_sessions): for any number of processes, and with the numbers of dead ones
\* given again.
THEOREM LiveStorageSafe == ScavengeSpec => []LiveStorageKept
<1>1. ScavengeInv => LiveStorageKept
  BY DEF ScavengeInv, ScavengeTypeInv, ScanTrue, LiveStorageKept
<1>2. QED
  BY <1>1, ScavengeInitInv, ScavengeStepInv, PTL DEF ScavengeSpec

-----------------------------------------------------------------------------
(***************************************************************************)
(* Together: a behaviour of Services                                       *)
(***************************************************************************)
LEMMA PartsStart ==
  ServicesInit => /\ CookieInit /\ WatchdogInit /\ McpInit /\ CommandInit /\ GateInit
                  /\ ExchangeInit /\ ScavengeInit
BY DEF ServicesInit

LEMMA PartsStep ==
  [ServicesNext]_servicesVars =>
    /\ [CookieNext]_cookieVars
    /\ [WatchdogNext]_watchdogVars
    /\ [McpNext]_mcpVars
    /\ [CommandNext]_cmdVars
    /\ [GateNext]_gateVars
    /\ [ExchangeNext]_exchangeVars
    /\ [ScavengeNext]_scavengeVars
<1>1. SUFFICES ASSUME [ServicesNext]_servicesVars
               PROVE  /\ [CookieNext]_cookieVars
                      /\ [WatchdogNext]_watchdogVars
                      /\ [McpNext]_mcpVars
                      /\ [CommandNext]_cmdVars
                      /\ [GateNext]_gateVars
                      /\ [ExchangeNext]_exchangeVars
                      /\ [ScavengeNext]_scavengeVars
  OBVIOUS
<1>2. CASE UNCHANGED servicesVars
  BY <1>2 DEF servicesVars
<1>3. CASE ServicesStep
  BY <1>3 DEF ServicesStep
<1> QED BY <1>1, <1>2, <1>3 DEF ServicesNext

\* A behaviour of the services is a behaviour of each of them.
LEMMA PartsBehave ==
  ServicesSpec => /\ CookieSpec /\ WatchdogSpec /\ McpSpec /\ CommandSpec /\ GateSpec
                  /\ ExchangeSpec /\ ScavengeSpec
BY PartsStart, PartsStep, PTL
   DEF ServicesSpec, CookieSpec, WatchdogSpec, McpSpec, CommandSpec, GateSpec, ExchangeSpec,
       ScavengeSpec

\* At the command line, no URL of a batch or a crawl is lost between the engine and the caller
\* (commands/fetch.rs, commands/crawl.rs).  In MCP (mcp/server.rs, mcp/output.rs), none is missing from
\* a result, and what is answered instead of one has one of three reasons: a cancellation, a crawl
\* that failed, or an error of one URL that labeled_results returns for all of them.
THEOREM UrlsAccounted == ServicesSpec => []EveryUrlAccounted
<1>1. BatchAccounted /\ AnswerAccounts => EveryUrlAccounted
  BY DEF EveryUrlAccounted
<1> QED BY <1>1, PartsBehave, BatchesAccount, AnswersAccount, PTL

\* What is proved of each part holds while the services run together.
THEOREM ServicesHold ==
  ServicesSpec => [](/\ NoWorkerLeft /\ CallerMistakeNamed /\ JarSurvives
                     /\ IdleCoversPages /\ GateKept /\ LiveStorageKept)
BY PartsBehave, NoWorkerSurvives, MistakesNamed, JarHolds, WatchdogHolds, GateHolds, LiveStorageSafe, PTL

=============================================================================
