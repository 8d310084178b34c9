------------------------------- MODULE McpCalls -------------------------------
(***************************************************************************)
(* One call of an MCP tool (mcp/server.rs): its arguments, its sessions,   *)
(* and the answer, which mcp/output.rs keeps within a size.  Texts count   *)
(* by their sizes.                                                         *)
(***************************************************************************)
EXTENDS McpSessions, SequencesExt

CONSTANTS
  Calls,            \* [tool, good, items]
  TextSizes,        \* sizes a text can have
  AnswerLimit,      \* the limit of an answer, in the same unit
  AnswerFrame, SummarySize

\* An answer has room for the line that says what was left out.
ASSUME AnswerAssumption ==
  /\ TextSizes \subseteq Nat /\ {AnswerLimit, AnswerFrame, SummarySize} \subseteq Nat
  /\ AnswerFrame + SummarySize <= AnswerLimit

VARIABLES
  call, mcpPc,      \* the call, and where it is
  mcpAnswer,
  labeled           \* history: what became of each URL of a batch, each page of a crawl

mcpVars == <<call, mcpPc, mcpAnswer, labeled, jobVars>>

NoReply == [kind |-> "none", size |-> 0, shown |-> 0, omitted |-> 0]

McpInit ==
  /\ call = [tool |-> "none", good |-> FALSE, items |-> 0]
  /\ mcpPc = "idle" /\ mcpAnswer = NoReply /\ labeled = <<>>
  /\ JobsInit

Total(sizes) == FoldLeft(+, 0, sizes)

-----------------------------------------------------------------------------
(***************************************************************************)
(* TextOutput: blocks of text in a list, with commas between them.         *)
(***************************************************************************)
SizeOf(blocks) ==
  AnswerFrame + Total(blocks) + (IF blocks = <<>> THEN 0 ELSE Len(blocks) - 1)

Fits(blocks, size) == AnswerFrame + Total(blocks) + size + Len(blocks) <= AnswerLimit

Push(out, size) ==
  IF Fits(out.blocks, size) THEN [out EXCEPT !.blocks = Append(@, size)]
  ELSE [out EXCEPT !.omitted = @ + 1]

\* Mutant: a block that makes room is not counted among the omitted.
FinishUncounted(out) ==
  LET keeps == {k \in 0..Len(out.blocks) : Fits(SubSeq(out.blocks, 1, k), SummarySize)}
      k == CHOOSE k \in keeps : \A l \in keeps : l <= k
      kept == SubSeq(out.blocks, 1, k)
  IN IF out.omitted = 0
       THEN [kind |-> "result", size |-> SizeOf(out.blocks), shown |-> Len(out.blocks), omitted |-> 0]
       ELSE [kind |-> "result", size |-> SizeOf(Append(kept, SummarySize)), shown |-> k,
             omitted |-> out.omitted]

\* finish: room is made for the line that says how many blocks were left out.
Finish(out) ==
  LET keeps == {k \in 0..Len(out.blocks) : Fits(SubSeq(out.blocks, 1, k), SummarySize)}
      k == CHOOSE k \in keeps : \A l \in keeps : l <= k
      kept == SubSeq(out.blocks, 1, k)
  IN IF out.omitted = 0
       THEN [kind |-> "result", size |-> SizeOf(out.blocks), shown |-> Len(out.blocks), omitted |-> 0]
       ELSE [kind |-> "result", size |-> SizeOf(Append(kept, SummarySize)), shown |-> k,
             omitted |-> out.omitted + Len(out.blocks) - k]

TextAnswer(sizes) == Finish(FoldLeft(Push, [blocks |-> <<>>, omitted |-> 0], sizes))

\* The longest beginning of lines that leaves room for more.
Longest(lines, room) ==
  LET keeps == {k \in 0..Len(lines) : Total(SubSeq(lines, 1, k)) + room <= AnswerLimit}
  IN SubSeq(lines, 1, CHOOSE k \in keeps : \A l \in keeps : l <= k)

KeepFitting(kept, size) ==
  IF Total(kept) + size <= AnswerLimit THEN Append(kept, size) ELSE kept

\* map_text: every line that still fits; javascript_text: the first ones, up to one that does not.
Kept(lines, stops) ==
  IF stops THEN Longest(lines, 0) ELSE FoldLeft(KeepFitting, <<>>, lines)

LinesAnswer(lines, stops) ==
  LET kept == Kept(lines, stops)
      cut == Longest(kept, SummarySize)
  IN IF Len(kept) = Len(lines)
       THEN [kind |-> "result", size |-> Total(kept), shown |-> Len(kept), omitted |-> 0]
       ELSE [kind |-> "result", size |-> Total(cut) + SummarySize, shown |-> Len(cut),
             omitted |-> Len(lines) - Len(cut)]

-----------------------------------------------------------------------------
(***************************************************************************)
(* The call.                                                               *)
(***************************************************************************)
JobCount(c) == CASE c.tool = "batch" -> c.items [] c.tool = "map" -> 0 [] OTHER -> 1

ASSUME CallsAssumption ==
  /\ Jobs \subseteq Nat \ {0}
  /\ \A c \in Calls : c.items \in Nat /\ (c.good => 1..JobCount(c) \subseteq Jobs)

\* run_*: arguments are decoded, and looked at in full, before a session is asked for.
CallTool(c) ==
  /\ mcpPc = "idle" /\ c.good
  /\ call' = c /\ mcpPc' = "run"
  /\ job' = [j \in Jobs |-> IF j <= JobCount(c) THEN [NoJob EXCEPT !.pc = "queued"] ELSE NoJob]
  /\ UNCHANGED <<mcpAnswer, labeled, token, outcomes>>

RefuseCall(c) ==
  /\ mcpPc = "idle" /\ ~c.good
  /\ call' = c /\ mcpPc' = "answered"
  /\ mcpAnswer' = [NoReply EXCEPT !.kind = "toolError"]
  /\ UNCHANGED <<labeled, jobVars>>

-----------------------------------------------------------------------------
(***************************************************************************)
(* The answer.                                                             *)
(***************************************************************************)
AllDone == \A j \in Jobs : job[j].pc \in {"none", "done"}

ReplyWith(answer, items) ==
  /\ mcpPc' = "answered" /\ mcpAnswer' = answer /\ labeled' = items
  /\ UNCHANGED <<call, jobVars>>

AnswerWith(answer) == ReplyWith(answer, labeled)

\* complete_tool_call
ErrorAnswer(class) == [NoReply EXCEPT !.kind = IF class = "internal" THEN "internalError" ELSE "toolError"]

Cancelled == [NoReply EXCEPT !.kind = "cancelled"]

\* labeled_results: an error of the operation is a block like a text; the first other one is all
\* that is answered.
Labeled(items, sizes) ==
  LET bad == SelectInSeq(items, LAMBDA o : o \in {"input", "internal"})
  IN IF bad # 0 THEN ErrorAnswer(items[bad]) ELSE TextAnswer(sizes)

SizesOf(n) == [1..n -> TextSizes]

AnswerCancelled ==
  /\ mcpPc = "run" /\ AllDone /\ "cancelled" \in ToSet(outcomes)
  /\ AnswerWith(Cancelled)

Completed(tool) ==
  /\ mcpPc = "run" /\ AllDone /\ "cancelled" \notin ToSet(outcomes)
  /\ call.tool = tool

\* page_text: a page that was fetched may still fail to be written out.
TextOutcomes(outcome) == IF outcome = "ok" THEN {"ok", "input", "internal"} ELSE {outcome}

AnswerBatch ==
  /\ Completed("batch")
  /\ \E items \in [1..Len(outcomes) -> {"ok"} \cup Errors], sizes \in SizesOf(Len(outcomes)) :
       /\ \A k \in 1..Len(outcomes) : items[k] \in TextOutcomes(outcomes[k])
       /\ ReplyWith(Labeled(items, sizes), items)

\* The call's only job failed.
AnswerFailure ==
  /\ call.tool # "batch" /\ Completed(call.tool) /\ outcomes # <<>> /\ outcomes # <<"ok">>
  /\ AnswerWith(ErrorAnswer(outcomes[1]))

\* The pages of a crawl, each a text or an error of its own; one that the wire has no name for is
\* internal.
AnswerCrawl ==
  /\ Completed("crawl") /\ outcomes = <<"ok">>
  /\ \E n \in 0..call.items : \E items \in [1..n -> {"ok"} \cup Errors], sizes \in SizesOf(n) :
       ReplyWith(Labeled(items, sizes), items)

AnswerScript ==
  /\ Completed("evaluate") /\ outcomes = <<"ok">>
  /\ \E n \in 0..call.items : \E lines \in SizesOf(n) : AnswerWith(LinesAnswer(lines, TRUE))

\* The selector is looked at, the page written out, the screenshot taken from it and measured,
\* only now.
AnswerPage ==
  /\ Completed("fetch") /\ outcomes = <<"ok">>
  /\ \/ \E size \in TextSizes : AnswerWith(TextAnswer(<<size>>))
     \/ \E class \in Errors : AnswerWith(ErrorAnswer(class))

\* run_map needs no session and is dropped where it stands.
AnswerMap ==
  /\ mcpPc = "run" /\ call.tool = "map"
  /\ IF token THEN AnswerWith(Cancelled)
     ELSE \/ \E n \in 0..call.items : \E lines \in SizesOf(n) : AnswerWith(LinesAnswer(lines, FALSE))
          \/ \E class \in {"input", "internal"} : AnswerWith(ErrorAnswer(class))

McpNext ==
  \/ \E c \in Calls : CallTool(c) \/ RefuseCall(c)
  \/ AnswerCancelled \/ AnswerBatch \/ AnswerFailure \/ AnswerCrawl \/ AnswerScript \/ AnswerPage
  \/ AnswerMap
  \/ /\ mcpPc = "run"
     /\ ClientCancels \/ \E j \in Jobs : JobStep(j)
     /\ UNCHANGED <<call, mcpPc, mcpAnswer, labeled>>
  \/ /\ mcpPc = "answered"
     /\ \E j \in Jobs : WorkerEnds(j)
     /\ UNCHANGED <<call, mcpPc, mcpAnswer, labeled>>

McpDone == mcpPc = "answered" /\ \A j \in Jobs : job[j].worker # "ending"

-----------------------------------------------------------------------------
(***************************************************************************)
(* Properties                                                              *)
(***************************************************************************)
\* What the answer to a batch or to a crawl owes its URLs: a result has a block for each of them or
\* counts it among those it says it left out; there is no other answer unless the client cancelled,
\* the crawl itself failed, or the error of one URL was not one of its operation.  That error is
\* then answered for all of them, and the pages fetched meanwhile are dropped (labeled_results).
UrlsAnswered(reply, items) ==
  CASE reply.kind = "result" ->
         /\ reply.shown + reply.omitted = Len(items)
         /\ call.tool = "batch" => Len(items) = call.items
         /\ \A k \in 1..Len(items) : items[k] \in {"ok", "operation"}
    [] reply.kind = "cancelled" -> token
    [] OTHER ->
         \/ call.tool = "crawl" /\ outcomes # <<"ok">>
         \/ \E k \in 1..Len(items) : items[k] \in {"input", "internal"}

\* An answer with a result keeps to its size, and no URL of a batch or page of a crawl is missing
\* from it; any other answer to them has a reason.
AnswerAccounts ==
  mcpPc = "answered" =>
    /\ mcpAnswer.kind = "result" => mcpAnswer.size <= AnswerLimit
    /\ call.good /\ call.tool \in {"batch", "crawl"} => UrlsAnswered(mcpAnswer, labeled)

\* "Failed URLs are reported inline without aborting the batch." (mcp/server.rs:143): a batch whose
\* arguments were accepted and that nobody cancelled is answered with a result.
FailedUrlsInline ==
  mcpPc = "answered" /\ call.tool = "batch" /\ call.good /\ ~token => mcpAnswer.kind = "result"
=============================================================================
