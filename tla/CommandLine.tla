----------------------------- MODULE CommandLine -----------------------------
(***************************************************************************)
(* The commands fetch and crawl: what a command line asks for, the batch   *)
(* of fetches under a semaphore, the output that may break on the way, and *)
(* the exit code in which all failures end (commands/fetch.rs,             *)
(* commands/crawl.rs, output.rs, exit.rs).                                 *)
(***************************************************************************)
EXTENDS Naturals, Sequences, FiniteSets

CONSTANTS
  CommandLines,    \* command lines that clap lets through
  FetchErrors,     \* kinds of errors a fetch can end with
  FetchPermits     \* fetches of a batch at a time

Formats == {"none", "markdown", "json", "html", "text", "png"}
Sinks == {"stdout", "dash", "file", "dir"}

\* FetchArgs and CrawlArgs: a crawl knows two formats, and neither a script nor a schema.
ASSUME CommandAssumption ==
  /\ CommandLines \subseteq
       [command : {"fetch", "crawl"}, urls : Nat, format : Formats, js : BOOLEAN, schema : BOOLEAN,
        selector : BOOLEAN, fullPage : BOOLEAN, jar : BOOLEAN, sink : Sinks]
  /\ \A c \in CommandLines : c.command = "crawl" =>
       c.format \in {"none", "markdown", "json"} /\ ~c.js /\ ~c.schema

VARIABLES
  cmd, cmdPc,
  fetches,     \* [Items -> state of its task]
  mailed,      \* the channel from the tasks to the receiver
  failure,     \* the category of an item's failure, counted by Failures
  shown,       \* items whose output was written
  trouble,     \* why output stopped
  exitCode

cmdVars == <<cmd, cmdPc, fetches, mailed, failure, shown, trouble, exitCode>>

Items == 1..cmd.urls

-----------------------------------------------------------------------------
(***************************************************************************)
(* exit.rs                                                                 *)
(***************************************************************************)
Precedence ==
  <<"usage", "data", "noInput", "unavailable", "software", "io", "tempFail", "unknown">>

Categories == {Precedence[i] : i \in 1..Len(Precedence)}

CodeOf == [usage |-> 64, data |-> 65, noInput |-> 66, unavailable |-> 69, software |-> 70,
           io |-> 74, tempFail |-> 75, unknown |-> 1]

\* classify_fetch_error
CategoryOf(error) ==
  CASE error \in {"url", "glob", "header", "config", "unsupported"} -> "usage"
    [] error \in {"schemaIo", "io"} -> "io"
    [] error = "schema" -> "data"
    [] error = "cookies" -> "noInput"
    [] error = "address" -> "unavailable"
    [] error \in {"engine", "javascript", "screenshot", "extract", "tooLarge", "worker"} -> "software"
    [] error \in {"timeout", "cancelled", "protocolTimeout", "acquireTimeout", "brokerFull"} -> "tempFail"
    [] OTHER -> "unknown"

\* The category that names them all.
Worst(categories) ==
  Precedence[CHOOSE i \in 1..Len(Precedence) :
    Precedence[i] \in categories /\ \A j \in 1..(i - 1) : Precedence[j] \notin categories]

Failing == {i \in Items : failure[i] # "none"}
Failed == {failure[i] : i \in Failing}

\* finalize_multi_item_result and exit_code
Finalize(output, failed) ==
  IF output \in {"none", "pipe"} THEN IF failed = {} THEN 0 ELSE CodeOf[Worst(failed)]
  ELSE CodeOf[output]

-----------------------------------------------------------------------------
(***************************************************************************)
(* What is asked for.                                                      *)
(***************************************************************************)
Raw(c) == c.format \in {"html", "text"}

\* FetchArgs: what clap lets stand together; a format may not be given ("none").
ClapAccepts(c) ==
  /\ c.js => c.format = "none"
  /\ c.schema => ~c.js /\ ~c.selector /\ c.format = "none"
  /\ c.jar => c.urls > 0

FormatOf(c) == IF c.format = "none" THEN "markdown" ELSE c.format

\* validate_args
ValidArguments(c) ==
  /\ c.urls > 0
  /\ c.jar => c.urls = 1
  /\ c.selector => ~Raw(c) /\ c.format # "png"
  /\ c.format = "png" => c.urls = 1 /\ c.sink # "dir"
  /\ c.fullPage => c.format = "png"
  /\ c.urls > 1 => c.sink \notin {"file", "dash"} /\ ~c.js /\ ~Raw(c)

\* dispatch_output and batch_emit; a batch has no arm for the rest.
OutputOf(c) ==
  CASE c.command = "crawl" -> FormatOf(c)
    [] c.js -> "js"
    [] c.schema -> "schema"
    [] c.urls > 1 /\ FormatOf(c) \in {"html", "text", "png"} -> "unreachable"
    [] OTHER -> FormatOf(c)

\* How output can go wrong: the page has no such content, or it cannot be written.
Troubles(c) ==
  LET output == OutputOf(c)
      unrendered == IF output \in {"markdown", "json"} /\ c.command = "fetch" THEN {"software"}
                    ELSE IF output = "png" THEN {"unknown"} ELSE {}
  IN unrendered \cup {"io"} \cup (IF c.sink \in {"stdout", "dash"} THEN {"pipe"} ELSE {})

-----------------------------------------------------------------------------
CommandInit ==
  /\ cmd = [command |-> "none", urls |-> 0]
  /\ cmdPc = "start" /\ fetches = <<>> /\ mailed = <<>> /\ failure = <<>>
  /\ shown = {} /\ trouble = "none" /\ exitCode = 0

ClapCode == 2

Exits(code) == cmdPc' = "exited" /\ exitCode' = code

\* Nothing is fetched for a command line that is refused, for a file that cannot be read, or for a
\* directory that cannot be made.
RefuseCommand(c) ==
  /\ cmdPc = "start"
  /\ cmd' = c /\ fetches' = [i \in 1..c.urls |-> "unasked"]
  /\ failure' = [i \in 1..c.urls |-> "none"]
  /\ IF c.command = "fetch" /\ ~ClapAccepts(c) THEN Exits(ClapCode)
     ELSE IF c.command = "fetch" /\ ~ValidArguments(c) THEN Exits(CodeOf["unknown"])
     ELSE \E error \in {"schema", "schemaIo", "cookies", "header", "io"} :
            /\ error \in {"schema", "schemaIo"} => c.schema
            /\ error = "io" => c.sink \in {"file", "dir"}
            /\ Exits(CodeOf[CategoryOf(error)])
  /\ UNCHANGED <<mailed, shown, trouble>>

Begin(c) ==
  /\ cmdPc = "start" /\ (c.command = "fetch" => ClapAccepts(c) /\ ValidArguments(c))
  /\ cmd' = c /\ fetches' = [i \in 1..c.urls |-> "unasked"]
  /\ failure' = [i \in 1..c.urls |-> "none"]
  /\ cmdPc' = IF c.command = "crawl" THEN "crawl" ELSE IF c.urls = 1 THEN "single" ELSE "batch"
  /\ UNCHANGED <<mailed, shown, trouble, exitCode>>

\* batch_emit, emit_json, emit_markdown: nothing is written after the first trouble.
Emit(i) ==
  IF trouble # "none" THEN UNCHANGED <<shown, trouble>>
  ELSE \/ shown' = shown \cup {i} /\ UNCHANGED trouble
       \/ trouble' \in Troubles(cmd) /\ UNCHANGED shown

Record(i, error) == failure' = [failure EXCEPT ![i] = CategoryOf(error)]

-----------------------------------------------------------------------------
(***************************************************************************)
(* run_single                                                              *)
(***************************************************************************)
FetchSingle ==
  /\ cmdPc = "single"
  /\ \/ Emit(1) /\ Exits(Finalize(trouble', {})) /\ fetches' = [fetches EXCEPT ![1] = "fetched"]
     \/ \E error \in FetchErrors :
          /\ Exits(CodeOf[CategoryOf(error)]) /\ fetches' = [fetches EXCEPT ![1] = "failed"]
          /\ UNCHANGED <<shown, trouble>>
  /\ UNCHANGED <<cmd, mailed, failure>>

-----------------------------------------------------------------------------
(***************************************************************************)
(* run_batch: permits are taken in order, before a task is spawned, and    *)
(* given back when it has mailed its result; results are received only     *)
(* when all tasks are spawned.                                             *)
(***************************************************************************)
HoldPermits == {i \in Items : fetches[i] \in {"fetching", "mailing"}}
AllSpawned == \A i \in Items : fetches[i] # "unasked"

SpawnFetch(i) ==
  /\ cmdPc = "batch" /\ fetches[i] = "unasked" /\ \A j \in 1..(i - 1) : fetches[j] # "unasked"
  /\ Cardinality(HoldPermits) < FetchPermits
  /\ fetches' = [fetches EXCEPT ![i] = "fetching"]
  /\ UNCHANGED <<cmd, cmdPc, mailed, failure, shown, trouble, exitCode>>

FetchMails(i, result) ==
  /\ cmdPc = "batch" /\ fetches[i] = "fetching" /\ Len(mailed) < cmd.urls
  /\ fetches' = [fetches EXCEPT ![i] = "mailing"]
  /\ mailed' = Append(mailed, [item |-> i, result |-> result])
  /\ UNCHANGED <<cmd, cmdPc, failure, shown, trouble, exitCode>>

DropPermit(i) ==
  /\ cmdPc = "batch" /\ fetches[i] = "mailing"
  /\ fetches' = [fetches EXCEPT ![i] = "mailed"]
  /\ UNCHANGED <<cmd, cmdPc, mailed, failure, shown, trouble, exitCode>>

ReceiveFetch ==
  /\ cmdPc = "batch" /\ AllSpawned /\ mailed # <<>>
  /\ mailed' = Tail(mailed)
  /\ LET mail == Head(mailed) IN
       IF mail.result = "ok" THEN Emit(mail.item) /\ UNCHANGED failure
       ELSE Record(mail.item, mail.result) /\ UNCHANGED <<shown, trouble>>
  /\ UNCHANGED <<cmd, cmdPc, fetches, exitCode>>

\* The channel ends when every task has dropped its sender.
FinishBatch ==
  /\ cmdPc = "batch" /\ mailed = <<>> /\ \A i \in Items : fetches[i] = "mailed"
  /\ Exits(Finalize(trouble, Failed))
  /\ UNCHANGED <<cmd, fetches, mailed, failure, shown, trouble>>

-----------------------------------------------------------------------------
(***************************************************************************)
(* The crawl command: pages come through a callback, errors are lines of   *)
(* JSON output and nothing in Markdown; the run fails if every page did.   *)
(***************************************************************************)
CrawlReports(i, result) ==
  /\ cmdPc = "crawl" /\ fetches[i] = "unasked" /\ \A j \in 1..(i - 1) : fetches[j] # "unasked"
  /\ IF result = "ok" THEN /\ UNCHANGED failure /\ Emit(i)
                           /\ fetches' = [fetches EXCEPT ![i] = "fetched"]
     ELSE /\ Record(i, result) /\ fetches' = [fetches EXCEPT ![i] = "failed"]
          /\ IF cmd.format = "json" THEN Emit(i) ELSE UNCHANGED <<shown, trouble>>
  /\ UNCHANGED <<cmd, cmdPc, mailed, exitCode>>

CrawlFails(error) ==
  /\ cmdPc = "crawl"
  /\ Exits(CodeOf[CategoryOf(error)])
  /\ UNCHANGED <<cmd, fetches, mailed, failure, shown, trouble>>

\* The statistics are written in JSON only, even where output broke before.
FinishCrawl ==
  LET completed == {i \in Items : fetches[i] # "unasked"}
      stats == IF cmd.format = "json" THEN {"none", "io", "pipe"} ELSE {"none"}
      failed == IF completed # {} /\ Failing = completed THEN Failed ELSE {}
  IN /\ cmdPc = "crawl"
     /\ trouble' \in IF trouble = "none" THEN stats ELSE {trouble}
     /\ Exits(Finalize(trouble', failed))
     /\ UNCHANGED <<cmd, fetches, mailed, failure, shown>>

CommandNext ==
  \/ \E c \in CommandLines : Begin(c) \/ RefuseCommand(c)
  \/ FetchSingle
  \/ \E i \in Items :
       \/ SpawnFetch(i) \/ DropPermit(i)
       \/ \E result \in FetchErrors \cup {"ok"} : FetchMails(i, result) \/ CrawlReports(i, result)
  \/ ReceiveFetch \/ FinishBatch
  \/ \E error \in FetchErrors : CrawlFails(error)
  \/ FinishCrawl

CommandDone == cmdPc = "exited"

-----------------------------------------------------------------------------
(***************************************************************************)
(* Properties                                                              *)
(***************************************************************************)
\* No batch reaches the output it has no arm for.  When a batch or a crawl has ended with exit code
\* 0, every URL it took up was written out, or the reader had gone; a batch then had no failure,
\* and a crawl not only failures.  What failed in a batch was never written out.
BatchAccounted ==
  /\ cmdPc = "batch" => OutputOf(cmd) # "unreachable" /\ shown \cap Failing = {}
  /\ cmdPc = "exited" /\ exitCode = 0 =>
       LET asked == {i \in Items : fetches[i] # "unasked"} IN
       /\ cmd.command = "fetch" => asked = Items /\ Failing = {}
       /\ Failing = asked => asked = {}
       /\ OutputOf(cmd) # "markdown" \/ Failing = {} => asked = shown \/ trouble = "pipe"
=============================================================================
