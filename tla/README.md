# servo-fetch: specifications, model checking and proofs

servo-fetch fetches, renders, extracts, crawls and maps web pages with an embedded Servo engine. The engine is
one-per-process and may hang or crash, so every *browser session* runs it in a separate **worker process** under a
**supervisor thread**; a **broker** bounds how many exist. The command line, the JSON-RPC server (behind the Node and
Python bindings), the MCP server and the HTTP server are all clients of that core.

This directory holds TLA+ modules translated from the source, TLC runs, and TLAPS proofs.
`PROJECT.json` lists components, runs, mutants, the map from definitions to source lines, hazards and theorems.
Paths below are relative to `crates/servo-fetch/src/` unless they start with another top-level directory.

## 1. Inventory

| Component | Code | State | Operations | What is hard | What makes it correct |
|---|---|---|---|---|---|
| Session supervisor | `session/supervisor.rs`, `session/supervisor/{kill,process_tree}.rs` | thread position, kill authority, child, lifeline, reader thread, frame slot, lifecycle/command/reply/bootstrap/terminal channels, storage directory, permit | spawn, hello, initialize, fetch, crawl, cookies, shutdown, force, cleanup, drop | cancels from any thread against a thread that may be launching, blocked in a pipe, cleaning up or gone; process-group kill against reaping; failed kills and failed deletions | no kill after the reap; permit and storage outlive the worker; every loss of the handle frees the capacity; terminal errors only after cleanup; every command is answered |
| Browser session handle | `session.rs` | open handle or none, operation guard | fetch, crawl, cookies, close, force_close, cancel, drop | a future dropped while its command runs | a dropped or cancelled operation ends the worker |
| Session broker, cancellation | `session.rs` | session and queue semaphores, prewarmed stack, cancel flag, published force port | acquire, prewarm, cancel, attach, guard drop | timer/grant/cancel races; a blocking start task that cannot be stopped | capacity conserved; queue bounded; a cancel is never lost |
| Stale session scavenger | `session/scavenge.rs` | owner markers in the session directories of all processes | mark, scan, probe, delete | other processes starting, marking or dying meanwhile; process numbers given again | never deletes the directory of a live owner |
| Worker protocol | `worker/protocol.rs`, `worker/wire.rs` | initialised?, frames on stdin/stdout, progress counters, watchdogs | hello, initialize, fetch, crawl, cookies, shutdown | exactly one initialization; partial results; watchdog arithmetic | order of frames; a legal exchange is never refused; watchdog outlasts the work it watches |
| Engine loop | `bridge.rs` | request queue, wake flag, pending pages with deadlines | request, spin, collect, time out | wake-ups lost between check and wait; re-entrant event loop | every accepted request is answered; none twice |
| Crawl | `crawl.rs`, `scope.rs` | frontier, seen set, in-flight set, counters | seed, spawn, complete, enqueue, shut down | out-of-order completion, redirects onto seen pages, several limits at once | no page reported twice; limit, depth, scope and concurrency respected; ends |
| Site map discovery | `map.rs` | sitemap queue, budgets, collected URLs | traverse index, validate entry, fall back to links | nested and self-referencing sitemaps, budgets | terminates within budget; no duplicates; order kept |
| Robots rules | `robots.rs` | parsed groups | parse, is_allowed | group selection, longest match, wildcards | the longest matching rule decides; the rules are those of RFC 9309 (they are not always, section 3) |
| Fetch, network policy | `fetch.rs`, `net.rs`, `headers.rs` | options | check, build, fetch | the same check at several places, on both sides of the wire | what one side lets through the other does not refuse |
| Cookies | `cookies.rs` | the cookie file, the browser's cookies | load, seed, capture, save | two invocations over one file; failure between write and rename; scope of host-only cookies | the file is always one whole jar; scope is kept |
| Extraction and rendering | `extract`, `screenshot`, `pdf`, layout modules | documents | transform | - | data transformation |
| JSON-RPC server | `crates/servo-fetch-cli/src/rpc.rs`, `rpc/dispatch.rs` | request registry, session slots, connection token | request, cancel, session open/call/close, drain | id reuse, cancel against completion, shutdown | each request is deregistered and answered exactly once |
| MCP server | `crates/servo-fetch-cli/src/mcp/executor.rs` | session of the call, cancellation token | run tool in session | cancellation in acquisition, operation or close | cancellation kills the worker tree and returns |
| HTTP server | `crates/servo-fetch-cli/src/serve.rs`, `tools/fetch.rs` | gate of concurrent fetches | handlers | a client goes away while its fetch runs on | batches leave no fetch behind; the permits keep to the gate |
| Command line | `crates/servo-fetch-cli/src/commands`, `exit.rs`, `output.rs` | batch, outputs, failures | fetch, crawl, write, exit | some pages fail, some outputs fail, the reader goes away | no failure is lost in the exit code, no page without one |
| Blocking API, wire types | `blocking.rs`, `crates/servo-fetch-types` | - | - | - | thin layers |
| Node binding | `bindings/node/src/rpc-client.ts`, `index.ts` | pending map, streams, child reference counts | call, stream, abort, close, dispose | child exit against pending calls | every promise settles |
| Python binding | `bindings/python` | - | wrappers | - | - |

How they interact: a caller asks the broker; the broker hands a permit (or a prewarmed worker) to a blocking task; the
task creates the supervisor thread, to which the permit and the storage directory *move*; the supervisor talks to the
worker over stdin/stdout pipes and the worker watches a third pipe, the *lifeline*, whose end of file means that the
parent let go. Cancellation takes another road: a `SessionCancellation` holds a clone of the supervisor's `ForcePort`,
and forcing is a coalesced message to the thread plus a kill of the process group by whoever calls it.

## 2. Modules

```
SessionLease  <--implements--  Supervisor  <--extends--  MCSupervisor, SupervisorProofs
     |  (what the broker assumes of a supervisor)
SessionPool   <--implements--  SessionBroker  <--extends--  MCBroker, BrokerProofs
     |  (what the sessions of an MCP call assume of the broker)
McpSessions   <--extends--  McpCalls  <--extends--  Services

SiteWalk      <--implements--  Crawl          <--extends--  MCCrawl, CrawlProofs
Engine        <--extends--     Worker         <--extends--  MCWorker, WorkerProofs
RpcServer     <--extends--     NodeClient     <--extends--  RpcSystem  <--extends--  MCRpc, RpcProofs
Robots        <--extends--     Discovery      <--extends--  Services

Services extends Discovery, CookieJar, Watchdog, McpCalls, CommandLine, FetchGate, Exchange, Scavenger
         and is extended by MCServices, by MapProofs (Discovery and Robots) and by
         ServicesProofs (the other seven)
FoldRules  is instantiated once per fold by MapProofs and ServicesProofs
```

### Sessions

**`Supervisor`** models one supervised session: the supervisor thread, the reader thread and its one-slot frame
channel, the worker process, the caller that owns the handle, and any number of cancelling threads. Each channel
operation, mutex section and system call is a step of its own.

* `spc` is the thread's position, in the order of the code: launching (`Precheck` to `Recheck`: `supervisor_thread`,
  `WorkerProcess::spawn`, `receive_protocol_info`), serving (`Poll` to `ExitObserved`: the command loop,
  `recv_response`, `recv_frame`, `write_request`), cleaning up (`Revoke` to `Release`: `cleanup`, `terminate_and_reap`,
  `SupervisorOwner::release`) and leaving (`Answer`, `Unwind`, `DropOwner`, `Return`: answering the command, then the
  two destructors in the order Rust runs them). `pass = 2` marks the second cleanup, the one `Drop` makes.
* `lifecycle`, `commands`, `replies`, `boot`, `terminal` are the channels; `authority` and `holder` are the kill
  authority's target and mutex; `child`, `owes`, `lifeline` are the worker; `pipe`, `reader`, `held`, `slot`,
  `framesOpen` the way of a frame from the worker's stdout to the thread; `events` and `sinks` the crawl's event channel.
* `cpc`, `fpc` are the positions of the caller and of every thread inside `ForcePort::force`.
* A frame is one of *done, error, event, bad, eof*: what its bytes say does not matter to any property here. The worker
  may answer, answer nonsense, stop answering, exit at any moment.
* A cookies command behaves as a fetch whose answer has one part, and is not a kind of its own.

**`SessionLease`** is what a supervisor promises the broker: storage before worker, worker before give-back, permit and
storage leave together, and a permit is written off exactly when its storage stays. `Supervisor!LeaseSpec` checks, and
the theorem `KeepsLease` proves, that `Supervisor` implements it.

**`SessionBroker`** models acquisition: the prewarmed stack, `try_acquire`, the queue slot, the biased select over
cancellation, permit and timer, the blocking start task, `SessionCancellation::{attach, cancel, cancelled}`, and
`AcquisitionGuard`. Each caller has one cancellation handle and may acquire one session after another with it. tokio's
semaphore is modelled as the FIFO it is: a released permit goes to the head waiter, and a waiter dropped after the
grant passes it on. A supervisor appears by its lease only (`Settle`), which is what `SessionLease` allows.

**`SessionPool`** is what the broker promises: at most `MaxSessions` sessions hold capacity, a prewarmed session stays
untouched until one caller takes it, and no session is ever in two hands, even one after the other. That the broker
implements it is checked (`PoolSpec`) and proved (`BrokerImplementsPool`).

**`Scavenger`** models `session/scavenge.rs` among processes of one machine. An owner makes its directory, stages its
number in a file of another name, publishes it by a rename, and deletes the directory in the end; each of these, and
each file a `remove_dir_all` takes away, is a step, and the owner may die between any two. Every process that makes a
broker starts by scanning: an entry is read, its number probed, its directory deleted, again step by step. A dead
process's number may be given to a new one. A number is its sequence of digits, so that a marker read while it is
written could be a shorter number that belongs to nobody.

### The worker and its engine

**`Engine`** models `bridge.rs`: `ENGINE`'s construction, the bounded queue (`queue`), the wake flag, and `EngineLoop`
(`epc`): draining the queue, spinning Servo's event loop, harvesting pages that are complete, and extracting one page
at a time, in stages whose nested spins take the wake flag and let pages load, crash and time out meanwhile. `page` is
a caller's `PendingFetch`, with what Servo has to tell but has not yet told (`news`); `agent` and `baseline` are the
process-wide user agent and the value it is put back to. Callers send and wait, or are dropped and leave their request
(`req`, `ans`). Of time only the deadlines show, as the steps that let a page be due or an extraction expire.

**`Worker`** puts that engine into a process: a worker, whose protocol thread (`mpc`, `wstate`) reads requests one at a
time, initialises once, and whose crawls fetch from several tasks; or the library in process, whose threads call when
they like. The parent's requests come in any order, also those it would not send.

**`Watchdog`** is the clock the other modules leave out: the deadline between two answers (`worker/wire.rs`) against the
time a crawl that keeps to every limit may take for the next one, waiting for robots.txt, for the ticks of its request
interval, for a page, or for the engine thread to extract the pages before it. Time passes only when nothing is due.

### Crawling and discovery

**`Crawl`** models `crawl::run`: the coordinator (`pc`: filling places, joining, draining), the frontier (`queue`,
`visited`, `hashes`), the fetches in flight, the count of results, and what the consumer has accepted (`events`). Nothing
is assumed of the site: what a page holds, which links it has and in what order, and whether it loads is chosen when its
fetch ends, so every site and every order of completion is covered. `Allowed` stands for the four filters on a link (same
site, network policy, robots.txt, globs), `Contents` for content hashes. A redirect needs nothing of its own: the target's
content is what counts. `visited` also carries the depth at which each page was found, which the code keeps in the queue.
Waiting for the rate limiter changes no state and is not a step.

**`SiteWalk`** is what the consumer of the events may rely on: every page set out for is answered exactly once before the
crawl completes, pages are found only on reported pages and one level deeper, within the room the limit leaves. That the
crawl implements it is checked (`WalkSpec`) and proved (`CrawlWalksSite`).

**`Robots`** is `robots.rs` as operators: the parser's groups, the group in force, the longest match with `*` and `$`,
the policy a status means. Beside them stand two references: a declarative reading of the decision, over the rules the
code takes (`LinesUnderAgent`, `RefAllowed`), and the rules RFC 9309 would take (`RfcLines`).

**`Discovery`** is `map.rs`: robots.txt, the queue of sitemaps with its budgets (sitemaps, depth, redirects, URLs), the
body with its compression and size, the parser over the stream of XML events, the filters on a URL, and the fallback
to the links of the seed page. Each request is answered by any answer of a small set.

### The surfaces

**`RpcServer`** models the JSON-RPC server: the loop that reads frames (`main`), one task per request (`tpc`, `req`,
`out`), the registry of cancellations, the table of sessions, each with a slot under a FIFO lock, progress lines, the
drain at the end of input. A cancellation drops a task's handler at whatever await it stands at. **`NodeClient`** is the
other end (`rpc-client.ts`, the `Session` class of `index.ts`): pending calls, streams and their buffers, aborts, the
child process that may die having written only some of its lines, and the next generation of it. **`RpcSystem`** composes
them; its `peer` is the Node client, or any client at all: ids used twice, frames that are no messages or too large,
an end that closes at any time.

**`McpSessions`** is `mcp/executor.rs`: the sessions of one tool call, each from acquisition to close, every step of
which races the client's cancellation (`Job` = position, awaited future, worker, handle). **`McpCalls`** adds the call
around them: arguments, the batch or crawl, what becomes of each of its pages (`labeled`, a history), and the answer
that is kept within its size (`mcp/output.rs`).

**`FetchGate`** is `tools/fetch.rs`: the gate of the fetches that the HTTP and JSON-RPC servers run in their own
process, on threads nobody can stop, under handlers that are dropped when a client goes away.

**`Exchange`** follows one request from surface to answer: the fields each operation has, the checks of the tool, of the
library, of the wire and of the worker in their order, the engine's outcome, and the answer as tool error, status or
code. A request is what is wrong with it (up to two flaws).

**`CookieJar`** is `cookies.rs` with the two commands that use it: parse, seed, capture, write to a temporary file, sync,
rename; the process or the machine may stop at any step.

**`CommandLine`** is `fetch` and `crawl` of the command line: validation, concurrent fetches, output in each form to each
sink, and the exit code in which failures end (`exit.rs`).

**`Services`** puts eight parts that share no state (`Discovery`, `CookieJar`, `Watchdog`, `McpCalls`, `CommandLine`,
`FetchGate`, `Exchange`, `Scavenger`) under one specification: `part` names, in the first state and for ever, the part
whose behaviour it is, and the others keep their initial states. It adds nothing to any of them.

## 3. Runs

| Run | Question | States | Bounds |
|---|---|---|---|
| `supervisor_safety` | Do kills hit only the worker, does capacity outlive worker and storage, are terminal errors reported only after cleanup, is the lease kept, does every force settle the permit? | 940 k | two commands, one canceller beside the caller, one failing deletion |
| `supervisor_answers` | Does every way to lose the handle settle the permit, is every command answered, and does the worker end even when killing it fails? | 770 k | two commands, no canceller, two failed kills |
| `force_close_after_cancel` | Does `force_close` wait for cleanup when the session was cancelled first? (It does not.) | few | one command |
| `broker` | Is capacity conserved, the queue disciplined, no cancel lost, the pool's promise kept; does every acquisition end, and does a dropped one give back its capacity? | 200 k | two callers of whom one cancels (both may drop their futures, which cancels too), one permit, prewarmed, one queue place, three acquisitions, one permit written off |
| `crawl` | Does the crawl keep to its limit, report no content twice, keep the order when sequential, end, and implement `SiteWalk`? | 1.3 M | four pages in scope and one out of it, three contents, depth 2, plans: limit 0, limit 3 with two fetches, limit 4 with one |
| `crawl_duplicates` | Does a suppressed page cost a result? (It can.) | few | limit 3, one fetch at a time |
| `worker` | Does every page run in the session's engine under its user agent, does the queue never refuse a worker, does nothing run behind the protocol's back, does every call return? | 780 k | protocol thread and three crawl tasks, or the library's threads; queue of three, wire bound three, two requests, a crawl of three pages |
| `rpc` | Can a request id be confused or a cancellation miss, can an opening leave a session nobody can close, can a promise or a page be lost, is every request answered? | 550 k | Node client: three calls, two at work, two server processes; any client: two requests and its notes; one session, two progress lines |
| `services` | One question per part: see below | 700 k | per part |
| `robots_rfc` | Are the rules applied those of RFC 9309? (Not always.) | 8 k | as `services` |
| `mcp_batch` | Is an uncancelled batch of MCP always answered with its pages and failures inline? (It is not.) | 82 k | as `services` |
| `gate_bound` | Do no more fetches run than the gate has permits? (More may.) | 6 k | as `services` |

The last three, like the other two that end in a counterexample, check one property each: what a document says.

Bounds. `MaxOps` = 2 is enough because a command leaves no state behind but the reply and, for a crawl, the lingering
event receiver, and two commands let one meet the other's leftovers (initialization and one operation, so a third
command differs from the second in nothing). `PipeCap` = 1 makes the worker and the reader block. `MaxKillFaults` = 2
lets the cleanup and the destructor's retry both fail; `MaxRemoveFaults` counts *exhausted* retries (the code tries
three times per round). One canceller beside the caller lets two threads race in the kill's mutex, and lets a force come
before the worker exists: `SupervisorHandle::spawn` attaches the port to the cancellation before it starts the thread,
and the canceller here forces at any moment from then on, also between the two looks at the lifecycle channel. In the
broker there is one permit, which the prewarmed worker holds: the first of three calls takes that worker and ends its
session, and until the supervisor settles the lease the other two calls find no permit, so that one stands in the queue,
whose one place is then taken, and the other is refused (`SessionBrokerFull`); a caller may so use its handle twice.
`MaxRetained` = 1 loses the permit for good. That several permits are conserved, and a queue of any length bounded, for
any number of callers is proved (section 4). In the crawl, limit 3 over four pages cuts links off and limit 4 does not,
so that a chain of pages can run past the maximum depth; two fetches in flight are what it takes for outcomes to swap,
and concurrency 0 exercises the clamp.

In `worker` the queue (64 in the code) and the wire's bound on concurrency (64) are both three: what matters is that they
are equal, that a crawl can fill the queue, and that a request for one more than the bound arrives (`StartCrawl(n)`).
Two requests let each find what the other left, a failed initialisation among it; three tasks let one page be
extracted while another is harvested and a third is sent. In `rpc` three ids for at most three tasks let an id be used
twice and a third request be between them; one session with two requests on it lets a close overtake a fetch and a
cancellation race the opening; two generations let a handle outlive its process; two progress lines let a stream be cut
between them. `MaxBacklog` = 1 limits how far a client runs ahead of the server, which the pipe does too.

The parts of `services` share no variables, so their states add up and do not multiply:

* *map*: six sitemap bodies (nested, foreign, packed, unpacking to far too much, an entry without location), six answers
  for robots.txt, five plans; three sitemaps, one level of indexes and two redirects, so that every budget is met.
* *cookies*: two invocations, two pages, three cookies pages set, a jar of two with a limit of two; time 0 to 2.
* *watchdog*: units of five seconds; seven budgets with timeouts shorter and longer than the request interval,
  concurrency 0 to 3 and limit 1 to 4. `Slack` = 3 is the code's 15 seconds, `ExtractionBudget` = 2 its 10.
* *mcp*: six calls, three jobs over two places, texts of three sizes around the answer's limit.
* *command*: every form, sink and combination of a batch of none to three URLs, and a crawl; three kinds of errors.
* *gate*: a batch of two, a batch of three and a page at two permits.
* *exchange*: every surface and operation with up to two flaws.
* *scavenge*: three processes, two of which open a session, and two numbers, one of which begins like the other: with
  three processes one number is given twice.

Action coverage: together the passing runs take every action of the detailed modules. `CHECK_DEADLOCK` stays on:
`Finished` (in `Services`, `ServicesDone`) names the states in which the system has nothing left to do, and any other
dead end is an error.

### Fairness

* Fairness is stated thread by thread. The supervisor thread, the reader, every thread inside `force`, the caller once it
  waits, the futures of the broker's callers and its cancelling threads are weakly fair: the operating system and the
  runtime schedule whatever can move.
* The deadlines (`Timeout`) are strongly fair: time passes even while a crawl keeps sending events. That is what the
  absolute watchdog of `worker/wire.rs` adds to the inactivity deadline.
* A worker exits only when its lifeline is closed (`install_parent_lifeline` calls `_exit`); otherwise it may hang for
  ever. Users are not fair at all: a session may stay open for ever.
* `write_request` has **no deadline**: a live worker that stops reading its stdin blocks the supervisor until a force
  kills it. No fairness hides that. In `Supervisor` the write to a live worker is not fair, and what depends on it has it
  as a premise: `CommandAnswered` is stated under `[]<>(spc # "write")`, and `ForceSettles` and `HandleGoneSettles` under
  `KillsUnblock`, that a kill *that failed* does not leave the thread in such a write (with kills that work the premise is
  always true, and then nothing is assumed). In `SessionBroker`, initialization goes through that write: the start task is
  not fair while it waits for a live worker to be initialised, and `CallEnds` has the premise that the caller's own task
  does not stay there (`[]<>(tpc[c] # "init")`); the workers of others may. `DroppedCallReleases` needs no premise.
* In a crawl, the coordinator runs on and every fetch ends, because `fetch_page` has a timeout.
* In the broker, a forced supervisor settles its lease. `ForceSettles` of the supervisor justifies it, checked with a
  force at any moment, before the worker exists too.
* In the worker, the protocol thread, callers and the engine thread are weakly fair, and so is the clock: a deadline
  comes. Nothing is assumed of pages or of Servo: a page need not load, and news may never come.
* In RPC, the server's loop and tasks are weakly fair, without the steps that only report progress; the Node client's
  events are delivered. Nobody has to call, to close, to read or to stay alive: the processes may die at any step. A
  handler is assumed to end, as the library's calls do: for a session that means that its worker reads what is written to
  it, since `write_request` has no deadline here either.

### Properties

*Sessions.* `KillTargetsOwnChild`: whoever is inside the kill system call holds the mutex and the target is not reaped,
hence its process-group id still names it. `PermitCoversWorker`: the permit is back only when worker and storage are
gone. `TerminalAnswerMeansDown`: terminal errors follow cleanup, so `finish_operation` may disarm the handle.
`ForceSettles`, `HandleGoneSettles`, `CommandAnswered`, `WorkerDiesWithLease`: the liveness side. `CapacityConserved`,
`QueueDisciplined`, `CancelWakes`, `CancelReachesWorker`, `CallEnds`, `DroppedCallReleases`: the broker.
`CallEnds` has the premise named above. `LiveStorageKept`: no scavenger sets out to delete the storage of a live process.

*Engine and worker.* `PagesUnderSession`: no page is ever open outside the session's engine, and while one is, the
process-wide user agent is the session's. `QueueNeverFull`: the bounded queue never refuses a worker, because wire and
queue have one bound and a crawl returns only when its fetches have. `IdleBetweenRequests`: nothing runs while the
protocol thread reads. `EngineAnswers`: no wake-up is lost for good, though extractions take signals that were not
for them. `IdleCoversPages`: the watchdog never ends a crawl that keeps to every limit.

*Crawling and discovery.* `BudgetKept`, `ContentOnce`, `LayersInOrder`, `CrawlEnds`. `MapExact`: what `map` reports is
what the documents list and the rules taken from robots.txt, filters and limit let through, nothing else and, below the
limit, all of it. Whether those are the rules that RFC 9309 takes is `RfcKept`, which fails.

*Surfaces.* `RegistryExact`: the registry names exactly the requests in flight, so a cancellation reaches the request it
names and no other. `NoOrphanSession`: a session in the table has been, or will be, named to its client. `SessionUse`:
no session is used while it is closed, nor by two at a time. `RequestAnswered`, and in the client `NothingForgotten`,
`CallSettles`, `StreamComplete`, `SessionBelongs`. `NoWorkerLeft`: however an MCP call is cancelled, a finished job has
left no worker. `GateKept`: permits keep to the gate, and a fetch without a permit was started by a single-page handler
that has been dropped; that no more fetches run than the gate has permits is `FetchesBounded`, which fails.
`EveryUrlAccounted`: the command line shows every URL or names it in its exit code; a result of MCP holds a block for
each URL of a batch and each page of a crawl or counts it among the omitted, and MCP answers with anything else only
after a cancellation, a crawl that failed, or an error of one URL that was not of its operation. That such an error does
not abort the batch is `FailedUrlsInline`, which fails. `CallerMistakeNamed`: what one layer lets through the next does
not turn into the failure of a worker or the loss of a session. `JarSurvives`: the cookie file is always one whole jar
that somebody saved.

The refinements `LeaseSpec`, `PoolSpec` and `WalkSpec` say the rest. For each property of a passing run `PROJECT.json`
names a mutant, a plausible bug in the code's place (for example revoking without the mutex, joining the reader before
dropping the frame receiver, releasing the permit although the deletion failed, writing the owner's number in place
instead of renaming); TLC finds each one.

### Findings

A crawl decides how many links of a page to take up with the state at that moment: pages queued and in flight count as
results to be. If one of them is later suppressed as a duplicate, its room comes back but the links that were cut off do
not, and the crawl completes below its limit. The test `suppressed_page_does_not_consume_result_limit` passes because its
limit leaves room for every link. `crawl_duplicates` shows it.

`force_close` says that it waits for cleanup. After `cancel()`, or after an operation that reported a terminal error,
the session has no handle any more and `force_close` returns at once: harmless in the second case (cleanup is over),
but in the first the worker may still be running. `force_close_after_cancel` shows it.

`robots.rs` is headed "robots.txt parsing and policy enforcement (RFC 9309)", and the CLI's README says the same. Its
parser keeps one flag, set anew by each agent line: of several agents that share a group only the last counts, and the
rules of `*` are applied together with those of this client, where the RFC (section 2.2.1) reads consecutive agent lines
as one group and `*` only where nobody is named. `robots_rfc` reads `User-agent: fetch`, `User-agent: else`, `Disallow:
/b` and reports /b. Where neither case occurs the rules are those of the RFC, for every file (`RobotsFollowRfc`).

The description of `batch_fetch` says that failed URLs are reported inline without aborting the batch. `labeled_results`
does so for an error of the operation (a timeout, a page that crashed); a worker that is not available, or a page that
cannot be written out, is answered for the whole batch, and the pages fetched are dropped. A test expects this
(`batch_and_crawl_typed_partial_results_keep_labels_and_propagate_input_and_internal_errors`), so code and test stand
against the description. `mcp_batch` shows it.

The gate of `tools/fetch.rs` is documented as bounding concurrent engine fetches. A single-page handler holds its permit
in its own future while the fetch runs on a thread that nobody can stop; dropped by its client, it gives the permit back
and the fetch runs on. `gate_bound` shows three fetches under a gate of two.

Two smaller disagreements, seen in the source and shown by no run: `CrawlWire` (`worker/wire.rs:612`) has no field for the
visibility policy, so a crawl in a session, hence every crawl of the MCP server, makes its pages with the default policy
although the builder says that it applies to every page (`crawl.rs:155`); and `SECURITY.md` says that a robots.txt
answered with a 4xx status allows everything, while `classify_response` refuses everything for 401, 403 and 429
(`RobotsPolicy`).

Things to know that no document contradicts, so they are not findings:

* If killing the process tree fails twice, the supervisor gives the permit back with the worker perhaps alive. Only
  the closed lifeline ends it then (`WorkerDiesWithLease`). `PermitCoversWorker`, `TerminalAnswerMeansDown` and the lease
  therefore hold under `MaxKillFaults = 0`.
* With more than one fetch at a time a page may be found through a longer path before a shorter one, and then reported at
  that greater depth and, at the maximum depth, not followed. `LayersInOrder` is stated for one fetch at a time.
* When the future of an operation is dropped while cleanup fails, nobody receives that error: `force_close` reports the
  later, successful, cleanup.
* The absolute deadline of a crawl is computed from its limit. Duplicates do not count towards the limit, so a site of
  duplicates can use the deadline up although every page keeps to its own.
* Sizes that no tool bounds but the wire does (a URL, many globs, a user agent, a delay) are answered as a failure of
  the worker, not as the caller's mistake. `CallerMistakeNamed` names them (`Unbounded`).

## 4. Proofs

The proof modules are checked by TLAPS for every value of the constants: any callers and cancellers, any sizes of pools
and queues, any site, plan and depth, any documents, robots.txt and cookies, any budgets and sizes of texts, any ids,
requests and clients, any processes and numbers. Every safety invariant and every refinement that a passing run checks
is also a theorem; what is left to TLC is liveness.

| Theorem | Statement | Needs |
|---|---|---|
| `TypeCorrect` | `Spec => []TypeOK` of `Supervisor` | - |
| `KillSafe` | `Spec => []KillTargetsOwnChild` | - |
| `PermitSafe` | `Spec => []PermitCoversWorker` | `MaxKillFaults = 0` |
| `TerminalAnswerHolds` | `Spec => []TerminalAnswerMeansDown` | `MaxKillFaults = 0` |
| `KeepsLease` | `Spec => LeaseSpec` (`Supervisor` implements `SessionLease`) | `MaxKillFaults = 0` |
| `BrokerTypesHold` | `Spec => []TypeOK` of `SessionBroker` | - |
| `CapacityHolds` | `Spec => []CapacityConserved` | - |
| `QueueHolds` | `Spec => []QueueDisciplined` | - |
| `WakeHolds` | `Spec => []CancelWakes` | - |
| `ReachHolds` | `Spec => []CancelReachesWorker` | - |
| `BrokerImplementsPool` | `Spec => PoolSpec` (`SessionBroker` implements `SessionPool`) | - |
| `WorkerTypesHold` | `Spec => []TypeOK` of `Worker`, the engine's types included | - |
| `SessionAgentHolds` | `Spec => []PagesUnderSession` | - |
| `QueueRoomHolds` | `Spec => []QueueNeverFull` | - |
| `IdleHolds` | `Spec => []IdleBetweenRequests` | - |
| `CrawlTypeCorrect` | `Spec => []TypeOK` of `Crawl`, hence the depth limit | - |
| `BudgetHolds` | `Spec => []BudgetKept` | - |
| `ContentReportedOnce` | `Spec => []ContentOnce` | - |
| `LayersHold` | `Spec => []LayersInOrder` | - |
| `CrawlWalksSite` | `Spec => WalkSpec` (`Crawl` implements `SiteWalk`) | - |
| `CancellationsReach` | `Spec => []RegistryExact` of `RpcSystem` | - |
| `SessionsReachable` | `Spec => []NoOrphanSession` of `RpcSystem` | - |
| `SessionUseHolds` | `Spec => []SessionUse` of `RpcSystem` | - |
| `NothingForgottenHolds` | `Spec => []NothingForgotten` of `RpcSystem` | - |
| `SessionBelongsHolds` | `Spec => []SessionBelongs` of `RpcSystem` | - |
| `StreamCompleteHolds` | `Spec => []StreamComplete` of `RpcSystem` | - |
| `NoWorkerSurvives` | `McpSpec => []NoWorkerLeft` | - |
| `AnswersAccount` | `McpSpec => []AnswerAccounts`, of results and of what is answered instead | - |
| `BatchesAccount` | `CommandSpec => []BatchAccounted` | - |
| `UrlsAccounted` | `ServicesSpec => []EveryUrlAccounted`, from the two above | - |
| `MistakesNamed` | `ExchangeSpec => []CallerMistakeNamed` | - |
| `JarHolds` | `CookieSpec => []JarSurvives` | - |
| `WatchdogHolds` | `WatchdogSpec => []IdleCoversPages` | operations below the 24-hour cap |
| `GateHolds` | `GateSpec => []GateKept` | - |
| `LiveStorageSafe` | `ScavengeSpec => []LiveStorageKept` | - |
| `RobotsDecides` | `RobotsAllows(RobotsPolicy(a, agent), path) <=> RefAllowed(a, agent, path)` | - |
| `RobotsFollowRfc` | `RobotsAllows(RobotsPolicy(a, agent), path) <=> ~RefusedBy(RfcLines(a.lines, agent), path)` | a file that was answered in full, `GroupsApart` |
| `SitemapIsRead` | `ParseSitemap(EventsOf(nodes))` has exactly the entries of `nodes` | - |
| `MapHolds` | `ServicesSpec => []MapExact` | - |
| `FoldRule`, `FoldOfNothing`, `FoldOfAppend`, `FoldOfConcat` | induction along `FoldLeft` (`FoldRules`) | - |

Beside these each rests on the assumptions of its module on its constants, nearly all of them on their types and on what
is a list (`DiscoveryAssumption`, `CommandAssumption`). The others say more, and each is the code's: `Prewarm <=
MaxSessions` in the broker (a configuration with more clean workers than sessions is refused), finite sets of callers,
and in the worker `MaxConcurrency <= Capacity`. The last is `MAX_WIRE_CRAWL_CONCURRENCY` against `PENDING_CAPACITY`:
both are 64, nothing in the code ties one to the other, and `QueueRoomHolds` shows what depends on it.
`AnswerAssumption`: an answer has room for its frame and for the line that says what was left out (a million bytes
against some sixty). `CallsAssumption`: a call that is let through has jobs for all its items. `CookieAssumption`: the
file to begin with is one that was saved, at most `MAX_COOKIES` cookies with one to a key, and a date is later than the
epoch, which is how the file says *session*. `WatchdogAssumption`: an extraction has less time than the slack of the
watchdog (10 against 15 seconds), and an operation's own limits add up to less than `MAX_OPERATION_WATCHDOG`, 24 hours,
at which `worker/wire.rs` cuts every operation on purpose.

`McpSpec`, `CommandSpec`, `CookieSpec`, `WatchdogSpec`, `GateSpec`, `ExchangeSpec` and `ScavengeSpec` are the parts of
`Services` on their own. `PartsBehave` shows that a behaviour of `Services` is a behaviour of each, and `ServicesHold`
that all their invariants hold there.

### Induction over data

What a parser, a fold or a sum yields for every input needs induction, and the induction theorems of the library take an
operator as a parameter, which no installed prover instantiates. `FoldRules` goes around that: the operator of the fold
(`Step`) and what is to hold along it (`Holds`) are *constants of a module*, which is instantiated once per fold. Its
proofs are first-order: a set of naturals has a least element (`WFMin`), so numbers can be induced over as members of
a set (`SetInduction`); the recursive function inside `FoldLeft` exists (`IterationExists`); its values go one element at
a time (`IterationSteps`); hence `FoldRule`. One lemma per instance (`..IsFold`) unfolds `FoldLeft` to the instance's
`Fold`. For this the parsers of `Robots`, `Discovery`, `CookieJar` and `McpCalls` are written as folds, one step per
line, event, row or text, which is how the code's loops read.

### Sessions

`TypeOK` of the supervisor is split in `FlagsTypeOK` (Boolean-valued variables) and `DataTypeOK`, because the two are
discharged by different provers; `FlagsStep` and `DataStep` do one case per action.

`KillTargetsOwnChild` is not inductive: nothing in it stops a reap while a thread is inside the kill. `KillInv` adds
the protocol of the authority: the target is set only after the child exists; a thread inside the kill holds the mutex
and the authority has not been revoked, so the supervisor is not past `Revoke`; and the child is reaped only by a
supervisor that is. The proof is one step per action (`KillStep`).

`PermitCoversWorker` and `LeaseSpec` rest on `LeaseInv`, which says where the thread is when worker, storage and
permit are in each state: no worker before `Launch`, storage from `Own` on, give-back only past the reap.
`LeaseStep` proves it inductive; `LeaseSimulation` maps every step to a lease step or a stutter. With failing kills it
is false, hence the assumption. `TerminalAnswerMeansDown` needs to know that the thread which gave such an answer
never goes back to where a worker is alive: `AnswerInv` confines it to the positions past the reap (`Settled`).

`CapacityConserved` counts permits over variables of four kinds (the semaphore, the stack, the futures and their tasks,
the supervisors' leases), and a step that moves a permit is a step in two of these counts. `BrokerInv` says where each is:
`PhaseInv` what a caller and its task hold at each position, `QueueInv` that exactly those that wait stand in line or
were granted a permit, `SlotCount` and `StartCount` the other two counts, `WarmInv` that nothing but the pool refers to
a clean worker, so that no cancellation of somebody else's handle reaches it. `CancelInv` carries the two handshakes of
a cancellation: between the flag and the published port (under one lock), and between the flag and `Notified` (enabled
before the flag is read). `PoolStep` maps each step of `BrokerInv` to one of `SessionPool` or a stutter; that a new
session is a fresh one follows from `WarmInv`.

### The worker

`PagesUnderSession`, `QueueNeverFull` and `IdleBetweenRequests` are about one state machine seen from three sides, and
none is inductive alone. `WorkerInv` says, for a worker process, that a request is in one place (queue, page or answer,
`PlaceInv`), who may have one under way at each position of the protocol thread (`AtWorkInv`), and what the session's
state says of all of them (`SessionInv`). The bound of the queue follows from the first two: what is queued belongs to
different callers under way, and a crawl has at most `MaxConcurrency` of these. The library in process, which has no
session, is left out of these invariants as it is out of the properties; its types are not.

### Crawling

`BudgetKept` is inductive given types and a finite flight (`CrawlTypeInv`): a page that ends gives up its place in flight,
its result takes it, and `TakenType` bounds the links taken up by the room computed while it was still in flight.
`ContentOnce` needs `ContentInv`: the hash of every reported page is remembered.

The refinement `WalkSpec` rests on `WalkInv`: while the crawl goes on, every page set out for is answered, in flight or
queued, and in one of them only (`PlaceInv`), and no more pages are reported than the count says (`CountInv`; fewer may
be, as the consumer can go away). From it each page is answered once (`ReportStep`) and completion leaves none
unanswered (`WalkStep`).

`LayersInOrder` needs the breadth-first frontier: `LayerInv` says for one fetch at a time that the queue is sorted by
depth and spans at most two levels, that the page in flight is no deeper than the queue's pages, and that no reported
page is deeper than what is still to come. `QueueDeeper` is the step that extends the frontier.

### Surfaces

`RpcInv` joins the two properties of the registry and the table with the types of the pipes, of the client and of the
server, and with `OutcomeInv` (a task has an outcome only when its handler is over). The steps of a task fall into
those that leave its id registered (`Goes`) and those that also enter no session (`Quiet`); `TaskKeeps`, `LoopKeeps` and
`ServerUntouched` carry the invariant over the task, the loop and the client, and a process that dies or is spawned
starts from the empty registry (`FreshServer`, `ServerGone`).

`SessionUse` needs `LockInv`: who is in line for the lock of a session stands there once, who is at work is at its
head, and a close marks the slot only from there; a cancelled waiter leaves from the middle (`OneLeaves`).
`NothingForgotten` is one half of `CallInv`, which adds that both maps hold calls of the current process only and of
their kind, so that aborts, answers and the end of the process each take a call out of exactly one map.
`SessionBelongs` rests on both: a number in a frame was read from a handle whose generation was compared, and a table
entry was opened by the request that its handle came from.

`StreamComplete` speaks of the end of a crawl, and the pages it counts are in four places on the way there. `TallyInv`
keeps the sum: what a task has reported is consumed, queued for the consumer, or a line of the pipe (`PagesMore` and
`PagesLess` count those), and nothing is on its way once a good answer was read. For that the answer has to be the last
line of its call (`LinesInv`), a call has to be asked for once in a process (`OnceInv`), and a client must have heard
nothing of a call whose frame is still unread (`FreshInv`): a stream never counts the pages of another. The steps of
the server go through `TaskStreams` and `LoopKeepsStreams`; those of the client are about one call (`OneCallNode`),
write a frame (`WritesStreams`), or end the process (`EndedStreams`).

`NoWorkerLeft` is the last line of `SessionInv`, which says for each position of a job what it holds: a handle exists
only from a successful acquisition on, a job that lost the race has signalled its worker, and a job in `close` awaits
the worker's end. It speaks of one job at a time, so the number of jobs does not matter (`OneJob`). `GateInv` adds to
`GateKept` that the permits are a finite set, so that `Cardinality` can be counted up and down (`RoomAtGate`,
`PermitGivenBack`). `ScavengeInv` adds that a marker holds its owner's number and that a scavenger at its probe asks for
that number: an owner found dead stays dead, and the number a new process is given does not matter.

`AnswerAccounts` is about sums. Along the folds that take texts in, an answer's blocks stay within the limit and blocks
and omitted together are the texts so far (`PushKeeps`, `KeptInLimit`); the cut that makes room for the summary exists
because `AnswerFrame + SummarySize` fits (`FinishAccounts`). That an answer is of as many texts as the call had items is
`BatchComplete`: the job that ends last finds an outcome of every other. Where the answer is no result, its
reason has to be found: before the client cancels no job is late or ends as cancelled (`InTimeSoFar`), and what
`labeled_results` answers in error was the first outcome in the list that is not of the operation (`LabeledAccounts`).

`BatchAccounted` needs to know where each URL of a batch is: not asked for, being fetched, on its way to the receiver in
exactly one mail, shown, counted as a failure, or lost with the output that broke (`BatchItems`, `MailsFresh`). No
category that a failure can be given has exit code 0 (`CodesFail`).

`CallerMistakeNamed` speaks of the last stage of a request, and what it needs of the way there is `StageInv`: which flaws
cannot be left once a stage is passed. For each list of checks a lemma says which flaws it stops and with what error
(`Pairs`), for each surface how that error is answered.

`JarSurvives` rests on `JarInv`: the jar is the rows of one list of cookies with no two of a key and none too many
(`FileCookies`), and a temporary file holds a beginning of the rows of what its invocation captured, all of them before
it is synced, and is synced before it is renamed. What such a file loads as (exactly its unexpired cookies) is proved
along the fold of `fold_netscape`.

`IdleCoversPages` compares the clock with a sum of limits. `WatchInv` gives the clock a bound at each position of the
coordinator: while places are filled, `quiet + interval` is at most a page's timeout and a tick for every place filled
(`FillInv`); while it waits and nothing can be joined, every page the engine may turn to next has grown as old as the
silence less what came before the pages, and an extraction's remaining time fits into what is left (`JoinInv`). Both
were found as invariants of a TLC run first.

### Discovery

`MapInv` follows an entry on its way: what is listed is in the entries of the sitemap read last, or among the links of
the seed page, or was visited, or found no room (`MapListed`); a sitemap pointed to is queued, or fetched, or still an
entry, or a budget is used up (`MapPointed`); what was reported was listed and may be (`MapReports`); no request leaves
the site (`MapSite`). `MapExact` then follows from the end of the phases. Two theorems about the operators carry it:
`RobotsDecides` (the positions a prefix of a pattern reaches are those its characters can be laid to, `Reaches`; the
rules collected are those under an agent line that names this client or everybody, `RulesRead`; the running best is the
longest match, `Decides`) and `SitemapIsRead` (feeding one node's events leaves the parser where it was, but for one
entry).

`RobotsFollowRfc` adds how far that decision is the RFC's: if every agent line opens a group of its own, and `*` does not
stand beside this client, the line nearest above a rule is the only one the RFC counts (`SameRules`).

The proof corrected the model: `MapComplete` said that the sitemaps fetched, counted *as a set*, reach the budget or
include everything pointed to. `discover_sitemaps` does not remove duplicates of what robots.txt names, so a sitemap
named twice is fetched twice and uses up two of the budget. `walked` is now the sequence of fetches, and one answer for
robots.txt in the run names a sitemap twice.

### What stays with TLC

Each invariant, and each strengthening of one, was model-checked before it was proved. On TLC alone rest the ten
liveness properties: `CommandAnswered`, `ForceSettles`, `HandleGoneSettles`, `WorkerDiesWithLease`, `CallEnds`,
`DroppedCallReleases`, `CrawlEnds`, `EngineAnswers`, `RequestAnswered`, `CallSettles`. TLAPS reasons neither about
fairness nor about `ENABLED`. The five disagreements with documents are counterexamples and need no proof.

## 5. Not modelled, and what could come next

In the modelled components: the process-wide default broker (a `OnceLock`) and the broker's own drop, the PDF probe that
runs without a worker, Windows job objects beyond what they share with process groups; in the scavenger, PID namespaces;
in the engine, what a page collects (console messages, accessibility tree, image, the value of a script); in the
servers, listening and graceful shutdown, which are their libraries'; in the command line, `map`, progress display and
the filter of stderr. `strip_directive` (`robots.rs:114`) takes the first bytes of a line as text, which panics if they
end inside a character that is not ASCII; lines are abstract here, so no run shows it. The ranges of private addresses
are a set of hosts. Logging, formatting and document contents are left out everywhere.

Not modelled at all: extraction and rendering (`extract.rs`, `schema.rs`, `visibility`, `layout.rs`, `sanitize.rs`,
`screenshot.rs`), which transform one document after the other and keep no state; the blocking API and the Python
binding, which wrap the asynchronous one; the generated types of the Node binding; benchmarks and packaging.

What could come next: the default broker and its drop, as a module over `SessionPool`; and, with a prover
for temporal logic with fairness, the liveness properties.
