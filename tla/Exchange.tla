------------------------------- MODULE Exchange -------------------------------
(***************************************************************************)
(* One request from the surface it arrives at to its answer: the tool that *)
(* checks it, the engine of the same process or the session whose worker   *)
(* checks it again, the wire that flattens errors, and the answer in the   *)
(* terms of the surface.  A request is what can be wrong with it (flaws).  *)
(***************************************************************************)
EXTENDS Naturals, Sequences, FiniteSets

VARIABLES
  request,     \* surface, operation, what is wrong with it
  stage,       \* how far it has come
  refusal,     \* the error it ends with
  fault,       \* what went wrong in the engine or the worker
  held         \* the long-lived session of the RPC client or of the library's caller

exchangeVars == <<request, stage, refusal, fault, held>>

-----------------------------------------------------------------------------
(***************************************************************************)
(* Requests.                                                               *)
(***************************************************************************)
McpOffers == {"fetch", "screenshot", "evaluate", "crawl", "map"}

HttpOffers == {"fetch", "screenshot", "evaluate", "crawl", "map"}

RpcOffers == {"fetch", "extract", "screenshot", "evaluate", "schema", "crawl", "map", "open", "session"}

LibraryOffers == {"open", "session", "crawl"}

Offers == [mcp |-> McpOffers, http |-> HttpOffers, rpc |-> RpcOffers, library |-> LibraryOffers]

InSession(r) ==
  r.op \in {"open", "session"} \/ (r.surface \in {"mcp", "library"} /\ r.op # "map")

Content(r) == r.op \in {"fetch", "extract", "schema", "session"}

\* The fields of the requests, as far as they are checked.
RequestOptions == {"timeout", "settle", "agent", "cookies", "headers"}
SessionRequestOptions == {"timeout", "settle", "headers"}
FetchRequest == {"url", "selector", "visibility"} \cup RequestOptions
ExtractRequest == {"url", "selector", "visibility"} \cup RequestOptions
ScreenshotRequest == {"url"} \cup RequestOptions
EvaluateRequest == {"url", "script"} \cup RequestOptions
SchemaExtractRequest == {"url", "schema", "visibility"} \cup RequestOptions
CrawlRequest == {"url", "globs", "counts", "delay", "selector", "visibility"} \cup RequestOptions
MapRequest == {"url", "globs", "timeout", "agent", "headers"}
SessionOpenRequest == {"agent"}
SessionFetchRequest == {"url", "selector", "visibility"} \cup SessionRequestOptions

\* What a session of the library takes; a user agent or cookies in it are refused.
FetchOptions == {"url", "script", "schema", "visibility", "identity"} \cup SessionRequestOptions
CrawlOptions ==
  {"url", "globs", "counts", "delay", "selector", "visibility", "identity"} \cup SessionRequestOptions

Fields(r) ==
  CASE r.op = "open" -> SessionOpenRequest
    [] r.op = "session" -> IF r.surface = "library" THEN FetchOptions ELSE SessionFetchRequest
    [] r.op = "crawl" -> IF r.surface = "library" THEN CrawlOptions ELSE CrawlRequest
    [] r.op = "fetch" -> FetchRequest
    [] r.op = "extract" -> ExtractRequest
    [] r.op = "schema" -> SchemaExtractRequest
    [] r.op = "screenshot" -> ScreenshotRequest
    [] r.op = "evaluate" -> EvaluateRequest
    [] r.op = "map" -> MapRequest

\* What a caller can get wrong in a field, or make too large.
FlawsOf(field, library) ==
  CASE field = "url" -> {"malformed", "private", "hugeUrl"}
    [] field = "script" -> {IF library THEN "hugeScript" ELSE "longScript"}
    [] field = "schema" -> {IF library THEN "hugeSchema" ELSE "badSchema"}
    [] field = "selector" -> {"longSelector", "hugeSelector", "badSelector"}
    [] field = "headers" -> {"badHeader", "manyHeaders"}
    [] field = "globs" -> {"badGlob", "manyGlobs"}
    [] field = "counts" -> {"hugeLimit", "deep", "wide"}
    [] field = "timeout" -> {"longTimeout"}
    [] field = "delay" -> {"longDelay"}
    [] field = "agent" -> {"longAgent"}
    [] field = "cookies" -> {"cookieFile"}
    [] field = "identity" -> {"identity"}
    [] OTHER -> {}

Flaws(r) ==
  LET library == r.surface = "library"
  IN (UNION {FlawsOf(field, library) : field \in Fields(r)})
     \cup (IF library THEN {} ELSE {"undecodable"})

\* A check names the flaw it sees and the error it makes of it; the first check refuses.
Refused(checks, flaws) ==
  LET hits == {i \in 1..Len(checks) : checks[i][1] \in flaws}
  IN IF hits = {} THEN "none" ELSE checks[CHOOSE i \in hits : \A j \in hits : i <= j][2]

-----------------------------------------------------------------------------
(***************************************************************************)
(* The surface.                                                            *)
(***************************************************************************)
\* validate_url
UrlChecks == << <<"malformed", "url">>, <<"private", "address">> >>

\* build_headers and validate_map
HeaderNames == << <<"badHeader", "header">> >>
HeaderSizes == << <<"manyHeaders", "header">> >>

SelectorChecks == << <<"longSelector", "params">>, <<"hugeSelector", "params">> >>

\* ResolvedRequestOptions::try_from
OptionChecks == << <<"cookieFile", "cookies">> >> \o HeaderNames

ScriptChecks == << <<"longScript", "params">> >>

\* parse and the handlers; the session's request is checked in the same order.
RpcChecks == << <<"undecodable", "params">> >> \o ScriptChecks \o UrlChecks \o SelectorChecks \o << <<"badSchema", "params">> >> \o OptionChecks

\* A body of more than MAX_BODY_BYTES is not read, and one that is no such request goes no further.
BodyChecks == << <<"hugeUrl", "body">>, <<"undecodable", "decode">> >>

HttpChecks == BodyChecks \o ScriptChecks \o UrlChecks \o SelectorChecks \o OptionChecks

\* complete_decoded_tool_call
ArgumentChecks == << <<"undecodable", "params">> >>

\* run_fetch, run_screenshot, run_execute_js, run_crawl, run_map
McpChecks == ArgumentChecks \o ScriptChecks \o UrlChecks \o SelectorChecks \o OptionChecks

\* resolve_timeout and clamp_count
Clamped == {"longTimeout", "hugeLimit", "deep", "wide"}

-----------------------------------------------------------------------------
(***************************************************************************)
(* The library's checks, in the process and on the way to a worker.        *)
(***************************************************************************)
GlobChecks == << <<"badGlob", "glob">> >>

\* prepare and build_crawl_plan
InProcessChecks == UrlChecks \o GlobChecks

\* validate_immutable_settings
ImmutableSettings == << <<"identity", "worker">> >> \o HeaderNames \o HeaderSizes

DurationChecks == << <<"longTimeout", "worker">>, <<"longDelay", "worker">> >>

\* validate_session_fetch and validate_session_crawl: before anything is sent.
SessionChecks ==
  ImmutableSettings \o DurationChecks \o << <<"wide", "worker">> >> \o UrlChecks \o GlobChecks

\* ValidatedInitialize::from_wire
InitializeChecks == << <<"longAgent", "worker">> >>

\* FetchWire::into_options
FetchWireChecks ==
  << <<"hugeUrl", "worker">>, <<"hugeScript", "worker">> >> \o UrlChecks \o DurationChecks
  \o HeaderNames \o HeaderSizes \o << <<"hugeSchema", "worker">> >>

\* CrawlWire::into_options
CrawlWireChecks ==
  << <<"hugeUrl", "worker">>, <<"hugeLimit", "worker">>, <<"deep", "worker">>, <<"manyGlobs", "worker">>,
     <<"hugeSelector", "worker">>, <<"wide", "worker">> >>
  \o UrlChecks \o DurationChecks \o HeaderNames \o HeaderSizes

-----------------------------------------------------------------------------
(***************************************************************************)
(* Errors across the wire.                                                 *)
(***************************************************************************)
\* Mutant: the host does not know the selector's name.
NamesButSelector == {"timeout", "url", "address", "javascript", "screenshot", "tooLarge", "engine"}

\* WorkerErrorKind: the names that both sides know.
Names == {"timeout", "url", "address", "javascript", "screenshot", "tooLarge", "engine", "selector"}

\* from_error, then into_error: the rest is a worker that is not available.
AcrossTheWire(error) == IF error \in Names \cup {"none"} THEN error ELSE "worker"

\* is_terminal_session_error
Terminal == {"worker", "protocolTimeout", "cancelled"}

-----------------------------------------------------------------------------
NotAsked(surface) == [surface |-> surface, op |-> "none", flaws |-> {}, before |-> "none"]

ExchangeInit ==
  /\ \E surface \in DOMAIN Offers : request = NotAsked(surface)
  /\ stage = "idle" /\ refusal = "none" /\ fault = "none" /\ held = "none"

\* What both sides of the exchange have checked, and what goes on to the next stage.
Passes(error, next) ==
  /\ refusal' = error
  /\ stage' = IF error = "none" THEN next ELSE "answered"

Ends(error) == held' = IF held = "up" /\ error \in Terminal THEN "ended" ELSE held

Request(op, flaws) ==
  /\ stage = "idle"
  /\ request' = [request EXCEPT !.op = op, !.flaws = flaws, !.before = held]
  /\ stage' = IF request.surface = "library" THEN "session" ELSE "surface"
  /\ UNCHANGED <<refusal, fault, held>>

\* The answer is unknown session for one that was never opened.
CheckSurface ==
  LET checks == CASE request.surface = "mcp" -> McpChecks
                  [] request.surface = "http" -> HttpChecks
                  [] request.surface = "rpc" -> RpcChecks
  IN /\ stage = "surface"
     /\ LET error == Refused(checks, request.flaws) IN
          Passes(IF error = "none" /\ request.op = "session" /\ held = "none" THEN "params" ELSE error,
                 IF InSession(request) THEN "session" ELSE "host")
     /\ UNCHANGED <<request, fault, held>>

\* What a surface has clamped is no flaw any more.
Left == IF request.surface = "library" THEN request.flaws ELSE request.flaws \ Clamped

CheckHost ==
  /\ stage = "host"
  /\ Passes(Refused(InProcessChecks, Left), "engine")
  /\ UNCHANGED <<request, fault, held>>

\* A PDF is fetched by the host and not rendered by the engine.
ProbePdf ==
  /\ stage = IF InSession(request) THEN "worker" ELSE "engine"
  /\ Content(request)
  /\ stage' = "render"
  /\ UNCHANGED <<request, refusal, fault, held>>

\* Nothing is sent in a session that has ended.
CheckSession ==
  /\ stage = "session"
  /\ LET longLived == request.surface # "mcp"
         error == IF request.op = "open" THEN "none" ELSE Refused(SessionChecks, Left)
     IN Passes(IF error = "none" /\ longLived /\ request.op # "open" /\ held # "up" THEN "worker" ELSE error,
               "worker")
  /\ UNCHANGED <<request, fault, held>>

\* The identity is checked when the worker is initialised, by a one-use session in the same request.
CheckWorker ==
  /\ stage = "worker"
  /\ LET initializes == request.op = "open" \/ request.surface = "mcp"
         first == IF initializes THEN Refused(InitializeChecks, Left) ELSE "none"
         second == CASE request.op = "open" -> "none"
                     [] request.op = "crawl" -> Refused(CrawlWireChecks, Left)
                     [] OTHER -> Refused(FetchWireChecks, Left)
         error == AcrossTheWire(IF first # "none" THEN first ELSE second)
     IN /\ Passes(error, IF request.op = "open" THEN "answered" ELSE "engine")
        /\ IF request.op = "open" THEN held' = (IF error = "none" THEN "up" ELSE held)
           ELSE IF request.surface = "mcp" THEN UNCHANGED held ELSE Ends(error)
  /\ UNCHANGED <<request, fault>>

\* map_engine_error; the task of an in-process fetch may panic.
Faults(r) ==
  {"none", "timeout", "engine"} \cup
  (IF InSession(r) THEN {"tooLarge", "died", "silent", "garbled"} ELSE {"panic"})

EngineError(f) == IF f \in {"timeout", "engine"} THEN f ELSE "none"

\* from_page: a page that would not fit the frame is an error instead.
FromPage(f) == IF f = "tooLarge" THEN "tooLarge" ELSE EngineError(f)

\* into_page: what is no page of the wire's is a broken worker's.
IntoPage(f) == IF f = "garbled" THEN "worker" ELSE AcrossTheWire(FromPage(f))

FaultError(f, inSession) ==
  CASE f = "died" -> "worker"
    [] f = "silent" -> "protocolTimeout"
    [] f = "panic" -> "internal"
    [] OTHER -> IF inSession THEN IntoPage(f) ELSE EngineError(f)

\* The engine works and the page, if there is one, comes back.
RunEngine(f) ==
  /\ stage = "engine" /\ f \in Faults(request)
  /\ fault' = f
  /\ Passes(FaultError(f, InSession(request)), "render")
  /\ IF request.surface # "mcp" /\ InSession(request) THEN Ends(FaultError(f, InSession(request))) ELSE UNCHANGED held
  /\ UNCHANGED request

\* render_page and the crawl's pages, whose selector is applied in the worker: MCP fails for it, the
\* others report each page.  A page may have nothing to extract or no screenshot.
Render(f) ==
  /\ stage = "render"
  /\ f \in {"none"} \cup (IF Content(request) THEN {"extract"} ELSE {})
                    \cup (IF request.op = "screenshot" THEN {"blank"} ELSE {})
  /\ LET applies == CASE request.op = "crawl" -> request.surface = "mcp"
                      [] OTHER -> request.surface # "library"
         selector == applies /\ "badSelector" \in request.flaws
         error == CASE selector -> IF request.op = "crawl" THEN AcrossTheWire("selector") ELSE "selector"
                    [] f = "extract" /\ request.surface # "library" -> "extract"
                    [] f = "blank" -> "internal"
                    [] OTHER -> "none"
     IN Passes(error, "answered") /\ fault' = IF error \in {"extract", "internal"} THEN f ELSE fault
  /\ UNCHANGED <<request, held>>

Answered ==
  /\ stage = "answered"
  /\ request' = NotAsked(request.surface) /\ stage' = "idle"
  /\ refusal' = "none" /\ fault' = "none"
  /\ UNCHANGED held

CloseSession ==
  /\ stage = "idle" /\ held \in {"up", "ended"}
  /\ held' = "none"
  /\ UNCHANGED <<request, stage, refusal, fault>>

ExchangeNext ==
  \/ \E op \in Offers[request.surface] :
       LET r == [surface |-> request.surface, op |-> op] IN
       Request(op, {}) \/ \E flaw, other \in Flaws(r) : Request(op, {flaw, other})
  \/ CheckSurface \/ CheckHost \/ ProbePdf \/ CheckSession \/ CheckWorker
  \/ \E f \in {"none", "timeout", "engine", "tooLarge", "died", "silent", "garbled", "panic"} : RunEngine(f)
  \/ \E f \in {"none", "extract", "blank"} : Render(f)
  \/ Answered \/ CloseSession

-----------------------------------------------------------------------------
(***************************************************************************)
(* Answers.                                                                *)
(***************************************************************************)
\* From<servo_fetch::Error> for ToolError: MCP goes by the class, HTTP and RPC by the kind.
Class(error) ==
  CASE error = "none" -> "none"
    [] error \in {"url", "address", "cookies", "schema", "glob", "header", "selector", "params"} -> "invalidInput"
    [] error \in {"timeout", "javascript", "engine", "screenshot", "tooLarge", "cancelled"} -> "operation"
    [] OTHER -> "internal"

Kind(error) ==
  CASE error \in {"cookies", "schema", "glob", "header", "params"} -> "invalidParams"
    [] error \in {"selector", "extract", "internal"} -> "internal"
    [] error \in {"url", "address", "timeout"} -> error
    [] OTHER -> "other"

McpAnswer(error) ==
  CASE Class(error) = "none" -> "ok"
    [] Class(error) = "internal" -> "internal error"
    [] OTHER -> "tool error"

HttpAnswer(error) ==
  CASE error = "none" -> "200"
    [] error = "body" -> "413"
    [] error = "decode" -> "422"
    [] Kind(error) \in {"url", "address", "invalidParams"} -> "400"
    [] Kind(error) = "timeout" -> "504"
    [] Kind(error) = "internal" -> "500"
    [] OTHER -> "502"

RpcAnswer(error) ==
  CASE error = "none" -> "ok"
    [] Kind(error) \in {"url", "address", "invalidParams"} -> "-32602"
    [] Kind(error) = "internal" -> "-32603"
    [] OTHER -> "-32000"

Answer ==
  CASE request.surface = "mcp" -> McpAnswer(refusal)
    [] request.surface = "http" -> HttpAnswer(refusal)
    [] request.surface = "rpc" -> RpcAnswer(refusal)
    [] OTHER -> refusal

-----------------------------------------------------------------------------
(***************************************************************************)
(* Properties                                                              *)
(***************************************************************************)
\* Sizes that no tool bounds and a worker refuses.
Unbounded == {"hugeUrl", "manyGlobs", "longAgent", "longDelay"}

Blames == {"tool error", "400", "413", "422", "-32602"}

\* A malformed URL or a private address never reaches the engine.  At a tool, a mistake of the
\* caller's other than a size nobody bounds is answered as the caller's (an invalid selector, known
\* only once the page is there, keeps the internal code that HTTP and RPC clients know) and a request
\* without a mistake is never blamed on the caller.  A session that was up survives every request
\* but one whose worker failed or that carried such a size.
CallerMistakeNamed ==
  /\ stage \in {"engine", "render"} => request.flaws \cap {"malformed", "private"} = {}
  /\ stage = "answered" /\ request.surface \in {"mcp", "http", "rpc"} =>
       /\ fault = "none" /\ request.before # "ended" /\ request.flaws \cap Unbounded = {} =>
            refusal = "none" \/ Answer \in Blames \/ (refusal = "selector" /\ Answer \in {"500", "-32603"})
       /\ request.flaws = {} /\ Answer \in Blames =>
            refusal \in {"timeout", "engine", "tooLarge"} \/ (request.op = "session" /\ request.before = "none")
  /\ stage = "answered" /\ request.before = "up" /\ held = "ended" =>
       \/ fault \in {"died", "silent", "garbled"}
       \/ request.flaws \cap (Unbounded \ {"longDelay"}) # {}
       \/ request.surface = "library"
          /\ request.flaws \cap {"hugeLimit", "deep", "hugeSelector", "hugeScript", "hugeSchema"} # {}

ExchangeSpec == ExchangeInit /\ [][ExchangeNext]_exchangeVars
=============================================================================
