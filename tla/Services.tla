------------------------------- MODULE Services -------------------------------
(***************************************************************************)
(* The parts of the program around a fetch that share no state with each   *)
(* other and run in processes, or at times, of their own.  A behaviour is  *)
(* a behaviour of one of them, chosen in the first state; the others keep  *)
(* their initial states.                                                   *)
(***************************************************************************)
EXTENDS Discovery, CookieJar, Watchdog, McpCalls, CommandLine, FetchGate, Exchange,
        Scavenger

VARIABLE part

servicesVars == <<part, discoveryVars, cookieVars, watchdogVars, mcpVars, cmdVars, gateVars,
                  exchangeVars, scavengeVars>>

ServicesInit ==
  /\ part \in {"map", "cookies", "watchdog", "mcp", "command", "gate", "exchange", "scavenge"}
  /\ DiscoveryInit /\ CookieInit /\ WatchdogInit /\ McpInit /\ CommandInit /\ GateInit /\ ExchangeInit
  /\ ScavengeInit
  /\ part # "exchange" => request.surface = "mcp"

\* What runs comes to its end; only the exchanges of a surface never stop.
ServicesDone ==
  CASE part = "map" -> DiscoveryDone
    [] part = "cookies" -> CookieDone
    [] part = "watchdog" -> WatchdogDone
    [] part = "mcp" -> McpDone
    [] part = "command" -> CommandDone
    [] part = "gate" -> GateDone
    [] part = "exchange" -> FALSE
    [] part = "scavenge" -> ScavengeDone

ServicesStep ==
  \/ /\ part = "map" /\ DiscoveryNext
     /\ UNCHANGED <<cookieVars, watchdogVars, mcpVars, cmdVars, gateVars, exchangeVars, scavengeVars>>
  \/ /\ part = "cookies" /\ CookieNext
     /\ UNCHANGED <<discoveryVars, watchdogVars, mcpVars, cmdVars, gateVars, exchangeVars, scavengeVars>>
  \/ /\ part = "watchdog" /\ WatchdogNext
     /\ UNCHANGED <<discoveryVars, cookieVars, mcpVars, cmdVars, gateVars, exchangeVars, scavengeVars>>
  \/ /\ part = "mcp" /\ McpNext
     /\ UNCHANGED <<discoveryVars, cookieVars, watchdogVars, cmdVars, gateVars, exchangeVars, scavengeVars>>
  \/ /\ part = "command" /\ CommandNext
     /\ UNCHANGED <<discoveryVars, cookieVars, watchdogVars, mcpVars, gateVars, exchangeVars, scavengeVars>>
  \/ /\ part = "gate" /\ GateNext
     /\ UNCHANGED <<discoveryVars, cookieVars, watchdogVars, mcpVars, cmdVars, exchangeVars, scavengeVars>>
  \/ /\ part = "exchange" /\ ExchangeNext
     /\ UNCHANGED <<discoveryVars, cookieVars, watchdogVars, mcpVars, cmdVars, gateVars, scavengeVars>>
  \/ /\ part = "scavenge" /\ ScavengeNext
     /\ UNCHANGED <<discoveryVars, cookieVars, watchdogVars, mcpVars, cmdVars, gateVars, exchangeVars>>

ServicesNext ==
  \/ ServicesStep /\ UNCHANGED part
  \/ ServicesDone /\ UNCHANGED servicesVars

ServicesSpec == ServicesInit /\ [][ServicesNext]_servicesVars

-----------------------------------------------------------------------------
(***************************************************************************)
(* Properties                                                              *)
(***************************************************************************)
\* map reports what the documents of the site list and the rules that robots.rs takes from
\* robots.txt, the caller's filters and the limit let through (map.rs, robots.rs): nothing else, and
\* all of it.  That those are not always the rules RFC 9309 would take is RfcKept.
MapExact == MapSound /\ MapComplete

\* The command line shows every URL of a batch or a crawl or names it in its exit code.  A result of
\* MCP holds a block for each or counts it among the omitted, and MCP answers a batch or a crawl with
\* anything else only after a cancellation, a crawl that failed, or an error of one URL that was not
\* of its operation, which costs the others their blocks (FailedUrlsInline).
EveryUrlAccounted == BatchAccounted /\ AnswerAccounts
=============================================================================
