------------------------------ MODULE SiteWalk ------------------------------
(***************************************************************************)
(* What a crawl promises the consumer of its events, whatever the order in *)
(* which pages load: every page it sets out to fetch is answered once, by  *)
(* a result or as a suppressed duplicate; pages are found only through     *)
(* reported pages, one level deeper; and the pages in hand never exceed    *)
(* what the limit still has room for. A crawl that completes has answered  *)
(* every page it found.                                                    *)
(***************************************************************************)
EXTENDS Naturals, FiniteSets

CONSTANTS Seed, Allowed, MaxDepth

VARIABLES
  limit,       \* results asked for
  found,       \* [url, depth] of every page the crawl set out to fetch
  reported,    \* those answered by a result, a page or an error
  suppressed,  \* those answered as duplicates
  over         \* "no", "complete", "aborted"

wvars == <<limit, found, reported, suppressed, over>>

Unanswered == found \ (reported \cup suppressed)

Init ==
  /\ limit \in Nat
  /\ found = {[url |-> Seed, depth |-> 0]}
  /\ reported = {} /\ suppressed = {}
  /\ over = "no"

\* The pages found on page p: new ones, in scope, a level deeper, as many as
\* the limit has room for.
Discovers(p, new) ==
  /\ \A q \in new : /\ q.url \in Allowed /\ q.depth = p.depth + 1 /\ q.depth <= MaxDepth
                    /\ \A r \in found : r.url # q.url
  /\ \A q, r \in new : q.url = r.url => q = r
  /\ new # {} => Cardinality(found \ suppressed) + Cardinality(new) <= limit

\* A page, or, when nothing is found on it, possibly an error.
Report(p) ==
  /\ over = "no" /\ p \in Unanswered /\ Cardinality(reported) < limit
  /\ reported' = reported \cup {p}
  /\ found \subseteq found' /\ Discovers(p, found' \ found)
  /\ UNCHANGED <<limit, suppressed, over>>

\* A duplicate has an original among the reported pages.
Suppress(p) ==
  /\ over = "no" /\ p \in Unanswered /\ reported # {}
  /\ suppressed' = suppressed \cup {p}
  /\ UNCHANGED <<limit, found, reported, over>>

Complete ==
  /\ over = "no" /\ (Unanswered = {} \/ limit = 0)
  /\ over' = "complete"
  /\ UNCHANGED <<limit, found, reported, suppressed>>

\* The consumer fails or goes away; what was found on the page it refused is
\* never reported.
Abort ==
  /\ over = "no" /\ over' = "aborted"
  /\ found \subseteq found'
  /\ UNCHANGED <<limit, reported, suppressed>>

Next == (\E p \in found : Report(p) \/ Suppress(p)) \/ Complete \/ Abort

Spec == Init /\ [][Next]_wvars
=============================================================================
