------------------------------ MODULE Discovery ------------------------------
(***************************************************************************)
(* URL discovery without rendering: the traversal of map.rs over           *)
(* robots.txt, sitemaps and, failing those, the links of the seed page.    *)
(*                                                                         *)
(* Nothing is assumed of the servers: each request is answered by any      *)
(* answer of the constants.  A loc is [host, path, frag, form]; a URL as   *)
(* reported, after normalize_url, has no fragment.  A sitemap is a         *)
(* sequence of nodes; what the parser sees is its stream of XML events.    *)
(* Waiting for the request interval (throttle) changes nothing here.       *)
(***************************************************************************)
EXTENDS Robots

CONSTANTS
  SeedHost, Domain, NoDomain,   \* the registrable domain of each host, if it has one
  PrivateHosts, DenyPrivate,    \* NetworkPolicy
  ProductToken,
  RobotsAnswers,                \* what the request for robots.txt can bring
  SitemapBodies,                \* what the request for a sitemap can bring
  HomePages,                    \* the links of the seed page
  MapPlans,                     \* options of callers
  MaxSitemaps, MaxIndexDepth, MaxRedirects

VARIABLES
  mapPlan,     \* MapConfig
  mapPhase,    \* MapPhase, and the fetch that is under way
  robots,      \* RobotsPolicy
  answer,      \* history: the answer it was made from
  walk,        \* SitemapWalk: queue, entries, depth, fetched
  hop,         \* fetch_following_redirects: where it is and after how many redirects
  links,       \* links of the fallback phase
  mapVisited,  \* URLs reported, by their normal form
  reported,    \* what map returns
  asked,       \* history: hosts requested, and why
  listed,      \* history: what the documents read so far list
  pointed,     \* history: sitemaps they point to, with depth
  walked       \* history: sitemaps fetched, with depth, one after another

discoveryVars == <<mapPlan, mapPhase, robots, answer, walk, hop, links, mapVisited, reported,
                   asked, listed, pointed, walked>>

NoLoc == [host |-> SeedHost, path |-> <<>>, frag |-> "", form |-> "none"]
NoDate == "noDate"
NoWalk == [queue |-> <<>>, entries |-> <<>>, depth |-> 0, fetched |-> 0]
NoHop == [host |-> SeedHost, redirects |-> 0, from |-> [host |-> SeedHost, depth |-> 0]]
NoAnswer == [status |-> 0, fits |-> FALSE, lines |-> <<>>]

DiscoveryInit ==
  /\ mapPlan = [limit |-> 0, noFallback |-> TRUE, include |-> {}, exclude |-> {}, globs |-> TRUE]
  /\ mapPhase = "new" /\ robots = [kind |-> "unreachable"] /\ answer = NoAnswer
  /\ walk = NoWalk /\ hop = NoHop /\ links = <<>>
  /\ mapVisited = {} /\ reported = <<>>
  /\ asked = {} /\ listed = {} /\ pointed = {} /\ walked = <<>>

\* What is read is a list of lines, nodes or links; a path or a pattern is one of characters.
IsSequence(s) == Len(s) \in Nat /\ s = [k \in 1..Len(s) |-> s[k]]

ASSUME DiscoveryAssumption ==
  /\ MaxSitemaps \in Nat
  /\ \A p \in MapPlans : p.limit \in Nat
  /\ \A a \in RobotsAnswers :
       /\ a.status \in Nat /\ a.fits \in BOOLEAN /\ IsSequence(a.lines)
       /\ \A k \in 1..Len(a.lines) : IsRule(a.lines[k]) => IsSequence(a.lines[k].val)
  /\ \A b \in SitemapBodies :
       /\ IsSequence(b.nodes)
       /\ \A n \in ToSet(b.nodes) : n.tag \in {"url", "sitemap"} /\ IsSequence(n.loc.path)
  /\ \A p \in HomePages : IsSequence(p) /\ \A l \in ToSet(p) : IsSequence(l.path)

-----------------------------------------------------------------------------
\* is_same_site: the registrable domain, or the host where there is none.
SameSite(a, b) ==
  IF Domain[a] # NoDomain /\ Domain[b] # NoDomain THEN Domain[a] = Domain[b] ELSE a = b

HostAllowed(h) == ~DenyPrivate \/ h \notin PrivateHosts

\* matches_scope; an empty list of patterns is no filter.
InScope(path) ==
  /\ path \notin mapPlan.exclude
  /\ mapPlan.include = {} \/ path \in mapPlan.include

Normal(loc) == [host |-> loc.host, path |-> loc.path]

\* validate_entry, before the test of what was visited: short enough and http(s); on the site;
\* allowed; in scope.
Admissible(loc) ==
  /\ loc.form = "http"
  /\ SameSite(SeedHost, loc.host)
  /\ RobotsAllows(robots, loc.path)
  /\ InScope(loc.path)

-----------------------------------------------------------------------------
(***************************************************************************)
(* A sitemap.  A node [tag, loc, date, image] is written as its events: an *)
(* image's own loc and a sitemap's date are elements the parser must pass  *)
(* over.                                                                   *)
(***************************************************************************)
Element(name, content) ==
  <<[ev |-> "start", what |-> name]>> \o content \o <<[ev |-> "end", what |-> name]>>

Text(what) == <<[ev |-> "text", what |-> what]>>

NodeEvents(node) ==
  Element(node.tag,
    (IF node.loc = NoLoc THEN <<>> ELSE Element("loc", Text(node.loc)))
    \o (IF node.date = NoDate THEN <<>> ELSE Element("lastmod", Text(node.date)))
    \o (IF node.image = NoLoc THEN <<>> ELSE Element("image", Element("loc", Text(node.image)))))

WithNode(events, node) == events \o NodeEvents(node)

EventsOf(nodes) == FoldLeft(WithNode, <<>>, nodes)

\* parse_sitemap: one event.  loc and lastmod are the pieces of text collected so far.
OnStart(s, name) ==
  CASE name = "url" -> [s EXCEPT !.inUrl = TRUE, !.depth = 0]
    [] name = "sitemap" -> [s EXCEPT !.inSitemap = TRUE, !.depth = 0]
    [] name = "loc" /\ (s.inUrl \/ s.inSitemap) /\ s.depth = 0 -> [s EXCEPT !.capture = "loc"]
    [] name = "lastmod" /\ s.inUrl /\ s.depth = 0 -> [s EXCEPT !.capture = "lastmod"]
    [] OTHER -> IF s.inUrl \/ s.inSitemap THEN [s EXCEPT !.depth = @ + 1] ELSE s

OnText(s, what) ==
  CASE s.capture = "loc" -> [s EXCEPT !.loc = Append(@, what)]
    [] s.capture = "lastmod" -> [s EXCEPT !.lastmod = Append(@, what)]
    [] OTHER -> s

Entry(s, tag) ==
  IF s.loc = <<>> THEN <<>>
  ELSE <<[tag |-> tag, loc |-> s.loc[1], date |-> IF s.lastmod = <<>> THEN NoDate ELSE s.lastmod[1]]>>

\* Mutant: what an entry without a loc has collected stays for the next one.
OnEndKeeping(s, name) ==
  CASE name \in {"url", "sitemap"} /\ (IF name = "url" THEN s.inUrl ELSE s.inSitemap) ->
         [s EXCEPT !.entries = @ \o Entry(s, name), !.loc = <<>>,
                   !.lastmod = IF s.loc = <<>> THEN @ ELSE <<>>,
                   !.inUrl = @ /\ name # "url", !.inSitemap = @ /\ name # "sitemap"]
    [] name \in {"loc", "lastmod"} /\ s.capture # "idle" -> [s EXCEPT !.capture = "idle"]
    [] OTHER -> IF s.depth > 0 THEN [s EXCEPT !.depth = @ - 1] ELSE s

OnEnd(s, name) ==
  CASE name \in {"url", "sitemap"} /\ (IF name = "url" THEN s.inUrl ELSE s.inSitemap) ->
         [s EXCEPT !.entries = @ \o Entry(s, name), !.loc = <<>>, !.lastmod = <<>>,
                   !.inUrl = @ /\ name # "url", !.inSitemap = @ /\ name # "sitemap"]
    [] name \in {"loc", "lastmod"} /\ s.capture # "idle" -> [s EXCEPT !.capture = "idle"]
    [] OTHER -> IF s.depth > 0 THEN [s EXCEPT !.depth = @ - 1] ELSE s

OnEvent(s, e) ==
  CASE e.ev = "start" -> OnStart(s, e.what)
    [] e.ev = "text" -> OnText(s, e.what)
    [] e.ev = "end" -> OnEnd(s, e.what)

AtStart == [capture |-> "idle", loc |-> <<>>, lastmod |-> <<>>, inUrl |-> FALSE, inSitemap |-> FALSE,
            depth |-> 0, entries |-> <<>>]

ParseSitemap(events) == FoldLeft(OnEvent, AtStart, events).entries

\* fetch_sitemap, what it does with the bytes: within bounds, unpacked if it is said to be packed
\* and only then, and no page of HTML (a server's way to say that there is no such file).
Readable(body) ==
  /\ body.fits /\ body.packed = body.saidPacked
  /\ body.packed => body.ratio = "sane"
  /\ body.text = "xml"

-----------------------------------------------------------------------------
(***************************************************************************)
(* map: the options are looked at before anything is fetched.              *)
(***************************************************************************)
BeginMap(plan) ==
  /\ mapPhase = "new"
  /\ mapPlan' = plan
  /\ mapPhase' = IF HostAllowed(SeedHost) /\ plan.globs THEN "robots" ELSE "failed"
  /\ UNCHANGED <<robots, answer, walk, hop, links, mapVisited, reported, asked, listed, pointed, walked>>

\* bootstrap_robots and discover_sitemaps: what robots.txt names, and the usual place.
DefaultSitemap == [host |-> SeedHost, depth |-> 0]

BootstrapRobots(a) ==
  /\ mapPhase = "robots"
  /\ LET policy == RobotsPolicy(a, ProductToken)
         named == IF policy.kind = "rules"
                    THEN [i \in 1..Len(policy.sitemaps) |-> [host |-> policy.sitemaps[i], depth |-> 0]]
                    ELSE <<>>
         queue == IF DefaultSitemap \in ToSet(named) THEN named ELSE Append(named, DefaultSitemap)
     IN /\ robots' = policy
        /\ walk' = [NoWalk EXCEPT !.queue = queue]
        /\ pointed' = ToSet(queue)
  /\ answer' = a
  /\ asked' = {[host |-> SeedHost, redirect |-> FALSE]}
  /\ mapPhase' = "sitemaps"
  /\ UNCHANGED <<mapPlan, hop, links, mapVisited, reported, listed, walked>>

-----------------------------------------------------------------------------
UrlBudgetReached == Len(reported) >= mapPlan.limit
BudgetReached == walk.fetched >= MaxSitemaps

\* Report the entry unless it is filtered out or was reported before.
Report(loc, date) ==
  IF Admissible(loc) /\ Normal(loc) \notin mapVisited
    THEN /\ reported' = Append(reported, [url |-> Normal(loc), date |-> date])
         /\ mapVisited' = mapVisited \cup {Normal(loc)}
    ELSE UNCHANGED <<reported, mapVisited>>

\* emit_entry: the next entry of the sitemap read last.
EmitEntry ==
  /\ mapPhase = "sitemaps" /\ ~UrlBudgetReached
  /\ walk.entries # <<>>
  /\ LET e == Head(walk.entries)
     IN IF e.tag = "url"
          THEN /\ Report(e.loc, e.date)
               /\ walk' = [walk EXCEPT !.entries = Tail(@)]
          ELSE /\ walk' = [walk EXCEPT !.entries = Tail(@), !.queue =
                             IF e.loc.form = "bad" THEN @
                             ELSE Append(@, [host |-> e.loc.host, depth |-> walk.depth + 1])]
               /\ UNCHANGED <<reported, mapVisited>>
  /\ UNCHANGED <<mapPlan, mapPhase, robots, answer, hop, links, asked, listed, pointed, walked>>

\* advance_sitemaps with no entry left: the next sitemap that is on the site and not too deep.
AdmitsSitemap(s) == s.depth <= MaxIndexDepth /\ SameSite(SeedHost, s.host)

NextSitemap ==
  /\ mapPhase = "sitemaps" /\ ~UrlBudgetReached
  /\ walk.entries = <<>> /\ ~BudgetReached /\ walk.queue # <<>>
  /\ LET s == Head(walk.queue)
     IN IF AdmitsSitemap(s)
          THEN /\ walk' = [walk EXCEPT !.queue = Tail(@), !.fetched = @ + 1]
               /\ hop' = [host |-> s.host, redirects |-> 0, from |-> s]
               /\ walked' = Append(walked, s)
               /\ mapPhase' = "fetching"
          ELSE /\ walk' = [walk EXCEPT !.queue = Tail(@)]
               /\ UNCHANGED <<hop, walked, mapPhase>>
  /\ UNCHANGED <<mapPlan, robots, answer, links, mapVisited, reported, asked, listed, pointed>>

\* enter_fallback: the seed page, if no URL was found and the caller wants it.
FallbackApplies == reported = <<>> /\ ~mapPlan.noFallback

EnterFallback ==
  /\ mapPhase = "sitemaps"
  /\ \/ UrlBudgetReached
     \/ walk.entries = <<>> /\ (BudgetReached \/ walk.queue = <<>>)
  /\ mapPhase' = IF FallbackApplies THEN "page" ELSE "done"
  /\ hop' = NoHop
  /\ walk' = NoWalk
  /\ UNCHANGED <<mapPlan, robots, answer, links, mapVisited, reported, asked, listed, pointed, walked>>

-----------------------------------------------------------------------------
(***************************************************************************)
(* fetch_following_redirects: the client follows none by itself, and each  *)
(* hop is looked at before it is requested.                                *)
(***************************************************************************)
Fetching == mapPhase \in {"fetching", "page"}
FetchFailed == IF mapPhase = "fetching" THEN "sitemaps" ELSE "fallback"
Asked == asked' = asked \cup {[host |-> hop.host, redirect |-> hop.redirects > 0]}

FollowRedirect(to) ==
  /\ Fetching
  /\ Asked
  /\ IF HostAllowed(to) /\ SameSite(SeedHost, to) /\ hop.redirects + 1 < MaxRedirects
       THEN /\ hop' = [hop EXCEPT !.host = to, !.redirects = @ + 1]
            /\ UNCHANGED mapPhase
       ELSE /\ hop' = NoHop /\ mapPhase' = FetchFailed
  /\ UNCHANGED <<mapPlan, robots, answer, walk, links, mapVisited, reported, listed, pointed, walked>>

\* No answer, an error, or a redirect that names no place.
FetchFails ==
  /\ Fetching
  /\ Asked
  /\ hop' = NoHop /\ mapPhase' = FetchFailed
  /\ UNCHANGED <<mapPlan, robots, answer, walk, links, mapVisited, reported, listed, pointed, walked>>

\* History: the entries a document lists and the sitemaps it points to.
Lists(nodes) ==
  {[loc |-> n.loc, date |-> n.date] : n \in {m \in ToSet(nodes) : m.tag = "url" /\ m.loc # NoLoc}}

PointsTo(nodes, depth) ==
  {[host |-> n.loc.host, depth |-> depth] :
     n \in {m \in ToSet(nodes) : m.tag = "sitemap" /\ m.loc # NoLoc /\ m.loc.form # "bad"}}

SitemapArrives(body) ==
  /\ mapPhase = "fetching"
  /\ Asked
  /\ IF Readable(body)
       THEN /\ walk' = [walk EXCEPT !.entries = ParseSitemap(EventsOf(body.nodes)), !.depth = hop.from.depth]
            /\ listed' = listed \cup Lists(body.nodes)
            /\ pointed' = pointed \cup PointsTo(body.nodes, hop.from.depth + 1)
       ELSE UNCHANGED <<walk, listed, pointed>>
  /\ hop' = NoHop /\ mapPhase' = "sitemaps"
  /\ UNCHANGED <<mapPlan, robots, answer, links, mapVisited, reported, walked>>

\* fetch_html and extract_links: every anchor that resolves to http(s), in order.
KeepLink(kept, l) == IF l.form \in {"http", "long"} THEN Append(kept, l) ELSE kept

PageArrives(hrefs) ==
  /\ mapPhase = "page"
  /\ Asked
  /\ links' = FoldLeft(KeepLink, <<>>, hrefs)
  /\ listed' = listed \cup {[loc |-> l, date |-> NoDate] : l \in ToSet(hrefs)}
  /\ hop' = NoHop /\ mapPhase' = "fallback"
  /\ UNCHANGED <<mapPlan, robots, answer, walk, mapVisited, reported, pointed, walked>>

\* drain_fallback: one link; the phase ends with the links or the budget.
DrainFallback ==
  /\ mapPhase = "fallback"
  /\ IF UrlBudgetReached \/ links = <<>>
       THEN /\ mapPhase' = "done" /\ links' = <<>> /\ UNCHANGED <<reported, mapVisited>>
       ELSE /\ links' = Tail(links) /\ Report(Head(links), NoDate) /\ UNCHANGED mapPhase
  /\ UNCHANGED <<mapPlan, robots, answer, walk, hop, asked, listed, pointed, walked>>

-----------------------------------------------------------------------------
MapHosts == DOMAIN Domain

DiscoveryNext ==
  \/ \E p \in MapPlans : BeginMap(p)
  \/ \E a \in RobotsAnswers : BootstrapRobots(a)
  \/ EmitEntry \/ NextSitemap \/ EnterFallback
  \/ \E h \in MapHosts : FollowRedirect(h)
  \/ FetchFails
  \/ \E b \in SitemapBodies : SitemapArrives(b)
  \/ \E p \in HomePages : PageArrives(p)
  \/ DrainFallback

DiscoveryDone == mapPhase \in {"done", "failed"}

-----------------------------------------------------------------------------
(***************************************************************************)
(* Properties                                                              *)
(***************************************************************************)
\* What a document may contribute: decided by the declarative reading of the rules robots.rs takes
\* from the answer of robots.txt (RfcKept says where those are not the ones of RFC 9309).
MayReport(loc) ==
  /\ loc.form = "http"
  /\ loc.host = SeedHost \/ (Domain[loc.host] = Domain[SeedHost] /\ Domain[loc.host] # NoDomain)
  /\ RefAllowed(answer, ProductToken, loc.path)
  /\ loc.path \notin mapPlan.exclude /\ (mapPlan.include = {} \/ loc.path \in mapPlan.include)

\* What map reports was listed by a document it read, with the date given there, may be reported,
\* is no image's address, is reported once and within the limit; and no request left the site or,
\* by redirect, reached an address the network policy denies.
MapSound ==
  /\ Len(reported) <= mapPlan.limit
  /\ \A i, j \in 1..Len(reported) : reported[i].url = reported[j].url => i = j
  /\ \A r \in ToSet(reported) : \E l \in listed :
       Normal(l.loc) = r.url /\ l.date = r.date /\ MayReport(l.loc)
  /\ \A a \in asked : SameSite(SeedHost, a.host) /\ (a.redirect => HostAllowed(a.host))

\* When map returns below its limit, everything its documents list that may be reported is
\* reported, however the sitemaps were nested and the budgets used; and unless the budget of
\* sitemaps was used up, every sitemap that was pointed to within the depth has been fetched.
MapComplete ==
  mapPhase = "done" /\ Len(reported) < mapPlan.limit =>
    /\ \A l \in listed : MayReport(l.loc) => \E r \in ToSet(reported) : r.url = Normal(l.loc)
    /\ Len(walked) >= MaxSitemaps \/ \A s \in pointed : AdmitsSitemap(s) => s \in ToSet(walked)

\* "robots.txt parsing and policy enforcement (RFC 9309)." (robots.rs:1): no URL is reported that
\* the site's robots.txt, with the groups of RFC 9309, refuses to this client.
RfcKept ==
  robots.kind = "rules" =>
    \A r \in ToSet(reported) : ~RefusedBy(RfcLines(answer.lines, ProductToken), r.url.path)
=============================================================================
