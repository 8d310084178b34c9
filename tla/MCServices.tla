------------------------------ MODULE MCServices ------------------------------
(* One small instance of each service; Services.cfg gives the other bounds. *)
EXTENDS Services

-----------------------------------------------------------------------------
(* map: a site of three hosts, one of them private, and one host elsewhere. *)
McDomain == [seed |-> "site", docs |-> "site", inner |-> "site", other |-> "elsewhere"]

Loc(h, p, f) == [host |-> h, path |-> p, frag |-> "", form |-> f]
PathA == <<"/", "a">>
PathAB == <<"/", "a", "b">>
PathB == <<"/", "b">>
LocA == Loc("seed", PathA, "http")
LocAFrag == [LocA EXCEPT !.frag = "x"]
LocAB == Loc("docs", PathAB, "http")
LocB == Loc("seed", PathB, "http")
LocElsewhere == Loc("other", PathB, "http")

UrlNode(l, d, i) == [tag |-> "url", loc |-> l, date |-> d, image |-> i]
SitemapNode(l) == [tag |-> "sitemap", loc |-> l, date |-> "d1", image |-> NoLoc]
XmlBody(ns) == [fits |-> TRUE, packed |-> FALSE, saidPacked |-> FALSE, ratio |-> "sane",
                text |-> "xml", nodes |-> ns]
PackedBody == [XmlBody(<<UrlNode(LocB, NoDate, NoLoc)>>) EXCEPT !.packed = TRUE, !.saidPacked = TRUE]

McBodies ==
  {XmlBody(<<UrlNode(LocA, NoDate, LocB), UrlNode(LocAFrag, "d1", NoLoc)>>),
   XmlBody(<<UrlNode(NoLoc, "d1", NoLoc), UrlNode(LocAB, NoDate, NoLoc),
             UrlNode(LocElsewhere, NoDate, NoLoc)>>),
   XmlBody(<<SitemapNode(LocB), SitemapNode(LocElsewhere)>>),
   XmlBody(<<SitemapNode(LocAB), UrlNode(LocB, "d1", NoLoc)>>),
   PackedBody, [PackedBody EXCEPT !.ratio = "bomb"]}

RobotsTxt(s, ls) == [status |-> s, fits |-> TRUE, lines |-> ls]
McRobotsAnswers ==
  {RobotsTxt(404, <<>>), RobotsTxt(503, <<>>),
   RobotsTxt(200, <<Agent("*"), Disallow(<<"/", "a", "*", "$">>), Allow(PathAB), Sitemap("docs"), Sitemap("docs")>>),
   RobotsTxt(200, <<Agent("*"), Disallow(PathA), Agent("fetch"), Allow(PathA),
                 Disallow(<<"/", "*", "b">>), Agent("else"), Disallow(<<"/">>)>>),
   RobotsTxt(200, <<Agent("fetch"), Agent("else"), Disallow(PathB)>>),
   RobotsTxt(200, <<Agent("fetch"), Allow(PathB), Disallow(PathB), Sitemap("other")>>)}

McHomePages == {<<LocA, LocAFrag, LocElsewhere, Loc("seed", PathB, "mail")>>, <<>>}

Plan(l, n, i, e, g) == [limit |-> l, noFallback |-> n, include |-> i, exclude |-> e, globs |-> g]
McMapPlans ==
  {Plan(5, FALSE, {}, {PathB}, TRUE), Plan(2, FALSE, {}, {}, TRUE), Plan(5, TRUE, {PathA, PathAB}, {}, TRUE),
   Plan(0, FALSE, {}, {}, TRUE), Plan(1, FALSE, {}, {}, FALSE)}

-----------------------------------------------------------------------------
(* Cookies: a shop below a registrable domain, a jar with two cookies. *)
CookieOf(n, h, p, e, s, o) ==
  [name |-> n, host |-> h, path |-> p, expires |-> e, secure |-> s, hostOnly |-> o]

McTargets == {[host |-> <<"shop", "ex">>, path |-> <<"a">>, https |-> FALSE],
              [host |-> <<"ex">>, path |-> <<>>, https |-> TRUE]}
McSetBySites == {CookieOf("s", <<"ex">>, <<>>, Session, TRUE, FALSE),
                 CookieOf("s", <<"ex">>, <<>>, <<2>>, FALSE, TRUE),
                 CookieOf("t", <<"shop", "ex">>, <<"a">>, <<3>>, FALSE, TRUE)}
McJarAtStart == {CookieOf("s", <<"ex">>, <<>>, Session, FALSE, FALSE),
                 CookieOf("u", <<"other">>, <<>>, <<2>>, FALSE, TRUE)}

-----------------------------------------------------------------------------
(* Watchdog: pages longer and shorter than the pause between them. *)
Limits(k, t, s, d, c, l) ==
  [kind |-> k, timeout |-> t, settle |-> s, delay |-> d, concurrency |-> c, limit |-> l]
McBudgets ==
  {Limits("fetch", 1, 0, 0, 1, 1), Limits("fetch", 2, 1, 0, 1, 1), Limits("crawl", 1, 0, 0, 0, 3),
   Limits("crawl", 2, 0, 0, 2, 3), Limits("crawl", 1, 1, 2, 3, 4), Limits("crawl", 3, 0, 1, 2, 4),
   Limits("crawl", 1, 0, 3, 3, 1)}

-----------------------------------------------------------------------------
(* MCP: a batch and a crawl whose answer fits, or not. *)
Tool(t, g, n) == [tool |-> t, good |-> g, items |-> n]
McCalls == {Tool("fetch", TRUE, 1), Tool("batch", TRUE, 3), Tool("crawl", TRUE, 3),
            Tool("evaluate", TRUE, 2), Tool("map", TRUE, 3), Tool("batch", FALSE, 0)}

-----------------------------------------------------------------------------
(* Command lines: pages in each form to each sink, and combinations that are refused. *)
FetchLine(n, f, sink) ==
  [command |-> "fetch", urls |-> n, format |-> f, js |-> FALSE, schema |-> FALSE, selector |-> FALSE,
   fullPage |-> FALSE, jar |-> FALSE, sink |-> sink]
CrawlLine(n, f, sink) == [FetchLine(n, f, sink) EXCEPT !.command = "crawl"]
Forms == {"none", "html", "png"}
McSinks == {"stdout", "file", "dir"}
McCommandLines ==
  {[FetchLine(n, f, sink) EXCEPT !.schema = sc, !.jar = jr] :
     n \in 0..3, f \in Forms, sc \in BOOLEAN, jr \in BOOLEAN, sink \in McSinks}
  \cup {[FetchLine(n, f, "stdout") EXCEPT !.js = js, !.selector = sel, !.fullPage = ~js] :
          n \in 1..2, f \in Forms, js \in BOOLEAN, sel \in BOOLEAN}
  \cup {CrawlLine(2, f, sink) : f \in {"none", "json"}, sink \in {"stdout", "dir"}}

-----------------------------------------------------------------------------
(* Gate: a batch of two, a batch of three, and a page between them. *)
McBatchSizes == [h \in Handlers |-> CASE h = 1 -> 2 [] h = 2 -> 3 [] OTHER -> 0]

-----------------------------------------------------------------------------
(* Scavenger: two process numbers of which one begins like the other. *)
McPids == {<<1>>, <<1, 2>>}
=============================================================================
