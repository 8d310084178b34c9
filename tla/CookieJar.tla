------------------------------ MODULE CookieJar ------------------------------
(***************************************************************************)
(* Cookies between a file and the browser: two invocations of the command  *)
(* line that read a cookies.txt, browse, and write what the browser then   *)
(* holds for the page they ended on to the same --cookie-jar file, with    *)
(* the process or the whole machine failing at any step.                   *)
(*                                                                         *)
(* A cookie is [name, host, path, expires, secure, hostOnly]; its value    *)
(* and http_only flag are carried along and left out.  A host is its       *)
(* sequence of labels, the site of it the last one; a path is a sequence   *)
(* of segments.  `now' is time in the unit of expiry dates.                *)
(***************************************************************************)
EXTENDS Integers, Sequences, FiniteSets, SequencesExt

CONSTANTS
  Invocations,
  Targets,        \* pages: [host, path, https]
  SetBySites,     \* cookies that a page may set
  JarAtStart,     \* cookies in the file to begin with
  MaxCookies,     \* MAX_COOKIES
  LastInstant     \* bound of the model on time

\* expires is <<date>>, or <<>> for a session cookie.
Session == <<>>

VARIABLES
  ipc,       \* where each invocation is
  page,      \* the page it ends on
  browser,   \* the cookies of its browser
  captured,  \* what it read back, in order
  temp,      \* its temporary file: rows so far, and whether they are on the disk
  jar,       \* the cookies.txt: rows, and whether they are on the disk
  image,     \* history: the cookies the jar stands for
  now

cookieVars == <<ipc, page, browser, captured, temp, jar, image, now>>

CookieKey(c) == <<c.name, c.host, c.path>>
Expired(c, t) == c.expires # Session /\ c.expires[1] <= t

\* A host, a path, and a date after the first instant if there is one.
IsCookie(c) ==
  /\ c = [name |-> c.name, host |-> c.host, path |-> c.path, expires |-> c.expires,
          secure |-> c.secure, hostOnly |-> c.hostOnly]
  /\ c.host \in Seq(STRING) \ {<<>>} /\ c.path \in Seq(STRING)
  /\ c.expires # Session => c.expires = <<c.expires[1]>> /\ c.expires[1] \in Nat \ {0}
  /\ c.secure \in BOOLEAN /\ c.hostOnly \in BOOLEAN

OnePerKey(cookies) == \A c, d \in cookies : CookieKey(c) = CookieKey(d) => c = d

\* The file to begin with is one that was saved: no two cookies of a key, and no more than load.
ASSUME CookieAssumption ==
  /\ \A c \in SetBySites \cup JarAtStart : IsCookie(c)
  /\ OnePerKey(JarAtStart)
  /\ MaxCookies \in Nat /\ IsFiniteSet(JarAtStart) /\ Cardinality(JarAtStart) <= MaxCookies

-----------------------------------------------------------------------------
(***************************************************************************)
(* The file.                                                               *)
(***************************************************************************)
\* write_netscape
WriteNetscape(c) ==
  [dot |-> ~c.hostOnly, domain |-> c.host, subdomains |-> ~c.hostOnly, path |-> c.path,
   secure |-> c.secure, expires |-> IF c.expires = Session THEN 0 ELSE c.expires[1], name |-> c.name]

NoCookie == [name |-> "none", host |-> <<>>, path |-> <<>>, expires |-> Session, secure |-> FALSE, hostOnly |-> TRUE]

\* parse_netscape, parse_cookie_host: a leading dot means nothing, 0 is the session, and a row with
\* a negative date is passed over.
ParseNetscape(row) ==
  IF row.expires < 0 THEN NoCookie
  ELSE [name |-> row.name, host |-> row.domain, path |-> row.path, secure |-> row.secure,
        expires |-> IF row.expires = 0 THEN Session ELSE <<row.expires>>, hostOnly |-> ~row.subdomains]

\* What a row of the file says at time t.
ReadRow(row, t) ==
  LET c == ParseNetscape(row) IN [cookie |-> c, expired |-> Expired(c, t)]

\* The place of the cookie with the key of c, or 0.
PlaceOf(c, cookies) == SelectInSeq(cookies, LAMBDA d : CookieKey(d) = CookieKey(c))

\* A later row replaces an earlier one of the same key, an expired one removes it.
TakeRow(cookies, read) ==
  LET c == read.cookie
      at == PlaceOf(c, cookies)
  IN CASE c = NoCookie -> cookies
       [] c # NoCookie /\ at # 0 /\ read.expired -> RemoveAt(cookies, at)
       [] c # NoCookie /\ at = 0 /\ read.expired -> cookies
       [] c # NoCookie /\ at # 0 /\ ~read.expired -> [cookies EXCEPT ![at] = c]
       [] OTHER -> Append(cookies, c)

\* fold_netscape
FoldNetscape(rows, t) ==
  FoldLeft(TakeRow, <<>>, [k \in 1..Len(rows) |-> ReadRow(rows[k], t)])

\* load_cookies: fails on a file that is no cookies.txt and on too many cookies.
Loads(file, t) == file.whole /\ Len(FoldNetscape(file.rows, t)) <= MaxCookies

-----------------------------------------------------------------------------
(***************************************************************************)
(* The browser.                                                            *)
(***************************************************************************)
SubdomainOf(host, of) ==
  Len(host) > Len(of) /\ SubSeq(host, Len(host) - Len(of) + 1, Len(host)) = of

PathMatches(path, of) == IsPrefix(of, path)

\* What the engine's cookie store sends to a page (RFC 6265, 5.4).
Sendable(c, t, at) ==
  /\ t.host = c.host \/ (~c.hostOnly /\ SubdomainOf(t.host, c.host))
  /\ PathMatches(t.path, c.path)
  /\ c.secure => t.https
  /\ ~Expired(c, at)

SiteOf(host) == Last(host)

\* jar_entry and seed: what has not expired and belongs to the site goes into the browser's jar.
Seedable(c, t) == ~Expired(c, now) /\ SiteOf(c.host) = SiteOf(t.host)

\* A page's cookie takes the place of the one with its key.
Store(cookies, c) == {d \in cookies : CookieKey(d) # CookieKey(c)} \cup {c}

\* probe_host_only: the engine does not say whether a cookie is host-only; a made-up subdomain of
\* its host, asked for with the cookie's own scheme and path, tells.
ProbeTarget(c, t) == [host |-> <<"probe">> \o c.host, path |-> c.path, https |-> t.https \/ c.secure]

ProbeHostOnly(c, t, cookies) ==
  IF c.host # t.host THEN FALSE
  ELSE ~\E d \in cookies : CookieKey(d) = CookieKey(c) /\ Sendable(d, ProbeTarget(c, t), now)

\* capture: everything the page would be sent, its scope put back, cut at the limit.
Capture(t, cookies) ==
  LET sent == SetToSeq({c \in cookies : Sendable(c, t, now)})
      specs == [i \in 1..Len(sent) |->
                  [sent[i] EXCEPT !.hostOnly = ProbeHostOnly(sent[i], t, cookies)]]
  IN SubSeq(specs, 1, IF Len(specs) > MaxCookies THEN MaxCookies ELSE Len(specs))

-----------------------------------------------------------------------------
NoTemp == [exists |-> FALSE, rows |-> <<>>, synced |-> FALSE]
NoPage == [host |-> <<>>, path |-> <<>>, https |-> FALSE]

CookieInit ==
  /\ ipc = [i \in Invocations |-> "load"]
  /\ page = [i \in Invocations |-> NoPage]
  /\ browser = [i \in Invocations |-> {}]
  /\ captured = [i \in Invocations |-> <<>>]
  /\ temp = [i \in Invocations |-> NoTemp]
  /\ image = SetToSeq(JarAtStart)
  /\ jar = [rows |-> [k \in 1..Len(image) |-> WriteNetscape(image[k])], whole |-> TRUE, synced |-> TRUE]
  /\ now = 1

\* build_session_config and the session's initialisation: the file is read, the browser seeded.
LoadAndSeed(i, t) ==
  /\ ipc[i] = "load"
  /\ page' = [page EXCEPT ![i] = t]
  /\ IF Loads(jar, now)
       THEN /\ browser' = [browser EXCEPT ![i] = {c \in ToSet(FoldNetscape(jar.rows, now)) : Seedable(c, t)}]
            /\ ipc' = [ipc EXCEPT ![i] = "browse"]
       ELSE /\ ipc' = [ipc EXCEPT ![i] = "failed"]
            /\ UNCHANGED browser
  /\ UNCHANGED <<captured, temp, jar, image, now>>

\* The page loads; it may set a cookie that its host may set.
Browse(i, c) ==
  /\ ipc[i] = "browse"
  /\ SiteOf(c.host) = SiteOf(page[i].host) /\ (c.hostOnly => c.host = page[i].host)
  /\ browser' = [browser EXCEPT ![i] = Store(@, c)]
  /\ ipc' = [ipc EXCEPT ![i] = "capture"]
  /\ UNCHANGED <<page, captured, temp, jar, image, now>>

BrowseOnly(i) ==
  /\ ipc[i] = "browse"
  /\ ipc' = [ipc EXCEPT ![i] = "capture"]
  /\ UNCHANGED <<page, browser, captured, temp, jar, image, now>>

\* session.cookies(&page.url)
ReadBack(i) ==
  /\ ipc[i] = "capture"
  /\ captured' = [captured EXCEPT ![i] = Capture(page[i], browser[i])]
  /\ ipc' = [ipc EXCEPT ![i] = "create"]
  /\ UNCHANGED <<page, browser, temp, jar, image, now>>

-----------------------------------------------------------------------------
(***************************************************************************)
(* save_cookies: a temporary file beside the jar, row by row, then to the  *)
(* disk, then over the jar in one step.                                    *)
(***************************************************************************)
CreateTemp(i) ==
  /\ ipc[i] = "create"
  /\ temp' = [temp EXCEPT ![i] = [NoTemp EXCEPT !.exists = TRUE]]
  /\ ipc' = [ipc EXCEPT ![i] = "write"]
  /\ UNCHANGED <<page, browser, captured, jar, image, now>>

WriteRow(i) ==
  /\ ipc[i] = "write"
  /\ LET n == Len(temp[i].rows)
     IN IF n < Len(captured[i])
          THEN /\ temp' = [temp EXCEPT ![i].rows = Append(@, WriteNetscape(captured[i][n + 1]))]
               /\ UNCHANGED ipc
          ELSE /\ ipc' = [ipc EXCEPT ![i] = "sync"]
               /\ UNCHANGED temp
  /\ UNCHANGED <<page, browser, captured, jar, image, now>>

\* Mutant: the file is renamed without waiting for the disk.
SkipSync(i) ==
  /\ ipc[i] = "sync"
  /\ ipc' = [ipc EXCEPT ![i] = "persist"]
  /\ UNCHANGED <<page, browser, captured, temp, jar, image, now>>

SyncAll(i) ==
  /\ ipc[i] = "sync"
  /\ temp' = [temp EXCEPT ![i].synced = TRUE]
  /\ ipc' = [ipc EXCEPT ![i] = "persist"]
  /\ UNCHANGED <<page, browser, captured, jar, image, now>>

Persist(i) ==
  /\ ipc[i] = "persist"
  /\ jar' = [rows |-> temp[i].rows, whole |-> TRUE, synced |-> temp[i].synced]
  /\ image' = captured[i]
  /\ temp' = [temp EXCEPT ![i] = NoTemp]
  /\ ipc' = [ipc EXCEPT ![i] = "saved"]
  /\ UNCHANGED <<page, browser, captured, now>>

\* A write, the sync or the rename fails: the temporary file is deleted as it goes out of scope.
SaveFails(i) ==
  /\ ipc[i] \in {"create", "write", "sync", "persist"}
  /\ temp' = [temp EXCEPT ![i] = NoTemp]
  /\ ipc' = [ipc EXCEPT ![i] = "failed"]
  /\ UNCHANGED <<page, browser, captured, jar, image, now>>

-----------------------------------------------------------------------------
\* The process is killed: its temporary file stays where it is.
ProcessDies(i) ==
  /\ ipc[i] \notin {"saved", "failed", "dead"}
  /\ ipc' = [ipc EXCEPT ![i] = "dead"]
  /\ UNCHANGED <<page, browser, captured, temp, jar, image, now>>

\* The machine fails: what had not been synced may be gone, also from under its new name.
MachineFails ==
  /\ \E i \in Invocations : ipc[i] # "load"
  /\ ipc' = [i \in Invocations |-> "dead"]
  /\ jar' = [jar EXCEPT !.whole = @ /\ jar.synced]
  /\ UNCHANGED <<page, browser, captured, temp, image, now>>

TimePasses ==
  /\ now < LastInstant
  /\ now' = now + 1
  /\ UNCHANGED <<ipc, page, browser, captured, temp, jar, image>>

CookieSteps(i) ==
  \/ \E t \in Targets : LoadAndSeed(i, t)
  \/ \E c \in SetBySites : Browse(i, c)
  \/ BrowseOnly(i) \/ ReadBack(i) \/ CreateTemp(i) \/ WriteRow(i) \/ SyncAll(i) \/ Persist(i)

CookieNext ==
  \/ \E i \in Invocations : CookieSteps(i) \/ SaveFails(i) \/ ProcessDies(i)
  \/ MachineFails
  \/ TimePasses

CookieDone == \A i \in Invocations : ipc[i] \in {"saved", "failed", "dead"}

-----------------------------------------------------------------------------
(***************************************************************************)
(* Properties                                                              *)
(***************************************************************************)
\* Whoever fails or is overtaken, and at whatever step, the jar is one whole jar some invocation
\* saved (or the one from before), and loads as exactly its unexpired cookies, session cookies
\* among them; and a cookie saved has the scope (host-only, secure, path) it has in a browser.
JarSurvives ==
  /\ Loads(jar, now)
  /\ ToSet(FoldNetscape(jar.rows, now)) = {c \in ToSet(image) : ~Expired(c, now)}
  /\ \A i \in Invocations : ToSet(captured[i]) \subseteq browser[i]
=============================================================================
