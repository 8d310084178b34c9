------------------------------- MODULE Robots -------------------------------
(***************************************************************************)
(* robots.txt as robots.rs reads and applies it, a declarative reading of  *)
(* the same decision, over the rules the code takes, and the rules         *)
(* RFC 9309 would take instead.                                            *)
(*                                                                         *)
(* A body is a sequence of lines [key, val]: comments and blank lines are  *)
(* gone, keys and agents are compared without case.  Paths and patterns    *)
(* are sequences of characters.                                            *)
(***************************************************************************)
EXTENDS Naturals, Sequences, FiniteSets, SequencesExt

Agent(name)  == [key |-> "user-agent", val |-> name]
Allow(p)     == [key |-> "allow", val |-> p]
Disallow(p)  == [key |-> "disallow", val |-> p]
Sitemap(url) == [key |-> "sitemap", val |-> url]

IsRule(line) == line.key \in {"allow", "disallow"} /\ line.val # <<>>

-----------------------------------------------------------------------------
AgentMatches(name, token) == name \in {"*", token}

\* RobotsRules::parse, one line after another; an agent line replaces the last.  `ours' is whether
\* an agent line names everybody or this client.
RobotsLine(acc, read) ==
  CASE read.line.key = "sitemap" -> [acc EXCEPT !.sitemaps = Append(@, read.line.val)]
    [] read.line.key = "user-agent" -> [acc EXCEPT !.matching = read.ours]
    [] IsRule(read.line) /\ acc.matching -> [acc EXCEPT !.rules = Append(@, read.line)]
    [] OTHER -> acc

NoRules == [matching |-> FALSE, rules |-> <<>>, sitemaps |-> <<>>]

RobotsRules(body, token) ==
  FoldLeft(RobotsLine, NoRules,
           [k \in 1..Len(body) |->
              [line |-> body[k],
               ours |-> body[k].key = "user-agent" /\ AgentMatches(body[k].val, token)]])

\* pattern_match_len: the positions of the path that a prefix of the pattern can reach, one
\* character [char, last, path] after another.
Advance(from, c) ==
  LET n == Len(c.path)
  IN CASE c.char = "$" /\ c.last -> from \cap {n}
       [] c.char = "*" -> {q \in 0..n : \E p \in from : p <= q}
       [] OTHER -> {p + 1 : p \in {q \in from : q < n /\ c.path[q + 1] = c.char}}

Reachable(pattern, path) ==
  FoldLeft(Advance, {0},
           [k \in 1..Len(pattern) |-> [char |-> pattern[k], last |-> k = Len(pattern), path |-> path]])

PatternMatchLen(pattern, path) == IF Reachable(pattern, path) = {} THEN 0 ELSE Len(pattern)

\* RobotsRules::is_allowed, rule after rule [allow, len]: longest match, an allow wins a tie.
Better(best, r) ==
  IF r.len > 0 /\ (r.len > best.len \/ (r.len = best.len /\ r.allow))
    THEN [len |-> r.len, allowed |-> r.allow] ELSE best

RulesAllow(rules, path) ==
  FoldLeft(Better, [len |-> 0, allowed |-> TRUE],
           [k \in 1..Len(rules) |-> [len |-> PatternMatchLen(rules[k].val, path),
                                     allow |-> rules[k].key = "allow"]]).allowed

\* classify_response and fetch; status 0 is a request that failed.
RobotsPolicy(answer, token) ==
  CASE answer.status \in {0, 401, 403, 429} \cup 500..599 -> [kind |-> "unreachable"]
    [] answer.status \in 400..499 \ {401, 403, 429} -> [kind |-> "unavailable"]
    [] OTHER -> IF answer.fits
                  THEN LET read == RobotsRules(answer.lines, token)
                       IN [kind |-> "rules", rules |-> read.rules, sitemaps |-> read.sitemaps]
                  ELSE [kind |-> "unreachable"]

RobotsAllows(policy, path) ==
  CASE policy.kind = "rules" -> RulesAllow(policy.rules, path)
    [] policy.kind = "unavailable" -> TRUE
    [] policy.kind = "unreachable" -> FALSE

-----------------------------------------------------------------------------
(***************************************************************************)
(* The reading without automata.  A pattern matches if its characters can  *)
(* be laid along the path; a page is refused by a matching disallow that   *)
(* is longer than every matching allow.                                    *)
(***************************************************************************)
Matches(pattern, path) ==
  \E at \in [1..(Len(pattern) + 1) -> 0..Len(path)] :
    /\ at[1] = 0
    /\ \A i \in 1..Len(pattern) :
         CASE pattern[i] = "$" /\ i = Len(pattern) -> at[i] = Len(path) /\ at[i + 1] = at[i]
           [] pattern[i] = "*" -> at[i] <= at[i + 1]
           [] OTHER -> at[i] < Len(path) /\ at[i + 1] = at[i] + 1 /\ path[at[i] + 1] = pattern[i]

RefusedBy(lines, path) ==
  \E d \in lines :
    /\ d.key = "disallow" /\ Matches(d.val, path)
    /\ \A a \in lines : a.key = "allow" /\ Matches(a.val, path) => Len(a.val) < Len(d.val)

\* The rules the code takes: those whose nearest agent line above names everybody or this client.
LinesUnderAgent(body, token) ==
  {body[i] : i \in {j \in 1..Len(body) :
     /\ IsRule(body[j])
     /\ \E k \in 1..j :
          /\ body[k].key = "user-agent" /\ body[k].val \in {"*", token}
          /\ \A l \in (k + 1)..j : body[l].key # "user-agent"}}

\* The decision of robots.rs: a page is refused by the rules it takes, whoever they were meant for.
RefAllowed(answer, token, path) ==
  \/ answer.status \in 400..499 \ {401, 403, 429}
  \/ /\ answer.status \notin {0} \cup 400..599 /\ answer.fits
     /\ ~RefusedBy(LinesUnderAgent(answer.lines, token), path)

-----------------------------------------------------------------------------
(***************************************************************************)
(* RFC 9309, section 2.2.1.  Agent lines one after another open one group; *)
(* all groups that name the client are read together, and those of         *)
(* everybody only where none does.                                         *)
(***************************************************************************)
IsMember(line) == line.key \in {"allow", "disallow"}

\* The agents the rule at j is for: the run of agent lines above it, with no rule between them.
GroupAgents(body, j) ==
  {body[k].val : k \in {i \in 1..j :
     /\ body[i].key = "user-agent"
     /\ ~\E m \in i..j, n \in i..j : m < n /\ IsMember(body[m]) /\ body[n].key = "user-agent"}}

RfcLines(body, token) ==
  LET named == \E k \in 1..Len(body) : body[k].key = "user-agent" /\ body[k].val = token
  IN {body[j] : j \in {i \in 1..Len(body) :
        IsRule(body[i]) /\ (IF named THEN token ELSE "*") \in GroupAgents(body, i)}}

\* Files of which both take the same rules: every agent line opens a group of its own, and where
\* this client is named, everybody is not.
GroupsApart(body, token) ==
  /\ \A k, l \in 1..Len(body) :
       k < l /\ body[k].key = "user-agent" /\ body[l].key = "user-agent" =>
         \E m \in k..l : IsMember(body[m])
  /\ \A k, l \in 1..Len(body) :
       body[k].key = "user-agent" /\ body[l].key = "user-agent" /\ body[k].val = token =>
         body[l].val # "*"
=============================================================================
