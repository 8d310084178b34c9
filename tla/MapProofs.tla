------------------------------- MODULE MapProofs -------------------------------
(***************************************************************************)
(* Theorems about Discovery and Robots, for any documents of the site, any *)
(* robots.txt and any limits: what robots.txt says of a path, what a       *)
(* sitemap is read as, and that map reports nothing else and all of it.    *)
(***************************************************************************)
EXTENDS Services, FiniteSetTheorems, SequenceTheorems, TLAPS

IsList(s) == \E S : s \in Seq(S)

-----------------------------------------------------------------------------
(* A pattern matches where its characters can be laid along the path. *)

\* A character takes the pattern from position p of the path to position q.
Follows(c, p, q) ==
  CASE c.char = "$" /\ c.last -> p = Len(c.path) /\ q = p
    [] c.char = "*" -> p <= q /\ q <= Len(c.path)
    [] OTHER -> p < Len(c.path) /\ q = p + 1 /\ c.path[p + 1] = c.char

Lays(chars, i, at) ==
  at \in [1..(i + 1) -> Nat] /\ at[1] = 0 /\ \A k \in 1..i : Follows(chars[k], at[k], at[k + 1])

Reaches(chars, i, reached) == reached = {q \in Nat : \E at : Lays(chars, i, at) /\ at[i + 1] = q}

Matching == INSTANCE FoldRules WITH Step <- Advance, Holds <- Reaches

LEMMA MatchingIsFold ==
  ASSUME NEW chars
  PROVE  FoldLeft(Advance, {0}, chars) = Matching!Fold({0}, chars)
BY DEF Matching!Fold, FoldLeft, MapThenFoldSet, Max, Matching!Max

LEMMA FollowsWithin ==
  ASSUME NEW c, NEW p \in Nat, NEW q \in Nat, Len(c.path) \in Nat, Follows(c, p, q)
  PROVE  q <= Len(c.path)
<1>1. CASE c.char = "$" /\ c.last
  BY <1>1 DEF Follows
<1>2. CASE ~(c.char = "$" /\ c.last) /\ c.char = "*"
  BY <1>2 DEF Follows
<1>3. CASE ~(c.char = "$" /\ c.last) /\ c.char # "*"
  BY <1>3 DEF Follows
<1> QED BY <1>1, <1>2, <1>3

LEMMA AdvanceFollows ==
  ASSUME NEW c, Len(c.path) \in Nat, NEW from \in SUBSET Nat
  PROVE  Advance(from, c) = {q \in Nat : \E p \in from : Follows(c, p, q)}
<1>1. PICK n \in Nat : n = Len(c.path)
  OBVIOUS
<1>2. CASE c.char = "$" /\ c.last
  <2>1. Advance(from, c) = from \cap {n}
    BY <1>1, <1>2 DEF Advance
  <2>2. \A p, q : Follows(c, p, q) <=> p = n /\ q = p
    BY <1>1, <1>2 DEF Follows
  <2> QED BY <2>1, <2>2
<1>3. CASE ~(c.char = "$" /\ c.last) /\ c.char = "*"
  <2>1. Advance(from, c) = {q \in 0..n : \E p \in from : p <= q}
    BY <1>1, <1>3 DEF Advance
  <2>2. \A p, q : Follows(c, p, q) <=> p <= q /\ q <= n
    BY <1>1, <1>3 DEF Follows
  <2> QED BY <1>1, <2>1, <2>2
<1>4. CASE ~(c.char = "$" /\ c.last) /\ c.char # "*"
  <2>1. Advance(from, c) = {p + 1 : p \in {q \in from : q < n /\ c.path[q + 1] = c.char}}
    BY <1>1, <1>4 DEF Advance
  <2>2. \A p, q : Follows(c, p, q) <=> p < n /\ q = p + 1 /\ c.path[p + 1] = c.char
    BY <1>1, <1>4 DEF Follows
  <2>3. \A p \in from : p + 1 \in Nat
    OBVIOUS
  <2> QED BY <2>1, <2>2, <2>3
<1> QED BY <1>2, <1>3, <1>4

\* The first position is the path's start.
LEMMA ReachesStart ==
  ASSUME NEW chars
  PROVE  Reaches(chars, 0, {0})
<1>1. ASSUME NEW at, Lays(chars, 0, at) PROVE at[0 + 1] = 0
  BY <1>1 DEF Lays
<1>2. PICK at : at = [k \in 1..(0 + 1) |-> 0]
  OBVIOUS
<1>3. Lays(chars, 0, at) /\ at[0 + 1] = 0
  BY <1>2 DEF Lays
<1> QED BY <1>1, <1>3 DEF Reaches

LEMMA ReachesNext ==
  ASSUME NEW chars, NEW i \in Nat \ {0}, Len(chars[i].path) \in Nat, NEW reached, Reaches(chars, i - 1, reached)
  PROVE  Reaches(chars, i, Advance(reached, chars[i]))
<1>1. reached \in SUBSET Nat /\ i - 1 \in Nat /\ (i - 1) + 1 = i /\ 1..((i - 1) + 1) = 1..i
  BY DEF Reaches
<1>2. Advance(reached, chars[i]) = {q \in Nat : \E p \in reached : Follows(chars[i], p, q)}
  BY <1>1, AdvanceFollows
<1>3. ASSUME NEW q \in Nat, NEW p \in reached, Follows(chars[i], p, q)
      PROVE  \E at : Lays(chars, i, at) /\ at[i + 1] = q
  <2>1. PICK before : Lays(chars, i - 1, before) /\ before[i] = p
    BY <1>1 DEF Reaches
  <2>2. PICK at : at = [k \in 1..(i + 1) |-> IF k = i + 1 THEN q ELSE before[k]]
    OBVIOUS
  <2>3. before \in [1..i -> Nat] /\ before[1] = 0 /\ \A k \in 1..(i - 1) : Follows(chars[k], before[k], before[k + 1])
    BY <1>1, <2>1 DEF Lays
  <2>4. \A k \in 1..i : at[k] = before[k] /\ k \in 1..(i + 1)
    BY <2>2
  <2>5. at[i + 1] = q
    BY <2>2
  <2>6. at \in [1..(i + 1) -> Nat]
    <3>1. \A k \in 1..(i + 1) : (IF k = i + 1 THEN q ELSE before[k]) \in Nat
      BY <2>3
    <3> QED BY <2>2, <3>1
  <2>7. at[1] = 0
    BY <2>3, <2>4
  <2>8. ASSUME NEW k \in 1..i PROVE Follows(chars[k], at[k], at[k + 1])
    <3>1. CASE k = i
      BY <3>1, <2>1, <2>4, <2>5, <1>3
    <3>2. CASE k # i
      <4>1. k \in 1..(i - 1) /\ k + 1 \in 1..i
        BY <3>2
      <4> QED BY <4>1, <2>3, <2>4
    <3> QED BY <3>1, <3>2
  <2> QED BY <2>5, <2>6, <2>7, <2>8 DEF Lays
<1>4. ASSUME NEW q \in Nat, NEW at, Lays(chars, i, at), at[i + 1] = q
      PROVE  \E p \in reached : Follows(chars[i], p, q)
  <2>1. at \in [1..(i + 1) -> Nat] /\ at[1] = 0 /\ \A k \in 1..i : Follows(chars[k], at[k], at[k + 1])
    BY <1>4 DEF Lays
  <2>2. PICK before : before = [k \in 1..i |-> at[k]]
    OBVIOUS
  <2>3. before \in [1..i -> Nat] /\ \A k \in 1..i : before[k] = at[k]
    BY <2>1, <2>2
  <2>4. \A k \in 1..(i - 1) : k \in 1..i /\ k + 1 \in 1..i
    OBVIOUS
  <2>5. Lays(chars, i - 1, before)
    BY <1>1, <2>1, <2>3, <2>4 DEF Lays
  <2>6. at[i] \in Nat /\ before[(i - 1) + 1] = at[i]
    BY <1>1, <2>1, <2>3
  <2>7. at[i] \in reached
    BY <2>5, <2>6 DEF Reaches
  <2>8. Follows(chars[i], at[i], q)
    BY <2>1, <1>4
  <2> QED BY <2>7, <2>8
<1> QED BY <1>2, <1>3, <1>4 DEF Reaches

\* The pass over the pattern reaches a position exactly if the pattern matches.
LEMMA ReachableMatches ==
  ASSUME NEW pattern, NEW path, IsList(pattern), IsList(path)
  PROVE  Reachable(pattern, path) # {} <=> Matches(pattern, path)
<1> DEFINE chars == [k \in 1..Len(pattern) |-> [char |-> pattern[k], last |-> k = Len(pattern), path |-> path]]
<1>1. PICK n \in Nat : n = Len(pattern)
  BY DEF IsList
<1>2. PICK m \in Nat : m = Len(path)
  BY DEF IsList
<1>3. \A k \in 1..n : chars[k].char = pattern[k] /\ chars[k].last = (k = n) /\ chars[k].path = path
  BY <1>1
<1>4. PICK S : chars \in Seq(S)
  <2>1. PICK R : R = {chars[k] : k \in 1..n}
    OBVIOUS
  <2>2. chars \in [1..n -> R]
    BY <1>1, <2>1
  <2>3. chars \in Seq(R)
    BY <2>2
  <2> QED BY <2>3
<1>5. Len(chars) = n
  BY <1>1
<1>6. Reachable(pattern, path) = Matching!Fold({0}, chars)
  BY MatchingIsFold DEF Reachable
<1> HIDE DEF chars
<1>7. PICK reached : reached = Reachable(pattern, path)
  OBVIOUS
<1>8. Reaches(chars, n, reached)
  <2>1. Reaches(chars, 0, {0})
    BY ReachesStart
  <2>2. \A i \in 1..Len(chars) : \A value : Reaches(chars, i - 1, value) => Reaches(chars, i, Advance(value, chars[i]))
    <3>1. SUFFICES ASSUME NEW i \in 1..n, NEW value, Reaches(chars, i - 1, value)
                   PROVE  Reaches(chars, i, Advance(value, chars[i]))
      BY <1>5
    <3>2. i \in Nat \ {0} /\ Len(chars[i].path) \in Nat
      BY <1>2, <1>3
    <3> QED BY <3>1, <3>2, ReachesNext
  <2> QED BY <1>4, <1>5, <1>6, <1>7, <2>1, <2>2, Matching!FoldRule
<1>9. \A k \in 1..n : \A p, q : Follows(chars[k], p, q) <=>
        CASE pattern[k] = "$" /\ k = n -> p = m /\ q = p
          [] pattern[k] = "*" -> p <= q /\ q <= m
          [] OTHER -> p < m /\ q = p + 1 /\ path[p + 1] = pattern[k]
  <2>1. SUFFICES ASSUME NEW k \in 1..n, NEW p, NEW q
                 PROVE  Follows(chars[k], p, q) <=>
                          CASE pattern[k] = "$" /\ k = n -> p = m /\ q = p
                            [] pattern[k] = "*" -> p <= q /\ q <= m
                            [] OTHER -> p < m /\ q = p + 1 /\ path[p + 1] = pattern[k]
    OBVIOUS
  <2>2. PICK c : c = chars[k]
    OBVIOUS
  <2>3. c.char = pattern[k] /\ c.last = (k = n) /\ c.path = path
    BY <1>3, <2>2
  <2>4. Follows(c, p, q) <=>
          CASE pattern[k] = "$" /\ k = n -> p = m /\ q = p
            [] pattern[k] = "*" -> p <= q /\ q <= m
            [] OTHER -> p < m /\ q = p + 1 /\ path[p + 1] = pattern[k]
    BY <1>2, <2>3 DEF Follows
  <2> QED BY <2>2, <2>4
<1>10. ASSUME reached # {} PROVE Matches(pattern, path)
  <2>1. PICK at : Lays(chars, n, at)
    BY <1>8, <1>10 DEF Reaches
  <2>2. at \in [1..(n + 1) -> Nat] /\ at[1] = 0 /\ \A k \in 1..n : Follows(chars[k], at[k], at[k + 1])
    BY <2>1 DEF Lays
  <2>3. \A k \in 1..n : at[k] \in Nat /\ at[k + 1] \in Nat
    BY <2>2
  <2>4. \A k \in 1..n : at[k + 1] <= m
    BY <2>2, <2>3, <1>2, <1>3, FollowsWithin
  <2>5. \A k \in 1..(n + 1) : at[k] \in 0..m
    <3>1. SUFFICES ASSUME NEW k \in 1..(n + 1) PROVE at[k] \in 0..m
      OBVIOUS
    <3>2. CASE k = 1
      BY <2>2, <3>2
    <3>3. CASE k # 1
      <4>1. k - 1 \in 1..n /\ (k - 1) + 1 = k
        BY <3>3
      <4>2. at[k] <= m
        BY <2>4, <4>1
      <4> QED BY <2>2, <4>2
    <3> QED BY <3>2, <3>3
  <2>6. at \in [1..(n + 1) -> 0..m]
    BY <2>2, <2>5
  <2>7. \A k \in 1..n :
          CASE pattern[k] = "$" /\ k = n -> at[k] = m /\ at[k + 1] = at[k]
            [] pattern[k] = "*" -> at[k] <= at[k + 1]
            [] OTHER -> at[k] < m /\ at[k + 1] = at[k] + 1 /\ path[at[k] + 1] = pattern[k]
    BY <1>9, <2>2
  <2> QED BY <1>1, <1>2, <2>2, <2>6, <2>7 DEF Matches
<1>11. ASSUME Matches(pattern, path) PROVE reached # {}
  <2>1. PICK at \in [1..(n + 1) -> 0..m] :
          /\ at[1] = 0
          /\ \A k \in 1..n :
               CASE pattern[k] = "$" /\ k = n -> at[k] = m /\ at[k + 1] = at[k]
                 [] pattern[k] = "*" -> at[k] <= at[k + 1]
                 [] OTHER -> at[k] < m /\ at[k + 1] = at[k] + 1 /\ path[at[k] + 1] = pattern[k]
    BY <1>1, <1>2, <1>11 DEF Matches
  <2>2. at \in [1..(n + 1) -> Nat] /\ at[n + 1] \in Nat
    BY <2>1
  <2>3. \A k \in 1..n : at[k + 1] <= m
    BY <2>1
  <2>4. \A k \in 1..n : Follows(chars[k], at[k], at[k + 1])
    BY <1>9, <2>1, <2>3
  <2>5. Lays(chars, n, at)
    BY <2>1, <2>2, <2>4 DEF Lays
  <2> QED BY <1>8, <2>2, <2>5 DEF Reaches
<1> QED BY <1>7, <1>10, <1>11

-----------------------------------------------------------------------------
(* Rules are in force below an agent line that names everybody or this client. *)
InForce(reads, i) ==
  \E k \in 1..i : /\ reads[k].line.key = "user-agent" /\ reads[k].ours
                  /\ \A l \in (k + 1)..i : reads[l].line.key # "user-agent"

LinesOf(reads) == {reads[k].line : k \in 1..Len(reads)}
ValuesOf(reads) == {reads[k].line.val : k \in 1..Len(reads)}
RuleLines(reads, i) == {reads[k].line : k \in {m \in 1..i : IsRule(reads[m].line) /\ InForce(reads, m)}}
Elements(s) == {s[j] : j \in 1..Len(s)}

RulesRead(reads, i, acc) ==
  /\ acc = [matching |-> acc.matching, rules |-> acc.rules, sitemaps |-> acc.sitemaps]
  /\ acc.matching = InForce(reads, i)
  /\ acc.rules \in Seq(LinesOf(reads))
  /\ acc.sitemaps \in Seq(ValuesOf(reads))
  /\ Elements(acc.rules) = RuleLines(reads, i)

Directives == INSTANCE FoldRules WITH Step <- RobotsLine, Holds <- RulesRead

LEMMA DirectivesIsFold ==
  ASSUME NEW reads
  PROVE  FoldLeft(RobotsLine, NoRules, reads) = Directives!Fold(NoRules, reads)
BY DEF Directives!Fold, FoldLeft, MapThenFoldSet, Max, Directives!Max

\* An agent line decides for what is below it; any other line leaves it as it is.
LEMMA InForceNext ==
  ASSUME NEW reads, NEW i \in Nat \ {0}
  PROVE  /\ reads[i].line.key = "user-agent" => (InForce(reads, i) <=> reads[i].ours)
         /\ reads[i].line.key # "user-agent" => (InForce(reads, i) <=> InForce(reads, i - 1))
<1>1. i \in 1..i /\ (i + 1)..i = {}
  OBVIOUS
<1>2. ASSUME reads[i].line.key = "user-agent" PROVE InForce(reads, i) <=> reads[i].ours
  <2>1. reads[i].ours => InForce(reads, i)
    BY <1>1, <1>2 DEF InForce
  <2>2. ASSUME InForce(reads, i) PROVE reads[i].ours
    <3>1. PICK k \in 1..i : /\ reads[k].line.key = "user-agent" /\ reads[k].ours
                            /\ \A l \in (k + 1)..i : reads[l].line.key # "user-agent"
      BY <2>2 DEF InForce
    <3>2. k # i => i \in (k + 1)..i
      BY <3>1
    <3> QED BY <1>2, <3>1, <3>2
  <2> QED BY <2>1, <2>2
<1>3. ASSUME reads[i].line.key # "user-agent" PROVE InForce(reads, i) <=> InForce(reads, i - 1)
  <2>1. ASSUME InForce(reads, i) PROVE InForce(reads, i - 1)
    <3>1. PICK k \in 1..i : /\ reads[k].line.key = "user-agent" /\ reads[k].ours
                            /\ \A l \in (k + 1)..i : reads[l].line.key # "user-agent"
      BY <2>1 DEF InForce
    <3>2. k \in 1..(i - 1)
      BY <1>3, <3>1
    <3>3. \A l \in (k + 1)..(i - 1) : l \in (k + 1)..i
      BY <3>2
    <3> QED BY <3>1, <3>2, <3>3 DEF InForce
  <2>2. ASSUME InForce(reads, i - 1) PROVE InForce(reads, i)
    <3>1. PICK k \in 1..(i - 1) : /\ reads[k].line.key = "user-agent" /\ reads[k].ours
                                  /\ \A l \in (k + 1)..(i - 1) : reads[l].line.key # "user-agent"
      BY <2>2 DEF InForce
    <3>2. k \in 1..i /\ \A l \in (k + 1)..i : l = i \/ l \in (k + 1)..(i - 1)
      BY <3>1
    <3>3. \A l \in (k + 1)..i : reads[l].line.key # "user-agent"
      BY <1>3, <3>1, <3>2
    <3> QED BY <3>1, <3>2, <3>3 DEF InForce
  <2> QED BY <2>1, <2>2
<1> QED BY <1>2, <1>3

\* The rules of a line more are those so far and, if it is a rule in force, the line.
LEMMA RuleLinesNext ==
  ASSUME NEW reads, NEW i \in Nat \ {0}
  PROVE  RuleLines(reads, i) =
           RuleLines(reads, i - 1)
           \cup (IF IsRule(reads[i].line) /\ InForce(reads, i) THEN {reads[i].line} ELSE {})
<1>1. 1..i = (1..(i - 1)) \cup {i}
  OBVIOUS
<1>2. CASE IsRule(reads[i].line) /\ InForce(reads, i)
  <2>1. {m \in 1..i : IsRule(reads[m].line) /\ InForce(reads, m)} =
        {m \in 1..(i - 1) : IsRule(reads[m].line) /\ InForce(reads, m)} \cup {i}
    BY <1>1, <1>2, Zenon
  <2> QED BY <1>2, <2>1 DEF RuleLines
<1>3. CASE ~(IsRule(reads[i].line) /\ InForce(reads, i))
  <2>1. {m \in 1..i : IsRule(reads[m].line) /\ InForce(reads, m)} =
        {m \in 1..(i - 1) : IsRule(reads[m].line) /\ InForce(reads, m)}
    BY <1>1, <1>3, Zenon
  <2> QED BY <1>3, <2>1 DEF RuleLines
<1> QED BY <1>2, <1>3

LEMMA ElementsOfAppend ==
  ASSUME NEW S, NEW s \in Seq(S), NEW x \in S
  PROVE  Elements(Append(s, x)) = Elements(s) \cup {x}
<1>1. PICK more : more = Append(s, x)
  OBVIOUS
<1>2. /\ more \in Seq(S) /\ Len(more) = Len(s) + 1 /\ Len(s) \in Nat
      /\ more[Len(s) + 1] = x /\ \A j \in 1..Len(s) : more[j] = s[j]
  BY <1>1
<1>3. 1..Len(more) = 1..Len(s) \cup {Len(s) + 1}
  BY <1>2
<1>4. Elements(more) = Elements(s) \cup {x}
  BY <1>2, <1>3 DEF Elements
<1> QED BY <1>1, <1>4

LEMMA ElementsAreToSet ==
  ASSUME NEW S, NEW s \in Seq(S)
  PROVE  ToSet(s) = Elements(s) /\ Elements(s) \subseteq S
<1>1. DOMAIN s = 1..Len(s) /\ \A j \in 1..Len(s) : s[j] \in S
  OBVIOUS
<1> QED BY <1>1 DEF ToSet, Elements

\* What a line does to what was read so far.
LEMMA LineTaken ==
  ASSUME NEW acc, NEW matching, NEW rules, NEW sitemaps, NEW read, NEW after,
         acc = [matching |-> matching, rules |-> rules, sitemaps |-> sitemaps],
         after = RobotsLine(acc, read)
  PROVE  /\ after = [matching |-> after.matching, rules |-> after.rules, sitemaps |-> after.sitemaps]
         /\ after.matching = (IF read.line.key = "user-agent" THEN read.ours ELSE matching)
         /\ after.rules = (IF IsRule(read.line) /\ matching THEN Append(rules, read.line) ELSE rules)
         /\ after.sitemaps = (IF read.line.key = "sitemap" THEN Append(sitemaps, read.line.val) ELSE sitemaps)
<1>0. acc = [matching |-> matching, rules |-> rules, sitemaps |-> sitemaps]
  OBVIOUS
<1>1. after = RobotsLine(acc, read) /\ acc.matching = matching /\ acc.rules = rules /\ acc.sitemaps = sitemaps
  BY <1>0
<1>2. CASE read.line.key = "sitemap"
  <2>1. ~(read.line.key = "user-agent") /\ ~IsRule(read.line)
    BY <1>2 DEF IsRule
  <2>2. after = [acc EXCEPT !.sitemaps = Append(acc.sitemaps, read.line.val)]
    BY <1>1, <1>2, <2>1 DEF RobotsLine
  <2> QED BY <1>0, <1>1, <1>2, <2>1, <2>2
<1>3. CASE read.line.key = "user-agent"
  <2>1. ~(read.line.key = "sitemap") /\ ~IsRule(read.line)
    BY <1>3 DEF IsRule
  <2>2. after = [acc EXCEPT !.matching = read.ours]
    BY <1>1, <1>3, <2>1 DEF RobotsLine
  <2> QED BY <1>0, <1>1, <1>3, <2>1, <2>2
<1>4. CASE IsRule(read.line) /\ matching
  <2>1. ~(read.line.key = "sitemap") /\ ~(read.line.key = "user-agent")
    BY <1>4 DEF IsRule
  <2>2. after = [acc EXCEPT !.rules = Append(acc.rules, read.line)]
    BY <1>1, <1>4, <2>1 DEF RobotsLine
  <2> QED BY <1>0, <1>1, <1>4, <2>1, <2>2
<1>5. CASE ~(read.line.key = "sitemap") /\ ~(read.line.key = "user-agent") /\ ~(IsRule(read.line) /\ matching)
  <2>1. after = acc
    BY <1>1, <1>5 DEF RobotsLine
  <2> QED BY <1>0, <1>1, <1>5, <2>1
<1> QED BY <1>2, <1>3, <1>4, <1>5

LEMMA DirectiveRead ==
  ASSUME NEW reads, NEW i \in 1..Len(reads), Len(reads) \in Nat, reads[i].ours \in BOOLEAN,
         NEW acc, RulesRead(reads, i - 1, acc)
  PROVE  RulesRead(reads, i, RobotsLine(acc, reads[i]))
<1>1. PICK read : read = reads[i]
  OBVIOUS
<1>2. i \in Nat \ {0} /\ read.line \in LinesOf(reads) /\ read.line.val \in ValuesOf(reads)
  BY <1>1 DEF LinesOf, ValuesOf
<1>3. PICK matching, rules, sitemaps : matching = acc.matching /\ rules = acc.rules /\ sitemaps = acc.sitemaps
  OBVIOUS
<1>4. /\ acc = [matching |-> matching, rules |-> rules, sitemaps |-> sitemaps]
      /\ matching = InForce(reads, i - 1)
      /\ rules \in Seq(LinesOf(reads)) /\ sitemaps \in Seq(ValuesOf(reads))
      /\ Elements(rules) = RuleLines(reads, i - 1)
  BY <1>3 DEF RulesRead
<1>5. PICK after : after = RobotsLine(acc, read)
  OBVIOUS
<1>6. after = RobotsLine(acc, reads[i])
  BY <1>1, <1>5
<1>7. /\ after = [matching |-> after.matching, rules |-> after.rules, sitemaps |-> after.sitemaps]
      /\ after.matching = (IF read.line.key = "user-agent" THEN read.ours ELSE matching)
      /\ after.rules = (IF IsRule(read.line) /\ matching THEN Append(rules, read.line) ELSE rules)
      /\ after.sitemaps = (IF read.line.key = "sitemap" THEN Append(sitemaps, read.line.val) ELSE sitemaps)
  BY <1>4, <1>5, LineTaken
<1>8. after.matching = InForce(reads, i)
  <2>1. /\ read.line.key = "user-agent" => (InForce(reads, i) <=> read.ours)
        /\ read.line.key # "user-agent" => (InForce(reads, i) <=> matching)
    BY <1>1, <1>2, <1>4, InForceNext
  <2>2. InForce(reads, i) \in BOOLEAN /\ matching \in BOOLEAN /\ read.ours \in BOOLEAN
    BY <1>1, <1>4 DEF InForce
  <2> QED BY <1>7, <2>1, <2>2
<1>9. after.rules \in Seq(LinesOf(reads)) /\ after.sitemaps \in Seq(ValuesOf(reads))
  BY <1>2, <1>4, <1>7
<1>10. Elements(after.rules) = RuleLines(reads, i)
  <2>1. IsRule(read.line) => (InForce(reads, i) <=> matching)
    <3>1. IsRule(read.line) => read.line.key # "user-agent"
      BY DEF IsRule
    <3> QED BY <1>1, <1>2, <1>4, <3>1, InForceNext
  <2>2. RuleLines(reads, i) =
          Elements(rules) \cup (IF IsRule(read.line) /\ InForce(reads, i) THEN {read.line} ELSE {})
    BY <1>1, <1>2, <1>4, RuleLinesNext
  <2>3. CASE IsRule(read.line) /\ matching
    <3>1. Elements(Append(rules, read.line)) = Elements(rules) \cup {read.line}
      BY <1>2, <1>4, ElementsOfAppend
    <3> QED BY <1>7, <2>1, <2>2, <2>3, <3>1
  <2>4. CASE ~(IsRule(read.line) /\ matching)
    BY <1>7, <2>1, <2>2, <2>4
  <2> QED BY <2>3, <2>4
<1>11. RulesRead(reads, i, after)
  BY <1>7, <1>8, <1>9, <1>10 DEF RulesRead
<1> QED BY <1>6, <1>11

\* What is read of a robots.txt are the rules in force in it.
LEMMA RulesAreInForce ==
  ASSUME NEW body, IsList(body), NEW agent
  PROVE  /\ IsList(RobotsRules(body, agent).rules) /\ IsList(RobotsRules(body, agent).sitemaps)
         /\ ToSet(RobotsRules(body, agent).rules) = LinesUnderAgent(body, agent)
<1> DEFINE reads == [k \in 1..Len(body) |->
                       [line |-> body[k],
                        ours |-> body[k].key = "user-agent" /\ AgentMatches(body[k].val, agent)]]
<1>1. PICK n \in Nat : n = Len(body)
  BY DEF IsList
<1>2. \A k \in 1..n : reads[k].line = body[k]
                      /\ reads[k].ours = (body[k].key = "user-agent" /\ AgentMatches(body[k].val, agent))
  BY <1>1
<1>3. PICK S : reads \in Seq(S)
  <2>1. PICK R : R = {reads[k] : k \in 1..n}
    OBVIOUS
  <2>2. reads \in [1..n -> R]
    BY <1>1, <2>1
  <2>3. reads \in Seq(R)
    BY <2>2
  <2> QED BY <2>3
<1>4. Len(reads) = n
  BY <1>1
<1>5. RobotsRules(body, agent) = Directives!Fold(NoRules, reads)
  BY DirectivesIsFold DEF RobotsRules
<1> HIDE DEF reads
<1>6. PICK read : read = RobotsRules(body, agent)
  OBVIOUS
<1>7. RulesRead(reads, n, read)
  <2>1. RulesRead(reads, 0, NoRules)
    <3>1. PICK none : none = <<>>
      OBVIOUS
    <3>2. none \in Seq(LinesOf(reads)) /\ none \in Seq(ValuesOf(reads)) /\ Len(none) = 0
      BY <3>1
    <3>3. NoRules.matching = FALSE /\ NoRules.rules = none /\ NoRules.sitemaps = none
          /\ NoRules = [matching |-> NoRules.matching, rules |-> NoRules.rules, sitemaps |-> NoRules.sitemaps]
      BY <3>1 DEF NoRules
    <3>4. InForce(reads, 0) = FALSE
      BY DEF InForce
    <3>5. Elements(none) = RuleLines(reads, 0)
      <4>1. 1..Len(none) = {} /\ 1..0 = {}
        BY <3>2
      <4> QED BY <4>1 DEF Elements, RuleLines
    <3> QED BY <3>2, <3>3, <3>4, <3>5 DEF RulesRead
  <2>2. \A i \in 1..Len(reads) : \A value :
          RulesRead(reads, i - 1, value) => RulesRead(reads, i, RobotsLine(value, reads[i]))
    <3>1. SUFFICES ASSUME NEW i \in 1..Len(reads), NEW value, RulesRead(reads, i - 1, value)
                   PROVE  RulesRead(reads, i, RobotsLine(value, reads[i]))
      OBVIOUS
    <3>2. Len(reads) \in Nat /\ reads[i].ours \in BOOLEAN
      BY <1>2, <1>4
    <3> QED BY <3>1, <3>2, DirectiveRead
  <2> QED BY <1>3, <1>4, <1>5, <1>6, <2>1, <2>2, Directives!FoldRule
<1>8. IsList(read.rules) /\ IsList(read.sitemaps)
  BY <1>7 DEF RulesRead, IsList
<1>9. ToSet(read.rules) = RuleLines(reads, n)
  BY <1>7, ElementsAreToSet DEF RulesRead
<1>10. ASSUME NEW m \in 1..n
       PROVE  InForce(reads, m) <=>
                \E k \in 1..m : /\ body[k].key = "user-agent" /\ body[k].val \in {"*", agent}
                                /\ \A l \in (k + 1)..m : body[l].key # "user-agent"
  <2>1. \A k \in 1..m : k \in 1..n
    OBVIOUS
  <2>2. \A k \in 1..m : \A l \in (k + 1)..m : l \in 1..n
    OBVIOUS
  <2>3. \A k \in 1..m : reads[k].line.key = "user-agent" /\ reads[k].ours <=>
                          body[k].key = "user-agent" /\ body[k].val \in {"*", agent}
    BY <1>2, <2>1 DEF AgentMatches
  <2>4. \A k \in 1..m : (\A l \in (k + 1)..m : reads[l].line.key # "user-agent") <=>
                          (\A l \in (k + 1)..m : body[l].key # "user-agent")
    BY <1>2, <2>2
  <2> QED BY <2>3, <2>4 DEF InForce
<1>11. RuleLines(reads, n) = LinesUnderAgent(body, agent)
  <2>1. {m \in 1..n : IsRule(reads[m].line) /\ InForce(reads, m)} =
        {j \in 1..n : /\ IsRule(body[j])
                      /\ \E k \in 1..j : /\ body[k].key = "user-agent" /\ body[k].val \in {"*", agent}
                                         /\ \A l \in (k + 1)..j : body[l].key # "user-agent"}
    BY <1>2, <1>10
  <2>2. \A k \in 1..n : reads[k].line = body[k]
    BY <1>2
  <2> QED BY <1>1, <2>1, <2>2 DEF RuleLines, LinesUnderAgent
<1> QED BY <1>6, <1>8, <1>9, <1>11

-----------------------------------------------------------------------------
(* The longest match decides, and an allow that is as long as it. *)
Decides(ms, i, best) ==
  /\ best.len \in Nat /\ best.allowed \in BOOLEAN
  /\ \A k \in 1..i : ms[k].len \in Nat /\ ms[k].len <= best.len
  /\ best.len = 0 => best.allowed
  /\ best.len > 0 => \E k \in 1..i : ms[k].len = best.len /\ ms[k].allow = best.allowed
  /\ \A k \in 1..i : ms[k].len = best.len /\ best.len > 0 /\ ms[k].allow => best.allowed

Matched == INSTANCE FoldRules WITH Step <- Better, Holds <- Decides

LEMMA MatchedIsFold ==
  ASSUME NEW ms
  PROVE  FoldLeft(Better, [len |-> 0, allowed |-> TRUE], ms) = Matched!Fold([len |-> 0, allowed |-> TRUE], ms)
BY DEF Matched!Fold, FoldLeft, MapThenFoldSet, Max, Matched!Max

LEMMA BetterDecides ==
  ASSUME NEW ms, NEW i \in Nat \ {0}, ms[i].len \in Nat, ms[i].allow \in BOOLEAN,
         NEW best, Decides(ms, i - 1, best)
  PROVE  Decides(ms, i, Better(best, ms[i]))
<1>1. PICK r : r = ms[i]
  OBVIOUS
<1>2. /\ best.len \in Nat /\ best.allowed \in BOOLEAN
      /\ \A k \in 1..(i - 1) : ms[k].len \in Nat /\ ms[k].len <= best.len
      /\ best.len = 0 => best.allowed
      /\ best.len > 0 => \E k \in 1..(i - 1) : ms[k].len = best.len /\ ms[k].allow = best.allowed
      /\ \A k \in 1..(i - 1) : ms[k].len = best.len /\ best.len > 0 /\ ms[k].allow => best.allowed
  BY DEF Decides
<1>3. 1..i = (1..(i - 1)) \cup {i}
  OBVIOUS
<1>4. PICK next : next = Better(best, r)
  OBVIOUS
<1>5. CASE r.len > 0 /\ (r.len > best.len \/ (r.len = best.len /\ r.allow))
  <2>1. next.len = r.len /\ next.allowed = r.allow
    BY <1>4, <1>5 DEF Better
  <2>2. \A k \in 1..(i - 1) : ms[k].len \in Nat /\ ms[k].len <= r.len /\ (ms[k].len = r.len /\ ms[k].allow => r.allow)
    <3>1. SUFFICES ASSUME NEW k \in 1..(i - 1)
                   PROVE  ms[k].len \in Nat /\ ms[k].len <= r.len /\ (ms[k].len = r.len /\ ms[k].allow => r.allow)
      OBVIOUS
    <3>2. ms[k].len \in Nat /\ ms[k].len <= best.len /\ best.len \in Nat /\ r.len \in Nat
      BY <1>1, <1>2
    <3>4. CASE r.len = best.len /\ r.allow
      BY <3>2, <3>4
    <3>5. CASE r.len > best.len
      BY <3>2, <3>5
    <3> QED BY <1>5, <3>4, <3>5
  <2>3. Decides(ms, i, next)
    BY <1>1, <1>3, <1>5, <2>1, <2>2 DEF Decides
  <2> QED BY <1>1, <1>4, <2>3
<1>6. CASE ~(r.len > 0 /\ (r.len > best.len \/ (r.len = best.len /\ r.allow)))
  <2>1. next = best
    BY <1>4, <1>6 DEF Better
  <2>2. r.len <= best.len /\ (r.len = best.len /\ best.len > 0 => ~r.allow)
    BY <1>1, <1>2, <1>6
  <2>3. Decides(ms, i, best)
    BY <1>1, <1>2, <1>3, <2>2 DEF Decides
  <2> QED BY <1>1, <1>4, <2>1, <2>3
<1> QED BY <1>5, <1>6

\* A page is allowed unless a rule refuses it that is longer than every rule that allows it.
LEMMA LongestDecides ==
  ASSUME NEW rules, IsList(rules), NEW path, IsList(path),
         \A k \in 1..Len(rules) :
            rules[k].key \in {"allow", "disallow"} /\ IsList(rules[k].val) /\ rules[k].val # <<>>
  PROVE  RulesAllow(rules, path) <=> ~RefusedBy(ToSet(rules), path)
<1> DEFINE ms == [k \in 1..Len(rules) |-> [len |-> PatternMatchLen(rules[k].val, path),
                                           allow |-> rules[k].key = "allow"]]
<1>1. PICK n \in Nat : n = Len(rules)
  BY DEF IsList
<1>2. \A k \in 1..n : ms[k].len = PatternMatchLen(rules[k].val, path) /\ ms[k].allow = (rules[k].key = "allow")
  BY <1>1
<1>3. PICK S : ms \in Seq(S)
  <2>1. PICK R : R = {ms[k] : k \in 1..n}
    OBVIOUS
  <2>2. ms \in [1..n -> R]
    BY <1>1, <2>1
  <2>3. ms \in Seq(R)
    BY <2>2
  <2> QED BY <2>3
<1>4. Len(ms) = n
  BY <1>1
<1>5. RulesAllow(rules, path) = Matched!Fold([len |-> 0, allowed |-> TRUE], ms).allowed
  BY MatchedIsFold DEF RulesAllow
<1> HIDE DEF ms
<1>6. \A k \in 1..n : /\ ms[k].len \in Nat /\ ms[k].allow \in BOOLEAN
                      /\ (ms[k].len > 0 <=> Matches(rules[k].val, path))
                      /\ (ms[k].len > 0 => ms[k].len = Len(rules[k].val))
  <2>1. SUFFICES ASSUME NEW k \in 1..n
                 PROVE  /\ ms[k].len \in Nat /\ ms[k].allow \in BOOLEAN
                        /\ (ms[k].len > 0 <=> Matches(rules[k].val, path))
                        /\ (ms[k].len > 0 => ms[k].len = Len(rules[k].val))
    OBVIOUS
  <2>2. PICK pattern : pattern = rules[k].val
    OBVIOUS
  <2>3. Len(pattern) \in Nat \ {0}
    BY <1>1, <2>2 DEF IsList
  <2>4. Reachable(pattern, path) # {} <=> Matches(pattern, path)
    BY <1>1, <2>2, ReachableMatches
  <2>5. ms[k].len = IF Reachable(pattern, path) = {} THEN 0 ELSE Len(pattern)
    BY <1>2, <2>2 DEF PatternMatchLen
  <2>6. ms[k].allow \in BOOLEAN
    BY <1>2
  <2> QED BY <2>2, <2>3, <2>4, <2>5, <2>6
<1>7. PICK best : best = Matched!Fold([len |-> 0, allowed |-> TRUE], ms)
  OBVIOUS
<1>8. Decides(ms, n, best)
  <2>1. Decides(ms, 0, [len |-> 0, allowed |-> TRUE])
    BY DEF Decides
  <2>2. \A i \in 1..Len(ms) : \A value : Decides(ms, i - 1, value) => Decides(ms, i, Better(value, ms[i]))
    <3>1. SUFFICES ASSUME NEW i \in 1..n, NEW value, Decides(ms, i - 1, value)
                   PROVE  Decides(ms, i, Better(value, ms[i]))
      BY <1>4
    <3>2. i \in Nat \ {0}
      OBVIOUS
    <3> QED BY <1>6, <3>1, <3>2, BetterDecides
  <2> QED BY <1>3, <1>4, <1>7, <2>1, <2>2, Matched!FoldRule
<1>9. ToSet(rules) = {rules[k] : k \in 1..n}
  <2>1. DOMAIN rules = 1..n
    BY <1>1 DEF IsList
  <2> QED BY <2>1 DEF ToSet
<1>10. ASSUME RefusedBy(ToSet(rules), path), best.allowed PROVE FALSE
  <2>1. PICK d \in ToSet(rules) :
          /\ d.key = "disallow" /\ Matches(d.val, path)
          /\ \A a \in ToSet(rules) : a.key = "allow" /\ Matches(a.val, path) => Len(a.val) < Len(d.val)
    BY <1>10 DEF RefusedBy
  <2>2. PICK k \in 1..n : rules[k] = d
    BY <1>9, <2>1
  <2>3. ms[k].len > 0 /\ ms[k].len = Len(d.val) /\ ms[k].len <= best.len
    BY <1>6, <1>8, <2>1, <2>2 DEF Decides
  <2>4. best.len > 0 /\ best.len \in Nat
    BY <1>6, <1>8, <2>3 DEF Decides
  <2>5. PICK j \in 1..n : ms[j].len = best.len /\ ms[j].allow
    BY <1>8, <1>10, <2>4 DEF Decides
  <2>6. rules[j].key = "allow" /\ Matches(rules[j].val, path) /\ Len(rules[j].val) = best.len
    BY <1>2, <1>6, <2>4, <2>5
  <2>7. best.len < Len(d.val)
    BY <1>9, <2>1, <2>6
  <2> QED BY <1>6, <2>3, <2>4, <2>7
<1>11. ASSUME ~best.allowed PROVE RefusedBy(ToSet(rules), path)
  <2>1. best.len \in Nat /\ best.len > 0
    BY <1>8, <1>11 DEF Decides
  <2>2. PICK k \in 1..n : ms[k].len = best.len /\ ~ms[k].allow
    BY <1>8, <1>11, <2>1 DEF Decides
  <2>3. rules[k].key = "disallow" /\ Matches(rules[k].val, path) /\ Len(rules[k].val) = best.len
    <3>1. rules[k].key # "allow" /\ rules[k].key \in {"allow", "disallow"}
      BY <1>1, <1>2, <2>2
    <3> QED BY <1>6, <2>1, <2>2, <3>1
  <2>4. ASSUME NEW a \in ToSet(rules), a.key = "allow", Matches(a.val, path)
        PROVE  Len(a.val) < Len(rules[k].val)
    <3>1. PICK j \in 1..n : rules[j] = a
      BY <1>9
    <3>2. ms[j].allow /\ ms[j].len > 0 /\ ms[j].len = Len(a.val) /\ ms[j].len \in Nat
      BY <1>2, <1>6, <2>4, <3>1
    <3>3. ms[j].len <= best.len /\ ms[j].len # best.len
      BY <1>8, <1>11, <2>1, <3>2 DEF Decides
    <3> QED BY <2>1, <2>3, <3>2, <3>3
  <2>5. rules[k] \in ToSet(rules)
    BY <1>9
  <2> QED BY <2>3, <2>4, <2>5 DEF RefusedBy
<1> QED BY <1>5, <1>7, <1>10, <1>11

\* What a robots.txt may hold: lines, whose rules are written as sequences of characters.
RobotsFile(lines) ==
  /\ IsList(lines)
  /\ \A k \in 1..Len(lines) : IsRule(lines[k]) => IsList(lines[k].val)

\* What robots.rs decides (is_allowed, pattern_match_len) is what the rules say that its parser takes:
\* those whose nearest agent line names everybody or this client.
THEOREM RobotsDecides ==
  ASSUME NEW a, a.status \in Nat, a.fits \in BOOLEAN, RobotsFile(a.lines), NEW agent, NEW path, IsList(path)
  PROVE  RobotsAllows(RobotsPolicy(a, agent), path) <=> RefAllowed(a, agent, path)
<1>1. CASE a.status \in {0, 401, 403, 429} \cup 500..599
  <2>1. RobotsPolicy(a, agent) = [kind |-> "unreachable"]
    <3>1. a.status \notin 400..499 \ {401, 403, 429}
      BY <1>1
    <3> QED BY <1>1, <3>1 DEF RobotsPolicy
  <2>2. RobotsAllows(RobotsPolicy(a, agent), path) = FALSE
    BY <2>1 DEF RobotsAllows
  <2>3. ~RefAllowed(a, agent, path)
    BY <1>1 DEF RefAllowed
  <2> QED BY <2>2, <2>3
<1>2. CASE a.status \in 400..499 \ {401, 403, 429}
  <2>1. RobotsPolicy(a, agent) = [kind |-> "unavailable"]
    <3>1. a.status \notin {0, 401, 403, 429} \cup 500..599
      BY <1>2
    <3> QED BY <1>2, <3>1 DEF RobotsPolicy
  <2>2. RobotsAllows(RobotsPolicy(a, agent), path) = TRUE
    BY <2>1 DEF RobotsAllows
  <2> QED BY <1>2, <2>2 DEF RefAllowed
<1>3. CASE a.status \notin {0} \cup 400..599
  <2>1. a.status \notin {0, 401, 403, 429} \cup 500..599 /\ a.status \notin 400..499 \ {401, 403, 429}
    BY <1>3
  <2>2. CASE ~a.fits
    <3>1. RobotsPolicy(a, agent) = [kind |-> "unreachable"]
      BY <2>1, <2>2 DEF RobotsPolicy
    <3>2. RobotsAllows(RobotsPolicy(a, agent), path) = FALSE
      BY <3>1 DEF RobotsAllows
    <3> QED BY <2>1, <2>2, <3>2 DEF RefAllowed
  <2>3. CASE a.fits
    <3>1. PICK rules : rules = RobotsRules(a.lines, agent).rules
      OBVIOUS
    <3>2. PICK policy : policy = RobotsPolicy(a, agent)
      OBVIOUS
    <3>3. policy.kind = "rules" /\ policy.rules = rules
      BY <2>1, <2>3, <3>1, <3>2 DEF RobotsPolicy
    <3>4. RobotsAllows(policy, path) = RulesAllow(rules, path)
      BY <3>3 DEF RobotsAllows
    <3>5. IsList(rules) /\ ToSet(rules) = LinesUnderAgent(a.lines, agent)
      BY <3>1, RulesAreInForce DEF RobotsFile
    <3>6. \A k \in 1..Len(rules) :
            rules[k].key \in {"allow", "disallow"} /\ IsList(rules[k].val) /\ rules[k].val # <<>>
      <4>1. SUFFICES ASSUME NEW k \in 1..Len(rules)
                     PROVE  IsRule(rules[k]) /\ IsList(rules[k].val)
        BY DEF IsRule
      <4>2. rules[k] \in LinesUnderAgent(a.lines, agent)
        <5>1. DOMAIN rules = 1..Len(rules)
          BY <3>5 DEF IsList
        <5>2. rules[k] \in ToSet(rules)
          BY <5>1 DEF ToSet
        <5> QED BY <3>5, <5>2
      <4>3. PICK j \in 1..Len(a.lines) : rules[k] = a.lines[j] /\ IsRule(a.lines[j])
        BY <4>2 DEF LinesUnderAgent
      <4> QED BY <4>3 DEF RobotsFile
    <3>7. RulesAllow(rules, path) <=> ~RefusedBy(LinesUnderAgent(a.lines, agent), path)
      BY <3>5, <3>6, LongestDecides
    <3> QED BY <1>3, <2>3, <3>2, <3>4, <3>7 DEF RefAllowed
  <2> QED BY <2>2, <2>3
<1>4. a.status \in {0, 401, 403, 429} \cup 500..599 \/ a.status \in 400..499 \ {401, 403, 429}
      \/ a.status \notin {0} \cup 400..599
  OBVIOUS
<1> QED BY <1>1, <1>2, <1>3, <1>4

\* Where every agent line opens a group of its own, and everybody's rules do not stand beside this
\* client's, the parser (robots.rs) takes the rules of RFC 9309.
LEMMA SameRules ==
  ASSUME NEW body, IsList(body), NEW agent, GroupsApart(body, agent)
  PROVE  LinesUnderAgent(body, agent) = RfcLines(body, agent)
<1> DEFINE named == \E k \in 1..Len(body) : body[k].key = "user-agent" /\ body[k].val = agent
<1> DEFINE wanted == IF named THEN agent ELSE "*"
<1>1. Len(body) \in Nat
  BY DEF IsList
<1>2. ASSUME NEW j \in 1..Len(body), NEW k \in 1..j, body[k].key = "user-agent",
             \A l \in (k + 1)..j : body[l].key # "user-agent", body[k].val \in {"*", agent}
      PROVE  wanted \in GroupAgents(body, j)
  <2>1. k \in 1..Len(body)
    BY <1>1, <1>2
  <2>2. body[k].val = wanted
    <3>1. CASE named
      BY <1>2, <2>1, <3>1 DEF GroupsApart
    <3>2. CASE ~named
      BY <1>2, <2>1, <3>2
    <3> QED BY <3>1, <3>2
  <2>3. ~\E m \in k..j, n \in k..j : m < n /\ IsMember(body[m]) /\ body[n].key = "user-agent"
    <3>1. \A m \in k..j, n \in k..j : m < n => n \in (k + 1)..j
      BY <1>1
    <3> QED BY <1>2, <3>1
  <2> QED BY <1>2, <2>2, <2>3 DEF GroupAgents
<1>3. ASSUME NEW j \in 1..Len(body), wanted \in GroupAgents(body, j)
      PROVE  \E k \in 1..j : /\ body[k].key = "user-agent" /\ body[k].val \in {"*", agent}
                             /\ \A l \in (k + 1)..j : body[l].key # "user-agent"
  <2>1. PICK k \in 1..j :
          /\ body[k].key = "user-agent" /\ body[k].val = wanted
          /\ ~\E m \in k..j, n \in k..j : m < n /\ IsMember(body[m]) /\ body[n].key = "user-agent"
    BY <1>3 DEF GroupAgents
  <2>2. ASSUME NEW l \in (k + 1)..j, body[l].key = "user-agent" PROVE FALSE
    <3>1. k \in 1..Len(body) /\ l \in 1..Len(body) /\ k < l /\ l \in k..j
      BY <1>1
    <3>2. PICK m \in k..l : IsMember(body[m])
      BY <2>1, <2>2, <3>1 DEF GroupsApart
    <3>3. m # l
      BY <2>2, <3>2 DEF IsMember
    <3>4. m \in k..j /\ m < l
      BY <1>1, <3>3
    <3> QED BY <2>1, <2>2, <3>1, <3>2, <3>4
  <2>3. wanted \in {"*", agent}
    OBVIOUS
  <2> QED BY <2>1, <2>2, <2>3
<1>4. RfcLines(body, agent) =
        {body[j] : j \in {i \in 1..Len(body) : IsRule(body[i]) /\ wanted \in GroupAgents(body, i)}}
  BY DEF RfcLines
<1> HIDE DEF wanted
<1> QED BY <1>2, <1>3, <1>4 DEF LinesUnderAgent

\* A robots.txt of such groups, if it was answered in full, refuses to robots.rs (classify_response,
\* is_allowed) just the paths that RFC 9309 refuses to this client.
THEOREM RobotsFollowRfc ==
  ASSUME NEW a, a.status \in Nat \ (400..599 \cup {0}), a.fits = TRUE, RobotsFile(a.lines),
         NEW agent, NEW path, IsList(path), GroupsApart(a.lines, agent)
  PROVE  RobotsAllows(RobotsPolicy(a, agent), path) <=> ~RefusedBy(RfcLines(a.lines, agent), path)
<1>1. RobotsAllows(RobotsPolicy(a, agent), path) <=> RefAllowed(a, agent, path)
  BY RobotsDecides
<1>2. LinesUnderAgent(a.lines, agent) = RfcLines(a.lines, agent)
  BY SameRules DEF RobotsFile
<1>3. RefAllowed(a, agent, path) <=> ~RefusedBy(LinesUnderAgent(a.lines, agent), path)
  BY DEF RefAllowed
<1> QED BY <1>1, <1>2, <1>3

-----------------------------------------------------------------------------
(* A sitemap is read node by node, whatever is nested in a node. *)

\* The parser inside a node of which this much is collected, d elements deep.
Inside(tag, capture, locs, dates, d, es) ==
  [capture |-> capture, loc |-> locs, lastmod |-> dates, inUrl |-> tag = "url",
   inSitemap |-> tag = "sitemap", depth |-> d, entries |-> es]

Outside(es) ==
  [capture |-> "idle", loc |-> <<>>, lastmod |-> <<>>, inUrl |-> FALSE, inSitemap |-> FALSE,
   depth |-> 0, entries |-> es]

\* The entry of a node; the date counts only for a page.
EntryOf(node) ==
  [tag |-> node.tag, loc |-> node.loc, date |-> IF node.tag = "url" THEN node.date ELSE NoDate]

EntriesTo(nodes, i) == {EntryOf(nodes[k]) : k \in {m \in 1..i : nodes[m].loc # NoLoc}}

NothingClaimed(seq, i, value) == TRUE

Feeding == INSTANCE FoldRules WITH Step <- OnEvent, Holds <- NothingClaimed

Fed(s, events) == Feeding!Fold(s, events)

LEMMA FedIsFold ==
  ASSUME NEW s, NEW events
  PROVE  FoldLeft(OnEvent, s, events) = Fed(s, events)
BY DEF Fed, Feeding!Fold, FoldLeft, MapThenFoldSet, Max, Feeding!Max

LEMMA FedOne ==
  ASSUME NEW s, NEW e
  PROVE  Fed(s, <<e>>) = OnEvent(s, e) /\ IsList(<<e>>)
<1>1. PICK none, one : none = <<>> /\ one = <<e>>
  OBVIOUS
<1>2. none \in Seq({e}) /\ one = Append(none, e) /\ one \in Seq({e})
  BY <1>1
<1>3. Feeding!Fold(s, one) = OnEvent(Feeding!Fold(s, none), e)
  BY <1>2, Feeding!FoldOfAppend
<1>4. Feeding!Fold(s, none) = s
  BY <1>1, Feeding!FoldOfNothing
<1> QED BY <1>1, <1>2, <1>3, <1>4 DEF Fed, IsList

LEMMA FedNothing ==
  ASSUME NEW s
  PROVE  Fed(s, <<>>) = s /\ IsList(<<>>)
<1>1. Fed(s, <<>>) = s
  BY Feeding!FoldOfNothing DEF Fed
<1>2. PICK none : none = <<>>
  OBVIOUS
<1>3. none \in Seq({})
  BY <1>2
<1> QED BY <1>1, <1>2, <1>3 DEF IsList

LEMMA FedConcat ==
  ASSUME NEW s, NEW a, IsList(a), NEW b, IsList(b)
  PROVE  Fed(s, a \o b) = Fed(Fed(s, a), b) /\ IsList(a \o b)
<1>1. PICK S : a \in Seq(S)
  BY DEF IsList
<1>2. PICK R : b \in Seq(R)
  BY DEF IsList
<1>3. PICK U : U = S \cup R
  OBVIOUS
<1>4. a \in Seq(U)
  <2>1. a \in [1..Len(a) -> S] /\ Len(a) \in Nat
    BY <1>1
  <2>2. a \in [1..Len(a) -> U]
    BY <1>3, <2>1
  <2> QED BY <2>1, <2>2, IsASeq
<1>5. b \in Seq(U)
  <2>1. b \in [1..Len(b) -> R] /\ Len(b) \in Nat
    BY <1>2
  <2>2. b \in [1..Len(b) -> U]
    BY <1>3, <2>1
  <2> QED BY <2>1, <2>2, IsASeq
<1>6. Feeding!Fold(s, a \o b) = Feeding!Fold(Feeding!Fold(s, a), b)
  BY <1>4, <1>5, Feeding!FoldOfConcat
<1>7. a \o b \in Seq(U)
  BY <1>4, <1>5, ConcatProperties
<1> QED BY <1>6, <1>7 DEF Fed, IsList

\* An element is its start, what is in it and its end.
LEMMA FedElement ==
  ASSUME NEW s, NEW name, NEW content, IsList(content)
  PROVE  /\ Fed(s, Element(name, content)) = OnEnd(Fed(OnStart(s, name), content), name)
         /\ IsList(Element(name, content))
<1>1. PICK start, end : start = [ev |-> "start", what |-> name] /\ end = [ev |-> "end", what |-> name]
  OBVIOUS
<1>2. \A t : OnEvent(t, start) = OnStart(t, name)
  <2>1. start.ev = "start" /\ start.what = name
    BY <1>1
  <2> QED BY <2>1 DEF OnEvent
<1>3. \A t : OnEvent(t, end) = OnEnd(t, name)
  <2>1. end.ev = "end" /\ end.what = name
    BY <1>1
  <2> QED BY <2>1 DEF OnEvent
<1>4. PICK opening, closing : opening = <<start>> /\ closing = <<end>>
  OBVIOUS
<1>5. IsList(opening) /\ IsList(closing) /\ \A t : Fed(t, opening) = OnStart(t, name) /\ Fed(t, closing) = OnEnd(t, name)
  BY <1>2, <1>3, <1>4, FedOne
<1>6. PICK head : head = opening \o content
  OBVIOUS
<1>7. IsList(head) /\ Fed(s, head) = Fed(OnStart(s, name), content)
  BY <1>5, <1>6, FedConcat
<1>8. Fed(s, head \o closing) = OnEnd(Fed(OnStart(s, name), content), name) /\ IsList(head \o closing)
  BY <1>5, <1>7, FedConcat
<1>9. Element(name, content) = head \o closing
  BY <1>1, <1>4, <1>6 DEF Element
<1> QED BY <1>8, <1>9

LEMMA FedText ==
  ASSUME NEW s, NEW what
  PROVE  Fed(s, Text(what)) = OnText(s, what) /\ IsList(Text(what))
<1>1. PICK e : e = [ev |-> "text", what |-> what]
  OBVIOUS
<1>2. e.ev = "text" /\ e.what = what
  BY <1>1
<1>3. OnEvent(s, e) = OnText(s, what)
  BY <1>2 DEF OnEvent
<1> QED BY <1>1, <1>3, FedOne DEF Text

\* Records whose fields are set one after another.
LEMMA FieldsSet ==
  ASSUME NEW a, NEW b, NEW c, NEW d, NEW e, NEW f, NEW g, NEW s,
         s = [capture |-> a, loc |-> b, lastmod |-> c, inUrl |-> d, inSitemap |-> e, depth |-> f, entries |-> g]
  PROVE  /\ \A x : [s EXCEPT !.loc = x] =
                     [capture |-> a, loc |-> x, lastmod |-> c, inUrl |-> d, inSitemap |-> e, depth |-> f, entries |-> g]
         /\ \A x : [s EXCEPT !.lastmod = x] =
                     [capture |-> a, loc |-> b, lastmod |-> x, inUrl |-> d, inSitemap |-> e, depth |-> f, entries |-> g]
         /\ \A x : [s EXCEPT !.inUrl = x] =
                     [capture |-> a, loc |-> b, lastmod |-> c, inUrl |-> x, inSitemap |-> e, depth |-> f, entries |-> g]
         /\ \A x : [s EXCEPT !.inSitemap = x] =
                     [capture |-> a, loc |-> b, lastmod |-> c, inUrl |-> d, inSitemap |-> x, depth |-> f, entries |-> g]
         /\ \A x : [s EXCEPT !.depth = x] =
                     [capture |-> a, loc |-> b, lastmod |-> c, inUrl |-> d, inSitemap |-> e, depth |-> x, entries |-> g]
         /\ \A x : [s EXCEPT !.entries = x] =
                     [capture |-> a, loc |-> b, lastmod |-> c, inUrl |-> d, inSitemap |-> e, depth |-> f, entries |-> x]
OBVIOUS

\* Any other element is only counted.
LEMMA Deeper ==
  ASSUME NEW tag \in {"url", "sitemap"}, NEW capture, NEW locs, NEW dates, NEW d \in Nat, NEW es,
         NEW s, s = Inside(tag, capture, locs, dates, d, es),
         NEW name, name \notin {"url", "sitemap"},
         ~(name = "loc" /\ d = 0), ~(name = "lastmod" /\ tag = "url" /\ d = 0)
  PROVE  OnStart(s, name) = Inside(tag, capture, locs, dates, d + 1, es)
<1>1. /\ s = [capture |-> capture, loc |-> locs, lastmod |-> dates, inUrl |-> tag = "url",
              inSitemap |-> tag = "sitemap", depth |-> d, entries |-> es]
      /\ s.inUrl = (tag = "url") /\ s.inSitemap = (tag = "sitemap") /\ s.depth = d
  BY DEF Inside
<1>2. OnStart(s, name) = IF s.inUrl \/ s.inSitemap THEN [s EXCEPT !.depth = @ + 1] ELSE s
  BY <1>1 DEF OnStart
<1>3. s.inUrl \/ s.inSitemap
  BY <1>1
<1>4. OnStart(s, name) = [s EXCEPT !.depth = d + 1]
  BY <1>1, <1>2, <1>3
<1> QED BY <1>1, <1>4 DEF Inside

\* And at its end.
LEMMA Shallower ==
  ASSUME NEW tag \in {"url", "sitemap"}, NEW locs, NEW dates, NEW d \in Nat \ {0}, NEW es,
         NEW s, s = Inside(tag, "idle", locs, dates, d, es),
         NEW name, name \notin {"url", "sitemap"}
  PROVE  OnEnd(s, name) = Inside(tag, "idle", locs, dates, d - 1, es)
<1>1. /\ s = [capture |-> "idle", loc |-> locs, lastmod |-> dates, inUrl |-> tag = "url",
              inSitemap |-> tag = "sitemap", depth |-> d, entries |-> es]
      /\ s.capture = "idle" /\ s.depth = d
  BY DEF Inside
<1>2. OnEnd(s, name) = IF s.depth > 0 THEN [s EXCEPT !.depth = @ - 1] ELSE s
  BY <1>1 DEF OnEnd
<1>3. OnEnd(s, name) = [s EXCEPT !.depth = d - 1]
  BY <1>1, <1>2
<1> QED BY <1>1, <1>3 DEF Inside

\* The three things a node may hold.
LocPart(node) == IF node.loc = NoLoc THEN <<>> ELSE Element("loc", Text(node.loc))
DatePart(node) == IF node.date = NoDate THEN <<>> ELSE Element("lastmod", Text(node.date))
ImagePart(node) == IF node.image = NoLoc THEN <<>> ELSE Element("image", Element("loc", Text(node.image)))

LEMMA LocPartRead ==
  ASSUME NEW node, NEW tag \in {"url", "sitemap"}, NEW es, NEW none, none = <<>>
  PROVE  /\ IsList(LocPart(node))
         /\ Fed(Inside(tag, "idle", none, none, 0, es), LocPart(node)) =
              Inside(tag, "idle", IF node.loc = NoLoc THEN none ELSE Append(none, node.loc), none, 0, es)
<1>1. CASE node.loc = NoLoc
  BY <1>1, FedNothing DEF LocPart
<1>2. CASE node.loc # NoLoc
  <2>1. PICK s : s = Inside(tag, "idle", none, none, 0, es)
    OBVIOUS
  <2>2. OnStart(s, "loc") = Inside(tag, "loc", none, none, 0, es)
    BY <2>1 DEF OnStart, Inside
  <2>3. OnText(OnStart(s, "loc"), node.loc) = Inside(tag, "loc", Append(none, node.loc), none, 0, es)
    BY <2>2 DEF OnText, Inside
  <2>4. OnEnd(OnText(OnStart(s, "loc"), node.loc), "loc") = Inside(tag, "idle", Append(none, node.loc), none, 0, es)
    BY <2>3 DEF OnEnd, Inside
  <2>5. IsList(Text(node.loc)) /\ Fed(OnStart(s, "loc"), Text(node.loc)) = OnText(OnStart(s, "loc"), node.loc)
    BY FedText
  <2>6. /\ Fed(s, Element("loc", Text(node.loc))) = OnEnd(Fed(OnStart(s, "loc"), Text(node.loc)), "loc")
        /\ IsList(Element("loc", Text(node.loc)))
    BY <2>5, FedElement
  <2> QED BY <1>2, <2>1, <2>4, <2>5, <2>6 DEF LocPart
<1> QED BY <1>1, <1>2

DatesOf(node, tag, none) == IF node.date = NoDate \/ tag # "url" THEN none ELSE Append(none, node.date)

LEMMA DatePartRead ==
  ASSUME NEW node, NEW tag \in {"url", "sitemap"}, NEW locs, NEW es, NEW none, none = <<>>
  PROVE  /\ IsList(DatePart(node))
         /\ Fed(Inside(tag, "idle", locs, none, 0, es), DatePart(node)) =
              Inside(tag, "idle", locs, DatesOf(node, tag, none), 0, es)
<1>0. PICK dates : dates = DatesOf(node, tag, none)
  OBVIOUS
<1>1. CASE node.date = NoDate
  <2>1. dates = none
    BY <1>0, <1>1 DEF DatesOf
  <2> QED BY <1>0, <1>1, <2>1, FedNothing DEF DatePart
<1>2. CASE node.date # NoDate
  <2>1. PICK s : s = Inside(tag, "idle", locs, none, 0, es)
    OBVIOUS
  <2>2. PICK after : after = OnEnd(OnText(OnStart(s, "lastmod"), node.date), "lastmod")
    OBVIOUS
  <2>5. after = Inside(tag, "idle", locs, dates, 0, es)
    <3>1. CASE tag = "url"
      <4>1. OnStart(s, "lastmod") = Inside(tag, "lastmod", locs, none, 0, es)
        BY <2>1, <3>1 DEF OnStart, Inside
      <4>2. OnText(OnStart(s, "lastmod"), node.date) = Inside(tag, "lastmod", locs, Append(none, node.date), 0, es)
        BY <4>1 DEF OnText, Inside
      <4>3. after = Inside(tag, "idle", locs, Append(none, node.date), 0, es)
        BY <2>2, <4>2 DEF OnEnd, Inside
      <4>4. dates = Append(none, node.date)
        BY <1>0, <1>2, <3>1 DEF DatesOf
      <4> QED BY <4>3, <4>4
    <3>2. CASE tag = "sitemap"
      <4>1. OnStart(s, "lastmod") = Inside(tag, "idle", locs, none, 1, es)
        BY <2>1, <3>2, Deeper
      <4>2. OnText(OnStart(s, "lastmod"), node.date) = Inside(tag, "idle", locs, none, 1, es)
        BY <4>1 DEF OnText, Inside
      <4>3. after = Inside(tag, "idle", locs, none, 0, es)
        BY <2>2, <4>2, Shallower
      <4>4. dates = none
        BY <1>0, <3>2 DEF DatesOf
      <4> QED BY <4>3, <4>4
    <3> QED BY <3>1, <3>2
  <2>6. IsList(Text(node.date)) /\ Fed(OnStart(s, "lastmod"), Text(node.date)) = OnText(OnStart(s, "lastmod"), node.date)
    BY FedText
  <2>7. /\ Fed(s, Element("lastmod", Text(node.date))) = OnEnd(Fed(OnStart(s, "lastmod"), Text(node.date)), "lastmod")
        /\ IsList(Element("lastmod", Text(node.date)))
    BY <2>6, FedElement
  <2> QED BY <1>0, <1>2, <2>1, <2>2, <2>5, <2>6, <2>7 DEF DatePart
<1> QED BY <1>1, <1>2

LEMMA ImagePartRead ==
  ASSUME NEW node, NEW tag \in {"url", "sitemap"}, NEW locs, NEW dates, NEW es
  PROVE  /\ IsList(ImagePart(node))
         /\ Fed(Inside(tag, "idle", locs, dates, 0, es), ImagePart(node)) = Inside(tag, "idle", locs, dates, 0, es)
<1>1. CASE node.image = NoLoc
  BY <1>1, FedNothing DEF ImagePart
<1>2. CASE node.image # NoLoc
  <2>1. PICK s0, s1, s2 : s0 = Inside(tag, "idle", locs, dates, 0, es)
                          /\ s1 = Inside(tag, "idle", locs, dates, 1, es)
                          /\ s2 = Inside(tag, "idle", locs, dates, 2, es)
    OBVIOUS
  <2>2. OnStart(s0, "image") = s1 /\ OnStart(s1, "loc") = s2
    <3>1. OnStart(s0, "image") = Inside(tag, "idle", locs, dates, 0 + 1, es)
      BY <2>1, Deeper
    <3>2. OnStart(s1, "loc") = Inside(tag, "idle", locs, dates, 1 + 1, es)
      BY <2>1, Deeper
    <3> QED BY <2>1, <3>1, <3>2
  <2>3. OnText(s2, node.image) = s2
    BY <2>1 DEF OnText, Inside
  <2>4. OnEnd(s2, "loc") = s1 /\ OnEnd(s1, "image") = s0
    <3>1. OnEnd(s2, "loc") = Inside(tag, "idle", locs, dates, 2 - 1, es)
      BY <2>1, Shallower
    <3>2. OnEnd(s1, "image") = Inside(tag, "idle", locs, dates, 1 - 1, es)
      BY <2>1, Shallower
    <3> QED BY <2>1, <3>1, <3>2
  <2>5. PICK inner : inner = Element("loc", Text(node.image))
    OBVIOUS
  <2>6. IsList(Text(node.image)) /\ Fed(s2, Text(node.image)) = s2
    BY <2>3, FedText
  <2>7. IsList(inner) /\ Fed(s1, inner) = s1
    BY <2>2, <2>4, <2>5, <2>6, FedElement
  <2>8. IsList(Element("image", inner)) /\ Fed(s0, Element("image", inner)) = s0
    BY <2>2, <2>4, <2>7, FedElement
  <2> QED BY <1>2, <2>1, <2>5, <2>8 DEF ImagePart
<1> QED BY <1>1, <1>2

LEMMA EndOfNode ==
  ASSUME NEW tag \in {"url", "sitemap"}, NEW locs, NEW dates, NEW es,
         NEW s, s = Inside(tag, "idle", locs, dates, 0, es)
  PROVE  OnEnd(s, tag) = Outside(es \o Entry(s, tag))
<1>1. PICK more, none : more = es \o Entry(s, tag) /\ none = <<>>
  OBVIOUS
<1>2. /\ s = [capture |-> "idle", loc |-> locs, lastmod |-> dates, inUrl |-> tag = "url",
              inSitemap |-> tag = "sitemap", depth |-> 0, entries |-> es]
      /\ s.inUrl = (tag = "url") /\ s.inSitemap = (tag = "sitemap") /\ s.entries = es
  BY DEF Inside
<1>3. IF tag = "url" THEN s.inUrl ELSE s.inSitemap
  BY <1>2
<1>4. OnEnd(s, tag) = [s EXCEPT !.entries = more, !.loc = none, !.lastmod = none,
                                !.inUrl = s.inUrl /\ tag # "url", !.inSitemap = s.inSitemap /\ tag # "sitemap"]
  BY <1>1, <1>2, <1>3 DEF OnEnd
<1>5. (s.inUrl /\ tag # "url") = FALSE /\ (s.inSitemap /\ tag # "sitemap") = FALSE
  BY <1>2
<1>6. OnEnd(s, tag) = [s EXCEPT !.entries = more, !.loc = none, !.lastmod = none, !.inUrl = FALSE, !.inSitemap = FALSE]
  BY <1>4, <1>5
<1>7. OnEnd(s, tag) = [capture |-> "idle", loc |-> none, lastmod |-> none, inUrl |-> FALSE, inSitemap |-> FALSE,
                       depth |-> 0, entries |-> more]
  <2>1. PICK idle, yes, no, zero, u, w :
          idle = "idle" /\ yes = TRUE /\ no = FALSE /\ zero = 0 /\ u = (tag = "url") /\ w = (tag = "sitemap")
    OBVIOUS
  <2>2. s = [capture |-> idle, loc |-> locs, lastmod |-> dates, inUrl |-> u, inSitemap |-> w, depth |-> zero, entries |-> es]
    BY <1>2, <2>1
  <2>3. PICK s1 : s1 = [s EXCEPT !.entries = more]
    OBVIOUS
  <2>4. s1 = [capture |-> idle, loc |-> locs, lastmod |-> dates, inUrl |-> u, inSitemap |-> w, depth |-> zero, entries |-> more]
    BY <2>2, <2>3, FieldsSet
  <2>5. PICK s2 : s2 = [s1 EXCEPT !.loc = none]
    OBVIOUS
  <2>6. s2 = [capture |-> idle, loc |-> none, lastmod |-> dates, inUrl |-> u, inSitemap |-> w, depth |-> zero, entries |-> more]
    BY <2>4, <2>5, FieldsSet
  <2>7. PICK s3 : s3 = [s2 EXCEPT !.lastmod = none]
    OBVIOUS
  <2>8. s3 = [capture |-> idle, loc |-> none, lastmod |-> none, inUrl |-> u, inSitemap |-> w, depth |-> zero, entries |-> more]
    BY <2>6, <2>7, FieldsSet
  <2>9. PICK s4 : s4 = [s3 EXCEPT !.inUrl = no]
    OBVIOUS
  <2>10. s4 = [capture |-> idle, loc |-> none, lastmod |-> none, inUrl |-> no, inSitemap |-> w, depth |-> zero, entries |-> more]
    BY <2>8, <2>9, FieldsSet
  <2>11. [s4 EXCEPT !.inSitemap = no] =
           [capture |-> idle, loc |-> none, lastmod |-> none, inUrl |-> no, inSitemap |-> no, depth |-> zero, entries |-> more]
    BY <2>10, FieldsSet
  <2>12. OnEnd(s, tag) = [s4 EXCEPT !.inSitemap = no]
    BY <1>6, <2>1, <2>3, <2>5, <2>7, <2>9
  <2> QED BY <2>1, <2>11, <2>12
<1> QED BY <1>1, <1>7 DEF Outside

\* A node is read as its entry, and nothing of it is left over.
LEMMA NodeRead ==
  ASSUME NEW node, node.tag \in {"url", "sitemap"}, NEW es, IsList(es)
  PROVE  /\ IsList(NodeEvents(node))
         /\ Fed(Outside(es), NodeEvents(node)) =
              Outside(IF node.loc = NoLoc THEN es ELSE Append(es, EntryOf(node)))
<1>1. PICK tag, none : tag = node.tag /\ none = <<>>
  OBVIOUS
<1>2. PICK a, b, c : a = LocPart(node) /\ b = DatePart(node) /\ c = ImagePart(node)
  OBVIOUS
<1>3. PICK locs, dates :
        /\ locs = (IF node.loc = NoLoc THEN none ELSE Append(none, node.loc))
        /\ dates = (IF node.date = NoDate \/ tag # "url" THEN none ELSE Append(none, node.date))
  OBVIOUS
<1>4. PICK s0, s1, s2 :
        /\ s0 = Inside(tag, "idle", none, none, 0, es)
        /\ s1 = Inside(tag, "idle", locs, none, 0, es)
        /\ s2 = Inside(tag, "idle", locs, dates, 0, es)
  OBVIOUS
<1>5. IsList(a) /\ Fed(s0, a) = s1
  BY <1>1, <1>2, <1>3, <1>4, LocPartRead
<1>6. IsList(b) /\ Fed(s1, b) = s2
  <2>1. dates = DatesOf(node, tag, none)
    BY <1>3 DEF DatesOf
  <2> QED BY <1>1, <1>2, <1>4, <2>1, DatePartRead
<1>7. IsList(c) /\ Fed(s2, c) = s2
  BY <1>1, <1>2, <1>4, ImagePartRead
<1>8. PICK content : content = (a \o b) \o c
  OBVIOUS
<1>9. IsList(content) /\ Fed(s0, content) = s2
  <2>1. PICK ab : ab = a \o b
    OBVIOUS
  <2>2. IsList(ab) /\ Fed(s0, ab) = s2
    BY <1>5, <1>6, <2>1, FedConcat
  <2>3. IsList(ab \o c) /\ Fed(s0, ab \o c) = s2
    BY <1>7, <2>2, FedConcat
  <2> QED BY <1>8, <2>1, <2>3
<1>10. NodeEvents(node) = Element(tag, content)
  BY <1>1, <1>2, <1>8 DEF NodeEvents, LocPart, DatePart, ImagePart
<1>11. OnStart(Outside(es), tag) = s0
  <2>1. PICK out : out = Outside(es)
    OBVIOUS
  <2>2. out = [capture |-> "idle", loc |-> none, lastmod |-> none, inUrl |-> FALSE, inSitemap |-> FALSE,
               depth |-> 0, entries |-> es]
    BY <1>1, <2>1 DEF Outside
  <2>3. CASE tag = "url"
    <3>1. OnStart(out, tag) = [out EXCEPT !.inUrl = TRUE, !.depth = 0]
      BY <2>3 DEF OnStart
    <3>2. (tag = "url") = TRUE /\ (tag = "sitemap") = FALSE
      BY <2>3
    <3>3. s0 = [capture |-> "idle", loc |-> none, lastmod |-> none, inUrl |-> TRUE, inSitemap |-> FALSE,
                depth |-> 0, entries |-> es]
      BY <1>4, <3>2 DEF Inside
    <3>4. PICK idle, yes, no, zero : idle = "idle" /\ yes = TRUE /\ no = FALSE /\ zero = 0
      OBVIOUS
    <3>5. out = [capture |-> idle, loc |-> none, lastmod |-> none, inUrl |-> no, inSitemap |-> no,
                 depth |-> zero, entries |-> es]
      BY <2>2, <3>4
    <3>6. PICK o : o = [out EXCEPT !.inUrl = yes]
      OBVIOUS
    <3>7. o = [capture |-> idle, loc |-> none, lastmod |-> none, inUrl |-> yes, inSitemap |-> no,
               depth |-> zero, entries |-> es]
      BY <3>5, <3>6, FieldsSet
    <3>8. [o EXCEPT !.depth = zero] = s0
      <4>1. [o EXCEPT !.depth = zero] =
              [capture |-> idle, loc |-> none, lastmod |-> none, inUrl |-> yes, inSitemap |-> no,
               depth |-> zero, entries |-> es]
        BY <3>7, FieldsSet
      <4> QED BY <3>3, <3>4, <4>1
    <3> QED BY <2>1, <3>1, <3>4, <3>6, <3>8
  <2>4. CASE tag = "sitemap"
    <3>1. OnStart(out, tag) = [out EXCEPT !.inSitemap = TRUE, !.depth = 0]
      BY <2>4 DEF OnStart
    <3>2. (tag = "url") = FALSE /\ (tag = "sitemap") = TRUE
      BY <2>4
    <3>3. s0 = [capture |-> "idle", loc |-> none, lastmod |-> none, inUrl |-> FALSE, inSitemap |-> TRUE,
                depth |-> 0, entries |-> es]
      BY <1>4, <3>2 DEF Inside
    <3>4. PICK idle, yes, no, zero : idle = "idle" /\ yes = TRUE /\ no = FALSE /\ zero = 0
      OBVIOUS
    <3>5. out = [capture |-> idle, loc |-> none, lastmod |-> none, inUrl |-> no, inSitemap |-> no,
                 depth |-> zero, entries |-> es]
      BY <2>2, <3>4
    <3>6. PICK o : o = [out EXCEPT !.inSitemap = yes]
      OBVIOUS
    <3>7. o = [capture |-> idle, loc |-> none, lastmod |-> none, inUrl |-> no, inSitemap |-> yes,
               depth |-> zero, entries |-> es]
      BY <3>5, <3>6, FieldsSet
    <3>8. [o EXCEPT !.depth = zero] = s0
      <4>1. [o EXCEPT !.depth = zero] =
              [capture |-> idle, loc |-> none, lastmod |-> none, inUrl |-> no, inSitemap |-> yes,
               depth |-> zero, entries |-> es]
        BY <3>7, FieldsSet
      <4> QED BY <3>3, <3>4, <4>1
    <3> QED BY <2>1, <3>1, <3>4, <3>6, <3>8
  <2> QED BY <1>1, <2>3, <2>4
<1>12. IsList(NodeEvents(node)) /\ Fed(Outside(es), NodeEvents(node)) = OnEnd(s2, tag)
  BY <1>9, <1>10, <1>11, FedElement
<1>13. OnEnd(s2, tag) = Outside(es \o Entry(s2, tag))
  BY <1>1, <1>4, EndOfNode
<1>14. s2.loc = locs /\ s2.lastmod = dates
  BY <1>4 DEF Inside
<1>15. CASE node.loc = NoLoc
  <2>1. Entry(s2, tag) = <<>>
    BY <1>1, <1>3, <1>14, <1>15 DEF Entry
  <2>2. es \o <<>> = es
    BY ConcatEmptySeq DEF IsList
  <2> QED BY <1>12, <1>13, <1>15, <2>1, <2>2
<1>16. CASE node.loc # NoLoc
  <2>1. locs # <<>> /\ locs[1] = node.loc
    <3>1. locs = Append(none, node.loc)
      BY <1>3, <1>16
    <3>2. none \in Seq({}) /\ Len(none) = 0
      BY <1>1
    <3>3. Len(locs) = 1 /\ locs[1] = node.loc
      BY <3>1, <3>2
    <3> QED BY <3>3
  <2>2. (IF dates = <<>> THEN NoDate ELSE dates[1]) = EntryOf(node).date
    <3>1. CASE node.date = NoDate \/ tag # "url"
      <4>1. dates = <<>>
        BY <1>1, <1>3, <3>1
      <4> QED BY <1>1, <3>1, <4>1 DEF EntryOf
    <3>2. CASE ~(node.date = NoDate \/ tag # "url")
      <4>1. dates = Append(none, node.date)
        BY <1>3, <3>2
      <4>2. none \in Seq({}) /\ Len(none) = 0
        BY <1>1
      <4>3. Len(dates) = 1 /\ dates[1] = node.date
        BY <4>1, <4>2
      <4>4. dates # <<>>
        BY <4>3
      <4> QED BY <1>1, <3>2, <4>3, <4>4 DEF EntryOf
    <3> QED BY <3>1, <3>2
  <2>3. PICK e : e = EntryOf(node)
    OBVIOUS
  <2>4. Entry(s2, tag) = <<e>>
    <3>1. Entry(s2, tag) = <<[tag |-> tag, loc |-> locs[1], date |-> IF dates = <<>> THEN NoDate ELSE dates[1]]>>
      BY <1>14, <2>1 DEF Entry
    <3>2. e = [tag |-> tag, loc |-> node.loc, date |-> e.date]
      BY <1>1, <2>3 DEF EntryOf
    <3> QED BY <2>1, <2>2, <2>3, <3>1, <3>2
  <2>5. es \o <<e>> = Append(es, e)
    <3>1. PICK S : es \in Seq(S)
      BY DEF IsList
    <3>2. es \in Seq(S \cup {e}) /\ e \in S \cup {e}
      <4>1. es \in [1..Len(es) -> S] /\ Len(es) \in Nat
        BY <3>1
      <4>2. es \in [1..Len(es) -> S \cup {e}]
        BY <4>1
      <4> QED BY <4>1, <4>2, IsASeq
    <3> QED BY <3>2, AppendIsConcat
  <2> QED BY <1>12, <1>13, <1>16, <2>3, <2>4, <2>5
<1> QED BY <1>15, <1>16

Written(nodes, i, events) ==
  /\ IsList(events)
  /\ \E es : IsList(es) /\ Fed(AtStart, events) = Outside(es) /\ Elements(es) = EntriesTo(nodes, i)

Writing == INSTANCE FoldRules WITH Step <- WithNode, Holds <- Written

LEMMA WritingIsFold ==
  ASSUME NEW nodes, NEW none
  PROVE  FoldLeft(WithNode, none, nodes) = Writing!Fold(none, nodes)
BY DEF Writing!Fold, FoldLeft, MapThenFoldSet, Max, Writing!Max

LEMMA WriteNode ==
  ASSUME NEW nodes, NEW i \in Nat \ {0}, nodes[i].tag \in {"url", "sitemap"},
         NEW events, Written(nodes, i - 1, events)
  PROVE  Written(nodes, i, WithNode(events, nodes[i]))
<1>1. PICK node : node = nodes[i]
  OBVIOUS
<1>2. PICK es : IsList(es) /\ Fed(AtStart, events) = Outside(es) /\ Elements(es) = EntriesTo(nodes, i - 1)
  BY DEF Written
<1>3. PICK after : after = IF node.loc = NoLoc THEN es ELSE Append(es, EntryOf(node))
  OBVIOUS
<1>4. IsList(NodeEvents(node)) /\ Fed(Outside(es), NodeEvents(node)) = Outside(after)
  BY <1>1, <1>2, <1>3, NodeRead
<1>5. IsList(WithNode(events, node)) /\ Fed(AtStart, WithNode(events, node)) = Outside(after)
  <2>1. IsList(events)
    BY DEF Written
  <2> QED BY <1>2, <1>4, <2>1, FedConcat DEF WithNode
<1>6. 1..i = (1..(i - 1)) \cup {i}
  OBVIOUS
<1>7. IsList(after) /\ Elements(after) = EntriesTo(nodes, i)
  <2>1. CASE node.loc = NoLoc
    <3>1. {m \in 1..i : nodes[m].loc # NoLoc} = {m \in 1..(i - 1) : nodes[m].loc # NoLoc}
      BY <1>1, <1>6, <2>1, Zenon
    <3>2. EntriesTo(nodes, i) = EntriesTo(nodes, i - 1)
      BY <3>1 DEF EntriesTo
    <3> QED BY <1>2, <1>3, <2>1, <3>2
  <2>2. CASE node.loc # NoLoc
    <3>1. {m \in 1..i : nodes[m].loc # NoLoc} = {m \in 1..(i - 1) : nodes[m].loc # NoLoc} \cup {i}
      BY <1>1, <1>6, <2>2, Zenon
    <3>2. EntriesTo(nodes, i) = EntriesTo(nodes, i - 1) \cup {EntryOf(node)}
      BY <1>1, <3>1 DEF EntriesTo
    <3>3. PICK S : es \in Seq(S)
      BY <1>2 DEF IsList
    <3>4. PICK U : U = S \cup {EntryOf(node)}
      OBVIOUS
    <3>5. es \in Seq(U) /\ EntryOf(node) \in U
      <4>1. es \in [1..Len(es) -> S] /\ Len(es) \in Nat
        BY <3>3
      <4>2. es \in [1..Len(es) -> U] /\ EntryOf(node) \in U
        BY <3>4, <4>1
      <4> QED BY <4>1, <4>2, IsASeq
    <3>6. after = Append(es, EntryOf(node))
      BY <1>3, <2>2
    <3>7. after \in Seq(U)
      BY <3>5, <3>6
    <3>8. Elements(after) = Elements(es) \cup {EntryOf(node)}
      BY <3>5, <3>6, ElementsOfAppend
    <3> QED BY <1>2, <3>2, <3>7, <3>8 DEF IsList
  <2> QED BY <2>1, <2>2
<1>8. Written(nodes, i, WithNode(events, node))
  BY <1>5, <1>7 DEF Written
<1> QED BY <1>1, <1>8

\* What is read of a sitemap are its entries: every page and every sitemap that is named in it,
\* with its own address and date.
THEOREM SitemapIsRead ==
  ASSUME NEW nodes, IsList(nodes), \A k \in 1..Len(nodes) : nodes[k].tag \in {"url", "sitemap"}
  PROVE  /\ IsList(ParseSitemap(EventsOf(nodes)))
         /\ ToSet(ParseSitemap(EventsOf(nodes))) = {EntryOf(n) : n \in {m \in ToSet(nodes) : m.loc # NoLoc}}
<1>1. PICK S : nodes \in Seq(S)
  BY DEF IsList
<1>2. PICK none, n, events : none = <<>> /\ n = Len(nodes) /\ events = EventsOf(nodes)
  OBVIOUS
<1>3. n \in Nat
  BY <1>1, <1>2
<1>4. Written(nodes, 0, none)
  <2>1. IsList(none) /\ Fed(AtStart, none) = AtStart
    BY <1>2, FedNothing
  <2>2. AtStart = Outside(none)
    BY <1>2 DEF AtStart, Outside
  <2>3. Elements(none) = {} /\ EntriesTo(nodes, 0) = {}
    <3>1. 1..Len(none) = {} /\ 1..0 = {}
      BY <1>2
    <3> QED BY <3>1 DEF Elements, EntriesTo
  <2> QED BY <2>1, <2>2, <2>3 DEF Written
<1>5. Written(nodes, n, events)
  <2>1. \A i \in 1..Len(nodes) : \A value :
          Written(nodes, i - 1, value) => Written(nodes, i, WithNode(value, nodes[i]))
    <3>1. SUFFICES ASSUME NEW i \in 1..Len(nodes), NEW value, Written(nodes, i - 1, value)
                   PROVE  Written(nodes, i, WithNode(value, nodes[i]))
      OBVIOUS
    <3>2. i \in Nat \ {0}
      BY <1>3
    <3> QED BY <3>1, <3>2, WriteNode
  <2>2. events = Writing!Fold(none, nodes)
    BY <1>2, WritingIsFold DEF EventsOf
  <2>3. Written(nodes, Len(nodes), Writing!Fold(none, nodes))
    BY <1>1, <1>4, <2>1, Writing!FoldRule
  <2> QED BY <1>2, <2>2, <2>3
<1>6. PICK es : IsList(es) /\ Fed(AtStart, events) = Outside(es) /\ Elements(es) = EntriesTo(nodes, n)
  BY <1>5 DEF Written
<1>7. ParseSitemap(events) = es
  BY <1>6, FedIsFold DEF ParseSitemap, Outside
<1>8. ToSet(es) = EntriesTo(nodes, n)
  BY <1>6, ElementsAreToSet DEF IsList
<1>9. ToSet(nodes) = {nodes[k] : k \in 1..n}
  <2>1. DOMAIN nodes = 1..n
    BY <1>1, <1>2
  <2> QED BY <2>1 DEF ToSet
<1>10. EntriesTo(nodes, n) = {EntryOf(m) : m \in {x \in ToSet(nodes) : x.loc # NoLoc}}
  BY <1>9 DEF EntriesTo
<1> QED BY <1>2, <1>6, <1>7, <1>8, <1>10

-----------------------------------------------------------------------------
(* Lists: what is appended, taken off and passed over. *)
LEMMA SequenceIsList ==
  ASSUME NEW s, IsSequence(s)
  PROVE  IsList(s)
<1>1. PICK n \in Nat : n = Len(s) /\ s = [k \in 1..n |-> s[k]]
  BY DEF IsSequence
<1>2. PICK S : S = {s[k] : k \in 1..n}
  OBVIOUS
<1>3. s \in [1..n -> S]
  BY <1>1, <1>2
<1>4. s \in Seq(S)
  BY <1>3, IsASeq
<1> QED BY <1>4 DEF IsList

LEMMA NoList ==
  ASSUME NEW s, s = <<>>
  PROVE  IsList(s) /\ ToSet(s) = {} /\ Len(s) = 0
<1>1. s \in Seq({}) /\ Len(s) = 0 /\ DOMAIN s = {}
  OBVIOUS
<1> QED BY <1>1 DEF IsList, ToSet

LEMMA ListedAre ==
  ASSUME NEW s, IsList(s)
  PROVE  Len(s) \in Nat /\ DOMAIN s = 1..Len(s) /\ ToSet(s) = {s[k] : k \in 1..Len(s)}
         /\ (s # <<>> => Len(s) # 0)
<1>1. PICK S : s \in Seq(S)
  BY DEF IsList
<1> QED BY <1>1 DEF ToSet

LEMMA ListAppended ==
  ASSUME NEW s, IsList(s), NEW x
  PROVE  /\ IsList(Append(s, x)) /\ Len(Append(s, x)) = Len(s) + 1 /\ Len(s) \in Nat
         /\ Append(s, x)[Len(s) + 1] = x /\ \A k \in 1..Len(s) : Append(s, x)[k] = s[k]
         /\ ToSet(Append(s, x)) = ToSet(s) \cup {x}
<1>1. PICK S : s \in Seq(S)
  BY DEF IsList
<1>2. PICK U : U = S \cup {x}
  OBVIOUS
<1>3. s \in Seq(U) /\ x \in U
  <2>1. s \in [1..Len(s) -> S] /\ Len(s) \in Nat
    BY <1>1
  <2>2. s \in [1..Len(s) -> U] /\ x \in U
    BY <1>2, <2>1
  <2> QED BY <2>1, <2>2, IsASeq
<1>4. PICK more : more = Append(s, x)
  OBVIOUS
<1>5. /\ more \in Seq(U) /\ Len(more) = Len(s) + 1 /\ Len(s) \in Nat
      /\ more[Len(s) + 1] = x /\ \A k \in 1..Len(s) : more[k] = s[k]
  BY <1>3, <1>4
<1>6. ToSet(more) = Elements(more) /\ ToSet(s) = Elements(s)
  BY <1>3, <1>5, ElementsAreToSet
<1>7. Elements(more) = Elements(s) \cup {x}
  BY <1>3, <1>4, ElementsOfAppend
<1> QED BY <1>4, <1>5, <1>6, <1>7 DEF IsList

LEMMA ListTaken ==
  ASSUME NEW s, IsList(s), s # <<>>
  PROVE  /\ IsList(Tail(s)) /\ Head(s) \in ToSet(s)
         /\ ToSet(s) = {Head(s)} \cup ToSet(Tail(s))
<1>1. PICK S : s \in Seq(S)
  BY DEF IsList
<1>2. PICK rest, n : rest = Tail(s) /\ n = Len(s)
  OBVIOUS
<1>3. n \in Nat \ {0} /\ rest \in Seq(S) /\ Len(rest) = n - 1 /\ Head(s) = s[1]
      /\ \A k \in 1..(n - 1) : rest[k] = s[k + 1]
  BY <1>1, <1>2
<1>4. ToSet(s) = {s[k] : k \in 1..n} /\ ToSet(rest) = {rest[k] : k \in 1..(n - 1)}
  <2>1. DOMAIN s = 1..n /\ DOMAIN rest = 1..(n - 1)
    BY <1>1, <1>2, <1>3
  <2> QED BY <2>1 DEF ToSet
<1>5. \A k \in 2..n : k - 1 \in 1..(n - 1) /\ (k - 1) + 1 = k
  BY <1>3
<1>6. \A k \in 1..n : k = 1 \/ k \in 2..n
  BY <1>3
<1>7. \A k \in 1..(n - 1) : k + 1 \in 1..n
  BY <1>3
<1>8. ToSet(s) \subseteq {Head(s)} \cup ToSet(rest)
  <2>1. SUFFICES ASSUME NEW k \in 1..n PROVE s[k] \in {Head(s)} \cup ToSet(rest)
    BY <1>4
  <2>2. CASE k = 1
    BY <1>3, <2>2
  <2>3. CASE k # 1
    <3>1. k \in 2..n
      BY <1>6, <2>3
    <3>2. rest[k - 1] = s[k] /\ k - 1 \in 1..(n - 1)
      BY <1>3, <1>5, <3>1
    <3> QED BY <1>4, <3>2
  <2> QED BY <2>2, <2>3
<1>9. {Head(s)} \cup ToSet(rest) \subseteq ToSet(s)
  BY <1>3, <1>4, <1>7
<1> QED BY <1>2, <1>3, <1>8, <1>9 DEF IsList

KeptTo(hrefs, i, kept) ==
  IsList(kept) /\ ToSet(kept) = {hrefs[k] : k \in {m \in 1..i : hrefs[m].form \in {"http", "long"}}}

Following == INSTANCE FoldRules WITH Step <- KeepLink, Holds <- KeptTo

LEMMA FollowingIsFold ==
  ASSUME NEW hrefs, NEW none
  PROVE  FoldLeft(KeepLink, none, hrefs) = Following!Fold(none, hrefs)
BY DEF Following!Fold, FoldLeft, MapThenFoldSet, Max, Following!Max

\* The links kept of a page are those that lead to pages.
LEMMA LinksKept ==
  ASSUME NEW hrefs, IsList(hrefs)
  PROVE  /\ IsList(FoldLeft(KeepLink, <<>>, hrefs))
         /\ ToSet(FoldLeft(KeepLink, <<>>, hrefs)) = {l \in ToSet(hrefs) : l.form \in {"http", "long"}}
<1>1. PICK S : hrefs \in Seq(S)
  BY DEF IsList
<1>2. PICK none, n : none = <<>> /\ n = Len(hrefs)
  OBVIOUS
<1>3. KeptTo(hrefs, 0, none)
  <2>1. IsList(none) /\ ToSet(none) = {}
    BY <1>2, NoList
  <2>2. {hrefs[k] : k \in {m \in 1..0 : hrefs[m].form \in {"http", "long"}}} = {}
    OBVIOUS
  <2> QED BY <2>1, <2>2 DEF KeptTo
<1>4. ASSUME NEW i \in 1..Len(hrefs), NEW kept, KeptTo(hrefs, i - 1, kept)
      PROVE  KeptTo(hrefs, i, KeepLink(kept, hrefs[i]))
  <2>1. i \in Nat \ {0} /\ 1..i = (1..(i - 1)) \cup {i}
    BY <1>1
  <2>2. IsList(kept) /\ ToSet(kept) = {hrefs[k] : k \in {m \in 1..(i - 1) : hrefs[m].form \in {"http", "long"}}}
    BY <1>4 DEF KeptTo
  <2>3. CASE hrefs[i].form \in {"http", "long"}
    <3>1. {m \in 1..i : hrefs[m].form \in {"http", "long"}} =
          {m \in 1..(i - 1) : hrefs[m].form \in {"http", "long"}} \cup {i}
      BY <2>1, <2>3, Zenon
    <3>2. IsList(Append(kept, hrefs[i])) /\ ToSet(Append(kept, hrefs[i])) = ToSet(kept) \cup {hrefs[i]}
      BY <2>2, ListAppended
    <3>3. ToSet(Append(kept, hrefs[i])) = {hrefs[k] : k \in {m \in 1..i : hrefs[m].form \in {"http", "long"}}}
      BY <2>2, <3>1, <3>2
    <3> QED BY <2>3, <3>2, <3>3 DEF KeepLink, KeptTo
  <2>4. CASE ~(hrefs[i].form \in {"http", "long"})
    <3>1. {m \in 1..i : hrefs[m].form \in {"http", "long"}} =
          {m \in 1..(i - 1) : hrefs[m].form \in {"http", "long"}}
      BY <2>1, <2>4, Zenon
    <3> QED BY <2>2, <2>4, <3>1 DEF KeepLink, KeptTo
  <2> QED BY <2>3, <2>4
<1>5. KeptTo(hrefs, n, Following!Fold(none, hrefs))
  <2>1. \A i \in 1..Len(hrefs) : \A kept : KeptTo(hrefs, i - 1, kept) => KeptTo(hrefs, i, KeepLink(kept, hrefs[i]))
    BY <1>4
  <2>2. KeptTo(hrefs, Len(hrefs), Following!Fold(none, hrefs))
    BY <1>1, <1>3, <2>1, Following!FoldRule
  <2> QED BY <1>2, <2>2
<1>6. ToSet(hrefs) = {hrefs[k] : k \in 1..n}
  BY <1>1, <1>2, ElementsAreToSet DEF Elements
<1> QED BY <1>2, <1>5, <1>6, FollowingIsFold DEF KeptTo

-----------------------------------------------------------------------------
(* The traversal. *)
DiscoverySpec == DiscoveryInit /\ [][DiscoveryNext]_discoveryVars

MapEarly == {"new", "failed", "robots"}
MapLate == {"page", "fallback", "done"}

\* MayReport, by the answer and the options it depends on.
Reportable(a, plan, loc) ==
  /\ loc.form = "http"
  /\ loc.host = SeedHost \/ (Domain[loc.host] = Domain[SeedHost] /\ Domain[loc.host] # NoDomain)
  /\ RefAllowed(a, ProductToken, loc.path)
  /\ loc.path \notin plan.exclude /\ (plan.include = {} \/ loc.path \in plan.include)

WalkIs(w) == w = [queue |-> w.queue, entries |-> w.entries, depth |-> w.depth, fetched |-> w.fetched]

MapShape ==
  /\ WalkIs(walk)
  /\ hop = [host |-> hop.host, redirects |-> hop.redirects, from |-> hop.from] /\ hop.redirects \in Nat
  /\ IsList(walk.queue) /\ IsList(walk.entries) /\ IsList(links) /\ IsList(reported) /\ IsList(walked)
  /\ mapPlan.limit \in Nat

\* What each phase has to go on.
MapPhases ==
  /\ mapPhase \in MapEarly \cup MapLate \cup {"sitemaps", "fetching"}
  /\ mapPhase \in MapEarly =>
       reported = <<>> /\ listed = {} /\ pointed = {} /\ walked = <<>> /\ asked = {} /\ walk = NoWalk
  /\ mapPhase \in MapLate => walk = NoWalk
  /\ mapPhase # "fallback" => links = <<>>
  /\ mapPhase = "fetching" => walk.entries = <<>>
  /\ mapPhase \in {"sitemaps", "fetching"} => walk.fetched = Len(walked)
  /\ mapPhase \notin MapEarly => answer \in RobotsAnswers /\ robots = RobotsPolicy(answer, ProductToken)

MapReports ==
  /\ Len(reported) <= mapPlan.limit
  /\ mapVisited = {r.url : r \in ToSet(reported)}
  /\ \A i, j \in 1..Len(reported) : reported[i].url = reported[j].url => i = j
  /\ \A r \in ToSet(reported) : \E l \in listed :
       Normal(l.loc) = r.url /\ l.date = r.date /\ Reportable(answer, mapPlan, l.loc)

\* Whatever is still to be reported was listed.
MapSources ==
  /\ \A e \in ToSet(walk.entries) :
       /\ e.tag \in {"url", "sitemap"} /\ IsList(e.loc.path)
       /\ e.tag = "url" => [loc |-> e.loc, date |-> e.date] \in listed
  /\ \A l \in ToSet(links) : IsList(l.path) /\ [loc |-> l, date |-> NoDate] \in listed

OnSite(host, redirects) == SameSite(SeedHost, host) /\ (redirects > 0 => HostAllowed(host))

MapSite ==
  /\ \A a \in asked : SameSite(SeedHost, a.host) /\ (a.redirect => HostAllowed(a.host))
  /\ mapPhase \in {"fetching", "page"} => OnSite(hop.host, hop.redirects)

\* What was listed and may be reported has been, or is still to come, or there was no room for it.
MapListed ==
  \A l \in listed : Reportable(answer, mapPlan, l.loc) =>
    \/ Normal(l.loc) \in mapVisited \/ Len(reported) >= mapPlan.limit
    \/ \E e \in ToSet(walk.entries) : e.tag = "url" /\ e.loc = l.loc
    \/ l.loc \in ToSet(links)

\* A sitemap that was pointed to has been fetched, or is still to come, or a budget is used up.
MapPointed ==
  \A s \in pointed : AdmitsSitemap(s) =>
    \/ s \in ToSet(walked) \/ s \in ToSet(walk.queue)
    \/ Len(reported) >= mapPlan.limit \/ Len(walked) >= MaxSitemaps
    \/ \E e \in ToSet(walk.entries) :
         e.tag = "sitemap" /\ e.loc.form # "bad" /\ s = [host |-> e.loc.host, depth |-> walk.depth + 1]

MapInv == MapShape /\ MapPhases /\ MapReports /\ MapSources /\ MapSite /\ MapListed /\ MapPointed

LEMMA MayReportIs ==
  ASSUME NEW loc
  PROVE  MayReport(loc) <=> Reportable(answer, mapPlan, loc)
BY DEF MayReport, Reportable

\* What map admits is what may be reported.
LEMMA AdmittedIsReportable ==
  ASSUME NEW loc, IsList(loc.path), answer \in RobotsAnswers, robots = RobotsPolicy(answer, ProductToken)
  PROVE  Admissible(loc) <=> Reportable(answer, mapPlan, loc)
<1>1. PICK path : path = loc.path
  OBVIOUS
<1>2. answer.status \in Nat /\ answer.fits \in BOOLEAN /\ RobotsFile(answer.lines)
  <2>1. /\ answer.status \in Nat /\ answer.fits \in BOOLEAN /\ IsSequence(answer.lines)
        /\ \A k \in 1..Len(answer.lines) : IsRule(answer.lines[k]) => IsSequence(answer.lines[k].val)
    BY DiscoveryAssumption
  <2>2. \A k \in 1..Len(answer.lines) : IsRule(answer.lines[k]) => IsList(answer.lines[k].val)
    BY <2>1, SequenceIsList
  <2> QED BY <2>1, <2>2, SequenceIsList DEF RobotsFile
<1>3. RobotsAllows(robots, path) <=> RefAllowed(answer, ProductToken, path)
  <2>1. RobotsAllows(RobotsPolicy(answer, ProductToken), path) <=> RefAllowed(answer, ProductToken, path)
    BY <1>1, <1>2, RobotsDecides
  <2> QED BY <2>1
<1>4. SameSite(SeedHost, loc.host) <=>
        loc.host = SeedHost \/ (Domain[loc.host] = Domain[SeedHost] /\ Domain[loc.host] # NoDomain)
  BY DEF SameSite
<1> QED BY <1>1, <1>3, <1>4 DEF Admissible, Reportable, InScope

LEMMA SitemapsNamed ==
  ASSUME NEW a \in RobotsAnswers, RobotsPolicy(a, ProductToken).kind = "rules"
  PROVE  IsList(RobotsPolicy(a, ProductToken).sitemaps)
<1>1. PICK policy : policy = RobotsPolicy(a, ProductToken)
  OBVIOUS
<1>2. policy.sitemaps = RobotsRules(a.lines, ProductToken).sitemaps
  <2>1. CASE a.status \in {0, 401, 403, 429} \cup 500..599
    <3>1. a.status \notin 400..499 \ {401, 403, 429}
      BY <2>1
    <3>2. policy = [kind |-> "unreachable"]
      BY <1>1, <2>1, <3>1 DEF RobotsPolicy
    <3> QED BY <1>1, <3>2
  <2>2. CASE a.status \notin {0, 401, 403, 429} \cup 500..599 /\ a.status \in 400..499 \ {401, 403, 429}
    <3>1. policy = [kind |-> "unavailable"]
      BY <1>1, <2>2 DEF RobotsPolicy
    <3> QED BY <1>1, <3>1
  <2>3. CASE a.status \notin {0, 401, 403, 429} \cup 500..599 /\ a.status \notin 400..499 \ {401, 403, 429}
    <3>1. policy = IF a.fits THEN [kind |-> "rules", rules |-> RobotsRules(a.lines, ProductToken).rules,
                                   sitemaps |-> RobotsRules(a.lines, ProductToken).sitemaps]
                   ELSE [kind |-> "unreachable"]
      BY <1>1, <2>3 DEF RobotsPolicy
    <3>2. CASE ~a.fits
      <4>1. policy = [kind |-> "unreachable"]
        BY <3>1, <3>2
      <4> QED BY <1>1, <4>1
    <3>3. CASE a.fits
      BY <3>1, <3>3
    <3> QED BY <3>2, <3>3
  <2> QED BY <2>1, <2>2, <2>3
<1>3. IsList(a.lines)
  BY DiscoveryAssumption, SequenceIsList
<1> QED BY <1>1, <1>2, <1>3, RulesAreInForce

LEMMA MapBegins == DiscoveryInit => MapInv
<1> SUFFICES ASSUME DiscoveryInit PROVE MapInv
  OBVIOUS
<1>1. /\ mapPhase = "new" /\ mapPlan.limit = 0 /\ walk = NoWalk /\ hop = NoHop /\ links = <<>>
      /\ mapVisited = {} /\ reported = <<>> /\ asked = {} /\ listed = {} /\ pointed = {} /\ walked = <<>>
  BY DEF DiscoveryInit
<1>2. PICK none : none = <<>> /\ IsList(none) /\ ToSet(none) = {} /\ Len(none) = 0
  BY NoList
<1>3. walk.queue = none /\ walk.entries = none /\ WalkIs(walk)
  BY <1>1, <1>2 DEF NoWalk, WalkIs
<1>4. hop = [host |-> hop.host, redirects |-> hop.redirects, from |-> hop.from] /\ hop.redirects \in Nat
  BY <1>1 DEF NoHop
<1>5. MapShape
  BY <1>1, <1>2, <1>3, <1>4 DEF MapShape
<1>6. MapPhases
  BY <1>1 DEF MapPhases, MapEarly, MapLate
<1>7. ToSet(reported) = {} /\ Len(reported) = 0 /\ ToSet(walk.entries) = {} /\ ToSet(links) = {}
  BY <1>1, <1>2, <1>3
<1>8. MapReports /\ MapSources /\ MapListed /\ MapPointed
  BY <1>1, <1>7 DEF MapReports, MapSources, MapListed, MapPointed
<1>9. MapSite
  BY <1>1 DEF MapSite
<1> QED BY <1>5, <1>6, <1>8, <1>9 DEF MapInv

\* A URL is reported once, from where it was listed, if it may be.
LEMMA ReportKeeps ==
  ASSUME MapReports, IsList(reported), mapPlan.limit \in Nat, Len(reported) < mapPlan.limit,
         NEW loc, NEW date, Report(loc, date), IsList(loc.path), [loc |-> loc, date |-> date] \in listed,
         answer \in RobotsAnswers, robots = RobotsPolicy(answer, ProductToken),
         mapPlan' = mapPlan, answer' = answer, listed' = listed
  PROVE  /\ MapReports' /\ IsList(reported') /\ Len(reported') >= Len(reported)
         /\ Len(reported) \in Nat /\ Len(reported') \in Nat
         /\ mapVisited \subseteq mapVisited'
         /\ Reportable(answer, mapPlan, loc) => Normal(loc) \in mapVisited'
<1>1. Admissible(loc) <=> Reportable(answer, mapPlan, loc)
  BY AdmittedIsReportable
<1>2. Len(reported) \in Nat /\ DOMAIN reported = 1..Len(reported)
      /\ ToSet(reported) = {reported[k] : k \in 1..Len(reported)}
  BY ListedAre
<1>3. CASE ~(Admissible(loc) /\ Normal(loc) \notin mapVisited)
  <2>1. reported' = reported /\ mapVisited' = mapVisited
    BY <1>3 DEF Report
  <2>2. MapReports'
    BY <2>1 DEF MapReports
  <2> QED BY <1>1, <1>2, <1>3, <2>1, <2>2
<1>4. CASE Admissible(loc) /\ Normal(loc) \notin mapVisited
  <2>1. PICK r, n : r = [url |-> Normal(loc), date |-> date] /\ n = Len(reported)
    OBVIOUS
  <2>2. reported' = Append(reported, r) /\ mapVisited' = mapVisited \cup {r.url} /\ r.url = Normal(loc) /\ r.date = date
    BY <1>4, <2>1 DEF Report
  <2>3. PICK more : more = Append(reported, r)
    OBVIOUS
  <2>4. /\ IsList(more) /\ Len(more) = n + 1 /\ n \in Nat
        /\ more[n + 1] = r /\ \A k \in 1..n : more[k] = reported[k]
        /\ ToSet(more) = ToSet(reported) \cup {r}
    BY <2>1, <2>3, ListAppended
  <2>5. Len(more) <= mapPlan.limit
    BY <1>2, <2>1, <2>4
  <2>6. mapVisited' = {x.url : x \in ToSet(more)}
    BY <2>2, <2>4 DEF MapReports
  <2>7. \A i \in 1..n : reported[i].url \in mapVisited
    BY <1>2, <2>1 DEF MapReports
  <2>8. ASSUME NEW i \in 1..(n + 1), NEW j \in 1..(n + 1), more[i].url = more[j].url PROVE i = j
    <3>1. CASE i \in 1..n /\ j \in 1..n
      BY <2>1, <2>4, <2>8, <3>1 DEF MapReports
    <3>2. CASE i \in 1..n /\ j = n + 1
      BY <1>4, <2>2, <2>4, <2>7, <2>8, <3>2
    <3>3. CASE i = n + 1 /\ j \in 1..n
      BY <1>4, <2>2, <2>4, <2>7, <2>8, <3>3
    <3>4. CASE i = n + 1 /\ j = n + 1
      BY <3>4
    <3> QED BY <2>4, <3>1, <3>2, <3>3, <3>4
  <2>9. ASSUME NEW x \in ToSet(more)
        PROVE  \E l \in listed : Normal(l.loc) = x.url /\ l.date = x.date /\ Reportable(answer, mapPlan, l.loc)
    <3>1. CASE x \in ToSet(reported)
      BY <3>1 DEF MapReports
    <3>2. CASE x = r
      <4>1. PICK l : l = [loc |-> loc, date |-> date]
        OBVIOUS
      <4>2. l \in listed /\ l.loc = loc /\ l.date = date
        BY <4>1
      <4> QED BY <1>1, <1>4, <2>2, <3>2, <4>2
    <3> QED BY <2>4, <3>1, <3>2
  <2>10. MapReports'
    BY <2>2, <2>3, <2>4, <2>5, <2>6, <2>8, <2>9 DEF MapReports
  <2> QED BY <1>2, <2>1, <2>2, <2>3, <2>4, <2>10
<1> QED BY <1>3, <1>4

LEMMA BeginMapKeeps == MapInv /\ (\E p \in MapPlans : BeginMap(p)) => MapInv'
<1> SUFFICES ASSUME MapInv, NEW p \in MapPlans, BeginMap(p) PROVE MapInv'
  OBVIOUS
<1>1. /\ mapPhase = "new" /\ mapPlan' = p /\ mapPhase' \in {"robots", "failed"} /\ walk' = walk /\ hop' = hop
      /\ links' = links /\ mapVisited' = mapVisited /\ reported' = reported /\ asked' = asked /\ listed' = listed
      /\ pointed' = pointed /\ walked' = walked
  BY DEF BeginMap
<1>2. p.limit \in Nat
  BY DiscoveryAssumption
<1>3. /\ reported = <<>> /\ listed = {} /\ pointed = {} /\ walked = <<>> /\ asked = {} /\ walk = NoWalk /\ links = <<>>
  BY <1>1 DEF MapInv, MapPhases, MapEarly
<1>4. walk.entries = <<>>
  BY <1>3 DEF NoWalk
<1>5. ToSet(reported) = {} /\ Len(reported) = 0 /\ ToSet(links) = {} /\ ToSet(walk.entries) = {}
  BY <1>3, <1>4, NoList
<1>6. MapShape'
  BY <1>1, <1>2 DEF MapInv, MapShape
<1>7. MapPhases'
  BY <1>1, <1>3 DEF MapPhases, MapEarly, MapLate
<1>8. MapReports'
  BY <1>1, <1>2, <1>5 DEF MapInv, MapReports
<1>9. MapSources' /\ MapListed' /\ MapPointed'
  BY <1>1, <1>3, <1>5 DEF MapSources, MapListed, MapPointed
<1>10. MapSite'
  BY <1>1, <1>3 DEF MapSite
<1> QED BY <1>6, <1>7, <1>8, <1>9, <1>10 DEF MapInv

LEMMA OwnSite == SameSite(SeedHost, SeedHost)
BY DEF SameSite

LEMMA BootstrapKeeps == MapInv /\ (\E a \in RobotsAnswers : BootstrapRobots(a)) => MapInv'
<1> SUFFICES ASSUME MapInv, NEW a \in RobotsAnswers, BootstrapRobots(a) PROVE MapInv'
  OBVIOUS
<1>1. PICK policy : policy = RobotsPolicy(a, ProductToken)
  OBVIOUS
<1>2. PICK named : named = IF policy.kind = "rules"
                             THEN [i \in 1..Len(policy.sitemaps) |-> [host |-> policy.sitemaps[i], depth |-> 0]]
                             ELSE <<>>
  OBVIOUS
<1>3. PICK queue : queue = IF DefaultSitemap \in ToSet(named) THEN named ELSE Append(named, DefaultSitemap)
  OBVIOUS
<1>4. /\ mapPhase = "robots" /\ robots' = policy /\ walk' = [NoWalk EXCEPT !.queue = queue] /\ pointed' = ToSet(queue)
      /\ answer' = a /\ asked' = {[host |-> SeedHost, redirect |-> FALSE]} /\ mapPhase' = "sitemaps"
      /\ mapPlan' = mapPlan /\ hop' = hop /\ links' = links /\ mapVisited' = mapVisited /\ reported' = reported
      /\ listed' = listed /\ walked' = walked
  BY <1>1, <1>2, <1>3 DEF BootstrapRobots
<1>5. IsList(named)
  <2>1. CASE policy.kind = "rules"
    <3>1. PICK n : n = Len(policy.sitemaps)
      OBVIOUS
    <3>2. n \in Nat
      BY <1>1, <2>1, <3>1, SitemapsNamed DEF IsList
    <3>3. PICK S : S = {named[k] : k \in 1..n}
      OBVIOUS
    <3>4. named \in [1..n -> S]
      BY <1>2, <2>1, <3>1, <3>3
    <3>5. named \in Seq(S)
      BY <3>2, <3>4, IsASeq
    <3> QED BY <3>5 DEF IsList
  <2>2. CASE policy.kind # "rules"
    BY <1>2, <2>2, NoList
  <2> QED BY <2>1, <2>2
<1>6. IsList(queue)
  BY <1>3, <1>5, ListAppended
<1>7. /\ reported = <<>> /\ listed = {} /\ pointed = {} /\ walked = <<>> /\ asked = {} /\ links = <<>>
  BY <1>4 DEF MapInv, MapPhases, MapEarly
<1>8. walk'.queue = queue /\ walk'.entries = <<>> /\ walk'.fetched = 0 /\ WalkIs(walk)'
  BY <1>4 DEF NoWalk, WalkIs
<1>9. ToSet(reported) = {} /\ ToSet(links) = {} /\ ToSet(walk'.entries) = {} /\ Len(walked) = 0 /\ IsList(walk'.entries)
  BY <1>7, <1>8, NoList
<1>10. MapShape'
  BY <1>4, <1>6, <1>8, <1>9 DEF MapInv, MapShape
<1>11. MapPhases'
  BY <1>1, <1>4, <1>7, <1>8, <1>9 DEF MapPhases, MapEarly, MapLate
<1>12. MapReports'
  BY <1>4, <1>9 DEF MapInv, MapReports
<1>13. MapSources'
  BY <1>4, <1>9 DEF MapSources
<1>14. MapListed'
  BY <1>4, <1>7 DEF MapListed
<1>15. MapPointed'
  BY <1>4, <1>8 DEF MapPointed
<1>16. MapSite'
  <2>1. \A x \in asked' : x.host = SeedHost /\ x.redirect = FALSE
    BY <1>4
  <2>2. mapPhase' \notin {"fetching", "page"}
    BY <1>4
  <2> QED BY <2>1, <2>2, OwnSite DEF MapSite
<1> QED BY <1>10, <1>11, <1>12, <1>13, <1>14, <1>15, <1>16 DEF MapInv

LEMMA EmitKeeps == MapInv /\ EmitEntry => MapInv'
<1> SUFFICES ASSUME MapInv, EmitEntry PROVE MapInv'
  OBVIOUS
<1>1. PICK e, rest : e = Head(walk.entries) /\ rest = Tail(walk.entries)
  OBVIOUS
<1>2. /\ mapPhase = "sitemaps" /\ mapPhase' = "sitemaps" /\ ~(Len(reported) >= mapPlan.limit) /\ walk.entries # <<>>
      /\ mapPlan' = mapPlan /\ robots' = robots /\ answer' = answer /\ hop' = hop /\ links' = links /\ asked' = asked
      /\ listed' = listed /\ pointed' = pointed /\ walked' = walked
  BY DEF EmitEntry, UrlBudgetReached
<1>3. MapShape /\ MapPhases /\ MapReports /\ MapSources /\ MapSite /\ MapListed /\ MapPointed
  BY DEF MapInv
<1>4. /\ IsList(reported) /\ IsList(walk.entries) /\ IsList(walk.queue) /\ mapPlan.limit \in Nat /\ Len(reported) \in Nat
      /\ Len(reported) < mapPlan.limit /\ WalkIs(walk)
  <2>1. IsList(reported) /\ IsList(walk.entries) /\ IsList(walk.queue) /\ mapPlan.limit \in Nat /\ WalkIs(walk)
    BY <1>3 DEF MapShape
  <2>2. Len(reported) \in Nat
    BY <2>1, ListedAre
  <2> QED BY <1>2, <2>1, <2>2
<1>5. answer \in RobotsAnswers /\ robots = RobotsPolicy(answer, ProductToken)
  BY <1>2, <1>3 DEF MapPhases, MapEarly
<1>6. IsList(rest) /\ e \in ToSet(walk.entries) /\ ToSet(walk.entries) = {e} \cup ToSet(rest)
  BY <1>1, <1>2, <1>4, ListTaken
<1>7. e.tag \in {"url", "sitemap"} /\ IsList(e.loc.path) /\ (e.tag = "url" => [loc |-> e.loc, date |-> e.date] \in listed)
  BY <1>3, <1>6 DEF MapSources
<1>8. links = <<>> /\ ToSet(links) = {}
  BY <1>2, <1>3, NoList DEF MapPhases
<1>9. CASE e.tag = "url"
  <2>1. Report(e.loc, e.date) /\ walk' = [walk EXCEPT !.entries = rest]
    BY <1>1, <1>9 DEF EmitEntry
  <2>2. /\ walk'.queue = walk.queue /\ walk'.entries = rest /\ walk'.depth = walk.depth /\ walk'.fetched = walk.fetched
        /\ WalkIs(walk)'
    BY <1>4, <2>1 DEF WalkIs
  <2>3. /\ MapReports' /\ IsList(reported') /\ Len(reported') >= Len(reported) /\ Len(reported') \in Nat
        /\ mapVisited \subseteq mapVisited'
        /\ Reportable(answer, mapPlan, e.loc) => Normal(e.loc) \in mapVisited'
    <3>1. PICK loc, date : loc = e.loc /\ date = e.date
      OBVIOUS
    <3>2. Report(loc, date) /\ IsList(loc.path) /\ [loc |-> loc, date |-> date] \in listed
      BY <1>7, <1>9, <2>1, <3>1
    <3> QED BY <1>2, <1>3, <1>4, <1>5, <3>1, <3>2, ReportKeeps
  <2>4. MapShape'
    BY <1>2, <1>3, <1>6, <2>2, <2>3 DEF MapShape
  <2>5. MapPhases'
    BY <1>2, <1>3, <2>2 DEF MapPhases, MapEarly, MapLate
  <2>6. MapSources'
    BY <1>2, <1>3, <1>6, <2>2 DEF MapSources
  <2>7. MapSite'
    BY <1>2, <1>3 DEF MapSite
  <2>8. MapListed'
    <3>1. SUFFICES ASSUME NEW l \in listed, Reportable(answer, mapPlan, l.loc)
                   PROVE  \/ Normal(l.loc) \in mapVisited'
                          \/ \E x \in ToSet(rest) : x.tag = "url" /\ x.loc = l.loc
      BY <1>2, <2>2 DEF MapListed
    <3>2. \/ Normal(l.loc) \in mapVisited
          \/ \E x \in ToSet(walk.entries) : x.tag = "url" /\ x.loc = l.loc
      BY <1>2, <1>3, <1>8, <3>1 DEF MapListed
    <3> QED BY <1>6, <2>3, <3>1, <3>2
  <2>9. MapPointed'
    <3>1. SUFFICES ASSUME NEW s \in pointed, AdmitsSitemap(s)
                   PROVE  \/ s \in ToSet(walked) \/ s \in ToSet(walk.queue) \/ Len(walked) >= MaxSitemaps
                          \/ \E x \in ToSet(rest) : x.tag = "sitemap" /\ x.loc.form # "bad"
                                                    /\ s = [host |-> x.loc.host, depth |-> walk.depth + 1]
      BY <1>2, <2>2 DEF MapPointed
    <3>2. \/ s \in ToSet(walked) \/ s \in ToSet(walk.queue) \/ Len(walked) >= MaxSitemaps
          \/ \E x \in ToSet(walk.entries) : x.tag = "sitemap" /\ x.loc.form # "bad"
                                            /\ s = [host |-> x.loc.host, depth |-> walk.depth + 1]
      BY <1>2, <1>3, <3>1 DEF MapPointed
    <3> QED BY <1>6, <1>9, <3>2
  <2> QED BY <2>3, <2>4, <2>5, <2>6, <2>7, <2>8, <2>9 DEF MapInv
<1>10. CASE e.tag = "sitemap"
  <2>1. PICK target : target = [host |-> e.loc.host, depth |-> walk.depth + 1]
    OBVIOUS
  <2>2. PICK queue : queue = IF e.loc.form = "bad" THEN walk.queue ELSE Append(walk.queue, target)
    OBVIOUS
  <2>3. walk' = [walk EXCEPT !.entries = rest, !.queue = queue] /\ reported' = reported /\ mapVisited' = mapVisited
    <3>1. e.tag # "url"
      BY <1>10
    <3> QED BY <1>1, <2>1, <2>2, <3>1 DEF EmitEntry
  <2>4. /\ walk'.queue = queue /\ walk'.entries = rest /\ walk'.depth = walk.depth /\ walk'.fetched = walk.fetched
        /\ WalkIs(walk)'
    BY <1>4, <2>3 DEF WalkIs
  <2>5. IsList(queue) /\ ToSet(walk.queue) \subseteq ToSet(queue) /\ (e.loc.form # "bad" => target \in ToSet(queue))
    BY <1>4, <2>2, ListAppended
  <2>6. MapShape'
    BY <1>2, <1>3, <1>6, <2>3, <2>4, <2>5 DEF MapShape
  <2>7. MapPhases'
    BY <1>2, <1>3, <2>4 DEF MapPhases, MapEarly, MapLate
  <2>8. MapReports'
    BY <1>2, <1>3, <2>3 DEF MapReports
  <2>9. MapSources'
    BY <1>2, <1>3, <1>6, <2>4 DEF MapSources
  <2>10. MapSite'
    BY <1>2, <1>3 DEF MapSite
  <2>11. MapListed'
    <3>1. SUFFICES ASSUME NEW l \in listed, Reportable(answer, mapPlan, l.loc)
                   PROVE  \/ Normal(l.loc) \in mapVisited
                          \/ \E x \in ToSet(rest) : x.tag = "url" /\ x.loc = l.loc
      BY <1>2, <2>3, <2>4 DEF MapListed
    <3>2. \/ Normal(l.loc) \in mapVisited
          \/ \E x \in ToSet(walk.entries) : x.tag = "url" /\ x.loc = l.loc
      BY <1>2, <1>3, <1>8, <3>1 DEF MapListed
    <3> QED BY <1>6, <1>10, <3>2
  <2>12. MapPointed'
    <3>1. SUFFICES ASSUME NEW s \in pointed, AdmitsSitemap(s)
                   PROVE  \/ s \in ToSet(walked) \/ s \in ToSet(queue) \/ Len(walked) >= MaxSitemaps
                          \/ \E x \in ToSet(rest) : x.tag = "sitemap" /\ x.loc.form # "bad"
                                                    /\ s = [host |-> x.loc.host, depth |-> walk.depth + 1]
      BY <1>2, <2>3, <2>4 DEF MapPointed
    <3>2. \/ s \in ToSet(walked) \/ s \in ToSet(walk.queue) \/ Len(walked) >= MaxSitemaps
          \/ \E x \in ToSet(walk.entries) : x.tag = "sitemap" /\ x.loc.form # "bad"
                                            /\ s = [host |-> x.loc.host, depth |-> walk.depth + 1]
      BY <1>2, <1>3, <3>1 DEF MapPointed
    <3> QED BY <1>6, <2>1, <2>5, <3>2
  <2> QED BY <2>6, <2>7, <2>8, <2>9, <2>10, <2>11, <2>12 DEF MapInv
<1> QED BY <1>7, <1>9, <1>10

LEMMA NextSitemapKeeps == MapInv /\ NextSitemap => MapInv'
<1> SUFFICES ASSUME MapInv, NextSitemap PROVE MapInv'
  OBVIOUS
<1>1. PICK s, rest : s = Head(walk.queue) /\ rest = Tail(walk.queue)
  OBVIOUS
<1>2. /\ mapPhase = "sitemaps" /\ walk.entries = <<>> /\ walk.queue # <<>>
      /\ mapPlan' = mapPlan /\ robots' = robots /\ answer' = answer /\ links' = links /\ mapVisited' = mapVisited
      /\ reported' = reported /\ asked' = asked /\ listed' = listed /\ pointed' = pointed
  BY DEF NextSitemap
<1>3. MapShape /\ MapPhases /\ MapReports /\ MapSources /\ MapSite /\ MapListed /\ MapPointed
  BY DEF MapInv
<1>4. IsList(walk.queue) /\ IsList(walk.entries) /\ IsList(walked) /\ WalkIs(walk)
  BY <1>3 DEF MapShape
<1>5. IsList(rest) /\ ToSet(walk.queue) = {s} \cup ToSet(rest)
  BY <1>1, <1>2, <1>4, ListTaken
<1>6. walk.fetched = Len(walked) /\ Len(walked) \in Nat
  BY <1>2, <1>3, <1>4, ListedAre DEF MapPhases
<1>7. CASE AdmitsSitemap(s)
  <2>1. /\ walk' = [walk EXCEPT !.queue = rest, !.fetched = walk.fetched + 1]
        /\ hop' = [host |-> s.host, redirects |-> 0, from |-> s]
        /\ walked' = Append(walked, s) /\ mapPhase' = "fetching"
    BY <1>1, <1>7 DEF NextSitemap
  <2>2. PICK fetched : fetched = walk.fetched + 1
    OBVIOUS
  <2>3. /\ walk'.queue = rest /\ walk'.entries = walk.entries /\ walk'.depth = walk.depth /\ walk'.fetched = fetched
        /\ WalkIs(walk)'
    BY <1>4, <2>1, <2>2 DEF WalkIs
  <2>4. /\ IsList(walked') /\ Len(walked') = fetched /\ ToSet(walked') = ToSet(walked) \cup {s}
        /\ Len(walked') >= Len(walked)
    <3>1. /\ IsList(Append(walked, s)) /\ Len(Append(walked, s)) = Len(walked) + 1
          /\ ToSet(Append(walked, s)) = ToSet(walked) \cup {s}
      BY <1>4, ListAppended
    <3> QED BY <1>6, <2>1, <2>2, <3>1
  <2>5. hop'.host = s.host /\ hop'.redirects = 0 /\ (hop = [host |-> hop.host, redirects |-> hop.redirects, from |-> hop.from])'
    BY <2>1
  <2>6. MapShape'
    BY <1>2, <1>3, <1>5, <2>3, <2>4, <2>5 DEF MapShape
  <2>7. MapPhases'
    BY <1>2, <1>3, <2>1, <2>3, <2>4 DEF MapPhases, MapEarly, MapLate
  <2>8. MapReports' /\ MapSources'
    BY <1>2, <1>3, <2>3 DEF MapReports, MapSources
  <2>9. MapSite'
    <3>1. SameSite(SeedHost, s.host)
      BY <1>7 DEF AdmitsSitemap
    <3> QED BY <1>2, <1>3, <2>5, <3>1 DEF MapSite, OnSite
  <2>10. MapListed'
    BY <1>2, <1>3, <2>3 DEF MapListed
  <2>11. MapPointed'
    <3>1. SUFFICES ASSUME NEW x \in pointed, AdmitsSitemap(x)
                   PROVE  \/ x \in ToSet(walked') \/ x \in ToSet(rest)
                          \/ Len(reported) >= mapPlan.limit \/ Len(walked') >= MaxSitemaps
                          \/ \E e \in ToSet(walk.entries) :
                               e.tag = "sitemap" /\ e.loc.form # "bad" /\ x = [host |-> e.loc.host, depth |-> walk.depth + 1]
      BY <1>2, <2>3 DEF MapPointed
    <3>2. \/ x \in ToSet(walked) \/ x \in ToSet(walk.queue)
          \/ Len(reported) >= mapPlan.limit \/ Len(walked) >= MaxSitemaps
          \/ \E e \in ToSet(walk.entries) :
               e.tag = "sitemap" /\ e.loc.form # "bad" /\ x = [host |-> e.loc.host, depth |-> walk.depth + 1]
      BY <1>3, <3>1 DEF MapPointed
    <3>3. Len(walked) >= MaxSitemaps => Len(walked') >= MaxSitemaps
      BY <1>6, <2>2, <2>4, DiscoveryAssumption
    <3> QED BY <1>5, <2>4, <3>2, <3>3
  <2> QED BY <2>6, <2>7, <2>8, <2>9, <2>10, <2>11 DEF MapInv
<1>8. CASE ~AdmitsSitemap(s)
  <2>1. /\ walk' = [walk EXCEPT !.queue = rest] /\ hop' = hop /\ walked' = walked /\ mapPhase' = mapPhase
    BY <1>1, <1>8 DEF NextSitemap
  <2>2. /\ walk'.queue = rest /\ walk'.entries = walk.entries /\ walk'.depth = walk.depth /\ walk'.fetched = walk.fetched
        /\ WalkIs(walk)'
    BY <1>4, <2>1 DEF WalkIs
  <2>3. MapShape'
    BY <1>2, <1>3, <1>5, <2>1, <2>2 DEF MapShape
  <2>4. MapPhases'
    BY <1>2, <1>3, <2>1, <2>2 DEF MapPhases, MapEarly, MapLate
  <2>5. MapReports' /\ MapSources'
    BY <1>2, <1>3, <2>2 DEF MapReports, MapSources
  <2>6. MapSite'
    BY <1>2, <1>3, <2>1 DEF MapSite
  <2>7. MapListed'
    BY <1>2, <1>3, <2>2 DEF MapListed
  <2>8. MapPointed'
    <3>1. SUFFICES ASSUME NEW x \in pointed, AdmitsSitemap(x)
                   PROVE  \/ x \in ToSet(walked) \/ x \in ToSet(rest)
                          \/ Len(reported) >= mapPlan.limit \/ Len(walked) >= MaxSitemaps
                          \/ \E e \in ToSet(walk.entries) :
                               e.tag = "sitemap" /\ e.loc.form # "bad" /\ x = [host |-> e.loc.host, depth |-> walk.depth + 1]
      BY <1>2, <2>1, <2>2 DEF MapPointed
    <3>2. \/ x \in ToSet(walked) \/ x \in ToSet(walk.queue)
          \/ Len(reported) >= mapPlan.limit \/ Len(walked) >= MaxSitemaps
          \/ \E e \in ToSet(walk.entries) :
               e.tag = "sitemap" /\ e.loc.form # "bad" /\ x = [host |-> e.loc.host, depth |-> walk.depth + 1]
      BY <1>3, <3>1 DEF MapPointed
    <3> QED BY <1>5, <1>8, <3>1, <3>2
  <2> QED BY <2>3, <2>4, <2>5, <2>6, <2>7, <2>8 DEF MapInv
<1> QED BY <1>7, <1>8

LEMMA NoWalkIs ==
  WalkIs(NoWalk) /\ NoWalk.queue = <<>> /\ NoWalk.entries = <<>> /\ NoHop.host = SeedHost /\ NoHop.redirects = 0
  /\ NoHop = [host |-> NoHop.host, redirects |-> NoHop.redirects, from |-> NoHop.from]
<1>1. PICK none : none = <<>>
  OBVIOUS
<1>2. NoWalk.queue = none /\ NoWalk.entries = none /\ WalkIs(NoWalk)
  BY <1>1 DEF NoWalk, WalkIs
<1>3. NoHop.host = SeedHost /\ NoHop.redirects = 0
      /\ NoHop = [host |-> NoHop.host, redirects |-> NoHop.redirects, from |-> NoHop.from]
  BY DEF NoHop
<1> QED BY <1>1, <1>2, <1>3

LEMMA FallbackKeeps == MapInv /\ EnterFallback => MapInv'
<1> SUFFICES ASSUME MapInv, EnterFallback PROVE MapInv'
  OBVIOUS
<1>1. /\ mapPhase = "sitemaps" /\ mapPhase' \in {"page", "done"} /\ hop' = NoHop /\ walk' = NoWalk
      /\ mapPlan' = mapPlan /\ robots' = robots /\ answer' = answer /\ links' = links /\ mapVisited' = mapVisited
      /\ reported' = reported /\ asked' = asked /\ listed' = listed /\ pointed' = pointed /\ walked' = walked
  BY DEF EnterFallback
<1>2. \/ Len(reported) >= mapPlan.limit
      \/ walk.entries = <<>> /\ (walk.fetched >= MaxSitemaps \/ walk.queue = <<>>)
  BY DEF EnterFallback, UrlBudgetReached, BudgetReached
<1>3. MapShape /\ MapPhases /\ MapReports /\ MapSources /\ MapSite /\ MapListed /\ MapPointed
  BY DEF MapInv
<1>4. PICK none : none = <<>> /\ IsList(none) /\ ToSet(none) = {}
  BY NoList
<1>5. walk'.queue = none /\ walk'.entries = none /\ WalkIs(walk)' /\ hop'.host = SeedHost /\ hop'.redirects = 0
      /\ (hop = [host |-> hop.host, redirects |-> hop.redirects, from |-> hop.from])'
  BY <1>1, <1>4, NoWalkIs DEF WalkIs
<1>6. walk.fetched = Len(walked)
  BY <1>1, <1>3 DEF MapPhases
<1>7. MapShape'
  BY <1>1, <1>3, <1>4, <1>5 DEF MapShape
<1>8. MapPhases'
  BY <1>1, <1>3 DEF MapPhases, MapEarly, MapLate
<1>9. MapReports'
  BY <1>1, <1>3 DEF MapReports
<1>10. MapSources'
  BY <1>1, <1>3, <1>4, <1>5 DEF MapSources
<1>11. MapSite'
  <2>1. OnSite(SeedHost, 0)
    BY OwnSite DEF OnSite
  <2> QED BY <1>1, <1>3, <1>5, <2>1 DEF MapSite
<1>12. MapListed'
  <2>1. SUFFICES ASSUME NEW l \in listed, Reportable(answer, mapPlan, l.loc)
                 PROVE  Normal(l.loc) \in mapVisited \/ Len(reported) >= mapPlan.limit \/ l.loc \in ToSet(links)
    BY <1>1 DEF MapListed
  <2>2. walk.entries = <<>> => ToSet(walk.entries) = {}
    BY NoList
  <2> QED BY <1>2, <1>3, <2>1, <2>2 DEF MapListed
<1>13. MapPointed'
  <2>1. SUFFICES ASSUME NEW s \in pointed, AdmitsSitemap(s)
                 PROVE  s \in ToSet(walked) \/ Len(reported) >= mapPlan.limit \/ Len(walked) >= MaxSitemaps
    BY <1>1 DEF MapPointed
  <2>2. walk.entries = <<>> => ToSet(walk.entries) = {}
    BY NoList
  <2>3. walk.queue = <<>> => ToSet(walk.queue) = {}
    BY NoList
  <2> QED BY <1>2, <1>3, <1>6, <2>1, <2>2, <2>3 DEF MapPointed
<1> QED BY <1>7, <1>8, <1>9, <1>10, <1>11, <1>12, <1>13 DEF MapInv

\* A request that ends without a document: nothing is asked that was not allowed.
LEMMA RequestEnds ==
  ASSUME MapInv, Fetching, Asked,
         \/ /\ hop' = NoHop /\ mapPhase' = FetchFailed
         \/ /\ mapPhase' = mapPhase /\ OnSite(hop'.host, hop'.redirects) /\ hop'.redirects \in Nat
            /\ hop' = [host |-> hop'.host, redirects |-> hop'.redirects, from |-> hop'.from],
         UNCHANGED <<mapPlan, robots, answer, walk, links, mapVisited, reported, listed, pointed, walked>>
  PROVE  MapInv'
<1>1. /\ mapPlan' = mapPlan /\ robots' = robots /\ answer' = answer /\ walk' = walk /\ links' = links
      /\ mapVisited' = mapVisited /\ reported' = reported /\ listed' = listed /\ pointed' = pointed /\ walked' = walked
      /\ mapPhase \in {"fetching", "page"} /\ asked' = asked \cup {[host |-> hop.host, redirect |-> hop.redirects > 0]}
  BY DEF Fetching, Asked
<1>2. MapShape /\ MapPhases /\ MapReports /\ MapSources /\ MapSite /\ MapListed /\ MapPointed
  BY DEF MapInv
<1>3. mapPhase' \in {"fetching", "page", "sitemaps", "fallback"} /\ (mapPhase = "fetching" <=> mapPhase' \in {"fetching", "sitemaps"})
      /\ (mapPhase = "page" <=> mapPhase' \in {"page", "fallback"})
  BY <1>1 DEF FetchFailed
<1>4. MapShape'
  <2>1. hop'.redirects \in Nat /\ hop' = [host |-> hop'.host, redirects |-> hop'.redirects, from |-> hop'.from]
    BY NoWalkIs
  <2> QED BY <1>1, <1>2, <2>1 DEF MapShape, WalkIs
<1>5. MapPhases'
  BY <1>1, <1>2, <1>3 DEF MapPhases, MapEarly, MapLate
<1>6. MapReports'
  BY <1>1, <1>2 DEF MapReports
<1>7. MapSources'
  BY <1>1, <1>2 DEF MapSources
<1>8. MapSite'
  <2>1. OnSite(hop.host, hop.redirects)
    BY <1>1, <1>2 DEF MapSite
  <2>2. PICK a : a = [host |-> hop.host, redirect |-> hop.redirects > 0]
    OBVIOUS
  <2>3. SameSite(SeedHost, a.host) /\ (a.redirect => HostAllowed(a.host))
    BY <2>1, <2>2 DEF OnSite
  <2>4. \A x \in asked' : SameSite(SeedHost, x.host) /\ (x.redirect => HostAllowed(x.host))
    BY <1>1, <1>2, <2>2, <2>3 DEF MapSite
  <2>5. mapPhase' \in {"fetching", "page"} => OnSite(hop'.host, hop'.redirects)
    BY <1>1 DEF FetchFailed
  <2> QED BY <2>4, <2>5 DEF MapSite
<1>9. MapListed'
  BY <1>1, <1>2 DEF MapListed
<1>10. MapPointed'
  BY <1>1, <1>2 DEF MapPointed
<1> QED BY <1>4, <1>5, <1>6, <1>7, <1>8, <1>9, <1>10 DEF MapInv

LEMMA RedirectKeeps == MapInv /\ (\E h \in MapHosts : FollowRedirect(h)) => MapInv'
<1> SUFFICES ASSUME MapInv, NEW to \in MapHosts, FollowRedirect(to) PROVE MapInv'
  OBVIOUS
<1>1. /\ Fetching /\ Asked
      /\ UNCHANGED <<mapPlan, robots, answer, walk, links, mapVisited, reported, listed, pointed, walked>>
  BY DEF FollowRedirect
<1>2. CASE HostAllowed(to) /\ SameSite(SeedHost, to) /\ hop.redirects + 1 < MaxRedirects
  <2>1. PICK n : n = hop.redirects + 1
    OBVIOUS
  <2>2. hop' = [hop EXCEPT !.host = to, !.redirects = n] /\ mapPhase' = mapPhase
    BY <1>2, <2>1 DEF FollowRedirect
  <2>3. hop = [host |-> hop.host, redirects |-> hop.redirects, from |-> hop.from] /\ n \in Nat
    BY <2>1 DEF MapInv, MapShape
  <2>4. hop'.host = to /\ hop'.redirects = n /\ hop' = [host |-> hop'.host, redirects |-> hop'.redirects, from |-> hop'.from]
    BY <2>2, <2>3
  <2>5. OnSite(hop'.host, hop'.redirects)
    BY <1>2, <2>4 DEF OnSite
  <2> QED BY <1>1, <2>2, <2>3, <2>4, <2>5, RequestEnds
<1>3. CASE ~(HostAllowed(to) /\ SameSite(SeedHost, to) /\ hop.redirects + 1 < MaxRedirects)
  <2>1. hop' = NoHop /\ mapPhase' = FetchFailed
    BY <1>3 DEF FollowRedirect
  <2> QED BY <1>1, <2>1, RequestEnds
<1> QED BY <1>2, <1>3

LEMMA FailureKeeps == MapInv /\ FetchFails => MapInv'
<1> SUFFICES ASSUME MapInv, FetchFails PROVE MapInv'
  OBVIOUS
<1>1. /\ Fetching /\ Asked /\ hop' = NoHop /\ mapPhase' = FetchFailed
      /\ UNCHANGED <<mapPlan, robots, answer, walk, links, mapVisited, reported, listed, pointed, walked>>
  BY DEF FetchFails
<1> QED BY <1>1, RequestEnds

LEMMA RequestOnSite ==
  ASSUME MapSite, mapPhase \in {"fetching", "page"}, Asked, mapPhase' \notin {"fetching", "page"}
  PROVE  MapSite'
<1>1. OnSite(hop.host, hop.redirects)
  BY DEF MapSite
<1>2. PICK a : a = [host |-> hop.host, redirect |-> hop.redirects > 0]
  OBVIOUS
<1>3. SameSite(SeedHost, a.host) /\ (a.redirect => HostAllowed(a.host))
  BY <1>1, <1>2 DEF OnSite
<1>4. \A x \in asked' : SameSite(SeedHost, x.host) /\ (x.redirect => HostAllowed(x.host))
  BY <1>2, <1>3 DEF MapSite, Asked
<1> QED BY <1>4 DEF MapSite

LEMMA SitemapKeeps == MapInv /\ (\E b \in SitemapBodies : SitemapArrives(b)) => MapInv'
<1> SUFFICES ASSUME MapInv, NEW body \in SitemapBodies, SitemapArrives(body) PROVE MapInv'
  OBVIOUS
<1>1. /\ mapPhase = "fetching" /\ mapPhase' = "sitemaps" /\ hop' = NoHop /\ Asked
      /\ mapPlan' = mapPlan /\ robots' = robots /\ answer' = answer /\ links' = links /\ mapVisited' = mapVisited
      /\ reported' = reported /\ walked' = walked
  BY DEF SitemapArrives
<1>2. MapShape /\ MapPhases /\ MapReports /\ MapSources /\ MapSite /\ MapListed /\ MapPointed
  BY DEF MapInv
<1>3. CASE ~Readable(body)
  <2>1. walk' = walk /\ listed' = listed /\ pointed' = pointed
    BY <1>3 DEF SitemapArrives
  <2>2. Fetching /\ mapPhase' = FetchFailed
    BY <1>1 DEF Fetching, FetchFailed
  <2> QED BY <1>1, <2>1, <2>2, RequestEnds
<1>4. CASE Readable(body)
  <2>1. PICK nodes, entries, depth : nodes = body.nodes /\ entries = ParseSitemap(EventsOf(body.nodes)) /\ depth = hop.from.depth
    OBVIOUS
  <2>2. /\ walk' = [walk EXCEPT !.entries = entries, !.depth = depth]
        /\ listed' = listed \cup Lists(nodes) /\ pointed' = pointed \cup PointsTo(nodes, depth + 1)
    BY <1>4, <2>1 DEF SitemapArrives
  <2>3. IsList(nodes) /\ \A n \in ToSet(nodes) : n.tag \in {"url", "sitemap"} /\ IsList(n.loc.path)
    BY <2>1, DiscoveryAssumption, SequenceIsList
  <2>4. \A k \in 1..Len(nodes) : nodes[k].tag \in {"url", "sitemap"}
    BY <2>3, ListedAre
  <2>5. IsList(entries) /\ ToSet(entries) = {EntryOf(n) : n \in {m \in ToSet(nodes) : m.loc # NoLoc}}
    BY <2>1, <2>3, <2>4, SitemapIsRead
  <2>6. \A n : EntryOf(n).tag = n.tag /\ EntryOf(n).loc = n.loc /\ (n.tag = "url" => EntryOf(n).date = n.date)
    BY DEF EntryOf
  <2>7. WalkIs(walk) /\ IsList(walk.queue) /\ walk.entries = <<>> /\ links = <<>> /\ walk.fetched = Len(walked)
    BY <1>1, <1>2 DEF MapShape, MapPhases
  <2>8. ToSet(walk.entries) = {} /\ ToSet(links) = {}
    BY <2>7, NoList
  <2>9. /\ walk'.queue = walk.queue /\ walk'.entries = entries /\ walk'.depth = depth /\ walk'.fetched = walk.fetched
        /\ WalkIs(walk)'
    BY <2>2, <2>7 DEF WalkIs
  <2>10. MapShape'
    <3>1. hop'.redirects \in Nat /\ (hop = [host |-> hop.host, redirects |-> hop.redirects, from |-> hop.from])'
      BY <1>1, NoWalkIs
    <3> QED BY <1>1, <1>2, <2>5, <2>9, <3>1 DEF MapShape
  <2>11. MapPhases'
    BY <1>1, <1>2, <2>9 DEF MapPhases, MapEarly, MapLate
  <2>12. MapReports'
    <3>1. listed \subseteq listed'
      BY <2>2
    <3> QED BY <1>1, <1>2, <3>1 DEF MapReports
  <2>13. MapSources'
    <3>1. ASSUME NEW e \in ToSet(entries)
          PROVE  /\ e.tag \in {"url", "sitemap"} /\ IsList(e.loc.path)
                 /\ e.tag = "url" => [loc |-> e.loc, date |-> e.date] \in listed'
      <4>1. PICK n \in ToSet(nodes) : n.loc # NoLoc /\ e = EntryOf(n)
        BY <2>5, <3>1
      <4>2. e.tag = n.tag /\ e.loc = n.loc /\ (n.tag = "url" => e.date = n.date)
        BY <2>6, <4>1
      <4>3. n.tag = "url" => [loc |-> n.loc, date |-> n.date] \in Lists(nodes)
        BY <4>1 DEF Lists
      <4> QED BY <2>2, <2>3, <4>2, <4>3
    <3> QED BY <1>1, <2>8, <2>9, <3>1 DEF MapSources
  <2>14. MapSite'
    BY <1>1, <1>2, RequestOnSite
  <2>15. MapListed'
    <3>1. SUFFICES ASSUME NEW l \in listed', Reportable(answer, mapPlan, l.loc)
                   PROVE  \/ Normal(l.loc) \in mapVisited \/ Len(reported) >= mapPlan.limit
                          \/ \E e \in ToSet(entries) : e.tag = "url" /\ e.loc = l.loc
      BY <1>1, <2>9 DEF MapListed
    <3>2. CASE l \in listed
      BY <1>2, <2>8, <3>1, <3>2 DEF MapListed
    <3>3. CASE l \in Lists(nodes)
      <4>1. PICK n \in ToSet(nodes) : n.tag = "url" /\ n.loc # NoLoc /\ l = [loc |-> n.loc, date |-> n.date]
        BY <3>3 DEF Lists
      <4>2. l.loc = n.loc
        BY <4>1
      <4>3. EntryOf(n) \in ToSet(entries)
        BY <2>5, <4>1
      <4> QED BY <2>6, <4>1, <4>2, <4>3
    <3> QED BY <2>2, <3>2, <3>3
  <2>16. MapPointed'
    <3>1. SUFFICES ASSUME NEW s \in pointed', AdmitsSitemap(s)
                   PROVE  \/ s \in ToSet(walked) \/ s \in ToSet(walk.queue)
                          \/ Len(reported) >= mapPlan.limit \/ Len(walked) >= MaxSitemaps
                          \/ \E e \in ToSet(entries) :
                               e.tag = "sitemap" /\ e.loc.form # "bad" /\ s = [host |-> e.loc.host, depth |-> depth + 1]
      BY <1>1, <2>9 DEF MapPointed
    <3>2. CASE s \in pointed
      BY <1>2, <2>8, <3>1, <3>2 DEF MapPointed
    <3>3. CASE s \in PointsTo(nodes, depth + 1)
      <4>1. PICK n \in ToSet(nodes) : /\ n.tag = "sitemap" /\ n.loc # NoLoc /\ n.loc.form # "bad"
                                      /\ s = [host |-> n.loc.host, depth |-> depth + 1]
        BY <3>3 DEF PointsTo
      <4>2. EntryOf(n) \in ToSet(entries)
        BY <2>5, <4>1
      <4> QED BY <2>6, <4>1, <4>2
    <3> QED BY <2>2, <3>2, <3>3
  <2> QED BY <2>10, <2>11, <2>12, <2>13, <2>14, <2>15, <2>16 DEF MapInv
<1> QED BY <1>3, <1>4

LEMMA PageKeeps == MapInv /\ (\E p \in HomePages : PageArrives(p)) => MapInv'
<1> SUFFICES ASSUME MapInv, NEW hrefs \in HomePages, PageArrives(hrefs) PROVE MapInv'
  OBVIOUS
<1>1. PICK kept : kept = FoldLeft(KeepLink, <<>>, hrefs)
  OBVIOUS
<1>2. /\ mapPhase = "page" /\ mapPhase' = "fallback" /\ hop' = NoHop /\ Asked /\ links' = kept
      /\ listed' = listed \cup {[loc |-> l, date |-> NoDate] : l \in ToSet(hrefs)}
      /\ mapPlan' = mapPlan /\ robots' = robots /\ answer' = answer /\ walk' = walk /\ mapVisited' = mapVisited
      /\ reported' = reported /\ walked' = walked /\ pointed' = pointed
  BY <1>1 DEF PageArrives
<1>3. MapShape /\ MapPhases /\ MapReports /\ MapSources /\ MapSite /\ MapListed /\ MapPointed
  BY DEF MapInv
<1>4. IsList(hrefs) /\ \A l \in ToSet(hrefs) : IsList(l.path)
  BY DiscoveryAssumption, SequenceIsList
<1>5. IsList(kept) /\ ToSet(kept) = {l \in ToSet(hrefs) : l.form \in {"http", "long"}}
  BY <1>1, <1>4, LinksKept
<1>6. walk = NoWalk /\ links = <<>>
  BY <1>2, <1>3 DEF MapPhases, MapLate
<1>7. ToSet(walk.entries) = {} /\ ToSet(links) = {}
  BY <1>6, NoWalkIs, NoList
<1>8. MapShape'
  <2>1. hop'.redirects \in Nat /\ (hop = [host |-> hop.host, redirects |-> hop.redirects, from |-> hop.from])'
    BY <1>2, NoWalkIs
  <2> QED BY <1>2, <1>3, <1>5, <2>1 DEF MapShape, WalkIs
<1>9. MapPhases'
  BY <1>2, <1>3 DEF MapPhases, MapEarly, MapLate
<1>10. MapReports'
  <2>1. listed \subseteq listed'
    BY <1>2
  <2> QED BY <1>2, <1>3, <2>1 DEF MapReports
<1>11. MapSources'
  <2>1. \A l \in ToSet(kept) : IsList(l.path) /\ [loc |-> l, date |-> NoDate] \in listed'
    BY <1>2, <1>4, <1>5
  <2> QED BY <1>2, <1>7, <2>1 DEF MapSources
<1>12. MapSite'
  BY <1>2, <1>3, RequestOnSite
<1>13. MapListed'
  <2>1. SUFFICES ASSUME NEW l \in listed', Reportable(answer, mapPlan, l.loc)
                 PROVE  Normal(l.loc) \in mapVisited \/ Len(reported) >= mapPlan.limit \/ l.loc \in ToSet(kept)
    BY <1>2 DEF MapListed
  <2>2. CASE l \in listed
    BY <1>3, <1>7, <2>1, <2>2 DEF MapListed
  <2>3. CASE l \in {[loc |-> x, date |-> NoDate] : x \in ToSet(hrefs)}
    <3>1. l.loc \in ToSet(hrefs)
      BY <2>3
    <3>2. l.loc.form = "http"
      BY <2>1 DEF Reportable
    <3> QED BY <1>5, <3>1, <3>2
  <2> QED BY <1>2, <2>2, <2>3
<1>14. MapPointed'
  BY <1>2, <1>3 DEF MapPointed
<1> QED BY <1>8, <1>9, <1>10, <1>11, <1>12, <1>13, <1>14 DEF MapInv

LEMMA DrainKeeps == MapInv /\ DrainFallback => MapInv'
<1> SUFFICES ASSUME MapInv, DrainFallback PROVE MapInv'
  OBVIOUS
<1>1. /\ mapPhase = "fallback" /\ mapPlan' = mapPlan /\ robots' = robots /\ answer' = answer /\ walk' = walk /\ hop' = hop
      /\ asked' = asked /\ listed' = listed /\ pointed' = pointed /\ walked' = walked
  BY DEF DrainFallback
<1>2. MapShape /\ MapPhases /\ MapReports /\ MapSources /\ MapSite /\ MapListed /\ MapPointed
  BY DEF MapInv
<1>3. IsList(links) /\ IsList(reported) /\ mapPlan.limit \in Nat /\ Len(reported) \in Nat
  BY <1>2, ListedAre DEF MapShape
<1>4. answer \in RobotsAnswers /\ robots = RobotsPolicy(answer, ProductToken)
  BY <1>1, <1>2 DEF MapPhases, MapEarly
<1>5. CASE Len(reported) >= mapPlan.limit \/ links = <<>>
  <2>1. mapPhase' = "done" /\ links' = <<>> /\ reported' = reported /\ mapVisited' = mapVisited
    BY <1>5 DEF DrainFallback, UrlBudgetReached
  <2>2. IsList(links') /\ ToSet(links') = {} /\ (links = <<>> => ToSet(links) = {})
    BY <2>1, NoList
  <2>3. MapShape'
    BY <1>1, <1>2, <2>1, <2>2 DEF MapShape, WalkIs
  <2>4. MapPhases'
    BY <1>1, <1>2, <2>1 DEF MapPhases, MapEarly, MapLate
  <2>5. MapReports' /\ MapPointed'
    BY <1>1, <1>2, <2>1 DEF MapReports, MapPointed
  <2>6. MapSources'
    BY <1>1, <1>2, <2>2 DEF MapSources
  <2>7. MapSite'
    BY <1>1, <1>2, <2>1 DEF MapSite
  <2>8. MapListed'
    BY <1>1, <1>2, <1>5, <2>1, <2>2 DEF MapListed
  <2> QED BY <2>3, <2>4, <2>5, <2>6, <2>7, <2>8 DEF MapInv
<1>6. CASE ~(Len(reported) >= mapPlan.limit \/ links = <<>>)
  <2>1. PICK l, rest : l = Head(links) /\ rest = Tail(links)
    OBVIOUS
  <2>2. mapPhase' = "fallback" /\ links' = rest /\ Report(l, NoDate)
    BY <1>1, <1>6, <2>1 DEF DrainFallback, UrlBudgetReached
  <2>3. IsList(rest) /\ l \in ToSet(links) /\ ToSet(links) = {l} \cup ToSet(rest)
    BY <1>3, <1>6, <2>1, ListTaken
  <2>4. IsList(l.path) /\ [loc |-> l, date |-> NoDate] \in listed
    BY <1>2, <2>3 DEF MapSources
  <2>5. Len(reported) < mapPlan.limit
    BY <1>3, <1>6
  <2>6. /\ MapReports' /\ IsList(reported') /\ Len(reported') >= Len(reported) /\ Len(reported') \in Nat
        /\ mapVisited \subseteq mapVisited'
        /\ Reportable(answer, mapPlan, l) => Normal(l) \in mapVisited'
    <3>1. PICK date : date = NoDate
      OBVIOUS
    <3> QED BY <1>1, <1>2, <1>3, <1>4, <2>2, <2>4, <2>5, <3>1, ReportKeeps
  <2>7. MapShape'
    BY <1>1, <1>2, <2>2, <2>3, <2>6 DEF MapShape, WalkIs
  <2>8. MapPhases'
    BY <1>1, <1>2, <2>2 DEF MapPhases, MapEarly, MapLate
  <2>9. MapSources'
    BY <1>1, <1>2, <2>2, <2>3 DEF MapSources
  <2>10. MapSite'
    BY <1>1, <1>2, <2>2 DEF MapSite
  <2>11. MapListed'
    <3>1. SUFFICES ASSUME NEW x \in listed, Reportable(answer, mapPlan, x.loc)
                   PROVE  \/ Normal(x.loc) \in mapVisited'
                          \/ \E e \in ToSet(walk.entries) : e.tag = "url" /\ e.loc = x.loc
                          \/ x.loc \in ToSet(rest)
      BY <1>1, <2>2 DEF MapListed
    <3>2. \/ Normal(x.loc) \in mapVisited
          \/ \E e \in ToSet(walk.entries) : e.tag = "url" /\ e.loc = x.loc
          \/ x.loc \in ToSet(links)
      BY <1>2, <1>6, <3>1 DEF MapListed
    <3> QED BY <2>3, <2>6, <3>1, <3>2
  <2>12. MapPointed'
    <3>1. SUFFICES ASSUME NEW s \in pointed, AdmitsSitemap(s)
                   PROVE  \/ s \in ToSet(walked) \/ s \in ToSet(walk.queue) \/ Len(walked) >= MaxSitemaps
                          \/ \E e \in ToSet(walk.entries) : e.tag = "sitemap" /\ e.loc.form # "bad"
                                                            /\ s = [host |-> e.loc.host, depth |-> walk.depth + 1]
      BY <1>1 DEF MapPointed
    <3> QED BY <1>2, <1>6, <3>1 DEF MapPointed
  <2> QED BY <2>6, <2>7, <2>8, <2>9, <2>10, <2>11, <2>12 DEF MapInv
<1> QED BY <1>5, <1>6

LEMMA SameMap == MapInv /\ UNCHANGED discoveryVars => MapInv'
<1> SUFFICES ASSUME MapInv, UNCHANGED discoveryVars PROVE MapInv'
  OBVIOUS
<1>1. /\ mapPlan' = mapPlan /\ mapPhase' = mapPhase /\ robots' = robots /\ answer' = answer /\ walk' = walk /\ hop' = hop
      /\ links' = links /\ mapVisited' = mapVisited /\ reported' = reported /\ asked' = asked /\ listed' = listed
      /\ pointed' = pointed /\ walked' = walked
  BY DEF discoveryVars
<1>2. MapShape'
  BY <1>1 DEF MapInv, MapShape, WalkIs
<1>3. MapPhases' /\ MapReports'
  BY <1>1 DEF MapInv, MapPhases, MapReports, MapEarly, MapLate
<1>4. MapSources' /\ MapSite'
  BY <1>1 DEF MapInv, MapSources, MapSite
<1>5. MapListed' /\ MapPointed'
  BY <1>1 DEF MapInv, MapListed, MapPointed
<1> QED BY <1>2, <1>3, <1>4, <1>5 DEF MapInv

LEMMA MapKept == MapInv /\ [DiscoveryNext]_discoveryVars => MapInv'
<1> SUFFICES ASSUME MapInv, [DiscoveryNext]_discoveryVars PROVE MapInv'
  OBVIOUS
<1>1. CASE \E p \in MapPlans : BeginMap(p)
  BY <1>1, BeginMapKeeps
<1>2. CASE \E a \in RobotsAnswers : BootstrapRobots(a)
  BY <1>2, BootstrapKeeps
<1>3. CASE EmitEntry
  BY <1>3, EmitKeeps
<1>4. CASE NextSitemap
  BY <1>4, NextSitemapKeeps
<1>5. CASE EnterFallback
  BY <1>5, FallbackKeeps
<1>6. CASE \E h \in MapHosts : FollowRedirect(h)
  BY <1>6, RedirectKeeps
<1>7. CASE FetchFails
  BY <1>7, FailureKeeps
<1>8. CASE \E b \in SitemapBodies : SitemapArrives(b)
  BY <1>8, SitemapKeeps
<1>9. CASE \E p \in HomePages : PageArrives(p)
  BY <1>9, PageKeeps
<1>10. CASE DrainFallback
  BY <1>10, DrainKeeps
<1>11. CASE UNCHANGED discoveryVars
  BY <1>11, SameMap
<1> QED BY <1>1, <1>2, <1>3, <1>4, <1>5, <1>6, <1>7, <1>8, <1>9, <1>10, <1>11 DEF DiscoveryNext

LEMMA MapInvImplies == MapInv => MapSound /\ MapComplete
<1> SUFFICES ASSUME MapInv PROVE MapSound /\ MapComplete
  OBVIOUS
<1>1. MapShape /\ MapPhases /\ MapReports /\ MapSite /\ MapListed /\ MapPointed
  BY DEF MapInv
<1>2. MapSound
  <2>1. \A r \in ToSet(reported) : \E l \in listed : Normal(l.loc) = r.url /\ l.date = r.date /\ MayReport(l.loc)
    BY <1>1, MayReportIs DEF MapReports
  <2> QED BY <1>1, <2>1 DEF MapSound, MapReports, MapSite
<1>3. ASSUME mapPhase = "done", Len(reported) < mapPlan.limit
      PROVE  /\ \A l \in listed : MayReport(l.loc) => \E r \in ToSet(reported) : r.url = Normal(l.loc)
             /\ Len(walked) >= MaxSitemaps \/ \A s \in pointed : AdmitsSitemap(s) => s \in ToSet(walked)
  <2>1. walk = NoWalk /\ links = <<>>
    BY <1>1, <1>3 DEF MapPhases, MapLate
  <2>2. ToSet(walk.entries) = {} /\ ToSet(walk.queue) = {} /\ ToSet(links) = {}
    BY <2>1, NoWalkIs, NoList
  <2>3. ~(Len(reported) >= mapPlan.limit)
    BY <1>1, <1>3, ListedAre DEF MapShape
  <2>4. \A l \in listed : MayReport(l.loc) => Normal(l.loc) \in mapVisited
    BY <1>1, <2>2, <2>3, MayReportIs DEF MapListed
  <2>5. \A s \in pointed : AdmitsSitemap(s) => s \in ToSet(walked) \/ Len(walked) >= MaxSitemaps
    BY <1>1, <2>2, <2>3 DEF MapPointed
  <2> QED BY <1>1, <2>4, <2>5 DEF MapReports
<1> QED BY <1>2, <1>3 DEF MapComplete

LEMMA MapWalks == ServicesSpec => DiscoverySpec
<1>1. ServicesInit => DiscoveryInit
  BY DEF ServicesInit
<1>2. [ServicesNext]_servicesVars => [DiscoveryNext]_discoveryVars
  <2>1. ServicesStep => [DiscoveryNext]_discoveryVars
    BY DEF ServicesStep
  <2>2. UNCHANGED servicesVars => UNCHANGED discoveryVars
    BY DEF servicesVars
  <2> QED BY <2>1, <2>2 DEF ServicesNext
<1> QED BY <1>1, <1>2, PTL DEF ServicesSpec, DiscoverySpec

\* Whatever robots.txt, the sitemaps and the seed page hold, and however requests fail and
\* redirect: map reports only what the rules robots.rs takes and the filters let through, and misses
\* nothing of it below its limits (map.rs, robots.rs).
THEOREM MapHolds == ServicesSpec => []MapExact
<1>1. DiscoverySpec => []MapInv
  BY MapBegins, MapKept, PTL DEF DiscoverySpec
<1>2. MapInv => MapExact
  BY MapInvImplies DEF MapExact
<1> QED BY <1>1, <1>2, MapWalks, PTL
=============================================================================
