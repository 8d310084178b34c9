------------------------------ MODULE MCCrawl ------------------------------
(* Small instances of Crawl for TLC. *)
EXTENDS Crawl

Plan(limit, concurrency) == [limit |-> limit, concurrency |-> concurrency]

\* Nothing asked for; two fetches at a time under a limit that cuts links off;
\* one at a time under a limit that does not.
SomePlans == {Plan(0, 2), Plan(3, 2), Plan(4, 0)}

\* One fetch at a time under a limit that cuts links off.
OneByOne == {Plan(3, 1)}
=============================================================================
