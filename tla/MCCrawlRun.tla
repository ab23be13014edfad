------------------------------ MODULE MCCrawlRun ------------------------------
(* Four pages of one site: two seeds, one of which links to the other two     *)
(* pages, and one of these back; the robots file may disallow a page.         *)
EXTENDS CrawlRun

MCUrl   == {"a", "b", "c", "d"}
MCSeeds == <<"a", "b">>
MCLinks == [u \in MCUrl |-> CASE u = "a" -> <<"c", "d">> [] u = "c" -> <<"a", "b">> [] OTHER -> <<>>]
MCDomain == [u \in MCUrl |-> "site"]

\* a smaller site for the runs with restarts and re-crawls
SmallUrl   == {"a", "b", "c"}
SmallSeeds == <<"a">>
SmallLinks == [u \in SmallUrl |-> IF u = "a" THEN <<"b", "c">> ELSE <<"a">>]
SmallDomain == [u \in SmallUrl |-> "site"]
NoneBlocked == {}
DBlocked == {"d"}
===============================================================================
