----------------------------- MODULE MCCrawlQueue -----------------------------
(* Two URLs, one of them reachable through two spellings. *)
EXTENDS CrawlQueue

CONSTANTS u1, u2

MCUrl == {u1, u2}
MCRawUrl == {"u1", "U1", "u2", "bad"}
MCCanonical ==
  [r \in MCRawUrl |-> CASE r \in {"u1", "U1"} -> u1 [] r = "u2" -> u2 [] OTHER -> NoUrl]
===============================================================================
