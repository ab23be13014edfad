----------------------------- MODULE SitemapIngest -----------------------------
(***************************************************************************)
(* The ingestion of one domain's sitemaps (SitemapService,                 *)
(* packages/crawler/src/sitemap/sitemap-service.ts): breadth first over    *)
(* sitemap indexes, each URL found asked for in robots.txt, enqueued and   *)
(* recorded.                                                               *)
(*                                                                         *)
(* Abstractions: what a sitemap holds is chosen when it is fetched; the    *)
(* URLs of one sitemap are handled in one step, in any order.              *)
(***************************************************************************)
EXTENDS Integers, Sequences, FiniteSets, SequencesExt

CONSTANTS
  Sitemap, Listed,     \* sitemaps, and URLs they may list
  Disallowed,          \* URLs robots.txt forbids
  MaxIndexDepth, MaxSitemaps

ASSUME SitemapAssumption ==
  IsFiniteSet(Sitemap) /\ Disallowed \subseteq Listed /\ MaxIndexDepth \in Nat /\ MaxSitemaps \in Nat

VARIABLES
  ingesting,
  pendingMaps,   \* pendingSitemaps: the sitemaps to fetch, with their depths
  visited,       \* visitedSitemaps
  fetchedMaps,   \* history: sitemap -> times it was fetched
  enqueued,      \* URLs in the crawl queue
  recorded       \* URLs in the repository

mapVars == <<ingesting, pendingMaps, visited, fetchedMaps, enqueued, recorded>>

MapTypeOK ==
  /\ ingesting \in BOOLEAN
  /\ \A i \in DOMAIN pendingMaps : pendingMaps[i] \in [map : Sitemap, depth : 0..MaxIndexDepth + 1]
  /\ visited \subseteq Sitemap /\ enqueued \subseteq Listed /\ recorded \subseteq Listed
  /\ fetchedMaps \in [Sitemap -> 0..1]

MapInit ==
  /\ ingesting = FALSE /\ pendingMaps = <<>> /\ visited = {}
  /\ fetchedMaps = [s \in Sitemap |-> 0] /\ enqueued = {} /\ recorded = {}

\* the sitemaps robots.txt names, or the well-known one
BeginIngest(roots) ==
  /\ ~ingesting /\ ingesting' = TRUE
  /\ pendingMaps' = [i \in DOMAIN roots |-> [map |-> roots[i], depth |-> 0]]
  /\ visited' = {} /\ fetchedMaps' = [s \in Sitemap |-> 0]
  /\ UNCHANGED <<enqueued, recorded>>

More == pendingMaps # <<>> /\ Cardinality(visited) < MaxSitemaps
Current == Head(pendingMaps)
Passed == Current.map \in visited \/ Current.depth > MaxIndexDepth

SkipsSitemap ==
  /\ ingesting /\ More /\ Passed
  /\ pendingMaps' = Tail(pendingMaps)
  /\ UNCHANGED <<ingesting, visited, fetchedMaps, enqueued, recorded>>

FetchesSitemap ==
  /\ ingesting /\ More /\ ~Passed
  /\ visited' = visited \cup {Current.map}
  /\ fetchedMaps' = [fetchedMaps EXCEPT ![Current.map] = @ + 1]
  /\ UNCHANGED ingesting

\* an index: its children that have not been visited join the list
ReadsIndex(children) ==
  /\ FetchesSitemap
  /\ LET new == SetToSeq(children \ visited')
     IN  pendingMaps' = Tail(pendingMaps) \o
           [i \in DOMAIN new |-> [map |-> new[i], depth |-> Current.depth + 1]]
  /\ UNCHANGED <<enqueued, recorded>>

\* a list of URLs: those allowed are enqueued, which the queue may refuse, and recorded,
\* which may fail and is then let be
ReadsUrls(urls) ==
  /\ FetchesSitemap
  /\ pendingMaps' = Tail(pendingMaps)
  /\ \E accepted \in SUBSET (urls \ Disallowed), written \in SUBSET (urls \ Disallowed) :
       enqueued' = enqueued \cup accepted /\ recorded' = recorded \cup written

\* it cannot be fetched or parsed
FailsSitemap ==
  /\ FetchesSitemap
  /\ pendingMaps' = Tail(pendingMaps)
  /\ UNCHANGED <<enqueued, recorded>>

EndsIngest ==
  /\ ingesting /\ ~More /\ ingesting' = FALSE
  /\ pendingMaps' = <<>>
  /\ UNCHANGED <<visited, fetchedMaps, enqueued, recorded>>

IngestStep ==
  \/ SkipsSitemap \/ FailsSitemap \/ EndsIngest
  \/ \E children \in SUBSET Sitemap : ReadsIndex(children)
  \/ \E urls \in SUBSET Listed : ReadsUrls(urls)

MapNext ==
  \/ \E s \in Sitemap, t \in Sitemap : BeginIngest(IF s = t THEN <<s>> ELSE <<s, t>>)
  \/ IngestStep

\* a sitemap, or the robots.txt asked for its URLs, is being fetched: it need not end
AwaitsSitemap == ingesting /\ More /\ ~Passed
MapFairness == WF_mapVars(IngestStep /\ ~AwaitsSitemap)

MapSpec == MapInit /\ [][MapNext]_mapVars /\ MapFairness

(***************************************************************************)
(* Properties                                                              *)
(***************************************************************************)

\* Whatever the indexes name, themselves included, one ingestion fetches a sitemap at
\* most once, and no more sitemaps than the limit.
SitemapsFetchedOnce ==
  /\ \A s \in Sitemap : fetchedMaps[s] <= 1
  /\ Cardinality({s \in Sitemap : fetchedMaps[s] > 0}) <= MaxSitemaps

\* A URL robots.txt forbids gets neither into the queue nor into the repository.
ForbiddenStayOut == (enqueued \cup recorded) \cap Disallowed = {}

\* Every ingestion ends, unless a fetch never does.
IngestsEnd == (ingesting ~> ~ingesting) \/ <>[]AwaitsSitemap
===============================================================================
