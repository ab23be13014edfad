------------------------------- MODULE LinkGraph -------------------------------
(***************************************************************************)
(* The link graph of the crawl (packages/crawler/src/graph/link-graph.ts): *)
(* pages and their links under bounds on both, redirects that fold the     *)
(* addresses of a page into one, and the snapshot it is saved as.          *)
(*                                                                         *)
(* The nodes, the two adjacency maps, the edges and the degrees are kept   *)
(* apart, as the code keeps them, and must agree.                          *)
(*                                                                         *)
(* Abstractions: addresses are valid and normalized, links are external    *)
(* and followed; anchors, titles and the counters of dropped links are     *)
(* left out.                                                               *)
(***************************************************************************)
EXTENDS Integers, Sequences, FiniteSets

CONSTANTS
  Page,                 \* normalized addresses
  MaxNodes, MaxOut,     \* maxNodes and maxOutboundEdgesPerNode
  AllowSelfLoops,
  LinkLists,            \* the lists of links that documents have
  MaxHops,              \* hops resolveCanonicalUrl follows
  MaxIngested               \* bound: documents and redirects added

ASSUME GraphAssumption ==
  /\ MaxNodes \in Nat /\ MaxOut \in Nat /\ AllowSelfLoops \in BOOLEAN
  /\ MaxHops \in Nat /\ MaxIngested \in Nat /\ "" \notin Page
  /\ LinkLists \subseteq Seq(Page)

VARIABLES
  graph,       \* nodes with their degrees, adjacency and reverse adjacency, edges in their order
  redirects,   \* address -> address, "" for none
  ingested,        \* documents and redirects added so far
  byHand       \* history: registerRedirect was called from outside

graphVars == <<graph, redirects, ingested, byHand>>

NoGraph == [nodes |-> {}, inDeg |-> [p \in Page |-> 0], outDeg |-> [p \in Page |-> 0],
            out |-> [p \in Page |-> {}], back |-> [p \in Page |-> {}], edges |-> <<>>]

GraphTypeOK ==
  /\ graph.nodes \subseteq Page /\ Cardinality(graph.nodes) <= MaxNodes
  /\ graph.inDeg \in [Page -> 0..MaxNodes] /\ graph.outDeg \in [Page -> 0..MaxOut]
  /\ graph.out \in [Page -> SUBSET Page] /\ graph.back \in [Page -> SUBSET Page]
  /\ \A i \in DOMAIN graph.edges :
       graph.edges[i] \in [from : Page, to : Page, count : Nat \ {0}]
  /\ redirects \in [Page -> Page \cup {""}]
  /\ ingested \in 0..MaxIngested /\ byHand \in BOOLEAN

GraphInit ==
  /\ graph = NoGraph /\ redirects = [p \in Page |-> ""] /\ ingested = 0 /\ byHand = FALSE

\* resolveCanonicalUrl
Resolved(rs, p) ==
  LET hop[n \in 0..MaxHops] == IF n = 0 THEN p
                               ELSE LET q == hop[n - 1] IN IF rs[q] = "" THEN q ELSE rs[q]
  IN  hop[MaxHops]

\* registerRedirect
Redirected(rs, from, to) == IF from = to THEN rs ELSE [rs EXCEPT ![from] = to]

\* ensureNode
HasRoom(g, p)    == p \in g.nodes \/ Cardinality(g.nodes) < MaxNodes
WithNode(g, p)   == IF HasRoom(g, p) THEN [g EXCEPT !.nodes = @ \cup {p}] ELSE g
EdgeIndex(g, s, t) == {i \in DOMAIN g.edges : g.edges[i].from = s /\ g.edges[i].to = t}

\* a new edge, or one more of the links an edge stands for
WithEdge(g, s, t) ==
  IF EdgeIndex(g, s, t) # {}
  THEN LET i == CHOOSE i \in EdgeIndex(g, s, t) : TRUE
       IN  [g EXCEPT !.edges[i].count = @ + 1]
  ELSE LET linked == [g EXCEPT !.edges = Append(@, [from |-> s, to |-> t, count |-> 1]),
                               !.out[s] = @ \cup {t}, !.back[t] = @ \cup {s}]
       IN  [linked EXCEPT !.outDeg[s] = Cardinality(linked.out[s]),
                          !.inDeg[t] = Cardinality(linked.back[t])]

\* addEdge: a page that has its links already takes no more, not even one it has
AddEdge(g, rs, from, to) ==
  LET s == Resolved(rs, from)
      t == Resolved(rs, to)
      g1 == WithNode(g, s)
  IN  IF s = t /\ ~AllowSelfLoops THEN g
      ELSE IF ~HasRoom(g, s) \/ Cardinality(g1.out[s]) >= MaxOut \/ ~HasRoom(g1, t) THEN g1
      ELSE WithEdge(WithNode(g1, t), s, t)

\* the links of a page, one after the other
AddEdges(g, rs, edges) ==
  LET after[n \in 0..Len(edges)] == IF n = 0 THEN g
                                    ELSE AddEdge(after[n - 1], rs, edges[n].from, edges[n].to)
  IN  after[Len(edges)]

\* mutant: the canonical address is not resolved
SourceAsNamed(url, canonical) == canonical

\* addDocument: what it was crawled as becomes a redirect to what it is
Source(url, canonical) == Resolved(redirects, canonical)

AddLinksOfDocument(url, canonical, links) ==
  LET source == Source(url, canonical)
      rs     == Redirected(redirects, url, source)
  IN  /\ ingested < MaxIngested /\ ingested' = ingested + 1
      /\ redirects' = rs
      /\ graph' = IF ~HasRoom(graph, source) THEN graph
                  ELSE AddEdges(WithNode(graph, source), rs,
                                [i \in DOMAIN links |-> [from |-> source, to |-> links[i]]])
      /\ UNCHANGED byHand

RegisterRedirect(from, to) ==
  /\ ingested < MaxIngested /\ ingested' = ingested + 1
  /\ redirects' = Redirected(redirects, from, to)
  /\ byHand' = TRUE
  /\ UNCHANGED graph

\* fromJSON: the nodes, and then the edges, are added to a graph without redirects
NoRedirects == [p \in Page |-> ""]
Reloaded(g) == AddEdges([NoGraph EXCEPT !.nodes = g.nodes], NoRedirects, g.edges)

ReloadGraph ==
  /\ graph' = Reloaded(graph)
  /\ redirects' = NoRedirects
  /\ UNCHANGED <<ingested, byHand>>

GraphNext ==
  \/ ReloadGraph
  \/ \E p, q \in Page : RegisterRedirect(p, q)
  \/ \E p, q \in Page, links \in LinkLists : AddLinksOfDocument(p, q, links)

GraphSpec == GraphInit /\ [][GraphNext]_graphVars

(***************************************************************************)
(* Properties                                                              *)
(***************************************************************************)
EdgeSet(g) == {<<g.edges[i].from, g.edges[i].to>> : i \in DOMAIN g.edges}

\* Both adjacency maps, the edges and the degrees tell of the same links, among pages
\* that are nodes: PageRank reads them all.
GraphAgrees ==
  /\ EdgeSet(graph) = {e \in Page \X Page : e[2] \in graph.out[e[1]]}
  /\ EdgeSet(graph) = {e \in Page \X Page : e[1] \in graph.back[e[2]]}
  /\ EdgeSet(graph) \subseteq graph.nodes \X graph.nodes
  /\ Cardinality(EdgeSet(graph)) = Len(graph.edges)
  /\ \A p \in Page : /\ graph.outDeg[p] = Cardinality(graph.out[p])
                     /\ graph.inDeg[p] = Cardinality(graph.back[p])

\* Redirects that come from documents never run in a circle, in whatever order pages
\* name each other as canonical: every address has one page it stands for.  (As long as
\* no chain can be longer than what resolution follows; then it takes a page in the
\* middle of a chain for its end, and a redirect to it may close a circle.)
RedirectsEnd ==
  ~byHand /\ ingested <= MaxHops => \A p \in Page : redirects[Resolved(redirects, p)] = ""

\* A snapshot that is loaded again has the same pages and links, also when the bounds
\* were reached.
ReloadKeepsTopology ==
  LET h == Reloaded(graph)
  IN  h.nodes = graph.nodes /\ h.out = graph.out /\ h.back = graph.back
        /\ h.outDeg = graph.outDeg /\ h.inDeg = graph.inDeg
===============================================================================
