------------------------------- MODULE PageRank -------------------------------
(***************************************************************************)
(* PageRank by power iteration (computePageRank,                           *)
(* packages/crawler/src/graph/pagerank.ts): two buffers take turns, the    *)
(* rank of pages without links goes to all, and iteration ends when the    *)
(* scores hardly change or when there have been enough rounds.             *)
(*                                                                         *)
(* Abstractions: a score is an integer, the share of Scale that stands for *)
(* 1; Scale is divisible by all that is divided by, so that arithmetic is  *)
(* exact.  The table of scores, its statistics and its file are left out.  *)
(***************************************************************************)
EXTENDS Integers, FiniteSets, FiniteSetsExt

CONSTANTS
  Node,
  Scale,             \* the sum of all scores
  DampNum, DampDen,  \* dampingFactor, a fraction
  Converged,         \* convergenceThreshold, as a share of Scale
  MaxIterations      \* the values of maxIterations

ASSUME RankAssumption ==
  /\ Scale \in Nat \ {0} /\ DampNum \in 1..DampDen - 1 /\ Converged \in Nat \ {0}
  /\ MaxIterations \subseteq Nat \ {0}

VARIABLES
  nodes, links,     \* the graph: its pages, and the pages each links to
  uniform,          \* danglingNodeHandling is "redistribute-uniform"
  maxRounds,        \* maxIterations
  prevScores, currScores,
  rounds,           \* iterations
  result,           \* [done, converged, scores]
  newest            \* history: the scores computed last

rankVars == <<nodes, links, uniform, maxRounds, prevScores, currScores, rounds, result, newest>>
graphAndOptions == <<nodes, links, uniform, maxRounds>>

N == Cardinality(nodes)
Total(f) == MapThenSumSet(LAMBDA v : f[v], nodes)
Zero     == [v \in nodes |-> 0]
Unknown  == [done |-> FALSE, converged |-> FALSE, scores |-> Zero]
Apart(n, m) == IF n < m THEN m - n ELSE n - m
Delta(f, g) == MapThenSumSet(LAMBDA v : Apart(f[v], g[v]), nodes)

(***************************************************************************)
(* One round                                                               *)
(***************************************************************************)
Inlinks(v) == {u \in nodes : v \in links[u]}
Dangling   == {u \in nodes : links[u] = {}}

\* what every page gets: the random jumps, and its part of the rank of pages without links
BaseScore(f) ==
  ((DampDen - DampNum) * Scale
   + (IF uniform THEN DampNum * MapThenSumSet(LAMBDA u : f[u], Dangling) ELSE 0)) \div (DampDen * N)

Round(f) ==
  [v \in nodes |->
     BaseScore(f) + (DampNum * MapThenSumSet(LAMBDA u : f[u] \div Cardinality(links[u]), Inlinks(v)))
                 \div DampDen]

(***************************************************************************)
(* The iteration                                                           *)
(***************************************************************************)
Uniform == [v \in nodes |-> Scale \div N]

RankInit ==
  /\ nodes \in SUBSET Node
  /\ links \in [nodes -> SUBSET nodes]
  /\ uniform \in BOOLEAN /\ maxRounds \in MaxIterations
  /\ rounds = 0
  /\ IF N < 2   \* an empty graph, or a single page
     THEN /\ prevScores = Zero /\ currScores = Zero
          /\ newest = [v \in nodes |-> Scale]
          /\ result = [done |-> TRUE, converged |-> TRUE, scores |-> newest]
     ELSE /\ prevScores = Uniform /\ currScores = Zero
          /\ newest = Uniform /\ result = Unknown

\* mutant: the swap of the buffers is forgotten
ReturnedCurrent(converged, prev, curr) == curr
Returned(converged, prev, curr) ==
  IF converged \/ rounds' % 2 = 1 THEN curr ELSE prev

\* a round that changes little ends the iteration; after another the buffers are swapped
Iterate ==
  LET next == Round(prevScores)
      small == Delta(next, prevScores) < Converged
  IN  /\ ~result.done
      /\ rounds' = rounds + 1 /\ newest' = next
      /\ prevScores' = IF small THEN prevScores ELSE next
      /\ currScores' = IF small THEN next ELSE prevScores
      /\ result' = IF small \/ rounds' = maxRounds
                   THEN [done |-> TRUE, converged |-> small,
                         scores |-> Returned(small, prevScores', currScores')]
                   ELSE Unknown
      /\ UNCHANGED graphAndOptions

RankNext == Iterate
RankSpec == RankInit /\ [][RankNext]_rankVars

(***************************************************************************)
(* Properties                                                              *)
(***************************************************************************)
RankTypeOK ==
  /\ nodes \subseteq Node /\ links \in [nodes -> SUBSET nodes]
  /\ uniform \in BOOLEAN /\ maxRounds \in MaxIterations /\ rounds \in 0..maxRounds
  /\ {prevScores, currScores, newest, result.scores} \subseteq [nodes -> 0..Scale]
  /\ result.done \in BOOLEAN /\ result.converged \in BOOLEAN

\* "Dangling node mass redistribution (prevents probability sinkholes)": the scores of
\* every round sum up to one; without redistribution they never sum up to more.
MassIsOne ==
  N > 0 => IF uniform THEN Total(newest) = Scale ELSE Total(newest) <= Scale

\* "Strict convergence checking with L1 norm threshold": converged scores are close to a
\* fixed point, that is another round would change them by less than the threshold.
ConvergedIsStable ==
  result.converged /\ N > 1 =>
    LET again == Round(result.scores)
    IN  MapThenSumSet(LAMBDA v : Apart(again[v], result.scores[v]), nodes) < Converged

\* The scores returned are those of the iteration that the metadata tell of, when the
\* iteration converged or ended after an even number of rounds.  After an odd number
\* without convergence (pagerank.ts:235 takes the other buffer) they are those of the
\* round before: one more round would give the scores computed last.
ReturnsNewestScores ==
  result.done =>
    IF result.converged \/ rounds % 2 = 0 THEN result.scores = newest
    ELSE Round(result.scores) = newest
===============================================================================
