----------------------------- MODULE MCStructures -----------------------------
(***************************************************************************)
(* The algorithms and data structures, each on its own: a behaviour        *)
(* chooses one of them, and the others stay as they begin.                 *)
(***************************************************************************)
EXTENDS CandidateRetrieval, PageRank, PostingCodec, PrefixTrie, QueryText, RankedResults

VARIABLE part   \* the component that runs

allVars ==
  <<topVars, retrievalVars, rankVars, codecVars, editVars, trieVars, mathVars, queryVars, rankedVars, part>>

MCTitle     == {<<>>, <<"b">>}
MCBody      == {<<>>, <<"a">>, <<"a", "b">>, <<"b", "a">>, <<"x", "b">>, <<"a", "s">>}
MCPhrase    == {<<>>, <<"a", "b">>}
MCSynonymOf == [t \in Wanted |-> IF t = "a" THEN {"s"} ELSE {}]

Posting   == [docId : {0, 3, 4, 17}, tf : {1, 5}, positions : {<<>>, <<0>>, <<3>>, <<16, 4>>, <<2, 2, 70>>}]
MCRecords == {<<>>} \cup {<<a>> : a \in Posting}
               \cup {<<p[1], p[2]>> : p \in {q \in Posting \X Posting : q[1].docId # q[2].docId}}

\* lengths from one to past the deepest node, so that the bonus of a short text matters
MCSuggestText == {<<"a">>, <<"b">>, <<"a", "a">>, <<"a", "b">>, <<"a", "b", "a", "b">>,
                  <<"a", "b", "a", "b", "a">>, <<"b", "a", "b", "a", "b", "a">>}

\* the hosts of documents are "a.b" and "c.b"; one pattern matches the first, one both
AnyHost       == <<"a", "b">>
OneHost       == [star |-> FALSE, labels |-> <<"a", "b">>]
BothHosts     == [star |-> TRUE,  labels |-> <<"b">>]
MCLensPattern == {OneHost, BothHosts}
MCRankHost    == {AnyHost, <<"c", "b">>}
OneRule(p, m) == <<[pattern |-> p, multiplier |-> m]>>

\* no lens; one that excludes; one that boosts and demotes, with the tracker signal
MCSettings ==
  {[lens |-> GeneralLens, trackers |-> FALSE, bases |-> {1, 2}],
   [lens |-> [GeneralLens EXCEPT !.id = "mine", !.boosts = OneRule(BothHosts, 6), !.excludes = {OneHost}],
    trackers |-> FALSE, bases |-> {1, 2}],
   [lens |-> [GeneralLens EXCEPT !.id = "mine", !.boosts = OneRule(OneHost, 8), !.demotes = OneRule(BothHosts, 1)],
    trackers |-> TRUE, bases |-> {1}]}

\* what the components that do not run begin with, of the many things they could
Init ==
  /\ part \in {"topk", "retrieval", "rank", "codec", "edits", "trie", "math", "query", "results"}
  /\ IF part = "topk" THEN TRUE
     ELSE /\ algorithm = "wand" /\ topK = 1 /\ termScore = [t \in QueryTerm |-> [d \in DocId |-> 0]]
          /\ urlWords = [d \in DocId |-> 0] /\ negated = {}
  /\ IF part = "retrieval" THEN TRUE
     ELSE /\ text = [d \in TextDoc |-> [title |-> <<>>, body |-> <<>>]]
          /\ query = [terms |-> {}, expanded |-> FALSE, negated |-> {}, phrase |-> <<>>, filters |-> FALSE,
                      passing |-> TextDoc \ {1}, mode |-> "union", limit |-> 1]
  /\ IF part = "rank" THEN TRUE
     ELSE nodes = {} /\ links = [n \in {} |-> {}] /\ uniform = FALSE /\ maxRounds = 2
  /\ IF part = "codec" THEN TRUE ELSE records = <<>>
  /\ IF part = "edits" THEN TRUE ELSE editSource = <<>> /\ editTarget = <<>>
  /\ TrieInit /\ MathInit
  /\ QueryInit /\ EditInit /\ CodecInit /\ RankInit /\ RetrievalInit /\ TopKInit
  /\ IF part = "results" THEN RankedInit
     ELSE /\ settings = [lens |-> GeneralLens, trackers |-> FALSE, bases |-> {1, 2}]
          /\ candidates = [d \in RankDoc |-> [base |-> 1, host |-> AnyHost, title |-> "", class |-> "none"]]
          /\ pageSize = 2 /\ pagesRead = 0 /\ seen = <<>>

Next ==
  /\ UNCHANGED part
  /\ \/ /\ part = "topk" /\ TopKNext
        /\ UNCHANGED <<retrievalVars, rankVars, codecVars, editVars, trieVars, mathVars,
                       queryVars, rankedVars>>
     \/ /\ part = "retrieval" /\ RetrievalNext
        /\ UNCHANGED <<topVars, rankVars, codecVars, editVars, trieVars, mathVars, queryVars,
                       rankedVars>>
     \/ /\ part = "rank" /\ RankNext
        /\ UNCHANGED <<topVars, retrievalVars, codecVars, editVars, trieVars, mathVars, queryVars,
                       rankedVars>>
     \/ /\ part = "codec" /\ CodecNext
        /\ UNCHANGED <<topVars, retrievalVars, rankVars, editVars, trieVars, mathVars, queryVars,
                       rankedVars>>
     \/ /\ part = "edits" /\ EditNext
        /\ UNCHANGED <<topVars, retrievalVars, rankVars, codecVars, trieVars, mathVars, queryVars,
                       rankedVars>>
     \/ /\ part = "trie" /\ TrieNext
        /\ UNCHANGED <<topVars, retrievalVars, rankVars, codecVars, editVars, mathVars, queryVars,
                       rankedVars>>
     \/ /\ part = "math" /\ MathNext
        /\ UNCHANGED <<topVars, retrievalVars, rankVars, codecVars, editVars, trieVars, queryVars,
                       rankedVars>>
     \/ /\ part = "query" /\ QueryNext
        /\ UNCHANGED <<topVars, retrievalVars, rankVars, codecVars, editVars, trieVars, mathVars,
                       rankedVars>>
     \/ /\ part = "results" /\ RankedNext
        /\ UNCHANGED <<topVars, retrievalVars, rankVars, codecVars, editVars, trieVars, mathVars,
                       queryVars>>

Spec == Init /\ [][Next]_allVars

(***************************************************************************)
(* Properties.  Each gathers the parts of one question, asked of the       *)
(* component that runs; the parts, and the code they are about, are        *)
(* explained in the components' modules.                                   *)
(***************************************************************************)

\* The state of every component is well formed.
StructuresTypeOK ==
  /\ part = "topk"      => TopKTypeOK
  /\ part = "retrieval" => RetrievalTypeOK
  /\ part = "rank"      => RankTypeOK
  /\ part = "codec"     => CodecTypeOK
  /\ part = "edits"     => EditTypeOK
  /\ part = "trie"      => TrieTypeOK
  /\ part = "math"      => MathTypeOK
  /\ part = "query"     => QueryTypeOK
  /\ part = "results"   => RankedTypeOK

\* A search finds what a search without shortcuts would: pruning, excluded terms, filters,
\* modes, limits and phrases against their definitions; and the pages it is read in are
\* the whole ranking, in an order that diversity and trackers change only as they may.
SearchIsExact ==
  /\ part = "topk" => PruningIsExact
  /\ part = "retrieval" =>
       ExcludedStayOut /\ FullMatchesAreFound /\ LimitKeepsTheBest /\ PhrasesAreContiguous
  /\ part = "results" => DiversityKeepsOrderOfAHost /\ PagesPartitionResults /\ TrackersOnlyDemote

\* PageRank over the link graph loses no rank, and what it returns are the scores it
\* computed last, and nearly a fixed point if it says so.
RankIsComputed ==
  part = "rank" => MassIsOne /\ ConvergedIsStable /\ ReturnsNewestScores

\* What is written or typed is read as it was meant: posting lists that are decoded,
\* distances of words, suggestions, arithmetic, words and exclusions of a query.
WrittenIsRead ==
  /\ part = "codec" => DecodedIsAPrefix /\ Lossless
  /\ part = "edits" => OneEditIsDistanceOne /\ DistanceTwoIsTwoEdits /\ LengthGuardIsSafe
  /\ part = "trie"  => HeaviestAreSuggested /\ ExactTextComesFirst
  /\ part = "math"  => EvaluatedAsItReads
  /\ part = "query" => WordsCount /\ ExcludedAreMarked
===============================================================================
