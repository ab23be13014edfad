----------------------------- MODULE RankedResults -----------------------------
(***************************************************************************)
(* From candidates to a page of results: DefaultRankingEngine.rank         *)
(* (packages/ranking/src/scorer/ranking-engine.ts), the tracker signal     *)
(* (ranking/src/tracker/tracker-scorer.ts) and the pagination of the       *)
(* result generator (ranking/src/results/result-generator.ts), as the      *)
(* search route puts them together.                                        *)
(*                                                                         *)
(* Scores are whole numbers.  A multiplier counts in units of 1/LensOne,   *)
(* and the penalty of PenaltyNum / PenaltyDen is applied to scores that    *)
(* are first multiplied by a power of PenaltyDen, so that nothing is       *)
(* rounded.                                                                *)
(***************************************************************************)
EXTENDS LensRules

CONSTANTS
  RankDoc,        \* documents: 1..n, in the order of their ids
  RankHost,       \* hosts of documents
  RankTitle,      \* titles, "" for those that are too short to compare
  MaxBase,        \* bound: the largest relevance
  MaxClassified,  \* bound: documents whose trackers are known
  Settings,       \* the settings a search may be made with: records [lens, trackers,
                  \* bases], where bases (a bound) are the relevances tried with it
  CleanBoost,     \* cleanSiteBoost, trackingPenalty, heavyTrackingPenalty
  TrackingPenalty,
  HeavyPenalty,
  PenaltyNum, PenaltyDen,   \* duplicatePenaltyMultiplier
  MinTopK,        \* the fewest hits the search route asks for
  PageSizes

ASSUME RankedAssumption ==
  /\ RankDoc = 1..Cardinality(RankDoc)
  /\ PenaltyNum \in Nat \ {0} /\ PenaltyDen > PenaltyNum /\ MinTopK \in Nat \ {0}
  /\ PageSizes \subseteq Nat \ {0}

Classification == {"none", "clean", "uncertain", "tracked", "intrusive"}

VARIABLES
  candidates,   \* per document: its relevance, host, title and tracker classification
  settings,     \* the active lens, and whether the tracker signal is enabled
  pageSize,
  pagesRead,    \* pages the user has asked for, one after the other
  seen          \* history: the documents they showed

rankedVars == <<candidates, settings, pageSize, pagesRead, seen>>

lens      == settings.lens
trackers  == settings.trackers
HitRecord == [base : 1..MaxBase, host : RankHost, title : RankTitle, class : Classification]

RankedTypeOK ==
  /\ candidates \in [RankDoc -> HitRecord] /\ settings \in Settings /\ pageSize \in PageSizes
  /\ pagesRead \in Nat /\ seen \in Seq(RankDoc)

\* the classification of a document is left open only when the signal is enabled
RankedInit ==
  /\ settings \in Settings /\ pageSize \in PageSizes /\ pagesRead = 0 /\ seen = <<>>
  /\ \E base \in [RankDoc -> settings.bases], host \in [RankDoc -> RankHost], title \in [RankDoc -> RankTitle] :
     \E some \in {S \in SUBSET RankDoc : Cardinality(S) <= IF trackers THEN MaxClassified ELSE 0} :
     \E class \in [some -> Classification \ {"none"}] :
       candidates = [d \in RankDoc |->
         [base |-> base[d], host |-> host[d], title |-> title[d],
          class |-> IF d \in some THEN class[d] ELSE "none"]]

(***************************************************************************)
(* Scores                                                                  *)
(***************************************************************************)
\* evaluateTrackerSignal: what is not known is not held against a document
TrackerMultiplier(class) ==
  CASE ~trackers                       -> LensOne
    [] class = "clean"                 -> CleanBoost
    [] class = "tracked"               -> TrackingPenalty
    [] class = "intrusive"             -> HeavyPenalty
    [] class \in {"none", "uncertain"} -> LensOne

LensEffect(d) == EvaluateLens(candidates[d].host, lens)
NotExcluded   == {d \in RankDoc : LensEffect(d).action # "exclude"}

Factors      == 2 * Cardinality(RankDoc)    \* the most penalties a score meets
RawScore(d)  == candidates[d].base * TrackerMultiplier(candidates[d].class) * LensEffect(d).multiplier

PlaceOf(s, d) == SelectInSeq(s, LAMBDA e : e = d)

\* scored documents sorted by score; the smaller id goes first among equals
Ahead(a, b)    == a.score > b.score \/ (a.score = b.score /\ a.doc < b.doc)
Placed(x, s)   == SelectSeq(s, LAMBDA y : Ahead(y, x)) \o <<x>> \o SelectSeq(s, LAMBDA y : Ahead(x, y))
Sorted(scored) == FoldSet(Placed, <<>>, scored)
Raw(S)         == {[doc |-> d, score |-> RawScore(d)] : d \in S}

\* the penalties of the document at a place: one for each earlier one of its host, and
\* one for an earlier title that begins the same
Penalties(order, i) ==
  LET c     == candidates[order[i].doc]
      hosts == Cardinality({j \in 1..(i - 1) : candidates[order[j].doc].host = c.host})
      alike == \E j \in 1..(i - 1) : candidates[order[j].doc].title = c.title
  IN  hosts + (IF c.title # "" /\ alike THEN 1 ELSE 0)

Dampened(score, penalties) == score * PenaltyNum ^ penalties * PenaltyDen ^ (Factors - penalties)

RankHits(S, limit) ==
  LET order == Sorted(Raw(S))
      final == Sorted({[doc |-> order[i].doc, score |-> Dampened(order[i].score, Penalties(order, i))]
                         : i \in DOMAIN order})
  IN  SubSeq(FoldLeft(LAMBDA s, x : Append(s, x.doc), <<>>, final), 1, Min({limit, Len(final)}))

(***************************************************************************)
(* Pages                                                                   *)
(***************************************************************************)
TotalPages(hits, size) == Max({1, (hits + size - 1) \div size})
ServedPage(hits, page, size) == Max({1, Min({page, TotalPages(hits, size)})})

\* the search route: rank at least MinTopK hits, and as many as the page needs
PageOfResults(page, size) ==
  LET hits == RankHits(NotExcluded, Max({MinTopK, page * size}))
      n    == ServedPage(Len(hits), page, size)
  IN  SubSeq(hits, (n - 1) * size + 1, Min({n * size, Len(hits)}))

All == RankHits(NotExcluded, Cardinality(RankDoc))

ReadPage ==
  /\ pagesRead < TotalPages(Len(All), pageSize)
  /\ pagesRead' = pagesRead + 1
  /\ seen' = seen \o PageOfResults(pagesRead + 1, pageSize)
  /\ UNCHANGED <<candidates, settings, pageSize>>

RankedNext == ReadPage
RankedSpec == RankedInit /\ [][RankedNext]_rankedVars

(***************************************************************************)
(* Properties                                                              *)
(***************************************************************************)
\* Every document the lens does not exclude is found, once.  Diversity moves documents
\* between hosts, never within one: what was ahead of another of its host stays ahead,
\* also when its title has been seen before and the other's has not; and the best document
\* keeps its place.
DiversityKeepsOrderOfAHost ==
  pagesRead = 0 =>
    LET first == Sorted(Raw(NotExcluded))
        final == All
    IN  /\ ToSet(final) = NotExcluded /\ Len(final) = Cardinality(NotExcluded)
        /\ \A i, j \in DOMAIN first :
             (i < j /\ candidates[first[i].doc].host = candidates[first[j].doc].host) =>
               PlaceOf(final, first[i].doc) < PlaceOf(final, first[j].doc)
        /\ first # <<>> => Head(final) = Head(first).doc

\* Each page is ranked by a search of its own, with a limit of its own; read one after
\* the other they are the whole ranking, with nothing twice and nothing left out.  Past
\* the end the last page is served again.
PagesPartitionResults ==
  LET whole == All
      last  == TotalPages(Len(whole), pageSize) IN
  /\ seen = SubSeq(whole, 1, Min({pagesRead * pageSize, Len(whole)}))
  /\ pagesRead = last => PageOfResults(last + 1, pageSize) = PageOfResults(last, pageSize)

\* A document that trackers were found on is never ahead of another of its host that is
\* otherwise the same and about which nothing is known.
TrackersOnlyDemote ==
  (pagesRead = 0 /\ trackers) =>
    LET whole == All IN
    \A d, e \in NotExcluded :
      ( /\ candidates[d].class \in {"none", "uncertain"}
        /\ candidates[e].class \in {"tracked", "intrusive"}
        /\ [candidates[d] EXCEPT !.class = "none"] = [candidates[e] EXCEPT !.class = "none"] )
      => PlaceOf(whole, d) < PlaceOf(whole, e)
===============================================================================
