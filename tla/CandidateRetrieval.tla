--------------------------- MODULE CandidateRetrieval ---------------------------
(***************************************************************************)
(* The documents a query is ranked over, and the search for the best of    *)
(* them without scoring all.                                               *)
(*                                                                         *)
(* IndexCandidateRetriever (packages/ranking/src/retrieval/                *)
(* candidate-retriever.ts): posting lists of the query's terms and their   *)
(* synonyms, excluded terms, filters, union, intersection or the choice    *)
(* between them, the limit, and whether quoted phrases occur in a          *)
(* document.  Abstractions: a document has two fields of a few terms; the  *)
(* filters, if there are any, are the documents they let through, and the  *)
(* workspace filter is left out; of the candidates sharing a number of     *)
(* matches those the limit keeps are chosen.                               *)
(*                                                                         *)
(* TopKRetriever (topk-retriever.ts, posting-skip-list.ts and              *)
(* term-bound-computer.ts there): WAND and MaxScore leave out documents    *)
(* whose upper bound cannot reach the hits they have.  Abstractions:       *)
(* scores are small integers; a document's score is the sum over the       *)
(* query's terms, times its multiplier, plus its bonus for words in the    *)
(* URL (ranking-engine.ts).  A skip list is the set of postings left, and  *)
(* the heap a set of hits.  Lenses, tracker signals and rounding are left  *)
(* out; so are the other bonuses, as if every document had all of them     *)
(* that the bound allows for.                                              *)
(***************************************************************************)
EXTENDS Integers, Sequences, FiniteSets, FiniteSetsExt, SequencesExt

CONSTANTS
  TextDoc,         \* the documents
  Title, Body,     \* the texts their fields may have
  Wanted,          \* the terms a query may ask for
  SynonymOf,       \* term -> its synonyms
  Excluded,        \* the terms a query may exclude
  Phrase,          \* the phrases it may quote, the empty one for none
  MinAdaptive,     \* minCandidatesForAdaptive
  Limits           \* the values of maxCandidates

ASSUME RetrievalAssumption ==
  /\ SynonymOf \in [Wanted -> SUBSET UNION {Range(b) : b \in Body \cup Title}]
  /\ MinAdaptive \in Nat \ {0} /\ Limits \subseteq Nat \ {0}

VARIABLES
  text,        \* document -> its fields
  query,       \* the query and the options of its retrieval
  found        \* [done, docs]: the candidates

retrievalVars == <<text, query, found>>

Field == {"title", "body"}
Mode  == {"union", "intersection", "adaptive"}
Quoted(q) == Range(q.phrase)

RetrievalInit ==
  /\ text \in [TextDoc -> [title : Title, body : Body]]
  /\ query \in {q \in [terms : SUBSET Wanted, expanded : BOOLEAN, negated : SUBSET Excluded,
                       phrase : Phrase, filters : BOOLEAN, passing : {TextDoc \ {d} : d \in TextDoc},
                       mode : Mode, limit : Limits] : Quoted(q) \subseteq q.terms}
  /\ found = [done |-> FALSE, docs |-> {}]

(***************************************************************************)
(* The index                                                               *)
(***************************************************************************)
Positions(t, d, f) == {i \in DOMAIN text[d][f] : text[d][f][i] = t}
GetPostings(t) == {d \in TextDoc : \E f \in Field : Positions(t, d, f) # {}}

(***************************************************************************)
(* retrieve                                                                *)
(***************************************************************************)
\* expandedTerms.allTerms, or uniqueTerms
TermsToRetrieve == query.terms \cup (IF query.expanded THEN UNION {SynonymOf[t] : t \in query.terms} ELSE {})
ExcludedDocs == UNION {GetPostings(t) : t \in query.negated}
MatchesFilters == IF query.filters THEN query.passing ELSE TextDoc
TermsInIndex == {t \in TermsToRetrieve : GetPostings(t) # {}}
Matches(d) == {t \in TermsToRetrieve : d \in GetPostings(t)}
UnionDocs ==
  {d \in UNION {GetPostings(t) : t \in TermsToRetrieve} : d \in MatchesFilters \ ExcludedDocs}

\* as many matches as the query has terms, synonyms counted among the matches
IsFullMatch(d) == Cardinality(Matches(d)) = Cardinality(query.terms)
IntersectionDocs == {d \in UnionDocs : IsFullMatch(d)}

EffectiveDocs ==
  IF \/ query.mode = "intersection"
     \/ /\ query.mode = "adaptive"
        /\ \/ Cardinality(IntersectionDocs) >= MinAdaptive
           \/ Cardinality(IntersectionDocs) >= Cardinality(query.terms)
  THEN IntersectionDocs ELSE UnionDocs

\* those with more matches first
Kept(docs, n) ==
  {kept \in SUBSET docs :
     /\ Cardinality(kept) = IF Cardinality(docs) < n THEN Cardinality(docs) ELSE n
     /\ \A d \in kept, e \in docs \ kept : Cardinality(Matches(d)) >= Cardinality(Matches(e))}

\* verifyPhrases: from each position of the first term, the others at the following ones
PhraseMatches(d) ==
  \/ Len(query.phrase) <= 1
  \/ \E f \in Field : \E p \in Positions(query.phrase[1], d, f) :
       \A i \in 2..Len(query.phrase) : p + i - 1 \in Positions(query.phrase[i], d, f)

Candidate(d) == [doc |-> d, full |-> IsFullMatch(d), phrase |-> PhraseMatches(d)]
FilterOnly(d) == [doc |-> d, full |-> TRUE, phrase |-> TRUE]

Retrieve ==
  /\ ~found.done
  /\ \/ /\ TermsInIndex # {}
        /\ \E kept \in Kept(EffectiveDocs, query.limit) :
             found' = [done |-> TRUE, docs |-> {Candidate(d) : d \in kept}]
     \* no term is in the index: all that passes the filters
     \/ /\ TermsInIndex = {} /\ query.filters
        /\ \E kept \in Kept(MatchesFilters \ ExcludedDocs, query.limit) :
             found' = [done |-> TRUE, docs |-> {FilterOnly(d) : d \in kept}]
     \/ /\ TermsInIndex = {} /\ ~query.filters
        /\ found' = [done |-> TRUE, docs |-> {}]
  /\ UNCHANGED <<text, query>>

RetrievalNext == Retrieve
RetrievalSpec == RetrievalInit /\ [][RetrievalNext]_retrievalVars

(***************************************************************************)
(* Properties of retrieval                                                 *)
(***************************************************************************)
RetrievalTypeOK ==
  /\ found.done \in BOOLEAN
  /\ found.docs \subseteq [doc : TextDoc, full : BOOLEAN, phrase : BOOLEAN]
  /\ Cardinality(found.docs) <= query.limit

Text(d) == Range(text[d].title) \cup Range(text[d].body)
FoundDocs == {c.doc : c \in found.docs}
Room == Cardinality(FoundDocs) < query.limit

\* "purges documents matching any negatedTerms": no candidate has an excluded term, and
\* each passes the filters and, if any term is in the index, has a term or a synonym.
ExcludedStayOut ==
  \A d \in FoundDocs :
    /\ Text(d) \cap query.negated = {} /\ d \in MatchesFilters
    /\ TermsInIndex # {} => Text(d) \cap TermsToRetrieve # {}

\* Without synonyms, a document that has all the terms is found in every mode, if the
\* limit leaves room and it is neither excluded nor filtered out, and is what "full match" says.
FullMatchesAreFound ==
  found.done /\ ~query.expanded /\ TermsInIndex # {} =>
    /\ \A c \in found.docs : c.full <=> query.terms \subseteq Text(c.doc)
    /\ Room => \A d \in MatchesFilters :
                 query.terms \subseteq Text(d) /\ Text(d) \cap query.negated = {} => d \in FoundDocs

\* The limit cuts off no document that matches more terms than one it keeps.
LimitKeepsTheBest ==
  found.done /\ query.mode = "union" =>
    \A d \in FoundDocs, e \in UnionDocs \ FoundDocs :
      Cardinality(Text(d) \cap TermsToRetrieve) >= Cardinality(Text(e) \cap TermsToRetrieve)

\* A candidate is marked as having the phrase exactly when one of its fields has it.
PhrasesAreContiguous ==
  TermsInIndex # {} => \A c \in found.docs :
    c.phrase <=> \/ Len(query.phrase) <= 1
                 \/ \E f \in Field : \E m, n \in 1..Len(text[c.doc][f]) : SubSeq(text[c.doc][f], m, n) = query.phrase

(***************************************************************************)
(* Top-k retrieval                                                         *)
(***************************************************************************)
CONSTANTS
  DocId,          \* 1..n, in the order of the document ids
  QueryTerm,      \* the terms of the query, numbered
  MaxTermScore,
  Multiplier,     \* fullMatchBoost
  UrlBonus,       \* urlMatchBonus, for each word of the query in the URL
  MaxUrlWords,    \* bound: the words of the query a URL has
  K               \* the numbers of hits asked for

ASSUME TopKAssumption ==
  /\ DocId \subseteq Nat /\ QueryTerm \subseteq Nat /\ K \subseteq Nat \ {0}
  /\ MaxTermScore \in Nat /\ Multiplier \in Nat \ {0} /\ UrlBonus \in Nat /\ MaxUrlWords \in Nat

VARIABLES
  algorithm,   \* "wand" or "maxscore"
  topK,        \* k
  termScore,   \* term -> document -> score of the posting, 0 for none
  urlWords,    \* document -> words of the query in its URL
  negated,     \* documents with a term the query excludes
  left,        \* term -> postings its iterator has left
  queue,       \* candidates MaxScore has not come to
  hits,        \* the heap
  finished

topVars == <<algorithm, topK, termScore, urlWords, negated, left, queue, hits, finished>>
searchVars == <<algorithm, topK, termScore, urlWords, negated>>

Postings(t)   == {d \in DocId : termScore[t][d] > 0}
Candidates    == UNION {Postings(t) : t \in QueryTerm} \ negated
Matched(d)    == {t \in QueryTerm : termScore[t][d] > 0}

(***************************************************************************)
(* Scores and their bounds                                                 *)
(***************************************************************************)
\* calculateUrlBonus counts two words at most
BonusOf(d) == IF urlWords[d] > 2 THEN 2 * UrlBonus ELSE urlWords[d] * UrlBonus
Score(d) ==
  MapThenSumSet(LAMBDA t : termScore[t][d], QueryTerm)
    * (IF Matched(d) = QueryTerm THEN Multiplier ELSE 1) + BonusOf(d)

\* computeTermBound, getMaxMultiplierBoost, getMaxAdditiveBonus
TermBound(t) == Max({termScore[t][d] : d \in DocId} \cup {0})

\* mutant: the bonus is left out
BoundWithoutBonus(ts) == MapThenSumSet(TermBound, ts) * Multiplier
Bound(ts) == MapThenSumSet(TermBound, ts) * Multiplier + UrlBonus

\* isWorse
Worse(d, e) == Score(d) < Score(e) \/ (Score(d) = Score(e) /\ d > e)
Worst(s) == CHOOSE d \in s : \A e \in s \ {d} : Worse(d, e)

\* TopKHeap
Threshold == IF Cardinality(hits) < topK THEN 0 ELSE Score(Worst(hits))

Inserted(d) ==
  IF Cardinality(hits) < topK THEN hits \cup {d}
  ELSE IF Worse(Worst(hits), d) THEN (hits \ {Worst(hits)}) \cup {d} ELSE hits

(***************************************************************************)
(* Top-k search                                                            *)
(***************************************************************************)
TopKInit ==
  /\ algorithm \in {"wand", "maxscore"} /\ topK \in K
  /\ termScore \in [QueryTerm -> [DocId -> 0..MaxTermScore]]
  /\ urlWords \in [DocId -> 0..MaxUrlWords]
  /\ negated \in {{}, {CHOOSE d \in DocId : TRUE}}
  /\ left = [t \in QueryTerm |-> Postings(t)]
  /\ queue = Candidates /\ hits = {} /\ finished = FALSE

\* WAND: the first document whose bound, of all iterators up to it, beats the threshold
Reached(d) == {t \in QueryTerm : left[t] # {} /\ Min(left[t]) <= d}
Viable == {d \in {Min(left[t]) : t \in {u \in QueryTerm : left[u] # {}}} :
             Bound(Reached(d)) > Threshold}
Pivot == Min(Viable)
Lead  == Min(UNION {left[t] : t \in QueryTerm})

WandEvaluates ==
  /\ algorithm = "wand" /\ ~finished /\ Viable # {} /\ Lead = Pivot
  /\ hits' = IF Pivot \in Candidates THEN Inserted(Pivot) ELSE hits
  /\ left' = [t \in QueryTerm |-> left[t] \ {Pivot}]
  /\ UNCHANGED <<searchVars, queue, finished>>

\* advanceTo: the leading iterator jumps to the pivot
JumpsTo(s, d) == {e \in s : e >= d}
WandSkips ==
  /\ algorithm = "wand" /\ ~finished /\ Viable # {} /\ Lead # Pivot
  /\ \E t \in QueryTerm :
       /\ left[t] # {} /\ Min(left[t]) = Lead
       /\ left' = [left EXCEPT ![t] = JumpsTo(@, Pivot)]
  /\ UNCHANGED <<searchVars, queue, hits, finished>>

WandEnds ==
  /\ algorithm = "wand" /\ ~finished /\ Viable = {}
  /\ finished' = TRUE
  /\ UNCHANGED <<searchVars, left, queue, hits>>

\* MaxScore: candidates with more terms first; bounded by the terms up to its best one
Before(t, u) == TermBound(t) < TermBound(u) \/ (TermBound(t) = TermBound(u) /\ t <= u)
UpTo(d) == {t \in QueryTerm : \E u \in Matched(d) : Before(t, u)}
Prunable(d) == Threshold > 0 /\ Bound(UpTo(d)) <= Threshold

MaxScoreNext ==
  /\ algorithm = "maxscore" /\ ~finished
  /\ \E d \in queue :
       /\ \A e \in queue : Cardinality(Matched(e)) <= Cardinality(Matched(d))
       /\ queue' = queue \ {d}
       /\ hits' = IF Prunable(d) THEN hits ELSE Inserted(d)
  /\ UNCHANGED <<searchVars, left, finished>>

MaxScoreEnds ==
  /\ algorithm = "maxscore" /\ ~finished /\ queue = {}
  /\ finished' = TRUE
  /\ UNCHANGED <<searchVars, left, queue, hits>>

TopKNext == WandEvaluates \/ WandSkips \/ WandEnds \/ MaxScoreNext \/ MaxScoreEnds

TopKSpec == TopKInit /\ [][TopKNext]_topVars

(***************************************************************************)
(* Properties of top-k search                                              *)
(***************************************************************************)
TopKTypeOK ==
  /\ algorithm \in {"wand", "maxscore"} /\ topK \in K /\ finished \in BOOLEAN
  /\ left \in [QueryTerm -> SUBSET DocId] /\ queue \subseteq Candidates
  /\ hits \subseteq Candidates /\ Cardinality(hits) <= topK

\* runExhaustive: the candidates that fewer than k others are better than
Oracle == {d \in Candidates : Cardinality({e \in Candidates : Worse(d, e)}) < topK}

\* A pruned search finds what an exhaustive one finds: WAND the same documents, MaxScore
\* documents of the same scores, since it may prune one that ties with a hit.  That is so
\* when no URL has more than one word of the query; the bound counts one such word and the
\* score two, so else a document may be lost, but for hits that are worse by no more than
\* the second word's bonus.
PruningIsExact ==
  finished =>
    /\ Cardinality(hits) = Cardinality(Oracle)
    /\ \A d \in Oracle \ hits, e \in hits : Score(d) <= Score(e) + UrlBonus
    /\ (\A d \in DocId : urlWords[d] <= 1) =>
         /\ algorithm = "wand" => hits = Oracle
         /\ \A n \in {Score(d) : d \in hits \cup Oracle} :
              Cardinality({d \in hits : Score(d) = n}) = Cardinality({d \in Oracle : Score(d) = n})

\* Divergence, which TLC refutes and no run repeats: "this candidate can NEVER achieve a score higher than the current threshold!"
\* (topk-retriever.ts:355): what was pruned is no better than a hit.  A document with two
\* words of the query in its URL may be.
PrunedIsNeverBetter == finished => \A d \in Oracle \ hits, e \in hits : Score(d) <= Score(e)
===============================================================================
