------------------------------ MODULE PrefixTrie ------------------------------
(***************************************************************************)
(* The suggestion index (packages/indexer/src/suggest/prefix-trie.ts).     *)
(*                                                                         *)
(* A node is the prefix that leads to it; its children are walked in the   *)
(* order in which they were first inserted, and the walk stops at a        *)
(* maximum of entries, before they are scored.                             *)
(*                                                                         *)
(* Scores are counted in halves, as the bonus of a short text is; weights  *)
(* are whole numbers.                                                      *)
(***************************************************************************)
EXTENDS Integers, Sequences, FiniteSets, SequencesExt

CONSTANTS
  SuggestText,   \* the texts inserted, sequences of characters
  MaxDepth,      \* maxDepth; longer texts are ignored
  MaxWeight,     \* bound on a weight
  ExactBonus,    \* what the text that is the prefix itself gets, in halves
  LengthBonus,   \* what a text without characters would get, in halves; one less for each
  MaxCollect,    \* where the walk stops
  MaxInserts     \* bound on insertions

ASSUME TrieAssumption ==
  /\ {MaxDepth, MaxWeight, ExactBonus, LengthBonus, MaxInserts} \subseteq Nat /\ MaxCollect \in Nat \ {0}
  /\ \A t \in SuggestText : Len(t) > 0

VARIABLES
  trieChildren,     \* prefix -> the characters that follow, in the order of insertion
  weights,      \* the texts that end at a node -> weight of their entry
  inserted      \* history: what was inserted since the last clear, and its weight

trieVars == <<trieChildren, weights, inserted>>

TriePrefix     == UNION {{SubSeq(t, 1, n) : n \in 0..Len(t)} : t \in SuggestText}
NoChildren == [p \in TriePrefix |-> <<>>]
NoWeights  == [t \in {} |-> 0]

TrieTypeOK ==
  /\ \A p \in TriePrefix : /\ \A i \in DOMAIN trieChildren[p] : Append(p, trieChildren[p][i]) \in TriePrefix
                        /\ IsInjective(trieChildren[p])
                        /\ Len(p) >= MaxDepth => trieChildren[p] = <<>>
  /\ DOMAIN weights \subseteq SuggestText /\ \A t \in DOMAIN weights : weights[t] \in 1..MaxWeight
  /\ Len(inserted) <= MaxInserts

TrieInit == trieChildren = NoChildren /\ weights = NoWeights /\ inserted = <<>>

\* the nodes on the way to a text get their trieChildren
OnTheWay(t, p) == Len(p) < Len(t) /\ SubSeq(t, 1, Len(p)) = p
Grown(t) == [p \in TriePrefix |->
               IF OnTheWay(t, p) /\ ~Contains(trieChildren[p], t[Len(p) + 1])
               THEN Append(trieChildren[p], t[Len(p) + 1]) ELSE trieChildren[p]]

\* mutant: the last weight
RaisedLast(t, w) == w

\* a text keeps the greatest weight it was inserted with
Raised(t, w) == IF t \in DOMAIN weights /\ weights[t] > w THEN weights[t] ELSE w

InsertText(t, w) ==
  /\ Len(inserted) < MaxInserts
  /\ inserted' = Append(inserted, [text |-> t, weight |-> w])
  /\ IF Len(t) > MaxDepth THEN UNCHANGED <<trieChildren, weights>>
     ELSE /\ trieChildren' = Grown(t)
          /\ weights' = [u \in DOMAIN weights \cup {t} |-> IF u = t THEN Raised(t, w) ELSE weights[u]]

ClearTrie ==
  /\ inserted # <<>>
  /\ trieChildren' = NoChildren /\ weights' = NoWeights /\ inserted' = <<>>

TrieNext ==
  \/ \E t \in SuggestText, w \in 1..MaxWeight : InsertText(t, w)
  \/ ClearTrie

TrieSpec == TrieInit /\ [][TrieNext]_trieVars

(***************************************************************************)
(* suggest                                                                 *)
(***************************************************************************)
Under(p) == {t \in DOMAIN weights : IsPrefix(p, t)}

\* collectSubtree comes to t before u: at the node where they part
Parting(t, u) == Len(LongestCommonPrefix({t, u}))
Walked(t, u) ==
  LET n == Parting(t, u) IN
  \/ n = Len(t)
  \/ n < Len(u) /\ SelectInSeq(trieChildren[SubSeq(t, 1, n)], LAMBDA c : c = t[n + 1])
                     < SelectInSeq(trieChildren[SubSeq(t, 1, n)], LAMBDA c : c = u[n + 1])
Collected(p) == {t \in Under(p) : Cardinality({u \in Under(p) \ {t} : Walked(u, t)}) < MaxCollect}

ShortBonus(t) == IF Len(t) < LengthBonus THEN LengthBonus - Len(t) ELSE 0
TrieScore(p, t) == 2 * weights[t] + ShortBonus(t) + (IF t = p THEN ExactBonus ELSE 0)

\* by score, then alphabetically: a text before those that go on, the rest is left open
Precedes(p, t, u) ==
  TrieScore(p, t) > TrieScore(p, u) \/ (TrieScore(p, t) = TrieScore(p, u) /\ IsStrictPrefix(t, u))
IsSuggestion(p, limit, result) ==
  /\ result \subseteq Collected(p)
  /\ Cardinality(result) = IF Cardinality(Collected(p)) < limit THEN Cardinality(Collected(p)) ELSE limit
  /\ \A t \in result, u \in Collected(p) \ result : ~Precedes(p, u, t)
Suggestions(p, limit) == {result \in SUBSET Under(p) : IsSuggestion(p, limit, result)}

(***************************************************************************)
(* Properties                                                              *)
(***************************************************************************)
BestWeight(t) == LET ws == {inserted[i].weight : i \in {j \in DOMAIN inserted : inserted[j].text = t}}
           IN  CHOOSE w \in ws : \A v \in ws : v <= w
KnownTexts(p) == {t \in {inserted[i].text : i \in DOMAIN inserted} : IsPrefix(p, t) /\ Len(t) <= MaxDepth}

\* Of what was inserted under a prefix the heaviest come up, and no text that is not
\* under it, whatever the order of insertions, as long as the walk reaches the end.  What
\* is left out is heavier only when it is longer, and by no more than half a unit for
\* each character: the bonus of a short text can outweigh a difference in weight.
HeaviestAreSuggested ==
  \A p \in TriePrefix \ {<<>>} : Cardinality(KnownTexts(p)) <= MaxCollect =>
    \A limit \in 1..2 : \A result \in Suggestions(p, limit) :
      /\ result \subseteq KnownTexts(p)
      /\ Cardinality(result) = IF Cardinality(KnownTexts(p)) < limit THEN Cardinality(KnownTexts(p)) ELSE limit
      /\ \A t \in result \ {p}, u \in KnownTexts(p) \ result :
           \/ BestWeight(u) <= BestWeight(t)
           \/ 2 * (BestWeight(u) - BestWeight(t)) <= Len(u) - Len(t)

\* Whoever types a whole text is offered it first, also when the walk stops early,
\* unless one that goes on is heavier by more than the bonus.
ExactTextComesFirst ==
  \A t \in KnownTexts(<<>>) : \A result \in Suggestions(t, 1) :
    result = {t} \/ \E u \in result : 2 * (BestWeight(u) - BestWeight(t)) > ExactBonus
===============================================================================
