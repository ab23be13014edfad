--------------------------- MODULE MCSegmentedIndex ---------------------------
(* Two documents.  The versions of a document have other terms each: the       *)
(* second keeps one term of the first and drops the other, the third swaps.    *)
EXTENDS SegmentedIndex

CONSTANTS d1, d2, t1, t2

MCDoc == {d1, d2}
MCTerm == {t1, t2}
MCTerms == [dv \in MCDoc \X (1..MaxVer) |->
              CASE dv[2] = 1 -> {t1, t2} [] dv[2] = 2 -> {t1} [] OTHER -> {t2}]
===============================================================================
