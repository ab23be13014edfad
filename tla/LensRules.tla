------------------------------- MODULE LensRules -------------------------------
(***************************************************************************)
(* Focus lenses: the rules of a profile, the validator that every profile  *)
(* read from outside goes through, and the evaluation of a host against    *)
(* the rules (packages/ranking/src/lens: lens-types, lens-schema,          *)
(* lens-evaluator).                                                        *)
(*                                                                         *)
(* A host is the sequence of its labels.  A pattern is written plain       *)
(* ("a.b") or with a star ("*.a.b"); the two are different patterns that   *)
(* match the same hosts.  Multipliers count in units of 1 / LensOne.       *)
(***************************************************************************)
EXTENDS Integers, Sequences, FiniteSets, SequencesExt

CONSTANTS
  LensPattern,   \* patterns: records [star, labels]; no label is left of an invalid one
  LensHost,      \* hosts of documents
  BuiltinId,     \* ids of the profiles that come with the system, "general" among them
  CustomId,      \* ids of other profiles
  LensOne,       \* the neutral multiplier
  BoostMax,      \* LENS_BOOST_MAX
  DemoteMin,     \* LENS_DEMOTE_MIN
  MaxRules       \* the rules that fit in MAX_LENS_FILE_SIZE_BYTES

ASSUME LensAssumption ==
  /\ LensOne \in Nat \ {0} /\ BoostMax \in Nat /\ BoostMax >= LensOne /\ DemoteMin \in 1..LensOne
  /\ "general" \in BuiltinId /\ BuiltinId \cap CustomId = {} /\ MaxRules \in Nat

LensMultiplier == 0..(BoostMax + 1)
LensRule       == [pattern : LensPattern, multiplier : LensMultiplier]

\* FocusLensProfile; health: the id or the name says "health"
Profile ==
  [id : BuiltinId \cup CustomId, health : BOOLEAN, disclaimer : BOOLEAN,
   boosts : Seq(LensRule), demotes : Seq(LensRule), excludes : SUBSET LensPattern]

GeneralLens == [id |-> "general", health |-> FALSE, disclaimer |-> FALSE,
                boosts |-> <<>>, demotes |-> <<>>, excludes |-> {}]

(***************************************************************************)
(* validateLensProfile                                                     *)
(***************************************************************************)
ValidPattern(p)    == p.labels # <<>>
InBoostBounds(m)   == m \in LensOne..BoostMax
InDemoteBounds(m)  == m \in DemoteMin..LensOne
LensSize(l)        == Len(l.boosts) + Len(l.demotes) + Cardinality(l.excludes)

ValidProfile(l) ==
  /\ LensSize(l) <= MaxRules
  /\ \A r \in ToSet(l.boosts)  : ValidPattern(r.pattern) /\ InBoostBounds(r.multiplier)
  /\ \A r \in ToSet(l.demotes) : ValidPattern(r.pattern) /\ InDemoteBounds(r.multiplier)
  /\ \A p \in l.excludes : ValidPattern(p)

\* the profile a valid one is turned into: a health lens is never without its disclaimer
Sanitized(l) == [l EXCEPT !.disclaimer = @ \/ l.health]

(***************************************************************************)
(* evaluateLensForDocument                                                 *)
(***************************************************************************)
MatchesPattern(host, p) == host # <<>> /\ p.labels # <<>> /\ IsSuffix(p.labels, host)

MatchingMultipliers(host, rules) == {r.multiplier : r \in {q \in ToSet(rules) : MatchesPattern(host, q.pattern)}}
Clamp(lo, hi, m) == IF m < lo THEN lo ELSE IF m > hi THEN hi ELSE m
Neutral          == [action |-> "none", multiplier |-> LensOne]

\* exclusions first, then the highest boost, then the lowest demotion
EvaluateLens(host, l) ==
  LET boosts  == MatchingMultipliers(host, l.boosts)
      demotes == MatchingMultipliers(host, l.demotes)
  IN  IF l.id = "general" \/ host = <<>> THEN Neutral
      ELSE IF \E p \in l.excludes : MatchesPattern(host, p) THEN [action |-> "exclude", multiplier |-> 0]
      ELSE IF boosts # {} THEN [action |-> "boost", multiplier |-> Clamp(LensOne, BoostMax, Max(boosts))]
      ELSE IF demotes # {} THEN [action |-> "demote", multiplier |-> Clamp(DemoteMin, LensOne, Min(demotes))]
      ELSE Neutral
===============================================================================
