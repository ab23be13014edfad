------------------------------- MODULE FocusLens -------------------------------
(***************************************************************************)
(* The rule editor of a focus lens and the registry of lenses              *)
(* (packages/ranking/src/lens: lens-editor, lens-registry,                 *)
(* lens-import-export).  An editor is opened on a profile, its rules are   *)
(* changed one call at a time, and its draft is registered; another        *)
(* profile may be registered or imported from outside at any time.         *)
(***************************************************************************)
EXTENDS LensRules

CONSTANTS
  ForeignLens,   \* profiles that come from outside: opened, imported or registered
  MaxLensEdits,  \* bound: calls of an editor
  Tried          \* bound: the multipliers that rules are set to

ASSUME EditorAssumption ==
  /\ Tried \subseteq LensMultiplier /\ ForeignLens \subseteq Profile
  /\ MaxLensEdits \in Nat /\ "custom-lens" \in CustomId

NoLens == [id |-> "none"]

VARIABLES
  draft,      \* currentProfile of the editor
  initial,    \* initialSnapshot
  customs,    \* customProfiles of the registry: id -> profile or NoLens
  edits,      \* history: calls so far
  foreign,    \* history: the draft came from outside since it was last restored
  answer      \* history: the last call that set a rule, and what it answered

lensVars == <<draft, initial, customs, edits, foreign, answer>>

NoAnswer == [op |-> "none"]
Answer   == {NoAnswer} \cup
            [op : {"boost", "demote", "exclude"}, pattern : LensPattern, multiplier : LensMultiplier, valid : BOOLEAN]

FocusLensTypeOK ==
  /\ draft \in Profile /\ initial \in Profile
  /\ customs \in [CustomId -> Profile \cup {NoLens}]
  /\ edits \in 0..MaxLensEdits /\ foreign \in BOOLEAN /\ answer \in Answer

\* an editor started fresh works on a copy of the general lens under another id
FreshDraft == [GeneralLens EXCEPT !.id = "custom-lens"]

FocusLensInit ==
  /\ \/ draft = FreshDraft /\ foreign = FALSE
     \/ draft \in ForeignLens /\ foreign = TRUE
  /\ initial = draft
  /\ customs = [i \in CustomId |-> NoLens]
  /\ edits = 0 /\ answer = NoAnswer

Edit         == edits < MaxLensEdits /\ edits' = edits + 1
Answers(op, p, m, d) == answer' = [op |-> op, pattern |-> p, multiplier |-> m, valid |-> ValidProfile(d)]
Unchanged(op, p, m)  ==
  /\ answer' = [op |-> op, pattern |-> p, multiplier |-> m, valid |-> FALSE]
  /\ UNCHANGED draft

(***************************************************************************)
(* The rules                                                               *)
(***************************************************************************)
WithoutRule(rules, p) ==
  LET others == {i \in DOMAIN rules : rules[i].pattern # p}
      upTo[i \in 0..Len(rules)] == IF i = 0 THEN <<>>
                                   ELSE IF i \in others THEN Append(upTo[i - 1], rules[i])
                                   ELSE upTo[i - 1]
  IN  upTo[Len(rules)]

\* the first rule of the pattern is replaced, a new one goes last
Put(rules, p, m) ==
  LET places == {i \in DOMAIN rules : rules[i].pattern = p}
      rule == [pattern |-> p, multiplier |-> m]
  IN  IF places = {} THEN Append(rules, rule) ELSE [rules EXCEPT ![Min(places)] = rule]

AddBoostDomain(p, m) ==
  LET d == [draft EXCEPT !.demotes = WithoutRule(@, p), !.boosts = Put(@, p, m)] IN
  /\ Edit
  /\ IF ~ValidPattern(p) \/ ~InBoostBounds(m) \/ p \in draft.excludes
     THEN Unchanged("boost", p, m)
     ELSE draft' = d /\ Answers("boost", p, m, d)
  /\ UNCHANGED <<initial, customs, foreign>>

AddDemoteDomain(p, m) ==
  LET d == [draft EXCEPT !.boosts = WithoutRule(@, p), !.demotes = Put(@, p, m)] IN
  /\ Edit
  /\ IF ~ValidPattern(p) \/ ~InDemoteBounds(m) \/ p \in draft.excludes
     THEN Unchanged("demote", p, m)
     ELSE draft' = d /\ Answers("demote", p, m, d)
  /\ UNCHANGED <<initial, customs, foreign>>

AddExcludeDomain(p) ==
  LET d == [draft EXCEPT !.boosts = WithoutRule(@, p), !.demotes = WithoutRule(@, p),
                         !.excludes = @ \cup {p}] IN
  /\ Edit
  /\ IF ~ValidPattern(p) THEN Unchanged("exclude", p, 0)
     ELSE draft' = d /\ Answers("exclude", p, 0, d)
  /\ UNCHANGED <<initial, customs, foreign>>

\* removeBoostDomain, removeDemoteDomain, removeExcludeDomain
RemoveRule(p) ==
  /\ Edit
  /\ \/ draft' = [draft EXCEPT !.boosts   = WithoutRule(@, p)]
     \/ draft' = [draft EXCEPT !.demotes  = WithoutRule(@, p)]
     \/ draft' = [draft EXCEPT !.excludes = @ \ {p}]
  /\ answer' = NoAnswer /\ UNCHANGED <<initial, customs, foreign>>

(***************************************************************************)
(* The draft as a whole                                                    *)
(***************************************************************************)
\* setMetadata: the draft is put back when it does not validate
SetMetadata(id, health) ==
  LET d == [draft EXCEPT !.id = id, !.health = health, !.disclaimer = @ \/ health] IN
  /\ Edit
  /\ draft' = IF ValidProfile(d) THEN d ELSE draft
  /\ answer' = NoAnswer /\ UNCHANGED <<initial, customs, foreign>>

RestoreDefault ==
  /\ Edit
  /\ draft' = GeneralLens /\ foreign' = FALSE
  /\ answer' = NoAnswer /\ UNCHANGED <<initial, customs>>

ResetToInitial ==
  /\ Edit
  /\ draft' = initial /\ foreign' = (initial # FreshDraft)
  /\ answer' = NoAnswer /\ UNCHANGED <<initial, customs>>

ImportJson(l) ==
  /\ Edit
  /\ IF ValidProfile(l) THEN draft' = Sanitized(l) /\ foreign' = TRUE
                        ELSE UNCHANGED <<draft, foreign>>
  /\ answer' = NoAnswer /\ UNCHANGED <<initial, customs>>

(***************************************************************************)
(* The registry                                                            *)
(***************************************************************************)
RegisterProfile(l) ==
  /\ ValidProfile(l) /\ l.id \notin BuiltinId
  /\ customs' = [customs EXCEPT ![l.id] = Sanitized(l)]
  /\ UNCHANGED <<draft, initial, edits, foreign, answer>>

RemoveProfile(id) ==
  /\ customs[id] # NoLens
  /\ customs' = [customs EXCEPT ![id] = NoLens]
  /\ UNCHANGED <<draft, initial, edits, foreign, answer>>

ClearCustomProfiles ==
  /\ customs' = [i \in CustomId |-> NoLens]
  /\ UNCHANGED <<draft, initial, edits, foreign, answer>>

\* resolveLens, for the id of a custom profile: what is not there is the general lens
ResolveLens(id) == IF customs[id] # NoLens THEN customs[id] ELSE GeneralLens

FocusLensNext ==
  \/ \E p \in LensPattern, m \in Tried : AddBoostDomain(p, m) \/ AddDemoteDomain(p, m)
  \/ \E p \in LensPattern : AddExcludeDomain(p) \/ RemoveRule(p)
  \/ \E id \in CustomId \cup {"general"}, health \in BOOLEAN : SetMetadata(id, health)
  \/ RestoreDefault \/ ResetToInitial
  \/ \E l \in ForeignLens : ImportJson(l)
  \/ RegisterProfile(draft) \/ \E l \in ForeignLens : RegisterProfile(l)
  \/ \E id \in CustomId : RemoveProfile(id)
  \/ ClearCustomProfiles

FocusLensSpec == FocusLensInit /\ [][FocusLensNext]_lensVars

(***************************************************************************)
(* Properties                                                              *)
(***************************************************************************)
PatternsOf(rules)  == {r.pattern : r \in ToSet(rules)}
OtherRules(l, p)   == [l EXCEPT !.boosts = WithoutRule(@, p), !.demotes = WithoutRule(@, p), !.excludes = @ \ {p}]

\* A draft that did not come from outside never has two rules for one pattern, in
\* whatever order rules were added, changed, removed, restored and reset.
OneRuleForAPattern ==
  ~foreign =>
    /\ PatternsOf(draft.boosts) \cap PatternsOf(draft.demotes) = {}
    /\ (PatternsOf(draft.boosts) \cup PatternsOf(draft.demotes)) \cap draft.excludes = {}
    /\ IsInjective([i \in DOMAIN draft.boosts |-> draft.boosts[i].pattern])
    /\ IsInjective([i \in DOMAIN draft.demotes |-> draft.demotes[i].pattern])

\* The rule the editor accepted last decides for the hosts that no other rule matches:
\* nothing that was there before contradicts it.  Not so for a draft from outside, that
\* may name a pattern twice, nor under the id "general", which restoring leaves behind
\* and under which no rule is ever applied.
AcceptedRuleDecides ==
  (answer # NoAnswer /\ ~foreign /\ draft.id # "general") =>
    \A h \in LensHost :
      (answer.valid /\ MatchesPattern(h, answer.pattern)
         /\ EvaluateLens(h, OtherRules(draft, answer.pattern)) = Neutral) =>
        EvaluateLens(h, draft) = [action |-> answer.op, multiplier |-> answer.multiplier]

\* Whatever was registered, removed and edited since, the lens a search resolves is valid,
\* within its bounds, and not without its disclaimer when it is about health.
ResolvedLensIsValid ==
  \A id \in CustomId :
    LET l == ResolveLens(id) IN
    /\ ValidProfile(l) /\ (l.health => l.disclaimer)
    /\ \A h \in LensHost : EvaluateLens(h, l).multiplier \in {0} \cup DemoteMin..BoostMax
===============================================================================
