------------------------------ MODULE RobotsRules ------------------------------
(***************************************************************************)
(* The parser and the rules of robots.txt                                  *)
(* (packages/crawler/src/robots/robots-parser.ts): the file is read line   *)
(* by line into groups of user agents and rules, and one group's longest   *)
(* matching rule decides.                                                  *)
(*                                                                         *)
(* Abstractions: an agent matches the crawler's token or not, is "*", or   *)
(* is left out (""); a pattern is its length and whether it matches the    *)
(* path asked for.                                                         *)
(***************************************************************************)
EXTENDS Integers, Sequences, FiniteSetsExt

CONSTANTS
  MaxLines,      \* bound on the file
  MaxPattern     \* bound on the length of a pattern

ASSUME RulesAssumption == MaxLines \in Nat /\ MaxPattern \in Nat

Agent == {"bot", "other", "*"}
Pattern == {[len |-> 0, matches |-> TRUE]} \cup [len : 1..MaxPattern, matches : BOOLEAN]
Line ==
  [dir : {"user-agent"}, agent : Agent \cup {""}]
    \cup [dir : {"allow", "disallow"}, pattern : Pattern]
    \cup [dir : {"crawl-delay", "other"}]

VARIABLES lines, groups, agents, rules, delayed

rulesVars == <<lines, groups, agents, rules, delayed>>

Rule == [allow : BOOLEAN, pattern : Pattern, line : 1..MaxLines]

RulesTypeOK ==
  /\ lines \in Seq(Line) /\ Len(lines) <= MaxLines
  /\ agents \in Seq(Agent) /\ rules \in Seq(Rule) /\ delayed \in BOOLEAN
  /\ \A i \in DOMAIN groups : groups[i].agents \in Seq(Agent) /\ groups[i].rules \in Seq(Rule)
  /\ rules # <<>> \/ delayed => agents # <<>>

RulesInit == lines = <<>> /\ groups = <<>> /\ agents = <<>> /\ rules = <<>> /\ delayed = FALSE

Flushed == IF agents = <<>> THEN groups ELSE Append(groups, [agents |-> agents, rules |-> rules])

\* a user agent after rules or a delay begins a group, another one joins its group; one
\* without a name joins none
Joined(names, a) == IF a = "" THEN names ELSE Append(names, a)

ReadAgent(l) ==
  /\ l.dir = "user-agent"
  /\ IF rules # <<>> \/ delayed
     THEN groups' = Flushed /\ agents' = Joined(<<>>, l.agent) /\ rules' = <<>> /\ delayed' = FALSE
     ELSE agents' = Joined(agents, l.agent) /\ UNCHANGED <<groups, rules, delayed>>

\* rules before any user agent are left out; an empty Disallow allows, an empty Allow is nothing
ReadRule(l) ==
  /\ l.dir \in {"allow", "disallow"}
  /\ rules' = IF agents = <<>> \/ (l.dir = "allow" /\ l.pattern.len = 0) THEN rules
              ELSE Append(rules, [allow   |-> l.dir = "allow" \/ l.pattern.len = 0,
                                  pattern |-> l.pattern, line |-> Len(lines) + 1])
  /\ UNCHANGED <<groups, agents, delayed>>

ReadDelay(l) ==
  /\ l.dir = "crawl-delay"
  /\ delayed' = (delayed \/ agents # <<>>)
  /\ UNCHANGED <<groups, agents, rules>>

ReadLine(l) ==
  /\ Len(lines) < MaxLines
  /\ lines' = Append(lines, l)
  /\ \/ ReadAgent(l) \/ ReadRule(l) \/ ReadDelay(l)
     \/ l.dir = "other" /\ UNCHANGED <<groups, agents, rules, delayed>>

RulesNext == \E l \in Line : ReadLine(l)

RulesSpec == RulesInit /\ [][RulesNext]_rulesVars

(***************************************************************************)
(* findMatchingUserAgentGroup and evaluatePathRules                        *)
(***************************************************************************)
Names(g, agent) == \E i \in DOMAIN g.agents : g.agents[i] = agent
First(gs, agent) ==
  LET named == {g \in DOMAIN gs : Names(gs[g], agent)} IN IF named = {} THEN 0 ELSE Min(named)
MatchingGroup(gs) == IF First(gs, "bot") > 0 THEN First(gs, "bot") ELSE First(gs, "*")

NoRule == [allow |-> TRUE, pattern |-> [len |-> -1, matches |-> TRUE], line |-> 0]
Better(best, r) ==
  IF /\ r.pattern.matches
     /\ \/ r.pattern.len > best.pattern.len
        \/ r.pattern.len = best.pattern.len /\ r.allow /\ ~best.allow
  THEN r ELSE best
EvaluatePathRules(rs) ==
  LET best[n \in 0..Len(rs)] == IF n = 0 THEN NoRule ELSE Better(best[n - 1], rs[n])
  IN  best[Len(rs)].allow

Decision(gs) == LET g == MatchingGroup(gs) IN g = 0 \/ EvaluatePathRules(gs[g].rules)

(***************************************************************************)
(* Properties                                                              *)
(***************************************************************************)
Splits(k) == \/ lines[k].dir \in {"crawl-delay", "disallow"}
             \/ lines[k].dir = "allow" /\ lines[k].pattern.len # 0

\* line i names an agent that a rule after line n would be for
IsOpen(i, n) ==
  /\ lines[i].dir = "user-agent" /\ lines[i].agent # ""
  /\ \A k, m \in i..n : k < m /\ Splits(k) => lines[m].dir # "user-agent"

\* the lines whose user agents the rule in line j is for
AgentLinesOf(j) == {i \in 1..(j - 1) : IsOpen(i, j - 1)}

\* "multiple user-agents share subsequent rules": a rule is in one group only, and that
\* has just the user agents that stand above it without other rules in between.
RulesOfTheirAgents ==
  \A g \in DOMAIN Flushed : \A r \in DOMAIN Flushed[g].rules :
    LET above == AgentLinesOf(Flushed[g].rules[r].line)
    IN  /\ {Flushed[g].agents[a] : a \in DOMAIN Flushed[g].agents} = {lines[i].agent : i \in above}
        /\ above # {}

\* "Longest matching pattern wins. If lengths are equal, Allow takes precedence": a page
\* is forbidden just if a matching Disallow of the crawler's group is longer than every
\* matching Allow of it, in whatever order they stand.
LongestMatchWins ==
  LET g == MatchingGroup(Flushed)
      matching(allow) == {r \in DOMAIN Flushed[g].rules :
                            Flushed[g].rules[r].allow = allow /\ Flushed[g].rules[r].pattern.matches}
      len(r) == Flushed[g].rules[r].pattern.len
  IN  Decision(Flushed) <=>
        (g = 0 \/ \A d \in matching(FALSE) : \E a \in matching(TRUE) : len(a) >= len(d))
===============================================================================
