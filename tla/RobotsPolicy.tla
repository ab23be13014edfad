----------------------------- MODULE RobotsPolicy -----------------------------
(***************************************************************************)
(* RobotsPolicyService and RobotsFetcher (packages/crawler/src/robots/):   *)
(* the decision whether a page may be fetched, the cache of the origins'   *)
(* policies, and one fetch of robots.txt shared by all who ask for an      *)
(* origin meanwhile.                                                       *)
(*                                                                         *)
(* Abstractions: a policy that could be read permits the page or forbids   *)
(* it (RobotsRules models how); the eviction from the cache is in          *)
(* LruCaches.                                                              *)
(***************************************************************************)
EXTENDS Integers, FiniteSets

CONSTANTS
  Origin, Asker,
  PolicyLife      \* defaultTtlMs, in ticks

ASSUME PolicyAssumption == PolicyLife \in Nat /\ "none" \notin Origin

VARIABLES
  site,        \* origin -> what its robots.txt says now
  policy,      \* origin -> the cached policy and the ticks since its fetch
  pending,     \* origin -> it has an entry in pendingFetches
  inFlight,    \* origin -> number of its fetches under way
  heard,      \* origin -> what the site answers, once the head of its answer is there
  asker,       \* asker -> the origin it waits for, and the last decision it got
  lastOpen     \* history: origin -> ticks since it last permitted the page or failed,
               \* those of a fetch under way not counted

policyVars == <<site, policy, pending, inFlight, heard, asker, lastOpen>>

Verdict == {"permits", "forbids", "absent", "error"}
Nowhere == "none"
NoPolicy == [verdict |-> Nowhere, age |-> 0]
Old == PolicyLife + 2

PolicyTypeOK ==
  /\ site \in [Origin -> Verdict]
  /\ policy \in [Origin -> [verdict : Verdict \cup {Nowhere}, age : 0..PolicyLife + 1]]
  /\ pending \in [Origin -> BOOLEAN] /\ inFlight \in [Origin -> 0..1]
  /\ heard \in [Origin -> {"permits", "forbids", Nowhere}]
  /\ asker \in [Asker -> [waits : Origin \cup {Nowhere}, allowed : {"yes", "no", "none"}, of : Origin \cup {Nowhere}]]
  /\ lastOpen \in [Origin -> 0..Old]

PolicyInit ==
  /\ site \in [Origin -> Verdict]
  /\ policy = [o \in Origin |-> NoPolicy]
  /\ pending = [o \in Origin |-> FALSE] /\ inFlight = [o \in Origin |-> 0]
  /\ heard = [o \in Origin |-> Nowhere]
  /\ asker = [a \in Asker |-> [waits |-> Nowhere, allowed |-> "none", of |-> Nowhere]]
  /\ lastOpen = [o \in Origin |-> IF site[o] = "forbids" THEN Old ELSE 0]

SiteChanges(o, v) ==
  /\ site[o] # v
  /\ site' = [site EXCEPT ![o] = v]
  /\ lastOpen' = [lastOpen EXCEPT ![o] = IF v = "forbids" THEN @ ELSE 0]
  /\ UNCHANGED <<policy, pending, inFlight, heard, asker>>

PolicyTick ==
  /\ policy' = [o \in Origin |-> IF policy[o].verdict = Nowhere \/ policy[o].age > PolicyLife THEN policy[o]
                                 ELSE [policy[o] EXCEPT !.age = @ + 1]]
  /\ lastOpen' = [o \in Origin |-> IF site[o] # "forbids" THEN 0
                                   ELSE IF inFlight[o] > 0 THEN lastOpen[o]
                                   ELSE IF lastOpen[o] < Old THEN lastOpen[o] + 1 ELSE Old]
  /\ asker' = [a \in Asker |-> [asker[a] EXCEPT !.allowed = "none", !.of = Nowhere]]
  /\ UNCHANGED <<site, pending, inFlight, heard>>

\* absent, an error, or rules that permit: only rules that could be read forbid
Allows(v) == IF v = "forbids" THEN "no" ELSE "yes"
Decided(a, o, v) == [asker EXCEPT ![a] = [waits |-> Nowhere, allowed |-> Allows(v), of |-> o]]
CachedFor(o) == policy[o].verdict # Nowhere /\ policy[o].age <= PolicyLife

\* mutant: the entry is made only with the response
AsksUnshared(a, o) ==
  /\ asker[a].waits = Nowhere
  /\ IF CachedFor(o)
     THEN asker' = Decided(a, o, policy[o].verdict) /\ UNCHANGED <<pending, inFlight>>
     ELSE /\ asker' = [asker EXCEPT ![a] = [waits |-> o, allowed |-> "none", of |-> Nowhere]]
          /\ inFlight' = [inFlight EXCEPT ![o] = @ + 1] /\ UNCHANGED pending
  /\ UNCHANGED <<site, policy, heard, lastOpen>>

\* getOrFetchPolicy up to its await
Asks(a, o) ==
  /\ asker[a].waits = Nowhere
  /\ IF CachedFor(o)
     THEN asker' = Decided(a, o, policy[o].verdict) /\ UNCHANGED <<pending, inFlight>>
     ELSE /\ asker' = [asker EXCEPT ![a] = [waits |-> o, allowed |-> "none", of |-> Nowhere]]
          /\ pending' = [pending EXCEPT ![o] = TRUE]
          /\ inFlight' = [inFlight EXCEPT ![o] = IF pending[o] THEN @ ELSE @ + 1]
  /\ UNCHANGED <<site, policy, heard, lastOpen>>

\* mutant: the entry stays
FetchOverKept(o) ==
  /\ inFlight' = [inFlight EXCEPT ![o] = @ - 1] /\ UNCHANGED pending

\* "finally": the entry goes, all who wait go on
FetchOver(o) ==
  /\ pending' = [pending EXCEPT ![o] = FALSE]
  /\ inFlight' = [inFlight EXCEPT ![o] = @ - 1]

\* the head of an answer with rules: what the site says is settled, its text follows
HeadArrives(o) ==
  /\ inFlight[o] > 0 /\ heard[o] = Nowhere /\ site[o] \in {"permits", "forbids"}
  /\ heard' = [heard EXCEPT ![o] = site[o]]
  /\ UNCHANGED <<site, policy, pending, inFlight, asker, lastOpen>>

\* the fetch ends: with the whole text, with a status that says there is none, or with
\* an error before or in the text
Fetched(o, v) ==
  /\ inFlight[o] > 0
  /\ v \in {heard[o], "error"} \/ (heard[o] = Nowhere /\ v = "absent" /\ site[o] = "absent")
  /\ heard' = [heard EXCEPT ![o] = Nowhere]
  /\ policy' = [policy EXCEPT ![o] = [verdict |-> v, age |-> 0]]
  /\ asker' = [a \in Asker |-> IF asker[a].waits = o THEN Decided(a, o, v)[a] ELSE asker[a]]
  /\ FetchOver(o)
  /\ lastOpen' = [lastOpen EXCEPT ![o] = IF v = "error" THEN 0 ELSE @]
  /\ UNCHANGED site

ClearsCache ==
  /\ policy' = [o \in Origin |-> NoPolicy]
  /\ UNCHANGED <<site, pending, inFlight, heard, asker, lastOpen>>

PolicyNext ==
  \/ PolicyTick \/ ClearsCache
  \/ \E o \in Origin : \/ \E v \in Verdict : SiteChanges(o, v) \/ Fetched(o, v)
                       \/ HeadArrives(o)
                       \/ \E a \in Asker : Asks(a, o)

\* the timer of a request ends the wait for the head of an answer; it does not run while
\* the text is read (HeadOrEnd of PageFetch), which may take for ever
HeadOrFailure(o) ==
  heard[o] = Nowhere /\ (HeadArrives(o) \/ \E v \in Verdict : Fetched(o, v))
PolicyFairness == \A o \in Origin : WF_policyVars(HeadOrFailure(o))

PolicySpec == PolicyInit /\ [][PolicyNext]_policyVars /\ PolicyFairness

(***************************************************************************)
(* Properties                                                              *)
(***************************************************************************)

\* "In-flight promises to prevent duplicate concurrent robots requests": an origin is
\* asked at most once at a time, and while someone waits for it, it is being asked.
OneFetchPerOrigin ==
  /\ \A o \in Origin : inFlight[o] <= 1
  /\ \A a \in Asker : asker[a].waits # Nowhere => inFlight[asker[a].waits] = 1

\* A page is permitted against a robots.txt that forbids it for at most the lifetime of
\* a policy, counted from when the site last permitted it or could not be read, and
\* without the time a fetch of its robots.txt takes.
ForbiddenInTime ==
  \A a \in Asker : asker[a].allowed = "yes" => lastOpen[asker[a].of] <= PolicyLife

\* Everyone who asks gets a decision, unless the text of a robots.txt never ends.
AskersAnswered ==
  \A a \in Asker, o \in Origin :
    (asker[a].waits = o ~> asker[a].waits # o) \/ <>[](heard[o] # Nowhere)
===============================================================================
