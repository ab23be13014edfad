------------------------------- MODULE Launcher -------------------------------
(***************************************************************************)
(* The launcher of the production container (scripts/start-production.mjs):*)
(* it fills an empty store from the curated corpus, builds the first       *)
(* index, serves, and shuts down on a signal.                              *)
(*                                                                         *)
(* The container is started again whenever it ends.  Requests go to the    *)
(* router of the API server directly, not through the handler that counts  *)
(* them, so that its drain does not wait for any.                          *)
(***************************************************************************)
EXTENDS Integers, FiniteSets

CONSTANTS
  CorpusSize,   \* documents of the curated corpus
  Visitor,      \* requests that may be under way
  MaxCrashes    \* bound: times the process dies, or a write fails

ASSUME LauncherAssumption == CorpusSize \in Nat \ {0} /\ MaxCrashes \in Nat

VARIABLES
  launch,     \* where the process is
  seeded,     \* documents in the store
  indexed,    \* documents in the active index on disk, 0 for none
  served,     \* documents in the index that is served
  visit,      \* visitor -> "none", "open", "answered", "refused" or "cut"
  storeOpen,  \* the storage adapter is open
  exitCode,   \* of the last exit, -1 before it
  crashes     \* history: what has gone wrong, the loading of an index as well

launcherVars == <<launch, seeded, indexed, served, visit, storeOpen, exitCode, crashes>>

Up == launch \notin {"down"}
Starting == launch \in {"counting", "seeding", "building", "loading"}

LauncherTypeOK ==
  /\ launch \in {"down", "counting", "seeding", "building", "loading", "serving", "draining", "closing", "closed"}
  /\ seeded \in 0..CorpusSize /\ indexed \in 0..seeded /\ served \in 0..indexed
  /\ visit \in [Visitor -> {"none", "open", "answered", "refused", "cut"}]
  /\ storeOpen \in BOOLEAN /\ exitCode \in -1..1 /\ crashes \in 0..MaxCrashes

LauncherInit ==
  /\ launch = "down" /\ seeded = 0 /\ indexed = 0 /\ served = 0
  /\ visit = [v \in Visitor |-> "none"] /\ storeOpen = FALSE /\ exitCode = -1 /\ crashes = 0

\* main: the storage is initialized
Launches ==
  /\ launch = "down" /\ launch' = "counting"
  /\ storeOpen' = TRUE /\ served' = 0 /\ exitCode' = -1
  /\ visit' = [v \in Visitor |-> "none"]
  /\ UNCHANGED <<seeded, indexed, crashes>>

(***************************************************************************)
(* bootstrapPersistentCorpusIfEmpty                                        *)
(***************************************************************************)
\* a store that holds anything is left as it is
CountsDocuments ==
  /\ launch = "counting"
  /\ launch' = IF seeded = 0 THEN "seeding" ELSE "loading"
  /\ UNCHANGED <<seeded, indexed, served, visit, storeOpen, exitCode, crashes>>

SeedsDocument ==
  /\ launch = "seeding"
  /\ seeded' = seeded + 1
  /\ launch' = IF seeded' = CorpusSize THEN "building" ELSE "seeding"
  /\ UNCHANGED <<indexed, served, visit, storeOpen, exitCode, crashes>>

BuildsIndex ==
  /\ launch = "building"
  /\ indexed' = seeded /\ launch' = "loading"
  /\ UNCHANGED <<seeded, served, visit, storeOpen, exitCode, crashes>>

\* a document or the build fails: a warning, and the start goes on
BootstrapFails ==
  /\ launch \in {"seeding", "building"} /\ crashes < MaxCrashes
  /\ crashes' = crashes + 1 /\ launch' = "loading"
  /\ UNCHANGED <<seeded, indexed, served, visit, storeOpen, exitCode>>

\* loadActiveIndex, and then the port is opened
LoadsIndexAndListens ==
  /\ launch = "loading"
  /\ served' = indexed /\ launch' = "serving"
  /\ UNCHANGED <<seeded, indexed, visit, storeOpen, exitCode, crashes>>

\* the index cannot be loaded: a warning, and the server begins without documents
LoadFails ==
  /\ launch = "loading" /\ crashes < MaxCrashes
  /\ crashes' = crashes + 1 /\ launch' = "serving"
  /\ UNCHANGED <<seeded, indexed, served, visit, storeOpen, exitCode>>

(***************************************************************************)
(* Requests and the shutdown                                               *)
(***************************************************************************)
Visits(v) ==
  /\ launch \in {"serving", "draining"} /\ visit[v] # "open"
  /\ visit' = [visit EXCEPT ![v] = IF launch = "draining" THEN "refused" ELSE "open"]
  /\ UNCHANGED <<launch, seeded, indexed, served, storeOpen, exitCode, crashes>>

Answered(v) ==
  /\ visit[v] = "open"
  /\ visit' = [visit EXCEPT ![v] = "answered"]
  /\ UNCHANGED <<launch, seeded, indexed, served, storeOpen, exitCode, crashes>>

Cut == [v \in Visitor |-> IF visit[v] = "open" THEN "cut" ELSE visit[v]]
Exits(code) ==
  /\ launch' = "down" /\ exitCode' = code /\ storeOpen' = FALSE
  /\ visit' = Cut

\* the first signal; before the handlers are there it ends the process at once
Signal ==
  /\ \/ /\ launch = "serving" /\ launch' = "draining"
        /\ UNCHANGED <<visit, storeOpen, exitCode, crashes>>
     \/ /\ Starting /\ crashes < MaxCrashes
        /\ crashes' = crashes + 1 /\ Exits(1)
  /\ UNCHANGED <<seeded, indexed, served>>

\* drain(2000) finds no request counted; then the port is closed
Drains ==
  /\ launch = "draining" /\ launch' = "closing"
  /\ UNCHANGED <<seeded, indexed, served, visit, storeOpen, exitCode, crashes>>

\* mutant: server.close is not awaited
AllAnsweredOrNot == TRUE

\* server.close waits for the requests that are open; then the storage is closed
AllAnswered == \A v \in Visitor : visit[v] # "open"
ClosesServer ==
  /\ launch = "closing" /\ AllAnswered
  /\ launch' = "closed" /\ storeOpen' = FALSE
  /\ UNCHANGED <<seeded, indexed, served, visit, exitCode, crashes>>
ExitsCleanly ==
  /\ launch = "closed" /\ Exits(0)
  /\ UNCHANGED <<seeded, indexed, served, crashes>>

\* mutant: the timer is cleared before the port is closed
ForcesExitBefore ==
  /\ launch = "draining" /\ Exits(1)
  /\ UNCHANGED <<seeded, indexed, served, crashes>>

\* 15 s after the signal
ForcesExit ==
  /\ launch \in {"draining", "closing", "closed"} /\ Exits(1)
  /\ UNCHANGED <<seeded, indexed, served, crashes>>

Dies ==
  /\ Up /\ crashes < MaxCrashes
  /\ crashes' = crashes + 1 /\ Exits(1)
  /\ UNCHANGED <<seeded, indexed, served>>

LauncherNext ==
  \/ Launches \/ CountsDocuments \/ SeedsDocument \/ BuildsIndex \/ BootstrapFails
  \/ LoadsIndexAndListens \/ LoadFails \/ Signal \/ Drains \/ ClosesServer \/ ExitsCleanly \/ ForcesExit \/ Dies
  \/ \E v \in Visitor : Visits(v) \/ Answered(v)

\* the start goes on, and so does the shutdown, at the latest when the timer goes off;
\* requests may never be answered
LauncherStep ==
  \/ Launches \/ CountsDocuments \/ SeedsDocument \/ BuildsIndex \/ LoadsIndexAndListens
  \/ Drains \/ ClosesServer \/ ExitsCleanly \/ ForcesExit
LauncherFairness == WF_launcherVars(LauncherStep)

LauncherSpec == LauncherInit /\ [][LauncherNext]_launcherVars /\ LauncherFairness

(***************************************************************************)
(* Properties                                                              *)
(***************************************************************************)
\* The corpus is added to a fresh store only, once; what is served is all of it, unless
\* a start died or failed on the way.
WholeCorpusIsServed == launch = "serving" /\ crashes = 0 => served = CorpusSize

\* No request finds the storage closed under it, and a clean exit has cut none.
StorageOutlivesRequests == (\E v \in Visitor : visit[v] = "open") => storeOpen
CleanExitCutsNothing == exitCode = 0 => \A v \in Visitor : visit[v] # "cut"

\* A signal ends the process, though requests may never be answered.
SignalEndsProcess == launch = "draining" ~> launch = "down"

\* "seeds initial curated corpus if database is fresh": a server that is up has an
\* index, also after a start that did not get to its end.
ServesAnIndex == launch = "serving" => served > 0
===============================================================================
