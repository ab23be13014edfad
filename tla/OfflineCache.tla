----------------------------- MODULE OfflineCache -----------------------------
(***************************************************************************)
(* The service worker of the web app (apps/web/src/sw.js): one static      *)
(* asset is served from the caches of its versions and fetched again       *)
(* behind the page's back, while new versions of app and worker are        *)
(* deployed.                                                               *)
(*                                                                         *)
(* The browser is external: a worker that is being activated gets no       *)
(* request before its activate handler is done, the handlers of the worker *)
(* it replaces run on, and caches are searched in the order of creation.   *)
(***************************************************************************)
EXTENDS Integers, Sequences, FiniteSetsExt

CONSTANTS
  Load,          \* requests for the asset that may be under way
  MaxDeployed    \* bound: versions deployed

ASSUME OfflineAssumption == MaxDeployed \in Nat \ {0}

VARIABLES
  deployed,   \* the version on the server
  caches,     \* name and asset (0 for none) of each cache, in the order of creation
  worker,     \* the active worker's version, 0 for none
  update,     \* the installation in progress
  load,       \* requests: who handles it, what was found in a cache, what was fetched
  shown       \* the version the page shows, 0 for none

offlineVars == <<deployed, caches, worker, update, load, shown>>

Versions == 1..MaxDeployed
NoLoad   == [pc |-> "idle", by |-> 0, found |-> 0, got |-> 0]
NoUpdate == [pc |-> "idle", to |-> 0]

OfflineTypeOK ==
  /\ deployed \in Versions /\ worker \in 0..deployed /\ shown \in 0..deployed
  /\ caches \in Seq([name : 1..deployed, asset : 0..deployed])
  /\ \A i, j \in DOMAIN caches : caches[i].name = caches[j].name => i = j
  /\ update \in [pc : {"idle", "adding", "activating"}, to : 0..deployed]
  /\ load \in [Load -> [pc : {"idle", "asked", "fetching", "putting"}, by : 0..deployed,
                        found : 0..deployed, got : 0..deployed]]

OfflineInit ==
  /\ deployed = 1 /\ caches = <<>> /\ worker = 0 /\ update = NoUpdate
  /\ load = [l \in Load |-> NoLoad] /\ shown = 0

Deploys ==
  /\ deployed < MaxDeployed /\ deployed' = deployed + 1
  /\ UNCHANGED <<caches, worker, update, load, shown>>

\* caches.open creates a cache that is not there
Opened(cs, name) == IF \E i \in DOMAIN cs : cs[i].name = name THEN cs
                    ELSE Append(cs, [name |-> name, asset |-> 0])
Holding(cs, name, asset) ==
  [i \in DOMAIN cs |-> IF cs[i].name = name THEN [cs[i] EXCEPT !.asset = asset] ELSE cs[i]]

\* caches.match looks through all of them
Filled(cs) == {i \in DOMAIN cs : cs[i].asset # 0}
Match(cs)  == IF Filled(cs) = {} THEN 0 ELSE cs[Min(Filled(cs))].asset

(***************************************************************************)
(* install and activate                                                    *)
(***************************************************************************)
\* the browser finds a new worker
StartsInstall ==
  /\ update.pc = "idle" /\ worker < deployed
  /\ update' = [pc |-> "adding", to |-> deployed]
  /\ caches' = Opened(caches, deployed)
  /\ UNCHANGED <<deployed, worker, load, shown>>

\* addAll puts everything or, with an error that is ignored, nothing
FinishesInstall ==
  /\ update.pc = "adding"
  /\ caches' \in {caches, Holding(caches, update.to, deployed)}
  /\ update' = [update EXCEPT !.pc = "activating"]
  /\ UNCHANGED <<deployed, worker, load, shown>>

Kept(cs, name) == IF \E i \in DOMAIN cs : cs[i].name = name
                  THEN <<cs[CHOOSE i \in DOMAIN cs : cs[i].name = name]>> ELSE <<>>

\* skipWaiting: it takes over at once; the caches of the others are deleted
Activates ==
  /\ update.pc = "activating"
  /\ caches' = Kept(caches, update.to)
  /\ worker' = update.to /\ update' = NoUpdate
  /\ UNCHANGED <<deployed, load, shown>>

(***************************************************************************)
(* fetch                                                                   *)
(***************************************************************************)
Requests(l) ==
  /\ load[l].pc = "idle" /\ worker # 0
  /\ load' = [load EXCEPT ![l] = [pc |-> "asked", by |-> worker, found |-> 0, got |-> 0]]
  /\ UNCHANGED <<deployed, caches, worker, update, shown>>

\* what a cache has is shown, and the network is asked in any case
Matches(l) ==
  /\ load[l].pc = "asked"
  /\ load' = [load EXCEPT ![l].pc = "fetching", ![l].found = Match(caches)]
  /\ shown' = IF Match(caches) # 0 THEN Match(caches) ELSE shown
  /\ UNCHANGED <<deployed, caches, worker, update>>

FetchesAsset(l) ==
  /\ load[l].pc = "fetching"
  /\ load' = [load EXCEPT ![l].pc = "putting", ![l].got = deployed]
  /\ shown' = IF load[l].found = 0 THEN deployed ELSE shown
  /\ UNCHANGED <<deployed, caches, worker, update>>

\* the network fails, or what it returns is not to be cached
FetchFailsOffline(l) ==
  /\ load[l].pc = "fetching"
  /\ load' = [load EXCEPT ![l] = NoLoad]
  /\ UNCHANGED <<deployed, caches, worker, update, shown>>

\* into the cache of the worker that handled the request
Puts(l) ==
  /\ load[l].pc = "putting"
  /\ caches' = Holding(Opened(caches, load[l].by), load[l].by, load[l].got)
  /\ load' = [load EXCEPT ![l] = NoLoad]
  /\ UNCHANGED <<deployed, worker, update, shown>>

OfflineNext ==
  \/ Deploys \/ StartsInstall \/ FinishesInstall \/ Activates
  \/ \E l \in Load : Requests(l) \/ Matches(l) \/ FetchesAsset(l) \/ FetchFailsOffline(l) \/ Puts(l)

\* the page is loaded again and again, handlers run, and not every fetch fails
UpdateStep  == StartsInstall \/ FinishesInstall \/ Activates
LoadStep(l) == Requests(l) \/ Matches(l) \/ Puts(l)
OfflineFairness ==
  /\ WF_offlineVars(UpdateStep)
  /\ \A l \in Load : WF_offlineVars(LoadStep(l)) /\ SF_offlineVars(FetchesAsset(l))

OfflineSpec == OfflineInit /\ [][OfflineNext]_offlineVars /\ OfflineFairness

(***************************************************************************)
(* Properties                                                              *)
(***************************************************************************)
\* Once the active worker's own cache has the asset, that is what is served: a cache
\* that a request of an earlier worker has brought back does not hide it.
OwnCacheIsServed ==
  \A i \in DOMAIN caches :
    caches[i].name = worker /\ caches[i].asset # 0 => Match(caches) = caches[i].asset

\* "Stale-While-Revalidate": with a worker installed, and once nothing new is deployed any
\* more, the page comes to show the newest version for good, whatever the order of puts
\* and installations.
NewestIsShownInTheEnd == <>(worker # 0) => <>[](shown = deployed)
===============================================================================
