------------------------------- MODULE MCStores -------------------------------
(***************************************************************************)
(* The components that keep records in memory, in files and in the         *)
(* browser, and the launcher that fills an empty store, each on its own: a *)
(* behaviour chooses one of them, and the others stay as they begin.       *)
(***************************************************************************)
EXTENDS StorageMaintenance, JsonRepository, ApiRateLimiter, Feedback,
        OfflineCache, Launcher, MemoryIndex, LinkGraph, FocusLens

VARIABLE part   \* the component that runs

allVars == <<storageVars, repoVars, limiterVars, feedbackVars, offlineVars, launcherVars,
             indexVars, graphVars, lensVars, part>>

MCLimit  == [k \in Key |-> 2]
MCWindow == [k \in Key |-> 2]
\* hosts of documents are "a.b" and "c.b"; one pattern matches the first, one both, and
\* one is no pattern at all
OneHost       == [star |-> FALSE, labels |-> <<"a", "b">>]
BothHosts     == [star |-> TRUE,  labels |-> <<"b">>]
MCLensPattern == {OneHost, BothHosts, [star |-> FALSE, labels |-> <<>>]}
MCLensHost    == {<<"a", "b">>, <<"c", "b">>, <<>>}
OneRule(p, m) == <<[pattern |-> p, multiplier |-> m]>>

\* from outside come a health profile that contradicts itself, and one out of bounds
MCForeignLens ==
  {[GeneralLens EXCEPT !.id = "mine", !.health = TRUE,
                       !.boosts = OneRule(OneHost, BoostMax), !.demotes = OneRule(OneHost, DemoteMin)],
   [GeneralLens EXCEPT !.boosts = OneRule(OneHost, BoostMax + 1)]}

MCLinkLists == {<<"c">>, <<"a", "b">>, <<"b", "d">>, <<"a", "a">>}

Init ==
  /\ part \in {"storage", "repository", "limiter", "feedback", "offline", "launcher", "index",
               "links", "lens"}
  /\ StorageInit /\ RepoInit /\ LimiterInit /\ FeedbackInit /\ OfflineInit /\ LauncherInit
  /\ IndexInit /\ GraphInit /\ FocusLensInit
  /\ part # "lens" => draft = FreshDraft

Next ==
  /\ UNCHANGED part
  /\ \/ /\ part = "storage" /\ StorageNext
        /\ UNCHANGED <<repoVars, limiterVars, feedbackVars, offlineVars, launcherVars, indexVars,
                       graphVars, lensVars>>
     \/ /\ part = "repository" /\ RepoNext
        /\ UNCHANGED <<storageVars, limiterVars, feedbackVars, offlineVars, launcherVars, indexVars,
                       graphVars, lensVars>>
     \/ /\ part = "limiter" /\ LimiterNext
        /\ UNCHANGED <<storageVars, repoVars, feedbackVars, offlineVars, launcherVars, indexVars,
                       graphVars, lensVars>>
     \/ /\ part = "feedback" /\ FeedbackNext
        /\ UNCHANGED <<storageVars, repoVars, limiterVars, offlineVars, launcherVars, indexVars,
                       graphVars, lensVars>>
     \/ /\ part = "offline" /\ OfflineNext
        /\ UNCHANGED <<storageVars, repoVars, limiterVars, feedbackVars, launcherVars, indexVars,
                       graphVars, lensVars>>
     \/ /\ part = "launcher" /\ LauncherNext
        /\ UNCHANGED <<storageVars, repoVars, limiterVars, feedbackVars, offlineVars, indexVars,
                       graphVars, lensVars>>
     \/ /\ part = "index" /\ IndexNext
        /\ UNCHANGED <<storageVars, repoVars, limiterVars, feedbackVars, offlineVars, launcherVars,
                       graphVars, lensVars>>
     \/ /\ part = "links" /\ GraphNext
        /\ UNCHANGED <<storageVars, repoVars, limiterVars, feedbackVars, offlineVars, launcherVars,
                       indexVars, lensVars>>
     \/ /\ part = "lens" /\ FocusLensNext
        /\ UNCHANGED <<storageVars, repoVars, limiterVars, feedbackVars, offlineVars, launcherVars,
                       indexVars, graphVars>>

\* LauncherFairness and OfflineFairness, of the component that runs
Spec ==
  /\ Init /\ [][Next]_allVars
  /\ WF_launcherVars(part = "launcher" /\ LauncherStep)
  /\ WF_offlineVars(part = "offline" /\ UpdateStep)
  /\ \A l \in Load : /\ WF_offlineVars(part = "offline" /\ LoadStep(l))
                     /\ SF_offlineVars(part = "offline" /\ FetchesAsset(l))

(***************************************************************************)
(* Properties.  Each gathers the parts of one question, asked of the       *)
(* component that runs; the parts, and the code they are about, are        *)
(* explained in the components' modules.                                   *)
(***************************************************************************)

\* The state of every component is well formed.
StoresTypeOK ==
  /\ part = "storage"    => StorageTypeOK
  /\ part = "repository" => RepoTypeOK
  /\ part = "limiter"    => LimiterTypeOK
  /\ part = "feedback"   => FeedbackTypeOK
  /\ part = "offline"    => OfflineTypeOK
  /\ part = "launcher"   => LauncherTypeOK
  /\ part = "index"      => IndexTypeOK
  /\ part = "links"      => GraphTypeOK
  /\ part = "lens"       => FocusLensTypeOK

\* Backups, restores and migrations, failing and dying between any two files, leave data
\* that its version tells of, that memory agrees with, and that no damaged backup replaced.
DataSurvivesMaintenance ==
  part = "storage" =>
    DamagedBackupNeverRestored /\ VersionTellsData /\ AppliedOnce /\ MemoryFollowsFiles

\* A record that was accepted (a page, a vote, an imported vote, a document of the index
\* in memory) is there until what its component removes it for, and there once, whatever
\* failed or came again in between.
RecordsAreKeptOnce ==
  /\ part = "repository" => StoredIsServed /\ DuplicatesNeedFailures
  /\ part = "feedback"   => RecentFeedbackKept /\ ImportedOnce /\ BurstsAreMarked
  /\ part = "index"      => InverseOfDocuments /\ PostingsHaveDocuments /\ SavedIndexLoads

\* What is kept does not contradict itself: the link graph tells of the same links wherever
\* it is read, also when it was saved and loaded, and a redirected address has one page it
\* stands for; the rules of a lens do not undo each other, the one accepted last decides,
\* and the lens a search resolves is valid.
NothingContradicts ==
  /\ part = "links" => GraphAgrees /\ RedirectsEnd /\ ReloadKeepsTopology
  /\ part = "lens"  => OneRuleForAPattern /\ AcceptedRuleDecides /\ ResolvedLensIsValid

\* What the rate limiter grants, over the borders of windows, crashes and processes, is
\* bounded and accounted for in the shared file.
GrantsAreAccountedFor ==
  part = "limiter" => BurstAtMostDouble /\ DiskAccountsForGrants

\* What visitors get is whole: the corpus, requests that end before their storage, and
\* the assets of the service worker that is active.
ServedWhole ==
  /\ part = "launcher" => WholeCorpusIsServed /\ StorageOutlivesRequests /\ CleanExitCutsNothing
  /\ part = "offline"  => OwnCacheIsServed

\* Steps over several files are all or nothing, and no step loses what was written before.
StepsAreAllOrNothing ==
  FailedMigrationRestores /\ BackupIsSnapshot /\ FileOnlyGrows /\ UrlRecordsStay

\* The newest version comes to be shown, and a signal comes to end the process.
SettlesInTheEnd == NewestIsShownInTheEnd /\ SignalEndsProcess
===============================================================================
