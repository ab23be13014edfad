# A verification project for OpenSearch

OpenSearch (`src/`) is a private, local-first search engine in TypeScript: a crawler
(`packages/crawler`), a JSON file storage (`packages/storage`), an indexer (`packages/indexer`),
ranking and search providers (`packages/ranking`), an HTTP API and a web app (`apps`). This
directory models its core in TLA+, model-checks small instances with TLC and proves what matters
most with TLAPS.

Everything is one Node process (several for the API): code between two `await`s runs to
completion, so the models' actions are the stretches between awaits, plus the file operations
where a crash or an exception can come in between.

## 1. The system

| Component | State | Operations | Used by | Module |
|---|---|---|---|---|
| crawl queue (`crawler/src/queue`) | pending list and seen-set, in memory and in two files | initialize, enqueue, dequeue, clear, unsee, close | orchestrator | `CrawlQueue` |
| crawl orchestrator (`crawler/src/orchestrator`) | isRunning, shouldStop, page counters, last request per domain, its workers' local state | addSeeds, start, stop, abort, close; per URL: robots, politeness, fetch, store, follow links | CLI | `CrawlRun` |
| http fetcher (`crawler/src/fetcher`) | none between calls | fetch: address checks, redirects, time-outs, retries | orchestrator, robots, sitemaps | `PageFetch` |
| robots policy (`crawler/src/robots`) | cached policies, fetches under way | isUrlAllowed, clearCache; parsing, choice of a group and a rule | orchestrator, sitemaps | `RobotsPolicy`, `RobotsRules` |
| sitemap service (`crawler/src/sitemap`) | visited sitemaps and counters of a walk | ingestDomainSitemaps | orchestrator | `SitemapIngest` |
| worker pool (`crawler/src/worker`) | job list, a host's record of requests | executeJobs, acquirePermission, terminate | tools | `WorkerPool` |
| link graph, pagerank (`crawler/src/graph`) | nodes, adjacency maps, edges, redirects | addDocument, registerRedirect, toJSON, fromJSON; computePageRank | indexer, ranking | `LinkGraph`, `PageRank` |
| JSON storage (`storage/src/adapters`) | collections in memory and one file each, secondary indexes | initialize, close, create, update, find | all | `JsonRepository`, `StorageMaintenance` |
| backups, migrations (`storage/src`) | snapshots with manifests, applied migrations | backup, restore, migrate, rollback | CLI | `StorageMaintenance` |
| compression (`storage/src/compression`) | none | compress, decompress | tools | `PostingCodec` |
| inverted index (`indexer/src/index`) | documents, dictionary, `index.json` | add, remove, clear, save, load with validation | builder, search | `MemoryIndex` |
| segmented index (`indexer/src/segments`) | write buffer, active segments, segment files, manifest | add, remove, flush, load, compact, merge, recover | builder | `SegmentedIndex`, `DurableIndex` |
| index builder (`indexer/src/builder`) | active index and its metadata, generation directories, records | build, loadActiveIndex, indexDocument, deleteDocument, cleanup | CLI, API | `IndexBuilder` |
| prefix trie (`indexer/src/suggest`) | the trie | insert, suggest, clear | API | `PrefixTrie` |
| query processing (`ranking/src/query`) | none | parse, correct typos | API | `QueryText` |
| focus lenses (`ranking/src/lens`) | an editor's draft, registered profiles | add and remove rules, set metadata, restore, reset, import; register, resolve, remove | ranking | `LensRules`, `FocusLens` |
| scoring and results (`ranking/src/scorer`, `results`, `tracker`) | none between calls | rank, one page of it | API | `RankedResults` |
| retrieval (`ranking/src/retrieval`) | none between calls | candidates; top-k with pruning | API | `CandidateRetrieval` |
| answers (`ranking/src/answers`) | none | evaluate arithmetic, and others | API | `QueryText` |
| query cache, provider cache, robots cache | entries in order of use | get, set, purge, drop | API, providers, crawler | `LruCaches` |
| search providers (`ranking/src/providers`) | circuit, failures, cool-down per provider | executeSearch with retries, time-outs, deadline, cancellation | API | `ProviderSearch` |
| feedback (`ranking/src/feedback`) | votes, review queue | submit, export, delete, purge, import, set a status, approve | API | `Feedback` |
| API server (`apps/api`) | server state, requests under way, caches | start, drain, stop; middlewares; search | web app | `ApiServer` |
| API rate limiter | windows, in memory or in a shared file | consume, cleanup, destroy | API | `ApiRateLimiter` |
| MCP server (`apps/api/src/mcp`) | controllers of the requests under way | tools, cancellation | agents | `McpServer` |
| web app (`apps/web`) | the page's searches, panels, preferences; service worker caches | search, cancel, go offline; install, activate, fetch | people | `WebSearch`, `OfflineCache` |
| launcher (`scripts/start-production.mjs`) | bootstrap, server, shutdown | start, serve, drain, exit | container | `Launcher` |
| tracker detection, html parser, pipeline, CLI, shared services | configuration, counters | | | |

How they interact: the orchestrator awaits every call of the queue, the fetcher, robots and the
storage; its workers share the queue and the counters. The crawler marks documents as pending in
storage and the builder polls for them; nothing else connects the two. The builder owns the
generations; the search side reads the active index. A request of the page passes the service
worker, the rate limiter and the middlewares, then the query cache, the retrieval over the
active index and, in the modes that allow it, the providers with their own cache. Votes reach
the review queue only by an import someone asks for.

What is hard in it: workers that test a shared limit, await, and act; two files that belong
together but are written one after the other; an activation made of several updates; merges that
delete what readers may need; storage that changes memory before a write that may throw; answers
that come after their request was cancelled, timed out or replaced by another; processes that
share a file; and a process that may die anywhere.

What makes each part correct: the frontier loses no URL and hands none out twice without a
reason; a run keeps its limits, ends, and takes care of every URL it dequeued; no host is asked
for a page it forbids, nor an address that is not public; an index serves the newest saved
version of each document whatever is flushed, merged or interrupted; the active generation is
there, and holds what is marked as indexed; a restored backup is what was backed up, a migration
is applied once; a limiter admits at most twice its limit in a window; a request in local mode
contacts nobody; every request is answered, counted once and not cut before its grace period
ends; the page shows results of the mode it is in; pruned and exhaustive retrieval find the same
hits; a saved or compressed structure comes back as it was.

`PROJECT.json` lists every component with its status, and under `hazards` every place that is
hard to test, with the properties that cover it.

## 2. Modules

Each module models one component and is named in the table above. `CrawlQueueProofs`,
`CrawlRunProofs`, `SegmentedIndexProofs` and `IndexBuilderProofs` hold the theorems about the
component in their name (section 4), `RequestsProofs` and `StoresProofs` those about the
components that `MCRequests` and `MCStores` gather, and `ListLemmas` the facts about numbers,
lists and finite sets they share; `DurableIndex` is an abstract specification that
`SegmentedIndex` refines. `MCCrawlQueue`, `MCCrawlRun` and `MCSegmentedIndex` give constants to
one component (the index builder needs none but those of its cfg). `MCRequests`, `MCStores` and
`MCStructures` each gather components that share no state in one specification: the variable
`part`, chosen initially, says which of them runs, the others stay as they begin, so one run
checks all of them and no two interleave that do not meet in the program.

### CrawlQueue
`queue`, `seen`, `initialized` are the fields of `PersistentCrawlQueue`; `diskQueue` and
`diskSeen` the two files (each replaced atomically by rename). `call` is the handler in
progress: a handler first changes memory and then performs one or two writes, and its last write
returns. Between writes a crash or a failing write may come. `Canonical` stands for
`validateUrl` (two spellings, one URL; a rejected one). `delivered`, `cleared`, `unsees`,
`crashes`, `writeErrors` are history. Callers await each operation before the next; `CrawlRun`
has the concurrency. `ColdClose` says whether callers call close on a queue that was never
initialized, which the code allows.

### CrawlRun
`worker[w].pc` walks the body of `workerLoop` and `processItem`, one action per stretch between
awaits: test of the limits, dequeue, second test, depth, reservation, robots, politeness (read
the last request, sleep, note the own one), mark in progress, look up the document, fetch (with
its outcomes: failure, 304, success), store, record, mark, follow the links one by one, finish.
The queue is its list and seen-set with a file each; `HalfOffered` is an enqueue of which one of
the two writes throws, `CrashInFollow` and `CrashInStart` are crashes between them. `Close`
closes the queue and the storage under the workers: from then on what they await throws, which
`Mark` (`upsertUrlStatus`) and `StoreDocumentFails` swallow and `StorageThrows` does not.
`missed` counts the final statuses lost that way. `Seeded` is addSeeds up to a seed, of which a
failing write may take any; a recrawl takes a URL out of the seen-set first, which `unsees`
counts. A worker is identified with the run that started it, as a run whose `Promise.all`
rejected leaves workers behind. `Links`, `Blocked`, `Domain` are the site. `Tick` is time, for
politeness only.

### DurableIndex, SegmentedIndex
`DurableIndex` has three functions, what readers see, what they have of what was saved, and what
a restart brings back, with Add, Remove, Save, Revert, and a save that fails: it may be durable
all the same, and readers go back to what they had loaded. `SegmentedIndex` has the write
buffer, the active segments with their payloads, the files and the manifest, and `call` with the
phase of a flush or merge: write the segment file, replace the manifest, delete the merged
files, return. A flush that has replaced the manifest reads its segment back and may fail at
that (`FlushUnread`); `unread` remembers the documents that are then on disk and not in memory.
`compaction` is the outer phase of `compact`, which a failure at any of its awaits ends
(`CompactThrows`). The refinement maps readers' view to buffer over documents of a flush in
progress over segments, and the durable view to the segments the manifest names: a flush saves
at the moment its manifest is replaced (when the read-back fails it is a `FailedSave`), and a
merge is a stuttering step.

### IndexBuilder
`meta`/`docs` are the JSON collections in memory, `metaFile`/`docFile` their files: an update
changes memory and then writes, and the write may throw. `dir` holds the generation directories.
`build` walks through `build` and then `cleanObsoleteGenerations`, `edit` through
`indexDocument` or `deleteDocument`. `loadActiveIndex` is three actions by what it finds.
`Crawl` is the orchestrator's write of a document. `served` is the generation activated last;
`torn` says which pairs of updates a failure or a crash has cut in two: the two that create a
record, or those that activate one.

### PageFetch, RobotsPolicy, RobotsRules, SitemapIngest, WorkerPool
`PageFetch` is `NodeFetcher.fetch` from attempt to attempt and hop to hop; servers answer
anything or nothing, and `Safe` is the address check a hop passes. `RobotsPolicy` has the cache
with its expiry, the map of fetches under way that callers share, and a site whose robots.txt
changes; a fetch ends in two steps, the header (`HeadArrives`), which has a time-out, and the
text, which has none. `RobotsRules` reads the lines into groups and picks a group and a rule: a
pattern is its length and whether it matches. `SitemapIngest` is the loop over the sitemap queue
with its two counters and the visited set. `WorkerPool` has the sliding window limiter as the
code has it: `TakesJob` reads the record and computes a wait, `SendsRequest` writes the record
when the wait is over.

### LinkGraph, PageRank
`LinkGraph` keeps the two adjacency maps, the edges and the degrees apart, as the code does, so
that they may disagree. `LinkLists` are the links that documents may have. `PageRank` computes
in whole numbers of which `Scale` is 1, divisible by all that it is divided by, and keeps the
two buffers that take turns.

### StorageMaintenance, JsonRepository
`StorageMaintenance` has files, an adapter's copy of them in memory, snapshots with their
manifests, and one `job` (backup, restore, migration, rollback) that goes from file to file and
may fail or die between two. A restore may throw with some files replaced (`RestoreThrows`),
also the one that follows a failed migration, and schema-version.json may not be written when
the files are done (`RecordThrows`); `past` counts what happened. A collection's content is the
number of its last change and how often each version was applied, which is what tells "applied
twice" from "applied". `JsonRepository` has the two repositories the crawler uses, with their
indexes.

### MemoryIndex, PostingCodec, PrefixTrie, QueryText, CandidateRetrieval
Data structures and algorithms. Where the code loops, the model steps (a byte, a cell of the
matrix, an evaluated document); each is checked against a definition that does not share its
method: the list that was compressed, the texts that were inserted, the words one edit away, the
ways to read an expression, exhaustive scoring. `QueryText` also has the arithmetic of the
answer box, `CandidateRetrieval` both the candidates and the search for the best k.

### LensRules, FocusLens, RankedResults
`LensRules` is what a rule says about a host: patterns, the order in which a resolver tries
them, what it accepts. `FocusLens` is the editor's draft with its calls, and the registry a
draft is registered in. `RankedResults` is what happens to hits once they have scores: the
penalty of trackers, the host diversity pass, and the cut into pages.

### ApiServer, ApiRateLimiter, McpServer
`ApiServer` has the server's state, the calls of `stop`, and request slots that go from arrival
through the handler's await to the answer; a time-out answers and the handler goes on.
`RespondsLate` is what the handler does then. Probes of health and readiness are answered before
a request is counted and are no requests of the model. `ApiRateLimiter` separates the reading of
the shared file from its writing; another process may come in between. `McpServer` has the table
of controllers by request id, which clients choose.

### ProviderSearch, LruCaches
`ProviderSearch` has concurrent searches, each with a call to a provider, its attempts,
back-offs and time-outs, and the circuit they share. `LruCaches` is one module for the three
caches of the code, with the differences between them as alternatives (`which`).

### WebSearch, OfflineCache
`WebSearch` has every search the page ever started, each until its `finally` is over, the
controller the page holds, and the panel with whose result it shows. An action is a task of the
browser's event loop. `OfflineCache` has the caches by version, a worker being installed or
activated, and page loads that outlive the worker that began them.

### Feedback, Launcher
`Feedback` has the store (capacity, retention) and the review queue; an import takes the votes
the service has or an older export. `Launcher` is the container's life: bootstrap document by
document, serving, a signal, the drain, the two ways to exit, and the next start; an index that
cannot be loaded is a warning, and the server serves without one (`LoadFails`).

## 3. Runs

A property of a run answers one question, and where several invariants answer it together, it is
their conjunction, named for the question. The parts are defined and explained in the
components' modules, one by one, next to the code they are about.

### One component each

`crawl_queue` (2 URLs, 3 spellings and a rejected one, capacity 2, 2 crashes, 2 failing writes,
one unsee per URL).
- `NothingForgotten`: without write errors a URL the seen-set blocks is pending, was handed out,
  or was cleared: this is why enqueue writes the list first.
- `DurableBetweenCalls`: between calls the files are what memory is.
- `FailuresAreBounded`: a failing write costs one URL at most (`LossBoundedByWriteErrors`), a
  URL is handed out once, plus once for each unsee and crash (`BoundedRedelivery`), and
  contains() forgets no more URLs than there were failures (`DedupSurvivesRestarts`).

`crawl_run` (4 pages with links, one disallowed, 2 workers, limit 2 pages, one close at any
moment, one storage error, stop and abort).
- `RunIsContained`: the limit of pages (`PageLimit`), and start() returns after its workers
  unless one threw (`ReturnsAfterItsWorkers`).
- `DropsBounded`: a URL is left blocked without an outcome only by a worker that meets the limit
  after its dequeue, a close, a crash or an error, and each worker of a run does so once at
  most; one more for each final status that could not be written, of which there are no more
  than failed writes and, for each close, workers. While none of these but the limit comes up,
  one worker of each run drops none: the last one to take an item finds the limit not reached.
- `RunsToTheEnd`: an undisturbed run ends with an empty queue or all pages reserved although
  workers leave early; under fairness, `RunTerminates` unless a site keeps one of its workers
  waiting for ever for the end of a page or of a robots.txt.

`crawl_run_restart` (3 pages of one site, two runs, depth limits 0 and 1, recrawls, one crash,
delay 1).
- `FetchesInOrder`: no page twice in one seeding, but once more for each crash, which may come
  between queue.json and seen.json (`FetchedOncePerSeeding`), none too deep (`DepthRespected`),
  and within a delay a domain gets no more requests from one process than it has workers
  (`BurstsBounded`; three pages and two workers, so that a request without its note would show).
  This last only while nothing fails or is closed: a run whose `Promise.all` rejects leaves
  workers behind, whose requests come on top of those of the next run.

`segmented_index` (2 documents, 2 versions, 2 terms, 4 segments, one crash, one error: any read,
write or deletion of a file).
- `FilesFollowManifest`: the manifest names files that exist (`ManifestSegmentsExist`), and
  files it does not name are left only by failures (`OrphansOnlyAfterFailures`).
- `NewestVersionWins` in every flush and merge of the newest segments.
- `ReadersAgree`: a reader that has not reloaded after a merge sees what one that has does, but
  for the documents of a flush that failed after it had saved (`MemoryAgreesWithDisk`), look-ups
  by id and of all documents agree (`LookupsAgreeUnlessBatched`), and a document is found by its
  terms (`FoundByItsTerms`).
- `ImplementsDurableIndex`: the refinement.

`segmented_index_merge` (merges of any two segments, clear, one crash).
- `DurableDocumentsStay`: what a restart would bring back stays so, whatever is merged.

`index_builder` (2 documents, 2 versions, 2 builds, one document operation, one crash, two
errors).
- `AtMostOneActive` record.
- `CleanupIsRight`: the generation activated last is the one findActive names, in memory and
  after a restart, and cleanup leaves it alone, through failing builds, failing cleanups and
  crashes, unless one of them cut the pair of updates that creates a record or the pair that
  activates one (`ServedIsKept`); and replaced ones do not pile up (`GenerationsBounded`). What
  a cut pair does is told below and in `index_builder_prune`.
- `ServedFollowsRecords`: the index in memory is the active generation's (`MemoryMatchesDisk`),
  and a document marked as indexed is in it with that content (`ServedWhenUndisturbed`).

### Gathered runs

`requests` (`MCRequests`): an API server with two slots and two calls of stop; two searches
sharing a provider's circuit, one retry; three searches of a page; a page fetch with two
redirects and two retries; two askers of robots policies that live one tick, on sites whose
answer may stop in the middle; four sitemaps that may name each other, of which three may be
fetched; two MCP clients and two ids; a pool of two workers with four jobs; three caches with
three keys and room for two; every robots.txt of four lines, with patterns of up to two
characters.

- `RequestsStayWhereAllowed`: no request in local mode makes a provider call, whatever is cached
  (`LocalContactsNobody`, `LocalServerContactsNobody`); none goes to an address that is not
  public, on any hop of any attempt (`HopsChecked`); `ForbiddenStayOut` of the sitemaps; and
  what a site forbids is read as it wrote it: the rules used are those of a group that names the
  crawler (`RulesOfTheirAgents`), and of those that match the longest decides
  (`LongestMatchWins`).
- `OutwardWorkIsBounded`: calls made to a provider that is down (`RetryStormBounded`), a fetch's
  requests by the product of both its limits (`RequestsBounded`), `SitemapsFetchedOnce`,
  `OneFetchPerOrigin`.
- `HandlesNameWhatIsUnderWay`: `ActiveCountsRequests`; a request that timed out is not counted
  again when its handler ends (`CountedOnce`); the controller the page holds is that of the
  newest search (`NewestCanBeAborted`); no controller of the MCP server outlives its request
  (`EntriesAreUnderWay`), and who is alone with an id finds its own (`OwnIdsCanBeCancelled`).
- `NothingStaleIsUsed`: results shown were asked for in the mode the page is in
  (`ResultsOfTheMode`), `RetryAfterHonoured`, a page is not permitted by a policy older than its
  lifetime (`ForbiddenInTime`).
- `StopIsOrderly`: a request is cut only when the grace period of a stop is over
  (`GraceRespected`), and none is taken on while stopping (`NoNewWorkWhileStopping`).
- `LimitsAreKept`: `DelayKeptPerWorker`, `WindowKeptAlone` (with a single worker),
  `JobsAnswered`, and `CapacityHeld` of the caches; `RecentlyUsedStay`: what leaves a cache to
  make room is what was used longest ago.
- `EverythingEnds`, under fairness: `StopEnds`, `SearchesEnd`, `SearchAnswered` (the newest
  search ends in a panel), `HeadOrEnd` (a fetch gets to the header of an answer or ends),
  `AskersAnswered` and `IngestsEnd` (unless a text never ends), and `CircuitsRecover` (a circuit
  does not stay open when the provider is back and asked).

`stores` (`MCStores`): a storage of two files with two snapshots, one mishap (a failure, a
death, damage, an unwritten record) and a restore that throws on top of it; repositories with
two URLs and three crawls; two rate-limiting processes on one file, that grant five requests at
most where the bound is four; three votes with two ids; three versions of the site and two loads
of a page; a launcher with two documents, two visitors, two crashes; an in-memory index of two
documents and two terms, with a death while saving and damage to its file; a link graph of four
pages with room for three and two links per page, documents with one of four lists of links,
three documents or redirects, and any number of reloads; a lens editor with three calls, two
patterns and an invalid one, fresh or opened on a profile from outside, and the registry.

- `DataSurvivesMaintenance`: the recorded version is the one the files have, when nothing was
  interrupted (`VersionTellsData`); a version is applied to a file once, and once more for each
  death, failure without a backup, restore that threw and record that was not written
  (`AppliedOnce`); `DamagedBackupNeverRestored`; `MemoryFollowsFiles`, but after a restore that
  threw.
- `StepsAreAllOrNothing`: a migration that fails before its record leaves the files as they
  were, if the restore does not throw (`FailedMigrationRestores`), `BackupIsSnapshot`, and a
  save loses nothing saved before (`FileOnlyGrows`, `UrlRecordsStay`).
- `RecordsAreKeptOnce`: a stored page is found by its URL, after a restart as well
  (`StoredIsServed`), `DuplicatesNeedFailures`; a vote leaves only by age, by the capacity or by
  request (`RecentFeedbackKept`), `ImportedOnce`, `BurstsAreMarked`; the dictionary of the index
  in memory is the inverse of its documents (`InverseOfDocuments`, `PostingsHaveDocuments`), and
  a file that was saved and not damaged loads (`SavedIndexLoads`).
- `NothingContradicts`: nodes, maps, edges and degrees agree (`GraphAgrees`); a snapshot loads
  with all its pages and links (`ReloadKeepsTopology`); redirects from documents do not run in
  circles (`RedirectsEnd`). A draft that did not come from outside has one rule for a pattern
  (`OneRuleForAPattern`), so that a rule the editor accepted decides (`AcceptedRuleDecides`),
  and what a search resolves is a valid lens (`ResolvedLensIsValid`).
- `GrantsAreAccountedFor`: in no stretch of a window's length a client gets more than twice its
  limit, or the cost of a first request where that is more, across crashes, unless processes
  raced or buckets were dropped (`BurstAtMostDouble`), and the shared file knows of what was
  granted (`DiskAccountsForGrants`). A race is a write between another process's look-up and its
  own write, or in the tick of the write it last saw; a look-up that misses an older write is
  none.
- `ServedWhole`: `WholeCorpusIsServed`, `StorageOutlivesRequests`, `CleanExitCutsNothing` of the
  launcher, `OwnCacheIsServed` of the service worker.
- `SettlesInTheEnd`, under fairness: `NewestIsShownInTheEnd`, `SignalEndsProcess`.

`structures` (`MCStructures`), over every input within the bounds:

- `SearchIsExact`: WAND finds the hits of exhaustive scoring and MaxScore hits of the same
  scores, when no URL has two words of the query; with two, whatever is lost is better than a
  hit by no more than the second word's bonus (`PruningIsExact`: 3 documents, 2 terms, scores up
  to 2, up to 2 words in a URL, k of 1 and 2); `ExcludedStayOut`, `FullMatchesAreFound`,
  `LimitKeepsTheBest`, `PhrasesAreContiguous` (2 documents with two fields, three modes);
  `DiversityKeepsOrderOfAHost`, `PagesPartitionResults`, `TrackersOnlyDemote` (4 documents of 2
  hosts, three settings).
- `RankIsComputed`: `MassIsOne`, `ConvergedIsStable`, and `ReturnsNewestScores`, which says what
  is returned after an even and after an odd number of rounds (every graph of up to 3 pages, 1
  to 4 rounds).
- `WrittenIsRead`: `Lossless`, `DecodedIsAPrefix` (lists of two records; groups of two bits, so
  that numbers take up to four bytes); `OneEditIsDistanceOne`, `DistanceTwoIsTwoEdits`,
  `LengthGuardIsSafe` (words of up to 4 letters over 2); `HeaviestAreSuggested`: what is left
  out is lighter, or longer by two characters for each unit it is heavier; `ExactTextComesFirst`
  (7 texts of up to 7 letters, 3 insertions); `EvaluatedAsItReads` (expressions of up to 5
  tokens, against all ways to split them); `WordsCount`, `ExcludedAreMarked` (queries of up to 5
  items).

Every run of one component but the restart and the merge checks its `TypeOK` (in `crawl_run` a
part of `RunIsContained`), and every gathered run those of its components, as `RequestsTypeOK`,
`StoresTypeOK`, `StructuresTypeOK`.

### Runs that end in a counterexample

Each is against a sentence of the repository, quoted under `findings` in `PROJECT.json`.

- `index_builder_prune`: a build interrupted between creating its record (whose path is the root
  directory) and correcting the path makes every later cleanup remove the root directory, the
  active generation with it (`ActiveNeverPruned`).
- `api_modes`: the key of the query cache does not have the mode, so a local-only request is
  answered with the page, and the receipt, of a request in another mode (`AnsweredAsAsked`).
- `mcp_cancel`: a search cancelled while its providers are being asked runs on and its result is
  sent (`CancelledGivesNoResult`).

### Further divergences

What the models show besides, when a property or the bounds are changed. Eleven of them are
stated as properties that no run checks, because the code violates them: `PolitenessKept`,
`NothingDroppedByARun` (`CrawlRun`), `AddedIsThere` (`SegmentedIndex`), `ServedAfterCrash`,
`ServedKeepsItsDirectory` (`IndexBuilder`), `AbortRestores` (`StorageMaintenance`),
`PrunedIsNeverBetter` (`CandidateRetrieval`), `StaleAnswersDropped` (`WebSearch`),
`FetchesEndInTime` (`PageFetch`), `ServesAnIndex` (`Launcher`), `EveryRunCounts` (`QueryText`).
TLC gives a counterexample for each when it is put into the cfg of its component's run
(`PolitenessKept` into that of `crawl_run_restart`).

Crawler. Two workers read the same last request, sleep to the same instant and request together
(`crawl-orchestrator.ts:767`); a worker that meets the page limit after its dequeue drops its
URL, which the seen-set then blocks from every later run (249); start() sets isRunning before
its try block, so an error of addSeeds leaves it set for good (165); a URL robots.txt disallows
keeps its page reservation (264); pagesFetched counts pages that could not be stored (601, 663);
close on an uninitialized queue empties both files (`persistent-queue.ts:142`); a crash between
queue.json and seen.json leaves a URL queued and not seen, so that it is queued and fetched a
second time (192); and close() does not wait for the workers, who then cannot write the status
of what they have fetched (803). The fetcher clears its timer before it reads the body, so a
server that stops in the middle of one is waited for without end (`FetchesEndInTime`). Workers
of the pool overwrite each other's record of the last request, so its rate is kept for one
worker only (`worker-pool.ts:140` promises it for all). The same holds of a robots.txt or a
sitemap: all who wait for one whose text stops wait on. A robots.txt that could not be fetched
counts as permission for the full lifetime of an entry. Of several groups that match the crawler
the first one in the file counts, and groups that name one agent are not joined.

Index. A flush whose segment cannot be read back is reported as failed although it has been
saved (`segmented-index.ts:339`). A document added while compact awaits its merge is dropped by
the reload (362); getDocumentMeta returns the older of two versions in one segment (123),
removal and update leave the versions and postings in segments (92, 100), and a merge of
segments other than the newest ones puts old versions behind newer ones
(`segment-merger.ts:303`). A crash between the two updates of an activation leaves no active
generation, and a following incremental build activates one with the pending documents only
(`index-builder.ts:305`); so does an update that fails there, and unless the old record is still
cached the next cleanup removes what was served (307, 313), against "Failed builds never corrupt
or replace an active index" (10); with a document operation during a build, or a crawl between
its read and its marks, a document is marked as indexed that the active generation does not hold
(322, 334); a replaced generation is stale and pruned at once, so maxRetained has no effect
(307, 528). The checksum of the in-memory index covers document frequencies but not postings,
and a wrong one is only a warning. Redirects are not saved with the link graph, and a page that
is full drops repeated links it has; resolution stops after ten redirects (`link-graph.ts:75`),
and of a longer chain takes a page in the middle for its end, to which a redirect may close a
circle. After an odd number of rounds that did not converge PageRank returns the iterate before
the last (`pagerank.ts:235`), while its metadata speak of the last.

Storage. A rollback takes the snapshot of the last record; the source directory of a migration
is not locked (`docs/storage-architecture.md:113`), so an open adapter may overwrite migrated
files; a migration that fails without a backup leaves applied versions unrecorded, and so does
one whose record cannot be written, though it has a backup (`migration-manager.ts:197`;
`docs/release-and-rollback.md:82` has every failure restored); a restore that throws leaves some
files replaced, and its adapter with the old ones in memory (`backup-manager.ts:222`); a file
that does not parse is loaded as empty and overwritten by the next save. Documents are unique by
canonical URL but looked up by the URL that was crawled, so pages that share one are fetched
again and never stored.

API, providers, MCP. A second stop() cuts requests before the grace period of the first; start()
may overtake a stop(); the time-out does not cover the reading of a body. The rate limiter calls
its fixed window a sliding one, its cleanup goes by the default window, destroy() empties the
shared file, and processes that race lose each other's updates. A half-open circuit admits every
concurrent caller (its comment: one trial request); retries do not ask the circuit, a late
success closes an open one, a later and shorter cool-down replaces a longer one, a deadline
counts as a time-out of the provider, and back-offs do not end with the deadline. Ids of
different HTTP clients of the MCP server collide; its receipt says that nothing was sent when
the providers were asked and had no results.

Web app, launcher. The body of an error is awaited and then shown without asking whether the
search is still the newest (`app.js:1203`); going back or pressing Escape aborts nothing; the
reset of the preferences leaves the checkbox; feedback is said to be saved locally and is not
(1784); the service worker keeps answers of the search API. A late put of an old worker brings
its cache back until the next activation. A bootstrap that dies midway leaves documents, and
later starts neither seed nor index (`start-production.mjs:32`); its drain never waits, as
requests bypass the handler that counts them.

Ranking, text. getMaxAdditiveBonus counts the bonus of one word in the URL, of which there may
be two, so that a better document may be pruned (k of 1, a hit of 5, a document of 6 with the
bound 5), against "this candidate can NEVER achieve a score higher" (`topk-retriever.ts:355`);
lens boosts are not in the bound at all; a tie may be pruned by MaxScore. Nothing but tests uses
this engine. Synonyms count among the matched terms; with filters and no term in the index all
that passes is a full match. The distance called optimal Damerau-Levenshtein is the restricted
one ("ca" to "abc" is 3). The trie stops walking before it scores, in the order of insertion,
and adds up to 20 less half a unit per character to the weight, so that a short text may outrank
a longer one that is heavier by as much (`prefix-trie.ts:145`). "-2^2" is 4. Of "well-known"
only "well" is searched for, while both are indexed. The lens editor calls itself transactional
(`lens-editor.ts:4`), but an edit it rejects for the size of the profile stays in the draft;
restoreDefault leaves the id "general", under which rules never apply and registration is
refused; an imported profile may contradict itself. A second import counts votes twice in a
burst window; a status can be set without a sign-off; deletion leaves copies in the review
queue.

### Bounds
Two of each actor or datum are enough for the interactions these properties are about: two
workers, processes, clients or searches for every race, two URLs for one to be lost while the
other is written, two versions for "newest", a third segment to merge two of three, a second
build to replace a first, a third version of the site to be deployed while the second installs.
Crashes and errors come once or twice, so that one can hit the recovery of another where that
matters. Timers count down from one or two ticks, which is enough for one thing to come before,
at and after the end. The algorithms' inputs are as long as it takes for every branch to be
taken: four cells for a transposition, four bytes for a number, five tokens for a power inside a
product in parentheses. Each bound is a named constant in the cfg and appears in a guard.
`CHECK_DEADLOCK FALSE` where the bounds, a finished run, or a finished algorithm stop the
system; the queue always has a next operation.

### Fairness
All of it is weak, with one exception, and of steps the event loop or a timer has to take: it
runs every ready continuation, and promises of the storage and the queue settle. Those of a
fetch need not: the fetcher's timer ends with the header of an answer, so nothing bounds the
reading of its body. Nobody is obliged to call, stop, abort, retry or close anything, no client
to stay, no failure to happen or not to happen.

- `RunTerminates`: FinishRun, Tick, and a worker's steps other than the end of a fetch of a page
  or of a robots.txt (`AwaitsSite`). The property allows a run that one of these keeps open.

The parts of `EverythingEnds` and `SettlesInTheEnd` each rest on the fairness of their own
component:

- `StopEnds`: the start that listens, the grace timer, the destruction of sockets, the close of
  the server, the time-out of each request. No handler is assumed to end.
- `SearchesEnd`, `CircuitsRecover`: the clock, the start of a call by a free slot, the end of an
  attempt (which has a time-out) and of a back-off.
- `SearchAnswered`: the countdown's interval and the settling of each fetch of the page.
- `HeadOrEnd`: the request timer and the back-off. No server is assumed to answer.
- `AskersAnswered`: a fetch of robots.txt gets to the header of an answer or fails
  (`HeadOrFailure`), and whoever waits for a text that never ends is excepted. `IngestsEnd`: the
  steps of the walk but the fetch of a sitemap (`AwaitsSitemap`), likewise excepted.
- `NewestIsShownInTheEnd`: updates and loads go on; strongly fair is that a load which can reach
  the network again and again gets its asset once. The property says nothing of a browser that
  stays offline.
- `SignalEndsProcess`: the steps of the shutdown, the forced exit's timer among them.

### Mutants
Every property of a passing run has a mutant in a module it speaks about (marked `mutant:`), a
plausible slip in the mapped definition that makes the property fail.

## 4. Proofs

TLC checks the instances of section 3; the theorems hold for every set of URLs, documents,
workers and so on, and for every number of crashes, errors and calls. Each rests on the named
assumptions on the constants of its modules, which TLC evaluates in every run, and on nothing
else, except where one is named below. They say that bounds are numbers, that a marker is none
of the values it stands beside ("none" is no origin and no URL, "" no address of a page, a
damaged file no content), that what a running process has of a kind is finite (the server's
slots, the searches of a page, the sitemaps, the documents of an index, the workers of a pool),
and that what comes from outside has the form the program's types give it (lists of links,
profiles of lenses). Every proof goes through an inductive invariant; what each invariant adds
to the property is the argument why the code is right.

| Module | Theorem | Property |
|---|---|---|
| `CrawlQueueProofs` | `TypeCorrect`, `FilesCurrentBetweenCalls`, `QueueWithinCapacity` | `TypeOK`, `DurableBetweenCalls`, `CapacityRespected` |
| | `FrontierForgetsNothing`, `FailuresCostLittle` (`~ColdClose`) | `NothingForgotten`, `FailuresAreBounded` |
| `CrawlRunProofs` | `RunsAreContained` | `RunIsContained` |
| | `PagesAreFetchedInOrder` | `FetchesInOrder` |
| | `DropsAreBounded` | `DropsBounded` |
| | `RunsGoOnToTheEnd` | `RunsToTheEnd` |
| `SegmentedIndexProofs` | `TypeCorrect`, `FilesGoWithTheManifest`, `SavedDocumentsStay` | `TypeOK`, `FilesFollowManifest`, `DurableDocumentsStay` |
| | `ReloadsBringTheNewest` (`~PartialMerges`) | `NewestVersionWins` |
| | `AllWaysToReadAgree`, `SegmentedIndexIsDurable` (`~PartialMerges`, `~MayClear`) | `ReadersAgree`, `ImplementsDurableIndex` |
| `IndexBuilderProofs` | `TypeCorrect`, `UniqueActiveGeneration` | `TypeOK`, `AtMostOneActive` |
| | `CleanupKeepsTheActive` | `CleanupIsRight` |
| | `ServedIsRecorded` | `ServedFollowsRecords` |
| `RequestsProofs` | `RequestsInvariance`, `RequestsAreTyped` | `RequestsTypeOK` |
| | `NothingLeavesUnasked` | `RequestsStayWhereAllowed` |
| | `OthersAreNotFlooded` | `OutwardWorkIsBounded` |
| | `HandlesAreExact` | `HandlesNameWhatIsUnderWay` |
| | `StaleIsNotUsed` | `NothingStaleIsUsed` |
| | `StoppingIsOrderly` | `StopIsOrderly` |
| | `LimitsHold`, `UsedStayCached` | `LimitsAreKept`, `RecentlyUsedStay` |
| `StoresProofs` | `StoresInvariance`, `StoresAreTyped` | `StoresTypeOK` |
| | `MaintenanceKeepsData` | `DataSurvivesMaintenance` |
| | `RecordsAreKept` | `RecordsAreKeptOnce` |
| | `NothingContradictsItself` | `NothingContradicts` |
| | `GrantsAreBounded` | `GrantsAreAccountedFor` |
| | `VisitorsGetWhole` | `ServedWhole` |
| | `StepsLoseNothing` | `StepsAreAllOrNothing` |

`QueueWithinCapacity` is why no run repeats `CapacityRespected`.

### CrawlQueueProofs

`IInv` is TypeOK with four more parts. `CallOK` relates the handler in progress to its next
write (a dequeue has one write, its URL is not NoUrl, and so on), so that a write step knows
which operation it ends. `WriteOrder` says, write by write, how files and memory agree while no
write has failed: idle means equal files, a pending write of the list means the seen file is one
URL behind at most, and so on. DurableBetweenCalls is its idle case, and NothingForgotten after
a crash follows from it, since memory is then what the files hold. Neither property is inductive
by itself: a crash in the middle of enqueue satisfies NothingForgotten only because the seen
file has not yet been written.

`FailuresAreBounded` counts, and its invariant `CostInv` counts more: not only the URLs a failed
write has lost, but every URL that some failure may yet cost or bring back, in memory, in the
files and in the hands of the handler in progress. Each action moves a URL between these sets,
and only a crash, a failing write, an unsee or a seeding adds one.

`~ColdClose` excludes that a caller closes a queue it never initialized, which empties both
files. Queues are closed by the orchestrator, which the scripts and the CLI initialize before
they close it, but its interface allows it; `TypeCorrect` and the other theorems hold with it.

### CrawlRunProofs

Workers test a shared counter, await, and act. `IInv` says what a worker that has passed a test
holds: `ReservationsOK`, that the pages a run has fetched and its workers that hold a
reservation are together no more than the reservations, which are within the limit. Each action
of a worker moves it from one side of this sum to the other. Hence `PageLimit`, however many
runs a failed one leaves workers behind for. `RunAlone`: while nothing fails, the workers are
those of the current run.

`FetchedOncePerSeeding` needs `FetchesCounted`: a URL's places in the queue, the workers that
carry it and its fetches are no more than its unsees, the crashes and the one seeding, and the
same of what the two files would bring back (`Survives`). A single inequality holds all of
enqueue's test of the seen-set, dequeue and unsee together; a crash between the two files costs
one, which is what `crashes` pays for. `BurstsBounded` needs `BurstOK`: in every window of one
delay, the requests sent in it and the workers asleep that will wake in it are different
workers, of which there are `Concurrency`.

`DropsBounded` needs `LossInv`. Of failures and crashes: what is lost and the workers that are
still there are no more than all workers of all runs and the statuses missed (`LossBound`); and
while the orchestrator is closed, each worker that has yet to mark its URL may still miss that
status, for which the close has paid (`MissedOK`). While nothing fails, one less: until the
limit is reached by reservations, nobody has lost anything in this run, and once it is, whoever
may still lose an item sits between its two tests of the limit, and the worker that made the
last reservation does not (`QuietLoss`).

`RunsToTheEnd` is an action property, of the step that ends a run. It needs `GoesOn`: while a
run is undisturbed and not told to stop, a worker is still in its loop as long as URLs are
pending and pages are left to reserve. A worker leaves by one of two tests. The empty queue it
saw may have been filled since by another, which is then in the loop itself; the limit it saw
reached stays reached.

Proving found two properties stated more strongly than the code allows. `BurstsBounded` and
`DropsBounded` were once checked without their conditions, and held in the small instances only
because two runs with workers left behind did not meet there; they are now stated for
undisturbed runs, respectively with the bound of all workers. It also found that the model
counted an unsee for a URL that was not seen, which made `FetchedOncePerSeeding` weaker than
meant; `Unseen` now counts only what it removes.

`Seeded` and `Without` are recursive functions rather than folds, since the proofs unfold them
one element at a time. "none" is not a URL (`ConstantsAssumption`): it marks the worker that
holds no item.

### SegmentedIndexProofs

`IInv` says, phase by phase of a flush, a merge and a compaction, what the files, the manifest,
the active segments and the buffer have to do with each other: before its manifest is replaced a
new segment is a file nobody names, afterwards the merged ones are, and in between a crash
leaves one or the other. `FilesFollowManifest` is a reading of it.

`NewestVersionWins` adds `MergesAll` (a merge takes all segments) and that the segments, oldest
first, hold versions in order. `ReadersAgree` adds `MemoryOK`: the active segments and those of
the manifest, though different lists after a merge, give the same newest version and the same
postings of each document but the unread ones. The refinement is proved step by step from the
same invariant: replacing the manifest of a flush is `Save`, or `FailedSave` when the segment is
not read back; another failure drops the buffer (`FailedSave` of nothing) or is a `Failure`, a
crash is `Revert`, and every step of a merge stutters. The proof of it follows three versions of
each document: what readers see, what they have of what is saved (`Held`), and what is on disk.

`~PartialMerges`: the index merges in compact only (`segmented-index.ts:359`); others that call
`mergeSegments` on some of the segments are a benchmark and tests, and with such merges older
versions can come back (section 3). `~MayClear`: clear empties memory but not the files, so
memory and a reload disagree until the next flush, by design. `SavedDocumentsStay` needs
neither.

### IndexBuilderProofs

`IInv` adds three parts to TypeOK and AtMostOneActive. `NoneActiveBetween`: between the two
updates of an activation nothing is active. Without it the second update, which makes the new
record active without looking at the others, could make two records active; with it, the order
of the two updates is the argument. `BuildsBounded`: a build about to create its record has room
for it (this only concerns the bound `MaxBuilds`). `StoredOnly`: every document an index holds,
in memory, on disk or in a build, is one that storage has; TypeOK is not inductive without it,
as marking another would give it a status that no stored document has.

`DiskInv` is about the generations on disk. The file follows memory until a write fails, and a
restart finds a record of every generation there is (`RecordsOK`, `DirsOK`). What is ready is
active, hence a cleanup retains the active generation and nothing else (`PruneOK`): this is the
divergence about maxRetained, and here it is the argument for the bound. `CountOK` counts the
directories with the active generation, whether on disk or not, against one, one more while a
build has written its directory, and one for each crash and error, each of which leaves one
behind at most.

`KeepInv` is about the generation activated last. While no pair of updates was cut, only a build
that has yet to give its record a path has one with the root directory (`RootsKept`), the file
and memory name the same active generation (`FileAgrees`), and between activations it is the one
activated last (`ServedFound`). A cleanup retains what is active, hence `ServedOnDisk`. The two
conditions on `torn` are exactly what the code needs and does not ensure: each has a trace that
breaks the property without it.

`ServedInv` is about what is served, while nothing overlaps or fails. Without a crash every
record gets its path and the cached record is the active one between builds (`Cached`); the
active generation holds what is marked as indexed, except for the document of the operation
under way (`Between`); and a build holds it from its read of the documents on (`Within`), so
that its marks are right when it is activated. `Matches` relates memory to disk also across
crashes.

### RequestsProofs

The components share no state, so the invariant `RequestsInv` is one part for each, under the
condition that it is the one that runs, and a step disturbs only its own part
(`RequestsInvariance`).

- `ServerInv`: no request is open unless the server listens, so a server that closes has nothing
  left to cut or to count; and one call of stop at most has come to its closing.
- `ProviderInv`: the attempts made beside an open circuit, with those the calls under way may
  still send, are retries of other searches, of which each has a fixed number. Hence the storm
  of retries is bounded though a retry does not ask the circuit.
- `WebInv`: of all searches of a page only the newest was never aborted, and only one that was
  not aborted has the panel; so results of another mode are never shown, whatever comes late.
- `FetchInv`: each attempt of a fetch pays for one chain of redirects.
- `PolicyInv`: a policy that permits a page is as old as that permission, so that a permission
  ends with its lifetime; callers that wait share the one fetch of their origin.
- `MapInv`: the sitemaps fetched are the sitemaps visited, in number as well.
- `McpInv`: an entry of the table is the request's own as long as no other request has had its
  id; that is why `OwnIdsCanBeCancelled` has its condition.
- `PoolInv`: each request a pool sent can be attributed to a worker such that every worker keeps
  the delay among its own (the invariant says that there is a function from requests to
  workers). The record they share tells nothing of the kind, as workers overwrite it; of a
  single worker it is the end of what was sent, up to a window (`WindowKeptAlone`).
- `RulesInv`: the agents of a group are those of the user-agent lines since the last group was
  closed by a rule, also while lines are still to come; and the choice of a rule, which walks
  the list and keeps the best so far, has after each prefix of it the longest match of that
  prefix.
- `CacheInv`: the order of a cache's list agrees with the order in which keys were used, except
  for keys rewritten in place, which one of the caches does not move to the end.

### StoresProofs

`StoresInv` is one part for each component in the same way.

- `StorageInv`: each file has the content of its version (`VersionOf`: during a job, that of the
  file's side of where the job is), and each snapshot that of the version it was taken at,
  unless storage was open to others or somebody meddled (`Tidy`); what a failed migration
  restores from is the snapshot it took (`CopiesAreRight`). A death, a failure without a backup,
  a restore that threw or a record that was not written each let a version be applied once more,
  and are counted together (`Lost`).
- `RepoInv`: a record has the same place in memory and in the file, and the URL index names the
  latest record of each URL.
- `LimiterInv` (`KeyFits`): of what a client was granted up to each tick, the bucket in the file
  counts what came since its start, and of a stretch of a window's length that begins earlier
  the part before that start holds no more than one limit. A burst over a border is the sum of
  the two, hence the factor.
- `FeedbackInv`: no more votes stand behind a vote in the store than came after it, so that one
  that the capacity removed had that many newer ones.
- `OfflineInv`: the cache of the active worker is the first one: activation deletes what was
  before it, and what late puts of older workers open comes after it.
- `LauncherInv`: a visit is open only while the storage is.
- `IndexInv`: the dictionary is the inverse of the documents in memory, and in the file unless
  it was damaged, also when the process died while it saved.
- `LinksInv`: an edge joins two known pages, each adjacency map has what the edges have and
  nothing more, and degrees are the sizes of neighbourhoods (`LinkGraphs`), also halfway through
  the links of a document. A snapshot repeats its edges into an empty graph, and after each of
  them holds the edges repeated so far (`Copies`); as the whole graph had room for every edge,
  so has the part. Redirects do not run in circles because the pages have a rank that falls
  along each of them: a document redirects its address to a page that is itself redirected
  nowhere, so ranks rise by one at most, and stay below the number of documents, which is what
  resolution needs to reach the end of a chain.
- `LensInv`: a draft from here names a pattern in one rule only, whatever was added, replaced,
  removed and restored, since an edit takes the pattern out of the other lists before it puts it
  into its own. So the rule accepted last is the only one of its pattern, and with the others
  silent about a host the resolver, which looks for the most specific rule, can find no other.

Lists that are filtered or walked (`Chosen`, `Kept`, `Without`, `InWindow`, `Resolved`,
`AddEdges`, `WithoutRule`, `EvaluatePathRules`) are recursive functions over their length, since
the prover knows nothing of SelectSeq and folds, and facts about them are proved in `ListLemmas`
by `InductionUpTo`.

### Only model-checked

- Liveness (`RunTerminates`, `EverythingEnds`, `SettlesInTheEnd`): beyond this prover, as
  `ENABLED` is.
- The properties of `MCStructures`. It reaches `QueryText`, whose RECURSIVE operators the prover
  does not take; and what the algorithms compute (folds, sorts, sums, all ways to split an
  expression) are statements about recursion over their whole input.

Induction over data cannot be had from the library's theorems here (they take an operator as a
parameter). `ListLemmas` replaces it where a proof needs it: `LeastElement` for numbers comes
from the well-foundedness of `<`, and `InductionUpTo` and `RecursionUpTo` are statements about a
set or a function that follow from it by looking at the least counterexample. This is enough for
lists that are walked element by element (seeds, queues, segments).

## 5. Not modelled

Checkpoints and the retry budget of the orchestrator (nothing reads them back, they gate
nothing), two index directories at once (`targetDir`), parallel builds (one build's cleanup
removes another's directory, `index-builder.ts:556`), and the components with status
`not_modelled` in `PROJECT.json`: URL, HTML and document processing (regular expressions over
text), relevance scoring (floating point; `RankedResults` begins where scores are given), the
classification of trackers and safe search (tables and patterns over text), the provider
clients, the CLI, evaluation and shared services (formatting, I/O, configuration). Of the
modelled components the notes in `PROJECT.json` name what is left out: of the API the other
handlers and the OpenAPI text, of the page suggestions and rendering, of MCP the contents of the
read-only tools. A large part of the repository's lines are of this kind: texts, tables of seeds
and judged data, documents of the API as strings, and rendering.

## 6. Plan

Done: 1 `CrawlQueue`, `CrawlRun`; 2 `DurableIndex`, `SegmentedIndex`; 3 `IndexBuilder`; each
with proofs of its safety properties and, for 2, of the refinement; 4 storage, backups,
migrations; 5 providers; 6 rate limiters and the worker pool; 7 caches, robots, sitemaps,
fetcher, feedback, the server and its clients, lenses, and the algorithms; 8 proofs of the
safety properties of all components that keep state (`RequestsProofs`, `StoresProofs`).

Left: the algorithms of `MCStructures`, the decoder first, whose loop the model already steps
through byte by byte.
