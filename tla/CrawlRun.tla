------------------------------- MODULE CrawlRun -------------------------------
(***************************************************************************)
(* Crawl runs of the orchestrator                                          *)
(* (packages/crawler/src/orchestrator/crawl-orchestrator.ts).              *)
(*                                                                         *)
(* start() launches `Concurrency` copies of workerLoop over one frontier.  *)
(* The loops interleave at every await; code between two awaits is one     *)
(* action.  The frontier writes queue.json and then seen.json in each call *)
(* (module CrawlQueue): queueFile and seenFile are what a crash leaves, and *)
(* differ from memory after a failed write or a death between the two.     *)
(* After close() the storage throws: upsertUrlStatus swallows that, the    *)
(* other calls end their worker.                                           *)
(* When a worker throws, start() returns while the other workers go on, so *)
(* a second run may overlap the leftovers of the first: workers are        *)
(* indexed by run.                                                         *)
(***************************************************************************)
EXTENDS Integers, Sequences, FiniteSets, SequencesExt

CONSTANTS
  Url,              \* normalized URLs
  Seeds,            \* options.seeds: a sequence of URLs
  Links,            \* parser: the outbound URLs of each page, a sequence
  Blocked,          \* URLs robots.txt disallows
  Domain,           \* hostname of each URL
  Delay,            \* effective politeness delay, in clock ticks
  MaxPages,         \* options.maxPages
  MaxDepths,        \* the values of options.maxDepth callers use
  Concurrency,      \* min(options.maxConcurrency, 10)
  MaxQueueSize,
  MaxRuns,          \* bound: calls of start
  MaxCrashes,       \* bound: crashes of the process
  MaxCloses,        \* bound: calls of close
  MaxStorageErrors, \* bound: calls of storage or queue whose write fails
  MaxTime,          \* bound: clock ticks
  Recrawl           \* the values of options.allowRecrawl callers use

ASSUME ConstantsAssumption ==
  /\ Seeds \in Seq(Url)
  /\ Links \in [Url -> Seq(Url)]
  /\ Blocked \subseteq Url
  /\ DOMAIN Domain = Url
  /\ Delay \in Nat /\ MaxPages \in Nat /\ MaxDepths \subseteq Nat
  /\ Concurrency \in 1..10
  /\ MaxQueueSize \in Nat /\ MaxRuns \in Nat /\ MaxCrashes \in Nat /\ MaxCloses \in Nat
  /\ MaxStorageErrors \in Nat /\ MaxTime \in Nat
  /\ Recrawl \subseteq BOOLEAN
  /\ "none" \notin Url        \* NoItem is not an item

Runs   == 1..MaxRuns
Worker == Runs \X (1..Concurrency)
RunOf(w) == w[1]

VARIABLES
  queue, seen,     \* the frontier: pending items in order, and every URL ever queued
  queueFile, seenFile,  \* queue.json and seen.json
  urlStatus,       \* storage.urls: crawlStatus of each URL
  stored,          \* storage.documents: the URLs with a document
  initialized, isRunning, shouldStop,
  run,             \* number of start() calls so far
  aborted,         \* options.signal.aborted of each run
  maxDepth,        \* options.maxDepth of each run
  reserved,        \* reservedPages of each run
  pagesFetched,    \* this.stats.pagesFetched, shared by overlapping runs
  summary,         \* what start() returned
  limitHit,        \* a worker of the run set summaryStatus to limit_reached
  worker,          \* the state of every workerLoop
  lastRequest,     \* domainLastRequestMs
  now,
  \* history
  fetchedBy,       \* pages fetched by the workers of each run
  fetches,         \* how often each URL was fetched
  unsees,          \* how often each URL was unseen for a re-crawl
  requestAt,       \* when the (latest) request of this process for each URL was let through
  skipped,         \* URLs dequeued below maxDepth
  missed,          \* how often a final status could not be written
  crashes, storageErrors, closes

frontier == <<queue, seen, queueFile, seenFile>>
storage  == <<urlStatus, stored>>
control  == <<initialized, isRunning, shouldStop, run, aborted, maxDepth, summary>>
clock    == <<lastRequest, now, requestAt>>
faults   == <<crashes, storageErrors, closes, missed>>
counts   == <<reserved, pagesFetched, fetchedBy, fetches>>
vars == <<frontier, storage, control, counts, limitHit, worker, clock, unsees, skipped, faults>>

Never == -1
NoItem == [url |-> "none", depth |-> 0]
Item == [url : Url, depth : Nat]
Off == [pc |-> "off", item |-> NoItem, links |-> <<>>, wake |-> 0]
Statuses == {"none", "pending", "in_progress", "success", "failed", "disallowed"}
Final == {"success", "failed", "disallowed"}
Pcs == {"off", "top", "dequeued", "robots", "sleeping", "mark", "lookup", "fetch", "failed",
        "store", "record", "succeed", "links", "finish", "done", "threw"}

TypeOK ==
  /\ queue \in Seq(Item) /\ seen \subseteq Url
  /\ queueFile \in Seq(Item) /\ seenFile \subseteq Url
  /\ urlStatus \in [Url -> Statuses] /\ stored \subseteq Url
  /\ initialized \in BOOLEAN /\ isRunning \in BOOLEAN /\ shouldStop \in BOOLEAN
  /\ run \in 0..MaxRuns /\ aborted \in [Runs -> BOOLEAN]
  /\ maxDepth \in [Runs -> Nat] /\ reserved \in [Runs -> Nat]
  /\ pagesFetched \in Nat /\ limitHit \in [Runs -> BOOLEAN]
  /\ summary \in [Runs -> {"none", "running", "completed", "stopped",
                           "limit_reached", "failed", "rejected", "crashed"}]
  /\ worker \in [Worker -> [pc : Pcs, item : Item \cup {NoItem},
                            links : Seq(Url), wake : Nat]]
  /\ now \in Nat

Init ==
  /\ queue = <<>> /\ seen = {} /\ queueFile = <<>> /\ seenFile = {}
  /\ urlStatus = [u \in Url |-> "none"] /\ stored = {}
  /\ initialized = FALSE /\ isRunning = FALSE /\ shouldStop = FALSE
  /\ run = 0
  /\ aborted = [r \in Runs |-> FALSE] /\ maxDepth = [r \in Runs |-> 0]
  /\ reserved = [r \in Runs |-> 0] /\ pagesFetched = 0
  /\ summary = [r \in Runs |-> "none"] /\ limitHit = [r \in Runs |-> FALSE]
  /\ worker = [w \in Worker |-> Off]
  /\ lastRequest = [d \in {Domain[u] : u \in Url} |-> Never]
  /\ now = 0
  /\ fetchedBy = [r \in Runs |-> 0] /\ fetches = [u \in Url |-> 0]
  /\ unsees = [u \in Url |-> 0] /\ requestAt = [u \in Url |-> Never]
  /\ skipped = {} /\ missed = 0
  /\ crashes = 0 /\ storageErrors = 0 /\ closes = 0

(***************************************************************************)
(* The frontier, as the orchestrator uses it.  An enqueue also registers   *)
(* a URL record as PENDING unless there is one.                            *)
(***************************************************************************)

Accepts(f, u) == u \notin f.seen /\ Len(f.queue) < MaxQueueSize

Offered(f, u, depth) ==
  LET items == Append(f.queue, [url |-> u, depth |-> depth])
      urls  == f.seen \cup {u}
  IN  IF Accepts(f, u)
      THEN [f EXCEPT !.queue = items, !.queueFile = items, !.seen = urls, !.seenFile = urls,
                     !.status[u] = IF @ = "none" THEN "pending" ELSE @]
      ELSE f

Current == [queue |-> queue, seen |-> seen, queueFile |-> queueFile, seenFile |-> seenFile,
            status |-> urlStatus, unsees |-> unsees]
Becomes(f) ==
  /\ queue' = f.queue /\ seen' = f.seen /\ queueFile' = f.queueFile /\ seenFile' = f.seenFile
  /\ urlStatus' = f.status /\ unsees' = f.unsees

Unseen(f, u) ==
  IF u \in f.seen THEN [f EXCEPT !.seen = @ \ {u}, !.seenFile = f.seen \ {u}, !.unsees[u] = @ + 1]
                  ELSE f

\* queue.json or seen.json cannot be written: memory has the item, seen.json does not
HalfOffered(f, u, depth) ==
  LET g == Offered(f, u, depth)
  IN  /\ queue' = g.queue /\ seen' = g.seen
      /\ queueFile' \in {f.queueFile, g.queueFile} /\ seenFile' = f.seenFile
      /\ urlStatus' = f.status /\ unsees' = f.unsees

\* addSeeds: unsee each seed first when a re-crawl is allowed, then enqueue it
Ready(f, u, recrawl) == IF recrawl THEN Unseen(f, u) ELSE f
Seeded(seeds, recrawl) ==
  LET after[k \in 0..Len(seeds)] ==
        IF k = 0 THEN Current ELSE Offered(Ready(after[k - 1], seeds[k], recrawl), seeds[k], 0)
  IN  after[Len(seeds)]
\* what the frontier is when the n-th seed is about to be enqueued
BeforeSeed(n, recrawl) == Ready(Seeded(SubSeq(Seeds, 1, n - 1), recrawl), Seeds[n], recrawl)

(***************************************************************************)
(* The life of the orchestrator.                                           *)
(***************************************************************************)

Initialize ==
  /\ ~initialized
  /\ initialized' = TRUE
  /\ UNCHANGED <<frontier, storage, isRunning, shouldStop, run, aborted, maxDepth,
                 summary, counts, limitHit, worker, clock, unsees, skipped, faults>>

Start ==
  /\ initialized /\ ~isRunning
  /\ run < MaxRuns
  /\ \E depth \in MaxDepths, recrawl \in Recrawl :
       /\ maxDepth' = [maxDepth EXCEPT ![run + 1] = depth]
       /\ Becomes(Seeded(Seeds, recrawl))
  /\ isRunning' = TRUE /\ shouldStop' = FALSE
  /\ run' = run + 1
  /\ pagesFetched' = 0
  /\ summary' = [summary EXCEPT ![run + 1] = "running"]
  /\ worker' = [w \in Worker |-> IF RunOf(w) = run + 1 THEN [Off EXCEPT !.pc = "top"]
                                                       ELSE worker[w]]
  /\ UNCHANGED <<stored, initialized, aborted, reserved, fetchedBy, fetches,
                 limitHit, clock, skipped, faults>>

\* Enqueuing the n-th seed throws: start() rejects outside its try block, and
\* nothing resets isRunning
StartThrows ==
  /\ initialized /\ ~isRunning
  /\ run < MaxRuns
  /\ storageErrors < MaxStorageErrors
  /\ storageErrors' = storageErrors + 1
  /\ \E n \in DOMAIN Seeds, recrawl \in Recrawl :
       /\ Accepts(BeforeSeed(n, recrawl), Seeds[n])
       /\ HalfOffered(BeforeSeed(n, recrawl), Seeds[n], 0)
  /\ isRunning' = TRUE /\ shouldStop' = FALSE
  /\ run' = run + 1
  /\ pagesFetched' = 0
  /\ summary' = [summary EXCEPT ![run + 1] = "rejected"]
  /\ UNCHANGED <<stored, initialized, aborted, maxDepth, reserved, fetchedBy, fetches,
                 limitHit, worker, clock, skipped, missed, crashes, closes>>

Stop ==
  /\ isRunning /\ ~shouldStop
  /\ shouldStop' = TRUE
  /\ UNCHANGED <<frontier, storage, initialized, isRunning, run, aborted, maxDepth,
                 summary, counts, limitHit, worker, clock, unsees, skipped, faults>>

Abort ==
  /\ isRunning /\ ~aborted[run]
  /\ aborted' = [aborted EXCEPT ![run] = TRUE]
  /\ UNCHANGED <<frontier, storage, initialized, isRunning, shouldStop, run, maxDepth,
                 summary, counts, limitHit, worker, clock, unsees, skipped, faults>>

\* close: stop, then write and close the queue, then the storage, without waiting for
\* the workers.  (If the queue cannot be written it is a Stop: nothing gets closed.)
Close ==
  /\ initialized
  /\ closes < MaxCloses
  /\ closes' = closes + 1
  /\ shouldStop' = (shouldStop \/ isRunning)
  /\ initialized' = FALSE
  /\ queueFile' = queue /\ seenFile' = seen
  /\ UNCHANGED <<queue, seen, storage, isRunning, run, aborted, maxDepth, summary, counts,
                 limitHit, worker, clock, unsees, skipped, missed, crashes, storageErrors>>

\* The process dies; its next life finds these files.
Dies(items, urls) ==
  /\ crashes < MaxCrashes
  /\ crashes' = crashes + 1
  /\ queue' = items /\ queueFile' = items
  /\ seen' = urls /\ seenFile' = urls
  /\ initialized' = FALSE /\ isRunning' = FALSE /\ shouldStop' = FALSE
  /\ worker' = [w \in Worker |-> Off]
  /\ lastRequest' = [d \in DOMAIN lastRequest |-> Never]
  /\ requestAt' = [u \in Url |-> Never]
  /\ UNCHANGED <<stored, aborted, maxDepth, counts, limitHit, now, skipped, missed,
                 storageErrors, closes>>

Crashed == [r \in Runs |-> IF summary[r] = "running" THEN "crashed" ELSE summary[r]]

Crash ==
  /\ Dies(queueFile, seenFile)
  /\ summary' = Crashed
  /\ UNCHANGED <<urlStatus, run, unsees>>

\* a worker enqueues a link and the process dies between the two files
CrashInFollow ==
  /\ initialized
  /\ \E w \in Worker :
       /\ worker[w].pc = "links" /\ worker[w].links # <<>>
       /\ Accepts(Current, Head(worker[w].links))
       /\ Dies(Offered(Current, Head(worker[w].links), worker[w].item.depth + 1).queue, seenFile)
  /\ summary' = Crashed
  /\ UNCHANGED <<urlStatus, run, unsees>>

\* the process dies while start() seeds the frontier: before the n-th seed is on
\* file, or between its two files
CrashInStart ==
  /\ initialized /\ ~isRunning
  /\ run < MaxRuns
  /\ run' = run + 1
  /\ \E n \in DOMAIN Seeds, recrawl \in Recrawl :
       LET f == BeforeSeed(n, recrawl)
       IN  /\ \/ Dies(f.queueFile, f.seenFile)
              \/ Accepts(f, Seeds[n]) /\ Dies(Offered(f, Seeds[n], 0).queue, f.seenFile)
           /\ urlStatus' = f.status /\ unsees' = f.unsees
  /\ summary' = [Crashed EXCEPT ![run + 1] = "crashed"]

Tick ==
  /\ now < MaxTime
  /\ now' = now + 1
  /\ UNCHANGED <<frontier, storage, control, counts, limitHit, worker, lastRequest,
                 requestAt, unsees, skipped, faults>>

(***************************************************************************)
(* workerLoop.  Each action below is one stretch of it between two awaits. *)
(***************************************************************************)

At(w, pc)    == worker[w].pc = pc
Goto(w, pc)  == worker' = [worker EXCEPT ![w].pc = pc]
Leave(w, pc) == worker' = [worker EXCEPT ![w] = [Off EXCEPT !.pc = pc]]
UrlAt(w)     == worker[w].item.url

\* upsertUrlStatus.  It catches whatever storage throws: the error of a closed
\* storage, and that of a write, whose status memory keeps and a later write may save.
Marked(u, status) == [urlStatus EXCEPT ![u] = status]
MarkSwallowed(u, status) ==
  /\ missed' = IF status \in Final THEN missed + 1 ELSE missed
  /\ \/ ~initialized /\ UNCHANGED <<urlStatus, storageErrors>>
     \/ /\ initialized
        /\ storageErrors < MaxStorageErrors
        /\ storageErrors' = storageErrors + 1
        /\ urlStatus' \in {urlStatus, Marked(u, status)}
Mark(u, status) ==
  \/ initialized /\ urlStatus' = Marked(u, status) /\ UNCHANGED <<storageErrors, missed>>
  \/ MarkSwallowed(u, status)

Stopping(w)     == shouldStop \/ aborted[RunOf(w)]
LimitReached(w) == reserved[RunOf(w)] >= MaxPages \/ pagesFetched >= MaxPages
ReportLimit(w)  == limitHit' = [limitHit EXCEPT ![RunOf(w)] = TRUE]

LoopStops(w) ==
  /\ At(w, "top") /\ Stopping(w)
  /\ Leave(w, "done")
  /\ UNCHANGED <<frontier, storage, control, counts, limitHit, clock, unsees, skipped, faults>>

LoopAtLimit(w) ==
  /\ At(w, "top") /\ ~Stopping(w) /\ LimitReached(w)
  /\ ReportLimit(w)
  /\ Leave(w, "done")
  /\ UNCHANGED <<frontier, storage, control, counts, clock, unsees, skipped, faults>>

MayDequeue(w) == At(w, "top") /\ ~Stopping(w) /\ ~LimitReached(w)

\* mutant: a worker that finds the queue empty waits for the others to leave
LoopWaitsForOthers(w) ==
  /\ MayDequeue(w) /\ initialized /\ queue = <<>>
  /\ \A v \in Worker \ {w} : worker[v].pc \in {"off", "done", "threw"}
  /\ Leave(w, "done")
  /\ UNCHANGED <<frontier, storage, control, counts, limitHit, clock, unsees, skipped, faults>>

LoopFindsNothing(w) ==
  /\ MayDequeue(w) /\ initialized /\ queue = <<>>
  /\ Leave(w, "done")
  /\ UNCHANGED <<frontier, storage, control, counts, limitHit, clock, unsees, skipped, faults>>

LoopDequeues(w) ==
  /\ MayDequeue(w) /\ initialized /\ queue # <<>>
  /\ queue' = Tail(queue) /\ queueFile' = Tail(queue)
  /\ worker' = [worker EXCEPT ![w] = [Off EXCEPT !.pc = "dequeued", !.item = Head(queue)]]
  /\ UNCHANGED <<seen, seenFile, storage, control, counts, limitHit, clock, unsees, skipped, faults>>

\* queue.json could not be written: it keeps the item, which is already off the list
DequeueFails(w) ==
  /\ MayDequeue(w) /\ initialized /\ queue # <<>>
  /\ storageErrors < MaxStorageErrors
  /\ storageErrors' = storageErrors + 1
  /\ queue' = Tail(queue)
  /\ Leave(w, "threw")
  /\ UNCHANGED <<seen, queueFile, seenFile, storage, control, counts, limitHit, clock,
                 unsees, skipped, missed, crashes, closes>>

\* the queue was closed: dequeue (here) or size (after an item) throws
LoopThrows(w) ==
  /\ MayDequeue(w) \/ At(w, "finish")
  /\ ~initialized
  /\ Leave(w, "threw")
  /\ UNCHANGED <<frontier, storage, control, counts, limitHit, clock, unsees, skipped, faults>>

\* after the await of dequeue the limit is tested again; the item is dropped
DropAtLimit(w) ==
  /\ At(w, "dequeued") /\ LimitReached(w)
  /\ ReportLimit(w)
  /\ Leave(w, "done")
  /\ UNCHANGED <<frontier, storage, control, counts, clock, unsees, skipped, faults>>

TooDeep(w) == worker[w].item.depth > maxDepth[RunOf(w)]

SkipTooDeep(w) ==
  /\ At(w, "dequeued") /\ ~LimitReached(w) /\ TooDeep(w)
  /\ skipped' = skipped \cup {UrlAt(w)}
  /\ Leave(w, "top")
  /\ UNCHANGED <<frontier, storage, control, counts, limitHit, clock, unsees, faults>>

Reserve(w) ==
  /\ At(w, "dequeued") /\ ~LimitReached(w) /\ ~TooDeep(w)
  /\ reserved' = [reserved EXCEPT ![RunOf(w)] = @ + 1]
  /\ Goto(w, "robots")
  /\ UNCHANGED <<frontier, storage, control, pagesFetched, fetchedBy, fetches,
                 limitHit, clock, unsees, skipped, faults>>

(***************************************************************************)
(* processItem: robots, politeness, fetch, storage, links.                 *)
(***************************************************************************)

RobotsDisallows(w) ==
  /\ At(w, "robots") /\ UrlAt(w) \in Blocked
  /\ Mark(UrlAt(w), "disallowed")
  /\ Goto(w, "finish")
  /\ UNCHANGED <<frontier, stored, control, counts, limitHit, clock, unsees, skipped,
                 crashes, closes>>

LastRequest(w) == lastRequest[Domain[UrlAt(w)]]

\* mutant: the request is not noted for its domain
LetThroughUnnoted(w) ==
  /\ requestAt' = IF Delay > 0 THEN [requestAt EXCEPT ![UrlAt(w)] = now] ELSE requestAt
  /\ Goto(w, "mark")
  /\ UNCHANGED lastRequest

LetThrough(w) ==
  /\ lastRequest' = IF Delay > 0 THEN [lastRequest EXCEPT ![Domain[UrlAt(w)]] = now]
                                 ELSE lastRequest
  /\ requestAt' = IF Delay > 0 THEN [requestAt EXCEPT ![UrlAt(w)] = now] ELSE requestAt
  /\ Goto(w, "mark")

\* applyPoliteness without and with a wait; the wait is computed before it
PolitePasses(w) ==
  /\ At(w, "robots") /\ UrlAt(w) \notin Blocked
  /\ Delay = 0 \/ LastRequest(w) = Never \/ now - LastRequest(w) >= Delay
  /\ LetThrough(w)
  /\ UNCHANGED <<frontier, storage, control, counts, limitHit, now, unsees, skipped, faults>>

PoliteSleeps(w) ==
  /\ At(w, "robots") /\ UrlAt(w) \notin Blocked
  /\ Delay > 0 /\ LastRequest(w) # Never /\ now - LastRequest(w) < Delay
  /\ worker' = [worker EXCEPT ![w].pc = "sleeping", ![w].wake = LastRequest(w) + Delay]
  /\ UNCHANGED <<frontier, storage, control, counts, limitHit, clock, unsees, skipped, faults>>

PoliteWakes(w) ==
  /\ At(w, "sleeping") /\ now >= worker[w].wake
  /\ LetThrough(w)
  /\ UNCHANGED <<frontier, storage, control, counts, limitHit, now, unsees, skipped, faults>>

MarkInProgress(w) ==
  /\ At(w, "mark")
  /\ Mark(UrlAt(w), "in_progress")
  /\ Goto(w, "lookup")
  /\ UNCHANGED <<frontier, stored, control, counts, limitHit, clock, unsees, skipped,
                 crashes, closes>>

\* documents.findByUrlHash, and then the request
FindDocument(w) ==
  /\ At(w, "lookup") /\ initialized
  /\ Goto(w, "fetch")
  /\ UNCHANGED <<frontier, storage, control, counts, limitHit, clock, unsees, skipped, faults>>

CountFetch(w) == fetches' = [fetches EXCEPT ![UrlAt(w)] = @ + 1]
CountPage(w) ==
  /\ CountFetch(w)
  /\ pagesFetched' = pagesFetched + 1
  /\ fetchedBy' = [fetchedBy EXCEPT ![RunOf(w)] = @ + 1]

\* mutant: a failed fetch leaves the status as it was
FetchFailsUnmarked(w) ==
  /\ At(w, "fetch")
  /\ CountFetch(w)
  /\ Goto(w, "failed")
  /\ UNCHANGED <<frontier, storage, control, reserved, pagesFetched, fetchedBy, limitHit,
                 clock, unsees, skipped, faults>>

FetchFails(w) ==
  /\ At(w, "fetch")
  /\ CountFetch(w)
  /\ Mark(UrlAt(w), "failed")
  /\ Goto(w, "failed")
  /\ UNCHANGED <<frontier, stored, control, reserved, pagesFetched, fetchedBy, limitHit,
                 clock, unsees, skipped, crashes, closes>>

\* mutant: the worker leaves its loop
RecordFailureLeaves(w) ==
  /\ At(w, "failed") /\ initialized
  /\ reserved' = [reserved EXCEPT ![RunOf(w)] = @ - 1]
  /\ Leave(w, "done")
  /\ UNCHANGED <<frontier, storage, control, pagesFetched, fetchedBy, fetches, limitHit,
                 clock, unsees, skipped, faults>>

\* crawls.create for a failed fetch, and the reservation is given back
RecordFailure(w) ==
  /\ At(w, "failed") /\ initialized
  /\ reserved' = [reserved EXCEPT ![RunOf(w)] = @ - 1]
  /\ Goto(w, "finish")
  /\ UNCHANGED <<frontier, storage, control, pagesFetched, fetchedBy, fetches, limitHit,
                 clock, unsees, skipped, faults>>

\* 304 for a page stored before: no document to write, no links to follow
FetchNotModified(w) ==
  /\ At(w, "fetch") /\ UrlAt(w) \in stored
  /\ CountPage(w)
  /\ Goto(w, "record")
  /\ UNCHANGED <<frontier, storage, control, reserved, limitHit, clock, unsees, skipped, faults>>

FetchSucceeds(w) ==
  /\ At(w, "fetch")
  /\ CountPage(w)
  /\ worker' = [worker EXCEPT ![w].pc = "store",
                  ![w].links = IF worker[w].item.depth < maxDepth[RunOf(w)]
                               THEN Links[UrlAt(w)] ELSE <<>>]
  /\ UNCHANGED <<frontier, storage, control, reserved, limitHit, clock, unsees, skipped, faults>>

StoreDocument(w) ==
  /\ At(w, "store") /\ initialized
  /\ stored' = stored \cup {UrlAt(w)}
  /\ Goto(w, "record")
  /\ UNCHANGED <<frontier, urlStatus, control, counts, limitHit, clock, unsees, skipped, faults>>

\* documents.create or update threw: logged, and the page goes on as if stored.  After
\* a failed write the document is in memory, and a later write may save it.
StoreDocumentFails(w) ==
  /\ At(w, "store")
  /\ \/ ~initialized /\ UNCHANGED <<stored, storageErrors>>
     \/ /\ initialized
        /\ storageErrors < MaxStorageErrors
        /\ storageErrors' = storageErrors + 1
        /\ stored' \in {stored, stored \cup {UrlAt(w)}}
  /\ Goto(w, "record")
  /\ UNCHANGED <<frontier, urlStatus, control, counts, limitHit, clock, unsees, skipped,
                 missed, crashes, closes>>

\* crawls.create: its error is not caught
RecordCrawl(w) ==
  /\ At(w, "record") /\ initialized
  /\ Goto(w, "succeed")
  /\ UNCHANGED <<frontier, storage, control, counts, limitHit, clock, unsees, skipped, faults>>

RecordThrows(w) ==
  /\ worker[w].pc \in {"record", "failed"} /\ initialized
  /\ storageErrors < MaxStorageErrors
  /\ storageErrors' = storageErrors + 1
  /\ Leave(w, "threw")
  /\ UNCHANGED <<frontier, storage, control, counts, limitHit, clock, unsees, skipped,
                 missed, crashes, closes>>

\* findByUrlHash and crawls.create throw when the storage is closed
StorageThrows(w) ==
  /\ worker[w].pc \in {"lookup", "record", "failed"} /\ ~initialized
  /\ Leave(w, "threw")
  /\ UNCHANGED <<frontier, storage, control, counts, limitHit, clock, unsees, skipped, faults>>

MarkSuccess(w) ==
  /\ At(w, "succeed")
  /\ Mark(UrlAt(w), "success")
  /\ Goto(w, "links")
  /\ UNCHANGED <<frontier, stored, control, counts, limitHit, clock, unsees, skipped,
                 crashes, closes>>

FollowLink(w) ==
  /\ At(w, "links") /\ worker[w].links # <<>> /\ initialized
  /\ Becomes(Offered(Current, Head(worker[w].links), worker[w].item.depth + 1))
  /\ worker' = [worker EXCEPT ![w].links = Tail(@)]
  /\ UNCHANGED <<stored, control, counts, limitHit, clock, skipped, faults>>

\* one of the queue's files could not be written; the link is already on the list
FollowFails(w) ==
  /\ At(w, "links") /\ worker[w].links # <<>> /\ initialized
  /\ Accepts(Current, Head(worker[w].links))
  /\ storageErrors < MaxStorageErrors
  /\ storageErrors' = storageErrors + 1
  /\ HalfOffered(Current, Head(worker[w].links), worker[w].item.depth + 1)
  /\ Leave(w, "threw")
  /\ UNCHANGED <<stored, control, counts, limitHit, clock, skipped, missed, crashes, closes>>

FollowThrows(w) ==
  /\ At(w, "links") /\ worker[w].links # <<>> /\ ~initialized
  /\ Leave(w, "threw")
  /\ UNCHANGED <<frontier, storage, control, counts, limitHit, clock, unsees, skipped, faults>>

LinksDone(w) ==
  /\ At(w, "links") /\ worker[w].links = <<>>
  /\ Goto(w, "finish")
  /\ UNCHANGED <<frontier, storage, control, counts, limitHit, clock, unsees, skipped, faults>>

\* the finally block around processItem, and round the loop
FinishItem(w) ==
  /\ At(w, "finish") /\ initialized
  /\ Leave(w, "top")
  /\ UNCHANGED <<frontier, storage, control, counts, limitHit, clock, unsees, skipped, faults>>

WorkerStep(w) ==
  \/ LoopStops(w) \/ LoopAtLimit(w) \/ LoopFindsNothing(w) \/ LoopDequeues(w)
  \/ DequeueFails(w) \/ FollowFails(w)
  \/ LoopThrows(w) \/ DropAtLimit(w) \/ SkipTooDeep(w) \/ Reserve(w)
  \/ RobotsDisallows(w) \/ PolitePasses(w) \/ PoliteSleeps(w) \/ PoliteWakes(w)
  \/ MarkInProgress(w) \/ FindDocument(w) \/ FetchFails(w) \/ RecordFailure(w)
  \/ FetchNotModified(w) \/ FetchSucceeds(w) \/ StoreDocument(w) \/ StoreDocumentFails(w)
  \/ RecordCrawl(w) \/ RecordThrows(w) \/ StorageThrows(w) \/ MarkSuccess(w)
  \/ FollowLink(w) \/ FollowThrows(w) \/ LinksDone(w) \/ FinishItem(w)

\* The rest of start(): Promise.all settles when all workers are done, or as
\* soon as one throws; queue.size() in the finally block throws on a closed queue.
WorkersOf(r) == {w \in Worker : RunOf(w) = r}

\* mutant: the run is finished by its first worker
FinishRunAtFirst ==
  /\ isRunning
  /\ \E w \in WorkersOf(run) : worker[w].pc \in {"done", "threw"}
  /\ summary' = [summary EXCEPT ![run] = IF limitHit[run] THEN "limit_reached" ELSE "completed"]
  /\ isRunning' = FALSE
  /\ UNCHANGED <<frontier, storage, initialized, shouldStop, run, aborted, maxDepth,
                 counts, limitHit, worker, clock, unsees, skipped, faults>>

FinishRun ==
  /\ isRunning
  /\ LET threw == \E w \in WorkersOf(run) : At(w, "threw")
         done  == \A w \in WorkersOf(run) : At(w, "done")
     IN  /\ threw \/ done
         /\ summary' = [summary EXCEPT ![run] =
              CASE ~initialized      -> "rejected"
                [] initialized /\ threw -> "failed"
                [] initialized /\ ~threw /\ aborted[run] -> "stopped"
                [] initialized /\ ~threw /\ ~aborted[run] /\ limitHit[run] -> "limit_reached"
                [] OTHER -> "completed"]
  /\ isRunning' = FALSE
  /\ UNCHANGED <<frontier, storage, initialized, shouldStop, run, aborted, maxDepth,
                 counts, limitHit, worker, clock, unsees, skipped, faults>>

Next ==
  \/ Initialize \/ Start \/ StartThrows \/ Stop \/ Abort \/ Close \/ Tick
  \/ Crash \/ CrashInFollow \/ CrashInStart
  \/ \E w \in Worker : WorkerStep(w)
  \/ FinishRun

Spec == Init /\ [][Next]_vars

\* Timers fire and the event loop runs every ready continuation.  Nobody has to call
\* start, stop or close, and time advances.  A site need not answer: the fetcher clears
\* its timer before it reads the body, of a page as of a robots file.
AwaitsSite(w) == worker[w].pc \in {"robots", "fetch"}
Fairness ==
  /\ WF_vars(FinishRun) /\ WF_vars(Tick)
  /\ \A w \in Worker : WF_vars(WorkerStep(w) /\ ~AwaitsSite(w))

FairSpec == Spec /\ Fairness

(***************************************************************************)
(* Properties                                                              *)
(***************************************************************************)

\* No run fetches more pages than its limit, whatever its workers interleave.
PageLimit == \A r \in Runs : fetchedBy[r] <= MaxPages

\* A URL is fetched once, once more for each time a seed was unseen, and once more for
\* each crash: one between queue.json and seen.json leaves a URL queued and unseen.
FetchedOncePerSeeding == \A u \in Url : fetches[u] <= 1 + unsees[u] + crashes

\* No page beyond the depth limit of its run is ever requested.
DepthRespected ==
  \A w \in Worker : At(w, "fetch") => worker[w].item.depth <= maxDepth[RunOf(w)]

\* A URL that is blocked from being queued again although nobody crawled it, has it
\* pending or works on it was dropped.  Every worker of a run drops at most one by leaving
\* with it, and each final status that upsertUrlStatus could not write drops one: those
\* are no more than the failed writes and, for each close, the workers there were.  While
\* no crash, close or failed write disturbs the runs, one worker of each run drops none.
InHand == {UrlAt(w) : w \in {v \in Worker : worker[v].item # NoItem}}
Pending == {queue[i].url : i \in DOMAIN queue}
Dropped == {u \in seen : urlStatus[u] \notin Final} \ (Pending \cup InHand \cup skipped)
Undisturbed == closes = 0 /\ storageErrors = 0
DropsBounded ==
  /\ Cardinality(Dropped)
       <= IF Undisturbed /\ crashes = 0 THEN run * (Concurrency - 1)
                                        ELSE run * Concurrency + missed
  /\ missed <= storageErrors + closes * run * Concurrency

\* "Runs the crawl loop until limits are reached or queue is empty": a run that
\* nobody stopped ends with all its reservations used up or with nothing left,
\* although workers leave the loop while others still add links.
RunsToTheEnd ==
  [][\A r \in Runs :
       summary[r] = "running" /\ summary'[r] \in {"completed", "limit_reached"}
         /\ ~shouldStop /\ Undisturbed
         => queue = <<>> \/ reserved[r] >= MaxPages]_vars

\* start() returns normally only when every one of its workers has left.
ReturnsAfterItsWorkers ==
  \A r \in Runs : summary[r] \in {"completed", "stopped", "limit_reached"}
    => \A w \in WorkersOf(r) : worker[w].pc \in {"done", "off"}

\* The workers of one process together make no more requests to one domain within a
\* politeness delay than they are: each of them waits for its own last one.  (A
\* process that starts after a crash knows nothing of the requests before it; and the
\* workers that a failed run leaves behind come on top of those of the next run.)
Within(u, v) == Domain[u] = Domain[v] /\ requestAt[v] \in requestAt[u]..(requestAt[u] + Delay - 1)
BurstsBounded ==
  Undisturbed => \A u \in Url : requestAt[u] # Never =>
    Cardinality({v \in Url : Within(u, v)}) <= Concurrency

\* What the workers of a process request, and when: no page twice in one seeding, none
\* too deep, and no burst, though runs follow each other and overlap a crash.
FetchesInOrder == FetchedOncePerSeeding /\ DepthRespected /\ BurstsBounded

\* What a caller of start() may rely on when it returns and while it runs: well-formed
\* state, no page over the limit, and no worker left behind.
RunIsContained == TypeOK /\ PageLimit /\ ReturnsAfterItsWorkers

\* Requests to one domain are at least the politeness delay apart.
PolitenessKept ==
  \A u, v \in Url :
    u # v /\ Domain[u] = Domain[v] /\ requestAt[u] # Never /\ requestAt[v] # Never
      => requestAt[u] - requestAt[v] >= Delay \/ requestAt[v] - requestAt[u] >= Delay

\* A run ends: every start() settles, unless a site one of its workers asked for a page
\* or for its robots file leaves it without the end of an answer forever.
RunTerminates ==
  \A r \in Runs : (summary[r] = "running" ~> summary[r] # "running")
                   \/ \E w \in WorkersOf(r) : <>[]AwaitsSite(w)

\* "graceful shutdown/resume": after a run no URL is seen and yet neither
\* crawled nor pending for the next run.
NothingDroppedByARun == ~isRunning /\ crashes = 0 /\ Undisturbed => Dropped = {}
===============================================================================
