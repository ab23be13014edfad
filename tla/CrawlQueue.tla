------------------------------ MODULE CrawlQueue ------------------------------
(***************************************************************************)
(* The persistent FIFO frontier of the crawler                             *)
(* (packages/crawler/src/queue/persistent-queue.ts).                       *)
(*                                                                         *)
(* The queue keeps a list of pending URLs and a seen-set in memory, and    *)
(* each of them in a JSON file of its own.  A file is replaced atomically  *)
(* (write to .tmp, rename), but an operation that changes both writes the  *)
(* two files one after the other.  Handlers run to completion on the event *)
(* loop, so what can come between the two writes is a crash of the process *)
(* or an exception thrown by a failing write.                              *)
(***************************************************************************)
EXTENDS Integers, Sequences, FiniteSets, SequencesExt

CONSTANTS
  RawUrl,        \* the spellings of URLs callers pass to enqueue
  Url,           \* normalized URLs, standing for their hashes
  NoUrl,         \* what validateUrl makes of a URL it rejects; also "no URL"
  Canonical,     \* validateUrl: maps a spelling to its URL or to NoUrl
  MaxQueueSize,  \* capacity of the pending list
  MaxCrashes,    \* bound: crashes in a behaviour
  MaxWriteErrors,\* bound: failing writes in a behaviour
  ColdClose,     \* whether callers close a queue they have not initialized
  MaxUnsees      \* bound: unsee calls that remove a URL, for each URL

ASSUME ConstantsAssumption ==
  /\ NoUrl \notin Url
  /\ Canonical \in [RawUrl -> Url \cup {NoUrl}]
  /\ MaxQueueSize \in Nat
  /\ ColdClose \in BOOLEAN
  /\ MaxCrashes \in Nat
  /\ MaxWriteErrors \in Nat
  /\ MaxUnsees \in Nat

VARIABLES
  queue,         \* this.queue
  seen,          \* this.seen
  initialized,   \* this.initialized
  call,          \* the handler in progress and its next file write
  diskQueue,     \* queue.json
  diskSeen,      \* seen.json
  \* history
  delivered,     \* how often dequeue has returned each URL
  cleared,       \* URLs dropped from the pending list by clear
  unsees,        \* how often each URL was removed from the seen-set
  crashes,
  writeErrors

disk    == <<diskQueue, diskSeen>>
history == <<delivered, cleared, unsees, crashes, writeErrors>>
vars    == <<queue, seen, initialized, call, disk, history>>

Idle == [op |-> "none", step |-> "idle", url |-> NoUrl]
Ops  == {"none", "enqueue", "dequeue", "clear", "unsee", "close"}
Call == [op : Ops, step : {"idle", "writeQueue", "writeSeen"},
         url : Url \cup {NoUrl}]

TypeOK ==
  /\ queue \in Seq(Url)
  /\ seen \in SUBSET Url
  /\ initialized \in BOOLEAN
  /\ call \in Call
  /\ diskQueue \in Seq(Url)
  /\ diskSeen \in SUBSET Url
  /\ delivered \in [Url -> Nat]
  /\ cleared \in SUBSET Url
  /\ unsees \in [Url -> Nat]
  /\ crashes \in Nat
  /\ writeErrors \in Nat

(***************************************************************************)
(* Operations.  A handler changes memory and then performs its writes; the *)
(* last write also returns to the caller.                                  *)
(***************************************************************************)

Init ==
  /\ queue = <<>> /\ seen = {}
  /\ initialized = FALSE
  /\ call = Idle
  /\ diskQueue = <<>> /\ diskSeen = {}
  /\ delivered = [u \in Url |-> 0]
  /\ cleared = {}
  /\ unsees = [u \in Url |-> 0]
  /\ crashes = 0 /\ writeErrors = 0

\* initialize: read both files.  The orchestrator calls it once per process.
Initialize ==
  /\ ~initialized /\ call.step = "idle"
  /\ queue' = diskQueue /\ seen' = diskSeen
  /\ initialized' = TRUE
  /\ UNCHANGED <<call, disk, history>>

\* What the other handlers require: an initialized queue, and the event loop free.
Callable == initialized /\ call.step = "idle"

Begin(op, step, u) == call' = [op |-> op, step |-> step, url |-> u]

\* mutants: no validation, no test of the seen-set
AdmissibleUnvalidated(u) == u \notin seen /\ Len(queue) < MaxQueueSize
AdmissibleAgain(u) == u # NoUrl /\ Len(queue) < MaxQueueSize

\* enqueue of an accepted URL.  The refused ones (invalid, already seen, or the
\* queue full) change nothing.
Admissible(u) == u # NoUrl /\ u \notin seen /\ Len(queue) < MaxQueueSize

Enqueue(raw) ==
  /\ Callable
  /\ Admissible(Canonical[raw])
  /\ queue' = Append(queue, Canonical[raw])
  /\ seen' = seen \cup {Canonical[raw]}
  /\ Begin("enqueue", "writeQueue", Canonical[raw])
  /\ UNCHANGED <<initialized, disk, history>>

Dequeue ==
  /\ Callable
  /\ queue # <<>>
  /\ queue' = Tail(queue)
  /\ Begin("dequeue", "writeQueue", Head(queue))
  /\ UNCHANGED <<seen, initialized, disk, history>>

Clear ==
  /\ Callable
  /\ queue' = <<>>
  /\ cleared' = cleared \cup ToSet(queue)
  /\ Begin("clear", "writeQueue", NoUrl)
  /\ UNCHANGED <<seen, initialized, disk, delivered, unsees, crashes, writeErrors>>

Unsee(u) ==
  /\ Callable
  /\ u \in seen
  /\ unsees[u] < MaxUnsees
  /\ seen' = seen \ {u}
  /\ unsees' = [unsees EXCEPT ![u] = @ + 1]
  /\ Begin("unsee", "writeSeen", u)
  /\ UNCHANGED <<queue, initialized, disk, delivered, cleared, crashes, writeErrors>>

\* close does not ask for an initialized queue: it writes what memory holds
Close ==
  /\ call.step = "idle"
  /\ initialized \/ ColdClose
  /\ Begin("close", "writeQueue", NoUrl)
  /\ UNCHANGED <<queue, seen, initialized, disk, history>>

(***************************************************************************)
(* The writes.                                                             *)
(***************************************************************************)

WritesBoth == {"enqueue", "close"}

\* mutant: the seen-set is written before the list
PersistSeenFirst ==
  /\ call.step = "writeQueue" /\ call.op \in WritesBoth
  /\ diskSeen' = seen
  /\ call' = [call EXCEPT !.step = "writeSeen"]
  /\ UNCHANGED <<queue, seen, initialized, diskQueue, history>>

\* persistQueue, with the seen-set still to be written
PersistQueueThenSeen ==
  /\ call.step = "writeQueue" /\ call.op \in WritesBoth
  /\ diskQueue' = queue
  /\ call' = [call EXCEPT !.step = "writeSeen"]
  /\ UNCHANGED <<queue, seen, initialized, diskSeen, history>>

\* mutant: the URL is handed out without the shortened list being written
ReturnWithoutPersisting ==
  /\ call.step = "writeQueue" /\ call.op \notin WritesBoth
  /\ delivered' = IF call.op = "dequeue"
                  THEN [delivered EXCEPT ![call.url] = @ + 1]
                  ELSE delivered
  /\ call' = Idle
  /\ UNCHANGED <<queue, seen, initialized, disk, cleared, unsees, crashes, writeErrors>>

\* persistQueue as the last write: dequeue hands its URL to the caller
PersistQueueAndReturn ==
  /\ call.step = "writeQueue" /\ call.op \notin WritesBoth
  /\ diskQueue' = queue
  /\ delivered' = IF call.op = "dequeue"
                  THEN [delivered EXCEPT ![call.url] = @ + 1]
                  ELSE delivered
  /\ call' = Idle
  /\ UNCHANGED <<queue, seen, initialized, diskSeen, cleared, unsees, crashes, writeErrors>>

\* persistSeen is always the last write
PersistSeenAndReturn ==
  /\ call.step = "writeSeen"
  /\ diskSeen' = seen
  /\ initialized' = (call.op # "close")
  /\ call' = Idle
  /\ UNCHANGED <<queue, seen, diskQueue, history>>

\* A write throws: the handler ends with the exception, memory stays changed
WriteFails ==
  /\ call.step # "idle"
  /\ writeErrors < MaxWriteErrors
  /\ writeErrors' = writeErrors + 1
  /\ call' = Idle
  /\ UNCHANGED <<queue, seen, initialized, disk, delivered, cleared, unsees, crashes>>

\* The process dies: memory and the handler in progress are gone
Crash ==
  /\ initialized
  /\ crashes < MaxCrashes
  /\ crashes' = crashes + 1
  /\ queue' = <<>> /\ seen' = {}
  /\ initialized' = FALSE
  /\ call' = Idle
  /\ UNCHANGED <<disk, delivered, cleared, unsees, writeErrors>>

Next ==
  \/ Initialize
  \/ \E raw \in RawUrl : Enqueue(raw)
  \/ Dequeue
  \/ Clear
  \/ \E u \in Url : Unsee(u)
  \/ Close
  \/ PersistQueueThenSeen
  \/ PersistQueueAndReturn
  \/ PersistSeenAndReturn
  \/ WriteFails
  \/ Crash

Spec == Init /\ [][Next]_vars

(***************************************************************************)
(* Properties                                                              *)
(***************************************************************************)

\* The URL a dequeue in progress has taken off the list
InHand == IF call.op = "dequeue" /\ call.step # "idle" THEN {call.url} ELSE {}

Delivered == {u \in Url : delivered[u] > 0}

\* As long as no write fails, a URL the seen-set blocks from being queued again
\* is still pending, or was handed to the crawler, or was cleared on purpose:
\* crashes never make the frontier forget a URL.  This is what the order
\* "queue.json first, seen.json second" in enqueue is for.
NothingForgotten ==
  writeErrors = 0 =>
    /\ initialized => seen \subseteq ToSet(queue) \cup InHand \cup Delivered \cup cleared
    /\ diskSeen \subseteq ToSet(diskQueue) \cup Delivered \cup cleared

\* Every failing write costs at most one URL: the ones that are neither
\* pending on disk, nor delivered, nor cleared although seen.json blocks them.
ForgottenOnDisk == diskSeen \ (ToSet(diskQueue) \cup Delivered \cup cleared)
LossBoundedByWriteErrors == Cardinality(ForgottenOnDisk) <= writeErrors

\* Between two calls the files hold exactly what memory holds, so a crash there
\* loses nothing (as long as no write has failed).
DurableBetweenCalls ==
  Callable /\ writeErrors = 0 => diskQueue = queue /\ diskSeen = seen

Occurrences(s, u) == Cardinality({i \in DOMAIN s : s[i] = u})

\* A URL is handed out or waits to be handed out once, plus once for every
\* unsee of it and every crash: deduplication across restarts is lost by no
\* more than the crashes themselves.
BoundedRedelivery ==
  \A u \in Url :
    delivered[u] + Occurrences(diskQueue, u) <= 1 + unsees[u] + crashes

\* The pending list never exceeds its capacity, neither in memory nor on disk.
CapacityRespected == Len(queue) <= MaxQueueSize /\ Len(diskQueue) <= MaxQueueSize

\* contains() is to know every URL that has ever been enqueued and not been
\* unseen since, "across restarts".  Only a crash makes it forget one that is
\* pending or was handed out: the one whose enqueue it interrupted, and those
\* of the failed writes before it.
Unknown == {u \in ToSet(queue) \cup Delivered : unsees[u] = 0 /\ u \notin seen}
DedupSurvivesRestarts ==
  Callable => Cardinality(Unknown) <= (IF crashes = 0 THEN 0 ELSE crashes + writeErrors)

\* Every failing write and every crash costs or repeats one URL at most: what is lost,
\* handed out again or no longer known to contains() is bounded by what went wrong.
FailuresAreBounded == LossBoundedByWriteErrors /\ BoundedRedelivery /\ DedupSurvivesRestarts
===============================================================================
