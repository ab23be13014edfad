------------------------------ MODULE WorkerPool ------------------------------
(***************************************************************************)
(* WorkerCrawlerPool and its SlidingWindowRateLimiter                      *)
(* (packages/crawler/src/worker/worker-pool.ts): workers take jobs for one *)
(* host from a shared list; before each they ask the limiter, which reads  *)
(* its record, waits, and only then writes it.                             *)
(***************************************************************************)
EXTENDS Integers, Sequences, FiniteSets

CONSTANTS
  PoolWorker,
  JobCount,        \* jobs of the batch
  MaxPerWindow,    \* maxRequestsPerSecond
  PoolWindow,      \* windowMs, in ticks
  MinDelay,        \* minDelayMs or the host's crawl delay, in ticks
  MaxClock         \* bound on time

ASSUME PoolAssumption ==
  /\ MaxPerWindow \in Nat \ {0} /\ PoolWindow \in Nat \ {0} /\ MinDelay \in Nat
  /\ JobCount \in Nat /\ MaxClock \in Nat /\ IsFiniteSet(PoolWorker)

VARIABLES
  pool,        \* the workers executeJobs starts: at most concurrency
  clock,
  jobs,        \* the jobs taken from the list, which are the first ones
  worker,      \* worker -> where it is, its job, when its wait ends, the record it has read
  window,      \* requestWindows of the host
  lastRequest, \* lastRequestTimes of the host
  stopped,     \* isTerminated
  results,     \* job -> number of its results
  sentAt       \* history: when requests were sent

poolVars == <<pool, clock, jobs, worker, window, lastRequest, stopped, results, sentAt>>

Job == 1..JobCount
LongAgo == -PoolWindow - MinDelay
FreeWorker == [pc |-> "free", job |-> 0, until |-> 0, read |-> <<>>]

PoolTypeOK ==
  /\ pool \subseteq PoolWorker
  /\ clock \in 0..MaxClock /\ jobs \in 0..JobCount /\ stopped \in BOOLEAN
  /\ \A w \in PoolWorker : worker[w].pc \in {"free", "waiting", "fetching", "ended"}
  /\ \A w \in PoolWorker : worker[w].pc # "free" => worker[w].until <= clock + PoolWindow + MinDelay
  /\ results \in [Job -> 0..1]
  /\ lastRequest \in {LongAgo} \cup 0..MaxClock

PoolInit ==
  /\ pool \in (SUBSET PoolWorker) \ {{}}
  /\ clock = 0 /\ jobs = 0 /\ stopped = FALSE
  /\ worker = [w \in PoolWorker |-> FreeWorker]
  /\ window = <<>> /\ lastRequest = LongAgo
  /\ results = [j \in Job |-> 0] /\ sentAt = <<>>

\* time goes on; timers may be late
ClockTicks ==
  /\ clock < MaxClock
  /\ clock' = clock + 1
  /\ UNCHANGED <<pool, jobs, worker, window, lastRequest, stopped, results, sentAt>>

\* acquirePermission, up to its wait
Later(a, b) == IF a > b THEN a ELSE b
DelayWait == IF clock - lastRequest < MinDelay THEN MinDelay - (clock - lastRequest) ELSE 0
InWindow ==
  LET recent == {i \in DOMAIN window : window[i] > clock + DelayWait - PoolWindow}
      upTo[i \in 0..Len(window)] == IF i = 0 THEN <<>>
                                    ELSE IF i \in recent THEN Append(upTo[i - 1], window[i])
                                    ELSE upTo[i - 1]
  IN  upTo[Len(window)]

\* mutant: the delay since the last request is left out
PermissionWaitWindow ==
  IF Len(InWindow) >= MaxPerWindow THEN InWindow[1] + PoolWindow - clock ELSE 0
PermissionWait ==
  IF Len(InWindow) >= MaxPerWindow THEN Later(DelayWait, InWindow[1] + PoolWindow - clock)
  ELSE DelayWait

\* the record read before the wait, with the request added, is written
NotesRequest(read) ==
  /\ window' = Append(read, clock)
  /\ lastRequest' = clock
  /\ sentAt' = Append(sentAt, clock)

\* without a wait the record is read and written at once
TakesJob(w) ==
  /\ worker[w].pc = "free" /\ ~stopped /\ jobs < JobCount
  /\ jobs' = jobs + 1
  /\ LET taken == [pc |-> "waiting", job |-> jobs', until |-> clock + PermissionWait, read |-> InWindow]
     IN  IF PermissionWait = 0
         THEN NotesRequest(InWindow) /\ worker' = [worker EXCEPT ![w] = [taken EXCEPT !.pc = "fetching"]]
         ELSE worker' = [worker EXCEPT ![w] = taken] /\ UNCHANGED <<window, lastRequest, sentAt>>
  /\ UNCHANGED <<pool, clock, stopped, results>>

SendsRequest(w) ==
  /\ worker[w].pc = "waiting" /\ clock >= worker[w].until
  /\ NotesRequest(worker[w].read)
  /\ worker' = [worker EXCEPT ![w].pc = "fetching"]
  /\ UNCHANGED <<pool, clock, jobs, stopped, results>>

\* fetchFn returns or throws: either way the job has a result
FetchReturns(w) ==
  /\ worker[w].pc = "fetching"
  /\ results' = [results EXCEPT ![worker[w].job] = @ + 1]
  /\ worker' = [worker EXCEPT ![w].pc = "free"]
  /\ UNCHANGED <<pool, clock, jobs, window, lastRequest, stopped, sentAt>>

WorkerEnds(w) ==
  /\ worker[w].pc = "free" /\ (stopped \/ jobs = JobCount)
  /\ worker' = [worker EXCEPT ![w].pc = "ended"]
  /\ UNCHANGED <<pool, clock, jobs, window, lastRequest, stopped, results, sentAt>>

Terminates ==
  /\ ~stopped /\ stopped' = TRUE
  /\ UNCHANGED <<pool, clock, jobs, worker, window, lastRequest, results, sentAt>>

PoolNext ==
  \/ ClockTicks \/ Terminates
  \/ \E w \in pool : TakesJob(w) \/ SendsRequest(w) \/ FetchReturns(w) \/ WorkerEnds(w)

PoolSpec == PoolInit /\ [][PoolNext]_poolVars

(***************************************************************************)
(* Properties                                                              *)
(***************************************************************************)
SentWithin(n, t) == Cardinality({i \in DOMAIN sentAt : sentAt[i] > t - n /\ sentAt[i] <= t})

\* The waits of different workers overlap, but each keeps its own: within the delay a
\* host is sent at most one request by each worker.
DelayKeptPerWorker == SentWithin(MinDelay, clock) <= Cardinality(pool)

\* A worker on its own keeps the limit of requests within the window; several overwrite
\* each other's records.
WindowKeptAlone == Cardinality(pool) = 1 => SentWithin(PoolWindow, clock) <= MaxPerWindow

\* executeJobs returns when its workers have: unless the pool was terminated, with one
\* result for every job.
JobsAnswered ==
  (\A w \in pool : worker[w].pc = "ended") /\ ~stopped => \A j \in Job : results[j] = 1
===============================================================================
