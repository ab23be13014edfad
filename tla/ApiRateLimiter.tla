---------------------------- MODULE ApiRateLimiter ----------------------------
(***************************************************************************)
(* The rate limiter of the API (apps/api/src/rate-limiter.ts) over its     *)
(* file-backed store, which several processes may share.                   *)
(*                                                                         *)
(* A process looks the bucket up, reloading the file when it is newer than *)
(* what it has, and writes all its buckets back.  Both steps are           *)
(* synchronous in the process; another one may come between them.          *)
(*                                                                         *)
(* Abstractions: time is counted in ticks, and a file's modification time  *)
(* is the tick of its last write.                                          *)
(***************************************************************************)
EXTENDS Integers

CONSTANTS
  Process,        \* processes that share the file
  Key,            \* client and route rule
  Limit, Window,  \* key -> maxRequests and windowMs of its rule
  DefaultWindow,  \* windowMs of the limiter, which the cleanup goes by
  MaxCost,        \* the most a request costs
  MaxTime,        \* bound: ticks
  MaxGranted      \* bound: cost of the requests allowed, for each key

ASSUME LimiterAssumption ==
  /\ Key # {} /\ Limit \in [Key -> Nat \ {0}] /\ Window \in [Key -> Nat \ {0}]
  /\ {DefaultWindow, MaxCost, MaxTime} \subseteq Nat \ {0} /\ MaxGranted \in Nat

VARIABLES
  now,
  buckets,   \* process -> its buckets, by key
  disk,      \* the buckets in the file
  mtime,     \* tick of the last write of the file, 0 for none
  seen,      \* process -> modification time of what it has
  deciding,  \* process -> the request between look-up and write, and the file it looked at
  \* history
  granted,   \* key -> tick -> cost of the requests allowed up to the tick
  excused    \* a process wrote the file between another one's look-up and its write, or in the
             \* tick of its last write; a write failed; or buckets were forgotten on purpose,
             \* by a stop, or a cleanup, which does not look at the file

limiterVars == <<now, buckets, disk, mtime, seen, deciding, granted, excused>>

Time     == 0..MaxTime
Cost     == 1..MaxCost
NoBucket == [tokens |-> 0, start |-> -1]
Empty    == [k \in Key |-> NoBucket]
Bucket   == [tokens : 0..MaxGranted, start : Time \cup {-1}]
Nothing  == [cost |-> 0, key |-> CHOOSE k \in Key : TRUE, file |-> Empty]

\* what k was granted up to a tick, and in a span of time
UpTo(k, t) == IF t < 0 THEN 0 ELSE granted[k][t]
Spent(k, from, to) == UpTo(k, to) - UpTo(k, from - 1)

LimiterTypeOK ==
  /\ now \in Time /\ mtime \in Time
  /\ buckets \in [Process -> [Key -> Bucket]] /\ disk \in [Key -> Bucket]
  /\ seen \in [Process -> Time]
  /\ deciding \in [Process -> [cost : 0..MaxCost, key : Key, file : [Key -> Bucket]]]
  /\ granted \in [Key -> [Time -> 0..MaxGranted]]
  /\ excused \in BOOLEAN

LimiterInit ==
  /\ now = 1 /\ mtime = 0
  /\ buckets = [p \in Process |-> Empty] /\ disk = Empty
  /\ seen = [p \in Process |-> 0]
  /\ deciding = [p \in Process |-> Nothing]
  /\ granted = [k \in Key |-> [t \in Time |-> 0]]
  /\ excused = FALSE

LimiterTick ==
  /\ now < MaxTime /\ now' = now + 1
  /\ UNCHANGED <<buckets, disk, mtime, seen, deciding, granted, excused>>

\* mutant: the file is read once
FileNewerNever(p) == FALSE

\* consume begins: loadFromDisk
FileNewer(p) == mtime > seen[p]

LooksUp(p, k, c) ==
  /\ deciding[p].cost = 0
  /\ deciding' = [deciding EXCEPT ![p] = [cost |-> c, key |-> k, file |-> disk]]
  /\ IF FileNewer(p) THEN /\ buckets' = [buckets EXCEPT ![p] = disk]
                          /\ seen' = [seen EXCEPT ![p] = mtime]
                     ELSE UNCHANGED <<buckets, seen>>
  /\ excused' = (excused \/ (mtime = seen[p] /\ disk # buckets[p]))
  /\ UNCHANGED <<now, disk, mtime, granted>>

\* flushToDisk; a write that fails is ignored
Flushes(p, forgets) ==
  \/ /\ disk' = buckets'[p] /\ mtime' = now /\ seen' = [seen EXCEPT ![p] = now]
     /\ excused' = (excused \/ forgets)
  \/ excused' = TRUE /\ UNCHANGED <<disk, mtime, seen>>

WindowOver(b, k)  == b.start = -1 \/ now - b.start >= Window[k]

\* mutant: the limit is not looked at
FitsAnyway(b, c, k) == TRUE

Fits(b, c, k) == b.tokens + c <= Limit[k]

\* a new window, however much the request costs, or more of the present one
Charged(b, c, k) ==
  IF WindowOver(b, k) THEN [tokens |-> c, start |-> now] ELSE [b EXCEPT !.tokens = @ + c]

Allows(p) ==
  LET k == deciding[p].key  c == deciding[p].cost  b == buckets[p][k] IN
  /\ c > 0 /\ Spent(k, 0, MaxTime) + c <= MaxGranted
  /\ WindowOver(b, k) \/ Fits(b, c, k)
  /\ buckets' = [buckets EXCEPT ![p][k] = Charged(b, c, k)]
  /\ Flushes(p, disk # deciding[p].file)
  /\ granted' = [granted EXCEPT ![k] = [t \in Time |-> @[t] + IF t < now THEN 0 ELSE c]]
  /\ deciding' = [deciding EXCEPT ![p] = Nothing]
  /\ UNCHANGED now

Rejects(p) ==
  LET k == deciding[p].key  c == deciding[p].cost  b == buckets[p][k] IN
  /\ c > 0 /\ ~WindowOver(b, k) /\ ~Fits(b, c, k)
  /\ deciding' = [deciding EXCEPT ![p] = Nothing]
  /\ UNCHANGED <<now, buckets, disk, mtime, seen, granted, excused>>

\* the timer: buckets that are older than the limiter's own window
Stale(p) == {k \in Key : buckets[p][k].start # -1 /\ now - buckets[p][k].start >= DefaultWindow}
Cleanup(p) ==
  /\ deciding[p].cost = 0 /\ Stale(p) # {}
  /\ buckets' = [buckets EXCEPT ![p] = [k \in Key |-> IF k \in Stale(p) THEN NoBucket ELSE @[k]]]
  /\ Flushes(p, disk # buckets[p] \/ \E k \in Stale(p) : ~WindowOver(buckets[p][k], k))
  /\ UNCHANGED <<now, deciding, granted>>

\* the process dies and starts again from the file
Restarts(p) ==
  /\ buckets' = [buckets EXCEPT ![p] = disk]
  /\ seen' = [seen EXCEPT ![p] = mtime]
  /\ deciding' = [deciding EXCEPT ![p] = Nothing]
  /\ excused' = (excused \/ buckets[p] # disk)
  /\ UNCHANGED <<now, disk, mtime, granted>>

\* destroy: an orderly stop clears the store
Destroys(p) ==
  /\ deciding[p].cost = 0
  /\ buckets' = [buckets EXCEPT ![p] = Empty]
  /\ Flushes(p, TRUE)
  /\ UNCHANGED <<now, deciding, granted>>

LimiterNext ==
  \/ LimiterTick
  \/ \E p \in Process : \/ \E k \in Key, c \in Cost : LooksUp(p, k, c)
                        \/ Allows(p) \/ Rejects(p) \/ Cleanup(p) \/ Restarts(p) \/ Destroys(p)

LimiterSpec == LimiterInit /\ [][LimiterNext]_limiterVars

(***************************************************************************)
(* Properties                                                              *)
(***************************************************************************)
Budget(k) == IF Limit[k] > MaxCost THEN Limit[k] ELSE MaxCost

\* In no span of one window does a client get more than twice its limit, or the cost
\* of a first request where that is more: over the end of one window and the
\* beginning of the next, across crashes, unless processes raced for the file or
\* buckets were dropped.
BurstAtMostDouble ==
  ~excused =>
    \A k \in Key, t \in Time :
      t + Window[k] - 1 <= MaxTime => Spent(k, t, t + Window[k] - 1) <= 2 * Budget(k)

\* The bucket on disk accounts for all that was granted in its window.
DiskAccountsForGrants ==
  ~excused =>
    \A k \in Key : disk[k].start # -1 => disk[k].tokens = Spent(k, disk[k].start, now)
===============================================================================
