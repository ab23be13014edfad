---------------------------- MODULE CrawlRunProofs ----------------------------
(***************************************************************************)
(* Proofs about CrawlRun, for every site, set of workers, limit and number *)
(* of runs, crashes and errors.  Each property needs a count that says why *)
(* a worker that acts on what it tested before an await does no harm:      *)
(*                                                                         *)
(*   ReservationsOK  what a run has fetched, with the workers that hold an *)
(*                   item, is covered by reservations within the limit.    *)
(*   FetchesCounted  a URL's places in the queue, or in queue.json, the    *)
(*                   workers that carry it and its fetches are paid for by *)
(*                   one seeding, an unsee or a crash each.                *)
(*   BurstOK         requests of a domain in a window and workers asleep   *)
(*                   to request in it are different workers.               *)
(*   LossInv         whoever may still drop a URL is a worker that has     *)
(*                   dropped none, but for the statuses that could not be  *)
(*                   written; and these are counted by MissedOK.           *)
(*   GoesOn          a run with pages left to reserve and URLs pending has *)
(*                   a worker that is still at work.                       *)
(***************************************************************************)
EXTENDS CrawlRun, ListLemmas

\* Where a worker is: with a reservation and no page yet, with an item it may
\* still fetch, with one whose outcome is not recorded, and with any.
Holding   == {"robots", "sleeping", "mark", "lookup", "fetch", "failed"}
Unfetched == {"dequeued", "robots", "sleeping", "mark", "lookup", "fetch"}
Unmarked  == Unfetched \cup {"store", "record", "succeed"}
WithItem  == Unmarked \cup {"links", "failed"}
Left      == {"off", "done", "threw"}

Domains == {Domain[u] : u \in Url}
HoldersOf(r)   == {w \in Worker : RunOf(w) = r /\ worker[w].pc \in Holding}
Live           == {w \in Worker : worker[w].pc \notin Left}
FetchersOf(u)  == {w \in Worker : worker[w].pc \in Unfetched /\ UrlAt(w) = u}

\* Types of the history variables, which TypeOK leaves out.
HistoryTyped ==
  /\ fetchedBy \in [Runs -> Nat] /\ fetches \in [Url -> Nat] /\ unsees \in [Url -> Nat]
  /\ requestAt \in [Url -> Nat \cup {Never}]
  /\ lastRequest \in [Domains -> Nat \cup {Never}]
  /\ skipped \subseteq Url
  /\ crashes \in Nat /\ storageErrors \in Nat /\ closes \in Nat /\ missed \in Nat

\* Only workers of runs that were started work; an item they hold is one they
\* have found not to be too deep.
WorkersOK ==
  \A w \in Worker :
    /\ worker[w].pc \in WithItem => worker[w].item \in Item
    /\ RunOf(w) > run => worker[w].pc = "off"
    /\ worker[w].pc \in Holding => worker[w].item.depth <= maxDepth[RunOf(w)]

\* Nothing is known of runs that were not started.
RunsOK ==
  /\ isRunning => run # 0
  /\ \A r \in Runs : r > run => summary[r] = "none" /\ fetchedBy[r] = 0 /\ reserved[r] = 0

\* Pages fetched and held are within the reservations, and these within the limit.
ReservationsOK ==
  \A r \in Runs : /\ fetchedBy[r] + Cardinality(HoldersOf(r)) <= reserved[r]
                  /\ reserved[r] <= MaxPages

\* While nothing fails or is closed the workers are those of the current run.
RunAlone ==
  Undisturbed => \A w \in Worker :
    /\ worker[w].pc # "threw"
    /\ w \in Live => RunOf(w) = run /\ isRunning /\ initialized

IInv == /\ TypeOK /\ HistoryTyped /\ WorkersOK /\ RunsOK /\ ReservationsOK
        /\ ReturnsAfterItsWorkers /\ RunAlone

-----
\* URLs of a frontier that are seen, in memory or in seen.json, and not pending in both.
PendingIn(q) == {q[i].url : i \in DOMAIN q}
BlockedOf(f) == (f.seen \cup f.seenFile) \ (PendingIn(f.queue) \cap PendingIn(f.queueFile))

\* URLs blocked for good without an outcome, now or after a crash: without a final
\* status, and neither queued, nor in a worker's hands, nor skipped for their depth.
Markers      == {w \in Worker : worker[w].pc \in Unmarked}
UnmarkedUrls == {UrlAt(w) : w \in Markers}
Lost == {u \in BlockedOf(Current) : urlStatus[u] \notin Final} \ (UnmarkedUrls \cup skipped)

\* Reservations of the current run whose page is fetched or was refused; workers
\* between their two tests of the limit.
Spent   == reserved[run] - Cardinality(HoldersOf(run))
Waiting == {w \in Worker : At(w, "dequeued")}

\* Every worker of a run loses at most one URL, and then it has left; and each final
\* status that could not be written loses one.
LossBound ==
  /\ IsFiniteSet(Lost)
  /\ Cardinality(Lost) + Cardinality(Live) <= run * Concurrency + missed

\* Statuses are missed for a failed write, or by the workers there were at a close:
\* while the orchestrator is closed each of them still may miss one.
MissedOK ==
  missed + (IF initialized THEN 0 ELSE Cardinality(Markers))
    <= storageErrors + closes * run * Concurrency

\* With nothing failing, one worker of each run loses none: as long as the limit
\* is not reached nobody has lost anything in this run, and when it is, the worker
\* that reached it is not among those that still may.
QuietLoss ==
  Undisturbed /\ crashes = 0 =>
    /\ ~isRunning => Cardinality(Lost) <= run * (Concurrency - 1)
    /\ isRunning =>
         /\ pagesFetched = fetchedBy[run]
         /\ Live = {} => Cardinality(Lost) <= run * (Concurrency - 1)
         /\ Spent < MaxPages =>
              Cardinality(Lost) + Cardinality(Live) <= run * (Concurrency - 1) + 1
         /\ Spent >= MaxPages =>
              Cardinality(Lost) + Cardinality(Waiting) <= run * (Concurrency - 1)

LossInv == LossBound /\ MissedOK /\ QuietLoss

\* While nothing fails and nobody stops the run, a worker is still in its loop as long
\* as there are URLs to take and pages to reserve: one that leaves has found none of
\* these, and whoever brings some back, by a link or by a fetch that failed, goes on.
GoesOn ==
  Undisturbed /\ isRunning =>
    /\ pagesFetched = fetchedBy[run]
    /\ ~shouldStop /\ ~aborted[run] =>
         queue = <<>> \/ reserved[run] >= MaxPages \/ Live # {}

-----
\* Every place of a URL in the queue, every worker about to fetch it and every
\* fetch has an unsee, a crash or the one seeding behind it; and so it is with
\* queue.json in place of the queue.
Positions(q, u) == {i \in DOMAIN q : q[i].url = u}
Counted(f, u, k) ==
  /\ IsFiniteSet(Positions(f.queue, u)) /\ IsFiniteSet(Positions(f.queueFile, u))
  /\ k + Cardinality(Positions(f.queue, u)) <= f.unsees[u] + One(u \in f.seen)
  /\ k + Cardinality(Positions(f.queueFile, u)) <= f.unsees[u] + 1
FetchesCounted ==
  \A u \in Url : Counted(Current, u, fetches[u] + Cardinality(FetchersOf(u)) - crashes)

-----
\* Requests of a domain in the window that begins at t, and workers asleep until
\* an instant of that window or an earlier one.
Sent(d, t) == {v \in Url : Domain[v] = d /\ requestAt[v] \in t..(t + Delay - 1)}
Soon(d, t) == {w \in Worker : /\ At(w, "sleeping") /\ Domain[UrlAt(w)] = d
                              /\ worker[w].wake <= t + Delay - 1}
ClockOK ==
  /\ \A u \in Url : requestAt[u] <= lastRequest[Domain[u]]
  /\ \A d \in Domains : lastRequest[d] <= now
BurstOK(t) ==
  Undisturbed => \A d \in Domains :
    /\ IsFiniteSet(Sent(d, t))
    /\ Sent(d, t) # {} => Cardinality(Sent(d, t)) + Cardinality(Soon(d, t)) <= Concurrency
BurstInv == ClockOK /\ \A t \in Nat : BurstOK(t)

(***************************************************************************)
(* What the frontier's operations do to it.                                *)
(***************************************************************************)

Frontier == [queue : Seq(Item), seen : SUBSET Url, queueFile : Seq(Item),
             seenFile : SUBSET Url, status : [Url -> Statuses], unsees : [Url -> Nat]]

\* The URLs that block f, are pending in it or were unseen have more of each than in
\* g by the same number; what f blocks, g does; and queue.json is written or kept.
Follows(f, g) ==
  /\ \A u \in Url :
       /\ IsFiniteSet(Positions(g.queue, u)) => IsFiniteSet(Positions(f.queue, u))
       /\ IsFiniteSet(Positions(g.queue, u)) =>
            Cardinality(Positions(f.queue, u)) - f.unsees[u] - One(u \in f.seen)
              <= Cardinality(Positions(g.queue, u)) - g.unsees[u] - One(u \in g.seen)
       /\ f.unsees[u] >= g.unsees[u]
  /\ BlockedOf(f) \subseteq BlockedOf(g)
  /\ \A u \in Url : f.status[u] \in Final <=> g.status[u] \in Final
  /\ f.queueFile = f.queue \/ (f.queueFile = g.queueFile /\ f.queue = g.queue)

LEMMA PositionsAppended ==
  ASSUME NEW q \in Seq(Item), NEW e \in Item, NEW u \in Url
  PROVE  /\ Append(q, e) \in Seq(Item)
         /\ PendingIn(Append(q, e)) = PendingIn(q) \cup {e.url}
         /\ IsFiniteSet(Positions(q, u)) =>
              /\ IsFiniteSet(Positions(Append(q, e), u))
              /\ Cardinality(Positions(Append(q, e), u))
                   = Cardinality(Positions(q, u)) + One(e.url = u)
<1> DEFINE a == Append(q, e)
           n == Len(q)
<1>1. /\ a \in Seq(Item) /\ n \in Nat /\ DOMAIN q = 1..n /\ DOMAIN a = 1..(n + 1)
      /\ a[n + 1] = e /\ \A i \in 1..n : a[i] = q[i]
  OBVIOUS
<1> HIDE DEF a, n
<1>2. \A i \in DOMAIN a : i \in DOMAIN q \/ i = n + 1
  BY <1>1
<1>3. n + 1 \in DOMAIN a /\ n + 1 \notin DOMAIN q /\ DOMAIN q \subseteq DOMAIN a
  BY <1>1
<1>4. PendingIn(a) = PendingIn(q) \cup {e.url}
  BY <1>1, <1>2, <1>3 DEF PendingIn
<1>5. ASSUME IsFiniteSet(Positions(q, u))
      PROVE  /\ IsFiniteSet(Positions(a, u))
             /\ Cardinality(Positions(a, u)) = Cardinality(Positions(q, u)) + One(e.url = u)
  <2> DEFINE A == Positions(q, u)
             B == Positions(a, u)
  <2>1. \A i : i # n + 1 => (i \in A <=> i \in B)
    BY <1>1, <1>2, <1>3 DEF Positions
  <2>2. n + 1 \notin A /\ (n + 1 \in B <=> e.url = u)
    BY <1>1, <1>3 DEF Positions
  <2> HIDE DEF A, B
  <2>3. /\ IsFiniteSet(B) /\ Cardinality(A) \in Nat
        /\ Cardinality(B) = Cardinality(A) - One(n + 1 \in A) + One(n + 1 \in B)
    BY <1>5, <2>1, CountMoves DEF A
  <2>4. Cardinality(B) = Cardinality(A) + One(e.url = u)
    BY <2>2, <2>3 DEF One
  <2> QED BY <2>3, <2>4 DEF A, B
<1> QED BY <1>1, <1>4, <1>5 DEF a

LEMMA PositionsOfTail ==
  ASSUME NEW q \in Seq(Item), q # <<>>, NEW u \in Url, IsFiniteSet(Positions(q, u))
  PROVE  /\ IsFiniteSet(Positions(Tail(q), u)) /\ Cardinality(Positions(q, u)) \in Nat
         /\ Cardinality(Positions(Tail(q), u))
              = Cardinality(Positions(q, u)) - One(Head(q).url = u)
<1> DEFINE t == Tail(q)
           n == Len(q)
           A == Positions(q, u)
           B == Positions(t, u)
           f == [i \in A \ {1} |-> i - 1]
<1>1. /\ t \in Seq(Item) /\ n \in Nat \ {0} /\ DOMAIN q = 1..n /\ DOMAIN t = 1..(n - 1)
      /\ Head(q) = q[1] /\ \A i \in 1..(n - 1) : t[i] = q[i + 1]
  OBVIOUS
<1> HIDE DEF t, n
<1>2. \A i \in B : i \in 1..(n - 1) /\ i + 1 \in A \ {1} /\ i \in Int
  BY <1>1 DEF Positions
<1>3. \A i \in A \ {1} : i - 1 \in B /\ i - 1 + 1 = i
  BY <1>1 DEF Positions
<1>4. 1 \in A <=> Head(q).url = u
  BY <1>1 DEF Positions
<1> HIDE DEF A, B
<1>5. f \in Bijection(A \ {1}, B)
  <2>0. \A i \in A \ {1} : i \in Int
    BY <1>1 DEF A, Positions
  <2>1. f \in [A \ {1} -> B]
    BY <1>3
  <2>2. \A i, j \in A \ {1} : f[i] = f[j] => i = j
    BY <2>0
  <2>3. ASSUME NEW j \in B PROVE \E i \in A \ {1} : f[i] = j
    <3>1. f[j + 1] = j + 1 - 1 /\ j + 1 - 1 = j
      BY <1>2
    <3> QED BY <1>2, <3>1
  <2> QED BY <2>1, <2>2, <2>3 DEF Bijection, Injection, Surjection, IsInjective
<1>6. ExistsBijection(A \ {1}, B)
  BY <1>5 DEF ExistsBijection
<1>7. \A v : v # 1 => (v \in A <=> v \in A \ {1})
  OBVIOUS
<1>8. IsFiniteSet(A)
  BY DEF A
<1>9. /\ IsFiniteSet(A \ {1}) /\ Cardinality(A) \in Nat
      /\ Cardinality(A \ {1}) = Cardinality(A) - One(1 \in A) + One(1 \in A \ {1})
  <2> DEFINE C == A \ {1}
  <2>1. \A v : v # 1 => (v \in A <=> v \in C)
    OBVIOUS
  <2> HIDE DEF C
  <2>2. /\ IsFiniteSet(C) /\ Cardinality(A) \in Nat
        /\ Cardinality(C) = Cardinality(A) - One(1 \in A) + One(1 \in C)
    BY <1>8, <2>1, CountMoves
  <2> QED BY <2>2 DEF C
<1>10. IsFiniteSet(B) /\ Cardinality(B) = Cardinality(A \ {1})
  BY <1>6, <1>9, FS_Bijection
<1>11. Cardinality(B) = Cardinality(A) - One(Head(q).url = u)
  BY <1>4, <1>9, <1>10 DEF One
<1> QED BY <1>9, <1>10, <1>11 DEF A, B, t

LEMMA FollowsIsTransitive ==
  ASSUME NEW f \in Frontier, NEW g \in Frontier, NEW h \in Frontier, Follows(h, g), Follows(g, f)
  PROVE  Follows(h, f)
<1>1. ASSUME NEW u \in Url, IsFiniteSet(Positions(f.queue, u))
      PROVE  /\ IsFiniteSet(Positions(h.queue, u))
             /\ Cardinality(Positions(h.queue, u)) - h.unsees[u] - One(u \in h.seen)
                  <= Cardinality(Positions(f.queue, u)) - f.unsees[u] - One(u \in f.seen)
  <2> DEFINE hn == Cardinality(Positions(h.queue, u)) - h.unsees[u] - One(u \in h.seen)
             gn == Cardinality(Positions(g.queue, u)) - g.unsees[u] - One(u \in g.seen)
             fn == Cardinality(Positions(f.queue, u)) - f.unsees[u] - One(u \in f.seen)
  <2>1. IsFiniteSet(Positions(g.queue, u)) /\ IsFiniteSet(Positions(h.queue, u))
    BY <1>1 DEF Follows
  <2>2. /\ Cardinality(Positions(f.queue, u)) \in Nat /\ Cardinality(Positions(g.queue, u)) \in Nat
        /\ Cardinality(Positions(h.queue, u)) \in Nat
    BY <1>1, <2>1, FS_CardinalityType
  <2>3. f.unsees[u] \in Nat /\ g.unsees[u] \in Nat /\ h.unsees[u] \in Nat
    BY DEF Frontier
  <2>4. hn \in Int /\ gn \in Int /\ fn \in Int
    BY <2>2, <2>3 DEF One
  <2>5. hn <= gn /\ gn <= fn
    BY <1>1, <2>1 DEF Follows
  <2> HIDE DEF hn, gn, fn
  <2>6. hn <= fn
    BY <2>4, <2>5
  <2> QED BY <2>1, <2>6 DEF hn, fn
<1>2. BlockedOf(h) \subseteq BlockedOf(f)
  BY DEF Follows
<1>3. \A u \in Url : h.status[u] \in Final <=> f.status[u] \in Final
  BY DEF Follows
<1>4. \A u \in Url : h.unsees[u] >= f.unsees[u]
  <2> SUFFICES ASSUME NEW u \in Url PROVE h.unsees[u] >= f.unsees[u]
    OBVIOUS
  <2>1. h.unsees[u] \in Nat /\ g.unsees[u] \in Nat /\ f.unsees[u] \in Nat
    BY DEF Frontier
  <2>2. h.unsees[u] >= g.unsees[u] /\ g.unsees[u] >= f.unsees[u]
    BY DEF Follows
  <2> QED BY <2>1, <2>2
<1>5. h.queueFile = h.queue \/ (h.queueFile = f.queueFile /\ h.queue = f.queue)
  BY DEF Follows
<1> QED BY <1>1, <1>2, <1>3, <1>4, <1>5 DEF Follows

LEMMA FollowsItself ==
  ASSUME NEW f \in Frontier
  PROVE  Follows(f, f)
<1>1. ASSUME NEW v \in Url, IsFiniteSet(Positions(f.queue, v))
      PROVE  Cardinality(Positions(f.queue, v)) - f.unsees[v] - One(v \in f.seen) \in Int
  BY <1>1, FS_CardinalityType DEF Frontier, One
<1>2. \A v \in Url : f.unsees[v] \in Nat
  BY DEF Frontier
<1> QED BY <1>1, <1>2 DEF Follows

LEMMA OfferedFollows ==
  ASSUME NEW f \in Frontier, NEW u \in Url, NEW depth \in Nat
  PROVE  /\ Offered(f, u, depth) \in Frontier /\ Follows(Offered(f, u, depth), f)
         /\ Offered(f, u, depth).unsees = f.unsees
         /\ Accepts(f, u) =>
              /\ Offered(f, u, depth).queueFile = Offered(f, u, depth).queue
              /\ PendingIn(Offered(f, u, depth).queue) = PendingIn(f.queue) \cup {u}
              /\ Offered(f, u, depth).seen = f.seen \cup {u}
<1> DEFINE g == Offered(f, u, depth)
           e == [url |-> u, depth |-> depth]
<1>1. CASE ~ Accepts(f, u)
  <2>1. g = f
    BY <1>1 DEF Offered
  <2> QED BY <1>1, <2>1, FollowsItself
<1>2. CASE Accepts(f, u)
  <2>0. u \notin f.seen
    BY <1>2 DEF Accepts
  <2>1. /\ f.queue \in Seq(Item) /\ f.seen \in SUBSET Url /\ f.status \in [Url -> Statuses]
        /\ f.unsees \in [Url -> Nat] /\ e \in Item /\ e.url = u
    BY DEF Frontier, Item
  <2>2. g = [f EXCEPT !.queue = Append(f.queue, e), !.queueFile = Append(f.queue, e),
                      !.seen = f.seen \cup {u}, !.seenFile = f.seen \cup {u},
                      !.status[u] = IF f.status[u] = "none" THEN "pending" ELSE f.status[u]]
    BY <1>2 DEF Offered
  <2> DEFINE s == [f.status EXCEPT ![u] = IF f.status[u] = "none" THEN "pending" ELSE f.status[u]]
  <2>3. /\ g.queue = Append(f.queue, e) /\ g.seen = f.seen \cup {u} /\ g.unsees = f.unsees
        /\ g.queueFile = g.queue /\ g.seenFile = g.seen /\ g.status = s
    BY <2>2 DEF Frontier
  <2>4. g.queue \in Seq(Item) /\ PendingIn(g.queue) = PendingIn(f.queue) \cup {u}
    BY <2>1, <2>3, PositionsAppended
  <2>5. s \in [Url -> Statuses] /\ \A v \in Url : s[v] \in Final <=> f.status[v] \in Final
    BY <2>1 DEF Statuses, Final
  <2>6. g \in Frontier
    <3>1. g = [queue |-> g.queue, seen |-> g.seen, queueFile |-> g.queueFile,
               seenFile |-> g.seenFile, status |-> g.status, unsees |-> g.unsees]
      BY <2>2 DEF Frontier
    <3>2. g.queue \in Seq(Item) /\ g.seen \in SUBSET Url /\ g.status \in [Url -> Statuses]
          /\ g.queueFile \in Seq(Item) /\ g.seenFile \in SUBSET Url
          /\ g.unsees \in [Url -> Nat]
      <4> HIDE DEF g, s
      <4> QED BY <2>1, <2>3, <2>4, <2>5
    <3> HIDE DEF g
    <3> QED BY <3>1, <3>2 DEF Frontier
  <2>7. ASSUME NEW v \in Url, IsFiniteSet(Positions(f.queue, v))
        PROVE  /\ IsFiniteSet(Positions(g.queue, v))
               /\ Cardinality(Positions(g.queue, v)) - g.unsees[v] - One(v \in g.seen)
                    <= Cardinality(Positions(f.queue, v)) - f.unsees[v] - One(v \in f.seen)
    <3>1. /\ IsFiniteSet(Positions(g.queue, v))
          /\ Cardinality(Positions(g.queue, v)) = Cardinality(Positions(f.queue, v)) + One(u = v)
      <4> HIDE DEF g, e
      <4> QED BY <2>1, <2>3, <2>7, PositionsAppended
    <3>2. One(v \in g.seen) = One(v \in f.seen) + One(u = v)
      <4> HIDE DEF g
      <4> QED BY <2>0, <2>3 DEF One
    <3>3. Cardinality(Positions(f.queue, v)) \in Nat /\ f.unsees[v] \in Nat /\ g.unsees[v] = f.unsees[v]
      BY <2>1, <2>3, <2>7, FS_CardinalityType
    <3> DEFINE fp == Cardinality(Positions(f.queue, v))
               gp == Cardinality(Positions(g.queue, v))
               fo == One(v \in f.seen)
               go == One(v \in g.seen)
               o  == One(u = v)
    <3>4. fo \in Nat /\ go \in Nat /\ o \in Nat
      BY DEF One
    <3> DEFINE m == f.unsees[v]
    <3>5. fp \in Nat /\ m \in Nat /\ gp = fp + o /\ go = fo + o
      BY <3>1, <3>2, <3>3
    <3> HIDE DEF fp, gp, fo, go, o, m, g
    <3>6. gp - m - go <= fp - m - fo
      BY <3>4, <3>5
    <3> QED BY <3>1, <3>3, <3>6 DEF fp, gp, fo, go, m
  <2>8. BlockedOf(g) \subseteq BlockedOf(f)
    <3> HIDE DEF g
    <3> QED BY <2>3, <2>4 DEF BlockedOf
  <2>9. \A v \in Url : g.unsees[v] >= f.unsees[v]
    <3> HIDE DEF g
    <3> QED BY <2>1, <2>3
  <2>10. Follows(g, f)
    <3> HIDE DEF g, s
    <3> QED BY <2>3, <2>5, <2>7, <2>8, <2>9 DEF Follows
  <2> HIDE DEF g, s
  <2> QED BY <2>3, <2>4, <2>6, <2>10 DEF g
<1> QED BY <1>1, <1>2

LEMMA UnseenFollows ==
  ASSUME NEW f \in Frontier, NEW u \in Url
  PROVE  Unseen(f, u) \in Frontier /\ Follows(Unseen(f, u), f)
<1> DEFINE g == Unseen(f, u)
<1>1. ASSUME NEW v \in Url, IsFiniteSet(Positions(f.queue, v))
      PROVE  Cardinality(Positions(f.queue, v)) \in Nat /\ f.unsees[v] \in Nat
  BY <1>1, FS_CardinalityType DEF Frontier
<1>2. CASE u \notin f.seen
  <2>1. g = f
    BY <1>2 DEF Unseen
  <2> QED BY <2>1, FollowsItself
<1>3. CASE u \in f.seen
  <2>1. g = [f EXCEPT !.seen = f.seen \ {u}, !.seenFile = f.seen \ {u},
                      !.unsees[u] = f.unsees[u] + 1]
    BY <1>3 DEF Unseen
  <2>2. /\ f.queue \in Seq(Item) /\ f.seen \in SUBSET Url /\ f.status \in [Url -> Statuses]
        /\ f.queueFile \in Seq(Item) /\ f.unsees \in [Url -> Nat]
    BY DEF Frontier
  <2> DEFINE n == [f.unsees EXCEPT ![u] = f.unsees[u] + 1]
  <2>3. /\ g.queue = f.queue /\ g.seen = f.seen \ {u} /\ g.status = f.status /\ g.unsees = n
        /\ g.queueFile = f.queueFile /\ g.seenFile = f.seen \ {u}
    BY <2>1 DEF Frontier
  <2>4. n \in [Url -> Nat] /\ \A v \in Url : n[v] = f.unsees[v] + One(v = u)
    BY <2>2 DEF One
  <2>5. g \in Frontier
    <3>1. g = [queue |-> g.queue, seen |-> g.seen, queueFile |-> g.queueFile,
               seenFile |-> g.seenFile, status |-> g.status, unsees |-> g.unsees]
      BY <2>1 DEF Frontier
    <3>2. g.queue \in Seq(Item) /\ g.seen \in SUBSET Url /\ g.status \in [Url -> Statuses]
          /\ g.queueFile \in Seq(Item) /\ g.seenFile \in SUBSET Url
          /\ g.unsees \in [Url -> Nat]
      <4> HIDE DEF g, n
      <4> QED BY <2>2, <2>3, <2>4
    <3> HIDE DEF g
    <3> QED BY <3>1, <3>2 DEF Frontier
  <2>6. \A v \in Url : One(v \in f.seen) = One(v \in f.seen \ {u}) + One(v = u)
    BY <1>3 DEF One
  <2>7. \A v \in Url : One(v \in f.seen) \in Nat /\ One(v \in f.seen \ {u}) \in Nat
                       /\ One(v = u) \in Nat
    BY DEF One
  <2>8. ASSUME NEW v \in Url, IsFiniteSet(Positions(f.queue, v))
        PROVE  Cardinality(Positions(g.queue, v)) - g.unsees[v] - One(v \in g.seen)
                 <= Cardinality(Positions(f.queue, v)) - f.unsees[v] - One(v \in f.seen)
    <3> DEFINE p == Cardinality(Positions(f.queue, v))
               a == One(v \in f.seen)
               b == One(v \in f.seen \ {u})
               o == One(v = u)
               m == f.unsees[v]
    <3>1. p \in Nat /\ m \in Nat /\ a \in Nat /\ b \in Nat /\ o \in Nat /\ a = b + o
      BY <1>1, <2>6, <2>7, <2>8
    <3>2. Cardinality(Positions(g.queue, v)) = p /\ g.unsees[v] = m + o /\ One(v \in g.seen) = b
      <4> HIDE DEF g, n
      <4> QED BY <2>3, <2>4
    <3> HIDE DEF p, a, b, o, m, g
    <3>3. p - (m + o) - b <= p - m - a
      BY <3>1
    <3> QED BY <3>2, <3>3 DEF p, a, m
  <2>9. BlockedOf(g) \subseteq BlockedOf(f)
    <3> HIDE DEF g, n
    <3> QED BY <2>3 DEF BlockedOf
  <2>10. \A v \in Url : g.unsees[v] >= f.unsees[v]
    <3> SUFFICES ASSUME NEW v \in Url PROVE g.unsees[v] >= f.unsees[v]
      OBVIOUS
    <3>1. g.unsees[v] = f.unsees[v] + One(v = u) /\ f.unsees[v] \in Nat /\ One(v = u) \in Nat
      <4> HIDE DEF g, n
      <4> QED BY <2>2, <2>3, <2>4, <2>7
    <3> HIDE DEF g
    <3> QED BY <3>1
  <2> HIDE DEF g, n
  <2> QED BY <2>3, <2>5, <2>8, <2>9, <2>10 DEF Follows, g
<1> QED BY <1>2, <1>3

LEMMA ReadyFollows ==
  ASSUME NEW f \in Frontier, NEW u \in Url, NEW recrawl
  PROVE  Ready(f, u, recrawl) \in Frontier /\ Follows(Ready(f, u, recrawl), f)
BY UnseenFollows, FollowsItself DEF Ready

(* Seeding only adds to the frontier, whatever is unseen on the way. *)
LEMMA SeededFollows ==
  ASSUME NEW seeds \in Seq(Url), NEW recrawl, Current \in Frontier
  PROVE  Seeded(seeds, recrawl) \in Frontier /\ Follows(Seeded(seeds, recrawl), Current)
<1> DEFINE n == Len(seeds)
           Next1(f, k) == Offered(Ready(f, seeds[k], recrawl), seeds[k], 0)
           step == [k \in 1..n |-> [f \in Frontier |-> Next1(f, k)]]
           after == CHOOSE f : f = [k \in 0..n |-> IF k = 0 THEN Current ELSE Next1(f[k - 1], k)]
<1>1. n \in Nat /\ \A k \in 1..n : seeds[k] \in Url
  OBVIOUS
<1>2. ASSUME NEW f \in Frontier, NEW k \in 1..n
      PROVE  Next1(f, k) \in Frontier /\ Follows(Next1(f, k), f)
  <2> DEFINE g == Ready(f, seeds[k], recrawl)
  <2>1. g \in Frontier /\ Follows(g, f)
    BY <1>1, ReadyFollows
  <2> HIDE DEF g
  <2>2. Offered(g, seeds[k], 0) \in Frontier /\ Follows(Offered(g, seeds[k], 0), g)
    BY <1>1, <2>1, OfferedFollows
  <2> QED BY <2>1, <2>2, FollowsIsTransitive DEF g
<1>3. step \in [1..n -> [Frontier -> Frontier]]
  <2> HIDE DEF Next1
  <2> QED BY <1>2
<1>4. PICK f \in [0..n -> Frontier] : Iterates(f, Current, step, n)
  <2> HIDE DEF step, n
  <2>1. n \in Nat
    BY <1>1
  <2>2. Current \in Frontier
    OBVIOUS
  <2> QED BY <1>3, <2>1, <2>2, RecursionUpTo
<1>5. \A k \in 1..n : f[k] = Next1(f[k - 1], k)
  <2> HIDE DEF Next1
  <2>1. \A k \in 1..n : k - 1 \in 0..n
    BY <1>1
  <2> QED BY <1>4, <2>1 DEF Iterates
<1>6. f = [k \in 0..n |-> IF k = 0 THEN Current ELSE Next1(f[k - 1], k)]
  <2> HIDE DEF Next1
  <2>1. \A k \in 0..n : k # 0 => k \in 1..n
    BY <1>1
  <2> QED BY <1>4, <1>5, <2>1 DEF Iterates
<1>7. after = [k \in 0..n |-> IF k = 0 THEN Current ELSE Next1(after[k - 1], k)]
  <2> HIDE DEF Next1
  <2> QED BY <1>6
<1>8. Seeded(seeds, recrawl) = after[n]
  BY DEF Seeded
<1> HIDE DEF after, Next1
<1> DEFINE G == {k \in 0..n : after[k] \in Frontier /\ Follows(after[k], Current)}
<1>9. 0 \in G
  <2>1. after[0] = Current
    BY <1>1, <1>7
  <2>2. Follows(Current, Current)
    BY FollowsItself
  <2> QED BY <1>1, <2>1, <2>2
<1>10. ASSUME NEW k \in 1..n, k - 1 \in G PROVE k \in G
  <2>1. after[k - 1] \in Frontier /\ Follows(after[k - 1], Current)
    BY <1>10
  <2>2. after[k] = Next1(after[k - 1], k) /\ k \in 0..n
    BY <1>1, <1>7
  <2>3. after[k] \in Frontier /\ Follows(after[k], after[k - 1])
    BY <1>2, <2>1, <2>2
  <2>4. Follows(after[k], Current)
    BY <2>1, <2>3, FollowsIsTransitive
  <2> QED BY <2>2, <2>3, <2>4
<1>11. n \in G
  <2> HIDE DEF G
  <2>1. \A k \in 0..n : k \in G
    BY <1>1, <1>9, <1>10, InductionUpTo
  <2> QED BY <1>1, <2>1
<1> QED BY <1>8, <1>11

LEMMA BeforeSeedFollows ==
  ASSUME NEW n \in DOMAIN Seeds, NEW recrawl, Current \in Frontier
  PROVE  /\ BeforeSeed(n, recrawl) \in Frontier /\ Follows(BeforeSeed(n, recrawl), Current)
         /\ Seeds[n] \in Url
<1> DEFINE s == SubSeq(Seeds, 1, n - 1)
           f == Seeded(s, recrawl)
<1>1. Seeds \in Seq(Url) /\ n \in 1..Len(Seeds)
  BY ConstantsAssumption
<1>2. s \in Seq(Url) /\ Seeds[n] \in Url
  BY <1>1
<1> HIDE DEF s
<1>3. f \in Frontier /\ Follows(f, Current)
  BY <1>2, SeededFollows
<1>4. BeforeSeed(n, recrawl) = Ready(f, Seeds[n], recrawl)
  BY DEF BeforeSeed, s
<1> HIDE DEF f
<1>5. Ready(f, Seeds[n], recrawl) \in Frontier /\ Follows(Ready(f, Seeds[n], recrawl), f)
  BY <1>2, <1>3, ReadyFollows
<1> QED BY <1>2, <1>3, <1>4, <1>5, FollowsIsTransitive

(* What is paid for stays so. *)
LEMMA FollowsCounted ==
  ASSUME NEW f \in Frontier, NEW g \in Frontier, Follows(f, g), NEW u \in Url, NEW k \in Int,
         Counted(g, u, k)
  PROVE  Counted(f, u, k)
<1> DEFINE fp == Cardinality(Positions(f.queue, u))
           gp == Cardinality(Positions(g.queue, u))
           gq == Cardinality(Positions(g.queueFile, u))
           fu == f.unsees[u]
           gu == g.unsees[u]
           fs == One(u \in f.seen)
           gs == One(u \in g.seen)
<1>1. /\ IsFiniteSet(Positions(g.queue, u)) /\ IsFiniteSet(Positions(g.queueFile, u))
      /\ k + gp <= gu + gs /\ k + gq <= gu + 1
  BY DEF Counted
<1>2. IsFiniteSet(Positions(f.queue, u)) /\ fp - fu - fs <= gp - gu - gs /\ fu >= gu
  BY <1>1 DEF Follows
<1>3. fp \in Nat /\ gp \in Nat /\ gq \in Nat
  BY <1>1, <1>2, FS_CardinalityType
<1>4. fu \in Nat /\ gu \in Nat /\ fs \in {0, 1} /\ gs \in {0, 1}
  BY DEF Frontier, One
<1> HIDE DEF fp, gp, gq, fu, gu, fs, gs
<1>5. k + fp <= fu + fs /\ k + fp <= fu + 1 /\ k + gq <= fu + 1
  BY <1>1, <1>2, <1>3, <1>4
<1>6. f.queueFile = f.queue \/ f.queueFile = g.queueFile
  BY DEF Follows
<1> QED BY <1>1, <1>2, <1>5, <1>6 DEF Counted, fp, gq, fu, fs

(* An enqueue that fails leaves a frontier, and one more URL blocked. *)
LEMMA HalfOfferedIs ==
  ASSUME NEW f \in Frontier, NEW x \in Url, NEW depth \in Nat, Accepts(f, x),
         HalfOffered(f, x, depth)
  PROVE  /\ Current' \in Frontier /\ BlockedOf(Current)' \subseteq BlockedOf(f) \cup {x}
         /\ urlStatus' = f.status
         /\ \A u \in Url, k \in Int : Counted(f, u, k) => Counted(Current, u, k)'
<1> DEFINE g == Offered(f, x, depth)
<1>1. /\ g \in Frontier /\ Follows(g, f) /\ g.queueFile = g.queue /\ g.unsees = f.unsees
      /\ PendingIn(g.queue) = PendingIn(f.queue) \cup {x} /\ g.seen = f.seen \cup {x}
  BY OfferedFollows
<1>2. /\ queue' = g.queue /\ seen' = g.seen
      /\ queueFile' \in {f.queueFile, g.queueFile} /\ seenFile' = f.seenFile
      /\ urlStatus' = f.status /\ unsees' = f.unsees
  BY DEF HalfOffered
<1> HIDE DEF g
<1>3. /\ Current' = [queue |-> g.queue, seen |-> g.seen, queueFile |-> queueFile',
                     seenFile |-> f.seenFile, status |-> f.status, unsees |-> f.unsees]
  BY <1>2 DEF Current
<1>4. /\ Current'.queue = g.queue /\ Current'.seen = g.seen /\ Current'.queueFile = queueFile'
      /\ Current'.seenFile = f.seenFile /\ Current'.unsees = f.unsees
  BY <1>3
<1>5. Current' \in Frontier
  BY <1>1, <1>2, <1>3 DEF Frontier
<1>6. BlockedOf(Current)' \subseteq BlockedOf(f) \cup {x}
  BY <1>1, <1>2, <1>4 DEF BlockedOf
<1>7. ASSUME NEW u \in Url, NEW k \in Int, Counted(f, u, k)
      PROVE  Counted(Current, u, k)'
  <2>1. Counted(g, u, k)
    BY <1>1, <1>7, FollowsCounted
  <2> QED BY <1>1, <1>2, <1>4, <1>7, <2>1 DEF Counted
<1> QED BY <1>2, <1>5, <1>6, <1>7

(***************************************************************************)
(* What a step of a worker does: where it goes, and what it changes.       *)
(***************************************************************************)

WorkerState == [pc : Pcs, item : Item \cup {NoItem}, links : Seq(Url), wake : Nat]

Typed == TypeOK /\ HistoryTyped /\ WorkersOK

\* The others stay where they are, and the run goes on.
Elsewhere(w) ==
  /\ worker' \in [Worker -> WorkerState]
  /\ \A v \in Worker : v # w => worker'[v] = worker[v]
  /\ UNCHANGED <<control, crashes, closes>>
  /\ stored' \subseteq Url /\ limitHit' \in [Runs -> BOOLEAN]
  /\ storageErrors' = storageErrors \/ storageErrors' = storageErrors + 1
  /\ missed' = missed \/ missed' = missed + 1

Goes(w, from, to) == worker[w].pc \in from /\ worker'[w].pc \in to
ItemKept(w) == worker'[w].item = worker[w].item

FrontierKept == UNCHANGED <<queue, seen, queueFile, seenFile, unsees, skipped>>
StatusKept   == UNCHANGED <<urlStatus, missed>>
CountsKept   == UNCHANGED counts
ClockKept    == UNCHANGED clock
Throws(w)    == worker'[w].pc = "threw"
Error        == storageErrors' # storageErrors
Dequeued     == /\ queue # <<>> /\ queue' = Tail(queue)
                /\ UNCHANGED <<seen, seenFile, unsees, skipped>>

Quits(w) ==
  /\ Goes(w, {"top", "links", "finish"}, {"done", "threw"}) /\ (Throws(w) => ~initialized)
  /\ ~Throws(w) => Stopping(w) \/ LimitReached(w) \/ queue = <<>>
  /\ FrontierKept /\ StatusKept /\ CountsKept /\ ClockKept
Takes(w) ==
  /\ Goes(w, {"top"}, {"dequeued"}) /\ worker'[w].item = Head(queue) /\ ~LimitReached(w)
  /\ initialized
  /\ Dequeued /\ queueFile' = queue' /\ StatusKept /\ CountsKept /\ ClockKept
LosesTaken(w) ==
  /\ Goes(w, {"top"}, {"threw"}) /\ Error
  /\ Dequeued /\ queueFile' = queueFile /\ StatusKept /\ CountsKept /\ ClockKept
Drops(w) ==
  /\ Goes(w, {"dequeued"}, {"done"}) /\ LimitReached(w)
  /\ FrontierKept /\ StatusKept /\ CountsKept /\ ClockKept
Skips(w) ==
  /\ Goes(w, {"dequeued"}, {"top"}) /\ skipped' = skipped \cup {UrlAt(w)}
  /\ UNCHANGED <<queue, seen, queueFile, seenFile, unsees>>
  /\ StatusKept /\ CountsKept /\ ClockKept
Reserves(w) ==
  /\ Goes(w, {"dequeued"}, {"robots"}) /\ ItemKept(w) /\ ~LimitReached(w) /\ ~TooDeep(w)
  /\ reserved' = [reserved EXCEPT ![RunOf(w)] = @ + 1]
  /\ UNCHANGED <<pagesFetched, fetchedBy, fetches>>
  /\ FrontierKept /\ StatusKept /\ ClockKept
Disallows(w) ==
  /\ Goes(w, {"robots"}, {"finish"}) /\ Mark(UrlAt(w), "disallowed")
  /\ FrontierKept /\ CountsKept /\ ClockKept
Requests(w) ==
  /\ \/ /\ Goes(w, {"robots"}, {"mark"})
        /\ Delay = 0 \/ LastRequest(w) = Never \/ now - LastRequest(w) >= Delay
     \/ Goes(w, {"sleeping"}, {"mark"}) /\ now >= worker[w].wake
  /\ ItemKept(w)
  /\ lastRequest' = IF Delay > 0 THEN [lastRequest EXCEPT ![Domain[UrlAt(w)]] = now]
                                 ELSE lastRequest
  /\ requestAt' = IF Delay > 0 THEN [requestAt EXCEPT ![UrlAt(w)] = now] ELSE requestAt
  /\ UNCHANGED now
  /\ FrontierKept /\ StatusKept /\ CountsKept
Sleeps(w) ==
  /\ Goes(w, {"robots"}, {"sleeping"}) /\ ItemKept(w)
  /\ LastRequest(w) # Never /\ worker'[w].wake = LastRequest(w) + Delay
  /\ FrontierKept /\ StatusKept /\ CountsKept /\ ClockKept
Begins(w) ==
  /\ Goes(w, {"mark"}, {"lookup"}) /\ ItemKept(w) /\ Mark(UrlAt(w), "in_progress")
  /\ FrontierKept /\ CountsKept /\ ClockKept
Looks(w) ==
  /\ Goes(w, {"lookup"}, {"fetch"}) /\ ItemKept(w)
  /\ FrontierKept /\ StatusKept /\ CountsKept /\ ClockKept
Fails(w) ==
  /\ Goes(w, {"fetch"}, {"failed"}) /\ ItemKept(w) /\ Mark(UrlAt(w), "failed") /\ CountFetch(w)
  /\ UNCHANGED <<reserved, pagesFetched, fetchedBy>>
  /\ FrontierKept /\ ClockKept
GivesBack(w) ==
  /\ Goes(w, {"failed"}, {"finish"})
  /\ reserved' = [reserved EXCEPT ![RunOf(w)] = @ - 1]
  /\ UNCHANGED <<pagesFetched, fetchedBy, fetches>>
  /\ FrontierKept /\ StatusKept /\ ClockKept
Fetches(w) ==
  /\ Goes(w, {"fetch"}, {"store", "record"}) /\ ItemKept(w) /\ CountPage(w)
  /\ UNCHANGED reserved
  /\ FrontierKept /\ StatusKept /\ ClockKept
Stores(w) ==
  /\ Goes(w, {"store", "record"}, {"record", "succeed"}) /\ ItemKept(w)
  /\ FrontierKept /\ StatusKept /\ CountsKept /\ ClockKept
LosesRecord(w) ==
  /\ Goes(w, {"lookup", "record", "failed"}, {"threw"}) /\ (Error \/ ~initialized)
  /\ FrontierKept /\ StatusKept /\ CountsKept /\ ClockKept
Succeeds(w) ==
  /\ Goes(w, {"succeed"}, {"links"}) /\ ItemKept(w) /\ Mark(UrlAt(w), "success")
  /\ FrontierKept /\ CountsKept /\ ClockKept
Follows1(w) ==
  /\ Goes(w, {"links"}, {"links"}) /\ ItemKept(w)
  /\ \E u \in Url, depth \in Nat : Becomes(Offered(Current, u, depth))
  /\ UNCHANGED <<skipped, missed>> /\ CountsKept /\ ClockKept
Breaks(w) ==
  /\ Goes(w, {"links"}, {"threw"}) /\ Error
  /\ \E u \in Url, depth \in Nat : Accepts(Current, u) /\ HalfOffered(Current, u, depth)
  /\ UNCHANGED <<skipped, missed>> /\ CountsKept /\ ClockKept
Rests(w) ==
  /\ \/ Goes(w, {"links"}, {"finish"}) /\ ItemKept(w)
     \/ Goes(w, {"finish"}, {"top"})
  /\ FrontierKept /\ StatusKept /\ CountsKept /\ ClockKept

Steps(w) ==
  \/ Quits(w) \/ Takes(w) \/ LosesTaken(w) \/ Drops(w) \/ Skips(w) \/ Reserves(w)
  \/ Disallows(w) \/ Requests(w) \/ Sleeps(w) \/ Begins(w) \/ Looks(w) \/ Fails(w)
  \/ GivesBack(w) \/ Fetches(w) \/ Stores(w) \/ LosesRecord(w) \/ Succeeds(w)
  \/ Follows1(w) \/ Breaks(w) \/ Rests(w)

(* The two ways a worker moves. *)
LEMMA LeaveMoves ==
  ASSUME Typed, NEW w \in Worker, NEW pc \in Pcs, Leave(w, pc)
  PROVE  /\ worker' \in [Worker -> WorkerState] /\ worker'[w].pc = pc
         /\ \A v \in Worker : v # w => worker'[v] = worker[v]
<1>1. worker \in [Worker -> WorkerState]
  BY DEF Typed, TypeOK, WorkerState
<1> DEFINE s == [Off EXCEPT !.pc = pc]
<1>2. s \in WorkerState /\ s.pc = pc
  <2>1. s = [pc |-> pc, item |-> NoItem, links |-> <<>>, wake |-> 0]
    BY DEF Off
  <2>2. <<>> \in Seq(Url) /\ 0 \in Nat
    OBVIOUS
  <2> HIDE DEF s
  <2> QED BY <2>1, <2>2 DEF WorkerState
<1>3. worker' = [worker EXCEPT ![w] = s]
  BY DEF Leave
<1> HIDE DEF s
<1> QED BY <1>1, <1>2, <1>3

LEMMA GotoMoves ==
  ASSUME Typed, NEW w \in Worker, NEW pc \in Pcs, Goto(w, pc)
  PROVE  /\ worker' \in [Worker -> WorkerState] /\ worker'[w].pc = pc /\ ItemKept(w)
         /\ \A v \in Worker : v # w => worker'[v] = worker[v]
<1>1. worker \in [Worker -> WorkerState]
  BY DEF Typed, TypeOK, WorkerState
<1> DEFINE s == [worker[w] EXCEPT !.pc = pc]
<1>2. s \in WorkerState /\ s.pc = pc /\ s.item = worker[w].item
  BY <1>1 DEF WorkerState
<1>3. worker' = [worker EXCEPT ![w] = s]
  BY DEF Goto
<1> HIDE DEF s
<1> QED BY <1>1, <1>2, <1>3 DEF ItemKept

LEMMA CurrentIs ==
  ASSUME Typed
  PROVE  /\ Current \in Frontier
         /\ Current.queue = queue /\ Current.seen = seen /\ Current.status = urlStatus
         /\ Current.queueFile = queueFile /\ Current.seenFile = seenFile
         /\ Current.unsees = unsees
BY DEF Typed, TypeOK, HistoryTyped, Current, Frontier

\* What a status that is written or swallowed leaves behind.
LEMMA MarkIs ==
  ASSUME Typed, NEW u \in Url, NEW s \in Statuses, Mark(u, s)
  PROVE  /\ urlStatus' \in [Url -> Statuses]
         /\ \A v \in Url : v # u => urlStatus'[v] = urlStatus[v]
         /\ storageErrors' = storageErrors \/ storageErrors' = storageErrors + 1
         /\ missed' = missed \/ (missed' = missed + 1 /\ s \in Final /\ (Error \/ ~initialized))
         /\ s \in Final => urlStatus'[u] \in Final \/ missed' # missed
         /\ s \notin Final => urlStatus'[u] = urlStatus[u] \/ urlStatus'[u] = s
<1>1. /\ urlStatus \in [Url -> Statuses] /\ storageErrors \in Nat /\ missed \in Nat
      /\ storageErrors + 1 # storageErrors
      /\ missed + 1 # missed
  BY DEF Typed, TypeOK, HistoryTyped
<1>2. Marked(u, s) = [urlStatus EXCEPT ![u] = s]
  BY DEF Marked
<1>3. CASE initialized /\ urlStatus' = Marked(u, s) /\ UNCHANGED <<storageErrors, missed>>
  BY <1>1, <1>2, <1>3
<1>4. CASE MarkSwallowed(u, s)
  <2>1. /\ missed' = IF s \in Final THEN missed + 1 ELSE missed
        /\ urlStatus' = urlStatus \/ urlStatus' = [urlStatus EXCEPT ![u] = s]
        /\ \/ ~initialized /\ storageErrors' = storageErrors
           \/ storageErrors' = storageErrors + 1
    BY <1>2, <1>4 DEF MarkSwallowed
  <2> QED BY <1>1, <2>1 DEF Error
<1> QED BY <1>3, <1>4 DEF Mark

\* Enqueuing a link leaves a frontier that follows, written or half of it.
LEMMA FollowedIs ==
  ASSUME Typed, NEW w, Follows1(w)
  PROVE  Current' \in Frontier /\ Follows(Current', Current)
<1>1. PICK u \in Url, depth \in Nat : Becomes(Offered(Current, u, depth))
  BY DEF Follows1
<1> DEFINE g == Offered(Current, u, depth)
<1>2. g \in Frontier /\ Follows(g, Current)
  BY CurrentIs, OfferedFollows
<1>3. Becomes(g)
  BY <1>1
<1> HIDE DEF g
<1>4. Current' = g
  BY <1>2, <1>3 DEF Becomes, Current, Frontier
<1> QED BY <1>2, <1>4

LEMMA BrokenIs ==
  ASSUME Typed, NEW w, Breaks(w)
  PROVE  /\ Current' \in Frontier /\ urlStatus' = urlStatus
         /\ \E x \in Url : BlockedOf(Current)' \subseteq BlockedOf(Current) \cup {x}
         /\ \A u \in Url, k \in Int : Counted(Current, u, k) => Counted(Current, u, k)'
<1>1. PICK u \in Url, depth \in Nat : Accepts(Current, u) /\ HalfOffered(Current, u, depth)
  BY DEF Breaks
<1> QED BY <1>1, CurrentIs, HalfOfferedIs

LEMMA StepMoves ==
  ASSUME Typed, NEW w \in Worker, WorkerStep(w)
  PROVE  Elsewhere(w) /\ Steps(w)
<1>1. /\ worker \in [Worker -> WorkerState] /\ stored \subseteq Url
      /\ limitHit \in [Runs -> BOOLEAN] /\ RunOf(w) \in Runs
      /\ fetches \in [Url -> Nat] /\ fetchedBy \in [Runs -> Nat] /\ reserved \in [Runs -> Nat]
      /\ storageErrors \in Nat /\ missed \in Nat
  BY DEF Typed, TypeOK, HistoryTyped, WorkerState, Worker, RunOf
<1>2. worker[w].pc \in WithItem => worker[w].item \in Item /\ UrlAt(w) \in Url
  BY DEF Typed, WorkersOK, Item, UrlAt
<1>3. storageErrors + 1 # storageErrors
  BY <1>1
<1>4. ASSUME NEW pc \in Pcs, Leave(w, pc)
      PROVE  /\ worker' \in [Worker -> WorkerState] /\ worker'[w].pc = pc
             /\ \A v \in Worker : v # w => worker'[v] = worker[v]
  BY <1>4, LeaveMoves
<1>5. ASSUME NEW pc \in Pcs, Goto(w, pc)
      PROVE  /\ worker' \in [Worker -> WorkerState] /\ worker'[w].pc = pc /\ ItemKept(w)
             /\ \A v \in Worker : v # w => worker'[v] = worker[v]
  BY <1>5, GotoMoves
<1>6. {"done", "threw", "top", "dequeued", "robots", "sleeping", "mark", "lookup", "fetch", "failed",
       "store", "record", "succeed", "links", "finish"} \subseteq Pcs
  BY DEF Pcs
<1>30. ASSUME NEW s \in Statuses, Mark(UrlAt(w), s), UrlAt(w) \in Url
       PROVE  /\ storageErrors' = storageErrors \/ storageErrors' = storageErrors + 1
              /\ missed' = missed \/ missed' = missed + 1
  BY <1>30, MarkIs
<1>31. {"disallowed", "in_progress", "failed", "success"} \subseteq Statuses
  BY DEF Statuses
<1>32. {"robots", "mark", "fetch", "succeed"} \subseteq WithItem
  BY DEF WithItem, Unmarked, Unfetched
<1> USE DEF Elsewhere, Steps, Goes, FrontierKept, StatusKept, CountsKept, ClockKept, Throws, Error,
            At, frontier, storage, control, counts, clock, faults
<1>7. CASE LoopStops(w) \/ LoopAtLimit(w) \/ LoopFindsNothing(w)
  <2>1. Leave(w, "done") /\ At(w, "top")
    BY <1>7 DEF LoopStops, LoopAtLimit, LoopFindsNothing, MayDequeue
  <2>2. limitHit' \in [Runs -> BOOLEAN]
    BY <1>1, <1>7 DEF LoopStops, LoopAtLimit, LoopFindsNothing, ReportLimit
  <2>3. Quits(w) /\ Elsewhere(w)
    BY <1>1, <1>4, <1>6, <1>7, <2>1, <2>2 DEF LoopStops, LoopAtLimit, LoopFindsNothing, Quits
  <2> QED BY <2>3
<1>8. CASE LoopThrows(w) \/ FollowThrows(w)
  <2>1. Leave(w, "threw") /\ worker[w].pc \in {"top", "links", "finish"}
    BY <1>8 DEF LoopThrows, FollowThrows, MayDequeue
  <2>2. Quits(w) /\ Elsewhere(w)
    BY <1>1, <1>4, <1>6, <1>8, <2>1 DEF LoopThrows, FollowThrows, Quits
  <2> QED BY <2>2
<1>9. CASE LoopDequeues(w)
  <2> DEFINE h == Head(queue)
             s == [Off EXCEPT !.pc = "dequeued", !.item = h]
  <2>1. queue # <<>> /\ queue \in Seq(Item) /\ Head(queue) \in Item
    BY <1>9 DEF LoopDequeues, Typed, TypeOK
  <2>2. s = [pc |-> "dequeued", item |-> h, links |-> <<>>, wake |-> 0]
    <3> DEFINE a == [pc |-> "dequeued", item |-> NoItem, links |-> <<>>, wake |-> 0]
    <3>1. [Off EXCEPT !.pc = "dequeued"] = a
      BY DEF Off
    <3>2. s = [[Off EXCEPT !.pc = "dequeued"] EXCEPT !.item = h]
      BY DEF Off
    <3> HIDE DEF h
    <3>3. [a EXCEPT !.item = h] = [pc |-> "dequeued", item |-> h, links |-> <<>>, wake |-> 0]
      OBVIOUS
    <3> HIDE DEF a, s
    <3> QED BY <3>1, <3>2, <3>3
  <2>3. <<>> \in Seq(Url) /\ 0 \in Nat /\ "dequeued" \in Pcs
    BY DEF Pcs
  <2>4. worker' = [worker EXCEPT ![w] = s]
    BY <1>9 DEF LoopDequeues
  <2> HIDE DEF s
  <2>5. s \in WorkerState /\ s.pc = "dequeued" /\ s.item = Head(queue)
    BY <2>1, <2>2, <2>3 DEF WorkerState
  <2>6. /\ worker' \in [Worker -> WorkerState] /\ worker'[w] = s
        /\ \A v \in Worker : v # w => worker'[v] = worker[v]
    BY <1>1, <2>4, <2>5
  <2>7. Takes(w) /\ Elsewhere(w)
    BY <1>1, <1>9, <2>5, <2>6 DEF LoopDequeues, MayDequeue, Takes, Dequeued
  <2> QED BY <2>7
<1>10. CASE DequeueFails(w)
  <2>1. LosesTaken(w) /\ Elsewhere(w)
    BY <1>1, <1>3, <1>4, <1>6, <1>10 DEF DequeueFails, MayDequeue, LosesTaken, Dequeued
  <2> QED BY <2>1
<1>11. CASE FollowFails(w)
  <2>1. Breaks(w) /\ Elsewhere(w)
    <3> DEFINE u == Head(worker[w].links)
               d == worker[w].item.depth + 1
    <3>1. worker[w].links \in Seq(Url) /\ worker[w].links # <<>> /\ worker[w].item \in Item
      BY <1>1, <1>2, <1>11 DEF FollowFails, WorkerState, WithItem
    <3>2. u \in Url /\ d \in Nat
      BY <3>1 DEF Item
    <3>3. Accepts(Current, u) /\ HalfOffered(Current, u, d)
      BY <1>11 DEF FollowFails
    <3> HIDE DEF u, d
    <3>4. \E a \in Url, b \in Nat : Accepts(Current, a) /\ HalfOffered(Current, a, b)
      BY <3>2, <3>3
    <3> QED BY <1>1, <1>3, <1>4, <1>6, <1>11, <3>4 DEF FollowFails, Breaks
  <2> QED BY <2>1
<1>12. CASE DropAtLimit(w)
  <2>1. limitHit' \in [Runs -> BOOLEAN]
    BY <1>1, <1>12 DEF DropAtLimit, ReportLimit
  <2>2. Drops(w) /\ Elsewhere(w)
    BY <1>1, <1>4, <1>6, <1>12, <2>1 DEF DropAtLimit, Drops
  <2> QED BY <2>2
<1>13. CASE SkipTooDeep(w)
  <2>1. Skips(w) /\ Elsewhere(w)
    BY <1>1, <1>4, <1>6, <1>13 DEF SkipTooDeep, Skips
  <2> QED BY <2>1
<1>14. CASE Reserve(w)
  <2>1. Reserves(w) /\ Elsewhere(w)
    BY <1>1, <1>5, <1>6, <1>14 DEF Reserve, Reserves
  <2> QED BY <2>1
<1>15. CASE RobotsDisallows(w)
  <2>1. Disallows(w) /\ Elsewhere(w)
    BY <1>1, <1>2, <1>5, <1>6, <1>15, <1>30, <1>31, <1>32 DEF RobotsDisallows, Disallows
  <2> QED BY <2>1
<1>16. CASE PolitePasses(w) \/ PoliteWakes(w)
  <2>1. LetThrough(w)
    BY <1>16 DEF PolitePasses, PoliteWakes
  <2>2. Requests(w) /\ Elsewhere(w)
    BY <1>1, <1>5, <1>6, <1>16, <2>1 DEF PolitePasses, PoliteWakes, LetThrough, Requests
  <2> QED BY <2>2
<1>17. CASE PoliteSleeps(w)
  <2> DEFINE k == LastRequest(w) + Delay
             s == [worker[w] EXCEPT !.pc = "sleeping", !.wake = k]
  <2>1. LastRequest(w) \in Nat /\ Delay \in Nat
    <3>1. Domain[UrlAt(w)] \in Domains /\ LastRequest(w) # Never
      BY <1>2, <1>17 DEF PoliteSleeps, Domains, WithItem, Unmarked, Unfetched, Holding
    <3> QED BY <3>1, ConstantsAssumption DEF LastRequest, Typed, HistoryTyped, Never
  <2>2. worker' = [worker EXCEPT ![w] = s]
    BY <1>1, <1>17 DEF PoliteSleeps
  <2>3. s \in WorkerState /\ s.pc = "sleeping" /\ s.item = worker[w].item /\ s.wake = k
    <3>1. k \in Nat
      BY <2>1
    <3> HIDE DEF k
    <3> QED BY <1>1, <3>1 DEF WorkerState, Pcs
  <2> HIDE DEF s
  <2>4. /\ worker' \in [Worker -> WorkerState] /\ worker'[w] = s
        /\ \A v \in Worker : v # w => worker'[v] = worker[v]
    BY <1>1, <2>2, <2>3
  <2>5. Sleeps(w) /\ Elsewhere(w)
    BY <1>1, <1>17, <2>3, <2>4 DEF PoliteSleeps, Sleeps, ItemKept
  <2> QED BY <2>5
<1>18. CASE MarkInProgress(w)
  <2>1. Begins(w) /\ Elsewhere(w)
    BY <1>1, <1>2, <1>5, <1>6, <1>18, <1>30, <1>31, <1>32 DEF MarkInProgress, Begins
  <2> QED BY <2>1
<1>19. CASE FetchFails(w)
  <2>1. Fails(w) /\ Elsewhere(w)
    BY <1>1, <1>2, <1>5, <1>6, <1>19, <1>30, <1>31, <1>32 DEF FetchFails, Fails
  <2> QED BY <2>1
<1>20. CASE RecordFailure(w)
  <2>1. GivesBack(w) /\ Elsewhere(w)
    BY <1>1, <1>5, <1>6, <1>20 DEF RecordFailure, GivesBack
  <2> QED BY <2>1
<1>33. CASE FindDocument(w)
  <2>1. Looks(w) /\ Elsewhere(w)
    BY <1>1, <1>5, <1>6, <1>33 DEF FindDocument, Looks
  <2> QED BY <2>1
<1>21. CASE FetchNotModified(w)
  <2>1. Fetches(w) /\ Elsewhere(w)
    BY <1>1, <1>5, <1>6, <1>21 DEF FetchNotModified, Fetches
  <2> QED BY <2>1
<1>22. CASE FetchSucceeds(w)
  <2> DEFINE l == IF worker[w].item.depth < maxDepth[RunOf(w)] THEN Links[UrlAt(w)] ELSE <<>>
             s == [worker[w] EXCEPT !.pc = "store", !.links = l]
  <2>1. l \in Seq(Url)
    <3>1. UrlAt(w) \in Url
      BY <1>2, <1>22 DEF FetchSucceeds, WithItem, Unmarked, Unfetched, Holding
    <3>2. Links[UrlAt(w)] \in Seq(Url) /\ <<>> \in Seq(Url)
      BY <3>1, ConstantsAssumption
    <3> QED BY <3>2
  <2>2. worker' = [worker EXCEPT ![w] = s]
    BY <1>1, <1>22 DEF FetchSucceeds
  <2> HIDE DEF l
  <2>3. s \in WorkerState /\ s.pc = "store" /\ s.item = worker[w].item
    BY <1>1, <2>1 DEF WorkerState, Pcs
  <2> HIDE DEF s
  <2>4. /\ worker' \in [Worker -> WorkerState] /\ worker'[w] = s
        /\ \A v \in Worker : v # w => worker'[v] = worker[v]
    BY <1>1, <2>2, <2>3
  <2>5. Fetches(w) /\ Elsewhere(w)
    BY <1>1, <1>22, <2>3, <2>4 DEF FetchSucceeds, Fetches, ItemKept
  <2> QED BY <2>5
<1>23. CASE StoreDocument(w) \/ StoreDocumentFails(w)
  <2>1. Goto(w, "record") /\ At(w, "store")
    BY <1>23 DEF StoreDocument, StoreDocumentFails
  <2>2. stored' \subseteq Url
    <3>1. UrlAt(w) \in Url
      BY <1>2, <2>1 DEF WithItem, Unmarked
    <3> QED BY <1>1, <1>23, <3>1 DEF StoreDocument, StoreDocumentFails
  <2>3. Stores(w) /\ Elsewhere(w)
    BY <1>1, <1>5, <1>6, <1>23, <2>1, <2>2 DEF StoreDocument, StoreDocumentFails, Stores
  <2> QED BY <2>3
<1>24. CASE RecordCrawl(w)
  <2>1. Stores(w) /\ Elsewhere(w)
    BY <1>1, <1>5, <1>6, <1>24 DEF RecordCrawl, Stores
  <2> QED BY <2>1
<1>25. CASE RecordThrows(w) \/ StorageThrows(w)
  <2>1. LosesRecord(w) /\ Elsewhere(w)
    BY <1>1, <1>3, <1>4, <1>6, <1>25 DEF RecordThrows, StorageThrows, LosesRecord
  <2> QED BY <2>1
<1>26. CASE MarkSuccess(w)
  <2>1. Succeeds(w) /\ Elsewhere(w)
    BY <1>1, <1>2, <1>5, <1>6, <1>26, <1>30, <1>31, <1>32 DEF MarkSuccess, Succeeds
  <2> QED BY <2>1
<1>27. CASE FollowLink(w)
  <2> DEFINE u == Head(worker[w].links)
             d == worker[w].item.depth + 1
             s == [worker[w] EXCEPT !.links = Tail(worker[w].links)]
  <2>1. worker[w].links \in Seq(Url) /\ worker[w].links # <<>> /\ worker[w].item \in Item
    BY <1>1, <1>2, <1>27 DEF FollowLink, WorkerState, WithItem
  <2>2. u \in Url /\ d \in Nat
    BY <2>1 DEF Item
  <2>3. Becomes(Offered(Current, u, d))
    BY <1>27 DEF FollowLink
  <2> HIDE DEF u, d
  <2>4. \E a \in Url, b \in Nat : Becomes(Offered(Current, a, b))
    BY <2>2, <2>3
  <2>5. worker' = [worker EXCEPT ![w] = s]
    BY <1>1, <1>27 DEF FollowLink
  <2>6. s \in WorkerState /\ s.pc = "links" /\ s.item = worker[w].item
    <3>1. Tail(worker[w].links) \in Seq(Url)
      BY <2>1
    <3> QED BY <1>1, <1>27, <3>1 DEF WorkerState, FollowLink
  <2> HIDE DEF s
  <2>7. /\ worker' \in [Worker -> WorkerState] /\ worker'[w] = s
        /\ \A v \in Worker : v # w => worker'[v] = worker[v]
    BY <1>1, <2>5, <2>6
  <2>8. Follows1(w) /\ Elsewhere(w)
    BY <1>1, <1>27, <2>4, <2>6, <2>7 DEF FollowLink, Follows1, ItemKept
  <2> QED BY <2>8
<1>28. CASE LinksDone(w)
  <2>1. Rests(w) /\ Elsewhere(w)
    BY <1>1, <1>5, <1>6, <1>28 DEF LinksDone, Rests
  <2> QED BY <2>1
<1>29. CASE FinishItem(w)
  <2>1. Rests(w) /\ Elsewhere(w)
    BY <1>1, <1>4, <1>6, <1>29 DEF FinishItem, Rests
  <2> QED BY <2>1
<1> HIDE DEF Elsewhere, Steps
<1> QED BY <1>7, <1>8, <1>9, <1>10, <1>11, <1>12, <1>13, <1>14, <1>15, <1>16, <1>17, <1>18, <1>19,
           <1>20, <1>21, <1>22, <1>23, <1>24, <1>25, <1>26, <1>27, <1>28, <1>29, <1>33
        DEF WorkerStep

(***************************************************************************)
(* The invariant, step by step.                                            *)
(***************************************************************************)

LEMMA WorkersAreFinite ==
  /\ IsFiniteSet(Worker) /\ Concurrency \in Nat \ {0}
  /\ \A S \in SUBSET Worker : IsFiniteSet(S) /\ Cardinality(S) \in Nat
<1>1. Concurrency \in Nat \ {0} /\ MaxRuns \in Nat
  BY ConstantsAssumption
<1>2. IsFiniteSet(1..MaxRuns) /\ IsFiniteSet(1..Concurrency)
  BY <1>1, FS_Interval
<1>3. IsFiniteSet(Worker)
  BY <1>2, FS_Product DEF Worker, Runs
<1>4. ASSUME NEW S \in SUBSET Worker PROVE IsFiniteSet(S) /\ Cardinality(S) \in Nat
  BY <1>3, FS_Subset, FS_CardinalityType
<1> QED BY <1>1, <1>3, <1>4

LEMMA RunOfIs ==
  /\ \A w \in Worker : RunOf(w) \in Runs
  /\ Runs \subseteq Nat \ {0}
  /\ \A r \in Runs : Cardinality(WorkersOf(r)) = Concurrency
<1>1. \A w \in Worker : RunOf(w) \in Runs
  BY DEF Worker, RunOf
<1>2. Runs \subseteq Nat \ {0}
  BY ConstantsAssumption DEF Runs
<1>3. ASSUME NEW r \in Runs PROVE Cardinality(WorkersOf(r)) = Concurrency
  <2> DEFINE f == [i \in 1..Concurrency |-> <<r, i>>]
  <2>1. \A i \in 1..Concurrency : <<r, i>> \in WorkersOf(r)
    BY DEF WorkersOf, Worker, RunOf
  <2>2. \A w \in WorkersOf(r) : \E i \in 1..Concurrency : w = <<r, i>>
    BY DEF WorkersOf, Worker, RunOf
  <2>3. f \in Bijection(1..Concurrency, WorkersOf(r))
    BY <2>1, <2>2 DEF Bijection, Injection, Surjection, IsInjective
  <2>4. IsFiniteSet(1..Concurrency) /\ Cardinality(1..Concurrency) = Concurrency
    BY WorkersAreFinite, FS_Interval
  <2> QED BY <2>3, <2>4, FS_Bijection DEF ExistsBijection
<1> QED BY <1>1, <1>2, <1>3

(* A step of one worker changes how many of them are anywhere by that worker. *)
LEMMA HoldersMove ==
  ASSUME NEW w \in Worker, Elsewhere(w), NEW r \in Runs
  PROVE  /\ Cardinality(HoldersOf(r)) \in Nat /\ Cardinality(HoldersOf(r)') \in Nat
         /\ Cardinality(HoldersOf(r)')
              = Cardinality(HoldersOf(r)) - One(RunOf(w) = r /\ worker[w].pc \in Holding)
                                          + One(RunOf(w) = r /\ worker'[w].pc \in Holding)
<1> DEFINE A == HoldersOf(r)
           B == HoldersOf(r)'
<1>1. A \subseteq Worker /\ B = {v \in Worker : RunOf(v) = r /\ worker'[v].pc \in Holding}
  BY DEF HoldersOf
<1>2. \A v : v # w => (v \in A <=> v \in B)
  BY <1>1 DEF HoldersOf, Elsewhere
<1>3. (w \in A <=> RunOf(w) = r /\ worker[w].pc \in Holding)
      /\ (w \in B <=> RunOf(w) = r /\ worker'[w].pc \in Holding)
  BY <1>1 DEF HoldersOf
<1> HIDE DEF A, B
<1>4. /\ Cardinality(A) \in Nat /\ Cardinality(B) \in Nat
      /\ Cardinality(B) = Cardinality(A) - One(w \in A) + One(w \in B)
  <2>1. IsFiniteSet(A)
    BY <1>1, WorkersAreFinite
  <2> QED BY <1>2, <2>1, CountMoves
<1> QED BY <1>3, <1>4 DEF A, B

LEMMA ReservationsStep ==
  ASSUME Typed, ReservationsOK, NEW w \in Worker, Elsewhere(w), Steps(w)
  PROVE  /\ ReservationsOK'
         /\ reserved' \in [Runs -> Nat] /\ fetchedBy' \in [Runs -> Nat]
<1>1. RunOf(w) \in Runs /\ MaxPages \in Nat
  BY RunOfIs, ConstantsAssumption
<1>2. reserved \in [Runs -> Nat] /\ fetchedBy \in [Runs -> Nat]
  BY DEF Typed, TypeOK, HistoryTyped
<1> DEFINE R(r) == reserved[r]
           F(r) == fetchedBy[r]
           H(r) == Cardinality(HoldersOf(r))
           mine(r) == RunOf(w) = r
           Was(r) == One(mine(r) /\ worker[w].pc \in Holding)
           Is(r)  == One(mine(r) /\ worker'[w].pc \in Holding)
<1>3. ASSUME NEW r \in Runs
      PROVE  /\ H(r) \in Nat /\ H(r)' \in Nat /\ H(r)' = H(r) - Was(r) + Is(r)
             /\ R(r) \in Nat /\ F(r) \in Nat /\ F(r) + H(r) <= R(r) /\ R(r) <= MaxPages
  BY <1>2, HoldersMove DEF ReservationsOK
<1>4. CASE \/ Quits(w) \/ Takes(w) \/ LosesTaken(w) \/ Drops(w) \/ Skips(w)
           \/ Disallows(w) \/ Requests(w) \/ Sleeps(w) \/ Begins(w) \/ Looks(w) \/ Fails(w)
           \/ Stores(w) \/ LosesRecord(w) \/ Succeeds(w) \/ Follows1(w) \/ Breaks(w) \/ Rests(w)
  <2>1. reserved' = reserved /\ fetchedBy' = fetchedBy
    BY <1>4 DEF Quits, Takes, LosesTaken, Drops, Skips, Disallows, Requests, Sleeps, Begins, Looks, Fails,
                Stores, LosesRecord, Succeeds, Follows1, Breaks, Rests, CountsKept, counts
  <2>2. worker'[w].pc \in Holding => worker[w].pc \in Holding
    BY <1>4 DEF Quits, Takes, LosesTaken, Drops, Skips, Disallows, Requests, Sleeps, Begins, Looks, Fails,
                Stores, LosesRecord, Succeeds, Follows1, Breaks, Rests, Goes, Holding
  <2>3. ASSUME NEW r \in Runs PROVE F(r) + H(r)' <= R(r)
    <3>1. Is(r) <= Was(r) /\ Is(r) \in Nat /\ Was(r) \in Nat
      BY <2>2 DEF One
    <3> HIDE DEF Is, Was, H, R, F
    <3> QED BY <1>3, <3>1
  <2> QED BY <1>2, <1>3, <2>1, <2>3 DEF ReservationsOK
<1>6. CASE Reserves(w)
  <2>1. fetchedBy' = fetchedBy /\ reserved' = [reserved EXCEPT ![RunOf(w)] = reserved[RunOf(w)] + 1]
    BY <1>6 DEF Reserves
  <2>2. ~ (reserved[RunOf(w)] >= MaxPages)
    BY <1>6 DEF Reserves, LimitReached
  <2>3. worker[w].pc \notin Holding /\ worker'[w].pc \in Holding
    BY <1>6 DEF Reserves, Goes, Holding
  <2>4. ASSUME NEW r \in Runs
        PROVE  reserved'[r] \in Nat /\ F(r) + H(r)' <= reserved'[r] /\ reserved'[r] <= MaxPages
    <3>1. Was(r) = 0 /\ Is(r) = One(mine(r))
      BY <2>3 DEF One
    <3>2. reserved'[r] = R(r) + One(mine(r)) /\ (mine(r) => R(r) < MaxPages)
      BY <1>1, <1>2, <1>3, <2>1, <2>2 DEF One
    <3>3. One(mine(r)) \in {0, 1} /\ (One(mine(r)) = 1 => mine(r))
      BY DEF One
    <3> HIDE DEF Is, Was, H, R, F, mine
    <3> QED BY <1>1, <1>3, <3>1, <3>2, <3>3
  <2>5. reserved' \in [Runs -> Nat]
    BY <1>1, <1>2, <2>1
  <2> QED BY <1>2, <2>1, <2>4, <2>5 DEF ReservationsOK
<1>7. CASE GivesBack(w)
  <2>1. fetchedBy' = fetchedBy /\ reserved' = [reserved EXCEPT ![RunOf(w)] = reserved[RunOf(w)] - 1]
    BY <1>7 DEF GivesBack
  <2>2. worker[w].pc \in Holding /\ worker'[w].pc \notin Holding
    BY <1>7 DEF GivesBack, Goes, Holding
  <2>3. ASSUME NEW r \in Runs
        PROVE  reserved'[r] \in Nat /\ F(r) + H(r)' <= reserved'[r] /\ reserved'[r] <= MaxPages
    <3>1. Is(r) = 0 /\ Was(r) = One(mine(r))
      BY <2>2 DEF One
    <3>2. reserved'[r] = R(r) - One(mine(r))
      BY <1>1, <1>2, <1>3, <2>1 DEF One
    <3>3. One(mine(r)) \in {0, 1}
      BY DEF One
    <3> HIDE DEF Is, Was, H, R, F, mine
    <3> QED BY <1>1, <1>3, <3>1, <3>2, <3>3
  <2>4. reserved' \in [Runs -> Nat]
    BY <1>1, <1>2, <2>1, <2>3
  <2> QED BY <1>2, <2>1, <2>3, <2>4 DEF ReservationsOK
<1>8. CASE Fetches(w)
  <2>1. reserved' = reserved /\ fetchedBy' = [fetchedBy EXCEPT ![RunOf(w)] = fetchedBy[RunOf(w)] + 1]
    BY <1>8 DEF Fetches, CountPage
  <2>2. worker[w].pc \in Holding /\ worker'[w].pc \notin Holding
    BY <1>8 DEF Fetches, Goes, Holding
  <2>3. ASSUME NEW r \in Runs PROVE fetchedBy'[r] + H(r)' <= R(r)
    <3>1. Is(r) = 0 /\ Was(r) = One(mine(r))
      BY <2>2 DEF One
    <3>2. fetchedBy'[r] = F(r) + One(mine(r))
      BY <1>1, <1>2, <1>3, <2>1 DEF One
    <3>3. One(mine(r)) \in {0, 1}
      BY DEF One
    <3> HIDE DEF Is, Was, H, R, F, mine
    <3> QED BY <1>1, <1>3, <3>1, <3>2, <3>3
  <2>4. fetchedBy' \in [Runs -> Nat]
    BY <1>1, <1>2, <2>1
  <2> QED BY <1>2, <1>3, <2>1, <2>3, <2>4 DEF ReservationsOK
<1> QED BY <1>4, <1>6, <1>7, <1>8 DEF Steps

(* The item a worker has is one, and one it may fetch when it fetches it. *)
LEMMA WorkersStep ==
  ASSUME Typed, NEW w \in Worker, Elsewhere(w), Steps(w)
  PROVE  WorkersOK'
<1>1. run' = run /\ maxDepth' = maxDepth
  BY DEF Elsewhere, control
<1>2. worker[w].pc \in WithItem => worker[w].item \in Item
  BY DEF Typed, WorkersOK
<1>3. RunOf(w) > run => worker[w].pc = "off"
  BY DEF Typed, WorkersOK
<1>4. worker[w].pc \in Holding => worker[w].item.depth <= maxDepth[RunOf(w)]
  BY DEF Typed, WorkersOK
<1>5. worker[w].pc # "off"
  BY DEF Steps, Quits, Takes, LosesTaken, Drops, Skips, Reserves, Disallows, Requests, Sleeps, Begins,
         Looks, Fails, GivesBack, Fetches, Stores, LosesRecord, Succeeds, Follows1, Breaks, Rests, Goes
<1>6. worker'[w].pc \in WithItem => worker'[w].item \in Item
  <2>1. CASE Takes(w)
    <3>1. Head(queue) \in Item
      BY <2>1 DEF Takes, Dequeued, Typed, TypeOK
    <3> QED BY <2>1, <3>1 DEF Takes
  <2>2. CASE \/ Quits(w) \/ LosesTaken(w) \/ Drops(w) \/ Skips(w) \/ Disallows(w) \/ GivesBack(w)
             \/ Breaks(w) \/ LosesRecord(w)
    <3>1. worker'[w].pc \in {"done", "threw", "top", "finish"}
      BY <2>2 DEF Quits, LosesTaken, Drops, Skips, Disallows, GivesBack, Breaks, LosesRecord,
                  Goes
    <3> QED BY <3>1 DEF WithItem, Unmarked, Unfetched, Holding
  <2>3. CASE \/ Reserves(w) \/ Requests(w) \/ Sleeps(w) \/ Begins(w) \/ Looks(w) \/ Fails(w)
             \/ Fetches(w) \/ Stores(w) \/ Succeeds(w)
    <3>1. worker[w].pc \in WithItem /\ worker'[w].item = worker[w].item
      BY <2>3 DEF Reserves, Requests, Sleeps, Begins, Looks, Fails, Fetches, Stores, Succeeds, Goes, ItemKept,
                  WithItem, Unmarked, Unfetched, Holding
    <3> QED BY <1>2, <3>1
  <2>4. CASE Follows1(w) \/ Rests(w)
    <3>1. \/ worker[w].pc \in WithItem /\ worker'[w].item = worker[w].item
          \/ worker'[w].pc = "top"
      BY <2>4 DEF Follows1, Rests, Goes, ItemKept, WithItem
    <3>2. worker'[w].pc = "top" => worker'[w].pc \notin WithItem
      BY DEF WithItem, Unmarked, Unfetched, Holding
    <3> QED BY <1>2, <3>1, <3>2
  <2> QED BY <2>1, <2>2, <2>3, <2>4 DEF Steps
<1>7. worker'[w].pc \in Holding => worker'[w].item.depth <= maxDepth[RunOf(w)]
  <2>1. CASE Reserves(w)
    <3>1. ~ (worker[w].item.depth > maxDepth[RunOf(w)]) /\ worker'[w].item = worker[w].item
      BY <2>1 DEF Reserves, TooDeep, ItemKept
    <3>2. worker[w].item.depth \in Nat /\ maxDepth[RunOf(w)] \in Nat
      <4>1. worker[w].item \in Item
        BY <1>2, <2>1 DEF Reserves, Goes, WithItem, Unmarked, Unfetched
      <4> QED BY <4>1, RunOfIs DEF Item, Typed, TypeOK
    <3> QED BY <3>1, <3>2
  <2>2. CASE Requests(w) \/ Sleeps(w) \/ Begins(w) \/ Looks(w) \/ Fails(w)
    <3>1. worker[w].pc \in Holding /\ worker'[w].item = worker[w].item
      BY <2>2 DEF Requests, Sleeps, Begins, Looks, Fails, Goes, Holding, ItemKept
    <3> QED BY <1>4, <3>1
  <2>3. CASE \/ Quits(w) \/ LosesTaken(w) \/ Drops(w) \/ Skips(w) \/ Disallows(w) \/ GivesBack(w)
             \/ LosesRecord(w) \/ Takes(w) \/ Fetches(w) \/ Stores(w)
             \/ Succeeds(w) \/ Follows1(w) \/ Breaks(w) \/ Rests(w)
    <3>1. worker'[w].pc \notin Holding
      BY <2>3 DEF Quits, LosesTaken, Drops, Skips, Disallows, GivesBack, LosesRecord,
                  Takes, Fetches, Stores, Succeeds, Follows1, Breaks, Rests, Goes, Holding
    <3> QED BY <3>1
  <2> QED BY <2>1, <2>2, <2>3 DEF Steps
<1>8. ASSUME NEW v \in Worker
      PROVE  /\ worker'[v].pc \in WithItem => worker'[v].item \in Item
             /\ RunOf(v) > run' => worker'[v].pc = "off"
             /\ worker'[v].pc \in Holding => worker'[v].item.depth <= maxDepth'[RunOf(v)]
  <2>1. CASE v = w
    BY <1>1, <1>3, <1>5, <1>6, <1>7, <2>1
  <2>2. CASE v # w
    <3>1. worker'[v] = worker[v]
      BY <2>2 DEF Elsewhere
    <3> QED BY <1>1, <3>1 DEF Typed, WorkersOK
  <2> QED BY <2>1, <2>2
<1> QED BY <1>8 DEF WorkersOK

LEMMA TypesStep ==
  ASSUME Typed, ReservationsOK, NEW w \in Worker, Elsewhere(w), Steps(w)
  PROVE  TypeOK' /\ HistoryTyped'
<1>1. /\ queue \in Seq(Item) /\ seen \subseteq Url /\ urlStatus \in [Url -> Statuses]
      /\ queueFile \in Seq(Item) /\ seenFile \subseteq Url /\ missed \in Nat
      /\ reserved \in [Runs -> Nat] /\ pagesFetched \in Nat /\ now \in Nat
      /\ fetchedBy \in [Runs -> Nat] /\ fetches \in [Url -> Nat] /\ unsees \in [Url -> Nat]
      /\ requestAt \in [Url -> Nat \cup {Never}] /\ lastRequest \in [Domains -> Nat \cup {Never}]
      /\ skipped \subseteq Url /\ storageErrors \in Nat
  BY DEF Typed, TypeOK, HistoryTyped
<1>2. reserved' \in [Runs -> Nat] /\ fetchedBy' \in [Runs -> Nat]
  BY ReservationsStep
<1>3. worker[w].pc \in WithItem => UrlAt(w) \in Url
  BY DEF Typed, WorkersOK, UrlAt, Item
<1>4. /\ queue' \in Seq(Item) /\ seen' \subseteq Url /\ unsees' \in [Url -> Nat]
      /\ queueFile' \in Seq(Item) /\ seenFile' \subseteq Url
  <2>1. CASE Takes(w) \/ LosesTaken(w)
    <3>1. Dequeued /\ (queueFile' = queue' \/ queueFile' = queueFile)
      BY <2>1 DEF Takes, LosesTaken
    <3>2. queue # <<>> /\ queue' = Tail(queue) /\ seen' = seen /\ seenFile' = seenFile /\ unsees' = unsees
      BY <3>1 DEF Dequeued
    <3>3. Tail(queue) \in Seq(Item)
      BY <1>1, <3>2
    <3> QED BY <1>1, <3>1, <3>2, <3>3
  <2>2. CASE Follows1(w) \/ Breaks(w)
    <3>1. Current' \in Frontier
      BY <2>2, FollowedIs, BrokenIs
    <3> QED BY <3>1 DEF Current, Frontier
  <2>3. CASE ~ Takes(w) /\ ~ LosesTaken(w) /\ ~ Follows1(w) /\ ~ Breaks(w)
    <3>1. UNCHANGED <<queue, seen, queueFile, seenFile, unsees>>
      BY <2>3 DEF Steps, Quits, Drops, Skips, Reserves, Disallows, Requests, Sleeps, Begins, Looks, Fails, GivesBack,
                  Fetches, Stores, LosesRecord, Succeeds, Rests, FrontierKept
    <3> QED BY <1>1, <3>1
  <2> QED BY <2>1, <2>2, <2>3
<1>5. urlStatus' \in [Url -> Statuses]
  <2>1. CASE Disallows(w) \/ Begins(w) \/ Fails(w) \/ Succeeds(w)
    <3>1. PICK s \in Statuses : Mark(UrlAt(w), s)
      <4>1. {"disallowed", "in_progress", "failed", "success"} \subseteq Statuses
        BY DEF Statuses
      <4> QED BY <2>1, <4>1 DEF Disallows, Begins, Fails, Succeeds
    <3>2. UrlAt(w) \in Url
      BY <1>3, <2>1 DEF Disallows, Begins, Fails, Succeeds, Goes, WithItem, Unmarked, Unfetched
    <3> QED BY <3>1, <3>2, MarkIs
  <2>2. CASE Follows1(w) \/ Breaks(w)
    <3>1. Current' \in Frontier
      BY <2>2, FollowedIs, BrokenIs
    <3> QED BY <3>1 DEF Current, Frontier
  <2>3. CASE ~ (Disallows(w) \/ Begins(w) \/ Fails(w) \/ Succeeds(w) \/ Follows1(w) \/ Breaks(w))
    <3>1. urlStatus' = urlStatus
      BY <2>3 DEF Steps, Quits, Takes, LosesTaken, Drops, Skips, Reserves, Requests, Sleeps, Looks,
                  GivesBack, Fetches, Stores, LosesRecord, Rests, StatusKept
    <3> QED BY <1>1, <3>1
  <2> QED BY <2>1, <2>2, <2>3
<1>6. pagesFetched' \in Nat /\ fetches' \in [Url -> Nat]
  <2>1. CASE Fetches(w) \/ Fails(w)
    <3>1. /\ pagesFetched' \in {pagesFetched, pagesFetched + 1}
          /\ fetches' = [fetches EXCEPT ![UrlAt(w)] = fetches[UrlAt(w)] + 1]
      BY <2>1 DEF Fetches, Fails, CountPage, CountFetch
    <3>2. UrlAt(w) \in Url
      BY <1>3, <2>1 DEF Fetches, Fails, Goes, WithItem, Unmarked, Unfetched
    <3> QED BY <1>1, <3>1, <3>2
  <2>2. CASE ~ (Fetches(w) \/ Fails(w))
    <3>1. UNCHANGED <<pagesFetched, fetches>>
      BY <2>2 DEF Steps, Quits, Takes, LosesTaken, Drops, Skips, Reserves, Disallows, Requests, Sleeps,
                  Begins, Looks, GivesBack, Stores, LosesRecord, Succeeds, Follows1, Breaks, Rests,
                  CountsKept, counts
    <3> QED BY <1>1, <3>1
  <2> QED BY <2>1, <2>2
<1>7. /\ requestAt' \in [Url -> Nat \cup {Never}] /\ lastRequest' \in [Domains -> Nat \cup {Never}]
      /\ now' \in Nat
  <2>1. CASE Requests(w)
    BY <1>1, <2>1 DEF Requests
  <2>2. CASE ~ Requests(w)
    <3>1. UNCHANGED clock
      BY <2>2 DEF Steps, Quits, Takes, LosesTaken, Drops, Skips, Reserves, Disallows, Sleeps, Begins,
                  Looks, Fails, GivesBack, Fetches, Stores, LosesRecord, Succeeds, Follows1, Breaks, Rests,
                  ClockKept
    <3> QED BY <1>1, <3>1 DEF clock
  <2> QED BY <2>1, <2>2
<1>8. skipped' \subseteq Url
  <2>1. CASE Skips(w)
    <3>1. UrlAt(w) \in Url
      BY <1>3, <2>1 DEF Skips, Goes, WithItem, Unmarked, Unfetched
    <3> QED BY <1>1, <2>1, <3>1 DEF Skips
  <2>2. CASE ~ Skips(w)
    <3>1. skipped' = skipped
      BY <2>2 DEF Steps, Quits, Takes, LosesTaken, Drops, Reserves, Disallows, Requests, Sleeps, Begins,
                  Looks, Fails, GivesBack, Fetches, Stores, LosesRecord, Succeeds, Follows1, Breaks, Rests,
                  FrontierKept, Dequeued
    <3> QED BY <1>1, <3>1
  <2> QED BY <2>1, <2>2
<1>9. /\ worker' \in [Worker -> WorkerState] /\ UNCHANGED <<control, crashes, closes>>
      /\ stored' \subseteq Url /\ limitHit' \in [Runs -> BOOLEAN] /\ storageErrors' \in Nat
      /\ missed' \in Nat
  BY <1>1 DEF Elsewhere
<1>10. TypeOK'
  BY <1>2, <1>4, <1>5, <1>6, <1>7, <1>9 DEF Typed, TypeOK, control, WorkerState
<1>11. HistoryTyped'
  BY <1>2, <1>4, <1>6, <1>7, <1>8, <1>9 DEF Typed, HistoryTyped
<1> QED BY <1>10, <1>11

(* A run that ended has no worker on its way, and no worker starts again. *)
LEMMA RunsStep ==
  ASSUME Typed, RunsOK, ReturnsAfterItsWorkers, RunAlone, NEW w \in Worker, Elsewhere(w), Steps(w)
  PROVE  RunsOK' /\ ReturnsAfterItsWorkers' /\ RunAlone'
<1>1. UNCHANGED <<run, isRunning, initialized, summary, crashes, closes>>
  BY DEF Elsewhere, control
<1>2. worker[w].pc \notin Left
  BY DEF Left, Steps, Quits, Takes, LosesTaken, Drops, Skips, Reserves, Disallows, Requests, Sleeps,
         Begins, Looks, Fails, GivesBack, Fetches, Stores, LosesRecord, Succeeds, Follows1, Breaks, Rests, Goes
<1>3. RunOf(w) \in Runs /\ ~ (RunOf(w) > run)
  BY <1>2, RunOfIs DEF Typed, WorkersOK, Left
<1>4. \A r \in Runs : r # RunOf(w) => fetchedBy'[r] = fetchedBy[r] /\ reserved'[r] = reserved[r]
  <2>1. \/ UNCHANGED <<fetchedBy, reserved>>
        \/ fetchedBy' = [fetchedBy EXCEPT ![RunOf(w)] = fetchedBy[RunOf(w)] + 1] /\ UNCHANGED reserved
        \/ fetchedBy' = fetchedBy /\ reserved' = [reserved EXCEPT ![RunOf(w)] = reserved[RunOf(w)] + 1]
        \/ fetchedBy' = fetchedBy /\ reserved' = [reserved EXCEPT ![RunOf(w)] = reserved[RunOf(w)] - 1]
    BY DEF Steps, Quits, Takes, LosesTaken, Drops, Skips, Reserves, Disallows, Requests, Sleeps,
           Begins, Looks, Fails, GivesBack, Fetches, Stores, LosesRecord, Succeeds, Follows1, Breaks, Rests,
           CountsKept, counts, CountPage
  <2> QED BY <2>1 DEF Typed, TypeOK, HistoryTyped
<1>5. RunsOK'
  BY <1>1, <1>3, <1>4 DEF RunsOK
<1>6. ReturnsAfterItsWorkers'
  <2> SUFFICES ASSUME NEW r \in Runs, summary[r] \in {"completed", "stopped", "limit_reached"},
                      NEW v \in WorkersOf(r)
               PROVE  worker'[v].pc \in {"done", "off"}
    BY <1>1 DEF ReturnsAfterItsWorkers, WorkersOf
  <2>1. worker[v].pc \in {"done", "off"} /\ v \in Worker
    BY DEF ReturnsAfterItsWorkers, WorkersOf
  <2>2. v # w
    BY <1>2, <2>1 DEF Left
  <2> QED BY <2>1, <2>2 DEF Elsewhere
<1>7. RunAlone'
  <2> SUFFICES ASSUME Undisturbed', NEW v \in Worker
               PROVE  /\ worker'[v].pc # "threw"
                      /\ v \in Live' => RunOf(v) = run /\ isRunning /\ initialized
    BY <1>1 DEF RunAlone
  <2>1. Undisturbed /\ storageErrors' = storageErrors
    BY <1>1 DEF Undisturbed, Elsewhere, Typed, HistoryTyped
  <2>2. w \in Live /\ RunOf(w) = run /\ isRunning /\ initialized
    BY <1>2, <2>1 DEF RunAlone, Live
  <2>3. worker'[w].pc # "threw"
    BY <2>1, <2>2
       DEF Left, Steps, Quits, Takes, LosesTaken, Drops, Skips, Reserves, Disallows, Requests, Sleeps,
           Begins, Looks, Fails, GivesBack, Fetches, Stores, LosesRecord, Succeeds, Follows1, Breaks, Rests,
           Goes, Throws, Error
  <2>4. CASE v = w
    BY <2>2, <2>3, <2>4
  <2>5. CASE v # w
    <3>1. worker'[v] = worker[v]
      BY <2>5 DEF Elsewhere
    <3> QED BY <2>1, <3>1 DEF RunAlone, Live
  <2> QED BY <2>4, <2>5
<1> QED BY <1>5, <1>6, <1>7

LEMMA InitInvariant == Init => IInv
<1> SUFFICES ASSUME Init PROVE IInv
  OBVIOUS
<1> USE DEF Init
<1>1. /\ queue = <<>> /\ seen = {} /\ queueFile = <<>> /\ seenFile = {} /\ worker = [w \in Worker |-> Off] /\ run = 0
      /\ Off \in WorkerState /\ Off.pc = "off"
  <2>1. <<>> \in Seq(Url) /\ 0 \in Nat
    OBVIOUS
  <2> QED BY <2>1 DEF Off, WorkerState, Pcs
<1>2. TypeOK
  <2>1. queue \in Seq(Item) /\ queueFile \in Seq(Item) /\ seenFile \subseteq Url
    OBVIOUS
  <2>2. run \in 0..MaxRuns
    BY ConstantsAssumption
  <2>3. worker \in [Worker -> WorkerState]
    BY <1>1
  <2>4. urlStatus \in [Url -> Statuses]
    BY DEF Statuses
  <2>5. /\ aborted \in [Runs -> BOOLEAN] /\ maxDepth \in [Runs -> Nat] /\ reserved \in [Runs -> Nat]
        /\ limitHit \in [Runs -> BOOLEAN]
    OBVIOUS
  <2>6. summary \in [Runs -> {"none", "running", "completed", "stopped", "limit_reached", "failed",
                              "rejected", "crashed"}]
    OBVIOUS
  <2>7. /\ seen \subseteq Url /\ stored \subseteq Url /\ initialized \in BOOLEAN
        /\ isRunning \in BOOLEAN /\ shouldStop \in BOOLEAN /\ pagesFetched \in Nat /\ now \in Nat
    OBVIOUS
  <2> HIDE DEF Init
  <2> QED BY <2>1, <2>2, <2>3, <2>4, <2>5, <2>6, <2>7 DEF TypeOK, WorkerState
<1>3. HistoryTyped
  BY DEF HistoryTyped, Domains
<1>4. \A w \in Worker : worker[w].pc = "off"
  BY <1>1
<1>5. WorkersOK
  BY <1>4 DEF WorkersOK, WithItem, Unmarked, Unfetched, Holding
<1>6. RunsOK
  BY DEF RunsOK
<1>7. ReservationsOK
  <2>1. ASSUME NEW r \in Runs PROVE Cardinality(HoldersOf(r)) = 0
    <3>1. HoldersOf(r) = {}
      BY <1>4 DEF HoldersOf, Holding
    <3> QED BY <3>1, FS_EmptySet
  <2> QED BY <2>1, ConstantsAssumption DEF ReservationsOK
<1>8. ReturnsAfterItsWorkers
  BY DEF ReturnsAfterItsWorkers
<1>9. RunAlone
  BY <1>4 DEF RunAlone, Live, Left
<1> HIDE DEF Init
<1> QED BY <1>2, <1>3, <1>5, <1>6, <1>7, <1>8, <1>9 DEF IInv

(***************************************************************************)
(* What the calls of the orchestrator and the deaths of the process do.    *)
(***************************************************************************)

Crashes  == Crash \/ CrashInFollow \/ CrashInStart
CallStep == \/ Initialize \/ Start \/ StartThrows \/ Stop \/ Abort \/ Close \/ Tick \/ FinishRun
            \/ Crashes

Summaries == {"none", "running", "completed", "stopped", "limit_reached", "failed", "rejected",
              "crashed"}

\* The files a crash leaves block no more than what was blocked, and every place in
\* them is paid for by what paid for it before, or by the crash.
Survives ==
  /\ Current' \in Frontier /\ BlockedOf(Current)' \subseteq BlockedOf(Current)
  /\ \A u \in Url : urlStatus'[u] \in Final <=> urlStatus[u] \in Final
  /\ \A u \in Url, k \in Int : Counted(Current, u, k) => Counted(Current, u, k - 1)'

LEMMA SurvivesWith ==
  ASSUME Current \in Frontier, NEW f \in Frontier, Follows(f, Current), NEW items \in Seq(Item),
         PendingIn(f.queue) \cap PendingIn(f.queueFile) \subseteq PendingIn(items),
         \A u \in Url, k \in Int : Counted(f, u, k) =>
            /\ IsFiniteSet(Positions(items, u))
            /\ k + Cardinality(Positions(items, u)) <= f.unsees[u] + 1,
         queue' = items, queueFile' = items, seen' = f.seenFile, seenFile' = f.seenFile,
         urlStatus' = f.status, unsees' = f.unsees
  PROVE  Survives
<1>1. /\ f.queue \in Seq(Item) /\ f.seenFile \in SUBSET Url /\ f.status \in [Url -> Statuses]
      /\ f.unsees \in [Url -> Nat]
  BY DEF Frontier
<1>2. /\ Current' \in Frontier /\ Current'.queue = items /\ Current'.queueFile = items
      /\ Current'.seen = f.seenFile /\ Current'.seenFile = f.seenFile /\ Current'.unsees = f.unsees
  BY <1>1 DEF Current, Frontier
<1>3. BlockedOf(Current)' \subseteq BlockedOf(Current)
  <2>1. BlockedOf(Current)' \subseteq BlockedOf(f)
    BY <1>2 DEF BlockedOf
  <2> QED BY <2>1 DEF Follows
<1>4. \A u \in Url : urlStatus'[u] \in Final <=> urlStatus[u] \in Final
  BY DEF Follows, Current
<1>5. ASSUME NEW u \in Url, NEW k \in Int, Counted(Current, u, k)
      PROVE  Counted(Current, u, k - 1)'
  <2> DEFINE P == Cardinality(Positions(items, u))
             U == f.unsees[u]
             S == One(u \in f.seenFile)
  <2>1. Counted(f, u, k)
    BY <1>5, FollowsCounted
  <2>2. IsFiniteSet(Positions(items, u)) /\ k + P <= U + 1
    BY <2>1
  <2>3. P \in Nat /\ U \in Nat /\ S \in Nat
    BY <1>1, <2>2, FS_CardinalityType DEF One
  <2> HIDE DEF P, U, S
  <2>4. (k - 1) + P <= U + S /\ (k - 1) + P <= U + 1
    BY <2>2, <2>3
  <2> QED BY <1>2, <2>2, <2>4 DEF Counted, P, U, S
<1> QED BY <1>2, <1>3, <1>4, <1>5 DEF Survives

\* What queue.json holds before an item is appended, and after.
LEMMA FileIsCounted ==
  ASSUME NEW f \in Frontier, NEW u \in Url, NEW k \in Int, Counted(f, u, k)
  PROVE  /\ IsFiniteSet(Positions(f.queueFile, u))
         /\ k + Cardinality(Positions(f.queueFile, u)) <= f.unsees[u] + 1
BY DEF Counted

LEMMA OfferedFileIsCounted ==
  ASSUME NEW f \in Frontier, NEW x \in Url, NEW depth \in Nat, Accepts(f, x)
  PROVE  LET items == Offered(f, x, depth).queue
         IN  /\ items \in Seq(Item) /\ PendingIn(f.queue) \subseteq PendingIn(items)
             /\ \A u \in Url, k \in Int : Counted(f, u, k) =>
                  /\ IsFiniteSet(Positions(items, u))
                  /\ k + Cardinality(Positions(items, u)) <= f.unsees[u] + 1
<1> DEFINE g == Offered(f, x, depth)
<1>1. /\ g \in Frontier /\ Follows(g, f) /\ g.queueFile = g.queue /\ g.unsees = f.unsees
      /\ PendingIn(g.queue) = PendingIn(f.queue) \cup {x}
  BY OfferedFollows
<1> HIDE DEF g
<1>2. g.queue \in Seq(Item)
  BY <1>1 DEF Frontier
<1>3. ASSUME NEW u \in Url, NEW k \in Int, Counted(f, u, k)
      PROVE  /\ IsFiniteSet(Positions(g.queue, u))
             /\ k + Cardinality(Positions(g.queue, u)) <= f.unsees[u] + 1
  <2>1. Counted(g, u, k)
    BY <1>1, <1>3, FollowsCounted
  <2> QED BY <1>1, <2>1 DEF Counted
<1> QED BY <1>1, <1>2, <1>3 DEF g

\* What a crash does besides.
LEMMA CrashesAre ==
  ASSUME Typed, Crashes
  PROVE  /\ worker' = [w \in Worker |-> Off]
         /\ initialized' = FALSE /\ isRunning' = FALSE /\ shouldStop' = FALSE
         /\ crashes' = crashes + 1
         /\ lastRequest' = [d \in DOMAIN lastRequest |-> Never]
         /\ requestAt' = [u \in Url |-> Never]
         /\ UNCHANGED <<stored, aborted, maxDepth, reserved, pagesFetched, fetchedBy, fetches,
                        limitHit, now, skipped, missed, storageErrors, closes>>
         /\ run' = run \/ (run' = run + 1 /\ run < MaxRuns)
         /\ summary' \in [Runs -> Summaries]
         /\ \A r \in Runs : \/ summary'[r] = summary[r] /\ summary[r] # "running"
                            \/ summary'[r] = "crashed" /\ summary[r] = "running"
                            \/ summary'[r] = "crashed" /\ run' = run + 1 /\ r = run + 1
<1>1. summary \in [Runs -> Summaries]
  BY DEF Typed, TypeOK, Summaries
<1>2. /\ Crashed \in [Runs -> Summaries]
      /\ \A r \in Runs : \/ Crashed[r] = summary[r] /\ summary[r] # "running"
                         \/ Crashed[r] = "crashed" /\ summary[r] = "running"
  BY <1>1 DEF Crashed, Summaries
<1>3. PICK items, urls : Dies(items, urls)
  BY DEF Crashes, Crash, CrashInFollow, CrashInStart
<1>4. \/ summary' = Crashed /\ run' = run
      \/ /\ summary' = [Crashed EXCEPT ![run + 1] = "crashed"] /\ run' = run + 1
         /\ run < MaxRuns
  BY DEF Crashes, Crash, CrashInFollow, CrashInStart
<1>5. summary' \in [Runs -> Summaries]
  BY <1>2, <1>4 DEF Summaries
<1>6. \A r \in Runs : \/ summary'[r] = summary[r] /\ summary[r] # "running"
                      \/ summary'[r] = "crashed" /\ summary[r] = "running"
                      \/ summary'[r] = "crashed" /\ run' = run + 1 /\ r = run + 1
  BY <1>2, <1>4
<1> QED BY <1>3, <1>4, <1>5, <1>6 DEF Dies, counts

LEMMA CrashSurvives ==
  ASSUME Typed, Crashes
  PROVE  Survives
<1>1. /\ Current \in Frontier /\ Current.queue = queue /\ Current.seen = seen
      /\ Current.status = urlStatus /\ Current.queueFile = queueFile
      /\ Current.seenFile = seenFile /\ Current.unsees = unsees
  BY CurrentIs
<1>2. Follows(Current, Current)
  BY <1>1, FollowsItself
<1>3. CASE Crash
  <2>1. /\ queue' = queueFile /\ queueFile' = queueFile /\ seen' = seenFile /\ seenFile' = seenFile
        /\ urlStatus' = urlStatus /\ unsees' = unsees
    BY <1>3 DEF Crash, Dies
  <2>2. queueFile \in Seq(Item)
    BY DEF Typed, TypeOK
  <2>3. \A u \in Url, k \in Int : Counted(Current, u, k) =>
            /\ IsFiniteSet(Positions(queueFile, u))
            /\ k + Cardinality(Positions(queueFile, u)) <= unsees[u] + 1
    BY <1>1, FileIsCounted
  <2> QED BY <1>1, <1>2, <2>1, <2>2, <2>3, SurvivesWith
<1>4. CASE CrashInFollow
  <2>1. PICK w \in Worker :
           /\ worker[w].pc = "links" /\ worker[w].links # <<>>
           /\ Accepts(Current, Head(worker[w].links))
           /\ Dies(Offered(Current, Head(worker[w].links), worker[w].item.depth + 1).queue, seenFile)
    BY <1>4 DEF CrashInFollow
  <2> DEFINE x == Head(worker[w].links)
             d == worker[w].item.depth + 1
             items == Offered(Current, x, d).queue
  <2>2. x \in Url /\ d \in Nat
    <3>1. worker[w].links \in Seq(Url) /\ worker[w].item \in Item
      BY <2>1 DEF Typed, TypeOK, WorkersOK, WithItem
    <3> QED BY <2>1, <3>1 DEF Item
  <2>3. Accepts(Current, x) /\ Dies(items, seenFile)
    BY <2>1
  <2> HIDE DEF x, d
  <2>4. /\ items \in Seq(Item) /\ PendingIn(queue) \subseteq PendingIn(items)
        /\ \A u \in Url, k \in Int : Counted(Current, u, k) =>
             /\ IsFiniteSet(Positions(items, u))
             /\ k + Cardinality(Positions(items, u)) <= unsees[u] + 1
    BY <1>1, <2>2, <2>3, OfferedFileIsCounted
  <2> HIDE DEF items
  <2>5. /\ queue' = items /\ queueFile' = items /\ seen' = seenFile /\ seenFile' = seenFile
        /\ urlStatus' = urlStatus /\ unsees' = unsees
    BY <1>4, <2>3 DEF CrashInFollow, Dies
  <2> QED BY <1>1, <1>2, <2>4, <2>5, SurvivesWith
<1>5. CASE CrashInStart
  <2>1. PICK n \in DOMAIN Seeds, recrawl \in Recrawl :
           /\ \/ Dies(BeforeSeed(n, recrawl).queueFile, BeforeSeed(n, recrawl).seenFile)
              \/ /\ Accepts(BeforeSeed(n, recrawl), Seeds[n])
                 /\ Dies(Offered(BeforeSeed(n, recrawl), Seeds[n], 0).queue,
                         BeforeSeed(n, recrawl).seenFile)
           /\ urlStatus' = BeforeSeed(n, recrawl).status
           /\ unsees' = BeforeSeed(n, recrawl).unsees
    BY <1>5 DEF CrashInStart
  <2> DEFINE f == BeforeSeed(n, recrawl)
             x == Seeds[n]
             items == Offered(f, x, 0).queue
  <2>2. f \in Frontier /\ Follows(f, Current) /\ x \in Url
    BY <1>1, BeforeSeedFollows
  <2>3. /\ Dies(f.queueFile, f.seenFile) \/ (Accepts(f, x) /\ Dies(items, f.seenFile))
        /\ urlStatus' = f.status /\ unsees' = f.unsees
    BY <2>1
  <2> HIDE DEF f, x
  <2>4. CASE Dies(f.queueFile, f.seenFile)
    <3>1. f.queueFile \in Seq(Item)
      BY <2>2 DEF Frontier
    <3>2. \A u \in Url, k \in Int : Counted(f, u, k) =>
              /\ IsFiniteSet(Positions(f.queueFile, u))
              /\ k + Cardinality(Positions(f.queueFile, u)) <= f.unsees[u] + 1
      BY <2>2, FileIsCounted
    <3>3. /\ queue' = f.queueFile /\ queueFile' = f.queueFile
          /\ seen' = f.seenFile /\ seenFile' = f.seenFile
      BY <2>4 DEF Dies
    <3> QED BY <1>1, <2>2, <2>3, <3>1, <3>2, <3>3, SurvivesWith
  <2>5. CASE Accepts(f, x) /\ Dies(items, f.seenFile)
    <3>1. /\ items \in Seq(Item) /\ PendingIn(f.queue) \subseteq PendingIn(items)
          /\ \A u \in Url, k \in Int : Counted(f, u, k) =>
               /\ IsFiniteSet(Positions(items, u))
               /\ k + Cardinality(Positions(items, u)) <= f.unsees[u] + 1
      BY <2>2, <2>5, OfferedFileIsCounted
    <3> HIDE DEF items
    <3>2. /\ queue' = items /\ queueFile' = items
          /\ seen' = f.seenFile /\ seenFile' = f.seenFile
      BY <2>5 DEF Dies
    <3> QED BY <1>1, <2>2, <2>3, <3>1, <3>2, SurvivesWith
  <2> QED BY <2>3, <2>4, <2>5
<1> QED BY <1>3, <1>4, <1>5 DEF Crashes

\* Only a crash is counted as one.
LEMMA OthersDoNotCrash ==
  ASSUME Typed, CallStep, ~Crashes
  PROVE  crashes' = crashes /\ missed' = missed
BY DEF CallStep, Initialize, Start, StartThrows, Stop, Abort, Close, Tick, FinishRun, faults

\* What a call leaves of the frontier: seeding adds to it, a seeding that fails blocks
\* one URL more, and the files a close or a crash leaves block no more than memory did.
LEMMA FrontierCall ==
  ASSUME Typed, CallStep
  PROVE  /\ Current' \in Frontier
         /\ \E x : BlockedOf(Current)' \subseteq BlockedOf(Current) \cup {x}
         /\ ~StartThrows => BlockedOf(Current)' \subseteq BlockedOf(Current)
         /\ \A u \in Url : urlStatus'[u] \in Final <=> urlStatus[u] \in Final
         /\ \A u \in Url, k \in Int :
              Counted(Current, u, k) => Counted(Current', u, k - crashes' + crashes)
<1>1. /\ Current \in Frontier /\ Current.queue = queue /\ Current.seen = seen
      /\ Current.status = urlStatus /\ Current.queueFile = queueFile
      /\ Current.seenFile = seenFile /\ Current.unsees = unsees
  BY CurrentIs
<1>2. crashes \in Nat
  BY DEF Typed, HistoryTyped
<1>3. CASE Crashes
  <2>1. Survives /\ crashes' = crashes + 1
    BY <1>3, CrashSurvives, CrashesAre
  <2>2. \A k \in Int : k - crashes' + crashes = k - 1
    BY <1>2, <2>1
  <2> QED BY <2>1, <2>2 DEF Survives
<1>4. ASSUME ~Crashes PROVE \A k \in Int : k - crashes' + crashes = k
  BY <1>2, <1>4, OthersDoNotCrash
<1>5. CASE Start
  <2>0. ~Crashes
    <3>1. crashes' = crashes /\ crashes + 1 # crashes
      BY <1>2, <1>5 DEF Start, faults
    <3> QED BY <3>1, CrashesAre
  <2>1. PICK recrawl \in Recrawl : Becomes(Seeded(Seeds, recrawl))
    BY <1>5 DEF Start
  <2> DEFINE f == Seeded(Seeds, recrawl)
  <2>2. f \in Frontier /\ Follows(f, Current) /\ Becomes(f)
    BY <1>1, <2>1, SeededFollows, ConstantsAssumption
  <2> HIDE DEF f
  <2>3. Current' = f
    BY <2>2 DEF Becomes, Current, Frontier
  <2>4. /\ Current' \in Frontier /\ BlockedOf(Current)' \subseteq BlockedOf(Current)
        /\ \A u \in Url : urlStatus'[u] \in Final <=> urlStatus[u] \in Final
    BY <1>1, <2>2, <2>3 DEF Follows, Becomes
  <2>5. ASSUME NEW u \in Url, NEW k \in Int, Counted(Current, u, k)
        PROVE  Counted(Current, u, k)'
    <3>1. Counted(f, u, k)
      BY <1>1, <2>2, <2>5, FollowsCounted
    <3> QED BY <2>3, <3>1
  <2> QED BY <1>4, <2>0, <2>4, <2>5
<1>6. CASE StartThrows
  <2>0. ~Crashes
    <3>1. crashes' = crashes /\ crashes + 1 # crashes
      BY <1>2, <1>6 DEF StartThrows
    <3> QED BY <3>1, CrashesAre
  <2>1. PICK n \in DOMAIN Seeds, recrawl \in Recrawl :
           /\ Accepts(BeforeSeed(n, recrawl), Seeds[n])
           /\ HalfOffered(BeforeSeed(n, recrawl), Seeds[n], 0)
    BY <1>6 DEF StartThrows
  <2> DEFINE f == BeforeSeed(n, recrawl)
             x == Seeds[n]
  <2>2. f \in Frontier /\ Follows(f, Current) /\ x \in Url /\ Accepts(f, x) /\ HalfOffered(f, x, 0)
    BY <1>1, <2>1, BeforeSeedFollows
  <2> HIDE DEF f, x
  <2>3. /\ Current' \in Frontier /\ BlockedOf(Current)' \subseteq BlockedOf(f) \cup {x}
        /\ urlStatus' = f.status
        /\ \A u \in Url, k \in Int : Counted(f, u, k) => Counted(Current, u, k)'
    BY <2>2, HalfOfferedIs
  <2>4. BlockedOf(Current)' \subseteq BlockedOf(Current) \cup {x}
    BY <2>2, <2>3 DEF Follows
  <2>5. \A u \in Url : urlStatus'[u] \in Final <=> urlStatus[u] \in Final
    BY <1>1, <2>2, <2>3 DEF Follows
  <2>6. \A u \in Url, k \in Int : Counted(Current, u, k) => Counted(f, u, k)
    BY <1>1, <2>2, FollowsCounted
  <2> QED BY <1>4, <1>6, <2>0, <2>3, <2>4, <2>5, <2>6
<1>7. CASE Close
  <2>0. ~Crashes
    <3>1. crashes' = crashes /\ crashes + 1 # crashes
      BY <1>2, <1>7 DEF Close
    <3> QED BY <3>1, CrashesAre
  <2>1. /\ queue' = queue /\ seen' = seen /\ urlStatus' = urlStatus /\ unsees' = unsees
        /\ queueFile' = queue /\ seenFile' = seen
    BY <1>7 DEF Close, storage
  <2>2. /\ Current'.queue = queue /\ Current'.queueFile = queue /\ Current'.seen = seen
        /\ Current'.seenFile = seen /\ Current'.unsees = unsees
    BY <2>1 DEF Current
  <2>3. Current' \in Frontier
    BY <2>1 DEF Current, Frontier, Typed, TypeOK, HistoryTyped
  <2>4. BlockedOf(Current)' \subseteq BlockedOf(Current)
    BY <1>1, <2>2 DEF BlockedOf
  <2>5. ASSUME NEW u \in Url, NEW k \in Int, Counted(Current, u, k)
        PROVE  Counted(Current, u, k)'
    <3> DEFINE P == Cardinality(Positions(queue, u))
               U == unsees[u]
               S == One(u \in seen)
    <3>1. IsFiniteSet(Positions(queue, u)) /\ k + P <= U + S
      BY <1>1, <2>5 DEF Counted
    <3>2. P \in Nat /\ U \in Nat /\ S \in {0, 1}
      BY <3>1, FS_CardinalityType DEF Typed, HistoryTyped, One
    <3> HIDE DEF P, U, S
    <3>3. k + P <= U + 1
      BY <3>1, <3>2
    <3> QED BY <2>2, <3>1, <3>3 DEF Counted, P, U, S
  <2> QED BY <1>4, <2>0, <2>1, <2>3, <2>4, <2>5
<1>8. CASE (Initialize \/ Stop \/ Abort \/ Tick \/ FinishRun) /\ ~Crashes
  <2>1. UNCHANGED <<queue, seen, queueFile, seenFile, urlStatus, unsees>>
    BY <1>8 DEF Initialize, Stop, Abort, Tick, FinishRun, frontier, storage
  <2>2. Current' = Current
    BY <2>1 DEF Current
  <2>3. BlockedOf(Current)' = BlockedOf(Current)
    BY <2>2
  <2>4. \A u \in Url, k \in Int : Counted(Current, u, k) => Counted(Current, u, k)'
    BY <2>2
  <2> QED BY <1>1, <1>4, <1>8, <2>1, <2>2, <2>3, <2>4
<1> QED BY <1>3, <1>5, <1>6, <1>7, <1>8 DEF CallStep

\* Where the workers are after a call.
CallMoves ==
  /\ worker' \in [Worker -> WorkerState]
  /\ \/ worker' = worker
     \/ \A w \in Worker : worker'[w].pc = "off" /\ Crashes
     \/ /\ Start
        /\ \A w \in Worker : IF RunOf(w) = run' THEN worker'[w].pc = "top"
                                                ELSE worker'[w] = worker[w]

LEMMA CallsMove ==
  ASSUME Typed, CallStep
  PROVE  CallMoves
<1>1. worker \in [Worker -> WorkerState]
  BY DEF Typed, TypeOK, WorkerState
<1>2. Off \in WorkerState /\ Off.pc = "off"
  <2>1. <<>> \in Seq(Url) /\ 0 \in Nat
    OBVIOUS
  <2> QED BY <2>1 DEF Off, WorkerState, Pcs
<1>3. CASE Start
  <2> DEFINE s == [Off EXCEPT !.pc = "top"]
  <2>1. s \in WorkerState /\ s.pc = "top"
    <3>1. s = [pc |-> "top", item |-> NoItem, links |-> <<>>, wake |-> 0]
      BY DEF Off
    <3>2. <<>> \in Seq(Url) /\ 0 \in Nat /\ "top" \in Pcs
      BY DEF Pcs
    <3> HIDE DEF s
    <3> QED BY <3>1, <3>2 DEF WorkerState
  <2>2. worker' = [w \in Worker |-> IF RunOf(w) = run + 1 THEN s ELSE worker[w]] /\ run' = run + 1
    BY <1>3 DEF Start
  <2> HIDE DEF s
  <2> QED BY <1>1, <1>3, <2>1, <2>2 DEF CallMoves
<1>4. CASE Crashes
  <2>1. worker' = [w \in Worker |-> Off]
    BY <1>4, CrashesAre
  <2> QED BY <1>2, <1>4, <2>1 DEF CallMoves
<1>5. CASE Initialize \/ StartThrows \/ Stop \/ Abort \/ Close \/ Tick \/ FinishRun
  <2>1. worker' = worker
    BY <1>5 DEF Initialize, StartThrows, Stop, Abort, Close, Tick, FinishRun
  <2> QED BY <1>1, <2>1 DEF CallMoves
<1> QED BY <1>3, <1>4, <1>5 DEF CallStep

LEMMA CallTypes ==
  ASSUME Typed, CallStep
  PROVE  TypeOK' /\ HistoryTyped'
<1>1. /\ stored \subseteq Url /\ initialized \in BOOLEAN /\ isRunning \in BOOLEAN
      /\ shouldStop \in BOOLEAN /\ run \in 0..MaxRuns /\ aborted \in [Runs -> BOOLEAN]
      /\ maxDepth \in [Runs -> Nat] /\ reserved \in [Runs -> Nat] /\ pagesFetched \in Nat
      /\ limitHit \in [Runs -> BOOLEAN] /\ now \in Nat
      /\ fetchedBy \in [Runs -> Nat] /\ fetches \in [Url -> Nat]
      /\ requestAt \in [Url -> Nat \cup {Never}] /\ lastRequest \in [Domains -> Nat \cup {Never}]
      /\ skipped \subseteq Url /\ storageErrors \in Nat /\ crashes \in Nat /\ closes \in Nat
      /\ missed \in Nat
  BY DEF Typed, TypeOK, HistoryTyped
<1>2. summary \in [Runs -> Summaries]
  BY DEF Typed, TypeOK, Summaries
<1>3. worker' \in [Worker -> WorkerState]
  BY CallsMove DEF CallMoves
<1>4. MaxRuns \in Nat /\ MaxDepths \subseteq Nat
  BY ConstantsAssumption
<1>9. /\ queue' \in Seq(Item) /\ seen' \subseteq Url /\ urlStatus' \in [Url -> Statuses]
      /\ queueFile' \in Seq(Item) /\ seenFile' \subseteq Url /\ unsees' \in [Url -> Nat]
  <2>1. Current' \in Frontier
    BY FrontierCall
  <2> QED BY <2>1 DEF Current, Frontier
<1> USE DEF frontier, storage, control, counts, clock, faults
<1>5. CASE Initialize \/ Stop \/ Abort \/ Close \/ Tick
  <2>1. /\ UNCHANGED <<stored, run, maxDepth, reserved, pagesFetched, limitHit,
                       summary, fetchedBy, fetches, requestAt, lastRequest, skipped,
                       storageErrors, crashes, missed>>
        /\ initialized' \in BOOLEAN /\ isRunning' = isRunning /\ shouldStop' \in BOOLEAN
        /\ now' \in Nat /\ closes' \in Nat
    <3>1. CASE Initialize \/ Stop \/ Abort
      BY <1>1, <3>1 DEF Initialize, Stop, Abort
    <3>2. CASE Close
      <4>1. shouldStop' = (shouldStop \/ isRunning)
        BY <3>2 DEF Close
      <4>2. shouldStop' \in BOOLEAN
        BY <1>1, <4>1, Zenon
      <4>3. closes' \in Nat
        BY <1>1, <3>2 DEF Close
      <4> QED BY <1>1, <3>2, <4>2, <4>3 DEF Close
    <3>3. CASE Tick
      BY <1>1, <3>3 DEF Tick
    <3> QED BY <1>5, <3>1, <3>2, <3>3
  <2>2. aborted' \in [Runs -> BOOLEAN]
    BY <1>1, <1>5 DEF Initialize, Stop, Abort, Close, Tick
  <2> HIDE DEF Summaries
  <2>3. TypeOK'
    BY <1>1, <1>2, <1>3, <1>9, <2>1, <2>2 DEF TypeOK, WorkerState, Summaries
  <2>4. HistoryTyped'
    BY <1>1, <1>9, <2>1 DEF HistoryTyped
  <2> QED BY <2>3, <2>4
<1>6. CASE Crashes
  <2>1. /\ UNCHANGED <<stored, aborted, maxDepth, reserved, pagesFetched, fetchedBy, fetches,
                       limitHit, now, skipped, missed, storageErrors, closes>>
        /\ initialized' = FALSE /\ isRunning' = FALSE /\ shouldStop' = FALSE /\ crashes' = crashes + 1
        /\ requestAt' = [u \in Url |-> Never]
        /\ lastRequest' = [d \in DOMAIN lastRequest |-> Never]
        /\ run' = run \/ (run' = run + 1 /\ run < MaxRuns)
        /\ summary' \in [Runs -> Summaries]
    BY <1>6, CrashesAre
  <2>3. requestAt' \in [Url -> Nat \cup {Never}] /\ lastRequest' \in [Domains -> Nat \cup {Never}]
    BY <1>1, <2>1
  <2>6. run' \in 0..MaxRuns
    BY <1>1, <1>4, <2>1
  <2> HIDE DEF Summaries
  <2>4. TypeOK'
    BY <1>1, <1>3, <1>9, <2>1, <2>6 DEF TypeOK, WorkerState, Summaries
  <2>5. HistoryTyped'
    BY <1>1, <1>9, <2>1, <2>3 DEF HistoryTyped
  <2> QED BY <2>4, <2>5
<1>7. CASE FinishRun
  <2>1. /\ UNCHANGED <<stored, initialized, shouldStop, run, maxDepth, aborted,
                       reserved, pagesFetched, limitHit, fetchedBy, fetches, requestAt,
                       lastRequest, skipped, now, storageErrors, crashes, closes, missed>>
        /\ isRunning' = FALSE
    BY <1>7 DEF FinishRun
  <2>2. PICK s \in Summaries : summary' = [summary EXCEPT ![run] = s]
    <3> DEFINE s == CASE ~initialized      -> "rejected"
                      [] initialized /\ (\E w \in WorkersOf(run) : At(w, "threw")) -> "failed"
                      [] initialized /\ ~(\E w \in WorkersOf(run) : At(w, "threw")) /\ aborted[run]
                           -> "stopped"
                      [] initialized /\ ~(\E w \in WorkersOf(run) : At(w, "threw")) /\ ~aborted[run]
                           /\ limitHit[run] -> "limit_reached"
                      [] OTHER -> "completed"
    <3>1. summary' = [summary EXCEPT ![run] = s]
      BY <1>7 DEF FinishRun
    <3>2. s \in Summaries
      BY DEF Summaries
    <3> HIDE DEF s, Summaries
    <3> QED BY <3>1, <3>2
  <2>3. summary' \in [Runs -> Summaries]
    BY <1>2, <2>2
  <2> HIDE DEF Summaries
  <2>4. TypeOK'
    BY <1>1, <1>3, <1>9, <2>1, <2>3 DEF TypeOK, WorkerState, Summaries
  <2>5. HistoryTyped'
    BY <1>1, <1>9, <2>1 DEF HistoryTyped
  <2> QED BY <2>4, <2>5
<1>8. CASE Start \/ StartThrows
  <2>2. /\ UNCHANGED <<stored, initialized, aborted, reserved, limitHit, fetchedBy, fetches, requestAt,
                       lastRequest, skipped, now, crashes, closes, missed>>
        /\ isRunning' = TRUE /\ shouldStop' = FALSE /\ pagesFetched' = 0 /\ run < MaxRuns
        /\ run' = run + 1 /\ storageErrors' \in {storageErrors, storageErrors + 1}
    BY <1>8 DEF Start, StartThrows
  <2>3. summary' = [summary EXCEPT ![run + 1] = "running"]
        \/ summary' = [summary EXCEPT ![run + 1] = "rejected"]
    BY <1>8 DEF Start, StartThrows
  <2>4. maxDepth' \in [Runs -> Nat]
    <3>1. maxDepth' = maxDepth \/ \E d \in MaxDepths : maxDepth' = [maxDepth EXCEPT ![run + 1] = d]
      BY <1>8 DEF Start, StartThrows
    <3> QED BY <1>1, <1>4, <3>1
  <2>5. summary' \in [Runs -> Summaries]
    BY <1>2, <2>3 DEF Summaries
  <2>6. run' \in 0..MaxRuns
    BY <1>1, <1>4, <2>2
  <2> HIDE DEF Summaries
  <2>7. TypeOK'
    BY <1>1, <1>3, <1>9, <2>2, <2>4, <2>5, <2>6 DEF TypeOK, WorkerState, Summaries
  <2>8. HistoryTyped'
    BY <1>1, <1>9, <2>2 DEF HistoryTyped
  <2> QED BY <2>7, <2>8
<1> QED BY <1>5, <1>6, <1>7, <1>8 DEF CallStep

LEMMA CallInvariant ==
  ASSUME IInv, CallStep
  PROVE  IInv'
<1>1. Typed /\ RunsOK /\ ReservationsOK /\ ReturnsAfterItsWorkers /\ RunAlone
  BY DEF IInv, Typed
<1>2. TypeOK' /\ HistoryTyped' /\ CallMoves
  BY <1>1, CallTypes, CallsMove
<1>3. /\ run \in Nat /\ Runs \subseteq Nat /\ \A w \in Worker : RunOf(w) \in Runs /\ RunOf(w) \in Nat
      /\ storageErrors \in Nat /\ closes \in Nat
  <2>1. run \in 0..MaxRuns /\ MaxRuns \in Nat /\ storageErrors \in Nat /\ closes \in Nat
    BY <1>1, ConstantsAssumption DEF Typed, TypeOK, HistoryTyped
  <2>2. Runs \subseteq Nat /\ \A w \in Worker : RunOf(w) \in Runs
    BY RunOfIs
  <2>3. run \in Nat
    BY <2>1
  <2>4. \A w \in Worker : RunOf(w) \in Nat
    BY <2>2
  <2> QED BY <2>1, <2>2, <2>3, <2>4
<1> USE DEF frontier, storage, control, counts, clock, faults
<1>4. fetchedBy' = fetchedBy /\ reserved' = reserved
  BY <1>1, CrashesAre
     DEF CallStep, Initialize, Start, StartThrows, Stop, Abort, Close, Tick, FinishRun
<1>5. \/ run' = run /\ maxDepth' = maxDepth
      \/ /\ run' = run + 1
         /\ \A r \in Runs : r # run + 1 => maxDepth'[r] = maxDepth[r]
  <2>1. CASE Crashes
    BY <1>1, <2>1, CrashesAre
  <2>2. CASE ~Crashes
    BY <1>1, <1>3, <2>2 DEF CallStep, Initialize, Start, StartThrows, Stop, Abort, Close, Tick,
                            FinishRun, Typed, TypeOK
  <2> QED BY <2>1, <2>2
<1>6. Start => run' = run + 1 /\ ~isRunning /\ initialized /\ initialized' = initialized
               /\ (summary'[run + 1] = "running" \/ run + 1 \notin Runs)
  BY <1>1 DEF Start, Typed, TypeOK
<1>7. \A w \in Worker : RunOf(w) > run => worker[w].pc = "off"
  BY <1>1 DEF Typed, WorkersOK
<1>8. ASSUME NEW w \in Worker
      PROVE  \/ worker'[w] = worker[w]
             \/ worker'[w].pc = "off" /\ Crashes
             \/ worker'[w].pc = "top" /\ Start /\ RunOf(w) = run + 1
  BY <1>2, <1>6 DEF CallMoves, Start
<1>9. WorkersOK'
  <2> SUFFICES ASSUME NEW w \in Worker
               PROVE  /\ worker'[w].pc \in WithItem => worker'[w].item \in Item
                      /\ RunOf(w) > run' => worker'[w].pc = "off"
                      /\ worker'[w].pc \in Holding => worker'[w].item.depth <= maxDepth'[RunOf(w)]
    BY DEF WorkersOK
  <2>1. CASE worker'[w] = worker[w]
    <3>1. worker[w].pc \in Holding => maxDepth'[RunOf(w)] = maxDepth[RunOf(w)]
      <4>1. worker[w].pc \in Holding => ~ (RunOf(w) > run)
        BY <1>7 DEF Holding
      <4>2. ~ (RunOf(w) > run) => RunOf(w) # run + 1
        BY <1>3
      <4> QED BY <1>3, <1>5, <4>1, <4>2
    <3>2. RunOf(w) > run' => RunOf(w) > run
      BY <1>3, <1>5
    <3> QED BY <1>1, <2>1, <3>1, <3>2 DEF Typed, WorkersOK
  <2>2. CASE worker'[w].pc = "off"
    BY <2>2 DEF WithItem, Unmarked, Unfetched, Holding
  <2>3. CASE worker'[w].pc = "top" /\ Start /\ RunOf(w) = run + 1
    BY <1>3, <1>6, <2>3 DEF Start, WithItem, Unmarked, Unfetched, Holding
  <2> QED BY <1>8, <2>1, <2>2, <2>3
<1>10. RunsOK'
  <2>1. isRunning' => run' # 0
    <3>1. CASE run' = run
      <4>1. isRunning' => isRunning
        <5>1. run + 1 # run
          BY <1>3
        <5>2. Crashes => isRunning' = FALSE
          BY <1>1, CrashesAre
        <5> QED BY <3>1, <5>1, <5>2
               DEF CallStep, Initialize, Start, StartThrows, Stop, Abort, Close, Tick, FinishRun
      <4> QED BY <1>1, <3>1, <4>1 DEF RunsOK
    <3>2. CASE run' = run + 1
      BY <1>3, <3>2
    <3> QED BY <1>5, <3>1, <3>2
  <2>2. ASSUME NEW r \in Runs, r > run' PROVE summary'[r] = "none"
    <3>1. (r > run /\ r # run + 1) \/ (run' = run /\ r > run)
      BY <1>3, <1>5, <2>2
    <3>2. summary[r] = "none"
      BY <1>1, <3>1 DEF RunsOK
    <3>3. CASE Crashes
      <4>1. run' = run + 1 => r # run + 1
        BY <1>3, <2>2
      <4> QED BY <1>1, <3>2, <3>3, <4>1, CrashesAre
    <3>4. CASE FinishRun
      <4>1. run' = run /\ r # run
        BY <1>3, <2>2, <3>4 DEF FinishRun
      <4>2. summary'[r] = summary[r]
        BY <1>1, <3>4, <4>1 DEF FinishRun, Typed, TypeOK
      <4> QED BY <3>2, <4>2
    <3>5. CASE ~ Crashes /\ ~ FinishRun
      <4>1. \/ summary' = summary
            \/ summary' = [summary EXCEPT ![run + 1] = "running"] /\ run' = run + 1
            \/ summary' = [summary EXCEPT ![run + 1] = "rejected"] /\ run' = run + 1
        BY <3>5 DEF CallStep, Initialize, Start, StartThrows, Stop, Abort, Close, Tick
      <4>2. run' = run + 1 => r # run + 1
        BY <1>3, <2>2
      <4> QED BY <1>1, <3>2, <4>1, <4>2 DEF Typed, TypeOK
    <3> QED BY <3>3, <3>4, <3>5
  <2>3. ASSUME NEW r \in Runs, r > run' PROVE r > run
    BY <1>3, <1>5, <2>3
  <2> QED BY <1>1, <1>4, <2>1, <2>2, <2>3 DEF RunsOK
<1>11. ReservationsOK'
  <2> SUFFICES ASSUME NEW r \in Runs
               PROVE  fetchedBy[r] + Cardinality(HoldersOf(r)') <= reserved[r] /\ reserved[r] <= MaxPages
    BY <1>4 DEF ReservationsOK
  <2>1. HoldersOf(r)' \subseteq HoldersOf(r)
    BY <1>8 DEF HoldersOf, Holding
  <2>2. HoldersOf(r) \in SUBSET Worker /\ IsFiniteSet(HoldersOf(r)) /\ Cardinality(HoldersOf(r)) \in Nat
    BY WorkersAreFinite DEF HoldersOf
  <2>3. Cardinality(HoldersOf(r)') <= Cardinality(HoldersOf(r)) /\ Cardinality(HoldersOf(r)') \in Nat
    <3> DEFINE B == HoldersOf(r)'
    <3>1. B \in SUBSET HoldersOf(r)
      BY <2>1
    <3> HIDE DEF B
    <3>2. IsFiniteSet(B) /\ Cardinality(B) <= Cardinality(HoldersOf(r))
      BY <2>2, <3>1, FS_Subset
    <3> QED BY <3>2, FS_CardinalityType DEF B
  <2>4. fetchedBy[r] \in Nat /\ reserved[r] \in Nat
    BY <1>1 DEF Typed, TypeOK, HistoryTyped
  <2>5. fetchedBy[r] + Cardinality(HoldersOf(r)) <= reserved[r] /\ reserved[r] <= MaxPages
    BY <1>1 DEF ReservationsOK
  <2> QED BY <2>2, <2>3, <2>4, <2>5
<1>12. ReturnsAfterItsWorkers'
  <2> SUFFICES ASSUME NEW r \in Runs, summary'[r] \in {"completed", "stopped", "limit_reached"},
                      NEW w \in WorkersOf(r)
               PROVE  worker'[w].pc \in {"done", "off"}
    BY DEF ReturnsAfterItsWorkers, WorkersOf
  <2>0. w \in Worker /\ RunOf(w) = r
    BY DEF WorkersOf
  <2>1. CASE summary[r] \in {"completed", "stopped", "limit_reached"}
    <3>1. worker[w].pc \in {"done", "off"}
      BY <1>1, <2>1 DEF ReturnsAfterItsWorkers
    <3>2. ~ (Start /\ r = run + 1)
      BY <1>1, <1>3, <2>1 DEF RunsOK
    <3> QED BY <1>8, <2>0, <3>1, <3>2
  <2>2. CASE summary[r] \notin {"completed", "stopped", "limit_reached"}
    <3>1. FinishRun /\ r = run
      <4>1. CASE FinishRun
        BY <1>1, <2>2, <4>1 DEF FinishRun, Typed, TypeOK
      <4>2. CASE ~ FinishRun
        <5>1. \/ summary' = summary
              \/ summary' = [summary EXCEPT ![run + 1] = "running"]
              \/ summary' = [summary EXCEPT ![run + 1] = "rejected"]
              \/ summary'[r] = summary[r] \/ summary'[r] = "crashed"
          BY <1>1, <4>2, CrashesAre DEF CallStep, Initialize, Start, StartThrows, Stop, Abort, Close, Tick
        <5> QED BY <1>1, <2>2, <5>1 DEF Typed, TypeOK
      <4> QED BY <4>1, <4>2
    <3>2. \A v \in WorkersOf(run) : At(v, "done")
      BY <1>1, <3>1 DEF FinishRun, Typed, TypeOK
    <3>3. worker' = worker
      BY <3>1 DEF FinishRun
    <3> QED BY <3>1, <3>2, <3>3 DEF At
  <2> QED BY <2>1, <2>2
<1>13. RunAlone'
  <2> SUFFICES ASSUME Undisturbed', NEW w \in Worker
               PROVE  /\ worker'[w].pc # "threw"
                      /\ worker'[w].pc \notin Left => RunOf(w) = run' /\ isRunning' /\ initialized'
    BY DEF RunAlone, Live
  <2>1. Undisturbed /\ ~ Close /\ ~ StartThrows
    <3>1. Crashes => UNCHANGED <<closes, storageErrors>>
      BY <1>1, CrashesAre
    <3> QED BY <1>3, <3>1 DEF Undisturbed, CallStep, Initialize, Start, StartThrows, Stop, Abort, Close,
                              Tick, FinishRun
  <2>2. /\ worker[w].pc # "threw"
        /\ worker[w].pc \notin Left => RunOf(w) = run /\ isRunning /\ initialized
    BY <1>1, <2>1 DEF RunAlone, Live
  <2>3. CASE worker'[w].pc = "off" /\ Crashes
    BY <2>3 DEF Left
  <2>4. CASE worker'[w].pc = "top" /\ Start /\ RunOf(w) = run + 1
    BY <2>4 DEF Start
  <2>5. CASE worker'[w] = worker[w] /\ ~ Crashes
    <3>1. CASE Start
      BY <2>2, <2>5, <3>1 DEF Start
    <3>2. CASE FinishRun
      <4>1. \A v \in WorkersOf(run) : At(v, "done")
        <5>1. \A v \in WorkersOf(run) : ~ At(v, "threw")
          BY <1>1, <2>1 DEF RunAlone, WorkersOf, At
        <5> QED BY <3>2, <5>1 DEF FinishRun
      <4>2. RunOf(w) = run => worker[w].pc \in Left
        BY <4>1 DEF WorkersOf, At, Left
      <4> QED BY <2>2, <2>5, <4>2
    <3>3. CASE Initialize \/ Stop \/ Abort \/ Tick
      <4>1. run' = run /\ isRunning' = isRunning /\ (initialized => initialized')
        BY <3>3 DEF Initialize, Stop, Abort, Tick
      <4> QED BY <2>2, <2>5, <4>1
    <3> QED BY <2>1, <2>5, <3>1, <3>2, <3>3 DEF CallStep
  <2>6. Crashes => worker'[w].pc = "off"
    <3>1. Crashes => worker'[w] = Off
      BY <1>1, CrashesAre
    <3> QED BY <3>1 DEF Off
  <2> QED BY <1>8, <2>3, <2>4, <2>5, <2>6
<1> QED BY <1>2, <1>9, <1>10, <1>11, <1>12, <1>13 DEF IInv

(* Every step is one of a worker, one of no worker, or none. *)
LEMMA NextIs ==
  ASSUME Typed, [Next]_vars
  PROVE  \/ \E w \in Worker : Elsewhere(w) /\ Steps(w)
         \/ CallStep
         \/ UNCHANGED vars
BY StepMoves DEF Next, CallStep, Crashes

LEMMA InvariantStep == IInv /\ [Next]_vars => IInv'
<1> SUFFICES ASSUME IInv, [Next]_vars PROVE IInv'
  OBVIOUS
<1>1. Typed /\ RunsOK /\ ReservationsOK /\ ReturnsAfterItsWorkers /\ RunAlone
  BY DEF IInv, Typed
<1>2. ASSUME NEW w \in Worker, Elsewhere(w), Steps(w) PROVE IInv'
  <2>1. TypeOK' /\ HistoryTyped'
    BY <1>1, <1>2, TypesStep
  <2>2. WorkersOK'
    BY <1>1, <1>2, WorkersStep
  <2>3. ReservationsOK'
    BY <1>1, <1>2, ReservationsStep
  <2>4. RunsOK' /\ ReturnsAfterItsWorkers' /\ RunAlone'
    BY <1>1, <1>2, RunsStep
  <2> QED BY <2>1, <2>2, <2>3, <2>4 DEF IInv
<1>3. CASE CallStep
  BY <1>3, CallInvariant
<1>4. CASE UNCHANGED vars
  <2> USE DEF vars, frontier, storage, control, counts, clock, faults
  <2>1. TypeOK' /\ HistoryTyped' /\ WorkersOK'
    BY <1>1, <1>4 DEF Typed, TypeOK, HistoryTyped, WorkersOK
  <2>2. RunsOK' /\ ReturnsAfterItsWorkers' /\ RunAlone'
    BY <1>1, <1>4 DEF RunsOK, ReturnsAfterItsWorkers, RunAlone, Undisturbed, Live
  <2>3. ReservationsOK'
    BY <1>1, <1>4 DEF ReservationsOK, HoldersOf
  <2> QED BY <2>1, <2>2, <2>3 DEF IInv
<1> QED BY <1>1, <1>2, <1>3, <1>4, NextIs

(* The inductive invariant: what each worker holds counts against its run.  *)
THEOREM Invariance == Spec => []IInv
<1> QED BY InitInvariant, InvariantStep, PTL DEF Spec

(* However the workers of however many runs interleave, and whatever fails, *)
(* no run fetches more than its limit: the pages fetched and the requests   *)
(* under way are never more than the reservations.  And start() returns     *)
(* after the last of its workers has left.                                  *)
THEOREM RunsAreContained == Spec => []RunIsContained
<1>1. IInv => RunIsContained
  <2> SUFFICES ASSUME IInv PROVE RunIsContained
    OBVIOUS
  <2>1. ASSUME NEW r \in Runs PROVE fetchedBy[r] <= MaxPages
    <3>1. /\ fetchedBy[r] \in Nat /\ reserved[r] \in Nat /\ MaxPages \in Nat
          /\ Cardinality(HoldersOf(r)) \in Nat
      BY WorkersAreFinite, ConstantsAssumption DEF IInv, TypeOK, HistoryTyped, HoldersOf
    <3>2. fetchedBy[r] + Cardinality(HoldersOf(r)) <= reserved[r] /\ reserved[r] <= MaxPages
      BY DEF IInv, ReservationsOK
    <3> QED BY <3>1, <3>2
  <2> QED BY <2>1 DEF IInv, RunIsContained, PageLimit
<1> QED BY <1>1, Invariance, PTL

(***************************************************************************)
(* Every page once in one seeding.                                         *)
(***************************************************************************)

LEMMA FewerCounted ==
  ASSUME NEW f \in Frontier, NEW u \in Url, NEW k \in Int, NEW j \in Int, j <= k, Counted(f, u, k)
  PROVE  Counted(f, u, j)
<1> DEFINE P == Cardinality(Positions(f.queue, u))
           Q == Cardinality(Positions(f.queueFile, u))
           U == f.unsees[u]
           S == One(u \in f.seen)
<1>1. /\ IsFiniteSet(Positions(f.queue, u)) /\ IsFiniteSet(Positions(f.queueFile, u))
      /\ k + P <= U + S /\ k + Q <= U + 1
  BY DEF Counted
<1>2. P \in Nat /\ Q \in Nat /\ U \in Nat /\ S \in Nat
  BY <1>1, FS_CardinalityType DEF Frontier, One
<1> HIDE DEF P, Q, U, S
<1>3. j + P <= U + S /\ j + Q <= U + 1
  BY <1>1, <1>2
<1> QED BY <1>1, <1>3 DEF Counted, P, Q, U, S

LEMMA InitCounted == Init => FetchesCounted
<1> SUFFICES ASSUME Init, NEW u \in Url
             PROVE  Counted(Current, u, fetches[u] + Cardinality(FetchersOf(u)) - crashes)
  BY DEF FetchesCounted
<1>1. Positions(queue, u) = {} /\ Positions(queueFile, u) = {}
  <2>1. queue = <<>> /\ queueFile = <<>> /\ DOMAIN queue = {} /\ DOMAIN queueFile = {}
    BY DEF Init
  <2> QED BY <2>1 DEF Positions
<1>2. FetchersOf(u) = {}
  <2>1. \A w \in Worker : worker[w].pc = "off"
    BY DEF Init, Off
  <2> QED BY <2>1 DEF FetchersOf, Unfetched, Holding
<1>3. fetches[u] = 0 /\ unsees[u] = 0 /\ u \notin seen /\ crashes = 0
  BY DEF Init
<1>4. IsFiniteSet({}) /\ Cardinality({}) = 0
  BY FS_EmptySet
<1>5. /\ Current.queue = queue /\ Current.queueFile = queueFile /\ Current.seen = seen
      /\ Current.unsees = unsees
  BY DEF Current
<1> QED BY <1>1, <1>2, <1>3, <1>4, <1>5 DEF One, Counted

LEMMA FetchersMove ==
  ASSUME NEW w \in Worker, Elsewhere(w), NEW u \in Url
  PROVE  /\ Cardinality(FetchersOf(u)) \in Nat /\ Cardinality(FetchersOf(u)') \in Nat
         /\ Cardinality(FetchersOf(u)')
              = Cardinality(FetchersOf(u)) - One(worker[w].pc \in Unfetched /\ UrlAt(w) = u)
                                           + One(worker'[w].pc \in Unfetched /\ UrlAt(w)' = u)
<1> DEFINE A == FetchersOf(u)
           B == FetchersOf(u)'
<1>1. A \subseteq Worker /\ B = {v \in Worker : worker'[v].pc \in Unfetched /\ UrlAt(v)' = u}
  BY DEF FetchersOf
<1>2. \A v : v # w => (v \in A <=> v \in B)
  BY <1>1 DEF FetchersOf, Elsewhere, UrlAt
<1>3. (w \in A <=> worker[w].pc \in Unfetched /\ UrlAt(w) = u)
      /\ (w \in B <=> worker'[w].pc \in Unfetched /\ UrlAt(w)' = u)
  BY <1>1 DEF FetchersOf
<1> HIDE DEF A, B
<1>4. /\ Cardinality(A) \in Nat /\ Cardinality(B) \in Nat
      /\ Cardinality(B) = Cardinality(A) - One(w \in A) + One(w \in B)
  <2>1. IsFiniteSet(A)
    BY <1>1, WorkersAreFinite
  <2> QED BY <1>2, <2>1, CountMoves
<1> QED BY <1>3, <1>4 DEF A, B

\* What the numbers of u are and become.
LEMMA CountedStep ==
  ASSUME Typed, FetchesCounted, NEW w \in Worker, Elsewhere(w), Steps(w)
  PROVE  FetchesCounted'
<1> SUFFICES ASSUME NEW u \in Url
             PROVE  Counted(Current, u, fetches[u] + Cardinality(FetchersOf(u)) - crashes)'
  BY DEF FetchesCounted
<1> DEFINE F  == fetches[u]
           F1 == fetches'[u]
           N  == Cardinality(FetchersOf(u))
           N1 == Cardinality(FetchersOf(u)')
           C  == crashes
           K  == F + N - C
           K1 == F1 + N1 - C
           Was == One(worker[w].pc \in Unfetched /\ UrlAt(w) = u)
           Is  == One(worker'[w].pc \in Unfetched /\ UrlAt(w)' = u)
<1>1. /\ queue \in Seq(Item) /\ seen \subseteq Url /\ fetches \in [Url -> Nat]
      /\ unsees \in [Url -> Nat] /\ C \in Nat
  BY DEF Typed, TypeOK, HistoryTyped
<1>2. N \in Nat /\ N1 \in Nat /\ N1 = N - Was + Is /\ Was \in Nat /\ Is \in Nat
  BY FetchersMove DEF One
<1>3. Counted(Current, u, K) /\ K \in Int /\ F \in Nat
  BY <1>1, <1>2 DEF FetchesCounted
<1>4. /\ Current.queue = queue /\ Current.seen = seen /\ Current.unsees = unsees
      /\ Current.queueFile = queueFile
      /\ Current'.queue = queue' /\ Current'.seen = seen' /\ Current'.unsees = unsees'
      /\ Current'.queueFile = queueFile'
  BY DEF Current
<1>0. crashes' = C
  BY DEF Elsewhere
<1> SUFFICES Counted(Current', u, K1)
  BY <1>0
<1>5. CASE Takes(w) \/ LosesTaken(w)
  <2> DEFINE P  == Cardinality(Positions(queue, u))
             P1 == Cardinality(Positions(queue', u))
             Q  == Cardinality(Positions(queueFile, u))
             Q1 == Cardinality(Positions(queueFile', u))
             U  == unsees[u]
             S  == One(u \in seen)
             h  == One(Head(queue).url = u)
  <2>1. queue # <<>> /\ queue' = Tail(queue) /\ seen' = seen /\ unsees' = unsees /\ fetches' = fetches
    BY <1>5 DEF Takes, LosesTaken, Dequeued, CountsKept, counts
  <2>2. /\ IsFiniteSet(Positions(queue, u)) /\ IsFiniteSet(Positions(queueFile, u))
        /\ K + P <= U + S /\ K + Q <= U + 1
    BY <1>3, <1>4 DEF Counted
  <2>3. IsFiniteSet(Positions(queue', u)) /\ P \in Nat /\ P1 = P - h
    BY <1>1, <2>1, <2>2, PositionsOfTail
  <2>4. P1 \in Nat /\ Q \in Nat /\ U \in Nat /\ S \in {0, 1} /\ h \in {0, 1}
    BY <1>1, <2>2, <2>3, FS_CardinalityType DEF One
  <2>5. Was = 0 /\ Is <= h /\ (LosesTaken(w) => Is = 0)
    <3>1. worker[w].pc \notin Unfetched
      BY <1>5 DEF Takes, LosesTaken, Goes, Unfetched, Holding
    <3>2. Takes(w) => UrlAt(w)' = Head(queue).url
      BY DEF Takes, UrlAt
    <3>3. LosesTaken(w) => worker'[w].pc \notin Unfetched
      BY DEF LosesTaken, Goes, Unfetched
    <3> QED BY <1>5, <3>1, <3>2, <3>3 DEF One
  <2>6. F1 = F
    BY <2>1
  <2>7. queueFile' = queue' \/ (LosesTaken(w) /\ queueFile' = queueFile)
    BY <1>5 DEF Takes, LosesTaken
  <2>8. IsFiniteSet(Positions(queueFile', u)) /\ (Q1 = P1 \/ (Is = 0 /\ Q1 = Q))
    BY <2>2, <2>3, <2>5, <2>7
  <2> DEFINE s == u \in seen
  <2>9. Current'.seen = seen /\ Current'.unsees[u] = U
    BY <1>4, <2>1
  <2> HIDE DEF F, F1, N, N1, C, Was, Is, P, P1, Q, Q1, U, S, h
  <2>10. K1 + P1 <= U + S /\ K1 + Q1 <= U + 1
    BY <1>1, <1>2, <1>3, <2>2, <2>3, <2>4, <2>5, <2>6, <2>8
  <2> QED BY <1>4, <2>3, <2>8, <2>9, <2>10 DEF Counted, P1, Q1, U, S
<1>6. CASE Follows1(w) \/ Breaks(w)
  <2>1. fetches' = fetches
    BY <1>6 DEF Follows1, Breaks, CountsKept, counts
  <2>2. Was = 0 /\ Is = 0
    BY <1>6 DEF Follows1, Breaks, Goes, Unfetched, Holding, One
  <2>3. K1 = K
    <3>1. F1 = F
      BY <2>1
    <3> HIDE DEF F, F1, N, N1, C, Was, Is
    <3> QED BY <1>2, <2>2, <3>1
  <2>4. Counted(Current', u, K)
    <3> HIDE DEF K
    <3>1. CASE Follows1(w)
      <4>1. Current' \in Frontier /\ Follows(Current', Current) /\ Current \in Frontier
        BY <3>1, FollowedIs, CurrentIs
      <4> DEFINE f == Current'
      <4>2. f \in Frontier /\ Follows(f, Current)
        BY <4>1
      <4> HIDE DEF f
      <4>3. Counted(f, u, K)
        BY <1>3, <4>1, <4>2, FollowsCounted
      <4> QED BY <4>3 DEF f
    <3>2. CASE Breaks(w)
      <4>1. \A k \in Int : Counted(Current, u, k) => Counted(Current', u, k)
        BY <3>2, BrokenIs
      <4> QED BY <1>3, <4>1
    <3> QED BY <1>6, <3>1, <3>2
  <2> QED BY <2>3, <2>4
<1>7. CASE ~ Takes(w) /\ ~ LosesTaken(w) /\ ~ Follows1(w) /\ ~ Breaks(w)
  <2>1. UNCHANGED <<queue, seen, queueFile, unsees>>
    BY <1>7 DEF Steps, Quits, Drops, Skips, Reserves, Disallows, Requests, Sleeps, Begins, Looks, Fails, GivesBack,
                Fetches, Stores, LosesRecord, Succeeds, Rests, FrontierKept
  <2>2. F1 + Is <= F + Was /\ F1 \in Nat
    <3>1. CASE Fails(w) \/ Fetches(w)
      <4>1. fetches' = [fetches EXCEPT ![UrlAt(w)] = fetches[UrlAt(w)] + 1]
        BY <3>1 DEF Fails, Fetches, CountPage, CountFetch
      <4>2. worker[w].pc \in Unfetched /\ worker'[w].pc \notin Unfetched
        BY <3>1 DEF Fails, Fetches, Goes, Unfetched, Holding
      <4>3. F1 = F + One(UrlAt(w) = u) /\ Was = One(UrlAt(w) = u) /\ Is = 0 /\ Was \in Nat
        BY <1>1, <4>1, <4>2 DEF One
      <4> HIDE DEF F, F1, Was, Is
      <4> QED BY <1>3, <4>3
    <3>2. CASE ~ (Fails(w) \/ Fetches(w))
      <4>1. fetches' = fetches
        BY <1>7, <3>2 DEF Steps, Quits, Drops, Skips, Reserves, Disallows, Requests, Sleeps, Begins, Looks,
                GivesBack, Stores, LosesRecord, Succeeds, Rests, CountsKept, counts
      <4>2. \/ worker'[w].pc \notin Unfetched
            \/ worker[w].pc \in Unfetched /\ worker'[w].item = worker[w].item
        BY <1>7, <3>2 DEF Steps, Quits, Drops, Skips, Reserves, Disallows, Requests, Sleeps, Begins, Looks,
                GivesBack, Stores, LosesRecord, Succeeds, Rests, Goes, ItemKept, Unfetched, Holding
      <4>3. F1 = F /\ Is <= Was
        BY <4>1, <4>2 DEF One, UrlAt
      <4> HIDE DEF F, F1, Was, Is
      <4> QED BY <1>2, <1>3, <4>3
    <3> QED BY <3>1, <3>2
  <2>3. K1 \in Int /\ K1 <= K
    <3> HIDE DEF F, F1, N, N1, C, Was, Is
    <3> QED BY <1>1, <1>2, <1>3, <2>2
  <2>4. Counted(Current, u, K1)
    <3> HIDE DEF K, K1
    <3> QED BY <1>3, <2>3, FewerCounted, CurrentIs
  <2>5. /\ Current'.queue = Current.queue /\ Current'.queueFile = Current.queueFile
        /\ Current'.seen = Current.seen /\ Current'.unsees = Current.unsees
    BY <1>4, <2>1
  <2> QED BY <2>4, <2>5 DEF Counted
<1> QED BY <1>5, <1>6, <1>7

LEMMA CountedCall ==
  ASSUME Typed, FetchesCounted, CallStep
  PROVE  FetchesCounted'
<1> SUFFICES ASSUME NEW u \in Url
             PROVE  Counted(Current, u, fetches[u] + Cardinality(FetchersOf(u)) - crashes)'
  BY DEF FetchesCounted
<1> DEFINE F  == fetches[u]
           N  == Cardinality(FetchersOf(u))
           N1 == Cardinality(FetchersOf(u)')
           C  == crashes
           C1 == crashes'
           K  == F + N - C
           K1 == F + N1 - C1
<1>1. fetches \in [Url -> Nat] /\ C \in Nat /\ C1 \in Nat
  BY CallTypes DEF Typed, HistoryTyped
<1>3. fetches' = fetches
  BY CrashesAre DEF CallStep, Initialize, Start, StartThrows, Stop, Abort, Close, Tick, FinishRun, counts
<1>4. N1 <= N /\ N \in Nat /\ N1 \in Nat
  <2>1. FetchersOf(u)' \subseteq FetchersOf(u)
    <3>1. ASSUME NEW w \in Worker, worker'[w].pc \in Unfetched PROVE worker'[w] = worker[w]
      BY <3>1, CallsMove DEF CallMoves, Unfetched, Holding
    <3> QED BY <3>1 DEF FetchersOf, UrlAt
  <2> DEFINE A == FetchersOf(u)
             B == FetchersOf(u)'
  <2>2. A \in SUBSET Worker /\ B \in SUBSET A
    BY <2>1 DEF FetchersOf
  <2> HIDE DEF A, B
  <2>3. IsFiniteSet(A) /\ Cardinality(A) \in Nat
    BY <2>2, WorkersAreFinite
  <2>4. IsFiniteSet(B) /\ Cardinality(B) <= Cardinality(A)
    BY <2>2, <2>3, FS_Subset
  <2>5. Cardinality(B) \in Nat
    BY <2>4, FS_CardinalityType
  <2> QED BY <2>3, <2>4, <2>5 DEF A, B
<1>5. F \in Nat /\ K \in Int /\ K1 \in Int /\ K1 <= K - C1 + C /\ K - C1 + C \in Int
  <2>1. F \in Nat
    BY <1>1
  <2> HIDE DEF F, N, N1, C, C1
  <2> QED BY <1>1, <1>4, <2>1
<1>6. Counted(Current, u, K)
  BY DEF FetchesCounted
<1> DEFINE G == Current'
           M == K - C1 + C
<1>7. Counted(G, u, M)
  <2>1. \A k \in Int : Counted(Current, u, k) => Counted(Current', u, k - crashes' + crashes)
    BY FrontierCall
  <2>2. \A k \in Int : Counted(Current, u, k) => Counted(G, u, k - crashes' + crashes)
    BY <2>1
  <2> HIDE DEF G, K
  <2> QED BY <1>5, <1>6, <2>2
<1>8. G \in Frontier
  BY FrontierCall
<1> HIDE DEF G, M
<1>9. Counted(G, u, K1)
  <2> HIDE DEF K1
  <2>1. M \in Int /\ K1 \in Int /\ K1 <= M
    BY <1>5 DEF M
  <2> QED BY <1>7, <1>8, <2>1, FewerCounted
<1> QED BY <1>3, <1>9 DEF G

(***************************************************************************)
(* No burst.  For any window of one politeness delay that starts at t: once  *)
(* a request to the domain falls into it, nobody who would still fall asleep *)
(* wakes in it; so the requests in it and the workers that will wake in it   *)
(* are together never more than the workers there are.                       *)
(***************************************************************************)

LEMMA InitBurst == Init => BurstInv
<1> SUFFICES ASSUME Init PROVE BurstInv
  OBVIOUS
<1>1. /\ \A u \in Url : requestAt[u] = -1 /\ Domain[u] \in Domains
      /\ \A d \in Domains : lastRequest[d] = -1
      /\ now = 0
  BY DEF Init, Never, Domains
<1>2. ClockOK
  BY <1>1 DEF ClockOK
<1>3. ASSUME NEW t \in Nat, NEW d \in Domains PROVE Sent(d, t) = {}
  BY <1>1, ConstantsAssumption DEF Sent
<1> QED BY <1>2, <1>3, FS_EmptySet DEF BurstInv, BurstOK

\* The clock of a domain shows its latest request, and no later time than now.
LEMMA ClockStep ==
  ASSUME Typed, ClockOK, NEW w \in Worker, Elsewhere(w), Steps(w)
  PROVE  ClockOK'
<1>1. /\ requestAt \in [Url -> Nat \cup {Never}] /\ lastRequest \in [Domains -> Nat \cup {Never}]
      /\ now \in Nat /\ Delay \in Nat /\ Never = -1
      /\ \A u \in Url : Domain[u] \in Domains
  BY ConstantsAssumption DEF Typed, TypeOK, HistoryTyped, Domains, Never
<1>2. CASE Requests(w) /\ Delay > 0
  <2> DEFINE a == UrlAt(w)
             d == Domain[a]
  <2>1. a \in Url /\ d \in Domains
    BY <1>1, <1>2 DEF Requests, Goes, Typed, WorkersOK, WithItem, Unmarked, Unfetched, Holding, UrlAt, Item
  <2>2. /\ requestAt' = [requestAt EXCEPT ![a] = now]
        /\ lastRequest' = [lastRequest EXCEPT ![d] = now] /\ now' = now
    BY <1>2 DEF Requests
  <2> HIDE DEF a
  <2>3. \A u \in Url : requestAt'[u] = IF u = a THEN now ELSE requestAt[u]
    BY <1>1, <2>1, <2>2
  <2> HIDE DEF d
  <2>4. \A e \in Domains : lastRequest'[e] = IF e = d THEN now ELSE lastRequest[e]
    BY <1>1, <2>1, <2>2
  <2>5. ASSUME NEW u \in Url PROVE requestAt'[u] <= lastRequest'[Domain[u]]
    <3>1. requestAt[u] <= lastRequest[Domain[u]] /\ lastRequest[Domain[u]] <= now
      BY <1>1 DEF ClockOK
    <3>2. requestAt[u] \in Int /\ lastRequest[Domain[u]] \in Int
      BY <1>1
    <3>3. requestAt[u] <= now
      BY <1>1, <3>1, <3>2
    <3>4. u = a => Domain[u] = d
      BY DEF d
    <3> QED BY <1>1, <2>3, <2>4, <3>1, <3>3, <3>4
  <2>6. ASSUME NEW e \in Domains PROVE lastRequest'[e] <= now'
    BY <1>1, <2>2, <2>4 DEF ClockOK
  <2> QED BY <2>5, <2>6 DEF ClockOK
<1>3. CASE ~ (Requests(w) /\ Delay > 0)
  <2>1. UNCHANGED <<lastRequest, now, requestAt>>
    BY <1>3 DEF Steps, Quits, Takes, LosesTaken, Drops, Skips, Reserves, Disallows, Requests, Sleeps,
           Begins, Looks, Fails, GivesBack, Fetches, Stores, LosesRecord, Succeeds, Follows1, Breaks, Rests,
           ClockKept, clock
  <2> QED BY <2>1 DEF ClockOK
<1> QED BY <1>2, <1>3

\* While nothing disturbs the runs, those who sleep are of the current run: not all
\* of its workers when one of them does something else.
LEMMA OthersAsleep ==
  ASSUME RunAlone, Undisturbed, NEW w \in Worker, w \in Live, NEW d, NEW t
  PROVE  /\ IsFiniteSet(Soon(d, t)) /\ Cardinality(Soon(d, t)) \in Nat
         /\ IsFiniteSet(Soon(d, t) \ {w}) /\ Cardinality(Soon(d, t) \ {w}) \in Nat
         /\ Cardinality(Soon(d, t) \ {w}) <= Concurrency - 1
<1> DEFINE S == Soon(d, t)
           R == WorkersOf(run)
<1>1. RunOf(w) = run /\ run \in Runs
  BY RunOfIs DEF RunAlone
<1>2. w \in R /\ R \in SUBSET Worker /\ S \in SUBSET Worker
  BY <1>1 DEF WorkersOf, Soon
<1>3. S \subseteq R
  BY DEF Soon, At, WorkersOf, RunAlone, Live, Left
<1>4. Cardinality(R) = Concurrency
  BY <1>1, RunOfIs
<1> HIDE DEF S, R
<1>5. IsFiniteSet(S) /\ Cardinality(S) \in Nat /\ IsFiniteSet(R)
  BY <1>2, WorkersAreFinite
<1> DEFINE T == S \ {w}
           Q == R \ {w}
<1>6. T \subseteq Q /\ T \in SUBSET Worker
  BY <1>2, <1>3
<1>7. IsFiniteSet(Q) /\ Cardinality(Q) = Cardinality(R) - 1
  BY <1>2, <1>5, FS_RemoveElement
<1> HIDE DEF T, Q
<1>8. IsFiniteSet(T) /\ Cardinality(T) \in Nat /\ Cardinality(T) <= Cardinality(Q)
  BY <1>6, <1>7, WorkersAreFinite, FS_Subset
<1> QED BY <1>4, <1>5, <1>7, <1>8 DEF S, T

LEMMA BurstStep ==
  ASSUME Typed, ClockOK, RunAlone, NEW t \in Nat, BurstOK(t),
         NEW w \in Worker, Elsewhere(w), Steps(w)
  PROVE  BurstOK(t)'
<1> SUFFICES ASSUME Undisturbed', NEW d \in Domains
             PROVE  /\ IsFiniteSet(Sent(d, t)')
                    /\ Sent(d, t)' # {} =>
                         Cardinality(Sent(d, t)') + Cardinality(Soon(d, t)') <= Concurrency
  BY DEF BurstOK
<1> DEFINE A  == Sent(d, t)
           A1 == Sent(d, t)'
           S  == Soon(d, t)
           S1 == Soon(d, t)'
<1>1. /\ requestAt \in [Url -> Nat \cup {Never}] /\ lastRequest \in [Domains -> Nat \cup {Never}]
      /\ now \in Nat /\ Delay \in Nat /\ Never = -1 /\ Concurrency \in Nat \ {0}
  BY ConstantsAssumption, WorkersAreFinite DEF Typed, TypeOK, HistoryTyped, Domains, Never
<1>2. Undisturbed
  BY <1>1 DEF Undisturbed, Elsewhere, Typed, HistoryTyped
<1>3. w \in Live
  BY DEF Live, Left, Steps, Quits, Takes, LosesTaken, Drops, Skips, Reserves, Disallows, Requests, Sleeps,
         Begins, Looks, Fails, GivesBack, Fetches, Stores, LosesRecord, Succeeds, Follows1, Breaks, Rests, Goes
<1>4. IsFiniteSet(A) /\ (A # {} => Cardinality(A) + Cardinality(S) <= Concurrency)
  BY <1>2 DEF BurstOK
<1>5. /\ IsFiniteSet(S) /\ Cardinality(S) \in Nat /\ Cardinality(A) \in Nat
      /\ IsFiniteSet(S \ {w}) /\ Cardinality(S \ {w}) \in Nat
      /\ Cardinality(S \ {w}) <= Concurrency - 1
  BY <1>2, <1>3, <1>4, OthersAsleep, FS_CardinalityType
<1>6. \A v \in Worker : v # w => (v \in S1 <=> v \in S)
  BY DEF Soon, At, UrlAt, Elsewhere
<1>7. S \subseteq Worker /\ S1 \subseteq Worker
  BY DEF Soon
<1>8. CASE Requests(w) /\ Delay > 0 /\ Domain[UrlAt(w)] = d
  <2> DEFINE a == UrlAt(w)
  <2>1. a \in Url
    BY <1>1, <1>8 DEF Requests, Goes, Typed, WorkersOK, WithItem, Unmarked, Unfetched, Holding, UrlAt, Item
  <2>2. requestAt' = [requestAt EXCEPT ![a] = now]
    BY <1>8 DEF Requests
  <2>3. w \notin S1
    BY <1>8 DEF Soon, At, Requests, Goes
  <2>4. S1 = S \ {w}
    BY <1>6, <1>7, <2>3
  <2>5. \A v \in Url : requestAt'[v] = IF v = a THEN now ELSE requestAt[v]
    BY <1>1, <2>1, <2>2
  <2>6. A1 = {v \in Url : Domain[v] = d /\ requestAt'[v] \in t..(t + Delay - 1)}
    BY DEF Sent
  <2>7. \A v : v # a => (v \in A1 => v \in A)
    BY <2>5, <2>6 DEF Sent
  <2>8. CASE now \notin t..(t + Delay - 1)
    <3>1. A1 \subseteq A
      BY <2>5, <2>6, <2>7, <2>8
    <3> HIDE DEF A, A1, S, S1
    <3>2. IsFiniteSet(A1) /\ Cardinality(A1) <= Cardinality(A) /\ Cardinality(A1) \in Nat
      BY <1>4, <3>1, FS_Subset, FS_CardinalityType
    <3>3. Cardinality(S1) <= Cardinality(S) /\ Cardinality(S1) \in Nat
      BY <1>5, <2>4, FS_Subset
    <3>4. A1 # {} => A # {}
      BY <3>1
    <3>5. A1 # {} => Cardinality(A1) + Cardinality(S1) <= Concurrency
      BY <1>1, <1>4, <1>5, <3>2, <3>3, <3>4
    <3> QED BY <3>2, <3>5 DEF A1, S1
  <2>9. CASE now \in t..(t + Delay - 1) /\ A = {}
    <3>1. A1 \subseteq {a}
      BY <2>7, <2>9
    <3> HIDE DEF A, A1, S, S1, a
    <3>2. IsFiniteSet({a}) /\ Cardinality({a}) = 1
      BY FS_Singleton
    <3>3. IsFiniteSet(A1) /\ Cardinality(A1) <= 1 /\ Cardinality(A1) \in Nat
      BY <3>1, <3>2, FS_Subset, FS_CardinalityType
    <3>4. Cardinality(S1) <= Concurrency - 1 /\ Cardinality(S1) \in Nat
      BY <1>5, <2>4
    <3>5. Cardinality(A1) + Cardinality(S1) <= Concurrency
      BY <1>1, <3>3, <3>4
    <3> QED BY <3>3, <3>5 DEF A1, S1
  <2>10. CASE now \in t..(t + Delay - 1) /\ A # {}
    <3>1. PICK v \in Url : Domain[v] = d /\ requestAt[v] \in t..(t + Delay - 1)
      BY <2>10 DEF Sent
    <3>2. lastRequest[d] >= t /\ lastRequest[d] \in Nat
      <4>1. requestAt[v] <= lastRequest[d] /\ requestAt[v] >= t
        BY <1>1, <3>1 DEF ClockOK
      <4>2. requestAt[v] \in Int /\ lastRequest[d] \in Nat \cup {-1}
        BY <1>1, <3>1
      <4> QED BY <4>1, <4>2
    <3>3. ~ (Delay = 0 \/ LastRequest(w) = Never \/ now - LastRequest(w) >= Delay)
      <4>1. LastRequest(w) = lastRequest[d] /\ Delay > 0
        BY <1>8 DEF LastRequest
      <4> QED BY <1>1, <2>10, <3>2, <4>1
    <3>4. w \in S
      <4>1. worker[w].pc = "sleeping" /\ now >= worker[w].wake
        BY <1>8, <3>3 DEF Requests, Goes
      <4>2. worker[w].wake \in Nat
        BY DEF Typed, TypeOK
      <4>3. worker[w].wake <= t + Delay - 1
        BY <1>1, <2>10, <4>1, <4>2
      <4> QED BY <1>8, <4>1, <4>3 DEF Soon, At
    <3>5. A1 \subseteq A \cup {a}
      BY <2>7
    <3> HIDE DEF A, A1, S, S1, a
    <3>6. /\ IsFiniteSet(A \cup {a}) /\ Cardinality(A \cup {a}) \in Nat
          /\ Cardinality(A \cup {a}) <= Cardinality(A) + 1
      <4>1. IsFiniteSet(A \cup {a}) /\ (Cardinality(A \cup {a}) = Cardinality(A)
                                         \/ Cardinality(A \cup {a}) = Cardinality(A) + 1)
        BY <1>4, FS_AddElement
      <4> QED BY <1>5, <4>1
    <3>7. IsFiniteSet(A1) /\ Cardinality(A1) <= Cardinality(A \cup {a}) /\ Cardinality(A1) \in Nat
      BY <3>5, <3>6, FS_Subset, FS_CardinalityType
    <3>8. Cardinality(S1) = Cardinality(S) - 1
      BY <1>5, <2>4, <3>4, FS_RemoveElement
    <3> DEFINE b == Cardinality(A \cup {a})
    <3> HIDE DEF b
    <3>9. b \in Nat /\ b <= Cardinality(A) + 1 /\ Cardinality(A1) <= b
      BY <3>6, <3>7 DEF b
    <3>10. Cardinality(A) + Cardinality(S) <= Concurrency
      BY <1>4, <2>10
    <3>11. Cardinality(A1) + Cardinality(S1) <= Concurrency
      BY <1>1, <1>5, <3>7, <3>8, <3>9, <3>10
    <3> QED BY <3>7, <3>11 DEF A1, S1
  <2> QED BY <2>8, <2>9, <2>10
<1>9. CASE ~ (Requests(w) /\ Delay > 0 /\ Domain[UrlAt(w)] = d)
  <2>1. A1 = A
    <3>1. CASE Requests(w) /\ Delay > 0
      <4>1. Domain[UrlAt(w)] # d /\ requestAt' = [requestAt EXCEPT ![UrlAt(w)] = now]
        BY <1>9, <3>1 DEF Requests
      <4>2. \A v \in Url : Domain[v] = d => requestAt'[v] = requestAt[v]
        BY <1>1, <4>1
      <4> QED BY <4>2 DEF Sent
    <3>2. CASE ~ (Requests(w) /\ Delay > 0)
      <4>1. requestAt' = requestAt
        BY <3>2 DEF Steps, Quits, Takes, LosesTaken, Drops, Skips, Reserves, Disallows, Requests, Sleeps,
               Begins, Looks, Fails, GivesBack, Fetches, Stores, LosesRecord, Succeeds, Follows1, Breaks, Rests,
               ClockKept, clock
      <4> QED BY <4>1 DEF Sent
    <3> QED BY <3>1, <3>2
  <2>2. A # {} => w \notin S1
    <3> SUFFICES ASSUME A # {}, w \in S1 PROVE FALSE
      OBVIOUS
    <3>1. worker'[w].pc = "sleeping" /\ Domain[UrlAt(w)'] = d /\ worker'[w].wake <= t + Delay - 1
      BY DEF Soon, At
    <3>2. Sleeps(w)
      BY <3>1 DEF Steps, Quits, Takes, LosesTaken, Drops, Skips, Reserves, Disallows, Requests, Sleeps,
               Begins, Looks, Fails, GivesBack, Fetches, Stores, LosesRecord, Succeeds, Follows1, Breaks, Rests,
               Goes
    <3>3. Domain[UrlAt(w)] = d /\ worker'[w].wake = lastRequest[d] + Delay
      BY <3>1, <3>2 DEF Sleeps, ItemKept, UrlAt, LastRequest
    <3>4. PICK v \in Url : Domain[v] = d /\ requestAt[v] \in t..(t + Delay - 1)
      BY DEF Sent
    <3>5. requestAt[v] <= lastRequest[d] /\ requestAt[v] \in Int /\ requestAt[v] >= t
          /\ lastRequest[d] \in Int
      BY <1>1, <3>4 DEF ClockOK
    <3> QED BY <1>1, <3>1, <3>3, <3>5
  <2>3. A # {} => S1 \subseteq S
    BY <1>6, <1>7, <2>2
  <2> HIDE DEF A, A1, S, S1
  <2>4. A # {} => Cardinality(S1) <= Cardinality(S) /\ Cardinality(S1) \in Nat
    BY <1>5, <2>3, FS_Subset, FS_CardinalityType
  <2>5. A1 # {} => Cardinality(A1) + Cardinality(S1) <= Concurrency
    BY <1>1, <1>4, <1>5, <2>1, <2>4
  <2> QED BY <1>4, <2>1, <2>5 DEF A1, S1
<1> QED BY <1>8, <1>9

LEMMA BurstCall ==
  ASSUME Typed, ClockOK, RunAlone, NEW t \in Nat, BurstOK(t), CallStep
  PROVE  BurstOK(t)'
<1> SUFFICES ASSUME Undisturbed', NEW d \in Domains
             PROVE  /\ IsFiniteSet(Sent(d, t)')
                    /\ Sent(d, t)' # {} =>
                         Cardinality(Sent(d, t)') + Cardinality(Soon(d, t)') <= Concurrency
  BY DEF BurstOK
<1> DEFINE A  == Sent(d, t)
           A1 == Sent(d, t)'
           S  == Soon(d, t)
           S1 == Soon(d, t)'
<1>1. Undisturbed
  <2>1. Crashes => UNCHANGED <<closes, storageErrors>>
    BY CrashesAre
  <2> QED BY <2>1 DEF Undisturbed, CallStep, Initialize, Start, StartThrows, Stop, Abort, Close, Tick,
                      FinishRun, faults, Typed, HistoryTyped
<1>2. IsFiniteSet(A) /\ (A # {} => Cardinality(A) + Cardinality(S) <= Concurrency)
  BY <1>1 DEF BurstOK
<1>3. CASE Crashes
  <2>1. \A u \in Url : requestAt'[u] = -1
    BY <1>3, CrashesAre DEF Never
  <2>2. A1 = {}
    BY <2>1, ConstantsAssumption DEF Sent
  <2> HIDE DEF A1, S1
  <2>3. IsFiniteSet(A1)
    BY <2>2, FS_EmptySet
  <2> QED BY <2>2, <2>3 DEF A1
<1>4. CASE ~ Crashes
  <2>1. requestAt' = requestAt
    BY <1>4 DEF CallStep, Initialize, Start, StartThrows, Stop, Abort, Close, Tick, FinishRun, clock
  <2>2. A1 = A
    BY <2>1 DEF Sent
  <2>3. S1 \subseteq S
    <3> SUFFICES ASSUME NEW w \in Worker, worker'[w].pc = "sleeping"
                 PROVE  worker'[w] = worker[w]
      BY DEF Soon, At, UrlAt
    <3> QED BY <1>4, CallsMove DEF CallMoves
  <2>4. S \in SUBSET Worker /\ S1 \in SUBSET Worker
    BY DEF Soon
  <2> HIDE DEF A, A1, S, S1
  <2>5. Cardinality(S1) <= Cardinality(S) /\ Cardinality(S) \in Nat /\ Cardinality(S1) \in Nat
    BY <2>3, <2>4, WorkersAreFinite, FS_Subset
  <2>6. Cardinality(A) \in Nat /\ Concurrency \in Nat
    BY <1>2, FS_CardinalityType, WorkersAreFinite
  <2>7. A1 # {} => Cardinality(A1) + Cardinality(S1) <= Concurrency
    BY <1>2, <2>2, <2>5, <2>6
  <2> QED BY <1>2, <2>2, <2>7 DEF A1, S1
<1> QED BY <1>3, <1>4

LEMMA ClockCall ==
  ASSUME Typed, ClockOK, CallStep
  PROVE  ClockOK'
<1>1. /\ requestAt \in [Url -> Nat \cup {Never}] /\ lastRequest \in [Domains -> Nat \cup {Never}]
      /\ now \in Nat /\ Never = -1
      /\ \A u \in Url : Domain[u] \in Domains
  BY DEF Typed, TypeOK, HistoryTyped, Domains, Never
<1>2. CASE Crashes
  <2>1. /\ \A u \in Url : requestAt'[u] = -1
        /\ \A d \in Domains : lastRequest'[d] = -1
        /\ now' = now
    BY <1>1, <1>2, CrashesAre
  <2> QED BY <1>1, <2>1 DEF ClockOK
<1>3. CASE ~ Crashes
  <2>1. requestAt' = requestAt /\ lastRequest' = lastRequest /\ (now' = now \/ now' = now + 1)
    BY <1>3 DEF CallStep, Initialize, Start, StartThrows, Stop, Abort, Close, Tick, FinishRun, clock
  <2>2. \A d \in Domains : lastRequest[d] <= now /\ lastRequest[d] \in Int
    BY <1>1 DEF ClockOK
  <2>3. \A d \in Domains : lastRequest'[d] <= now'
    BY <1>1, <2>1, <2>2
  <2> QED BY <2>1, <2>3 DEF ClockOK
<1> QED BY <1>2, <1>3

InOrder == FetchesCounted /\ BurstInv

LEMMA InOrderStep == IInv /\ InOrder /\ [Next]_vars => InOrder'
<1> SUFFICES ASSUME IInv, InOrder, [Next]_vars PROVE InOrder'
  OBVIOUS
<1>1. Typed /\ RunAlone /\ FetchesCounted /\ ClockOK /\ \A t \in Nat : BurstOK(t)
  BY DEF IInv, Typed, InOrder, BurstInv
<1>2. ASSUME NEW w \in Worker, Elsewhere(w), Steps(w) PROVE InOrder'
  <2>1. FetchesCounted' /\ ClockOK'
    BY <1>1, <1>2, CountedStep, ClockStep
  <2>2. ASSUME NEW t \in Nat PROVE BurstOK(t)'
    BY <1>1, <1>2, BurstStep
  <2> QED BY <2>1, <2>2 DEF InOrder, BurstInv
<1>3. CASE CallStep
  <2>1. FetchesCounted' /\ ClockOK'
    BY <1>1, <1>3, CountedCall, ClockCall
  <2>2. ASSUME NEW t \in Nat PROVE BurstOK(t)'
    BY <1>1, <1>3, BurstCall
  <2> QED BY <2>1, <2>2 DEF InOrder, BurstInv
<1>4. CASE UNCHANGED vars
  <2> USE DEF vars, frontier, storage, control, counts, clock, faults
  <2>1. FetchesCounted'
    <3>1. Current' = Current /\ crashes' = crashes /\ fetches' = fetches
      BY <1>4 DEF Current
    <3>2. \A u : FetchersOf(u)' = FetchersOf(u)
      BY <1>4 DEF FetchersOf, UrlAt
    <3> QED BY <1>1, <3>1, <3>2 DEF FetchesCounted
  <2>2. ClockOK'
    BY <1>1, <1>4 DEF ClockOK
  <2>3. ASSUME NEW t \in Nat PROVE BurstOK(t)'
    <3>1. \A d : Sent(d, t)' = Sent(d, t) /\ Soon(d, t)' = Soon(d, t)
      BY <1>4 DEF Sent, Soon, At, UrlAt
    <3>2. Undisturbed' <=> Undisturbed
      BY <1>4 DEF Undisturbed
    <3> QED BY <1>1, <3>1, <3>2 DEF BurstOK
  <2> QED BY <2>1, <2>2, <2>3 DEF InOrder, BurstInv
<1> QED BY <1>1, <1>2, <1>3, <1>4, NextIs

\* What the invariants say of the pages fetched.
LEMMA InOrderSuffices == IInv /\ InOrder => FetchesInOrder
<1> SUFFICES ASSUME IInv, InOrder PROVE FetchesInOrder
  OBVIOUS
<1>1. FetchedOncePerSeeding
  <2> SUFFICES ASSUME NEW u \in Url PROVE fetches[u] <= 1 + unsees[u] + crashes
    BY DEF FetchedOncePerSeeding
  <2> DEFINE P == Cardinality(Positions(queue, u))
             N == Cardinality(FetchersOf(u))
             S == One(u \in seen)
             F == fetches[u]
             U == unsees[u]
             C == crashes
  <2>1. IsFiniteSet(Positions(queue, u)) /\ (F + N - C) + P <= U + S
    BY DEF InOrder, FetchesCounted, Counted, Current
  <2>2. F \in Nat /\ U \in Nat /\ S \in {0, 1} /\ C \in Nat
    BY DEF IInv, HistoryTyped, One
  <2>3. P \in Nat
    BY <2>1, FS_CardinalityType
  <2>4. N \in Nat
    BY WorkersAreFinite DEF FetchersOf
  <2> HIDE DEF P, N, S, F, U, C
  <2>5. F <= 1 + U + C
    BY <2>1, <2>2, <2>3, <2>4
  <2> QED BY <2>5 DEF F, U, C
<1>2. DepthRespected
  BY DEF DepthRespected, At, IInv, WorkersOK, Holding
<1>3. BurstsBounded
  <2> SUFFICES ASSUME Undisturbed, NEW u \in Url, requestAt[u] # Never
               PROVE  Cardinality({v \in Url : Within(u, v)}) <= Concurrency
    BY DEF BurstsBounded
  <2> DEFINE t == requestAt[u]
             d == Domain[u]
             A == Sent(d, t)
             S == Soon(d, t)
  <2>1. t \in Nat /\ d \in Domains
    BY DEF IInv, HistoryTyped, Domains
  <2>2. IsFiniteSet(A) /\ (A # {} => Cardinality(A) + Cardinality(S) <= Concurrency)
    BY <2>1 DEF InOrder, BurstInv, BurstOK
  <2>3. {v \in Url : Within(u, v)} = A
    BY DEF Within, Sent
  <2>4. S \in SUBSET Worker
    BY DEF Soon
  <2> HIDE DEF A, S
  <2>5. Cardinality(S) \in Nat /\ Concurrency \in Nat
    BY <2>4, WorkersAreFinite
  <2>6. Cardinality(A) \in Nat
    BY <2>2, FS_CardinalityType
  <2>7. Cardinality(A) <= Concurrency
    <3>1. CASE A = {}
      BY <2>5, <3>1, FS_EmptySet
    <3>2. CASE A # {}
      BY <2>2, <2>5, <2>6, <3>2
    <3> QED BY <3>1, <3>2
  <2> QED BY <2>3, <2>7
<1> QED BY <1>1, <1>2, <1>3 DEF FetchesInOrder

(* No page is fetched twice in one seeding, but for once more with each      *)
(* crash, and none deeper than its run allows, whatever runs overlap,       *)
(* whatever fails and wherever the process dies, between the two files of   *)
(* the frontier too; and while nothing fails or is closed, the workers of a *)
(* process make no more requests to a domain within one delay than there    *)
(* are workers.                                                             *)
THEOREM PagesAreFetchedInOrder == Spec => []FetchesInOrder
<1>1. Init => IInv /\ InOrder
  BY InitInvariant, InitCounted, InitBurst DEF InOrder
<1>2. (IInv /\ InOrder) /\ [Next]_vars => (IInv /\ InOrder)'
  BY InvariantStep, InOrderStep
<1>3. IInv /\ InOrder => FetchesInOrder
  BY InOrderSuffices
<1> QED BY <1>1, <1>2, <1>3, PTL DEF Spec

(***************************************************************************)
(* What is dropped.  A URL is lost when it blocks its page from being queued *)
(* again, and nobody has it pending or will still mark it.  A worker loses   *)
(* one only as it leaves the loop, so what is lost and who may still lose    *)
(* something add up.                                                         *)
(***************************************************************************)

LEMMA PendingOfTail ==
  ASSUME NEW q \in Seq(Item), q # <<>>
  PROVE  PendingIn(q) = PendingIn(Tail(q)) \cup {Head(q).url}
<1> DEFINE t == Tail(q)
           n == Len(q)
<1>1. /\ n \in Nat \ {0} /\ DOMAIN q = 1..n /\ DOMAIN t = 1..(n - 1)
      /\ Head(q) = q[1] /\ \A i \in 1..(n - 1) : t[i] = q[i + 1]
  OBVIOUS
<1> HIDE DEF t, n
<1>2. \A i \in DOMAIN t : i + 1 \in DOMAIN q /\ t[i] = q[i + 1]
  BY <1>1
<1>3. \A i \in DOMAIN q : i # 1 => i - 1 \in DOMAIN t /\ t[i - 1] = q[i]
  BY <1>1
<1>4. 1 \in DOMAIN q
  BY <1>1
<1>5. ASSUME NEW u PROVE u \in PendingIn(q) <=> u \in PendingIn(t) \/ u = Head(q).url
  <2>1. ASSUME NEW i \in DOMAIN q, q[i].url = u PROVE u \in PendingIn(t) \/ u = Head(q).url
    <3>1. CASE i = 1
      BY <1>1, <2>1, <3>1
    <3>2. CASE i # 1
      BY <1>3, <2>1, <3>2 DEF PendingIn
    <3> QED BY <3>1, <3>2
  <2>2. ASSUME NEW i \in DOMAIN t, t[i].url = u PROVE u \in PendingIn(q)
    BY <1>2, <2>2 DEF PendingIn
  <2>3. Head(q).url \in PendingIn(q)
    BY <1>1, <1>4 DEF PendingIn
  <2> QED BY <2>1, <2>2, <2>3 DEF PendingIn
<1> QED BY <1>5 DEF t

(***************************************************************************)
(* Which step loses a URL.                                                 *)
(***************************************************************************)

NobodyHas(u) == \A v \in Worker : worker[v].pc \in Unmarked => UrlAt(v) # u
LostIs(u) == /\ u \in BlockedOf(Current) /\ urlStatus[u] \notin Final
             /\ u \notin skipped /\ NobodyHas(u)

LEMMA LostAre == /\ \A u : u \in Lost <=> LostIs(u)
                 /\ \A u : u \in Lost' <=> LostIs(u)'
<1>1. ASSUME NEW u PROVE u \in Lost <=> LostIs(u)
  BY DEF Lost, LostIs, UnmarkedUrls, Markers, NobodyHas
<1>2. ASSUME NEW u PROVE u \in Lost' <=> LostIs(u)'
  BY DEF Lost, LostIs, UnmarkedUrls, Markers, NobodyHas
<1> QED BY <1>1, <1>2

\* What the frontier blocks, by its variables.
LEMMA BlockedAre ==
  /\ BlockedOf(Current) = (seen \cup seenFile) \ (PendingIn(queue) \cap PendingIn(queueFile))
  /\ BlockedOf(Current)' = (seen' \cup seenFile') \ (PendingIn(queue') \cap PendingIn(queueFile'))
<1>1. BlockedOf(Current) = (seen \cup seenFile) \ (PendingIn(queue) \cap PendingIn(queueFile))
  BY DEF BlockedOf, Current
<1>2. BlockedOf(Current)' = (seen' \cup seenFile') \ (PendingIn(queue') \cap PendingIn(queueFile'))
  BY DEF BlockedOf, Current
<1> QED BY <1>1, <1>2

LosesOne(w) == Drops(w) \/ LosesTaken(w) \/ LosesRecord(w) \/ Breaks(w)
Misses      == missed' # missed

\* A step loses one URL at most: that of a worker that leaves with it, or of one that
\* could not record its final status.
LEMMA LostStep ==
  ASSUME Typed, NEW w \in Worker, Elsewhere(w), Steps(w)
  PROVE  \E x : \A u \in Lost' : u \in Lost \/ (u = x /\ (LosesOne(w) \/ Misses))
<1>1. ASSUME NEW u \in Lost'
      PROVE  /\ u \in BlockedOf(Current)' /\ urlStatus'[u] \notin Final /\ u \notin skipped'
             /\ \A v \in Worker : v # w => (worker[v].pc \in Unmarked => UrlAt(v) # u)
             /\ worker'[w].pc \in Unmarked => worker'[w].item.url # u
  <2>1. LostIs(u)'
    BY <1>1, LostAre
  <2> QED BY <2>1 DEF LostIs, NobodyHas, Elsewhere, UrlAt
<1>2. ASSUME NEW u, u \in BlockedOf(Current), urlStatus[u] \notin Final, u \notin skipped,
             \A v \in Worker : v # w => (worker[v].pc \in Unmarked => UrlAt(v) # u),
             worker[w].pc \in Unmarked => UrlAt(w) # u
      PROVE  u \in Lost
  BY <1>2, LostAre DEF LostIs, NobodyHas
<1>3. /\ queue \in Seq(Item) /\ urlStatus \in [Url -> Statuses] /\ seen \subseteq Url
      /\ seenFile \subseteq Url
  BY DEF Typed, TypeOK
<1>4. CASE Breaks(w)
  <2>1. /\ worker[w].pc \notin Unmarked /\ skipped' = skipped /\ urlStatus' = urlStatus
    BY <1>4, BrokenIs DEF Breaks, Goes, Unmarked, Unfetched
  <2>2. PICK x \in Url : BlockedOf(Current)' \subseteq BlockedOf(Current) \cup {x}
    BY <1>4, BrokenIs
  <2>3. \A u \in Lost' : u \in Lost \/ u = x
    BY <1>1, <1>2, <2>1, <2>2
  <2> QED BY <1>4, <2>3 DEF LosesOne
<1>5. CASE ~Breaks(w)
  <2> DEFINE x == IF LosesTaken(w) THEN Head(queue).url ELSE UrlAt(w)
  <2> SUFFICES ASSUME NEW u \in Lost', u \notin Lost PROVE u = x /\ (LosesOne(w) \/ Misses)
    OBVIOUS
  <2>1. /\ u \in BlockedOf(Current)' /\ urlStatus'[u] \notin Final /\ u \notin skipped'
        /\ \A v \in Worker : v # w => (worker[v].pc \in Unmarked => UrlAt(v) # u)
        /\ worker'[w].pc \in Unmarked => worker'[w].item.url # u
    BY <1>1
  <2>2. ~ (/\ u \in BlockedOf(Current) /\ urlStatus[u] \notin Final /\ u \notin skipped
           /\ worker[w].pc \in Unmarked => UrlAt(w) # u)
    BY <1>2, <2>1
  <2>3. FrontierKept => /\ BlockedOf(Current)' = BlockedOf(Current) /\ skipped' = skipped
                        /\ u \in Url
    BY <1>3, <2>1, BlockedAre DEF FrontierKept
  <2>4. worker[w].pc \in WithItem => UrlAt(w) \in Url
    BY DEF Typed, WorkersOK, Item, UrlAt
  <2>5. CASE Reserves(w) \/ Requests(w) \/ Sleeps(w) \/ Looks(w) \/ Fetches(w) \/ Stores(w)
    <3>1. ItemKept(w) /\ worker'[w].pc \in Unmarked /\ FrontierKept /\ urlStatus' = urlStatus
      BY <2>5 DEF Reserves, Requests, Sleeps, Looks, Fetches, Stores, StatusKept, Goes, Unmarked,
                  Unfetched
    <3> QED BY <2>1, <2>2, <2>3, <3>1 DEF ItemKept, UrlAt
  <2>6. CASE Begins(w)
    <3>1. ItemKept(w) /\ worker'[w].pc \in Unmarked /\ FrontierKept /\ Mark(UrlAt(w), "in_progress")
          /\ UrlAt(w) \in Url
      BY <2>4, <2>6 DEF Begins, Goes, WithItem, Unmarked, Unfetched
    <3>2. UrlAt(w) # u
      BY <2>1, <3>1 DEF ItemKept, UrlAt
    <3>3. "in_progress" \in Statuses
      BY DEF Statuses
    <3>4. urlStatus'[u] = urlStatus[u]
      BY <2>3, <3>1, <3>2, <3>3, MarkIs
    <3> QED BY <2>1, <2>2, <2>3, <3>1, <3>2, <3>4
  <2>7. CASE Quits(w) \/ Rests(w) \/ GivesBack(w)
    <3>1. worker[w].pc \notin Unmarked /\ FrontierKept /\ urlStatus' = urlStatus
      BY <2>7 DEF Quits, Rests, GivesBack, StatusKept, Goes, Unmarked, Unfetched
    <3> QED BY <2>1, <2>2, <2>3, <3>1
  <2>8. CASE Disallows(w) \/ Fails(w) \/ Succeeds(w)
    <3>1. PICK s \in Final : Mark(UrlAt(w), s)
      BY <2>8 DEF Disallows, Fails, Succeeds, Final
    <3>2. FrontierKept /\ worker[w].pc \in WithItem /\ ~LosesTaken(w)
      BY <2>8 DEF Disallows, Fails, Succeeds, LosesTaken, Goes, WithItem, Unmarked, Unfetched
    <3>3. s \in Statuses /\ UrlAt(w) \in Url
      BY <2>4, <3>2 DEF Statuses, Final
    <3>4. u = UrlAt(w)
      <4>1. u # UrlAt(w) => urlStatus'[u] = urlStatus[u]
        BY <2>3, <3>1, <3>2, <3>3, MarkIs
      <4> QED BY <2>1, <2>2, <2>3, <3>2, <4>1
    <3>5. Misses
      BY <2>1, <3>1, <3>3, <3>4, MarkIs DEF Misses
    <3> QED BY <3>2, <3>4, <3>5
  <2>9. CASE Skips(w)
    <3>1. /\ UrlAt(w) # u /\ u \notin skipped /\ urlStatus' = urlStatus
          /\ BlockedOf(Current)' = BlockedOf(Current)
      BY <2>1, <2>9, BlockedAre DEF Skips, StatusKept
    <3> QED BY <2>1, <2>2, <3>1
  <2>10. CASE Takes(w) \/ LosesTaken(w)
    <3>1. /\ worker[w].pc \notin Unmarked /\ queue # <<>> /\ queue' = Tail(queue)
          /\ seen' = seen /\ seenFile' = seenFile /\ skipped' = skipped /\ urlStatus' = urlStatus
          /\ queueFile' = queueFile \/ queueFile' = Tail(queue)
      BY <2>10 DEF Takes, LosesTaken, Goes, Dequeued, StatusKept, Unmarked, Unfetched
    <3>2. PendingIn(queue) = PendingIn(Tail(queue)) \cup {Head(queue).url}
      BY <1>3, <3>1, PendingOfTail
    <3>3. u \notin BlockedOf(Current)
      BY <2>1, <2>2, <3>1
    <3>4. u = Head(queue).url
      BY <2>1, <3>1, <3>2, <3>3, BlockedAre
    <3>5. ~ Takes(w)
      BY <2>1, <3>4 DEF Takes, Goes, Unmarked, Unfetched
    <3> QED BY <2>10, <3>4, <3>5 DEF LosesOne
  <2>11. CASE Drops(w) \/ LosesRecord(w)
    <3>1. FrontierKept /\ urlStatus' = urlStatus /\ ~LosesTaken(w)
      BY <2>11 DEF Drops, LosesRecord, LosesTaken, StatusKept, Goes
    <3>2. UrlAt(w) = u
      BY <2>1, <2>2, <2>3, <3>1
    <3> QED BY <2>11, <3>1, <3>2 DEF LosesOne
  <2>12. CASE Follows1(w)
    <3>1. Current' \in Frontier /\ Follows(Current', Current)
      BY <2>12, FollowedIs
    <3>2. u \in BlockedOf(Current)
      BY <2>1, <3>1 DEF Follows
    <3>3. urlStatus[u] \notin Final
      <4>1. u \in Url
        BY <1>3, <3>2, BlockedAre
      <4>2. Current'.status = urlStatus' /\ Current.status = urlStatus
        BY DEF Current
      <4> QED BY <2>1, <3>1, <4>1, <4>2 DEF Follows
    <3>4. skipped' = skipped /\ worker[w].pc \notin Unmarked
      BY <2>12 DEF Follows1, Goes, Unmarked, Unfetched
    <3> QED BY <2>1, <2>2, <3>2, <3>3, <3>4
  <2> QED BY <1>5, <2>5, <2>6, <2>7, <2>8, <2>9, <2>10, <2>11, <2>12 DEF Steps
<1> QED BY <1>4, <1>5

(* Only workers that have not left move. *)
LEMMA MoversLive ==
  ASSUME NEW w \in Worker, Steps(w)
  PROVE  w \in Live
BY DEF Live, Left, Steps, Quits, Takes, LosesTaken, Drops, Skips, Reserves, Disallows, Requests, Sleeps,
       Begins, Looks, Fails, GivesBack, Fetches, Stores, LosesRecord, Succeeds, Follows1, Breaks, Rests, Goes

\* The worker that loses a URL leaves, unless it is for a missed status.
LEMMA LossMoves ==
  ASSUME Typed, IsFiniteSet(Lost), NEW w \in Worker, Elsewhere(w), Steps(w)
  PROVE  /\ IsFiniteSet(Lost') /\ Cardinality(Lost) \in Nat /\ Cardinality(Lost') \in Nat
         /\ Cardinality(Lost') <= Cardinality(Lost) + One(LosesOne(w) \/ Misses)
         /\ Cardinality(Live) \in Nat /\ Cardinality(Live') \in Nat
         /\ Cardinality(Live') = Cardinality(Live) - 1 + One(w \in Live')
         /\ w \in Live /\ (LosesOne(w) => w \notin Live')
<1> DEFINE A == Lost
           B == Lost'
           loses == LosesOne(w) \/ Misses
<1>1. PICK x : \A u \in B : u \in A \/ (loses /\ u = x)
  BY LostStep
<1> HIDE DEF A, B, loses
<1>2. IsFiniteSet(A) /\ Cardinality(A) \in Nat
  BY FS_CardinalityType DEF A
<1>3. IsFiniteSet(B) /\ Cardinality(B) \in Nat /\ Cardinality(B) <= Cardinality(A) + One(loses)
  <2>1. CASE loses
    <3>1. B \subseteq A \cup {x}
      BY <1>1
    <3>2. IsFiniteSet(A \cup {x}) /\ (Cardinality(A \cup {x}) = Cardinality(A)
                                       \/ Cardinality(A \cup {x}) = Cardinality(A) + 1)
      BY <1>2, FS_AddElement
    <3>3. IsFiniteSet(B) /\ Cardinality(B) <= Cardinality(A \cup {x}) /\ Cardinality(B) \in Nat
      BY <3>1, <3>2, FS_Subset, FS_CardinalityType
    <3> QED BY <1>2, <2>1, <3>2, <3>3 DEF One
  <2>2. CASE ~ loses
    <3>1. B \subseteq A
      BY <1>1, <2>2
    <3>2. IsFiniteSet(B) /\ Cardinality(B) <= Cardinality(A) /\ Cardinality(B) \in Nat
      BY <1>2, <3>1, FS_Subset, FS_CardinalityType
    <3> QED BY <1>2, <2>2, <3>2 DEF One
  <2> QED BY <2>1, <2>2
<1> DEFINE L == Live
           L1 == Live'
<1>4. L \in SUBSET Worker /\ \A v : v # w => (v \in L <=> v \in L1)
  BY DEF Live, Elsewhere
<1>5. w \in L
  BY MoversLive
<1>6. LosesOne(w) => w \notin L1
  BY DEF LosesOne, Live, Left, Drops, LosesTaken, LosesRecord, Breaks, Goes
<1> HIDE DEF L, L1
<1>7. /\ Cardinality(L) \in Nat /\ Cardinality(L1) \in Nat
      /\ Cardinality(L1) = Cardinality(L) - One(w \in L) + One(w \in L1)
  BY <1>4, WorkersAreFinite, CountMoves
<1>8. One(w \in L) = 1
  BY <1>5 DEF One
<1> QED BY <1>2, <1>3, <1>5, <1>6, <1>7, <1>8 DEF A, B, L, L1, loses

\* A final status is missed for a failed write, or by a worker that then has no page to
\* mark; and while the orchestrator is closed nobody takes another.
LEMMA MissMoves ==
  ASSUME Typed, NEW w \in Worker, Elsewhere(w), Steps(w)
  PROVE  /\ Misses => /\ missed' = missed + 1 /\ (Error \/ ~initialized)
                      /\ w \in Markers /\ w \notin Markers'
         /\ ~initialized => (w \in Markers' => w \in Markers)
         /\ Cardinality(Markers) \in Nat /\ Cardinality(Markers') \in Nat
         /\ Cardinality(Markers') = Cardinality(Markers) - One(w \in Markers) + One(w \in Markers')
<1> DEFINE A == Markers
           B == Markers'
<1>1. A \in SUBSET Worker /\ \A v : v # w => (v \in A <=> v \in B)
  BY DEF Markers, Elsewhere
<1>2. (w \in A <=> worker[w].pc \in Unmarked) /\ (w \in B <=> worker'[w].pc \in Unmarked)
  BY DEF Markers
<1>3. ~initialized /\ w \in B => w \in A
  BY <1>2 DEF Steps, Quits, Takes, LosesTaken, Drops, Skips, Reserves, Disallows, Requests, Sleeps,
       Begins, Looks, Fails, GivesBack, Fetches, Stores, LosesRecord, Succeeds, Follows1, Breaks, Rests,
       Goes, Unmarked, Unfetched
<1>4. Misses => /\ missed' = missed + 1 /\ (Error \/ ~initialized) /\ w \in A /\ w \notin B
  <2> SUFFICES ASSUME Misses
               PROVE  /\ missed' = missed + 1 /\ (Error \/ ~initialized) /\ w \in A /\ w \notin B
    OBVIOUS
  <2>1. Disallows(w) \/ Begins(w) \/ Fails(w) \/ Succeeds(w)
    BY DEF Misses, Steps, Quits, Takes, LosesTaken, Drops, Skips, Reserves, Requests, Sleeps, Looks,
           GivesBack, Fetches, Stores, LosesRecord, Follows1, Breaks, Rests, StatusKept
  <2>2. worker[w].pc \in WithItem
    BY <2>1 DEF Disallows, Begins, Fails, Succeeds, Goes, WithItem, Unmarked, Unfetched
  <2>3. UrlAt(w) \in Url /\ {"disallowed", "in_progress", "failed", "success"} \subseteq Statuses
    BY <2>2 DEF Typed, WorkersOK, Item, UrlAt, Statuses
  <2>4. /\ missed' = missed + 1 /\ (Error \/ ~initialized) /\ ~Begins(w)
    <3>1. ASSUME NEW s \in Statuses, Mark(UrlAt(w), s)
          PROVE  missed' = missed + 1 /\ s \in Final /\ (Error \/ ~initialized)
      BY <2>3, <3>1, MarkIs DEF Misses
    <3>2. ~Begins(w)
      BY <2>3, <3>1 DEF Begins, Final
    <3> QED BY <2>1, <2>3, <3>1, <3>2 DEF Disallows, Fails, Succeeds
  <2>5. worker[w].pc \in Unmarked /\ worker'[w].pc \notin Unmarked
    BY <2>1, <2>4 DEF Disallows, Fails, Succeeds, Goes, Unmarked, Unfetched
  <2> QED BY <1>2, <2>4, <2>5
<1> HIDE DEF A, B
<1>5. /\ Cardinality(A) \in Nat /\ Cardinality(B) \in Nat
      /\ Cardinality(B) = Cardinality(A) - One(w \in A) + One(w \in B)
  BY <1>1, WorkersAreFinite, CountMoves
<1> QED BY <1>3, <1>4, <1>5 DEF A, B

\* Products of three numbers, as one of them grows.
LEMMA ProductGrows ==
  ASSUME NEW a \in Nat, NEW b \in Nat, NEW c \in Nat
  PROVE  /\ a * b * c \in Nat /\ b * c \in Nat /\ a * c \in Nat
         /\ (a + 1) * b * c = a * b * c + b * c
         /\ a * (b + 1) * c = a * b * c + a * c
<1>1. a * b \in Nat /\ b * c \in Nat /\ a * c \in Nat
  OBVIOUS
<1>2. a * b * c \in Nat
  <2> DEFINE x == a * b
  <2>1. x \in Nat
    BY <1>1
  <2> HIDE DEF x
  <2>2. x * c \in Nat
    BY <2>1
  <2> QED BY <2>2 DEF x
<1>3. \A x, y \in Nat : (x + y) * c = x * c + y * c
  OBVIOUS
<1>4. (a + 1) * b = a * b + b /\ a * (b + 1) = a * b + a
  OBVIOUS
<1>5. (a * b + b) * c = a * b * c + b * c /\ (a * b + a) * c = a * b * c + a * c
  BY <1>1, <1>3
<1> QED BY <1>1, <1>2, <1>4, <1>5

\* Workers of the runs there were.
LEMMA MarkersAreFew ==
  ASSUME Typed
  PROVE  Cardinality(Markers) \in Nat /\ Cardinality(Markers) <= run * Concurrency
<1> DEFINE P == (1..run) \X (1..Concurrency)
<1>1. run \in Nat /\ MaxRuns \in Nat /\ Concurrency \in Nat
  BY WorkersAreFinite, ConstantsAssumption DEF Typed, TypeOK
<1>2. Markers \subseteq P
  <2> SUFFICES ASSUME NEW w \in Markers PROVE w \in P
    OBVIOUS
  <2>1. w \in Worker /\ worker[w].pc # "off"
    BY DEF Markers, Unmarked, Unfetched
  <2>2. RunOf(w) \in Runs /\ ~(RunOf(w) > run)
    BY <2>1, RunOfIs DEF Typed, WorkersOK
  <2>3. w[1] \in 1..run
    BY <1>1, <2>2 DEF RunOf, Runs
  <2> QED BY <2>1, <2>3 DEF Worker
<1>3. IsFiniteSet(P) /\ Cardinality(P) = run * Concurrency
  <2> DEFINE S == 1..run
             T == 1..Concurrency
  <2>1. IsFiniteSet(S) /\ Cardinality(S) = run
    BY <1>1, FS_Interval
  <2>2. IsFiniteSet(T) /\ Cardinality(T) = Concurrency
    BY <1>1, FS_Interval
  <2> HIDE DEF S, T
  <2>3. IsFiniteSet(S \X T) /\ Cardinality(S \X T) = run * Concurrency
    BY <2>1, <2>2, FS_Product
  <2> QED BY <2>3 DEF S, T
<1> HIDE DEF P
<1>4. Cardinality(Markers) <= Cardinality(P) /\ Cardinality(Markers) \in Nat
  BY <1>2, <1>3, FS_Subset, FS_CardinalityType
<1> QED BY <1>3, <1>4

LEMMA MissedStep ==
  ASSUME Typed, MissedOK, NEW w \in Worker, Elsewhere(w), Steps(w)
  PROVE  MissedOK'
<1> DEFINE M  == Cardinality(Markers)
           M1 == Cardinality(Markers')
           B  == closes * run * Concurrency
           a  == One(w \in Markers)
           b  == One(w \in Markers')
<1>1. /\ M \in Nat /\ M1 \in Nat /\ M1 = M - a + b
      /\ Misses => /\ missed' = missed + 1 /\ (Error \/ ~initialized) /\ a = 1 /\ b = 0
      /\ ~initialized => b <= a
      /\ a \in {0, 1} /\ b \in {0, 1}
  BY MissMoves DEF One
<1>2. /\ UNCHANGED <<run, initialized, closes>>
      /\ storageErrors' = storageErrors \/ storageErrors' = storageErrors + 1
      /\ Error => storageErrors' = storageErrors + 1
      /\ storageErrors \in Nat /\ missed \in Nat
      /\ closes \in Nat /\ run \in Nat /\ Concurrency \in Nat /\ initialized \in BOOLEAN
  BY WorkersAreFinite, ConstantsAssumption DEF Elsewhere, control, Error, Typed, TypeOK, HistoryTyped
<1>3. B \in Nat /\ B' = B
  BY <1>2, ProductGrows
<1>4. missed + (IF initialized THEN 0 ELSE M) <= storageErrors + B
  BY DEF MissedOK
<1>5. ~Misses => missed' = missed
  BY DEF Misses
<1> SUFFICES missed' + (IF initialized THEN 0 ELSE M1) <= storageErrors' + B
  BY <1>2, <1>3 DEF MissedOK
<1> HIDE DEF M, M1, B, a, b
<1>6. CASE initialized
  BY <1>1, <1>2, <1>3, <1>4, <1>5, <1>6
<1>7. CASE ~initialized
  BY <1>1, <1>2, <1>3, <1>4, <1>5, <1>7
<1> QED BY <1>6, <1>7

LEMMA MissedCall ==
  ASSUME Typed, MissedOK, CallStep
  PROVE  MissedOK'
<1> DEFINE M  == Cardinality(Markers)
           M1 == Cardinality(Markers')
           B  == closes * run * Concurrency
           B1 == closes' * run' * Concurrency
<1>1. /\ storageErrors \in Nat /\ missed \in Nat /\ initialized \in BOOLEAN
      /\ closes \in Nat /\ run \in Nat /\ Concurrency \in Nat
  BY WorkersAreFinite, ConstantsAssumption DEF Typed, TypeOK, HistoryTyped
<1>2. M \in Nat /\ M <= run * Concurrency
  BY MarkersAreFew
<1>3. missed + (IF initialized THEN 0 ELSE M) <= storageErrors + B
  BY DEF MissedOK
<1>4. /\ B \in Nat /\ run * Concurrency \in Nat /\ closes * Concurrency \in Nat
      /\ (closes + 1) * run * Concurrency = B + run * Concurrency
      /\ closes * (run + 1) * Concurrency = B + closes * Concurrency
  BY <1>1, ProductGrows
<1> SUFFICES missed' + (IF initialized' THEN 0 ELSE M1) <= storageErrors' + B1
  BY DEF MissedOK
<1> DEFINE R == run * Concurrency
           C == closes * Concurrency
<1>5. missed <= storageErrors + B
  <2> HIDE DEF M, B
  <2> QED BY <1>1, <1>2, <1>3, <1>4
<1>6. CASE Crashes
  <2>1. /\ UNCHANGED <<missed, storageErrors, closes>> /\ (run' = run \/ run' = run + 1)
        /\ \A w \in Worker : worker'[w].pc = "off"
    BY <1>6, CrashesAre DEF Off
  <2>2. M1 = 0
    <3>1. Markers' = {}
      BY <2>1 DEF Markers, Unmarked, Unfetched
    <3> QED BY <3>1, FS_EmptySet
  <2>3. B1 = B \/ B1 = B + C
    BY <1>4, <2>1
  <2>4. C \in Nat
    BY <1>4
  <2> HIDE DEF M, M1, B, B1, C
  <2> QED BY <1>1, <1>4, <1>5, <2>1, <2>2, <2>3, <2>4
<1>7. CASE (Start \/ StartThrows) /\ ~Crashes
  <2>1. /\ initialized' = TRUE /\ run' = run + 1 /\ closes' = closes /\ missed' = missed
        /\ storageErrors' = storageErrors \/ storageErrors' = storageErrors + 1
    BY <1>7 DEF Start, StartThrows, faults
  <2>2. B1 = B + C /\ C \in Nat
    BY <1>4, <2>1
  <2> HIDE DEF M, M1, B, B1, C
  <2> QED BY <1>1, <1>4, <1>5, <2>1, <2>2
<1>8. CASE Close
  <2>1. /\ initialized /\ initialized' = FALSE /\ run' = run /\ closes' = closes + 1
        /\ missed' = missed /\ storageErrors' = storageErrors /\ worker' = worker
    BY <1>8 DEF Close
  <2>2. B1 = B + R /\ M1 = M /\ M <= R /\ R \in Nat
    BY <1>2, <1>4, <2>1 DEF Markers
  <2> HIDE DEF M, M1, B, B1, R
  <2> QED BY <1>1, <1>2, <1>4, <1>5, <2>1, <2>2
<1>9. CASE (Initialize \/ Stop \/ Abort \/ Tick \/ FinishRun) /\ ~Crashes
  <2>1. /\ UNCHANGED <<run, closes, missed, storageErrors, worker>>
        /\ initialized' = initialized \/ initialized' = TRUE
    BY <1>9 DEF Initialize, Stop, Abort, Tick, FinishRun, control, faults
  <2>2. B1 = B /\ M1 = M
    BY <2>1 DEF Markers
  <2> HIDE DEF M, M1, B, B1
  <2> QED BY <1>1, <1>2, <1>3, <1>4, <1>5, <2>1, <2>2
<1> QED BY <1>6, <1>7, <1>8, <1>9 DEF CallStep

\* What a run has irrevocably spent of its limit never gets less: a reservation is
\* given back only by the worker that held it.
LEMMA SpentMoves ==
  ASSUME Typed, initialized, NEW w \in Worker, Elsewhere(w), Steps(w), NEW r \in Runs, run = r,
         RunOf(w) = r, ~Error
  PROVE  /\ Spent \in Int /\ Spent' \in Int /\ Spent <= Spent'
         /\ Spent' # Spent => Disallows(w) \/ Fetches(w)
         /\ pagesFetched = fetchedBy[run] => pagesFetched' = fetchedBy'[run']
<1>1. run' = r
  BY DEF Elsewhere, control
<1> DEFINE R  == reserved[r]
           R1 == reserved'[r]
           H  == Cardinality(HoldersOf(r))
           H1 == Cardinality(HoldersOf(r)')
           Was == One(worker[w].pc \in Holding)
           Is  == One(worker'[w].pc \in Holding)
<1>2. Spent = R - H /\ Spent' = R1 - H1
  <2>1. HoldersOf(run)' = HoldersOf(r)'
    BY <1>1 DEF HoldersOf
  <2> QED BY <1>1, <2>1 DEF Spent
<1>3. H \in Nat /\ H1 \in Nat /\ H1 = H - Was + Is
  BY HoldersMove DEF One
<1>4. reserved \in [Runs -> Nat] /\ fetchedBy \in [Runs -> Nat] /\ pagesFetched \in Nat
  BY DEF Typed, TypeOK, HistoryTyped
<1>5. R \in Nat
  BY <1>4
<1>6. CASE Reserves(w)
  <2>1. R1 = R + 1 /\ UNCHANGED <<pagesFetched, fetchedBy>>
    BY <1>4, <1>6 DEF Reserves
  <2>2. Was = 0 /\ Is = 1
    BY <1>6 DEF Reserves, Goes, Holding, One
  <2> HIDE DEF R, R1, H, H1, Was, Is
  <2> QED BY <1>1, <1>2, <1>3, <1>5, <2>1, <2>2
<1>7. CASE Disallows(w) \/ Fetches(w)
  <2>1. R1 = R
    BY <1>7 DEF Disallows, Fetches, CountsKept, counts
  <2>2. Was = 1 /\ Is = 0
    BY <1>7 DEF Disallows, Fetches, Goes, Holding, One
  <2>3. pagesFetched = fetchedBy[r] => pagesFetched' = fetchedBy'[r]
    BY <1>4, <1>7 DEF Disallows, Fetches, CountsKept, counts, CountPage
  <2> HIDE DEF R, R1, H, H1, Was, Is
  <2> QED BY <1>1, <1>2, <1>3, <1>5, <1>7, <2>1, <2>2, <2>3
<1>8. CASE GivesBack(w)
  <2>1. R1 = R - 1 /\ UNCHANGED <<pagesFetched, fetchedBy>>
    BY <1>4, <1>8 DEF GivesBack
  <2>2. Was = 1 /\ Is = 0
    BY <1>8 DEF GivesBack, Goes, Holding, One
  <2> HIDE DEF R, R1, H, H1, Was, Is
  <2> QED BY <1>1, <1>2, <1>3, <1>5, <2>1, <2>2
<1>9. CASE Requests(w) \/ Sleeps(w) \/ Begins(w) \/ Looks(w) \/ Fails(w)
  <2>1. R1 = R /\ UNCHANGED <<pagesFetched, fetchedBy>>
    BY <1>9 DEF Requests, Sleeps, Begins, Looks, Fails, CountsKept, counts
  <2>2. Was = 1 /\ Is = 1
    BY <1>9 DEF Requests, Sleeps, Begins, Looks, Fails, Goes, Holding, One
  <2> HIDE DEF R, R1, H, H1, Was, Is
  <2> QED BY <1>1, <1>2, <1>3, <1>5, <2>1, <2>2
<1>10. CASE \/ Quits(w) \/ Takes(w) \/ Drops(w) \/ Skips(w) \/ Stores(w) \/ Succeeds(w)
            \/ Follows1(w) \/ Rests(w)
  <2>1. R1 = R /\ UNCHANGED <<pagesFetched, fetchedBy>>
    BY <1>10 DEF Quits, Takes, Drops, Skips, Stores, Succeeds, Follows1, Rests, CountsKept, counts
  <2>2. Was = 0 /\ Is = 0
    BY <1>10 DEF Quits, Takes, Drops, Skips, Stores, Succeeds, Follows1, Rests, Goes, Holding, One
  <2> HIDE DEF R, R1, H, H1, Was, Is
  <2> QED BY <1>1, <1>2, <1>3, <1>5, <2>1, <2>2
<1>11. ~LosesTaken(w) /\ ~LosesRecord(w) /\ ~Breaks(w)
  BY DEF LosesTaken, LosesRecord, Breaks
<1> QED BY <1>6, <1>7, <1>8, <1>9, <1>10, <1>11 DEF Steps

\* Only a worker that takes an item comes to wait with it.
LEMMA WaitingMoves ==
  ASSUME NEW w \in Worker, Elsewhere(w), Steps(w)
  PROVE  /\ Cardinality(Waiting) \in Nat /\ Cardinality(Waiting') \in Nat
         /\ Cardinality(Waiting') = Cardinality(Waiting) - One(worker[w].pc = "dequeued") + One(Takes(w))
<1> DEFINE A == Waiting
           B == Waiting'
<1>1. A \in SUBSET Worker /\ \A v : v # w => (v \in A <=> v \in B)
  BY DEF Waiting, At, Elsewhere
<1>2. (w \in A <=> worker[w].pc = "dequeued") /\ (w \in B <=> worker'[w].pc = "dequeued")
  BY DEF Waiting, At
<1>3. worker'[w].pc = "dequeued" <=> Takes(w)
  BY DEF Steps, Quits, Takes, LosesTaken, Drops, Skips, Reserves, Disallows, Requests, Sleeps,
         Begins, Looks, Fails, GivesBack, Fetches, Stores, LosesRecord, Succeeds, Follows1, Breaks, Rests, Goes
<1> HIDE DEF A, B
<1>4. /\ Cardinality(A) \in Nat /\ Cardinality(B) \in Nat
      /\ Cardinality(B) = Cardinality(A) - One(w \in A) + One(w \in B)
  BY <1>1, WorkersAreFinite, CountMoves
<1>5. One(w \in A) = One(worker[w].pc = "dequeued") /\ One(w \in B) = One(Takes(w))
  BY <1>2, <1>3 DEF One
<1> QED BY <1>4, <1>5 DEF A, B

\* A worker that meets the limit while it is the last one in the loop: the run has
\* spent its limit.
LEMMA LastToDrop ==
  ASSUME Typed, ReservationsOK, NEW w \in Worker, NEW r \in Runs, run = r, RunOf(w) = r,
         pagesFetched = fetchedBy[r], LimitReached(w), worker[w].pc = "dequeued", Live = {w}
  PROVE  Spent >= MaxPages
<1>1. HoldersOf(r) = {}
  <2>1. ASSUME NEW v \in HoldersOf(r) PROVE FALSE
    <3>1. v \in Live /\ worker[v].pc # "dequeued"
      BY DEF HoldersOf, Live, Left, Holding
    <3> QED BY <3>1
  <2> QED BY <2>1
<1>2. Cardinality(HoldersOf(r)) = 0
  BY <1>1, FS_EmptySet
<1>3. reserved[r] \in Nat /\ fetchedBy[r] \in Nat /\ MaxPages \in Nat
  BY ConstantsAssumption DEF Typed, TypeOK, HistoryTyped
<1>4. Spent = reserved[r] - 0
  BY <1>2 DEF Spent
<1>5. fetchedBy[r] <= reserved[r]
  <2>1. fetchedBy[r] + 0 <= reserved[r]
    BY <1>2 DEF ReservationsOK
  <2> QED BY <1>3, <2>1
<1>6. reserved[r] >= MaxPages \/ fetchedBy[r] >= MaxPages
  BY DEF LimitReached
<1> QED BY <1>3, <1>4, <1>5, <1>6

LEMMA LossStep ==
  ASSUME Typed, ReservationsOK, RunAlone, LossInv, NEW w \in Worker, Elsewhere(w), Steps(w)
  PROVE  LossInv'
<1> DEFINE L  == Cardinality(Lost)
           L1 == Cardinality(Lost')
           V  == Cardinality(Live)
           V1 == Cardinality(Live')
           W  == Cardinality(Waiting)
           W1 == Cardinality(Waiting')
           l == One(LosesOne(w) \/ Misses)
           i == One(w \in Live')
           a == One(worker[w].pc = "dequeued")
           b == One(Takes(w))
<1>1. /\ UNCHANGED <<run, isRunning, initialized, closes, crashes>>
      /\ storageErrors' = storageErrors \/ storageErrors' = storageErrors + 1
      /\ storageErrors \in Nat /\ missed \in Nat
      /\ missed' = missed + One(Misses)
  BY DEF Elsewhere, control, Typed, HistoryTyped, Misses, One
<1>2. /\ IsFiniteSet(Lost') /\ L \in Nat /\ L1 \in Nat /\ L1 <= L + l
      /\ V \in Nat /\ V1 \in Nat /\ V1 = V - 1 + i
      /\ w \in Live /\ (LosesOne(w) => w \notin Live')
  BY LossMoves DEF LossInv, LossBound
<1>3. /\ W \in Nat /\ W1 \in Nat /\ W1 = W - a + b
  BY WaitingMoves
<1>4. /\ l \in {0, 1} /\ i \in {0, 1} /\ a \in {0, 1} /\ b \in {0, 1}
      /\ (l = 1 => i = 0 \/ Misses)
      /\ (l = 1 <=> LosesOne(w) \/ Misses) /\ (a = 1 <=> worker[w].pc = "dequeued") /\ (b = 1 <=> Takes(w))
      /\ (i = 1 <=> w \in Live')
  BY <1>2 DEF One
<1>5. LossBound'
  <2> DEFINE B == run * Concurrency
             m == One(Misses)
  <2>1. L + V <= B + missed /\ B \in Int
    <3>1. run \in Int /\ Concurrency \in Int
      BY WorkersAreFinite, ConstantsAssumption DEF Typed, TypeOK
    <3> QED BY <3>1 DEF LossInv, LossBound
  <2>2. B' = B
    BY <1>1
  <2>3. m \in {0, 1} /\ (l = 1 => i = 0 \/ m = 1)
    BY <1>4 DEF One
  <2> HIDE DEF L, L1, V, V1, W, W1, l, i, a, b, B, m
  <2>4. L1 + V1 <= B + (missed + m)
    BY <1>1, <1>2, <1>4, <2>1, <2>3
  <2> QED BY <1>1, <1>2, <2>2, <2>4 DEF LossBound, L1, V1, B, m
<1>6. QuietLoss'
  <2> SUFFICES ASSUME Undisturbed', crashes' = 0
               PROVE  /\ isRunning'
                      /\ pagesFetched' = fetchedBy'[run']
                      /\ Live' = {} => L1 <= run' * (Concurrency - 1)
                      /\ Spent' < MaxPages => L1 + V1 <= run' * (Concurrency - 1) + 1
                      /\ Spent' >= MaxPages => L1 + W1 <= run' * (Concurrency - 1)
    BY DEF QuietLoss
  <2> DEFINE Q == run * (Concurrency - 1)
             S == Spent
             S1 == Spent'
             M == MaxPages
  <2>1. Undisturbed /\ crashes = 0 /\ ~ Error
    BY <1>1 DEF Undisturbed, Error
  <2>2. RunOf(w) = run /\ isRunning /\ initialized
    BY <1>2, <2>1 DEF RunAlone
  <2>3. PICK r \in Runs : r = run
    BY <2>2, RunOfIs
  <2>4. /\ pagesFetched = fetchedBy[run]
        /\ S < M => L + V <= Q + 1
        /\ S >= M => L + W <= Q
    BY <2>1, <2>2 DEF LossInv, QuietLoss
  <2>5. /\ S \in Int /\ S1 \in Int /\ S <= S1
        /\ S1 # S => Disallows(w) \/ Fetches(w)
        /\ pagesFetched' = fetchedBy'[run']
    BY <2>1, <2>2, <2>3, <2>4, SpentMoves
  <2>6. Q \in Int /\ M \in Nat /\ Q' = Q
    <3>1. run \in Int /\ Concurrency \in Int /\ MaxPages \in Nat
      BY WorkersAreFinite, ConstantsAssumption DEF Typed, TypeOK
    <3> QED BY <1>1, <3>1
  <2>7. (LosesOne(w) => Drops(w)) /\ ~Misses
    BY <2>1, <2>2, MissMoves DEF LosesOne, LosesTaken, LosesRecord, Breaks
  <2>8. l = 1 => a = 1 /\ b = 0
    BY <1>4, <2>7 DEF Drops, Takes, Goes
  <2>9. S1 # S => l = 0 /\ a = 0 /\ b = 0
    <3>1. Disallows(w) \/ Fetches(w) => ~ Drops(w) /\ ~ Takes(w) /\ worker[w].pc # "dequeued"
      BY DEF Disallows, Fetches, Drops, Takes, Goes
    <3> QED BY <1>4, <2>5, <2>7, <3>1
  <2>10. b = 1 => S < M
    <3> SUFFICES ASSUME Takes(w) PROVE Spent < MaxPages
      BY <1>4
    <3>1. reserved[r] < MaxPages /\ reserved[r] \in Nat /\ MaxPages \in Nat
      BY <2>2, <2>3, ConstantsAssumption DEF Takes, LimitReached, Typed, TypeOK
    <3>2. Spent = reserved[r] - Cardinality(HoldersOf(r)) /\ Cardinality(HoldersOf(r)) \in Nat
      BY <2>3, WorkersAreFinite DEF Spent, HoldersOf
    <3> QED BY <3>1, <3>2
  <2>11. S1 # S => W <= V - 1
    <3> SUFFICES ASSUME S1 # S PROVE W <= V - 1
      OBVIOUS
    <3>1. worker[w].pc # "dequeued"
      BY <1>4, <2>9
    <3> DEFINE P == Live \ {w}
    <3>2. Waiting \subseteq P
      BY <3>1 DEF Waiting, At, Live, Left
    <3>3. IsFiniteSet(Live) /\ IsFiniteSet(P)
      BY WorkersAreFinite DEF Live
    <3>4. Cardinality(P) = Cardinality(Live) - 1
      BY <1>2, <3>3, FS_RemoveElement
    <3> HIDE DEF P
    <3>5. Cardinality(Waiting) <= Cardinality(P)
      BY <3>2, <3>3, FS_Subset
    <3> QED BY <3>4, <3>5
  <2>12. Live' = {} => i = 0 /\ V = 1 /\ (l = 1 => S >= M)
    <3> SUFFICES ASSUME Live' = {} PROVE i = 0 /\ V = 1 /\ (l = 1 => S >= M)
      OBVIOUS
    <3>1. Live = {w}
      <4>1. \A v \in Live : v = w
        BY DEF Live, Elsewhere
      <4> QED BY <1>2, <4>1
    <3>2. V = 1 /\ i = 0
      BY <3>1, FS_Singleton DEF One
    <3>3. ASSUME Drops(w) PROVE Spent >= MaxPages
      <4>1. LimitReached(w) /\ worker[w].pc = "dequeued"
        BY <3>3 DEF Drops, Goes
      <4> QED BY <2>2, <2>3, <2>4, <3>1, <4>1, LastToDrop
    <3> QED BY <1>4, <2>7, <3>2, <3>3
  <2> HIDE DEF L, L1, V, V1, W, W1, l, i, a, b, Q, S, S1, M
  <2>13. Live' = {} => L1 <= Q
    <3> SUFFICES ASSUME Live' = {} PROVE L1 <= Q
      OBVIOUS
    <3>1. i = 0 /\ V = 1 /\ (l = 1 => S >= M)
      BY <2>12
    <3>2. CASE S >= M
      BY <1>2, <1>3, <1>4, <2>4, <2>6, <2>8, <3>2
    <3>3. CASE S < M
      BY <1>2, <1>4, <2>4, <2>5, <2>6, <3>1, <3>3
    <3> QED BY <2>5, <2>6, <3>2, <3>3
  <2>14. S1 < M => L1 + V1 <= Q + 1
    BY <1>2, <1>4, <2>4, <2>5, <2>6, <2>7
  <2>15. S1 >= M => L1 + W1 <= Q
    <3>1. CASE S >= M
      BY <1>2, <1>3, <1>4, <2>4, <2>5, <2>6, <2>8, <2>10, <3>1
    <3>2. CASE S < M
      BY <1>2, <1>3, <1>4, <2>4, <2>5, <2>6, <2>9, <2>11, <3>2
    <3> QED BY <2>5, <2>6, <3>1, <3>2
  <2>16. Q = run' * (Concurrency - 1)
    BY <1>1 DEF Q
  <2> QED BY <1>1, <2>2, <2>5, <2>13, <2>14, <2>15, <2>16 DEF S1, M
<1>7. MissedOK'
  BY MissedStep DEF LossInv
<1> QED BY <1>5, <1>6, <1>7 DEF LossInv

LEMMA LostCall ==
  ASSUME Typed, CallStep
  PROVE  \E x : Lost' \subseteq Lost \cup (IF Crashes THEN UnmarkedUrls ELSE {})
                                     \cup (IF StartThrows THEN {x} ELSE {})
<1>1. PICK x : BlockedOf(Current)' \subseteq BlockedOf(Current) \cup {x}
  BY FrontierCall
<1> SUFFICES ASSUME NEW u \in Lost', u \notin Lost
             PROVE  (Crashes /\ u \in UnmarkedUrls) \/ (StartThrows /\ u = x)
  OBVIOUS
<1>2. /\ u \in BlockedOf(Current)' /\ urlStatus'[u] \notin Final /\ u \notin skipped'
      /\ NobodyHas(u)'
  BY LostAre DEF LostIs
<1>3. ~ LostIs(u)
  BY LostAre
<1>4. skipped' = skipped
  <2>1. Crashes => skipped' = skipped
    BY CrashesAre
  <2> QED BY <2>1 DEF CallStep, Initialize, Start, StartThrows, Stop, Abort, Close, Tick, FinishRun
<1>5. u \in Url
  <2>1. Current' \in Frontier
    BY FrontierCall
  <2> QED BY <1>2, <2>1, BlockedAre DEF Frontier, Current
<1>6. urlStatus[u] \notin Final
  BY <1>2, <1>5, FrontierCall
<1>7. CASE u \notin BlockedOf(Current)
  <2>1. StartThrows
    BY <1>2, <1>7, FrontierCall
  <2> QED BY <1>1, <1>2, <1>7, <2>1
<1>8. CASE u \in BlockedOf(Current)
  <2>1. PICK v \in Worker : worker[v].pc \in Unmarked /\ UrlAt(v) = u
    BY <1>2, <1>3, <1>4, <1>6, <1>8 DEF LostIs, NobodyHas
  <2>2. u \in UnmarkedUrls
    BY <2>1 DEF UnmarkedUrls, Markers
  <2>3. ASSUME ~ Crashes PROVE worker'[v] = worker[v]
    <3>1. CASE Start
      <4>1. RunOf(v) # run + 1
        <5>1. ~ (RunOf(v) > run)
          BY <2>1 DEF Typed, WorkersOK, Unmarked, Unfetched
        <5> QED BY <5>1, RunOfIs DEF Typed, TypeOK
      <4> QED BY <3>1, <4>1 DEF Start
    <3>2. CASE ~ Start
      BY <2>3, <3>2, CallsMove DEF CallMoves
    <3> QED BY <3>1, <3>2
  <2>4. ASSUME ~ Crashes PROVE FALSE
    BY <1>2, <2>1, <2>3, <2>4 DEF NobodyHas, UrlAt
  <2> QED BY <2>2, <2>4
<1> QED BY <1>7, <1>8

LEMMA LostIsFinite ==
  ASSUME NEW A, NEW B, IsFiniteSet(A), B \subseteq A
  PROVE  IsFiniteSet(B) /\ Cardinality(B) \in Nat /\ Cardinality(A) \in Nat
         /\ Cardinality(B) <= Cardinality(A)
BY FS_Subset, FS_CardinalityType

\* Whom a call starts or ends.
LEMMA LiveCall ==
  ASSUME Typed, CallStep
  PROVE  /\ Crashes => Live' = {}
         /\ Start => /\ Live' = Live \cup WorkersOf(run + 1) /\ Waiting' = Waiting
                     /\ run + 1 \in Runs /\ ~Crashes
         /\ ~Crashes /\ ~Start => Live' = Live /\ Waiting' = Waiting /\ worker' = worker
<1>1. CASE Crashes
  <2>1. \A v \in Worker : worker'[v].pc = "off"
    BY <1>1, CrashesAre DEF Off
  <2>2. ~ Start
    <3>1. Start => isRunning' = TRUE
      BY DEF Start
    <3> QED BY <1>1, <3>1, CrashesAre
  <2> QED BY <1>1, <2>1, <2>2 DEF Live, Left
<1>2. CASE Start
  <2>1. run' = run + 1 /\ run + 1 \in Runs
    BY <1>2, ConstantsAssumption DEF Start, Runs, Typed, TypeOK
  <2>2. ~ Crashes
    <3>1. isRunning' = TRUE
      BY <1>2 DEF Start
    <3> QED BY <3>1, CrashesAre
  <2>3. \A v \in Worker : IF RunOf(v) = run + 1 THEN worker'[v].pc = "top" ELSE worker'[v] = worker[v]
    <3>1. [Off EXCEPT !.pc = "top"].pc = "top"
      BY DEF Off
    <3> QED BY <1>2, <3>1 DEF Start
  <2>4. \A v \in Worker : RunOf(v) = run + 1 => worker[v].pc = "off"
    <3>1. run + 1 > run
      BY DEF Typed, TypeOK
    <3> QED BY <3>1 DEF Typed, WorkersOK
  <2>5. Live' = Live \cup WorkersOf(run + 1)
    BY <2>3, <2>4 DEF Live, Left, WorkersOf
  <2>6. Waiting' = Waiting
    BY <2>3, <2>4 DEF Waiting, At
  <2> QED BY <1>2, <2>1, <2>2, <2>5, <2>6
<1>3. CASE ~ Crashes /\ ~ Start
  <2>1. worker' = worker
    BY <1>3 DEF CallStep, Initialize, StartThrows, Stop, Abort, Close, Tick, FinishRun
  <2> QED BY <1>3, <2>1 DEF Live, Waiting, At
<1> QED BY <1>1, <1>2, <1>3

LEMMA LossBoundCall ==
  ASSUME Typed, LossBound, CallStep
  PROVE  LossBound'
<1> DEFINE L  == Cardinality(Lost)
           L1 == Cardinality(Lost')
           V  == Cardinality(Live)
           V1 == Cardinality(Live')
           B  == run * Concurrency
           B1 == run' * Concurrency
<1>1. /\ run \in Nat /\ Concurrency \in Nat \ {0} /\ missed \in Nat /\ IsFiniteSet(Lost)
      /\ L \in Nat /\ V \in Nat /\ IsFiniteSet(Live) /\ L + V <= B + missed /\ B \in Nat
  <2>1. run \in Nat /\ Concurrency \in Nat \ {0} /\ IsFiniteSet(Live) /\ V \in Nat /\ missed \in Nat
    BY WorkersAreFinite, ConstantsAssumption DEF Typed, TypeOK, HistoryTyped, Live
  <2>2. IsFiniteSet(Lost) /\ L \in Nat /\ L + V <= B + missed
    BY FS_CardinalityType DEF LossBound
  <2>3. B \in Nat
    BY <2>1
  <2> QED BY <2>1, <2>2, <2>3
<1>2. (run + 1) * Concurrency = B + Concurrency
  BY <1>1
<1>3. missed' = missed
  BY OthersDoNotCrash, CrashesAre
<1>4. PICK x : Lost' \subseteq Lost \cup (IF Crashes THEN UnmarkedUrls ELSE {})
                                    \cup (IF StartThrows THEN {x} ELSE {})
  BY LostCall
<1> SUFFICES IsFiniteSet(Lost') /\ L1 + V1 <= B1 + missed
  BY <1>3 DEF LossBound
<1>5. CASE Crashes
  <2> DEFINE U == UnmarkedUrls
             S == Markers
             A == Lost \cup U
  <2>1. S \subseteq Live /\ U = {UrlAt(v) : v \in S}
    BY DEF UnmarkedUrls, Markers, Live, Left, Unmarked, Unfetched
  <2>2. IsFiniteSet(S) /\ Cardinality(S) <= V /\ Cardinality(S) \in Nat
    <3> HIDE DEF S
    <3> QED BY <1>1, <2>1, LostIsFinite
  <2>3. IsFiniteSet(U) /\ Cardinality(U) <= Cardinality(S) /\ Cardinality(U) \in Nat
    <3> DEFINE f == [v \in S |-> UrlAt(v)]
    <3>1. f \in Surjection(S, U)
      BY <2>1 DEF Surjection
    <3> HIDE DEF S, U
    <3> QED BY <2>2, <3>1, FS_Surjection, FS_CardinalityType
  <2>4. Live' = {} /\ (run' = run \/ run' = run + 1)
    BY <1>5, LiveCall, CrashesAre
  <2>5. ~ StartThrows
    <3>1. StartThrows => isRunning' = TRUE
      BY DEF StartThrows
    <3> QED BY <1>5, <3>1, CrashesAre
  <2>6. Lost' \subseteq A
    BY <1>4, <1>5, <2>5
  <2>7. IsFiniteSet(A) /\ Cardinality(A) <= L + Cardinality(U) /\ Cardinality(A) \in Nat
    <3>1. /\ IsFiniteSet(Lost \cup U) /\ IsFiniteSet(Lost \cap U)
          /\ Cardinality(Lost \cup U) = Cardinality(Lost) + Cardinality(U) - Cardinality(Lost \cap U)
      <4> HIDE DEF U, L
      <4> QED BY <1>1, <2>3, FS_Union, FS_Intersection
    <3>2. Cardinality(Lost \cap U) \in Nat /\ Cardinality(Lost \cup U) \in Nat
      BY <3>1, FS_CardinalityType
    <3> QED BY <1>1, <2>3, <3>1, <3>2
  <2> HIDE DEF U, S, A
  <2>8. IsFiniteSet(Lost') /\ L1 <= Cardinality(A) /\ L1 \in Nat
    BY <2>6, <2>7, LostIsFinite
  <2>9. V1 = 0
    BY <2>4, FS_EmptySet
  <2>10. B1 = B \/ B1 = B + Concurrency
    BY <1>2, <2>4
  <2> HIDE DEF L, L1, V, V1, B, B1
  <2>11. L1 + V1 <= B1 + missed
    BY <1>1, <2>2, <2>3, <2>7, <2>8, <2>9, <2>10
  <2> QED BY <2>8, <2>11
<1>6. CASE StartThrows /\ ~Crashes
  <2>1. Live' = Live /\ run' = run + 1
    <3>1. ~ Start
      <4>1. storageErrors' = storageErrors + 1 /\ storageErrors \in Nat
        BY <1>6 DEF StartThrows, Typed, HistoryTyped
      <4>2. Start => storageErrors' = storageErrors
        BY DEF Start, faults
      <4> QED BY <4>1, <4>2
    <3> QED BY <1>6, <3>1, LiveCall DEF StartThrows
  <2>2. Lost' \subseteq Lost \cup {x}
    BY <1>4, <1>6
  <2>3. /\ IsFiniteSet(Lost \cup {x}) /\ Cardinality(Lost \cup {x}) \in Nat
        /\ Cardinality(Lost \cup {x}) = L \/ Cardinality(Lost \cup {x}) = L + 1
    BY <1>1, FS_AddElement, FS_CardinalityType
  <2>4. IsFiniteSet(Lost') /\ L1 <= Cardinality(Lost \cup {x}) /\ L1 \in Nat
    BY <2>2, <2>3, LostIsFinite
  <2>5. V1 = V /\ B1 = B + Concurrency
    BY <1>2, <2>1
  <2> HIDE DEF L, L1, V, V1, B, B1
  <2>6. L1 + V1 <= B1 + missed
    BY <1>1, <2>3, <2>4, <2>5
  <2> QED BY <2>4, <2>6
<1>7. CASE ~Crashes /\ ~StartThrows
  <2>1. Lost' \subseteq Lost
    BY <1>4, <1>7
  <2>2. IsFiniteSet(Lost') /\ L1 <= L /\ L1 \in Nat
    BY <1>1, <2>1, LostIsFinite
  <2>3. CASE Start
    <3> DEFINE R == WorkersOf(run + 1)
    <3>1. Live' = Live \cup R /\ Cardinality(R) = Concurrency /\ IsFiniteSet(R)
      <4>1. run + 1 \in Runs
        BY <2>3, LiveCall
      <4>2. R \in SUBSET Worker
        BY DEF WorkersOf
      <4> QED BY <2>3, <4>1, <4>2, LiveCall, RunOfIs, WorkersAreFinite
    <3> HIDE DEF R
    <3>2. V1 <= V + Concurrency /\ V1 \in Nat
      <4>1. /\ IsFiniteSet(Live \cup R) /\ IsFiniteSet(Live \cap R)
            /\ Cardinality(Live \cup R) = Cardinality(Live) + Cardinality(R) - Cardinality(Live \cap R)
        BY <1>1, <3>1, FS_Union, FS_Intersection
      <4>2. Cardinality(Live \cap R) \in Nat /\ Cardinality(Live \cup R) \in Nat
        BY <4>1, FS_CardinalityType
      <4> QED BY <1>1, <3>1, <4>1, <4>2
    <3>3. B1 = B + Concurrency
      <4>1. run' = run + 1
        BY <2>3 DEF Start
      <4> QED BY <1>2, <4>1
    <3> HIDE DEF L, L1, V, V1, B, B1
    <3>4. L1 + V1 <= B1 + missed
      BY <1>1, <2>2, <3>2, <3>3
    <3> QED BY <2>2, <3>4
  <2>4. CASE ~ Start
    <3>1. V1 = V
      BY <1>7, <2>4, LiveCall
    <3>2. B1 = B
      <4>1. run' = run
        BY <1>7, <2>4 DEF CallStep, Initialize, Stop, Abort, Close, Tick, FinishRun, control
      <4> QED BY <4>1
    <3> HIDE DEF L, L1, V, V1, B, B1
    <3>3. L1 + V1 <= B1 + missed
      BY <1>1, <2>2, <3>1, <3>2
    <3> QED BY <2>2, <3>3
  <2> QED BY <2>3, <2>4
<1> QED BY <1>5, <1>6, <1>7

LEMMA QuietCall ==
  ASSUME Typed, RunsOK, RunAlone, LossInv, CallStep
  PROVE  QuietLoss'
<1> SUFFICES ASSUME Undisturbed', crashes' = 0 PROVE QuietLoss'
  BY DEF QuietLoss
<1> DEFINE L  == Cardinality(Lost)
           L1 == Cardinality(Lost')
           Q  == run * (Concurrency - 1)
<1>1. ~ Crashes /\ ~ StartThrows /\ ~ Close /\ Undisturbed /\ crashes = 0
  <2>1. crashes \in Nat /\ storageErrors \in Nat /\ closes \in Nat
    BY DEF Typed, HistoryTyped
  <2>2. ~ Crashes
    <3>1. Crashes => crashes' = crashes + 1
      BY CrashesAre
    <3> QED BY <2>1, <3>1
  <2>3. ~ StartThrows /\ ~ Close
    BY <2>1 DEF Undisturbed, StartThrows, Close
  <2>4. crashes' = crashes /\ storageErrors' = storageErrors /\ closes' = closes
    BY <2>2, <2>3 DEF CallStep, Initialize, Start, Stop, Abort, Tick, FinishRun, faults
  <2> QED BY <2>2, <2>3, <2>4 DEF Undisturbed
<1>2. /\ run \in Nat /\ Concurrency \in Nat \ {0} /\ MaxPages \in Nat /\ IsFiniteSet(Lost)
      /\ L \in Nat /\ Q \in Nat
  <2>1. run \in Nat /\ Concurrency \in Nat \ {0} /\ MaxPages \in Nat
    BY WorkersAreFinite, ConstantsAssumption DEF Typed, TypeOK
  <2>2. IsFiniteSet(Lost) /\ L \in Nat
    BY FS_CardinalityType DEF LossInv, LossBound
  <2>3. Concurrency - 1 \in Nat
    BY <2>1
  <2>4. Q \in Nat
    BY <2>1, <2>3
  <2> QED BY <2>1, <2>2, <2>4
<1>3. L1 <= L /\ L1 \in Nat
  <2>1. Lost' \subseteq Lost
    BY <1>1, LostCall
  <2> QED BY <1>2, <2>1, LostIsFinite
<1>4. CASE Start
  <2>1. ~ isRunning /\ isRunning' /\ run' = run + 1 /\ pagesFetched' = 0 /\ fetchedBy' = fetchedBy
        /\ reserved' = reserved
    BY <1>4 DEF Start
  <2>2. L <= Q
    BY <1>1, <2>1 DEF LossInv, QuietLoss
  <2>3. PICK r \in Runs : r = run + 1
    BY <1>4, LiveCall
  <2>4. fetchedBy[r] = 0 /\ reserved[r] = 0
    <3>1. r > run
      BY <1>2, <2>3
    <3> QED BY <3>1 DEF RunsOK
  <2>5. Live = {}
    BY <1>1, <2>1 DEF RunAlone, Live
  <2>6. Live' = WorkersOf(r) /\ Waiting' = {}
    <3>1. Waiting = {}
      BY <2>5 DEF Waiting, At, Live, Left
    <3> QED BY <1>4, <2>3, <2>5, <3>1, LiveCall
  <2>7. Cardinality(Live') = Concurrency /\ Cardinality(Waiting') = 0
    BY <2>6, RunOfIs, FS_EmptySet
  <2>8. Live' # {}
    BY <1>2, <2>7, FS_EmptySet
  <2>9. run' * (Concurrency - 1) = Q + (Concurrency - 1)
    <3>1. (run + 1) * (Concurrency - 1) = run * (Concurrency - 1) + (Concurrency - 1)
      BY <1>2
    <3> QED BY <2>1, <3>1
  <2>10. pagesFetched' = fetchedBy'[run']
    BY <2>1, <2>3, <2>4
  <2> HIDE DEF L, L1, Q
  <2>11. L1 + Concurrency <= Q + (Concurrency - 1) + 1 /\ L1 + 0 <= Q + (Concurrency - 1)
    BY <1>2, <1>3, <2>2
  <2>12. /\ Spent' < MaxPages => L1 + Cardinality(Live') <= run' * (Concurrency - 1) + 1
         /\ Spent' >= MaxPages => L1 + Cardinality(Waiting') <= run' * (Concurrency - 1)
    BY <2>7, <2>9, <2>11
  <2> QED BY <2>1, <2>8, <2>10, <2>12 DEF QuietLoss, L1
<1>5. CASE FinishRun
  <2>1. isRunning /\ ~ isRunning' /\ run' = run
    BY <1>5 DEF FinishRun
  <2>2. \A v \in WorkersOf(run) : At(v, "done")
    <3>1. \A v \in WorkersOf(run) : ~ At(v, "threw")
      BY <1>1 DEF RunAlone, WorkersOf, At
    <3> QED BY <1>5, <3>1 DEF FinishRun
  <2>3. Live = {}
    <3>1. \A v \in Live : RunOf(v) = run
      BY <1>1 DEF RunAlone, Live
    <3> QED BY <2>2, <3>1 DEF WorkersOf, At, Live, Left
  <2>4. L <= Q
    BY <1>1, <2>1, <2>3 DEF LossInv, QuietLoss
  <2> HIDE DEF L, L1
  <2>5. L1 <= Q
    <3> HIDE DEF Q
    <3> QED BY <1>2, <1>3, <2>4
  <2> QED BY <2>1, <2>5 DEF QuietLoss, L1
<1>6. CASE Initialize \/ Stop \/ Abort \/ Tick
  <2>1. /\ run' = run /\ isRunning' = isRunning /\ pagesFetched' = pagesFetched
        /\ fetchedBy' = fetchedBy /\ reserved' = reserved /\ worker' = worker
        /\ UNCHANGED <<queue, seen, queueFile, seenFile, urlStatus, unsees, skipped>>
    BY <1>6 DEF Initialize, Stop, Abort, Tick, counts, control, frontier, storage
  <2>2. Lost' = Lost /\ Live' = Live /\ Waiting' = Waiting /\ Spent' = Spent
    <3>1. Lost' = Lost
      <4>1. BlockedOf(Current)' = BlockedOf(Current)
        BY <2>1, BlockedAre
      <4> QED BY <2>1, <4>1 DEF Lost, UnmarkedUrls, Markers, UrlAt
    <3>2. Live' = Live /\ Waiting' = Waiting
      BY <2>1 DEF Live, Waiting, At
    <3>3. Spent' = Spent
      BY <2>1 DEF Spent, HoldersOf
    <3> QED BY <3>1, <3>2, <3>3
  <2>3. QuietLoss
    BY DEF LossInv
  <2> QED BY <1>1, <2>1, <2>2, <2>3 DEF QuietLoss
<1> QED BY <1>1, <1>4, <1>5, <1>6 DEF CallStep

LEMMA LossInvStep == IInv /\ LossInv /\ [Next]_vars => LossInv'
<1> SUFFICES ASSUME IInv, LossInv, [Next]_vars PROVE LossInv'
  OBVIOUS
<1>1. Typed /\ RunsOK /\ ReservationsOK /\ RunAlone
  BY DEF IInv, Typed
<1>2. ASSUME NEW w \in Worker, Elsewhere(w), Steps(w) PROVE LossInv'
  BY <1>1, <1>2, LossStep
<1>3. CASE CallStep
  <2>1. LossBound'
    BY <1>1, <1>3, LossBoundCall DEF LossInv
  <2>2. QuietLoss'
    BY <1>1, <1>3, QuietCall
  <2>3. MissedOK'
    BY <1>1, <1>3, MissedCall DEF LossInv
  <2> QED BY <2>1, <2>2, <2>3 DEF LossInv
<1>4. CASE UNCHANGED vars
  <2> USE DEF vars, frontier, storage, control, counts, clock, faults
  <2>1. Lost' = Lost
    <3>1. BlockedOf(Current)' = BlockedOf(Current)
      BY <1>4, BlockedAre
    <3> QED BY <1>4, <3>1 DEF Lost, UnmarkedUrls, Markers, UrlAt
  <2>2. Live' = Live /\ Waiting' = Waiting
    BY <1>4 DEF Live, Waiting, At
  <2>3. Spent' = Spent
    BY <1>4 DEF Spent, HoldersOf
  <2>4. UNCHANGED <<run, isRunning, pagesFetched, fetchedBy, closes, storageErrors, crashes,
                    missed, initialized>>
    BY <1>4
  <2>5. LossBound'
    BY <2>1, <2>2, <2>4 DEF LossInv, LossBound
  <2>7. MissedOK'
    <3>1. Markers' = Markers
      BY <1>4 DEF Markers
    <3> QED BY <2>4, <3>1 DEF LossInv, MissedOK
  <2>6. QuietLoss'
    <3>1. (Undisturbed' <=> Undisturbed) /\ QuietLoss
      BY <2>4 DEF Undisturbed, LossInv
    <3> QED BY <2>1, <2>2, <2>3, <2>4, <3>1 DEF QuietLoss
  <2> QED BY <2>5, <2>6, <2>7 DEF LossInv
<1> QED BY <1>1, <1>2, <1>3, <1>4, NextIs

LEMMA InitLoss == Init => LossInv
<1> SUFFICES ASSUME Init PROVE LossInv
  OBVIOUS
<1>1. /\ seen = {} /\ seenFile = {} /\ run = 0 /\ isRunning = FALSE /\ missed = 0
      /\ storageErrors = 0 /\ closes = 0 /\ \A w \in Worker : worker[w].pc = "off"
  BY DEF Init, Off
<1>2. Lost = {} /\ Live = {} /\ Markers = {}
  <2>1. BlockedOf(Current) = {}
    BY <1>1, BlockedAre
  <2> QED BY <1>1, <2>1 DEF Lost, Live, Left, Markers, Unmarked, Unfetched
<1>3. /\ IsFiniteSet(Lost) /\ Cardinality(Lost) = 0 /\ Cardinality(Live) = 0
      /\ Cardinality(Markers) = 0
  BY <1>2, FS_EmptySet
<1>4. 0 * Concurrency = 0 /\ 0 * (Concurrency - 1) = 0 /\ 0 * 0 * Concurrency = 0
  BY WorkersAreFinite
<1>5. LossBound
  BY <1>1, <1>3, <1>4 DEF LossBound
<1>6. MissedOK
  BY <1>1, <1>3, <1>4 DEF MissedOK
<1>7. QuietLoss
  BY <1>1, <1>3, <1>4 DEF QuietLoss
<1> QED BY <1>5, <1>6, <1>7 DEF LossInv

\* What the invariants say of the URLs dropped.
LEMMA LossSuffices == IInv /\ LossInv => DropsBounded
<1> SUFFICES ASSUME IInv, LossInv PROVE DropsBounded
  OBVIOUS
<1> DEFINE D == Cardinality(Dropped)
           L == Cardinality(Lost)
           V == Cardinality(Live)
           Q == run * (Concurrency - 1)
           B == run * Concurrency
<1>1. Dropped \subseteq Lost
  <2>1. ASSUME NEW w \in Worker, worker[w].pc \in Unmarked PROVE worker[w].item # NoItem
    BY <2>1, ConstantsAssumption DEF IInv, WorkersOK, WithItem, Item, NoItem
  <2>2. UnmarkedUrls \subseteq InHand
    BY <2>1 DEF UnmarkedUrls, Markers, InHand
  <2>3. {u \in seen : urlStatus[u] \notin Final} \ Pending \subseteq BlockedOf(Current)
    BY BlockedAre DEF Pending, PendingIn
  <2> QED BY <2>2, <2>3 DEF Dropped, Lost
<1>2. D <= L /\ D \in Nat /\ L \in Nat
  BY <1>1, LostIsFinite DEF LossInv, LossBound
<1>3. /\ run \in Nat /\ Concurrency \in Nat /\ MaxPages \in Nat /\ Q \in Int /\ B \in Int
      /\ missed \in Nat /\ storageErrors \in Nat /\ closes \in Nat
  <2>1. run \in Nat /\ Concurrency \in Nat /\ MaxPages \in Nat
    BY WorkersAreFinite, ConstantsAssumption DEF IInv, TypeOK
  <2>2. missed \in Nat /\ storageErrors \in Nat /\ closes \in Nat
    BY DEF IInv, HistoryTyped
  <2> QED BY <2>1, <2>2
<1>4. V \in Nat /\ Cardinality(Waiting) \in Nat
  BY WorkersAreFinite DEF Live, Waiting
<1>5. D <= B + missed
  <2>1. L + V <= B + missed
    BY DEF LossInv, LossBound
  <2> HIDE DEF D, L, V, B
  <2> QED BY <1>2, <1>3, <1>4, <2>1
<1>6. ASSUME Undisturbed /\ crashes = 0 PROVE D <= Q
  <2>1. L <= Q
    <3>1. CASE ~ isRunning
      BY <1>6, <3>1 DEF LossInv, QuietLoss
    <3>2. CASE isRunning /\ Live = {}
      BY <1>6, <3>2 DEF LossInv, QuietLoss
    <3>3. CASE isRunning /\ Live # {}
      <4>1. /\ Spent < MaxPages => L + V <= Q + 1
            /\ Spent >= MaxPages => L + Cardinality(Waiting) <= Q
        BY <1>6, <3>3 DEF LossInv, QuietLoss
      <4>2. V >= 1
        <5>1. IsFiniteSet(Live)
          BY WorkersAreFinite DEF Live
        <5>2. V # 0
          BY <3>3, <5>1, FS_EmptySet
        <5> QED BY <1>4, <5>2
      <4>3. Spent \in Int
        <5>1. PICK r \in Runs : r = run
          <6>1. run # 0
            BY <3>3 DEF IInv, RunsOK
          <6> QED BY <6>1, ConstantsAssumption DEF IInv, TypeOK, Runs
        <5>2. reserved[r] \in Nat /\ Cardinality(HoldersOf(r)) \in Nat
          BY WorkersAreFinite DEF IInv, TypeOK, HoldersOf
        <5> QED BY <5>1, <5>2 DEF Spent
      <4> HIDE DEF L, V, Q
      <4> QED BY <1>2, <1>3, <1>4, <4>1, <4>2, <4>3
    <3> QED BY <3>1, <3>2, <3>3
  <2> HIDE DEF D, L, Q
  <2> QED BY <1>2, <1>3, <2>1
<1>7. missed <= storageErrors + closes * run * Concurrency
  <2> DEFINE C == closes * run * Concurrency
             M == IF initialized THEN 0 ELSE Cardinality(Markers)
  <2>1. M \in Nat
    BY WorkersAreFinite DEF Markers
  <2>2. C \in Nat
    BY <1>3, ProductGrows
  <2>3. missed + M <= storageErrors + C
    BY DEF LossInv, MissedOK
  <2> HIDE DEF C, M
  <2>4. missed <= storageErrors + C
    BY <1>3, <2>1, <2>2, <2>3
  <2> QED BY <2>4 DEF C
<1> QED BY <1>5, <1>6, <1>7 DEF DropsBounded

(* What a run leaves behind blocked is bounded by its workers and by the    *)
(* final statuses it could not write: each worker drops at most one URL,    *)
(* whatever fails and whichever runs overlap; a status is missed for a      *)
(* failed write, or by a worker there was at a close; and while nothing     *)
(* fails, is closed or crashes, one worker of each run drops none, as the   *)
(* last one to hold an item finds the limit not yet reached.                *)
THEOREM DropsAreBounded == Spec => []DropsBounded
<1>1. Init => IInv /\ LossInv
  BY InitInvariant, InitLoss
<1>2. (IInv /\ LossInv) /\ [Next]_vars => (IInv /\ LossInv)'
  BY InvariantStep, LossInvStep
<1>3. IInv /\ LossInv => DropsBounded
  BY LossSuffices
<1> QED BY <1>1, <1>2, <1>3, PTL DEF Spec

(***************************************************************************)
(* A run that nobody stops goes on to the end.                             *)
(***************************************************************************)

\* Without an error a worker leaves only by quitting or by dropping what it took.
LEMMA WhoLeaves ==
  ASSUME Typed, initialized, NEW w \in Worker, Elsewhere(w), Steps(w), ~Error, w \notin Live'
  PROVE  /\ Stopping(w) \/ LimitReached(w) \/ queue = <<>>
         /\ UNCHANGED <<queue, reserved>>
<1>1. worker'[w].pc \in Left
  BY DEF Live
<1>2. Quits(w) \/ Drops(w)
  BY <1>1 DEF Left, Steps, Quits, Takes, LosesTaken, Drops, Skips, Reserves, Disallows, Requests, Sleeps,
              Begins, Looks, Fails, GivesBack, Fetches, Stores, LosesRecord, Succeeds, Follows1, Breaks, Rests,
              Goes, Throws
<1> QED BY <1>2 DEF Quits, Drops, FrontierKept, CountsKept, counts

LEMMA GoesOnStep ==
  ASSUME Typed, RunsOK, ReservationsOK, RunAlone, GoesOn, NEW w \in Worker, Elsewhere(w), Steps(w)
  PROVE  GoesOn'
<1> SUFFICES ASSUME Undisturbed', isRunning'
             PROVE  /\ pagesFetched' = fetchedBy'[run']
                    /\ ~shouldStop' /\ ~aborted'[run'] =>
                         queue' = <<>> \/ reserved'[run'] >= MaxPages \/ Live' # {}
  BY DEF GoesOn
<1>1. /\ UNCHANGED <<run, isRunning, initialized, shouldStop, aborted, closes>>
      /\ storageErrors' = storageErrors \/ storageErrors' = storageErrors + 1
      /\ storageErrors \in Nat
  BY DEF Elsewhere, control, Typed, HistoryTyped
<1>2. Undisturbed /\ ~Error
  BY <1>1 DEF Undisturbed, Error
<1>3. RunOf(w) = run /\ isRunning /\ initialized
  BY <1>2, MoversLive DEF RunAlone
<1>4. PICK r \in Runs : r = run
  BY <1>3, RunOfIs
<1>5. pagesFetched' = fetchedBy'[run']
  <2>1. pagesFetched = fetchedBy[run]
    BY <1>2, <1>3 DEF GoesOn
  <2>2. pagesFetched' = fetchedBy'[run']
    <3>1. RunOf(w) = r
      BY <1>3, <1>4
    <3> QED BY <1>2, <1>3, <1>4, <2>1, <3>1, SpentMoves
  <2> QED BY <2>2
<1>6. ASSUME ~shouldStop', ~aborted'[run'], w \notin Live'
      PROVE  queue' = <<>> \/ reserved'[run'] >= MaxPages
  <2>1. /\ Stopping(w) \/ LimitReached(w) \/ queue = <<>>
        /\ UNCHANGED <<queue, reserved>>
    BY <1>2, <1>3, <1>6, WhoLeaves
  <2>2. ~Stopping(w)
    BY <1>1, <1>3, <1>6 DEF Stopping
  <2>3. CASE LimitReached(w)
    <3>1. fetchedBy[r] <= reserved[r]
      <4>1. Cardinality(HoldersOf(r)) \in Nat
        BY WorkersAreFinite DEF HoldersOf
      <4>2. fetchedBy[r] + Cardinality(HoldersOf(r)) <= reserved[r]
        BY DEF ReservationsOK
      <4>3. fetchedBy[r] \in Nat /\ reserved[r] \in Nat
        BY DEF Typed, TypeOK, HistoryTyped
      <4> QED BY <4>1, <4>2, <4>3
    <3>2. reserved[r] >= MaxPages \/ fetchedBy[r] >= MaxPages
      BY <1>2, <1>3, <1>4, <2>3 DEF LimitReached, GoesOn
    <3>3. fetchedBy[r] \in Nat /\ reserved[r] \in Nat /\ MaxPages \in Nat
      BY ConstantsAssumption DEF Typed, TypeOK, HistoryTyped
    <3>4. reserved[r] >= MaxPages
      BY <3>1, <3>2, <3>3
    <3> QED BY <1>1, <1>4, <2>1, <3>4
  <2> QED BY <2>1, <2>2, <2>3
<1> QED BY <1>5, <1>6

LEMMA GoesOnCall ==
  ASSUME Typed, RunsOK, GoesOn, CallStep
  PROVE  GoesOn'
<1>1. run \in Nat /\ storageErrors \in Nat /\ closes \in Nat
  BY ConstantsAssumption DEF Typed, TypeOK, HistoryTyped
<1>2. CASE Start
  <2>1. run + 1 \in Runs /\ Live' = Live \cup WorkersOf(run + 1)
    BY <1>2, LiveCall
  <2>2. WorkersOf(run + 1) # {}
    <3>1. 1 \in 1..Concurrency
      BY ConstantsAssumption
    <3>2. <<run + 1, 1>> \in WorkersOf(run + 1)
      BY <2>1, <3>1 DEF WorkersOf, Worker, RunOf
    <3> QED BY <3>2
  <2>3. pagesFetched' = 0 /\ run' = run + 1 /\ UNCHANGED fetchedBy
    BY <1>2 DEF Start
  <2>4. fetchedBy[run + 1] = 0
    BY <1>1, <2>1 DEF RunsOK
  <2> QED BY <2>1, <2>2, <2>3, <2>4 DEF GoesOn
<1>3. CASE Crashes \/ FinishRun
  <2>1. isRunning' = FALSE
    BY <1>3, CrashesAre DEF FinishRun
  <2> QED BY <2>1 DEF GoesOn
<1>4. CASE StartThrows \/ Close
  <2>1. storageErrors' = storageErrors + 1 \/ closes' = closes + 1
    BY <1>4 DEF StartThrows, Close
  <2>2. ~Undisturbed'
    BY <1>1, <2>1 DEF Undisturbed
  <2> QED BY <2>2 DEF GoesOn
<1>5. CASE Initialize \/ Stop \/ Abort \/ Tick
  <2>1. /\ UNCHANGED <<queue, isRunning, run, pagesFetched, fetchedBy, reserved, closes, storageErrors>>
        /\ shouldStop' = shouldStop \/ shouldStop'
        /\ aborted' = aborted \/ aborted' = [aborted EXCEPT ![run] = TRUE]
    BY <1>5 DEF Initialize, Stop, Abort, Tick, frontier, counts, control, faults
  <2>2. Live' = Live
    <3>1. worker' = worker
      BY <1>5 DEF Initialize, Stop, Abort, Tick
    <3> QED BY <3>1 DEF Live
  <2>3. (Undisturbed' <=> Undisturbed) /\ (isRunning' => isRunning /\ run \in Runs)
    BY <1>1, <2>1, ConstantsAssumption DEF Undisturbed, RunsOK, Runs, Typed, TypeOK
  <2>4. run \in Runs /\ ~aborted'[run] => ~aborted[run]
    BY <2>1 DEF Typed, TypeOK
  <2> QED BY <2>1, <2>2, <2>3, <2>4 DEF GoesOn
<1> QED BY <1>2, <1>3, <1>4, <1>5 DEF CallStep

LEMMA GoesOnInvStep == IInv /\ GoesOn /\ [Next]_vars => GoesOn'
<1> SUFFICES ASSUME IInv, GoesOn, [Next]_vars PROVE GoesOn'
  OBVIOUS
<1>1. Typed /\ RunsOK /\ ReservationsOK /\ RunAlone
  BY DEF IInv, Typed
<1>2. ASSUME NEW w \in Worker, Elsewhere(w), Steps(w) PROVE GoesOn'
  BY <1>1, <1>2, GoesOnStep
<1>3. CASE CallStep
  BY <1>1, <1>3, GoesOnCall
<1>4. CASE UNCHANGED vars
  BY <1>4 DEF vars, frontier, control, counts, faults, GoesOn, Undisturbed, Live
<1> QED BY <1>1, <1>2, <1>3, <1>4, NextIs

\* A run is completed, or ends at its limit, only by FinishRun, when all its workers
\* have left and none threw.
LEMMA WhoCompletes ==
  ASSUME Typed, RunsOK, [Next]_vars, NEW r \in Runs, summary[r] = "running",
         summary'[r] \in {"completed", "limit_reached"}
  PROVE  /\ r = run /\ isRunning /\ ~aborted[run]
         /\ \A w \in WorkersOf(run) : worker[w].pc = "done"
<1>1. summary' # summary
  <2>1. ~(summary[r] \in {"completed", "limit_reached"})
    OBVIOUS
  <2> QED BY <2>1
<1>2. CallStep
  <2>1. ASSUME NEW w \in Worker, Elsewhere(w) PROVE summary' = summary
    BY <2>1 DEF Elsewhere, control
  <2>2. UNCHANGED vars => summary' = summary
    BY DEF vars, control
  <2> QED BY <1>1, <2>1, <2>2, NextIs
<1>3. FinishRun
  <2>1. ~Initialize /\ ~Stop /\ ~Abort /\ ~Close /\ ~Tick
    BY <1>1 DEF Initialize, Stop, Abort, Close, Tick, control
  <2>2. ~Start /\ ~StartThrows
    <3>1. \A x \in {"running", "rejected"} :
             summary' = [summary EXCEPT ![run + 1] = x] => summary'[r] = summary[r] \/ summary'[r] = x
      BY DEF Typed, TypeOK
    <3> QED BY <3>1 DEF Start, StartThrows
  <2>3. ~Crashes
    <3>1. Crashes => summary'[r] = "crashed"
      BY CrashesAre
    <3> QED BY <3>1
  <2> QED BY <1>2, <2>1, <2>2, <2>3 DEF CallStep
<1> DEFINE threw == \E w \in WorkersOf(run) : At(w, "threw")
           value == CASE ~initialized -> "rejected"
                      [] initialized /\ threw -> "failed"
                      [] initialized /\ ~threw /\ aborted[run] -> "stopped"
                      [] initialized /\ ~threw /\ ~aborted[run] /\ limitHit[run] -> "limit_reached"
                      [] OTHER -> "completed"
<1>4. /\ isRunning /\ summary' = [summary EXCEPT ![run] = value]
      /\ threw \/ \A w \in WorkersOf(run) : At(w, "done")
  BY <1>3 DEF FinishRun
<1>5. value \in {"completed", "limit_reached"} => ~threw /\ ~aborted[run]
  <2> HIDE DEF threw
  <2> QED BY DEF Typed, TypeOK
<1> HIDE DEF value
<1>6. r = run /\ summary'[r] = value
  BY <1>1, <1>4 DEF Typed, TypeOK
<1> QED BY <1>4, <1>5, <1>6 DEF At

(* "Runs the crawl loop until limits are reached or queue is empty": though *)
(* workers leave as soon as they find the queue empty or the limit reached, *)
(* while others still bring links or give a reservation back, a run nobody  *)
(* stopped and nothing disturbed is not over before there is nothing left.  *)
THEOREM RunsGoOnToTheEnd == Spec => RunsToTheEnd
<1> DEFINE Ends == \A r \in Runs :
              summary[r] = "running" /\ summary'[r] \in {"completed", "limit_reached"}
                /\ ~shouldStop /\ Undisturbed
                => queue = <<>> \/ reserved[r] >= MaxPages
<1>1. Init => IInv /\ GoesOn
  <2>1. Init => GoesOn
    BY DEF Init, GoesOn
  <2> QED BY <2>1, InitInvariant
<1>2. (IInv /\ GoesOn) /\ [Next]_vars => (IInv /\ GoesOn)'
  BY InvariantStep, GoesOnInvStep
<1>3. IInv /\ GoesOn /\ [Next]_vars => [Ends]_vars
  <2> SUFFICES ASSUME IInv, GoesOn, [Next]_vars, NEW r \in Runs, summary[r] = "running",
                      summary'[r] \in {"completed", "limit_reached"}, ~shouldStop, Undisturbed
               PROVE  queue = <<>> \/ reserved[r] >= MaxPages
    OBVIOUS
  <2>1. /\ r = run /\ isRunning /\ ~aborted[run]
        /\ \A w \in WorkersOf(run) : worker[w].pc = "done"
    <3>1. Typed /\ RunsOK
      BY DEF IInv, Typed
    <3> QED BY <3>1, WhoCompletes
  <2>2. Live = {}
    <3>1. ASSUME NEW w \in Live PROVE FALSE
      <4>1. w \in WorkersOf(run)
        BY <3>1 DEF Live, IInv, RunAlone, WorkersOf
      <4> QED BY <2>1, <3>1, <4>1 DEF Live, Left
    <3> QED BY <3>1
  <2> QED BY <2>1, <2>2 DEF GoesOn
<1> HIDE DEF Ends
<1>4. Spec => [][Ends]_vars
  BY <1>1, <1>2, <1>3, PTL DEF Spec
<1> QED BY <1>4 DEF Ends, RunsToTheEnd
===============================================================================
