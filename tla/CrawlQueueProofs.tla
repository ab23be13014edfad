--------------------------- MODULE CrawlQueueProofs ---------------------------
(***************************************************************************)
(* The frontier forgets no URL, for any set of URLs, any capacity and any  *)
(* number of crashes, and failures cost and repeat little.                 *)
(*                                                                         *)
(* NothingForgotten is not inductive: why the two files agree with memory  *)
(* depends on which handler is running and which of its writes comes next. *)
(* WriteOrder says that, and CallOK which handlers reach which write.      *)
(*                                                                         *)
(* Nor is FailuresAreBounded: a URL that a failed write lost may come back *)
(* with a crash, and one that is in memory only is lost by the next write. *)
(* CostInv counts every URL that some failure may still cost.              *)
(***************************************************************************)
EXTENDS CrawlQueue, ListLemmas

CallOK ==
  /\ call.step # "idle" => initialized \/ (ColdClose /\ call.op = "close")
  /\ call.step = "writeSeen" => call.op \in {"enqueue", "close", "unsee"}
  /\ call.op = "dequeue" => call.url \in Url
  /\ call.step = "idle" => call.op = "none"

WriteOrder ==
  initialized /\ writeErrors = 0 =>
    /\ call.step # "writeQueue" => diskQueue = queue
    /\ call.step = "idle" => diskSeen = seen
    /\ call.step = "writeQueue" =>
         IF call.op \in WritesBoth THEN diskSeen \subseteq seen ELSE diskSeen = seen

IInv ==
  /\ TypeOK /\ CallOK /\ WriteOrder /\ CapacityRespected
  /\ ~ColdClose => NothingForgotten

-------------------------------------------------------------------------------

LEMMA InitInvariant == Init => IInv
<1> SUFFICES ASSUME Init PROVE IInv
  OBVIOUS
<1> USE ConstantsAssumption DEF Init, Idle
<1>1. TypeOK
  <2>1. queue \in Seq(Url) /\ diskQueue \in Seq(Url)
    OBVIOUS
  <2>2. call \in Call /\ initialized \in BOOLEAN
    BY DEF Call, Ops
  <2>3. seen \in SUBSET Url /\ diskSeen \in SUBSET Url /\ cleared \in SUBSET Url
    OBVIOUS
  <2>4. delivered \in [Url -> Nat] /\ unsees \in [Url -> Nat]
    OBVIOUS
  <2>5. crashes \in Nat /\ writeErrors \in Nat
    OBVIOUS
  <2> HIDE DEF Init
  <2> QED BY <2>1, <2>2, <2>3, <2>4, <2>5 DEF TypeOK
<1>2. CallOK /\ WriteOrder
  BY DEF CallOK, WriteOrder
<1>3. NothingForgotten /\ CapacityRespected
  BY DEF NothingForgotten, CapacityRespected
<1> QED BY <1>1, <1>2, <1>3 DEF IInv

(* The types: every action keeps them. *)
LEMMA TypeStep == TypeOK /\ CallOK /\ [Next]_vars => TypeOK'
<1> SUFFICES ASSUME TypeOK, CallOK, [Next]_vars PROVE TypeOK'
  OBVIOUS
<1> USE ConstantsAssumption DEF TypeOK, Call, Ops, Begin, Callable, Idle, history, disk
<1>1. CASE Initialize
  BY <1>1 DEF Initialize
<1>2. ASSUME NEW raw \in RawUrl, Enqueue(raw) PROVE TypeOK'
  <2>1. Canonical[raw] \in Url
    BY <1>2 DEF Enqueue, Admissible
  <2> QED BY <1>2, <2>1, AppendElements DEF Enqueue
<1>3. CASE Dequeue
  BY <1>3, HeadAndTail DEF Dequeue
<1>4. CASE Clear
  <2>1. ToSet(queue) \subseteq Url
    BY DEF ToSet
  <2> QED BY <1>4, <2>1 DEF Clear
<1>5. ASSUME NEW u \in Url, Unsee(u) PROVE TypeOK'
  BY <1>5 DEF Unsee
<1>6. CASE Close
  BY <1>6 DEF Close
<1>7. CASE PersistQueueThenSeen
  BY <1>7 DEF PersistQueueThenSeen
<1>8. CASE PersistQueueAndReturn
  BY <1>8 DEF PersistQueueAndReturn, CallOK
<1>9. CASE PersistSeenAndReturn
  BY <1>9 DEF PersistSeenAndReturn
<1>10. CASE WriteFails
  BY <1>10 DEF WriteFails
<1>11. CASE Crash
  <2>1. queue' \in Seq(Url) /\ seen' \in SUBSET Url
    BY <1>11 DEF Crash
  <2>2. call' \in Call
    BY <1>11 DEF Crash
  <2>3. initialized' \in BOOLEAN
    BY <1>11 DEF Crash
  <2>4. crashes' \in Nat
    BY <1>11 DEF Crash
  <2> QED BY <1>11, <2>1, <2>2, <2>3, <2>4 DEF Crash
<1>12. CASE UNCHANGED vars
  BY <1>12 DEF vars
<1> QED BY <1>1, <1>2, <1>3, <1>4, <1>5, <1>6, <1>7, <1>8, <1>9, <1>10, <1>11, <1>12 DEF Next

(* Which handlers reach which write. *)
LEMMA CallStep == TypeOK /\ CallOK /\ [Next]_vars => CallOK'
<1> SUFFICES ASSUME TypeOK, CallOK, [Next]_vars PROVE CallOK'
  OBVIOUS
<1> USE ConstantsAssumption
    DEF TypeOK, CallOK, Call, Ops, Begin, Callable, Idle, history, disk, WritesBoth
<1>1. CASE Initialize
  BY <1>1 DEF Initialize
<1>2. ASSUME NEW raw \in RawUrl, Enqueue(raw) PROVE CallOK'
  BY <1>2 DEF Enqueue
<1>3. CASE Dequeue
  BY <1>3, HeadAndTail DEF Dequeue
<1>4. CASE Clear
  BY <1>4 DEF Clear
<1>5. ASSUME NEW u \in Url, Unsee(u) PROVE CallOK'
  BY <1>5 DEF Unsee
<1>6. CASE Close
  BY <1>6 DEF Close
<1>7. CASE PersistQueueThenSeen
  BY <1>7 DEF PersistQueueThenSeen
<1>8. CASE PersistQueueAndReturn
  BY <1>8 DEF PersistQueueAndReturn
<1>9. CASE PersistSeenAndReturn
  BY <1>9 DEF PersistSeenAndReturn
<1>10. CASE WriteFails
  BY <1>10 DEF WriteFails
<1>11. CASE Crash
  BY <1>11 DEF Crash
<1>12. CASE UNCHANGED vars
  BY <1>12 DEF vars
<1> QED BY <1>1, <1>2, <1>3, <1>4, <1>5, <1>6, <1>7, <1>8, <1>9, <1>10, <1>11, <1>12 DEF Next

(* The agreement of files and memory, write by write. *)
LEMMA WriteOrderStep == TypeOK /\ CallOK /\ WriteOrder /\ [Next]_vars => WriteOrder'
<1> SUFFICES ASSUME TypeOK, CallOK, WriteOrder, [Next]_vars PROVE WriteOrder'
  OBVIOUS
<1> USE DEF TypeOK, CallOK, WriteOrder, Call, Ops, Begin, Callable, Idle, history, disk, WritesBoth
<1>1. CASE Initialize
  BY <1>1 DEF Initialize
<1>2. ASSUME NEW raw \in RawUrl, Enqueue(raw) PROVE WriteOrder'
  BY <1>2 DEF Enqueue
<1>3. CASE Dequeue
  BY <1>3 DEF Dequeue
<1>4. CASE Clear
  BY <1>4 DEF Clear
<1>5. ASSUME NEW u \in Url, Unsee(u) PROVE WriteOrder'
  BY <1>5 DEF Unsee
<1>6. CASE Close
  BY <1>6 DEF Close
<1>7. CASE PersistQueueThenSeen
  BY <1>7 DEF PersistQueueThenSeen
<1>8. CASE PersistQueueAndReturn
  BY <1>8 DEF PersistQueueAndReturn
<1>9. CASE PersistSeenAndReturn
  BY <1>9 DEF PersistSeenAndReturn
<1>10. CASE WriteFails
  BY <1>10 DEF WriteFails
<1>11. CASE Crash
  BY <1>11 DEF Crash
<1>12. CASE UNCHANGED vars
  BY <1>12 DEF vars
<1> QED BY <1>1, <1>2, <1>3, <1>4, <1>5, <1>6, <1>7, <1>8, <1>9, <1>10, <1>11, <1>12 DEF Next

(* No step makes the frontier forget a URL: a URL leaves the pending list into *)
(* the hand of a dequeue or into cleared, the hand only by being delivered, and *)
(* seen.json gains a URL only after queue.json holds it.                        *)
LEMMA NothingForgottenStep ==
  TypeOK /\ CallOK /\ WriteOrder /\ NothingForgotten /\ ~ColdClose /\ [Next]_vars
    => NothingForgotten'
<1> SUFFICES ASSUME ~ColdClose, TypeOK, CallOK, WriteOrder, NothingForgotten, [Next]_vars, writeErrors' = 0
             PROVE  /\ initialized' => seen' \subseteq ToSet(queue)' \cup InHand' \cup Delivered' \cup cleared'
                    /\ diskSeen' \subseteq ToSet(diskQueue)' \cup Delivered' \cup cleared'
  BY DEF NothingForgotten
<1>0. writeErrors = 0
  BY DEF Next, vars, TypeOK, history, Initialize, Enqueue, Dequeue, Clear, Unsee, Close,
         PersistQueueThenSeen, PersistQueueAndReturn, PersistSeenAndReturn, WriteFails, Crash
<1>a. /\ initialized => seen \subseteq ToSet(queue) \cup InHand \cup Delivered \cup cleared
      /\ diskSeen \subseteq ToSet(diskQueue) \cup Delivered \cup cleared
  BY <1>0 DEF NothingForgotten
<1>b. UNCHANGED delivered => UNCHANGED Delivered
  BY DEF Delivered
<1> USE DEF TypeOK, CallOK, Call, Ops, Begin, Callable, Idle, history, disk, WritesBoth, InHand
<1>1. CASE Initialize
  BY <1>1, <1>a, <1>b DEF Initialize
<1>2. ASSUME NEW raw \in RawUrl, Enqueue(raw)
      PROVE  /\ initialized' => seen' \subseteq ToSet(queue)' \cup InHand' \cup Delivered' \cup cleared'
             /\ diskSeen' \subseteq ToSet(diskQueue)' \cup Delivered' \cup cleared'
  <2>1. Canonical[raw] \in Url
    BY <1>2, ConstantsAssumption DEF Enqueue, Admissible
  <2>2. ToSet(queue) \cup {Canonical[raw]} \subseteq ToSet(queue)'
    BY <1>2, <2>1, AppendElements DEF Enqueue
  <2> QED BY <1>2, <2>2, <1>a, <1>b DEF Enqueue
<1>3. CASE Dequeue
  <2>1. ToSet(queue) \subseteq {Head(queue)} \cup ToSet(queue)'
    BY <1>3, HeadAndTail DEF Dequeue
  <2>2. InHand = {} /\ InHand' = {Head(queue)}
    BY <1>3 DEF Dequeue
  <2> QED BY <1>3, <2>1, <2>2, <1>a, <1>b DEF Dequeue
<1>4. CASE Clear
  BY <1>4, <1>a, <1>b DEF Clear
<1>5. ASSUME NEW u \in Url, Unsee(u)
      PROVE  /\ initialized' => seen' \subseteq ToSet(queue)' \cup InHand' \cup Delivered' \cup cleared'
             /\ diskSeen' \subseteq ToSet(diskQueue)' \cup Delivered' \cup cleared'
  BY <1>5, <1>a, <1>b DEF Unsee
<1>6. CASE Close
  BY <1>6, <1>a, <1>b DEF Close
<1>7. CASE PersistQueueThenSeen
  BY <1>7, <1>0, <1>a, <1>b DEF PersistQueueThenSeen, WriteOrder
<1>8. CASE PersistQueueAndReturn
  <2>1. Delivered \cup InHand \subseteq Delivered'
    BY <1>8 DEF PersistQueueAndReturn, Delivered
  <2>2. diskSeen = seen /\ diskQueue' = queue /\ InHand' = {}
    BY <1>8, <1>0 DEF PersistQueueAndReturn, WriteOrder
  <2> QED BY <1>8, <2>1, <2>2, <1>a DEF PersistQueueAndReturn
<1>9. CASE PersistSeenAndReturn
  <2>1. InHand = {} /\ InHand' = {} /\ initialized /\ diskQueue = queue
    BY <1>9, <1>0 DEF PersistSeenAndReturn, WriteOrder
  <2> QED BY <1>9, <2>1, <1>a, <1>b DEF PersistSeenAndReturn
<1>10. CASE WriteFails
  BY <1>10, <1>0 DEF WriteFails
<1>11. CASE Crash
  BY <1>11, <1>a, <1>b DEF Crash
<1>12. CASE UNCHANGED vars
  BY <1>12, <1>a, <1>b DEF vars
<1> QED BY <1>1, <1>2, <1>3, <1>4, <1>5, <1>6, <1>7, <1>8, <1>9, <1>10, <1>11, <1>12 DEF Next

(* The capacity: only enqueue lengthens the list, and only below the limit. *)
LEMMA CapacityStep == TypeOK /\ CapacityRespected /\ [Next]_vars => CapacityRespected'
<1> SUFFICES ASSUME TypeOK, CapacityRespected, [Next]_vars PROVE CapacityRespected'
  OBVIOUS
<1> USE ConstantsAssumption DEF TypeOK, CapacityRespected, history, disk
<1>1. ASSUME NEW raw \in RawUrl, Enqueue(raw) PROVE CapacityRespected'
  <2>1. Canonical[raw] \in Url
    BY <1>1 DEF Enqueue, Admissible
  <2>2. Len(queue') = Len(queue) + 1 /\ Len(queue) < MaxQueueSize
    BY <1>1, <2>1, AppendElements DEF Enqueue, Admissible
  <2> QED BY <1>1, <2>2 DEF Enqueue
<1>2. CASE Dequeue
  BY <1>2, HeadAndTail DEF Dequeue
<1>3. ASSUME NEW u \in Url, Unsee(u) PROVE CapacityRespected'
  BY <1>3 DEF Unsee
<1>4. CASE Clear \/ Crash
  BY <1>4 DEF Clear, Crash
<1>5. CASE Initialize \/ PersistQueueThenSeen \/ PersistQueueAndReturn
  BY <1>5 DEF Initialize, PersistQueueThenSeen, PersistQueueAndReturn
<1>6. CASE Close \/ PersistSeenAndReturn \/ WriteFails \/ UNCHANGED vars
  BY <1>6 DEF Close, PersistSeenAndReturn, WriteFails, vars
<1> QED BY <1>1, <1>2, <1>3, <1>4, <1>5, <1>6 DEF Next

-------------------------------------------------------------------------------

(* The inductive invariant holds in every reachable state of the queue. *)
THEOREM Invariance == Spec => []IInv
<1>1. IInv /\ [Next]_vars => IInv'
  BY TypeStep, CallStep, WriteOrderStep, NothingForgottenStep, CapacityStep DEF IInv
<1> QED BY InitInvariant, <1>1, PTL DEF Spec

(* The queue's variables keep their types. *)
THEOREM TypeCorrect == Spec => []TypeOK
<1>1. IInv => TypeOK
  BY DEF IInv
<1> QED BY Invariance, <1>1, PTL

(* Crashes between and inside the handlers of persistent-queue.ts never make *)
(* the frontier forget a URL that its seen-set blocks.                       *)
THEOREM FrontierForgetsNothing ==
  ASSUME ~ColdClose
  PROVE  Spec => []NothingForgotten
<1>1. IInv => NothingForgotten
  BY DEF IInv
<1> QED BY Invariance, <1>1, PTL

(* While no handler runs, queue.json and seen.json hold what memory holds. *)
THEOREM FilesCurrentBetweenCalls == Spec => []DurableBetweenCalls
<1>1. IInv => DurableBetweenCalls
  BY DEF IInv, WriteOrder, DurableBetweenCalls, Callable
<1> QED BY Invariance, <1>1, PTL

(* enqueue keeps the pending list, in memory and on disk, within maxQueueSize. *)
THEOREM QueueWithinCapacity == Spec => []CapacityRespected
<1>1. IInv => CapacityRespected
  BY DEF IInv
<1> QED BY Invariance, <1>1, PTL

(***************************************************************************)
(* What failures cost.                                                     *)
(***************************************************************************)

\* What the process knows, or the next process will read.
MemQueue == IF initialized THEN queue ELSE diskQueue
MemSeen == IF initialized THEN seen ELSE diskSeen

\* The URL an enqueue in progress has put in memory.
Entering == IF call.op = "enqueue" /\ call.step # "idle" THEN {call.url} ELSE {}

\* A handler runs in an initialized queue (when callers close no other); an enqueue has
\* its URL in memory, and writes the list before the seen-set.
WritesInOrder ==
  /\ call.step # "idle" => initialized
  /\ call.op = "enqueue" => call.url \in ToSet(queue) \cap seen
  /\ call.step = "writeSeen" /\ call.op \in WritesBoth => diskQueue = queue

\* The URLs that are blocked, in memory or on disk, and not held by both lists; and of
\* those, the ones that are blocked and lost on disk.
Lost ==
  ((MemSeen \cup diskSeen)
     \ ((ToSet(MemQueue) \cap ToSet(diskQueue)) \cup Delivered \cup cleared \cup Entering \cup InHand))
  \cup ForgottenOnDisk
LossCounted == IsFiniteSet(Lost) /\ Cardinality(Lost) <= writeErrors

\* The URLs that are pending or were handed out, and not blocked in memory or on disk.
Unblocked ==
  {u \in (ToSet(MemQueue) \cup ToSet(diskQueue) \cup InHand \cup Delivered) \ Entering :
     unsees[u] = 0 /\ ~ (u \in MemSeen /\ u \in diskSeen)}
UnblockedCounted == IsFiniteSet(Unblocked) /\ Cardinality(Unblocked) <= crashes + writeErrors

\* Without a crash, memory blocks whatever was not unseen.
BlockedUntilCrash ==
  crashes = 0 =>
    \A u \in ToSet(MemQueue) \cup InHand \cup Delivered : unsees[u] = 0 => u \in MemSeen

\* How often a URL was handed out, is being handed out or waits.
DeliveriesCounted ==
  \A u \in Url :
    /\ delivered[u] + One(u \in InHand) + Occurrences(MemQueue, u)
         <= unsees[u] + crashes + One(u \in MemSeen)
    /\ delivered[u] + Occurrences(diskQueue, u) <= 1 + unsees[u] + crashes

CostInv == WritesInOrder /\ LossCounted /\ UnblockedCounted /\ BlockedUntilCrash /\ DeliveriesCounted

(* How many times a URL is in a list. *)
LEMMA OccurrencesType ==
  ASSUME NEW S, NEW s \in Seq(S), NEW u
  PROVE  /\ IsFiniteSet({i \in DOMAIN s : s[i] = u}) /\ Occurrences(s, u) \in Nat
         /\ u \notin ToSet(s) => Occurrences(s, u) = 0
         /\ Occurrences(<<>>, u) = 0
<1>1. Len(s) \in Nat /\ DOMAIN s = 1..Len(s)
  OBVIOUS
<1>2. IsFiniteSet({i \in DOMAIN s : s[i] = u})
  <2> DEFINE at == {i \in DOMAIN s : s[i] = u}
  <2>1. at \in SUBSET (1..Len(s)) /\ IsFiniteSet(1..Len(s))
    BY <1>1, FS_Interval
  <2> HIDE DEF at
  <2>2. IsFiniteSet(at)
    BY <2>1, FS_Subset
  <2> QED BY <2>2 DEF at
<1>3. Occurrences(s, u) \in Nat
  BY <1>2, FS_CardinalityType DEF Occurrences
<1>4. ASSUME u \notin ToSet(s) PROVE Occurrences(s, u) = 0
  <2>1. {i \in DOMAIN s : s[i] = u} = {}
    BY <1>4 DEF ToSet
  <2> QED BY <2>1, FS_EmptySet DEF Occurrences
<1>5. Occurrences(<<>>, u) = 0
  <2>1. {i \in DOMAIN <<>> : <<>>[i] = u} = {}
    OBVIOUS
  <2> QED BY <2>1, FS_EmptySet DEF Occurrences
<1> QED BY <1>2, <1>3, <1>4, <1>5

LEMMA OccurrencesAppended ==
  ASSUME NEW S, NEW s \in Seq(S), NEW e \in S, NEW u
  PROVE  Occurrences(Append(s, e), u) = Occurrences(s, u) + One(e = u)
<1> DEFINE a == Append(s, e)
           at == {i \in DOMAIN s : s[i] = u}
<1>1. /\ Len(s) \in Nat /\ DOMAIN s = 1..Len(s) /\ DOMAIN a = 1..(Len(s) + 1)
      /\ a[Len(s) + 1] = e /\ \A i \in DOMAIN s : a[i] = s[i]
  OBVIOUS
<1>2. IsFiniteSet(at) /\ Cardinality(at) \in Nat
  BY OccurrencesType, FS_CardinalityType
<1> HIDE DEF a
<1>3. Len(s) + 1 \notin at
  BY <1>1
<1>4. CASE e = u
  <2>1. {i \in DOMAIN a : a[i] = u} = at \cup {Len(s) + 1}
    BY <1>1, <1>4
  <2>2. Cardinality(at \cup {Len(s) + 1}) = Cardinality(at) + 1
    <3> HIDE DEF at
    <3> QED BY <1>2, <1>3, FS_AddElement
  <2> QED BY <1>4, <2>1, <2>2 DEF Occurrences, One, a
<1>5. CASE e # u
  <2>1. {i \in DOMAIN a : a[i] = u} = at
    BY <1>1, <1>5
  <2>2. Occurrences(a, u) = Cardinality(at) /\ Occurrences(s, u) = Cardinality(at)
    BY <2>1 DEF Occurrences
  <2> HIDE DEF at
  <2> QED BY <1>2, <1>5, <2>2 DEF One, a
<1> QED BY <1>4, <1>5

LEMMA OccurrencesOfTail ==
  ASSUME NEW S, NEW s \in Seq(S), s # <<>>, NEW u
  PROVE  Occurrences(s, u) = Occurrences(Tail(s), u) + One(Head(s) = u)
<1> DEFINE t == Tail(s)
           at == {i \in DOMAIN s : s[i] = u}
           rest == {i \in DOMAIN t : t[i] = u}
           f == [i \in rest |-> i + 1]
<1>1. /\ Len(s) \in Nat \ {0} /\ DOMAIN s = 1..Len(s) /\ Head(s) = s[1]
      /\ t \in Seq(S) /\ DOMAIN t = 1..(Len(s) - 1) /\ \A i \in DOMAIN t : t[i] = s[i + 1]
  OBVIOUS
<1>2. /\ IsFiniteSet(at) /\ Cardinality(at) \in Nat
      /\ IsFiniteSet(rest) /\ Cardinality(rest) \in Nat
  <2>1. IsFiniteSet(at)
    BY OccurrencesType
  <2>2. IsFiniteSet(rest)
    <3> HIDE DEF t
    <3>1. t \in Seq(S)
      BY <1>1
    <3>2. IsFiniteSet({i \in DOMAIN t : t[i] = u})
      BY ONLY <3>1, OccurrencesType
    <3> QED BY <3>2
  <2> QED BY <2>1, <2>2, FS_CardinalityType
<1>3. Cardinality(at \ {1}) = Cardinality(rest)
  <2>1. \A i \in rest : f[i] \in at \ {1}
    BY <1>1
  <2>2. \A i, j \in rest : f[i] = f[j] => i = j
    BY <1>1
  <2>3. \A k \in at \ {1} : \E i \in rest : f[i] = k
    <3> TAKE k \in at \ {1}
    <3>1. k - 1 \in DOMAIN t /\ t[k - 1] = s[k] /\ (k - 1) + 1 = k
      BY <1>1
    <3>2. k - 1 \in rest
      BY <3>1
    <3> QED BY <3>1, <3>2
  <2>4. f \in [rest -> at \ {1}]
    BY <2>1
  <2> HIDE DEF f, rest, at
  <2>5. f \in Bijection(rest, at \ {1})
    BY <2>2, <2>3, <2>4 DEF Bijection, Injection, Surjection, IsInjective
  <2>6. ExistsBijection(rest, at \ {1})
    BY <2>5 DEF ExistsBijection
  <2> QED BY <1>2, <2>6, FS_Bijection
<1>4. Cardinality(at \ {1}) = IF 1 \in at THEN Cardinality(at) - 1 ELSE Cardinality(at)
  BY <1>2, FS_RemoveElement
<1>5. 1 \in at <=> Head(s) = u
  BY <1>1
<1> HIDE DEF at, rest, t
<1>6. Occurrences(s, u) = Cardinality(at) /\ Occurrences(t, u) = Cardinality(rest)
  BY DEF Occurrences, at, rest
<1> QED BY <1>2, <1>3, <1>4, <1>5, <1>6 DEF One, t

(* A set that gains one element at most. *)
LEMMA CountedSubset ==
  ASSUME NEW S, NEW T, IsFiniteSet(S)
  PROVE  /\ T \subseteq S => IsFiniteSet(T) /\ Cardinality(T) <= Cardinality(S)
         /\ \A x : T \subseteq S \cup {x} => IsFiniteSet(T) /\ Cardinality(T) <= Cardinality(S) + 1
<1>1. ASSUME T \subseteq S PROVE IsFiniteSet(T) /\ Cardinality(T) <= Cardinality(S)
  BY <1>1, FS_Subset
<1>2. ASSUME NEW x, T \subseteq S \cup {x}
      PROVE  IsFiniteSet(T) /\ Cardinality(T) <= Cardinality(S) + 1
  <2>1. IsFiniteSet(S \cup {x}) /\ Cardinality(S \cup {x}) <= Cardinality(S) + 1
        /\ Cardinality(S \cup {x}) \in Nat /\ Cardinality(S) \in Nat
    BY FS_AddElement, FS_CardinalityType
  <2>2. IsFiniteSet(T) /\ Cardinality(T) <= Cardinality(S \cup {x}) /\ Cardinality(T) \in Nat
    BY <1>2, <2>1, FS_Subset, FS_CardinalityType
  <2> QED BY <2>1, <2>2
<1> QED BY <1>1, <1>2

LEMMA InitCost == Init => CostInv
<1> SUFFICES ASSUME Init PROVE CostInv
  OBVIOUS
<1> USE DEF Init, Idle
<1>1. ToSet(<<>>) = {}
  BY DEF ToSet
<1>2. /\ MemQueue = <<>> /\ MemSeen = {} /\ InHand = {} /\ Entering = {} /\ Delivered = {}
      /\ ForgottenOnDisk = {}
  BY DEF MemQueue, MemSeen, InHand, Entering, Delivered, ForgottenOnDisk
<1>3. Lost = {} /\ Unblocked = {}
  BY <1>1, <1>2 DEF Lost, Unblocked
<1>4. \A u : Occurrences(<<>>, u) = 0
  <2>1. <<>> \in Seq({})
    OBVIOUS
  <2> QED BY <2>1, OccurrencesType
<1>5. DeliveriesCounted
  BY <1>2, <1>4 DEF DeliveriesCounted, One
<1> QED BY <1>1, <1>2, <1>3, <1>5, FS_EmptySet
        DEF CostInv, WritesInOrder, LossCounted, UnblockedCounted, BlockedUntilCrash

LEMMA WritesInOrderStep ==
  ~ColdClose /\ TypeOK /\ CallOK /\ WritesInOrder /\ [Next]_vars => WritesInOrder'
<1> SUFFICES ASSUME ~ColdClose, TypeOK, CallOK, WritesInOrder, [Next]_vars PROVE WritesInOrder'
  OBVIOUS
<1> USE DEF TypeOK, CallOK, WritesInOrder, Call, Ops, Begin, Callable, Idle, history, disk, WritesBoth
<1>1. CASE Initialize \/ Clear \/ Close \/ Crash \/ UNCHANGED vars
  BY <1>1, SMTT(30) DEF Initialize, Clear, Close, Crash, vars
<1>2. ASSUME NEW raw \in RawUrl, Enqueue(raw) PROVE WritesInOrder'
  <2>1. Canonical[raw] \in Url
    BY <1>2, ConstantsAssumption DEF Enqueue, Admissible
  <2>2. Canonical[raw] \in ToSet(queue)'
    BY <1>2, <2>1, AppendElements DEF Enqueue
  <2> QED BY <1>2, <2>2 DEF Enqueue
<1>3. CASE Dequeue
  BY <1>3 DEF Dequeue
<1>4. ASSUME NEW u \in Url, Unsee(u) PROVE WritesInOrder'
  BY <1>4 DEF Unsee
<1>5. CASE PersistQueueThenSeen
  BY <1>5 DEF PersistQueueThenSeen
<1>6. CASE PersistQueueAndReturn
  BY <1>6 DEF PersistQueueAndReturn
<1>7. CASE PersistSeenAndReturn
  BY <1>7 DEF PersistSeenAndReturn
<1>8. CASE WriteFails
  BY <1>8 DEF WriteFails
<1> QED BY <1>1, <1>2, <1>3, <1>4, <1>5, <1>6, <1>7, <1>8 DEF Next

(* Every failing write costs one URL at most, and so does every crash for the *)
(* deduplication: a step blocks nothing that both lists lack, except for the  *)
(* URL in the hands of a handler that fails.                                  *)
LEMMA LossStep ==
  ~ColdClose /\ TypeOK /\ CallOK /\ WritesInOrder /\ LossCounted /\ UnblockedCounted
    /\ BlockedUntilCrash /\ [Next]_vars
    => LossCounted' /\ UnblockedCounted' /\ BlockedUntilCrash'
<1> SUFFICES ASSUME ~ColdClose, TypeOK, CallOK, WritesInOrder, LossCounted, UnblockedCounted,
                    BlockedUntilCrash, [Next]_vars
             PROVE  LossCounted' /\ UnblockedCounted' /\ BlockedUntilCrash'
  OBVIOUS
<1>a. /\ crashes \in Nat /\ writeErrors \in Nat
      /\ IsFiniteSet(Lost) /\ Cardinality(Lost) \in Nat /\ Cardinality(Lost) <= writeErrors
      /\ IsFiniteSet(Unblocked) /\ Cardinality(Unblocked) \in Nat
      /\ Cardinality(Unblocked) <= crashes + writeErrors
  BY FS_CardinalityType DEF TypeOK, LossCounted, UnblockedCounted
<1>b. ASSUME Lost' \subseteq Lost, Unblocked' \subseteq Unblocked,
             crashes' = crashes, writeErrors' = writeErrors
      PROVE  LossCounted' /\ UnblockedCounted'
  <2>1. /\ IsFiniteSet(Lost') /\ Cardinality(Lost') <= Cardinality(Lost)
        /\ IsFiniteSet(Unblocked') /\ Cardinality(Unblocked') <= Cardinality(Unblocked)
    BY <1>a, <1>b, CountedSubset
  <2>2. Cardinality(Lost') \in Nat /\ Cardinality(Unblocked') \in Nat
    BY <2>1, FS_CardinalityType
  <2> QED BY <1>a, <1>b, <2>1, <2>2 DEF LossCounted, UnblockedCounted
<1>d. UNCHANGED delivered => UNCHANGED Delivered
  BY DEF Delivered
\* The steps that change neither what is known nor what is in the hands of a handler.
<1>u. ASSUME UNCHANGED <<MemQueue, MemSeen, disk, Entering, InHand, delivered, cleared, unsees,
                         crashes, writeErrors>>
      PROVE  LossCounted' /\ UnblockedCounted' /\ BlockedUntilCrash'
  <2>1. UNCHANGED <<Lost, Unblocked>>
    BY <1>d, <1>u DEF Lost, Unblocked, ForgottenOnDisk, disk
  <2>2. BlockedUntilCrash'
    BY <1>d, <1>u DEF BlockedUntilCrash
  <2> QED BY <1>b, <1>u, <2>1, <2>2
<1> USE DEF CallOK, WritesInOrder, Begin, Callable, Idle, history, disk, WritesBoth
<1>1. CASE Initialize
  <2>1. UNCHANGED <<MemQueue, MemSeen, Entering, InHand>>
    BY <1>1 DEF Initialize, MemQueue, MemSeen, Entering, InHand
  <2> QED BY <1>1, <1>u, <2>1 DEF Initialize
<1>2. ASSUME NEW raw \in RawUrl, Enqueue(raw)
      PROVE  LossCounted' /\ UnblockedCounted' /\ BlockedUntilCrash'
  <2> DEFINE u == Canonical[raw]
  <2>1. u \in Url
    BY <1>2, ConstantsAssumption DEF Enqueue, Admissible
  <2>2. /\ initialized /\ initialized' /\ seen' = seen \cup {u}
        /\ InHand = {} /\ InHand' = {} /\ Entering = {} /\ Entering' = {u}
        /\ UNCHANGED <<disk, delivered, cleared, unsees, crashes, writeErrors>>
    BY <1>2 DEF Enqueue, InHand, Entering
  <2>3. ToSet(queue') = ToSet(queue) \cup {u}
    BY <1>2, <2>1, AppendElements DEF Enqueue, TypeOK
  <2> HIDE DEF u
  <2>4. Lost' \subseteq Lost
    BY <1>d, <2>2, <2>3 DEF Lost, MemQueue, MemSeen, ForgottenOnDisk
  <2>5. Unblocked' \subseteq Unblocked
    BY <1>d, <2>2, <2>3 DEF Unblocked, MemQueue, MemSeen
  <2>6. BlockedUntilCrash'
    BY <1>d, <2>2, <2>3 DEF BlockedUntilCrash, MemQueue, MemSeen
  <2> QED BY <1>b, <2>2, <2>4, <2>5, <2>6
<1>3. CASE Dequeue
  <2>1. /\ initialized /\ initialized' /\ seen' = seen
        /\ InHand = {} /\ InHand' = {Head(queue)} /\ Entering = {} /\ Entering' = {}
        /\ UNCHANGED <<disk, delivered, cleared, unsees, crashes, writeErrors>>
    BY <1>3 DEF Dequeue, InHand, Entering
  <2>2. ToSet(queue) = {Head(queue)} \cup ToSet(queue')
    BY <1>3, HeadAndTail DEF Dequeue, TypeOK
  <2>3. Lost' \subseteq Lost
    BY <1>d, <2>1, <2>2 DEF Lost, MemQueue, MemSeen, ForgottenOnDisk
  <2>4. Unblocked' \subseteq Unblocked
    BY <1>d, <2>1, <2>2 DEF Unblocked, MemQueue, MemSeen
  <2>5. BlockedUntilCrash'
    BY <1>d, <2>1, <2>2 DEF BlockedUntilCrash, MemQueue, MemSeen
  <2> QED BY <1>b, <2>1, <2>3, <2>4, <2>5
<1>4. CASE Clear
  <2>1. /\ initialized /\ initialized' /\ seen' = seen /\ ToSet(queue') = {}
        /\ InHand = {} /\ InHand' = {} /\ Entering = {} /\ Entering' = {}
        /\ cleared' = cleared \cup ToSet(queue)
        /\ UNCHANGED <<disk, delivered, unsees, crashes, writeErrors>>
    BY <1>4 DEF Clear, InHand, Entering, ToSet
  <2>2. Lost' \subseteq Lost
    BY <1>d, <2>1 DEF Lost, MemQueue, MemSeen, ForgottenOnDisk
  <2>3. Unblocked' \subseteq Unblocked
    BY <1>d, <2>1 DEF Unblocked, MemQueue, MemSeen
  <2>4. BlockedUntilCrash'
    BY <1>d, <2>1 DEF BlockedUntilCrash, MemQueue, MemSeen
  <2> QED BY <1>b, <2>1, <2>2, <2>3, <2>4
<1>5. ASSUME NEW u \in Url, Unsee(u)
      PROVE  LossCounted' /\ UnblockedCounted' /\ BlockedUntilCrash'
  <2>1. /\ initialized /\ initialized' /\ seen' = seen \ {u} /\ queue' = queue
        /\ InHand = {} /\ InHand' = {} /\ Entering = {} /\ Entering' = {}
        /\ unsees'[u] # 0 /\ \A v : v # u => unsees'[v] = unsees[v]
        /\ UNCHANGED <<disk, delivered, cleared, crashes, writeErrors>>
    BY <1>5 DEF Unsee, InHand, Entering, TypeOK
  <2>2. Lost' \subseteq Lost
    BY <1>d, <2>1 DEF Lost, MemQueue, MemSeen, ForgottenOnDisk
  <2>3. Unblocked' \subseteq Unblocked
    BY <1>d, <2>1 DEF Unblocked, MemQueue, MemSeen
  <2>4. BlockedUntilCrash'
    BY <1>d, <2>1 DEF BlockedUntilCrash, MemQueue, MemSeen
  <2> QED BY <1>b, <2>1, <2>2, <2>3, <2>4
<1>6. CASE Close
  <2>1. UNCHANGED <<MemQueue, MemSeen, Entering, InHand>>
    BY <1>6 DEF Close, MemQueue, MemSeen, Entering, InHand
  <2> QED BY <1>6, <1>u, <2>1 DEF Close
<1>7. CASE PersistQueueThenSeen
  <2>1. /\ initialized /\ initialized' /\ diskQueue' = queue
        /\ InHand = {} /\ InHand' = {} /\ Entering' = Entering /\ Entering \subseteq ToSet(queue)
        /\ UNCHANGED <<queue, seen, diskSeen, delivered, cleared, unsees, crashes, writeErrors>>
    BY <1>7 DEF PersistQueueThenSeen, InHand, Entering, TypeOK, Call
  <2>2. Lost' \subseteq Lost
    BY <1>d, <2>1 DEF Lost, MemQueue, MemSeen, ForgottenOnDisk
  <2>3. Unblocked' \subseteq Unblocked
    BY <1>d, <2>1 DEF Unblocked, MemQueue, MemSeen
  <2>4. BlockedUntilCrash'
    BY <1>d, <2>1 DEF BlockedUntilCrash, MemQueue, MemSeen
  <2> QED BY <1>b, <2>1, <2>2, <2>3, <2>4
<1>8. CASE PersistQueueAndReturn
  <2>1. /\ initialized /\ initialized' /\ diskQueue' = queue
        /\ InHand' = {} /\ Entering' = {} /\ Entering = {}
        /\ UNCHANGED <<queue, seen, diskSeen, cleared, unsees, crashes, writeErrors>>
    BY <1>8 DEF PersistQueueAndReturn, InHand, Entering
  <2>2. Delivered' = Delivered \cup InHand
    BY <1>8 DEF PersistQueueAndReturn, InHand, Delivered, TypeOK
  <2>3. Lost' \subseteq Lost
    BY <2>1, <2>2 DEF Lost, MemQueue, MemSeen, ForgottenOnDisk
  <2>4. Unblocked' \subseteq Unblocked
    BY <2>1, <2>2 DEF Unblocked, MemQueue, MemSeen
  <2>5. BlockedUntilCrash'
    BY <2>1, <2>2 DEF BlockedUntilCrash, MemQueue, MemSeen
  <2> QED BY <1>b, <2>1, <2>3, <2>4, <2>5
<1>9. CASE PersistSeenAndReturn
  <2>1. /\ initialized /\ diskSeen' = seen /\ initialized' = (call.op # "close")
        /\ InHand = {} /\ InHand' = {} /\ Entering' = {}
        /\ Entering \subseteq ToSet(queue) \cap ToSet(diskQueue) \cap seen
        /\ call.op = "close" => diskQueue = queue
        /\ UNCHANGED <<queue, seen, diskQueue, delivered, cleared, unsees, crashes, writeErrors>>
    BY <1>9 DEF PersistSeenAndReturn, InHand, Entering
  <2>2. /\ ToSet(MemQueue)' = ToSet(MemQueue) /\ ToSet(MemQueue) = ToSet(queue)
        /\ MemSeen' = MemSeen /\ MemSeen = seen
    BY <2>1 DEF MemQueue, MemSeen
  <2>3. Lost' \subseteq Lost
    BY <1>d, <2>1, <2>2 DEF Lost, ForgottenOnDisk
  <2>4. Unblocked' \subseteq Unblocked
    BY <1>d, <2>1, <2>2 DEF Unblocked
  <2>5. BlockedUntilCrash'
    BY <1>d, <2>1, <2>2 DEF BlockedUntilCrash
  <2> QED BY <1>b, <2>1, <2>3, <2>4, <2>5
<1>10. CASE WriteFails
  <2>1. /\ initialized /\ initialized'
        /\ InHand' = {} /\ Entering' = {} /\ Entering \subseteq {call.url} /\ InHand \subseteq {call.url}
        /\ writeErrors' = writeErrors + 1
        /\ UNCHANGED <<queue, seen, disk, delivered, cleared, unsees, crashes>>
    BY <1>10 DEF WriteFails, InHand, Entering
  <2>2. Lost' \subseteq Lost \cup {call.url}
    BY <1>d, <2>1 DEF Lost, MemQueue, MemSeen, ForgottenOnDisk
  <2>3. Unblocked' \subseteq Unblocked \cup {call.url}
    BY <1>d, <2>1 DEF Unblocked, MemQueue, MemSeen
  <2>4. BlockedUntilCrash'
    BY <1>d, <2>1 DEF BlockedUntilCrash, MemQueue, MemSeen
  <2>5. /\ IsFiniteSet(Lost') /\ Cardinality(Lost') <= Cardinality(Lost) + 1
        /\ IsFiniteSet(Unblocked') /\ Cardinality(Unblocked') <= Cardinality(Unblocked) + 1
    BY <1>a, <2>2, <2>3, CountedSubset
  <2>6. Cardinality(Lost') \in Nat /\ Cardinality(Unblocked') \in Nat
    BY <2>5, FS_CardinalityType
  <2> QED BY <1>a, <2>1, <2>4, <2>5, <2>6 DEF LossCounted, UnblockedCounted
<1>11. CASE Crash
  <2>1. /\ initialized /\ ~initialized'
        /\ InHand' = {} /\ Entering' = {} /\ Entering \subseteq {call.url}
        /\ crashes' = crashes + 1
        /\ UNCHANGED <<disk, delivered, cleared, unsees, writeErrors>>
    BY <1>11 DEF Crash, InHand, Entering
  <2>2. Lost' \subseteq Lost
    BY <1>d, <2>1 DEF Lost, MemQueue, MemSeen, ForgottenOnDisk
  <2>3. Unblocked' \subseteq Unblocked \cup {call.url}
    BY <1>d, <2>1 DEF Unblocked, MemQueue, MemSeen
  <2>4. BlockedUntilCrash'
    BY <1>a, <2>1 DEF BlockedUntilCrash
  <2>5. /\ IsFiniteSet(Lost') /\ Cardinality(Lost') <= Cardinality(Lost)
        /\ IsFiniteSet(Unblocked') /\ Cardinality(Unblocked') <= Cardinality(Unblocked) + 1
    BY <1>a, <2>2, <2>3, CountedSubset
  <2>6. Cardinality(Lost') \in Nat /\ Cardinality(Unblocked') \in Nat
    BY <2>5, FS_CardinalityType
  <2> QED BY <1>a, <2>1, <2>4, <2>5, <2>6 DEF LossCounted, UnblockedCounted
<1>12. CASE UNCHANGED vars
  BY <1>12, <1>u DEF vars, MemQueue, MemSeen, Entering, InHand
<1> QED BY <1>1, <1>2, <1>3, <1>4, <1>5, <1>6, <1>7, <1>8, <1>9, <1>10, <1>11, <1>12 DEF Next

(* A URL is handed out once for every time it is queued, and queued again only *)
(* after an unsee or a crash.                                                  *)
LEMMA DeliveriesStep ==
  ~ColdClose /\ TypeOK /\ CallOK /\ WritesInOrder /\ DeliveriesCounted /\ [Next]_vars
    => DeliveriesCounted'
<1> SUFFICES ASSUME ~ColdClose, TypeOK, CallOK, WritesInOrder, DeliveriesCounted, [Next]_vars,
                    NEW u \in Url
             PROVE  /\ delivered'[u] + One(u \in InHand') + Occurrences(MemQueue', u)
                         <= unsees'[u] + crashes' + One(u \in MemSeen')
                    /\ delivered'[u] + Occurrences(diskQueue', u) <= 1 + unsees'[u] + crashes'
  BY DEF DeliveriesCounted
<1> DEFINE inHand == One(u \in InHand)
           inSeen == One(u \in MemSeen)
           waiting == Occurrences(MemQueue, u)
           waitingOnDisk == Occurrences(diskQueue, u)
           Goal == /\ delivered'[u] + inHand' + waiting' <= unsees'[u] + crashes' + inSeen'
                   /\ delivered'[u] + waitingOnDisk' <= 1 + unsees'[u] + crashes'
<1>a. /\ queue \in Seq(Url) /\ diskQueue \in Seq(Url) /\ MemQueue \in Seq(Url)
      /\ delivered[u] \in Nat /\ unsees[u] \in Nat /\ crashes \in Nat
      /\ delivered \in [Url -> Nat] /\ unsees \in [Url -> Nat]
  BY DEF TypeOK, MemQueue
<1>b. /\ Occurrences(queue, u) \in Nat /\ Occurrences(diskQueue, u) \in Nat
      /\ waitingOnDisk \in Nat /\ waiting \in Nat /\ Occurrences(<<>>, u) = 0
  BY <1>a, OccurrencesType
<1>c. /\ delivered[u] + inHand + waiting <= unsees[u] + crashes + inSeen
      /\ delivered[u] + waitingOnDisk <= 1 + unsees[u] + crashes
  BY DEF DeliveriesCounted
<1>e. /\ delivered[u] \in Nat /\ unsees[u] \in Nat /\ crashes \in Nat
      /\ waiting \in Nat /\ waitingOnDisk \in Nat
  BY <1>a, <1>b
<1>d. inHand \in {0, 1} /\ inSeen \in {0, 1} /\ inHand' \in {0, 1} /\ inSeen' \in {0, 1}
  BY DEF One
<1>u. ASSUME UNCHANGED <<MemQueue, MemSeen, diskQueue, InHand, delivered, unsees, crashes>>
      PROVE  Goal
  BY <1>c, <1>u DEF Goal
<1> SUFFICES Goal
  OBVIOUS
<1> HIDE DEF Goal, inHand, inSeen, waiting, waitingOnDisk
<1> USE DEF CallOK, WritesInOrder, Begin, Callable, Idle, history, disk, WritesBoth
<1>1. CASE Initialize
  <2>1. UNCHANGED <<MemQueue, MemSeen, InHand>>
    BY <1>1 DEF Initialize, MemQueue, MemSeen, InHand
  <2> QED BY <1>1, <1>u, <2>1 DEF Initialize
<1>2. ASSUME NEW raw \in RawUrl, Enqueue(raw) PROVE Goal
  <2> DEFINE v == Canonical[raw]
  <2>1. v \in Url /\ v \notin seen
    BY <1>2, ConstantsAssumption DEF Enqueue, Admissible
  <2>2. /\ MemQueue = queue /\ MemSeen = seen /\ MemQueue' = Append(queue, v)
        /\ MemSeen' = seen \cup {v} /\ InHand = {} /\ InHand' = {}
        /\ UNCHANGED <<diskQueue, delivered, unsees, crashes>>
    BY <1>2 DEF Enqueue, MemQueue, MemSeen, InHand
  <2> HIDE DEF v
  <2>3. waiting' = waiting + One(v = u) /\ UNCHANGED waitingOnDisk
    BY <1>a, <2>1, <2>2, OccurrencesAppended DEF waiting, waitingOnDisk
  <2>4. inHand' = 0 /\ inHand = 0 /\ inSeen' = inSeen + One(v = u) /\ One(v = u) \in {0, 1}
    BY <2>1, <2>2 DEF One, inHand, inSeen
  <2>5. delivered'[u] = delivered[u] /\ unsees'[u] = unsees[u] /\ crashes' = crashes
    BY <2>2
  <2> QED BY <1>c, <1>d, <1>e, <2>3, <2>4, <2>5 DEF Goal
<1>3. CASE Dequeue
  <2>1. /\ MemQueue = queue /\ MemQueue' = Tail(queue) /\ MemSeen' = MemSeen
        /\ InHand = {} /\ InHand' = {Head(queue)} /\ queue # <<>> /\ Tail(queue) \in Seq(Url)
        /\ UNCHANGED <<diskQueue, delivered, unsees, crashes>>
    BY <1>3, <1>a DEF Dequeue, MemQueue, MemSeen, InHand
  <2>2. waiting = waiting' + One(Head(queue) = u) /\ waiting' \in Nat /\ UNCHANGED waitingOnDisk
    <3>1. Occurrences(queue, u) = Occurrences(Tail(queue), u) + One(Head(queue) = u)
      BY <1>a, <2>1, OccurrencesOfTail
    <3>2. Occurrences(Tail(queue), u) \in Nat
      BY <2>1, OccurrencesType
    <3> QED BY <2>1, <3>1, <3>2 DEF waiting, waitingOnDisk
  <2>3. inHand' = One(Head(queue) = u) /\ inHand = 0 /\ inSeen' = inSeen
    BY <2>1 DEF One, inHand, inSeen
  <2>4. delivered'[u] = delivered[u] /\ unsees'[u] = unsees[u] /\ crashes' = crashes
    BY <2>1
  <2> QED BY <1>c, <1>d, <1>e, <2>2, <2>3, <2>4 DEF Goal
<1>4. CASE Clear
  <2>1. /\ MemQueue' = <<>> /\ MemSeen' = MemSeen /\ InHand' = {}
        /\ UNCHANGED <<diskQueue, delivered, unsees, crashes>>
    BY <1>4 DEF Clear, MemQueue, MemSeen, InHand
  <2>2. waiting' = 0 /\ UNCHANGED waitingOnDisk /\ inHand' = 0 /\ inSeen' = inSeen
    BY <1>b, <2>1 DEF One, inHand, inSeen, waiting, waitingOnDisk
  <2>3. delivered'[u] = delivered[u] /\ unsees'[u] = unsees[u] /\ crashes' = crashes
    BY <2>1
  <2> QED BY <1>c, <1>d, <1>e, <2>2, <2>3 DEF Goal
<1>5. ASSUME NEW v \in Url, Unsee(v) PROVE Goal
  <2>1. /\ MemQueue' = MemQueue /\ MemSeen = seen /\ MemSeen' = seen \ {v} /\ v \in seen
        /\ InHand' = {} /\ unsees' = [unsees EXCEPT ![v] = @ + 1]
        /\ UNCHANGED <<diskQueue, delivered, crashes>>
    BY <1>5 DEF Unsee, MemQueue, MemSeen, InHand
  <2>2. UNCHANGED <<waiting, waitingOnDisk>>
    BY <2>1 DEF waiting, waitingOnDisk
  <2>3. unsees'[u] = unsees[u] + One(u = v) /\ One(u = v) \in {0, 1}
    BY <1>a, <2>1 DEF One
  <2>4. inHand' = 0 /\ inSeen = inSeen' + One(u = v)
    BY <2>1 DEF One, inHand, inSeen
  <2>5. delivered'[u] = delivered[u] /\ crashes' = crashes
    BY <2>1
  <2> QED BY <1>c, <1>d, <1>e, <2>2, <2>3, <2>4, <2>5 DEF Goal
<1>6. CASE Close \/ WriteFails
  <2>1. /\ UNCHANGED <<MemQueue, MemSeen, diskQueue, delivered, unsees, crashes>>
        /\ InHand' = {}
    BY <1>6 DEF Close, WriteFails, MemQueue, MemSeen, InHand
  <2>2. UNCHANGED <<waiting, waitingOnDisk, inSeen>> /\ inHand' = 0
    BY <2>1 DEF One, inHand, inSeen, waiting, waitingOnDisk
  <2>3. delivered'[u] = delivered[u] /\ unsees'[u] = unsees[u] /\ crashes' = crashes
    BY <2>1
  <2> QED BY <1>c, <1>d, <1>e, <2>2, <2>3 DEF Goal
<1>7. CASE PersistQueueThenSeen
  <2>1. /\ initialized /\ MemQueue = queue /\ MemQueue' = queue /\ MemSeen' = MemSeen
        /\ diskQueue' = queue /\ InHand' = {}
        /\ UNCHANGED <<delivered, unsees, crashes>>
    BY <1>7 DEF PersistQueueThenSeen, MemQueue, MemSeen, InHand
  <2>2. waiting' = waiting /\ waitingOnDisk' = waiting /\ inHand' = 0 /\ inSeen' = inSeen
    BY <2>1 DEF One, inHand, inSeen, waiting, waitingOnDisk
  <2>3. delivered'[u] = delivered[u] /\ unsees'[u] = unsees[u] /\ crashes' = crashes
    BY <2>1
  <2> QED BY <1>c, <1>d, <1>e, <2>2, <2>3 DEF Goal
<1>8. CASE PersistQueueAndReturn
  <2>1. /\ initialized /\ MemQueue = queue /\ MemQueue' = queue /\ MemSeen' = MemSeen
        /\ diskQueue' = queue /\ InHand' = {}
        /\ delivered' = IF call.op = "dequeue" THEN [delivered EXCEPT ![call.url] = @ + 1]
                                               ELSE delivered
        /\ InHand = IF call.op = "dequeue" THEN {call.url} ELSE {}
        /\ UNCHANGED <<unsees, crashes>>
    BY <1>8 DEF PersistQueueAndReturn, MemQueue, MemSeen, InHand
  <2>2. delivered'[u] = delivered[u] + inHand
    BY <1>a, <2>1 DEF One, inHand
  <2>3. waiting' = waiting /\ waitingOnDisk' = waiting /\ inHand' = 0 /\ inSeen' = inSeen
    BY <2>1 DEF One, inHand, inSeen, waiting, waitingOnDisk
  <2>4. unsees'[u] = unsees[u] /\ crashes' = crashes
    BY <2>1
  <2> QED BY <1>c, <1>d, <1>e, <2>2, <2>3, <2>4 DEF Goal
<1>9. CASE PersistSeenAndReturn
  <2>1. /\ UNCHANGED <<MemQueue, MemSeen, diskQueue, delivered, unsees, crashes>>
        /\ InHand = {} /\ InHand' = {}
    BY <1>9 DEF PersistSeenAndReturn, MemQueue, MemSeen, InHand
  <2> QED BY <1>u, <2>1
<1>10. CASE Crash
  <2>1. /\ MemQueue' = diskQueue /\ diskQueue' = diskQueue /\ InHand' = {}
        /\ crashes' = crashes + 1 /\ UNCHANGED <<delivered, unsees>>
    BY <1>10 DEF Crash, MemQueue, InHand
  <2>2. waiting' = waitingOnDisk /\ waitingOnDisk' = waitingOnDisk /\ inHand' = 0
    BY <2>1 DEF One, inHand, waiting, waitingOnDisk
  <2>3. delivered'[u] = delivered[u] /\ unsees'[u] = unsees[u] /\ crashes' = crashes + 1
    BY <2>1
  <2> QED BY <1>c, <1>d, <1>e, <2>2, <2>3 DEF Goal
<1>11. CASE UNCHANGED vars
  BY <1>11, <1>u DEF vars, MemQueue, MemSeen, InHand
<1> QED BY <1>1, <1>2, <1>3, <1>4, <1>5, <1>6, <1>7, <1>8, <1>9, <1>10, <1>11 DEF Next

(* If callers only close queues they initialized, every failing write loses one *)
(* URL at most, every unsee and every crash hands a URL out once more at most,  *)
(* and contains() forgets one URL per crash and per failing write at most, and  *)
(* none without a crash.                                                        *)
THEOREM FailuresCostLittle ==
  ASSUME ~ColdClose
  PROVE  Spec => []FailuresAreBounded
<1> DEFINE Inv == IInv /\ CostInv
<1>1. Init => Inv
  BY InitInvariant, InitCost
<1>2. Inv /\ [Next]_vars => Inv'
  BY TypeStep, CallStep, WriteOrderStep, NothingForgottenStep, CapacityStep,
     WritesInOrderStep, LossStep, DeliveriesStep DEF IInv, CostInv
<1>3. Inv => FailuresAreBounded
  <2> SUFFICES ASSUME Inv PROVE FailuresAreBounded
    OBVIOUS
  <2>1. /\ TypeOK /\ LossCounted /\ UnblockedCounted /\ BlockedUntilCrash /\ DeliveriesCounted
        /\ Cardinality(Lost) \in Nat /\ Cardinality(Unblocked) \in Nat
    BY FS_CardinalityType DEF IInv, CostInv, LossCounted, UnblockedCounted
  <2>2. LossBoundedByWriteErrors
    <3>1. ForgottenOnDisk \subseteq Lost
      BY DEF Lost
    <3>2. IsFiniteSet(ForgottenOnDisk) /\ Cardinality(ForgottenOnDisk) <= Cardinality(Lost)
      BY <2>1, <3>1, CountedSubset DEF LossCounted
    <3>3. Cardinality(ForgottenOnDisk) \in Nat
      BY <3>2, FS_CardinalityType
    <3> QED BY <2>1, <3>2, <3>3 DEF LossBoundedByWriteErrors, LossCounted, TypeOK
  <2>3. BoundedRedelivery
    BY <2>1 DEF BoundedRedelivery, DeliveriesCounted
  <2>4. ASSUME Callable
        PROVE  Cardinality(Unknown) <= (IF crashes = 0 THEN 0 ELSE crashes + writeErrors)
    <3>1. MemQueue = queue /\ MemSeen = seen /\ Entering = {}
      BY <2>4 DEF Callable, MemQueue, MemSeen, Entering
    <3>2. Unknown \subseteq Unblocked
      BY <3>1 DEF Unknown, Unblocked
    <3>3. IsFiniteSet(Unknown) /\ Cardinality(Unknown) <= Cardinality(Unblocked)
      BY <2>1, <3>2, CountedSubset DEF UnblockedCounted
    <3>4. Cardinality(Unknown) \in Nat
      BY <3>3, FS_CardinalityType
    <3>5. crashes = 0 => Unknown = {}
      BY <2>1, <3>1 DEF BlockedUntilCrash, Unknown
    <3>6. crashes = 0 => Cardinality(Unknown) = 0
      BY <3>5, FS_EmptySet
    <3>7. Cardinality(Unknown) <= crashes + writeErrors
      BY <2>1, <3>3, <3>4 DEF UnblockedCounted, TypeOK
    <3> QED BY <3>6, <3>7
  <2> QED BY <2>2, <2>3, <2>4 DEF FailuresAreBounded, DedupSurvivesRestarts
<1> QED BY <1>1, <1>2, <1>3, PTL DEF Spec
===============================================================================
