----------------------------- MODULE RequestsProofs -----------------------------
(***************************************************************************)
(* Proofs about the components that wait for someone's answer, or keep it, *)
(* for every number of requests, callers, searches, providers, pages,      *)
(* origins, sitemaps, workers, jobs, cached keys and lines of robots.txt.  *)
(* Each component has an inductive invariant of its own, in a section of   *)
(* its own:                                                                *)
(*                                                                         *)
(*   ServerInv    no request is open unless the server listens, so that    *)
(*                its count starts anew with none.                         *)
(*   McpInv       an entry is the request's own as long as no other had    *)
(*                its id.                                                  *)
(*   ProviderInv  the attempts sent beside an open circuit, with those     *)
(*                the calls may still be sent, are the retries of the      *)
(*                other searches.                                          *)
(*   WebInv       only the newest search is never aborted, and has the     *)
(*                loading panel.                                           *)
(*   FetchInv     each retry pays for one chain of redirects.              *)
(*   PolicyInv    a policy that permits is as old as the permission.       *)
(*   MapInv       the sitemaps fetched are those visited.                  *)
(*   PoolInv      each request can be put down to a worker that keeps its  *)
(*                delay, and a lone worker's record is the end of what was *)
(*                sent, up to a window.                                    *)
(*   CacheInv     the entries of a cache are in the order in which their   *)
(*                keys were touched, but for those written in place.       *)
(*   RulesInv     the agents of the group that is read are those of the    *)
(*                lines that are open, and a rule was read for it when one *)
(*                stands below them.                                       *)
(*                                                                         *)
(* The last section puts them together, as MCRequests does.                *)
(***************************************************************************)
EXTENDS MCRequests, ListLemmas

(***************************************************************************)
(* The API server.  The count of open requests is exact because no request *)
(* is open unless the server listens: it is the sockets that are destroyed *)
(* before the count is set back by stop() and by the next start().         *)
(***************************************************************************)
RequestPc == {"free", "reading", "fetching", "late", "aborted", "gone", "answered"}
HandledPc == {"reading", "fetching", "aborted", "gone"}
Status    == {0, 200, 429, 503, 504}
Answers   == Options \cup {NoAnswer}

RequestRecord ==
  [pc : RequestPc, query : Query, options : Answers, status : Status, answer : Answers,
   counted : 0..1, contacted : BOOLEAN]

CountedOnceAtMost(r) ==
  /\ r.pc \in HandledPc \cup {"free"} => r.counted = 0
  /\ r.pc = "late" => r.counted = 1
  /\ r.pc = "answered" => r.status = 503 \/ r.counted = 1

ContactsAsAsked(r) == r.contacted => r.options.mode = "standard"

RequestFine(r) == r \in RequestRecord /\ CountedOnceAtMost(r) /\ ContactsAsAsked(r)

OpenRequests == {s \in Slot : request[s].pc \in InFlight}

RequestsFine == request \in [Slot -> RequestRecord] /\ \A s \in Slot : RequestFine(request[s])

OpenWhileListening == server # "listening" => OpenRequests = {}

ServerTypes ==
  /\ lifecycle \in {"initializing", "ready", "shutting_down", "stopped"}
  /\ server \in {"none", "listening", "closing"} /\ starting \in BOOLEAN
  /\ answers \in [Query -> Answers]
  /\ stopping \in [Stopper -> {"idle", "draining", "overdue", "closing"}]
  /\ stopCalls \in 0..2

LifeCycleFits ==
  /\ starting => server = "none"
  /\ server = "listening" => lifecycle \in {"ready", "shutting_down"}
  /\ \A p \in Stopper : stopping[p] = "closing" => server = "closing"
  /\ \A p, q \in Stopper : stopping[p] = "closing" /\ stopping[q] = "closing" => p = q

ServerInv ==
  /\ ServerTypes /\ RequestsFine /\ ActiveCountsRequests /\ OpenWhileListening /\ LifeCycleFits

LEMMA RecordsOfRequests ==
  /\ NoRequest \in RequestRecord /\ RequestFine(NoRequest) /\ NoRequest.pc = "free"
  /\ NoAnswer \in Answers
<1>1. (CHOOSE q \in Query : TRUE) \in Query
  BY ServerAssumption
<1> QED BY <1>1 DEF NoRequest, NoAnswer, Answers, RequestPc, Status, RequestRecord, RequestFine, CountedOnceAtMost, ContactsAsAsked

LEMMA RequestNames ==
  /\ "reading" \in RequestPc /\ "fetching" \in RequestPc /\ "late" \in RequestPc
  /\ "aborted" \in RequestPc /\ "gone" \in RequestPc /\ "answered" \in RequestPc
  /\ "reading" \in HandledPc /\ "fetching" \in HandledPc
  /\ "aborted" \in HandledPc /\ "gone" \in HandledPc
  /\ 0 \in Status /\ 200 \in Status /\ 429 \in Status /\ 503 \in Status /\ 504 \in Status
  /\ NoAnswer \in Answers
  BY DEF RequestPc, HandledPc, Status, Answers

(* A record of a request stays one when a field is set. *)
LEMMA RequestFields ==
  ASSUME NEW r \in RequestRecord
  PROVE  /\ \A pc \in RequestPc : [r EXCEPT !.pc = pc] \in RequestRecord
         /\ \A q \in Query : [r EXCEPT !.query = q] \in RequestRecord
         /\ \A o \in Answers : /\ [r EXCEPT !.options = o] \in RequestRecord
                                               /\ [r EXCEPT !.answer = o] \in RequestRecord
         /\ \A n \in Status : [r EXCEPT !.status = n] \in RequestRecord
         /\ \A n \in 0..1 : [r EXCEPT !.counted = n] \in RequestRecord
         /\ \A b \in BOOLEAN : [r EXCEPT !.contacted = b] \in RequestRecord
  BY DEF RequestRecord, RequestPc, Status

LEMMA RequestsFinite ==
  /\ IsFiniteSet(OpenRequests) /\ Cardinality(OpenRequests) \in Nat
  /\ Cardinality(OpenRequests) <= Cardinality(Slot) /\ Cardinality(Slot) \in Nat
  /\ Cardinality(OpenRequests) = 0 <=> OpenRequests = {}
<1>1. OpenRequests \subseteq Slot
  BY DEF OpenRequests
<1>2. IsFiniteSet(OpenRequests) /\ Cardinality(OpenRequests) <= Cardinality(Slot)
  BY <1>1, ServerAssumption, FS_Subset
<1>3. Cardinality(OpenRequests) \in Nat /\ Cardinality(Slot) \in Nat
  BY <1>2, ServerAssumption, FS_CardinalityType
<1>4. Cardinality(OpenRequests) = 0 <=> OpenRequests = {}
  BY <1>2, FS_EmptySet
<1> QED BY <1>2, <1>3, <1>4

LEMMA CutRequest ==
  ASSUME NEW r \in RequestRecord, RequestFine(r)
  PROVE  RequestFine(Cut(r)) /\ Cut(r).pc \notin InFlight
<1>1. CASE r.pc = "reading"
  <2>1. Cut(r) = [r EXCEPT !.pc = "aborted"]
    BY <1>1 DEF Cut
  <2>2. Cut(r) \in RequestRecord
    <3>1. [r EXCEPT !.pc = "aborted"] \in RequestRecord
      BY RequestFields, RequestNames
    <3> QED BY <2>1, <3>1
  <2>3. /\ Cut(r).pc = "aborted" /\ Cut(r).counted = r.counted /\ Cut(r).contacted = r.contacted
        /\ Cut(r).options = r.options
    BY <2>1 DEF RequestRecord
  <2> QED BY <1>1, <2>2, <2>3 DEF RequestFine, CountedOnceAtMost, ContactsAsAsked, HandledPc, InFlight
<1>2. CASE r.pc = "fetching"
  <2>1. Cut(r) = [r EXCEPT !.pc = "gone"]
    BY <1>2 DEF Cut
  <2>2. Cut(r) \in RequestRecord
    <3>1. [r EXCEPT !.pc = "gone"] \in RequestRecord
      BY RequestFields, RequestNames
    <3> QED BY <2>1, <3>1
  <2>3. /\ Cut(r).pc = "gone" /\ Cut(r).counted = r.counted /\ Cut(r).contacted = r.contacted
        /\ Cut(r).options = r.options
    BY <2>1 DEF RequestRecord
  <2> QED BY <1>2, <2>2, <2>3 DEF RequestFine, CountedOnceAtMost, ContactsAsAsked, HandledPc, InFlight
<1>3. CASE r.pc \notin {"reading", "fetching"}
  <2>1. Cut(r) = [r EXCEPT !.pc = r.pc]
    BY <1>3 DEF Cut
  <2>2. Cut(r) = r
    BY <2>1 DEF RequestRecord
  <2> QED BY <1>3, <2>2 DEF InFlight
<1> QED BY <1>1, <1>2, <1>3

LEMMA ServerInitInvariant == ServerInit => ServerInv
<1> SUFFICES ASSUME ServerInit PROVE ServerInv
  OBVIOUS
<1> USE DEF ServerInit
<1>1. ServerTypes
  <2>1. NoAnswer \in Answers
    BY RecordsOfRequests
  <2>2. answers \in [Query -> Answers]
    BY <2>1
  <2>3. stopping \in [Stopper -> {"idle", "draining", "overdue", "closing"}] /\ stopCalls \in 0..2
    OBVIOUS
  <2>4. lifecycle = "initializing" /\ server = "none" /\ starting = FALSE
    OBVIOUS
  <2> HIDE DEF ServerInit
  <2> QED BY <2>2, <2>3, <2>4 DEF ServerTypes
<1>5. LifeCycleFits
  BY DEF LifeCycleFits
<1>2. RequestsFine
  BY RecordsOfRequests DEF RequestsFine
<1>3. OpenRequests = {}
  BY RecordsOfRequests DEF OpenRequests, InFlight
<1>4. ActiveCountsRequests /\ OpenWhileListening
  BY <1>3, FS_EmptySet DEF ActiveCountsRequests, OpenWhileListening, OpenRequests
<1> QED BY <1>1, <1>2, <1>4, <1>5 DEF ServerInv

(* One request moves on, and the count moves with it. *)
LEMMA RequestMoves ==
  ASSUME ServerInv, NEW s \in Slot, NEW r, RequestFine(r),
         request' = [request EXCEPT ![s] = r],
         active' = active - One(request[s].pc \in InFlight) + One(r.pc \in InFlight),
         r.pc \in InFlight => request[s].pc \in InFlight \/ server = "listening",
         server' = server
  PROVE  RequestsFine' /\ ActiveCountsRequests' /\ OpenWhileListening'
<1> USE DEF ServerInv
<1>1. r \in RequestRecord
  BY DEF RequestFine
<1>2. RequestsFine'
  BY <1>1 DEF RequestsFine
<1>3. \A t : t # s => (t \in OpenRequests <=> t \in OpenRequests')
  BY DEF OpenRequests, RequestsFine
<1>4. s \in OpenRequests <=> request[s].pc \in InFlight
  BY DEF OpenRequests
<1>5. s \in OpenRequests' <=> r.pc \in InFlight
  BY DEF OpenRequests, RequestsFine
<1>6. Cardinality(OpenRequests') = Cardinality(OpenRequests) - One(s \in OpenRequests) + One(s \in OpenRequests')
  BY <1>3, RequestsFinite, CountMoves
<1>7. One(s \in OpenRequests) = One(request[s].pc \in InFlight) /\ One(s \in OpenRequests') = One(r.pc \in InFlight)
  BY <1>4, <1>5 DEF One
<1>8. ActiveCountsRequests'
  BY <1>6, <1>7 DEF ActiveCountsRequests, OpenRequests
<1>9. OpenWhileListening'
  <2>1. ASSUME server # "listening" PROVE OpenRequests' = {}
    <3>1. OpenRequests = {}
      BY <2>1 DEF OpenWhileListening
    <3>2. s \notin OpenRequests'
      BY <1>4, <1>5, <2>1, <3>1
    <3> QED BY <1>3, <3>1, <3>2
  <2> QED BY <2>1 DEF OpenWhileListening
<1> QED BY <1>2, <1>8, <1>9

(* As above, where finish or close counts the request down. *)
LEMMA RequestFinishes ==
  ASSUME ServerInv, NEW s \in Slot, NEW r, RequestFine(r), Finishes(s, r),
         r.pc \notin InFlight, server' = server
  PROVE  RequestsFine' /\ ActiveCountsRequests' /\ OpenWhileListening'
<1>1. active \in Nat /\ (request[s].pc \in InFlight => active > 0)
  <2>1. active = Cardinality(OpenRequests)
    BY DEF ServerInv, ActiveCountsRequests, OpenRequests
  <2>2. request[s].pc \in InFlight => OpenRequests # {}
    BY DEF OpenRequests
  <2> QED BY <2>1, <2>2, RequestsFinite
<1>2. active' = active - One(request[s].pc \in InFlight) + One(r.pc \in InFlight)
  BY <1>1 DEF Finishes, One
<1>3. request' = [request EXCEPT ![s] = r]
  BY DEF Finishes
<1> QED BY <1>2, <1>3, RequestMoves

(* No request moves. *)
LEMMA RequestsStay ==
  ASSUME ServerInv, request' = request, active' = active,
         server' # "listening" => server # "listening"
  PROVE  RequestsFine' /\ ActiveCountsRequests' /\ OpenWhileListening'
<1> USE DEF ServerInv
<1>1. OpenRequests' = OpenRequests
  BY DEF OpenRequests
<1> QED BY <1>1 DEF RequestsFine, ActiveCountsRequests, OpenWhileListening, OpenRequests

LEMMA AnsweredRequest ==
  ASSUME NEW r \in RequestRecord, RequestFine(r), r.pc \in HandledPc,
         NEW status \in Status, NEW answer \in Answers
  PROVE  /\ RequestFine(Answered(r, status, answer))
         /\ Answered(r, status, answer).pc = "answered"
         /\ RequestFine([Answered(r, status, answer) EXCEPT !.pc = "late"])
         /\ [Answered(r, status, answer) EXCEPT !.pc = "late"].pc = "late"
<1> DEFINE a == Answered(r, status, answer)
<1>1. r.counted = 0
  BY DEF RequestFine, CountedOnceAtMost, HandledPc
<1>5. a \in RequestRecord
  <2> DEFINE b == [r EXCEPT !.pc = "answered"]
             c == [b EXCEPT !.status = status]
             d == [c EXCEPT !.answer = answer]
             e == [d EXCEPT !.counted = r.counted + 1]
  <2>1. a = e
    BY DEF Answered
  <2>2. r.counted + 1 \in 0..1 /\ status \in Status
    BY <1>1
  <2>3. b \in RequestRecord
    BY RequestFields, RequestNames
  <2> HIDE DEF b
  <2>4. c \in RequestRecord
    BY <2>2, <2>3, RequestFields
  <2> HIDE DEF c
  <2>5. d \in RequestRecord
    BY <2>4, RequestFields
  <2> HIDE DEF d
  <2>6. e \in RequestRecord
    BY <2>2, <2>5, RequestFields
  <2> HIDE DEF a, e
  <2> QED BY <2>1, <2>6
<1>2. a \in RequestRecord /\ a.pc = "answered" /\ a.counted = 1
      /\ a.contacted = r.contacted /\ a.options = r.options
  <2>1. a.pc = "answered" /\ a.counted = 1 /\ a.contacted = r.contacted /\ a.options = r.options
    BY <1>1 DEF Answered, RequestRecord
  <2> HIDE DEF a
  <2> QED BY <1>5, <2>1
<1>3. RequestFine(a)
  BY <1>2 DEF RequestFine, CountedOnceAtMost, ContactsAsAsked, HandledPc
<1> HIDE DEF a
<1> DEFINE l == [a EXCEPT !.pc = "late"]
<1>6. l \in RequestRecord
  BY <1>2, RequestFields, RequestNames
<1>7. l.pc = "late" /\ l.counted = a.counted /\ l.contacted = a.contacted /\ l.options = a.options
  BY <1>2 DEF RequestRecord
<1>4. RequestFine(l) /\ l.pc = "late"
  <2> HIDE DEF l
  <2> QED BY <1>2, <1>3, <1>6, <1>7 DEF RequestFine, CountedOnceAtMost, ContactsAsAsked, HandledPc
<1> QED BY <1>2, <1>3, <1>4 DEF a

LEMMA ServerStep == ServerInv /\ [ServerNext]_serverVars => ServerInv'
<1> SUFFICES ASSUME ServerInv, [ServerNext]_serverVars PROVE ServerInv'
  OBVIOUS
<1> DEFINE Rest == ServerTypes /\ LifeCycleFits
           Count == RequestsFine /\ ActiveCountsRequests /\ OpenWhileListening
<1>0. ServerTypes /\ RequestsFine /\ ActiveCountsRequests /\ OpenWhileListening /\ LifeCycleFits
  BY DEF ServerInv
<1>a. \A s \in Slot : request[s] \in RequestRecord /\ RequestFine(request[s])
  BY <1>0 DEF RequestsFine
<1>b. ASSUME UNCHANGED <<lifecycle, server, starting, stopping, stopCalls>>,
             answers' \in [Query -> Answers]
      PROVE  Rest'
  BY <1>0, <1>b DEF ServerTypes, LifeCycleFits
<1>c. answers \in [Query -> Answers]
  BY <1>0 DEF ServerTypes
<1>1. ASSUME Start PROVE ServerInv'
  <2>1. Rest'
    BY <1>0, <1>1 DEF Start, ServerTypes, LifeCycleFits
  <2>2. Count'
    BY <1>1, RequestsStay DEF Start
  <2> QED BY <2>1, <2>2 DEF ServerInv
<1>2. ASSUME Listens PROVE ServerInv'
  <2>1. Rest'
    BY <1>0, <1>2 DEF Listens, ServerTypes, LifeCycleFits
  <2>2. active = 0
    <3>1. OpenRequests = {}
      BY <1>0, <1>2 DEF Listens, LifeCycleFits, OpenWhileListening
    <3> QED BY <1>0, <3>1, RequestsFinite DEF ActiveCountsRequests, OpenRequests
  <2>3. Count'
    BY <1>2, <2>2, RequestsStay DEF Listens
  <2> QED BY <2>1, <2>3 DEF ServerInv
<1>3. ASSUME NEW p \in Stopper, Stop(p) PROVE ServerInv'
  <2>1. Rest'
    BY <1>0, <1>3 DEF Stop, ServerTypes, LifeCycleFits
  <2>2. Count'
    BY <1>3, RequestsStay DEF Stop
  <2> QED BY <2>1, <2>2 DEF ServerInv
<1>4. ASSUME NEW p \in Stopper, GraceExpires(p) PROVE ServerInv'
  <2>1. Rest'
    BY <1>0, <1>4 DEF GraceExpires, ServerTypes, LifeCycleFits
  <2>2. Count'
    BY <1>4, RequestsStay DEF GraceExpires
  <2> QED BY <2>1, <2>2 DEF ServerInv
<1>5. ASSUME NEW p \in Stopper, DestroysSockets(p) PROVE ServerInv'
  <2>1. answers' \in [Query -> Answers]
    BY <1>5, RecordsOfRequests DEF DestroysSockets
  <2>2. Rest'
    <3>1. CASE server = "none"
      BY <1>0, <1>5, <2>1, <3>1 DEF DestroysSockets, Drained, ServerTypes, LifeCycleFits
    <3>2. CASE server = "listening"
      BY <1>0, <1>5, <2>1, <3>2 DEF DestroysSockets, Drained, ServerTypes, LifeCycleFits
    <3>3. CASE server = "closing"
      BY <1>0, <1>5, <2>1, <3>3 DEF DestroysSockets, Drained, ServerTypes, LifeCycleFits
    <3> QED BY <1>0, <3>1, <3>2, <3>3 DEF ServerTypes
  <2>3. request' = [s \in Slot |-> Cut(request[s])] /\ active' = 0
    BY <1>5 DEF DestroysSockets
  <2>4. \A s \in Slot : RequestFine(Cut(request[s])) /\ Cut(request[s]).pc \notin InFlight
    BY <1>a, CutRequest
  <2>5. RequestsFine'
    BY <2>3, <2>4 DEF RequestsFine, RequestFine
  <2>6. OpenRequests' = {}
    BY <2>3, <2>4 DEF OpenRequests
  <2>7. ActiveCountsRequests' /\ OpenWhileListening'
    <3>1. Cardinality(OpenRequests') = 0
      BY <2>6, FS_EmptySet
    <3> QED BY <2>3, <2>6, <3>1 DEF ActiveCountsRequests, OpenWhileListening, OpenRequests
  <2> QED BY <2>2, <2>5, <2>7 DEF ServerInv
<1>6. ASSUME NEW p \in Stopper, Closed(p) PROVE ServerInv'
  <2>1. Rest'
    BY <1>0, <1>6 DEF Closed, ServerTypes, LifeCycleFits
  <2>2. server # "listening"
    BY <1>0, <1>6 DEF Closed, LifeCycleFits
  <2>3. Count'
    BY <1>6, <2>2, RequestsStay DEF Closed
  <2> QED BY <2>1, <2>3 DEF ServerInv
<1>7. ASSUME NEW s \in Slot, NEW q \in Query, NEW o \in Options, Arrives(s, q, o) PROVE ServerInv'
  <2>1. Rest'
    BY <1>7, <1>b, <1>c DEF Arrives
  <2> DEFINE r503 == [NoRequest EXCEPT !.pc = "answered", !.status = 503]
             rRead == [NoRequest EXCEPT !.pc = "reading", !.query = q, !.options = o]
  <2>2. RequestFine(r503) /\ r503.pc = "answered"
    <3> DEFINE n == NoRequest
               a == [n EXCEPT !.pc = "answered"]
    <3>1. n \in RequestRecord /\ ~n.contacted
      BY RecordsOfRequests DEF NoRequest
    <3> HIDE DEF n
    <3>2. r503 = [a EXCEPT !.status = 503]
      BY DEF n
    <3>3. a \in RequestRecord
      BY <3>1, RequestFields, RequestNames
    <3>4. [a EXCEPT !.status = 503] \in RequestRecord
      <4> HIDE DEF a
      <4>1. \A k \in Status : [a EXCEPT !.status = k] \in RequestRecord
        BY <3>3, RequestFields
      <4> QED BY <4>1, RequestNames
    <3>5. r503.pc = "answered" /\ r503.status = 503 /\ r503.contacted = n.contacted
      BY <3>1, <3>2 DEF RequestRecord
    <3> HIDE DEF r503, a
    <3>6. r503 \in RequestRecord /\ r503.pc = "answered" /\ r503.status = 503 /\ ~r503.contacted
      BY <3>1, <3>2, <3>4, <3>5
    <3> QED BY <3>6 DEF RequestFine, CountedOnceAtMost, ContactsAsAsked, HandledPc
  <2>3. RequestFine(rRead) /\ rRead.pc = "reading"
    <3> DEFINE n == NoRequest
               a == [n EXCEPT !.pc = "reading"]
               b == [a EXCEPT !.query = q]
    <3>1. n \in RequestRecord /\ ~n.contacted /\ n.counted = 0
      BY RecordsOfRequests DEF NoRequest
    <3> HIDE DEF n
    <3>2. rRead = [b EXCEPT !.options = o]
      BY DEF n
    <3>3. a \in RequestRecord
      BY <3>1, RequestFields, RequestNames
    <3>4. b \in RequestRecord
      <4> HIDE DEF a
      <4> QED BY <3>3, RequestFields
    <3>5. [b EXCEPT !.options = o] \in RequestRecord
      <4> HIDE DEF b
      <4>1. o \in Answers
        BY DEF Answers
      <4> QED BY <3>4, <4>1, RequestFields
    <3>6. rRead.pc = "reading" /\ rRead.counted = n.counted /\ rRead.contacted = n.contacted
      BY <3>1, <3>2 DEF RequestRecord
    <3> HIDE DEF rRead, b
    <3>7. rRead \in RequestRecord /\ rRead.pc = "reading" /\ rRead.counted = 0 /\ ~rRead.contacted
      BY <3>1, <3>2, <3>5, <3>6
    <3> QED BY <3>7 DEF RequestFine, CountedOnceAtMost, ContactsAsAsked, HandledPc
  <2>4. request[s].pc \notin InFlight /\ active \in Nat
    BY <1>0, <1>7, RequestsFinite DEF Arrives, Ended, InFlight, ActiveCountsRequests, OpenRequests
  <2> HIDE DEF r503, rRead
  <2>5. Count'
    <3>1. CASE lifecycle = "shutting_down"
      <4>1. request' = [request EXCEPT ![s] = r503] /\ active' = active /\ server' = server
        BY <1>7, <3>1 DEF Arrives, r503
      <4>2. active' = active - One(request[s].pc \in InFlight) + One(r503.pc \in InFlight)
        BY <2>2, <2>4, <4>1 DEF One, InFlight
      <4>3. r503.pc \notin InFlight
        BY <2>2 DEF InFlight
      <4> QED BY <2>2, <4>1, <4>2, <4>3, RequestMoves
    <3>2. CASE lifecycle # "shutting_down"
      <4>1. request' = [request EXCEPT ![s] = rRead] /\ active' = active + 1 /\ server' = server
            /\ server = "listening"
        BY <1>7, <3>2 DEF Arrives, rRead
      <4>2. active' = active - One(request[s].pc \in InFlight) + One(rRead.pc \in InFlight)
        BY <2>3, <2>4, <4>1 DEF One, InFlight
      <4> QED BY <2>3, <4>1, <4>2, RequestMoves
    <3> QED BY <3>1, <3>2
  <2> QED BY <2>1, <2>5 DEF ServerInv
<1>8. ASSUME NEW s \in Slot, AnswersAtOnce(s) PROVE ServerInv'
  <2>1. Rest'
    BY <1>8, <1>b, <1>c DEF AnswersAtOnce
  <2>2. request[s].pc = "reading" /\ server' = server
    BY <1>8 DEF AnswersAtOnce
  <2>3. answers[request[s].query] \in Answers
    BY <1>a, <1>c DEF RequestRecord
  <2>4. PICK status \in Status, answer \in Answers :
          Finishes(s, Answered(request[s], status, answer))
    BY <1>8, <2>3, RequestNames DEF AnswersAtOnce
  <2>5. RequestFine(Answered(request[s], status, answer))
        /\ Answered(request[s], status, answer).pc = "answered"
    <3>1. request[s].pc \in HandledPc
      BY <2>2, RequestNames
    <3> QED BY <1>a, <3>1, AnsweredRequest
  <2>6. Count'
    BY <2>2, <2>4, <2>5, RequestFinishes DEF InFlight
  <2> QED BY <2>1, <2>6 DEF ServerInv
<1>9. ASSUME NEW s \in Slot, Fetches(s) PROVE ServerInv'
  <2>1. Rest'
    BY <1>9, <1>b, <1>c DEF Fetches
  <2> DEFINE r == [request[s] EXCEPT !.pc = "fetching", !.contacted = Contacts(request[s])]
  <2>2. request[s].pc = "reading" /\ server' = server /\ active' = active
        /\ request' = [request EXCEPT ![s] = r]
    BY <1>9 DEF Fetches
  <2>3. RequestFine(r) /\ r.pc = "fetching"
    <3>1. r \in RequestRecord
      <4> DEFINE a == [request[s] EXCEPT !.pc = "fetching"]
                 b == Contacts(request[s])
      <4>1. r = [a EXCEPT !.contacted = b]
        OBVIOUS
      <4>2. a \in RequestRecord
        BY <1>a, RequestFields, RequestNames
      <4>3. b \in BOOLEAN
        BY DEF Contacts
      <4> HIDE DEF a, b, r
      <4> QED BY <4>1, <4>2, <4>3, RequestFields
    <3>2. /\ r.pc = "fetching" /\ r.counted = request[s].counted /\ r.options = request[s].options
          /\ r.contacted = Contacts(request[s])
      BY <1>a DEF RequestRecord
    <3>3. request[s].counted = 0
      BY <1>a, <2>2, RequestNames DEF RequestFine, CountedOnceAtMost
    <3> HIDE DEF r
    <3> QED BY <3>1, <3>2, <3>3 DEF Contacts, RequestFine, CountedOnceAtMost, ContactsAsAsked, HandledPc
  <2>4. active' = active - One(request[s].pc \in InFlight) + One(r.pc \in InFlight)
    BY <1>0, <2>2, <2>3, RequestsFinite DEF One, InFlight, ActiveCountsRequests, OpenRequests
  <2> HIDE DEF r
  <2>5. Count'
    BY <2>2, <2>3, <2>4, RequestMoves DEF InFlight
  <2> QED BY <2>1, <2>5 DEF ServerInv
<1>10. ASSUME NEW s \in Slot, Responds(s) PROVE ServerInv'
  <2>1. request[s].options \in Answers /\ request[s].query \in Query
    BY <1>a DEF RequestRecord
  <2>2. Rest'
    <3>1. answers' \in [Query -> Answers]
      BY <1>10, <1>c, <2>1 DEF Responds
    <3> QED BY <1>10, <1>b, <3>1 DEF Responds
  <2>3. request[s].pc = "fetching" /\ server' = server
        /\ Finishes(s, Answered(request[s], 200, request[s].options))
    BY <1>10 DEF Responds
  <2>4. RequestFine(Answered(request[s], 200, request[s].options))
        /\ Answered(request[s], 200, request[s].options).pc = "answered"
    <3>1. request[s].pc \in HandledPc
      BY <2>3, RequestNames
    <3>2. \A k \in Status, a \in Answers : /\ RequestFine(Answered(request[s], k, a))
                                          /\ Answered(request[s], k, a).pc = "answered"
      BY <1>a, <3>1, AnsweredRequest
    <3> QED BY <2>1, <3>2, RequestNames
  <2>5. Count'
    BY <2>3, <2>4, RequestFinishes DEF InFlight
  <2> QED BY <2>2, <2>5 DEF ServerInv
<1>11. ASSUME NEW s \in Slot, RespondsLate(s) PROVE ServerInv'
  <2>1. request[s].options \in Answers /\ request[s].query \in Query
    BY <1>a DEF RequestRecord
  <2>2. Rest'
    <3>1. answers' \in [Query -> Answers]
      BY <1>11, <1>c, <2>1 DEF RespondsLate
    <3> QED BY <1>11, <1>b, <3>1 DEF RespondsLate
  <2> DEFINE r == [request[s] EXCEPT !.pc = "answered"]
  <2>3. request[s].pc = "late" /\ server' = server /\ active' = active
        /\ request' = [request EXCEPT ![s] = r]
    BY <1>11 DEF RespondsLate
  <2>4. RequestFine(r) /\ r.pc = "answered"
    <3>1. r \in RequestRecord
      BY <1>a, RequestFields, RequestNames
    <3>2. /\ r.pc = "answered" /\ r.counted = request[s].counted /\ r.contacted = request[s].contacted
          /\ r.options = request[s].options
      BY <1>a DEF RequestRecord
    <3> HIDE DEF r
    <3> QED BY <1>a, <2>3, <3>1, <3>2 DEF RequestFine, CountedOnceAtMost, ContactsAsAsked, HandledPc
  <2>5. active' = active - One(request[s].pc \in InFlight) + One(r.pc \in InFlight)
    BY <1>0, <2>3, <2>4, RequestsFinite DEF One, InFlight, ActiveCountsRequests, OpenRequests
  <2> HIDE DEF r
  <2>6. Count'
    BY <2>3, <2>4, <2>5, RequestMoves DEF InFlight
  <2> QED BY <2>2, <2>6 DEF ServerInv
<1>12. ASSUME NEW s \in Slot, TimesOut(s) PROVE ServerInv'
  <2>1. Rest'
    BY <1>12, <1>b, <1>c DEF TimesOut
  <2>2. request[s].pc = "fetching" /\ server' = server
        /\ Finishes(s, [Answered(request[s], 504, NoAnswer) EXCEPT !.pc = "late"])
    BY <1>12 DEF TimesOut
  <2>3. RequestFine([Answered(request[s], 504, NoAnswer) EXCEPT !.pc = "late"])
        /\ [Answered(request[s], 504, NoAnswer) EXCEPT !.pc = "late"].pc = "late"
    BY <1>a, <2>2, AnsweredRequest, RequestNames
  <2>4. Count'
    BY <2>2, <2>3, RequestFinishes DEF InFlight
  <2> QED BY <2>1, <2>4 DEF ServerInv
<1>13. ASSUME NEW s \in Slot, ClientCloses(s) PROVE ServerInv'
  <2>1. Rest'
    BY <1>13, <1>b, <1>c DEF ClientCloses
  <2>2. Count'
    BY <1>13, <1>a, CutRequest, RequestFinishes DEF ClientCloses
  <2> QED BY <2>1, <2>2 DEF ServerInv
<1>14. ASSUME NEW s \in Slot, EndsUnheard(s) PROVE ServerInv'
  <2>1. request[s].options \in Answers /\ request[s].query \in Query
    BY <1>a DEF RequestRecord
  <2>2. Rest'
    <3>1. answers' \in [Query -> Answers]
      BY <1>14, <1>c, <2>1 DEF EndsUnheard
    <3> QED BY <1>14, <1>b, <3>1 DEF EndsUnheard
  <2> DEFINE r == Answered(request[s], 0, NoAnswer)
  <2>3. request[s].pc \in {"aborted", "gone"} /\ server' = server /\ active' = active
        /\ request' = [request EXCEPT ![s] = r]
    BY <1>14 DEF EndsUnheard
  <2>4. RequestFine(r) /\ r.pc = "answered"
    <3>1. /\ 0 \in Status /\ NoAnswer \in Answers
          /\ request[s].pc \in HandledPc
      BY <2>3, RequestNames
    <3> QED BY <1>a, <3>1, AnsweredRequest
  <2>5. active' = active - One(request[s].pc \in InFlight) + One(r.pc \in InFlight)
    BY <1>0, <2>3, <2>4, RequestsFinite DEF One, InFlight, ActiveCountsRequests, OpenRequests
  <2> HIDE DEF r
  <2>6. Count'
    BY <2>3, <2>4, <2>5, RequestMoves DEF InFlight
  <2> QED BY <2>2, <2>6 DEF ServerInv
<1>15. ASSUME NEW q \in Query, CacheForgets(q) PROVE ServerInv'
  <2>1. answers' \in [Query -> Answers]
    BY <1>15, <1>c, RecordsOfRequests DEF CacheForgets
  <2>2. Rest'
    BY <1>15, <1>b, <2>1 DEF CacheForgets
  <2>3. Count'
    BY <1>15, RequestsStay DEF CacheForgets
  <2> QED BY <2>2, <2>3 DEF ServerInv
<1>16. ASSUME UNCHANGED serverVars PROVE ServerInv'
  <2>1. Rest'
    BY <1>16, <1>b, <1>c DEF serverVars
  <2>2. Count'
    BY <1>16, RequestsStay DEF serverVars
  <2> QED BY <2>1, <2>2 DEF ServerInv
<1> QED BY <1>1, <1>2, <1>3, <1>4, <1>5, <1>6, <1>7, <1>8, <1>9, <1>10, <1>11, <1>12, <1>13, <1>14,
           <1>15, <1>16 DEF ServerNext

(* What the invariant says of the properties. *)
LEMMA ServerProperties ==
  ServerInv => ServerTypeOK /\ CountedOnce /\ LocalContactsNobody /\ ActiveCountsRequests
<1> SUFFICES ASSUME ServerInv PROVE ServerTypeOK /\ CountedOnce /\ LocalContactsNobody
  BY DEF ServerInv
<1>1. ServerTypes /\ RequestsFine /\ ActiveCountsRequests
  BY DEF ServerInv
<1>2. ServerTypeOK
  <2>1. active \in 0..Cardinality(Slot)
    BY <1>1, RequestsFinite DEF ActiveCountsRequests, OpenRequests
  <2>2. request \in [Slot -> RequestRecord]
    BY <1>1 DEF RequestsFine
  <2> QED BY <1>1, <2>1, <2>2 DEF ServerTypeOK, ServerTypes, RequestRecord, RequestPc, Status, Answers
<1>3. CountedOnce
  BY <1>1 DEF CountedOnce, RequestsFine, RequestFine, RequestRecord, CountedOnceAtMost
<1>4. LocalContactsNobody
  BY <1>1 DEF LocalContactsNobody, RequestsFine, RequestFine, ContactsAsAsked
<1> QED BY <1>2, <1>3, <1>4

(* Only the call of stop() that sees the last request end goes on before its grace *)
(* period is over, and only a server that runs lets a request through.              *)
LEMMA ServerStepIsOrderly ==
  ASSUME ServerInv, [ServerNext]_serverVars
  PROVE  /\ \A p \in Stopper : stopping[p] = "draining" /\ stopping'[p] \in {"closing", "idle"}
              => active = 0
         /\ \A s \in Slot : request[s].pc \in Ended /\ request'[s].pc = "reading"
              => lifecycle = "ready"
<1> SUFFICES ASSUME ServerNext
             PROVE  /\ \A p \in Stopper : stopping[p] = "draining" /\ stopping'[p] \in {"closing", "idle"}
                         => active = 0
                    /\ \A s \in Slot : request[s].pc \in Ended /\ request'[s].pc = "reading"
                         => lifecycle = "ready"
  BY DEF serverVars, Ended
<1>0. /\ stopping \in [Stopper -> {"idle", "draining", "overdue", "closing"}]
      /\ request \in [Slot -> RequestRecord] /\ LifeCycleFits
  BY DEF ServerInv, ServerTypes, RequestsFine
<1>1. ASSUME NEW p \in Stopper, stopping[p] = "draining", stopping'[p] \in {"closing", "idle"}
      PROVE  active = 0
  <2>1. PICK q \in Stopper : Stop(q) \/ GraceExpires(q) \/ DestroysSockets(q) \/ Closed(q)
    BY <1>1 DEF ServerNext, Start, Listens, Arrives, AnswersAtOnce, Fetches, Responds, RespondsLate,
                TimesOut, ClientCloses, EndsUnheard, CacheForgets
  <2>2. CASE Stop(q)
    BY <1>0, <1>1, <2>2 DEF Stop
  <2>3. CASE GraceExpires(q)
    BY <1>0, <1>1, <2>3 DEF GraceExpires
  <2>4. CASE DestroysSockets(q)
    <3>1. \E v : stopping' = [stopping EXCEPT ![q] = v]
      <4>1. server = "none" \/ server = "listening" \/ server = "closing"
        BY DEF ServerInv, ServerTypes
      <4> QED BY <2>4, <4>1 DEF DestroysSockets
    <3>2. q = p
      BY <1>0, <1>1, <3>1
    <3> QED BY <1>1, <2>4, <3>2 DEF DestroysSockets, Drained
  <2>5. CASE Closed(q)
    BY <1>0, <1>1, <2>5 DEF Closed
  <2> QED BY <2>1, <2>2, <2>3, <2>4, <2>5, SMTT(30)
<1>2. ASSUME NEW s \in Slot, request[s].pc \in Ended, request'[s].pc = "reading"
      PROVE  lifecycle = "ready"
  <2>1. request[s].pc # "reading"
    BY <1>2 DEF Ended
  <2>2. CASE request' = request
    BY <1>2, <2>1, <2>2
  <2>3. CASE \E p \in Stopper : DestroysSockets(p)
    <3>1. request'[s] = Cut(request[s])
      BY <2>3 DEF DestroysSockets
    <3>2. Cut(request[s]).pc # "reading"
      BY CutRequest DEF ServerInv, RequestsFine, InFlight
    <3> QED BY <1>2, <3>1, <3>2
  <2>4. CASE \E t \in Slot : AnswersAtOnce(t) \/ Responds(t) \/ TimesOut(t) \/ ClientCloses(t) \/ EndsUnheard(t)
    <3>1. PICK t \in Slot : AnswersAtOnce(t) \/ Responds(t) \/ TimesOut(t) \/ ClientCloses(t) \/ EndsUnheard(t)
      BY <2>4
    <3>2. request[t].pc \notin Ended /\ \E r : request' = [request EXCEPT ![t] = r]
      BY <3>1 DEF AnswersAtOnce, Responds, TimesOut, ClientCloses, EndsUnheard, Finishes, Ended, InFlight
    <3> QED BY <1>0, <1>2, <2>1, <3>2
  <2>5. CASE \E t \in Slot : Fetches(t) \/ RespondsLate(t)
    BY <1>0, <1>2, <2>1, <2>5 DEF Fetches, RespondsLate, Ended
  <2>6. CASE \E t \in Slot, q \in Query, o \in Options : Arrives(t, q, o)
    <3>1. PICK t \in Slot, q \in Query, o \in Options : Arrives(t, q, o)
      BY <2>6
    <3>2. CASE lifecycle = "shutting_down"
      <4>1. request' = [request EXCEPT ![t] = [NoRequest EXCEPT !.pc = "answered", !.status = 503]]
        BY <3>1, <3>2 DEF Arrives
      <4> QED BY <1>0, <1>2, <2>1, <4>1 DEF NoRequest
    <3>3. CASE lifecycle # "shutting_down"
      BY <1>0, <3>1, <3>3 DEF Arrives, LifeCycleFits
    <3> QED BY <3>2, <3>3
  <2>7. request' = request \/ (\E p \in Stopper : DestroysSockets(p))
        \/ (\E t \in Slot : AnswersAtOnce(t) \/ Responds(t) \/ TimesOut(t) \/ ClientCloses(t) \/ EndsUnheard(t))
        \/ (\E t \in Slot : Fetches(t) \/ RespondsLate(t))
        \/ (\E t \in Slot, q \in Query, o \in Options : Arrives(t, q, o))
    <3>1. CASE Start \/ Listens
      BY <3>1 DEF Start, Listens
    <3>2. CASE \E p \in Stopper : Stop(p) \/ GraceExpires(p) \/ DestroysSockets(p) \/ Closed(p)
      BY <3>2 DEF Stop, GraceExpires, Closed
    <3>3. CASE \E q \in Query : CacheForgets(q)
      BY <3>3 DEF CacheForgets
    <3> QED BY <3>1, <3>2, <3>3 DEF ServerNext
  <2> QED BY <2>2, <2>3, <2>4, <2>5, <2>6, <2>7
<1> QED BY <1>1, <1>2


(***************************************************************************)
(* The MCP server.  That an entry can go with another request of its id is *)
(* why a request must have had its id to itself to be sure of its entry.   *)
(***************************************************************************)
RpcPc   == {"free", "waiting", "ready"}
RpcMode == {"standard", "local-only"}
RpcRecord ==
  [pc : RpcPc, id : RpcId, aborted : BOOLEAN, mode : RpcMode, contacted : BOOLEAN,
   result : {"none", "ok"}, alone : BOOLEAN]

McpTypes ==
  /\ localServer \in BOOLEAN
  /\ rpc \in [Caller -> RpcRecord]
  /\ activeRequests \in [RpcId -> Caller \cup {Nobody}]

AloneHasNoRival ==
  \A c, d \in Caller : UnderWayAt(c) /\ UnderWayAt(d) /\ c # d /\ rpc[c].id = rpc[d].id => ~rpc[c].alone

McpInv ==
  /\ McpTypes /\ LocalServerContactsNobody /\ EntriesAreUnderWay /\ AloneHasNoRival
  /\ OwnIdsCanBeCancelled

LEMMA RpcNames ==
  /\ "free" \in RpcPc /\ "waiting" \in RpcPc /\ "ready" \in RpcPc
  /\ "standard" \in RpcMode /\ "local-only" \in RpcMode
  BY DEF RpcPc, RpcMode

(* A record of an RPC request stays one when a field is set. *)
LEMMA RpcFields ==
  ASSUME NEW r \in RpcRecord
  PROVE  /\ \A pc \in RpcPc : [r EXCEPT !.pc = pc] \in RpcRecord
         /\ \A i \in RpcId : [r EXCEPT !.id = i] \in RpcRecord
         /\ \A m \in RpcMode : [r EXCEPT !.mode = m] \in RpcRecord
         /\ \A b \in BOOLEAN : /\ [r EXCEPT !.aborted = b] \in RpcRecord
                               /\ [r EXCEPT !.contacted = b] \in RpcRecord
                               /\ [r EXCEPT !.alone = b] \in RpcRecord
         /\ [r EXCEPT !.result = "ok"] \in RpcRecord
  BY DEF RpcRecord

LEMMA FreshCall == NoCallYet \in RpcRecord /\ NoCallYet.pc = "free" /\ ~NoCallYet.aborted /\ ~NoCallYet.contacted
<1>1. (CHOOSE i \in RpcId : TRUE) \in RpcId
  BY McpAssumption
<1> QED BY <1>1, RpcNames DEF NoCallYet, RpcRecord

LEMMA CallersAreSomebody == Nobody \notin Caller
  BY DEF Nobody, Caller

LEMMA McpInitInvariant == McpInit => McpInv
<1> SUFFICES ASSUME McpInit PROVE McpInv
  OBVIOUS
<1>1. /\ localServer \in BOOLEAN /\ rpc \in [Caller -> RpcRecord]
      /\ \A c \in Caller : rpc[c].pc = "free" /\ ~rpc[c].contacted
      /\ activeRequests \in [RpcId -> Caller \cup {Nobody}]
      /\ \A i \in RpcId : activeRequests[i] = Nobody
  <2>1. rpc = [c \in Caller |-> NoCallYet] /\ activeRequests = [i \in RpcId |-> Nobody] /\ localServer \in BOOLEAN
    BY DEF McpInit
  <2> QED BY <2>1, FreshCall
<1> QED BY <1>1 DEF McpInv, McpTypes, LocalServerContactsNobody, EntriesAreUnderWay, AloneHasNoRival,
                    OwnIdsCanBeCancelled, UnderWayAt

(* What handling a message makes of the requests. *)
LEMMA MessageHandled ==
  ASSUME McpTypes, NEW c \in Caller, NEW id \in RpcId, NEW mode \in RpcMode, HandleMessage(c, id, mode)
  PROVE  /\ rpc' \in [Caller -> RpcRecord]
         /\ rpc'[c].pc # "free" /\ rpc'[c].id = id /\ ~rpc'[c].aborted
         /\ rpc'[c].alone => Rivals(id) = {}
         /\ rpc'[c].contacted => ~localServer /\ rpc'[c].mode = "standard"
         /\ \A d \in Caller : d # c =>
              /\ rpc'[d].pc = rpc[d].pc /\ rpc'[d].id = rpc[d].id /\ rpc'[d].aborted = rpc[d].aborted
              /\ rpc'[d].contacted = rpc[d].contacted /\ rpc'[d].mode = rpc[d].mode
              /\ rpc'[d].alone => rpc[d].alone /\ d \notin Rivals(id)
<1>1. PICK found \in BOOLEAN :
        LET asks == ~found /\ EffectiveMode(mode) = "standard"
        IN  rpc' = [d \in Caller |->
                      IF d = c THEN [NoCallYet EXCEPT !.pc = IF asks THEN "waiting" ELSE "ready",
                                       !.id = id, !.mode = mode, !.contacted = asks, !.alone = Rivals(id) = {}]
                      ELSE [rpc[d] EXCEPT !.alone = @ /\ d \notin Rivals(id)]]
  BY DEF HandleMessage
<1> DEFINE asks == ~found /\ EffectiveMode(mode) = "standard"
           pc == IF asks THEN "waiting" ELSE "ready"
           lone == Rivals(id) = {}
           n == NoCallYet
           f == [n EXCEPT !.pc = pc]
           g == [f EXCEPT !.id = id]
           h == [g EXCEPT !.mode = mode]
           k == [h EXCEPT !.contacted = asks]
           new == [k EXCEPT !.alone = lone]
           still(d) == rpc[d].alone /\ d \notin Rivals(id)
           old(d) == [rpc[d] EXCEPT !.alone = still(d)]
<1>2. rpc' = [d \in Caller |-> IF d = c THEN new ELSE old(d)]
  <2> HIDE DEF asks, pc, lone
  <2> QED BY <1>1 DEF asks, pc, lone
<1>3. pc \in RpcPc /\ pc # "free" /\ asks \in BOOLEAN /\ lone \in BOOLEAN
  BY RpcNames
<1>4. asks => ~localServer /\ mode = "standard"
  BY DEF EffectiveMode
<1>5. n \in RpcRecord /\ ~n.aborted
  BY FreshCall
<1> HIDE DEF n, asks, lone, pc
<1>6. f \in RpcRecord /\ f.pc = pc /\ f.aborted = n.aborted
  BY <1>3, <1>5, RpcFields DEF RpcRecord
<1> HIDE DEF f
<1>7. g \in RpcRecord /\ g.pc = pc /\ g.aborted = n.aborted /\ g.id = id
  BY <1>6, RpcFields DEF RpcRecord
<1> HIDE DEF g
<1>8. h \in RpcRecord /\ h.pc = pc /\ h.aborted = n.aborted /\ h.id = id /\ h.mode = mode
  BY <1>7, RpcFields DEF RpcRecord
<1> HIDE DEF h
<1>9. /\ k \in RpcRecord /\ k.pc = pc /\ k.aborted = n.aborted /\ k.id = id /\ k.mode = mode
      /\ k.contacted = asks
  BY <1>3, <1>8, RpcFields DEF RpcRecord
<1> HIDE DEF k
<1>10. /\ new \in RpcRecord /\ new.pc = pc /\ new.aborted = n.aborted /\ new.id = id /\ new.mode = mode
       /\ new.contacted = asks /\ new.alone = lone
  BY <1>3, <1>9, RpcFields DEF RpcRecord
<1>11. ASSUME NEW d \in Caller
       PROVE  /\ old(d) \in RpcRecord /\ old(d).pc = rpc[d].pc /\ old(d).id = rpc[d].id
              /\ old(d).aborted = rpc[d].aborted /\ old(d).contacted = rpc[d].contacted
              /\ old(d).mode = rpc[d].mode /\ old(d).alone = still(d)
  <2>1. rpc[d] \in RpcRecord
    BY DEF McpTypes
  <2> DEFINE b == still(d)
  <2>2. b \in BOOLEAN
    BY <2>1 DEF RpcRecord
  <2> HIDE DEF b
  <2>3. LET o == [rpc[d] EXCEPT !.alone = b]
        IN  /\ o \in RpcRecord /\ o.pc = rpc[d].pc /\ o.id = rpc[d].id
            /\ o.aborted = rpc[d].aborted /\ o.contacted = rpc[d].contacted
            /\ o.mode = rpc[d].mode /\ o.alone = b
    BY <2>1, <2>2, RpcFields DEF RpcRecord
  <2> QED BY <2>3 DEF b
<1> HIDE DEF new, old
<1>12. /\ rpc' \in [Caller -> RpcRecord] /\ rpc'[c] = new
       /\ \A d \in Caller : d # c => rpc'[d] = old(d)
  BY <1>2, <1>10, <1>11
<1> QED BY <1>3, <1>4, <1>5, <1>10, <1>11, <1>12 DEF lone

LEMMA McpStep == McpInv /\ [McpNext]_mcpVars => McpInv'
<1> SUFFICES ASSUME McpInv, [McpNext]_mcpVars PROVE McpInv'
  OBVIOUS
<1> USE DEF McpInv
<1>0. /\ localServer \in BOOLEAN /\ rpc \in [Caller -> RpcRecord]
      /\ activeRequests \in [RpcId -> Caller \cup {Nobody}]
  BY DEF McpTypes
<1>1. ASSUME NEW c \in Caller, NEW id \in RpcId, NEW mode \in RpcMode, HandleMessage(c, id, mode)
      PROVE  McpInv'
  <2>1. /\ rpc[c].pc = "free" /\ activeRequests' = [activeRequests EXCEPT ![id] = c]
        /\ localServer' = localServer
    BY <1>1 DEF HandleMessage
  <2>2. McpTypes
    OBVIOUS
  <2>3. /\ rpc' \in [Caller -> RpcRecord]
        /\ rpc'[c].pc # "free" /\ rpc'[c].id = id /\ ~rpc'[c].aborted
        /\ rpc'[c].alone => Rivals(id) = {}
        /\ rpc'[c].contacted => ~localServer /\ rpc'[c].mode = "standard"
        /\ \A d \in Caller : d # c =>
             /\ rpc'[d].pc = rpc[d].pc /\ rpc'[d].id = rpc[d].id /\ rpc'[d].aborted = rpc[d].aborted
             /\ rpc'[d].contacted = rpc[d].contacted /\ rpc'[d].mode = rpc[d].mode
             /\ rpc'[d].alone => rpc[d].alone /\ d \notin Rivals(id)
    BY <1>1, <2>2, MessageHandled
  <2>4. McpTypes'
    BY <1>0, <2>1, <2>3 DEF McpTypes
  <2>5. LocalServerContactsNobody'
    BY <2>1, <2>3 DEF LocalServerContactsNobody
  <2>6. EntriesAreUnderWay'
    BY <1>0, <2>1, <2>3 DEF EntriesAreUnderWay, UnderWayAt
  <2>7. AloneHasNoRival'
    BY <2>1, <2>3 DEF AloneHasNoRival, UnderWayAt, Rivals
  <2>8. OwnIdsCanBeCancelled'
    BY <1>0, <2>1, <2>3 DEF OwnIdsCanBeCancelled, UnderWayAt, Rivals
  <2> QED BY <2>4, <2>5, <2>6, <2>7, <2>8
<1>2. ASSUME NEW c \in Caller, ProvidersAnswer(c) PROVE McpInv'
  <2>1. /\ rpc[c].pc = "waiting" /\ rpc' = [rpc EXCEPT ![c] = [rpc[c] EXCEPT !.pc = "ready"]]
        /\ activeRequests' = activeRequests /\ localServer' = localServer
    BY <1>2 DEF ProvidersAnswer
  <2> DEFINE r == [rpc[c] EXCEPT !.pc = "ready"]
  <2>2. /\ r \in RpcRecord /\ r.pc = "ready" /\ r.id = rpc[c].id /\ r.aborted = rpc[c].aborted
        /\ r.contacted = rpc[c].contacted /\ r.mode = rpc[c].mode /\ r.alone = rpc[c].alone
    BY <1>0, RpcFields, RpcNames DEF RpcRecord
  <2> HIDE DEF r
  <2>3. /\ rpc' \in [Caller -> RpcRecord]
        /\ \A d \in Caller : /\ rpc'[d].id = rpc[d].id /\ rpc'[d].aborted = rpc[d].aborted
                             /\ rpc'[d].contacted = rpc[d].contacted /\ rpc'[d].mode = rpc[d].mode
                             /\ rpc'[d].alone = rpc[d].alone
                             /\ rpc'[d].pc = "free" <=> rpc[d].pc = "free"
    <3>1. rpc' \in [Caller -> RpcRecord] /\ rpc'[c] = r /\ \A d \in Caller : d # c => rpc'[d] = rpc[d]
      BY <1>0, <2>1, <2>2 DEF r
    <3> QED BY <2>1, <2>2, <3>1
  <2> QED BY <1>0, <2>1, <2>3 DEF McpTypes, LocalServerContactsNobody, EntriesAreUnderWay,
                                  AloneHasNoRival, OwnIdsCanBeCancelled, UnderWayAt
<1>3. ASSUME NEW c \in Caller, Replies(c) PROVE McpInv'
  <2> DEFINE a == [rpc[c] EXCEPT !.pc = "free"]
             r == [a EXCEPT !.result = "ok"]
  <2>1. /\ rpc[c].pc = "ready" /\ rpc' = [rpc EXCEPT ![c] = r]
        /\ activeRequests' = [activeRequests EXCEPT ![rpc[c].id] = Nobody] /\ localServer' = localServer
    BY <1>0, <1>3 DEF Replies, Forgets
  <2>2. a \in RpcRecord /\ a.pc = "free" /\ a.contacted = rpc[c].contacted /\ a.mode = rpc[c].mode
    BY <1>0, RpcFields, RpcNames DEF RpcRecord
  <2> HIDE DEF a
  <2>3. r \in RpcRecord /\ r.pc = "free" /\ r.contacted = rpc[c].contacted /\ r.mode = rpc[c].mode
    BY <2>2, RpcFields DEF RpcRecord
  <2> HIDE DEF r
  <2>4. rpc' \in [Caller -> RpcRecord] /\ rpc'[c] = r /\ \A d \in Caller : d # c => rpc'[d] = rpc[d]
    BY <1>0, <2>1, <2>3
  <2>5. rpc[c].id \in RpcId
    BY <1>0 DEF RpcRecord
  <2>6. McpTypes' /\ LocalServerContactsNobody'
    BY <1>0, <2>1, <2>3, <2>4 DEF McpTypes, LocalServerContactsNobody
  <2>7. EntriesAreUnderWay'
    BY <1>0, <2>1, <2>4, <2>5 DEF EntriesAreUnderWay, UnderWayAt
  <2>8. AloneHasNoRival'
    BY <2>3, <2>4 DEF AloneHasNoRival, UnderWayAt
  <2>9. OwnIdsCanBeCancelled'
    BY <1>0, <2>1, <2>3, <2>4, <2>5 DEF OwnIdsCanBeCancelled, AloneHasNoRival, UnderWayAt
  <2> QED BY <2>6, <2>7, <2>8, <2>9
<1>4. ASSUME NEW id \in RpcId, Cancel(id) PROVE McpInv'
  <2> DEFINE c == activeRequests[id]
             r == [rpc[c] EXCEPT !.aborted = TRUE]
  <2>1. /\ c # Nobody /\ rpc' = [rpc EXCEPT ![c] = r]
        /\ activeRequests' = [activeRequests EXCEPT ![id] = Nobody] /\ localServer' = localServer
    BY <1>4 DEF Cancel, Forgets
  <2>2. c \in Caller /\ rpc[c].id = id
    BY <1>0, <2>1 DEF EntriesAreUnderWay
  <2>7. activeRequests[id] = c
    OBVIOUS
  <2> HIDE DEF c
  <2>3. /\ r \in RpcRecord /\ r.pc = rpc[c].pc /\ r.id = rpc[c].id /\ r.aborted
        /\ r.contacted = rpc[c].contacted /\ r.mode = rpc[c].mode /\ r.alone = rpc[c].alone
    <3>1. rpc[c] \in RpcRecord
      BY <1>0, <2>2
    <3>2. \A b \in BOOLEAN : [rpc[c] EXCEPT !.aborted = b] \in RpcRecord
      BY <3>1, RpcFields
    <3>3. r \in RpcRecord
      BY <3>2
    <3>4. /\ r.pc = rpc[c].pc /\ r.id = rpc[c].id /\ r.aborted = TRUE
          /\ r.contacted = rpc[c].contacted /\ r.mode = rpc[c].mode /\ r.alone = rpc[c].alone
      BY <3>1 DEF RpcRecord
    <3> QED BY <3>3, <3>4
  <2> HIDE DEF r
  <2>4. rpc' \in [Caller -> RpcRecord] /\ rpc'[c] = r /\ \A d \in Caller : d # c => rpc'[d] = rpc[d]
    BY <1>0, <2>1, <2>2, <2>3
  <2>5. /\ rpc'[c].aborted
        /\ \A d \in Caller : /\ rpc'[d].id = rpc[d].id /\ rpc'[d].pc = rpc[d].pc
                             /\ rpc'[d].contacted = rpc[d].contacted /\ rpc'[d].mode = rpc[d].mode
                             /\ rpc'[d].alone = rpc[d].alone
                             /\ rpc[d].aborted => rpc'[d].aborted
    BY <2>2, <2>3, <2>4
  <2>6. McpTypes' /\ LocalServerContactsNobody' /\ AloneHasNoRival'
    BY <1>0, <2>1, <2>4, <2>5 DEF McpTypes, LocalServerContactsNobody, AloneHasNoRival, UnderWayAt
  <2>8. EntriesAreUnderWay'
    <3> SUFFICES ASSUME NEW i \in RpcId, activeRequests'[i] # Nobody
                 PROVE  rpc'[activeRequests'[i]].pc # "free" /\ rpc'[activeRequests'[i]].id = i
      BY DEF EntriesAreUnderWay, UnderWayAt
    <3>1. activeRequests'[i] = activeRequests[i] /\ activeRequests[i] \in Caller
      BY <1>0, <2>1
    <3>2. UnderWayAt(activeRequests[i]) /\ rpc[activeRequests[i]].id = i
      BY <3>1, CallersAreSomebody DEF EntriesAreUnderWay
    <3> QED BY <2>5, <3>1, <3>2 DEF UnderWayAt
  <2>9. OwnIdsCanBeCancelled'
    <3> SUFFICES ASSUME NEW d \in Caller, UnderWayAt(d)', ~rpc'[d].aborted, rpc'[d].alone
                 PROVE  activeRequests'[rpc'[d].id] = d
      BY DEF OwnIdsCanBeCancelled
    <3>1. activeRequests[rpc[d].id] = d /\ rpc[d].id \in RpcId
      BY <1>0, <2>5 DEF OwnIdsCanBeCancelled, UnderWayAt, RpcRecord
    <3>2. d # c
      BY <2>5
    <3>3. rpc[d].id # id
      BY <2>7, <3>1, <3>2
    <3> QED BY <1>0, <2>1, <2>5, <3>1, <3>3
  <2> QED BY <2>6, <2>8, <2>9
<1>5. ASSUME UNCHANGED mcpVars PROVE McpInv'
  <2>1. rpc' = rpc /\ activeRequests' = activeRequests /\ localServer' = localServer
    BY <1>5 DEF mcpVars
  <2> QED BY <2>1 DEF McpTypes, LocalServerContactsNobody, EntriesAreUnderWay, AloneHasNoRival,
                      OwnIdsCanBeCancelled, UnderWayAt
<1> QED BY <1>1, <1>2, <1>3, <1>4, <1>5 DEF McpNext, RpcMode

LEMMA McpProperties ==
  McpInv => McpTypeOK /\ LocalServerContactsNobody /\ EntriesAreUnderWay /\ OwnIdsCanBeCancelled
  BY DEF McpInv, McpTypes, McpTypeOK, RpcRecord, RpcPc, RpcMode


(***************************************************************************)
(* The providers.  While a circuit cools down, every attempt it is sent is *)
(* a retry of a call that was under way when it opened: the attempts sent  *)
(* and those the calls may still send stay within the retries of the other *)
(* searches.                                                               *)
(***************************************************************************)
CircuitState == {"CLOSED", "OPEN", "HALF_OPEN"}
CircuitRecord == [state : CircuitState, failures : 0..Threshold + 1, wait : 0..Cooldown]
CallPc == {"idle", "queued", "calling", "backoff", "done"}
CallRecord == [pc : CallPc, attempts : 0..MaxRetries, outcome : Outcome]

\* the attempts a call may still be sent
RetriesOf(c) ==
  IF c.pc = "calling" THEN MaxRetries - c.attempts
  ELSE IF c.pc = "backoff" THEN MaxRetries - c.attempts + 1 ELSE 0

RetriesLeft(p) == {x \in Search \X (1..MaxRetries) : x[2] <= RetriesOf(call[x[1]][p])}
Room == (Cardinality(Search) - 1) * MaxRetries

ProviderTypes ==
  /\ circuit \in [Provider -> CircuitRecord]
  /\ limited \in [Provider -> 0..RetryAfter] /\ cached \in [Provider -> 0..CacheLife]
  /\ call \in [Search -> [Provider -> CallRecord]]
  /\ aborted \in [Search -> BOOLEAN] /\ outage \in BOOLEAN
  /\ strays \in [Provider -> Nat]

BackedOffOnce == \A s \in Search, p \in Provider : call[s][p].pc = "backoff" => call[s][p].attempts > 0

StormFits(p) == strays[p] > 0 \/ Cooling(p) => strays[p] + Cardinality(RetriesLeft(p)) <= Room

ProviderInv == ProviderTypes /\ BackedOffOnce /\ \A p \in Provider : StormFits(p)

LEMMA ProviderNumbers ==
  /\ IsFiniteSet(Search) /\ Search # {} /\ MaxRetries \in Nat
  /\ Threshold \in Nat /\ Cooldown \in Nat /\ Cooldown > 0 /\ RetryAfter \in Nat /\ CacheLife \in Nat
  BY ProviderAssumption

LEMMA ProviderNames ==
  /\ "CLOSED" \in CircuitState /\ "OPEN" \in CircuitState /\ "HALF_OPEN" \in CircuitState
  /\ "idle" \in CallPc /\ "queued" \in CallPc /\ "calling" \in CallPc /\ "backoff" \in CallPc /\ "done" \in CallPc
  /\ "none" \in Outcome /\ "success" \in Outcome /\ "cached" \in Outcome /\ "failed" \in Outcome
  /\ "limited" \in Outcome /\ "refused" \in Outcome /\ "cancelled" \in Outcome
  BY DEF CircuitState, CallPc, Outcome

LEMMA CallFields ==
  ASSUME NEW c \in CallRecord
  PROVE  /\ \A v \in CallPc : /\ [c EXCEPT !.pc = v] \in CallRecord
                              /\ [c EXCEPT !.pc = v].pc = v
                              /\ [c EXCEPT !.pc = v].attempts = c.attempts
         /\ \A v \in 0..MaxRetries : /\ [c EXCEPT !.attempts = v] \in CallRecord
                                     /\ [c EXCEPT !.attempts = v].pc = c.pc
                                     /\ [c EXCEPT !.attempts = v].attempts = v
         /\ \A v \in Outcome : /\ [c EXCEPT !.outcome = v] \in CallRecord
                               /\ [c EXCEPT !.outcome = v].pc = c.pc
                               /\ [c EXCEPT !.outcome = v].attempts = c.attempts
  BY DEF CallRecord

(* The retries of all searches but one. *)
LEMMA RoomForOthers ==
  /\ Room \in Nat
  /\ \A s \in Search : /\ IsFiniteSet((Search \ {s}) \X (1..MaxRetries))
                       /\ Cardinality((Search \ {s}) \X (1..MaxRetries)) = Room
<1>1. PICK s0 : s0 \in Search
  BY ProviderNumbers
<1>2. ASSUME NEW s \in Search
      PROVE  /\ IsFiniteSet((Search \ {s}) \X (1..MaxRetries))
             /\ Cardinality((Search \ {s}) \X (1..MaxRetries)) = Room
  <2>1. IsFiniteSet(Search \ {s}) /\ Cardinality(Search \ {s}) = Cardinality(Search) - 1
    BY ProviderNumbers, FS_RemoveElement
  <2>2. IsFiniteSet(1..MaxRetries) /\ Cardinality(1..MaxRetries) = MaxRetries
    <3>1. 1 \in Int /\ MaxRetries \in Int /\ MaxRetries \in Nat
      BY ProviderNumbers
    <3> QED BY <3>1, FS_Interval
  <2>3. /\ IsFiniteSet((Search \ {s}) \X (1..MaxRetries))
        /\ Cardinality((Search \ {s}) \X (1..MaxRetries)) = Cardinality(Search \ {s}) * Cardinality(1..MaxRetries)
    BY <2>1, <2>2, FS_Product
  <2> QED BY <2>1, <2>2, <2>3 DEF Room
<1>3. Room \in Nat
  BY <1>1, <1>2, FS_CardinalityType
<1> QED BY <1>2, <1>3

LEMMA RetriesLeftFinite ==
  ASSUME NEW p \in Provider
  PROVE  /\ IsFiniteSet(RetriesLeft(p)) /\ Cardinality(RetriesLeft(p)) \in Nat
         /\ IsFiniteSet(RetriesLeft(p)') /\ Cardinality(RetriesLeft(p)') \in Nat
<1>1. IsFiniteSet(Search \X (1..MaxRetries))
  <2>1. IsFiniteSet(1..MaxRetries)
    <3>1. 1 \in Int /\ MaxRetries \in Int
      BY ProviderNumbers
    <3> QED BY <3>1, FS_Interval
  <2> QED BY <2>1, ProviderNumbers, FS_Product
<1>2. RetriesLeft(p) \subseteq Search \X (1..MaxRetries) /\ RetriesLeft(p)' \subseteq Search \X (1..MaxRetries)
  BY DEF RetriesLeft
<1>3. IsFiniteSet(RetriesLeft(p)) /\ IsFiniteSet(RetriesLeft(p)')
  BY <1>1, <1>2, FS_Subset
<1> QED BY <1>3, FS_CardinalityType

(* A call changes, and no attempt is added to those it may still be sent. *)
LEMMA CallMoves ==
  ASSUME ProviderTypes, NEW s \in Search, NEW p \in Provider, NEW c \in CallRecord,
         call' = [call EXCEPT ![s][p] = c]
  PROVE  /\ call' \in [Search -> [Provider -> CallRecord]]
         /\ call'[s][p] = c
         /\ \A t \in Search, q \in Provider : t # s \/ q # p => call'[t][q] = call[t][q]
         /\ \A q \in Provider : q # p => RetriesLeft(q)' = RetriesLeft(q)
         /\ RetriesOf(c) <= RetriesOf(call[s][p]) => Cardinality(RetriesLeft(p)') <= Cardinality(RetriesLeft(p))
         /\ (RetriesOf(c) = RetriesOf(call[s][p]) - 1 /\ RetriesOf(call[s][p]) \in 1..MaxRetries) =>
              Cardinality(RetriesLeft(p)') + 1 <= Cardinality(RetriesLeft(p))
         /\ RetriesOf(c) = 0 => Cardinality(RetriesLeft(p)') <= Room
<1>1. call \in [Search -> [Provider -> CallRecord]] /\ MaxRetries \in Nat
  BY ProviderNumbers DEF ProviderTypes
<1> DEFINE f == [call[s] EXCEPT ![p] = c]
<1>2. f \in [Provider -> CallRecord] /\ f[p] = c /\ \A q \in Provider : q # p => f[q] = call[s][q]
  BY <1>1
<1>3. call' = [call EXCEPT ![s] = f]
  OBVIOUS
<1> HIDE DEF f
<1>4. /\ call' \in [Search -> [Provider -> CallRecord]] /\ call'[s] = f
      /\ \A t \in Search : t # s => call'[t] = call[t]
  BY <1>1, <1>2, <1>3
<1>5. /\ call'[s][p] = c
      /\ \A t \in Search, q \in Provider : t # s \/ q # p => call'[t][q] = call[t][q]
  BY <1>2, <1>4
<1>6. ASSUME NEW q \in Provider, q # p PROVE RetriesLeft(q)' = RetriesLeft(q)
  BY <1>5, <1>6 DEF RetriesLeft
<1>7. \A x \in RetriesLeft(p)' : /\ x \in Search \X (1..MaxRetries) /\ x[1] \in Search /\ x[2] \in 1..MaxRetries
                                 /\ x[2] <= RetriesOf(call'[x[1]][p])
                                 /\ x[1] # s => x \in RetriesLeft(p)
  BY <1>5 DEF RetriesLeft
<1>8. \A t \in Search : RetriesOf(call[t][p]) \in Int /\ RetriesOf(call'[t][p]) \in Int
  <2>1. \A d \in CallRecord : RetriesOf(d) \in Int
    BY <1>1 DEF RetriesOf, CallRecord
  <2> QED BY <1>1, <1>4, <2>1
<1>9. ASSUME RetriesOf(c) <= RetriesOf(call[s][p]) PROVE Cardinality(RetriesLeft(p)') <= Cardinality(RetriesLeft(p))
  <2>1. ASSUME NEW x \in RetriesLeft(p)' PROVE x \in RetriesLeft(p)
    <3>1. CASE x[1] = s
      <4>1. x[2] <= RetriesOf(call[x[1]][p])
        BY <1>5, <1>7, <1>8, <1>9, <3>1
      <4> QED BY <1>7, <4>1 DEF RetriesLeft
    <3> QED BY <1>7, <3>1
  <2> QED BY <2>1, RetriesLeftFinite, FS_Subset
<1>10. ASSUME RetriesOf(c) = RetriesOf(call[s][p]) - 1, RetriesOf(call[s][p]) \in 1..MaxRetries
       PROVE  Cardinality(RetriesLeft(p)') + 1 <= Cardinality(RetriesLeft(p))
  <2> DEFINE n == RetriesOf(call[s][p])
             last == <<s, n>>
  <2>1. last \in RetriesLeft(p)
    BY <1>10 DEF RetriesLeft
  <2>2. ASSUME NEW x \in RetriesLeft(p)' PROVE x \in RetriesLeft(p) \ {last}
    <3>1. CASE x[1] = s
      <4>1. x[2] <= n - 1 /\ n \in Int /\ x[2] \in Int
        BY <1>5, <1>7, <1>8, <1>10, <3>1
      <4>2. x[2] <= RetriesOf(call[x[1]][p]) /\ x[2] # n
        BY <3>1, <4>1
      <4> QED BY <1>7, <4>2 DEF RetriesLeft
    <3>2. CASE x[1] # s
      BY <1>7, <3>2
    <3> QED BY <3>1, <3>2
  <2>3. IsFiniteSet(RetriesLeft(p) \ {last}) /\ Cardinality(RetriesLeft(p) \ {last}) = Cardinality(RetriesLeft(p)) - 1
    BY <2>1, RetriesLeftFinite, FS_RemoveElement
  <2>4. Cardinality(RetriesLeft(p)') <= Cardinality(RetriesLeft(p) \ {last}) /\ Cardinality(RetriesLeft(p)') \in Nat
    <3>1. RetriesLeft(p)' \subseteq RetriesLeft(p) \ {last}
      BY <2>2
    <3> QED BY <2>3, <3>1, FS_Subset, FS_CardinalityType
  <2> QED BY <2>3, <2>4, RetriesLeftFinite
<1>11. ASSUME RetriesOf(c) = 0 PROVE Cardinality(RetriesLeft(p)') <= Room
  <2>1. ASSUME NEW x \in RetriesLeft(p)' PROVE x \in (Search \ {s}) \X (1..MaxRetries)
    <3>1. x[1] # s
      BY <1>5, <1>7, <1>11
    <3> QED BY <1>7, <3>1
  <2>2. RetriesLeft(p)' \subseteq (Search \ {s}) \X (1..MaxRetries)
    BY <2>1
  <2> DEFINE others == (Search \ {s}) \X (1..MaxRetries)
  <2>3. IsFiniteSet(others) /\ Cardinality(others) = Room
    BY RoomForOthers
  <2>4. Cardinality(RetriesLeft(p)') <= Cardinality(others)
    <3> HIDE DEF others
    <3>1. RetriesLeft(p)' \subseteq others
      BY <2>2 DEF others
    <3> QED BY <2>3, <3>1, FS_Subset
  <2> QED BY <2>3, <2>4
<1> QED BY <1>4, <1>5, <1>6, <1>9, <1>10, <1>11

(* Circuits and calls change, and no attempt is sent: what may still be sent is not *)
(* more, and no circuit opens.                                                     *)
LEMMA NothingSent ==
  ASSUME ProviderInv, ProviderTypes', BackedOffOnce', UNCHANGED strays,
         \A p \in Provider : /\ Cooling(p)' => Cooling(p)
                             /\ Cardinality(RetriesLeft(p)') <= Cardinality(RetriesLeft(p))
  PROVE  ProviderInv'
<1> SUFFICES ASSUME NEW p \in Provider, strays[p] > 0 \/ Cooling(p)
             PROVE  strays[p] + Cardinality(RetriesLeft(p)') <= Room
  BY DEF ProviderInv, StormFits, Room
<1>1. strays[p] + Cardinality(RetriesLeft(p)) <= Room
  BY DEF ProviderInv, StormFits
<1>2. strays[p] \in Nat /\ Room \in Nat /\ Cardinality(RetriesLeft(p)) \in Nat
  BY RetriesLeftFinite, RoomForOthers DEF ProviderInv, ProviderTypes
<1>3. Cardinality(RetriesLeft(p)') \in Nat
  BY RetriesLeftFinite
<1> QED BY <1>1, <1>2, <1>3

(* One call of one provider changes. *)
LEMMA OneCallMoves ==
  ASSUME ProviderInv, NEW s \in Search, NEW p \in Provider, NEW c \in CallRecord,
         call' = [call EXCEPT ![s][p] = c], c.pc = "backoff" => c.attempts > 0,
         circuit' \in [Provider -> CircuitRecord], cached' \in [Provider -> 0..CacheLife],
         limited' \in [Provider -> 0..RetryAfter], UNCHANGED <<aborted, outage>>,
         strays' \in [Provider -> Nat],
         \A q \in Provider : q # p => strays'[q] = strays[q] /\ circuit'[q] = circuit[q],
         StormFits(p)'
  PROVE  ProviderInv'
<1>1. /\ call' \in [Search -> [Provider -> CallRecord]]
      /\ call'[s][p] = c
      /\ \A t \in Search, q \in Provider : t # s \/ q # p => call'[t][q] = call[t][q]
      /\ \A q \in Provider : q # p => RetriesLeft(q)' = RetriesLeft(q)
  <2>1. ProviderTypes
    BY DEF ProviderInv
  <2>2. call' \in [Search -> [Provider -> CallRecord]]
    BY <2>1, CallMoves
  <2>3. call'[s][p] = c
    BY <2>1, CallMoves
  <2>4. \A t \in Search, q \in Provider : t # s \/ q # p => call'[t][q] = call[t][q]
    BY <2>1, CallMoves
  <2>5. \A q \in Provider : q # p => RetriesLeft(q)' = RetriesLeft(q)
    BY <2>1, CallMoves
  <2> QED BY <2>2, <2>3, <2>4, <2>5
<1>2. ProviderTypes'
  BY <1>1 DEF ProviderInv, ProviderTypes
<1>3. BackedOffOnce'
  BY <1>1 DEF ProviderInv, BackedOffOnce
<1>4. ASSUME NEW q \in Provider PROVE StormFits(q)'
  <2>1. CASE q # p
    <3>1. RetriesLeft(q)' = RetriesLeft(q) /\ strays'[q] = strays[q] /\ Cooling(q)' = Cooling(q)
      BY <1>1, <2>1 DEF Cooling
    <3>2. StormFits(q)
      BY DEF ProviderInv
    <3> QED BY <3>1, <3>2 DEF StormFits, Room
  <2> QED BY <2>1
<1> QED BY <1>2, <1>3, <1>4 DEF ProviderInv

(* A call that is not sent: it may be sent less afterwards. *)
LEMMA CallNotSent ==
  ASSUME ProviderInv, NEW s \in Search, NEW p \in Provider, NEW c \in CallRecord,
         call' = [call EXCEPT ![s][p] = c], RetriesOf(c) <= RetriesOf(call[s][p]),
         strays'[p] = strays[p], Cooling(p)' => Cooling(p)
  PROVE  StormFits(p)'
<1>1. Cardinality(RetriesLeft(p)') <= Cardinality(RetriesLeft(p))
  BY CallMoves DEF ProviderInv
<1>2. call' \in [Search -> [Provider -> CallRecord]]
  BY CallMoves DEF ProviderInv
<1>3. Cardinality(RetriesLeft(p)') \in Nat
  BY RetriesLeftFinite
<1>4. strays[p] \in Nat /\ Room \in Nat /\ Cardinality(RetriesLeft(p)) \in Nat /\ StormFits(p)
  BY RetriesLeftFinite, RoomForOthers DEF ProviderInv, ProviderTypes
<1>5. SUFFICES ASSUME strays[p] > 0 \/ Cooling(p)
               PROVE  strays[p] + Cardinality(RetriesLeft(p)') <= Room
  BY DEF StormFits, Room
<1>6. strays[p] + Cardinality(RetriesLeft(p)) <= Room
  BY <1>4, <1>5 DEF StormFits
<1> QED BY <1>1, <1>3, <1>4, <1>6

(* A circuit is asked: at most it is half-opened. *)
LEMMA CircuitAsked ==
  ASSUME ProviderTypes, NEW p \in Provider
  PROVE  /\ Asked(p) \in [Provider -> CircuitRecord]
         /\ \A q \in Provider : q # p => Asked(p)[q] = circuit[q]
         /\ Asked(p)[p].state = "OPEN" /\ Asked(p)[p].wait > 0 => Cooling(p)
<1>1. circuit \in [Provider -> CircuitRecord]
  BY DEF ProviderTypes
<1> DEFINE r == [circuit[p] EXCEPT !.state = "HALF_OPEN"]
<1>2. r \in CircuitRecord /\ r.state = "HALF_OPEN"
  BY <1>1, ProviderNames DEF CircuitRecord
<1>3. CASE limited[p] = 0 /\ circuit[p].state = "OPEN" /\ ~Cooling(p)
  <2>1. Asked(p) = [circuit EXCEPT ![p] = r]
    BY <1>3 DEF Asked
  <2> HIDE DEF r
  <2> QED BY <1>1, <1>2, <2>1
<1>4. CASE ~(limited[p] = 0 /\ circuit[p].state = "OPEN" /\ ~Cooling(p))
  <2>1. Asked(p) = circuit
    BY <1>4 DEF Asked
  <2> QED BY <1>1, <2>1 DEF Cooling
<1> QED BY <1>3, <1>4

(* A call ends: it is sent nothing more. *)
LEMMA CallEnded ==
  ASSUME ProviderInv, NEW s \in Search, NEW p \in Provider, NEW o \in Outcome, Ends(s, p, o)
  PROVE  \E c \in CallRecord : /\ call' = [call EXCEPT ![s][p] = c] /\ c.pc = "done"
                               /\ RetriesOf(c) = 0 /\ RetriesOf(c) <= RetriesOf(call[s][p])
<1>1. call \in [Search -> [Provider -> CallRecord]] /\ call[s][p] \in CallRecord
  BY DEF ProviderInv, ProviderTypes
<1> DEFINE a == [call[s][p] EXCEPT !.pc = "done"]
           c == [a EXCEPT !.outcome = o]
<1>2. call' = [call EXCEPT ![s][p] = c]
  BY DEF Ends
<1>3. a \in CallRecord /\ a.pc = "done"
  BY <1>1, CallFields, ProviderNames
<1> HIDE DEF a
<1>4. c \in CallRecord /\ c.pc = "done"
  BY <1>3, CallFields
<1> HIDE DEF c
<1>5. RetriesOf(c) = 0 /\ 0 <= RetriesOf(call[s][p])
  BY <1>1, <1>4, ProviderNumbers DEF RetriesOf, CallRecord
<1> QED BY <1>2, <1>4, <1>5

LEMMA ProviderInitInvariant == ProviderInit => ProviderInv
<1> SUFFICES ASSUME ProviderInit PROVE ProviderInv
  OBVIOUS
<1>1. ClosedCircuit \in CircuitRecord /\ ClosedCircuit.state = "CLOSED"
  BY ProviderNames, ProviderNumbers DEF ClosedCircuit, CircuitRecord
<1>2. NoCall \in CallRecord /\ NoCall.pc = "idle"
  BY ProviderNames, ProviderNumbers DEF NoCall, CallRecord
<1>3. circuit = [p \in Provider |-> ClosedCircuit] /\ strays = [p \in Provider |-> 0]
      /\ call = [s \in Search |-> [p \in Provider |-> NoCall]]
  BY DEF ProviderInit
<1>4. call \in [Search -> [Provider -> CallRecord]] /\ \A s \in Search, p \in Provider : call[s][p] = NoCall
  BY <1>2, <1>3
<1>5. circuit \in [Provider -> CircuitRecord]
  BY <1>1, <1>3
<1>6. limited \in [Provider -> 0..RetryAfter]
  BY ProviderNumbers DEF ProviderInit
<1>7. cached \in [Provider -> 0..CacheLife]
  BY ProviderNumbers DEF ProviderInit
<1>8. aborted \in [Search -> BOOLEAN] /\ outage \in BOOLEAN
  BY DEF ProviderInit
<1>9. strays \in [Provider -> Nat]
  BY <1>3
<1>10. ProviderTypes
  BY <1>4, <1>5, <1>6, <1>7, <1>8, <1>9 DEF ProviderTypes
<1>11. BackedOffOnce
  BY <1>2, <1>4 DEF BackedOffOnce
<1>12. \A p \in Provider : StormFits(p)
  BY <1>1, <1>3 DEF StormFits, Cooling
<1> QED BY <1>10, <1>11, <1>12 DEF ProviderInv

(* A call is sent an attempt: beside an open circuit it is one of the retries left. *)
LEMMA AttemptSent ==
  ASSUME ProviderInv, NEW s \in Search, NEW p \in Provider, NEW c \in CallRecord,
         call' = [call EXCEPT ![s][p] = c], Sends(p), Cooling(p)' => Cooling(p),
         Cooling(p) => /\ RetriesOf(c) = RetriesOf(call[s][p]) - 1
                       /\ RetriesOf(call[s][p]) \in 1..MaxRetries
  PROVE  /\ StormFits(p)' /\ strays' \in [Provider -> Nat]
         /\ \A q \in Provider : q # p => strays'[q] = strays[q]
<1>1. strays \in [Provider -> Nat]
  BY DEF ProviderInv, ProviderTypes
<1>2. CASE Cooling(p)
  <2>1. strays' = [strays EXCEPT ![p] = strays[p] + 1]
    BY <1>2 DEF Sends
  <2>2. Cardinality(RetriesLeft(p)') + 1 <= Cardinality(RetriesLeft(p))
    BY <1>2, CallMoves, ZenonT(40) DEF ProviderInv
  <2>3. call' \in [Search -> [Provider -> CallRecord]]
    BY CallMoves DEF ProviderInv
  <2>4. Cardinality(RetriesLeft(p)') \in Nat
    BY RetriesLeftFinite
  <2>5. strays[p] + Cardinality(RetriesLeft(p)) <= Room
    BY <1>2 DEF ProviderInv, StormFits
  <2>6. strays'[p] = strays[p] + 1 /\ strays[p] \in Nat
    BY <1>1, <2>1
  <2>7. strays'[p] + Cardinality(RetriesLeft(p)') <= Room
    BY <2>2, <2>4, <2>5, <2>6, RetriesLeftFinite, RoomForOthers
  <2> QED BY <1>1, <2>1, <2>7 DEF StormFits, Room
<1>3. CASE ~Cooling(p)
  <2>1. strays' = [strays EXCEPT ![p] = 0]
    BY <1>3 DEF Sends
  <2> QED BY <1>1, <1>3, <2>1 DEF StormFits
<1> QED BY <1>2, <1>3

(* A circuit fails: it counts the failure, or it opens. *)
LEMMA FailureRecorded ==
  ASSUME ProviderTypes, NEW p \in Provider, RecordFailure(p)
  PROVE  /\ circuit' \in [Provider -> CircuitRecord]
         /\ \A q \in Provider : q # p => circuit'[q] = circuit[q]
<1>1. circuit \in [Provider -> CircuitRecord] /\ Threshold \in Nat /\ Cooldown \in Nat
  BY ProviderNumbers DEF ProviderTypes
<1> DEFINE n == IF circuit[p].failures > Threshold THEN circuit[p].failures ELSE circuit[p].failures + 1
           open == [state |-> "OPEN", failures |-> n, wait |-> Cooldown]
           more == [circuit[p] EXCEPT !.failures = n]
           r == IF Opens(p) THEN open ELSE more
<1>2. circuit' = [circuit EXCEPT ![p] = r]
  BY DEF RecordFailure
<1>3. n \in 0..Threshold + 1
  BY <1>1 DEF CircuitRecord
<1> HIDE DEF n
<1>4. open \in CircuitRecord
  BY <1>1, <1>3, ProviderNames DEF CircuitRecord
<1>5. more \in CircuitRecord
  BY <1>1, <1>3 DEF CircuitRecord
<1> HIDE DEF open, more
<1>6. r \in CircuitRecord
  BY <1>4, <1>5
<1> HIDE DEF r
<1> QED BY <1>1, <1>2, <1>6

LEMMA ProviderTickStep == ProviderInv /\ ProviderTick => ProviderInv'
<1> SUFFICES ASSUME ProviderInv, ProviderTick PROVE ProviderInv'
  OBVIOUS
<1> DEFINE after(p) == [circuit[p] EXCEPT !.wait = Minus(circuit[p].wait)]
<1>1. /\ circuit' = [p \in Provider |-> after(p)]
      /\ limited' = [p \in Provider |-> Minus(limited[p])] /\ cached' = [p \in Provider |-> Minus(cached[p])]
      /\ UNCHANGED <<call, aborted, outage, strays>>
  BY DEF ProviderTick
<1>2. \A m \in Nat : \A n \in 0..m : Minus(n) \in 0..m /\ (Minus(n) > 0 => n > 0)
  BY DEF Minus
<1>3. /\ circuit \in [Provider -> CircuitRecord] /\ limited \in [Provider -> 0..RetryAfter]
      /\ cached \in [Provider -> 0..CacheLife]
  BY DEF ProviderInv, ProviderTypes
<1>4. \A p \in Provider : circuit[p] \in CircuitRecord /\ circuit[p].wait \in 0..Cooldown
  BY <1>3 DEF CircuitRecord
<1>5. \A p \in Provider : Minus(circuit[p].wait) \in 0..Cooldown /\ (Minus(circuit[p].wait) > 0 => circuit[p].wait > 0)
  BY <1>2, <1>4, ProviderNumbers
<1>6. ASSUME NEW p \in Provider
      PROVE  after(p) \in CircuitRecord /\ after(p).state = circuit[p].state /\ after(p).wait = Minus(circuit[p].wait)
  <2> DEFINE w == Minus(circuit[p].wait)
  <2>1. w \in 0..Cooldown
    BY <1>5
  <2> HIDE DEF w
  <2>2. [circuit[p] EXCEPT !.wait = w] \in CircuitRecord /\ [circuit[p] EXCEPT !.wait = w].state = circuit[p].state
        /\ [circuit[p] EXCEPT !.wait = w].wait = w
    BY <1>4, <2>1 DEF CircuitRecord
  <2> QED BY <2>2 DEF w
<1> HIDE DEF after
<1>7. circuit' \in [Provider -> CircuitRecord] /\ \A p \in Provider : circuit'[p] = after(p)
  BY <1>1, <1>6
<1>8. limited' \in [Provider -> 0..RetryAfter] /\ cached' \in [Provider -> 0..CacheLife]
  <2>1. \A p \in Provider : Minus(limited[p]) \in 0..RetryAfter /\ Minus(cached[p]) \in 0..CacheLife
    BY <1>2, <1>3, ProviderNumbers
  <2> QED BY <1>1, <2>1
<1>9. ProviderTypes' /\ BackedOffOnce'
  BY <1>1, <1>7, <1>8 DEF ProviderInv, ProviderTypes, BackedOffOnce
<1>10. \A p \in Provider : /\ Cooling(p)' => Cooling(p)
                           /\ Cardinality(RetriesLeft(p)') <= Cardinality(RetriesLeft(p))
  <2> TAKE p \in Provider
  <2>1. RetriesLeft(p)' = RetriesLeft(p)
    BY <1>1 DEF RetriesLeft
  <2>2. Cooling(p)' => Cooling(p)
    BY <1>5, <1>6, <1>7 DEF Cooling
  <2> QED BY <2>1, <2>2, RetriesLeftFinite
<1> QED BY <1>1, <1>9, <1>10, NothingSent

LEMMA ReportsStatusStep == ProviderInv /\ ReportsStatus => ProviderInv'
<1> SUFFICES ASSUME ProviderInv, ReportsStatus PROVE ProviderInv'
  OBVIOUS
<1>1. circuit' = [p \in Provider |-> Asked(p)[p]] /\ UNCHANGED <<limited, cached, call, aborted, outage, strays>>
  BY DEF ReportsStatus
<1>2. \A p \in Provider : /\ Asked(p)[p] \in CircuitRecord
                          /\ Asked(p)[p].state = "OPEN" /\ Asked(p)[p].wait > 0 => Cooling(p)
  BY CircuitAsked DEF ProviderInv
<1>3. circuit' \in [Provider -> CircuitRecord] /\ \A p \in Provider : circuit'[p] = Asked(p)[p]
  BY <1>1, <1>2
<1>4. ProviderTypes' /\ BackedOffOnce'
  BY <1>1, <1>3 DEF ProviderInv, ProviderTypes, BackedOffOnce
<1>5. \A p \in Provider : /\ Cooling(p)' => Cooling(p)
                          /\ Cardinality(RetriesLeft(p)') <= Cardinality(RetriesLeft(p))
  <2> TAKE p \in Provider
  <2>1. RetriesLeft(p)' = RetriesLeft(p)
    BY <1>1 DEF RetriesLeft
  <2>2. Cooling(p)' => Cooling(p)
    BY <1>2, <1>3 DEF Cooling
  <2> QED BY <2>1, <2>2, RetriesLeftFinite
<1> QED BY <1>1, <1>4, <1>5, NothingSent

LEMMA StartSearchStep ==
  ASSUME ProviderInv, NEW s \in Search, StartSearch(s)
  PROVE  ProviderInv'
<1> DEFINE first == [NoCall EXCEPT !.pc = "queued"]
           calls == [p \in Provider |-> first]
<1>1. call' = [call EXCEPT ![s] = calls] /\ aborted' = [aborted EXCEPT ![s] = FALSE]
      /\ UNCHANGED <<circuit, limited, cached, outage, strays>>
  BY DEF StartSearch
<1>2. first \in CallRecord /\ first.pc = "queued"
  <2>1. NoCall \in CallRecord
    BY ProviderNames, ProviderNumbers DEF NoCall, CallRecord
  <2> QED BY <2>1, CallFields, ProviderNames
<1> HIDE DEF first
<1>3. calls \in [Provider -> CallRecord] /\ \A p \in Provider : calls[p] = first
  BY <1>2
<1> HIDE DEF calls
<1>4. call \in [Search -> [Provider -> CallRecord]] /\ aborted \in [Search -> BOOLEAN]
  BY DEF ProviderInv, ProviderTypes
<1>5. /\ call' \in [Search -> [Provider -> CallRecord]] /\ call'[s] = calls
      /\ \A t \in Search : t # s => call'[t] = call[t]
  BY <1>1, <1>3, <1>4
<1>6. aborted' \in [Search -> BOOLEAN]
  BY <1>1, <1>4
<1>7. ProviderTypes'
  BY <1>1, <1>5, <1>6 DEF ProviderInv, ProviderTypes
<1>8. BackedOffOnce'
  BY <1>2, <1>3, <1>5 DEF ProviderInv, BackedOffOnce
<1>9. \A p \in Provider : /\ Cooling(p)' => Cooling(p)
                          /\ Cardinality(RetriesLeft(p)') <= Cardinality(RetriesLeft(p))
  <2> TAKE p \in Provider
  <2>1. RetriesOf(first) = 0
    BY <1>2 DEF RetriesOf
  <2>2. ASSUME NEW x \in RetriesLeft(p)' PROVE x \in RetriesLeft(p)
    <3>1. x \in Search \X (1..MaxRetries) /\ x[1] \in Search /\ x[2] \in 1..MaxRetries
          /\ x[2] <= RetriesOf(call'[x[1]][p])
      BY DEF RetriesLeft
    <3>2. x[1] # s
      BY <1>3, <1>5, <2>1, <3>1, ProviderNumbers
    <3> QED BY <1>5, <3>1, <3>2 DEF RetriesLeft
  <2>3. Cooling(p)' => Cooling(p)
    BY <1>1 DEF Cooling
  <2>4. RetriesLeft(p)' \subseteq RetriesLeft(p)
    BY <2>2
  <2> QED BY <2>3, <2>4, RetriesLeftFinite, FS_Subset
<1> QED BY <1>1, <1>7, <1>8, <1>9, NothingSent

(* A call that ends without an attempt being recorded. *)
LEMMA CallEndsQuietly ==
  ASSUME ProviderInv, NEW s \in Search, NEW p \in Provider, NEW o \in Outcome, Ends(s, p, o),
         circuit' \in [Provider -> CircuitRecord], cached' \in [Provider -> 0..CacheLife],
         limited' \in [Provider -> 0..RetryAfter], UNCHANGED <<aborted, outage, strays>>,
         \A q \in Provider : q # p => circuit'[q] = circuit[q],
         Cooling(p)' => Cooling(p)
  PROVE  ProviderInv'
<1>1. PICK c \in CallRecord : /\ call' = [call EXCEPT ![s][p] = c] /\ c.pc = "done"
                              /\ RetriesOf(c) = 0 /\ RetriesOf(c) <= RetriesOf(call[s][p])
  BY CallEnded
<1>2. StormFits(p)'
  BY <1>1, CallNotSent
<1>3. strays' \in [Provider -> Nat] /\ \A q \in Provider : strays'[q] = strays[q]
  BY DEF ProviderInv, ProviderTypes
<1>4. c.pc = "backoff" => c.attempts > 0
  BY <1>1
<1> QED BY <1>1, <1>2, <1>3, <1>4, OneCallMoves

LEMMA StartCallStep ==
  ASSUME ProviderInv, NEW s \in Search, NEW p \in Provider, StartCall(s, p)
  PROVE  ProviderInv'
<1>1. /\ call[s][p].pc = "queued" /\ UNCHANGED <<limited, cached, aborted, outage>>
  BY DEF StartCall
<1>2. /\ circuit \in [Provider -> CircuitRecord] /\ limited \in [Provider -> 0..RetryAfter]
      /\ cached \in [Provider -> 0..CacheLife] /\ call[s][p] \in CallRecord
  BY DEF ProviderInv, ProviderTypes
<1>3. CASE cached[p] > 0
  <2>1. Ends(s, p, "cached") /\ UNCHANGED <<circuit, strays>>
    BY <1>3 DEF StartCall
  <2>2. Cooling(p)' = Cooling(p)
    BY <2>1 DEF Cooling
  <2> QED BY <1>1, <1>2, <2>1, <2>2, CallEndsQuietly, ProviderNames
<1>4. CASE ~(cached[p] > 0)
  <2>1. circuit' = Asked(p)
    BY <1>4 DEF StartCall
  <2>2. /\ circuit' \in [Provider -> CircuitRecord] /\ \A q \in Provider : q # p => circuit'[q] = circuit[q]
        /\ Cooling(p)' => Cooling(p)
    BY <2>1, CircuitAsked DEF ProviderInv, Cooling
  <2>3. ASSUME NEW o \in Outcome, Ends(s, p, o), UNCHANGED strays PROVE ProviderInv'
    BY <1>1, <1>2, <2>2, <2>3, CallEndsQuietly
  <2>4. CASE CanExecute(p) /\ ~aborted[s]
    <3> DEFINE c == [call[s][p] EXCEPT !.pc = "calling"]
    <3>1. call' = [call EXCEPT ![s][p] = c] /\ Sends(p)
      BY <1>4, <2>4 DEF StartCall
    <3>2. c \in CallRecord /\ c.pc = "calling"
      BY <1>2, CallFields, ProviderNames
    <3> HIDE DEF c
    <3>3. ~Cooling(p)
      BY <2>4 DEF CanExecute
    <3>4. /\ StormFits(p)' /\ strays' \in [Provider -> Nat]
          /\ \A q \in Provider : q # p => strays'[q] = strays[q]
      BY <2>2, <3>1, <3>2, <3>3, AttemptSent
    <3>5. c.pc = "backoff" => c.attempts > 0
      BY <3>2
    <3> QED BY <1>1, <1>2, <2>2, <3>1, <3>2, <3>4, <3>5, OneCallMoves
  <2>5. CASE ~CanExecute(p)
    <3>1. Ends(s, p, "refused") /\ UNCHANGED strays
      BY <1>4, <2>5 DEF StartCall
    <3> QED BY <2>3, <3>1, ProviderNames
  <2>6. CASE CanExecute(p) /\ aborted[s]
    <3>1. Ends(s, p, "cancelled") /\ UNCHANGED strays
      BY <1>4, <2>6 DEF StartCall
    <3> QED BY <2>3, <3>1, ProviderNames
  <2> QED BY <2>4, <2>5, <2>6
<1> QED BY <1>3, <1>4

LEMMA RetriesStep ==
  ASSUME ProviderInv, NEW s \in Search, NEW p \in Provider, Retries(s, p)
  PROVE  ProviderInv'
<1>1. call[s][p].pc = "backoff" /\ UNCHANGED <<circuit, limited, cached, aborted, outage>>
  BY DEF Retries
<1>2. /\ circuit \in [Provider -> CircuitRecord] /\ limited \in [Provider -> 0..RetryAfter]
      /\ cached \in [Provider -> 0..CacheLife] /\ call[s][p] \in CallRecord
  BY DEF ProviderInv, ProviderTypes
<1>3. Cooling(p)' = Cooling(p)
  BY <1>1 DEF Cooling
<1>4. CASE aborted[s]
  <2>1. Ends(s, p, "cancelled") /\ UNCHANGED strays
    BY <1>4 DEF Retries
  <2> QED BY <1>1, <1>2, <1>3, <2>1, CallEndsQuietly, ProviderNames
<1>5. CASE ~aborted[s]
  <2> DEFINE c == [call[s][p] EXCEPT !.pc = "calling"]
  <2>1. call' = [call EXCEPT ![s][p] = c] /\ Sends(p)
    BY <1>5 DEF Retries
  <2>2. c \in CallRecord /\ c.pc = "calling" /\ c.attempts = call[s][p].attempts
    BY <1>2, CallFields, ProviderNames
  <2> HIDE DEF c
  <2>3. /\ RetriesOf(c) = RetriesOf(call[s][p]) - 1 /\ RetriesOf(call[s][p]) \in 1..MaxRetries
    <3>1. call[s][p].attempts \in 0..MaxRetries /\ call[s][p].attempts > 0 /\ MaxRetries \in Nat
      BY <1>1, <1>2, ProviderNumbers DEF ProviderInv, BackedOffOnce, CallRecord
    <3> QED BY <1>1, <2>2, <3>1 DEF RetriesOf
  <2>4. /\ StormFits(p)' /\ strays' \in [Provider -> Nat]
        /\ \A q \in Provider : q # p => strays'[q] = strays[q]
    BY <1>3, <2>1, <2>2, <2>3, AttemptSent
  <2>5. c.pc = "backoff" => c.attempts > 0
    BY <2>2
  <2> QED BY <1>1, <1>2, <2>1, <2>2, <2>4, <2>5, OneCallMoves
<1> QED BY <1>4, <1>5

LEMMA FailsStep ==
  ASSUME ProviderInv, NEW s \in Search, NEW p \in Provider, Fails(s, p)
  PROVE  ProviderInv'
<1>1. RecordFailure(p) /\ Ends(s, p, "failed") /\ UNCHANGED <<limited, cached, aborted, outage, strays>>
  BY DEF Fails
<1>2. circuit' \in [Provider -> CircuitRecord] /\ \A q \in Provider : q # p => circuit'[q] = circuit[q]
  BY <1>1, FailureRecorded DEF ProviderInv
<1>3. PICK c \in CallRecord : /\ call' = [call EXCEPT ![s][p] = c] /\ c.pc = "done"
                              /\ RetriesOf(c) = 0 /\ RetriesOf(c) <= RetriesOf(call[s][p])
  BY <1>1, CallEnded, ProviderNames
<1>4. /\ limited' \in [Provider -> 0..RetryAfter] /\ cached' \in [Provider -> 0..CacheLife]
      /\ strays \in [Provider -> Nat] /\ strays' \in [Provider -> Nat] /\ \A q \in Provider : strays'[q] = strays[q]
  BY <1>1 DEF ProviderInv, ProviderTypes
<1>5. Cardinality(RetriesLeft(p)') <= Cardinality(RetriesLeft(p)) /\ Cardinality(RetriesLeft(p)') <= Room
  BY <1>3, CallMoves DEF ProviderInv
<1>6. strays[p] + Cardinality(RetriesLeft(p)') <= Room
  <2>1. strays[p] \in Nat /\ Cardinality(RetriesLeft(p)') \in Nat /\ Cardinality(RetriesLeft(p)) \in Nat /\ Room \in Nat
    BY <1>4, RetriesLeftFinite, RoomForOthers
  <2>2. CASE strays[p] > 0
    <3>1. strays[p] + Cardinality(RetriesLeft(p)) <= Room
      BY <2>2 DEF ProviderInv, StormFits
    <3> QED BY <1>5, <2>1, <3>1
  <2>3. CASE ~(strays[p] > 0)
    BY <1>5, <2>1, <2>3
  <2> QED BY <2>2, <2>3
<1>7. StormFits(p)'
  BY <1>4, <1>6 DEF StormFits, Room
<1>8. c.pc = "backoff" => c.attempts > 0
  BY <1>3
<1> QED BY <1>1, <1>2, <1>3, <1>4, <1>7, <1>8, OneCallMoves

LEMMA FailsTransientlyStep ==
  ASSUME ProviderInv, NEW s \in Search, NEW p \in Provider, FailsTransiently(s, p)
  PROVE  ProviderInv'
<1>1. /\ call[s][p].pc = "calling" /\ call[s][p].attempts < MaxRetries
      /\ UNCHANGED <<circuit, limited, cached, aborted, outage, strays>>
  BY DEF FailsTransiently
<1>2. /\ circuit' \in [Provider -> CircuitRecord] /\ limited' \in [Provider -> 0..RetryAfter]
      /\ cached' \in [Provider -> 0..CacheLife] /\ call[s][p] \in CallRecord
      /\ strays' \in [Provider -> Nat]
  BY <1>1 DEF ProviderInv, ProviderTypes
<1> DEFINE n == call[s][p].attempts + 1
           a == [call[s][p] EXCEPT !.pc = "backoff"]
           c == [a EXCEPT !.attempts = n]
<1>3. call' = [call EXCEPT ![s][p] = c]
  <2>1. call[s][p] \in CallRecord /\ call \in [Search -> [Provider -> CallRecord]]
    BY DEF ProviderInv, ProviderTypes
  <2>2. call' = [call EXCEPT ![s][p].pc = "backoff", ![s][p].attempts = @ + 1]
    BY DEF FailsTransiently
  <2> QED BY <2>1, <2>2
<1>4. n \in 0..MaxRetries /\ n > 0 /\ call[s][p].attempts \in Nat /\ MaxRetries \in Nat
  BY <1>1, <1>2, ProviderNumbers DEF CallRecord
<1>5. a \in CallRecord /\ a.pc = "backoff"
  BY <1>2, CallFields, ProviderNames
<1> HIDE DEF a
<1>6. c \in CallRecord /\ c.pc = "backoff" /\ c.attempts = call[s][p].attempts + 1 /\ c.attempts > 0
  BY <1>4, <1>5, CallFields
<1> HIDE DEF c, n
<1>7. RetriesOf(c) <= RetriesOf(call[s][p])
  BY <1>1, <1>4, <1>6 DEF RetriesOf
<1>8. Cooling(p)' => Cooling(p)
  BY <1>1 DEF Cooling
<1>9. StormFits(p)'
  BY <1>1, <1>3, <1>6, <1>7, <1>8, CallNotSent
<1> QED BY <1>1, <1>2, <1>3, <1>6, <1>9, OneCallMoves

LEMMA AttemptEndsStep ==
  ASSUME ProviderInv, NEW s \in Search, NEW p \in Provider, AttemptEnds(s, p)
  PROVE  ProviderInv'
<1>1. /\ circuit \in [Provider -> CircuitRecord] /\ limited \in [Provider -> 0..RetryAfter]
      /\ cached \in [Provider -> 0..CacheLife]
  BY DEF ProviderInv, ProviderTypes
<1>2. CASE Succeeds(s, p)
  <2>1. /\ circuit' = [circuit EXCEPT ![p] = ClosedCircuit] /\ cached' = [cached EXCEPT ![p] = CacheLife]
        /\ Ends(s, p, "success") /\ UNCHANGED <<limited, aborted, outage, strays>>
    BY <1>2 DEF Succeeds, RecordSuccess
  <2>2. ClosedCircuit \in CircuitRecord /\ ClosedCircuit.state = "CLOSED"
    BY ProviderNames, ProviderNumbers DEF ClosedCircuit, CircuitRecord
  <2>3. /\ circuit' \in [Provider -> CircuitRecord] /\ ~Cooling(p)'
        /\ \A q \in Provider : q # p => circuit'[q] = circuit[q]
    BY <1>1, <2>1, <2>2 DEF Cooling
  <2>4. cached' \in [Provider -> 0..CacheLife]
    BY <1>1, <2>1, ProviderNumbers
  <2> QED BY <1>1, <2>1, <2>3, <2>4, CallEndsQuietly, ProviderNames
<1>3. CASE FailsTransiently(s, p)
  BY <1>3, FailsTransientlyStep
<1>4. CASE Fails(s, p)
  BY <1>4, FailsStep
<1>5. CASE Limited(s, p)
  <2>1. /\ limited' = [limited EXCEPT ![p] = RetryAfter]
        /\ Ends(s, p, "limited") /\ UNCHANGED <<circuit, cached, aborted, outage, strays>>
    BY <1>5 DEF Limited
  <2>2. limited' \in [Provider -> 0..RetryAfter]
    BY <1>1, <2>1, ProviderNumbers
  <2>3. Cooling(p)' = Cooling(p)
    BY <2>1 DEF Cooling
  <2> QED BY <1>1, <2>1, <2>2, <2>3, CallEndsQuietly, ProviderNames
<1>6. CASE Cancelled(s, p)
  <2>1. Ends(s, p, "cancelled") /\ UNCHANGED <<circuit, limited, cached, aborted, outage, strays>>
    BY <1>6 DEF Cancelled
  <2>2. Cooling(p)' = Cooling(p)
    BY <2>1 DEF Cooling
  <2> QED BY <1>1, <2>1, <2>2, CallEndsQuietly, ProviderNames
<1> QED BY <1>2, <1>3, <1>4, <1>5, <1>6 DEF AttemptEnds

LEMMA ProviderStep == ProviderInv /\ [ProviderNext]_providerVars => ProviderInv'
<1> SUFFICES ASSUME ProviderInv, [ProviderNext]_providerVars PROVE ProviderInv'
  OBVIOUS
<1>1. ASSUME UNCHANGED <<circuit, limited, cached, call, strays>>,
             aborted' \in [Search -> BOOLEAN], outage' \in BOOLEAN
      PROVE  ProviderInv'
  <2>1. ProviderTypes' /\ BackedOffOnce'
    BY <1>1 DEF ProviderInv, ProviderTypes, BackedOffOnce
  <2>2. \A p \in Provider : StormFits(p)'
    BY <1>1 DEF ProviderInv, StormFits, Cooling, RetriesLeft, Room
  <2> QED BY <2>1, <2>2 DEF ProviderInv
<1>2. aborted \in [Search -> BOOLEAN] /\ outage \in BOOLEAN
  BY DEF ProviderInv, ProviderTypes
<1>3. CASE OutageChanges
  BY <1>1, <1>2, <1>3 DEF OutageChanges
<1>4. ASSUME NEW s \in Search, Aborts(s) PROVE ProviderInv'
  <2>1. aborted' \in [Search -> BOOLEAN]
    BY <1>2, <1>4 DEF Aborts
  <2> QED BY <1>1, <1>2, <1>4, <2>1 DEF Aborts
<1>5. CASE UNCHANGED providerVars
  BY <1>1, <1>2, <1>5 DEF providerVars
<1> QED BY <1>3, <1>4, <1>5, ProviderTickStep, ReportsStatusStep, StartSearchStep, StartCallStep,
           RetriesStep, AttemptEndsStep DEF ProviderNext

LEMMA ProviderProperties == ProviderInv => ProviderTypeOK /\ RetryStormBounded
<1> SUFFICES ASSUME ProviderInv PROVE ProviderTypeOK /\ RetryStormBounded
  OBVIOUS
<1>1. ProviderTypeOK
  BY DEF ProviderInv, ProviderTypes, ProviderTypeOK, CircuitRecord, CircuitState, CallRecord, CallPc
<1>2. ASSUME NEW p \in Provider PROVE strays[p] <= Room
  <2>1. strays[p] \in Nat /\ Cardinality(RetriesLeft(p)) \in Nat /\ Room \in Nat /\ StormFits(p)
    BY RetriesLeftFinite, RoomForOthers DEF ProviderInv, ProviderTypes
  <2> QED BY <2>1 DEF StormFits
<1> QED BY <1>1, <1>2 DEF RetryStormBounded, Room

(***************************************************************************)
(* The search page.  Only the newest request is never aborted, so that it  *)
(* is the newest request that takes the loading panel away; and the        *)
(* countdown and the seconds since the last 429 add up to the wait.        *)
(***************************************************************************)
WebPc == UnderWay \cup {"none", "done"}
WebRecord == [pc : WebPc, local : BOOLEAN, aborted : BOOLEAN]

WebTypes ==
  /\ online \in BOOLEAN /\ mended \in BOOLEAN
  /\ newest \in 0..MaxRequests /\ controller \in 0..newest
  /\ current \in WebQuery \cup {NoQuery}
  /\ webRequest \in [RequestId -> WebRecord]
  /\ view \in [panel : Panel, results : Nat, by : Nat] /\ view.results <= newest /\ view.by <= newest
  /\ localOnly \in [set : BOOLEAN, checkbox : BOOLEAN]

CountdownRuns ==
  /\ countdown \in [left : 0..WebRetryAfter, timers : 0..1, since : 0..WebRetryAfter]
  /\ countdown.left + countdown.since = WebRetryAfter
  /\ countdown.timers = 0 <=> countdown.left = 0

NewestIsCurrent ==
  /\ \A i \in RequestId : i > newest => webRequest[i] = NoWebRequest
  /\ newest > 0 => ~webRequest[newest].aborted
  /\ \A i \in RequestId : webRequest[i].pc # "none" => current # NoQuery
  /\ view.results > 0 => webRequest[view.results].pc # "none"
  /\ newest > 0 /\ Searching(newest) /\ ~mended => webRequest[newest].local = localOnly.set

PageInv == WebTypes /\ NewestIsCurrent /\ NewestCanBeAborted /\ ResultsOfTheMode

WebInv == PageInv /\ CountdownRuns

LEMMA WebNames ==
  /\ "fetch" \in WebPc /\ "body" \in WebPc /\ "errorBody" \in WebPc /\ "none" \in WebPc /\ "done" \in WebPc
  /\ "fetch" \in UnderWay /\ "body" \in UnderWay /\ "errorBody" \in UnderWay
  /\ "none" \notin UnderWay /\ "done" \notin UnderWay
  /\ "none" \in Panel /\ "loading" \in Panel /\ "offline" \in Panel /\ "failure" \in Panel
  /\ "rate" \in Panel /\ "error" \in Panel
  /\ NoWebRequest \in WebRecord /\ NoWebRequest.pc = "none" /\ ~NoWebRequest.aborted
  BY DEF WebPc, UnderWay, Panel, NoWebRequest, WebRecord

LEMMA WebInitInvariant == WebInit => WebInv
<1> SUFFICES ASSUME WebInit PROVE WebInv
  OBVIOUS
<1>1. /\ online \in BOOLEAN /\ mended \in BOOLEAN /\ newest = 0 /\ controller = 0 /\ current = NoQuery
      /\ webRequest = [i \in RequestId |-> NoWebRequest]
      /\ view = [panel |-> "none", results |-> 0, by |-> 0]
      /\ localOnly \in [set : BOOLEAN, checkbox : BOOLEAN]
  <2>1. mended = FALSE /\ mended \in BOOLEAN /\ online = TRUE /\ online \in BOOLEAN
    BY DEF WebInit
  <2>2. localOnly \in [set : BOOLEAN, checkbox : BOOLEAN]
    BY DEF WebInit
  <2> QED BY <2>1, <2>2 DEF WebInit
<1>2. webRequest \in [RequestId -> WebRecord] /\ \A i \in RequestId : webRequest[i] = NoWebRequest
  BY <1>1, WebNames
<1>3. view \in [panel : Panel, results : Nat, by : Nat] /\ view.results = 0 /\ view.by = 0 /\ view.panel = "none"
  BY <1>1, WebNames
<1>4. MaxRequests \in Nat
  BY WebAssumption
<1>5. WebTypes
  BY <1>1, <1>2, <1>3, <1>4 DEF WebTypes
<1>6. NewestIsCurrent /\ NewestCanBeAborted /\ ResultsOfTheMode
  BY <1>1, <1>2, <1>3, WebNames DEF NewestIsCurrent, NewestCanBeAborted, ResultsOfTheMode, Searching, RequestId
<1>7. CountdownRuns
  BY WebAssumption DEF WebInit, CountdownRuns
<1> QED BY <1>5, <1>6, <1>7 DEF WebInv, PageInv

(* Aborting the last search changes nothing else of it. *)
LEMMA AbortedRequests ==
  ASSUME PageInv
  PROVE  /\ Aborted \in [RequestId -> WebRecord]
         /\ \A i \in RequestId : /\ Aborted[i].pc = webRequest[i].pc /\ Aborted[i].local = webRequest[i].local
                                 /\ i > newest => Aborted[i] = webRequest[i]
<1>1. webRequest \in [RequestId -> WebRecord] /\ newest \in 0..MaxRequests /\ controller \in 0..newest
      /\ MaxRequests \in Nat
  BY WebAssumption DEF PageInv, WebTypes
<1>2. CASE controller = 0
  BY <1>1, <1>2 DEF Aborted
<1>3. CASE controller # 0
  <2> DEFINE r == [webRequest[controller] EXCEPT !.aborted = TRUE]
  <2>1. controller \in RequestId /\ controller <= newest
    BY <1>1, <1>3 DEF RequestId
  <2>2. Aborted = [webRequest EXCEPT ![controller] = r]
    BY <1>3 DEF Aborted
  <2>3. r \in WebRecord /\ r.pc = webRequest[controller].pc /\ r.local = webRequest[controller].local
    BY <1>1, <2>1 DEF WebRecord
  <2> HIDE DEF r
  <2>4. ~(controller > newest)
    BY <1>1, <2>1
  <2> QED BY <1>1, <2>1, <2>2, <2>3, <2>4
<1> QED BY <1>2, <1>3

(* A search is dispatched, in the mode the preference has then. *)
LEMMA SearchDispatched ==
  ASSUME PageInv, NEW q \in WebQuery, NEW local \in BOOLEAN, Dispatches(q, local),
         online' \in BOOLEAN, localOnly' \in [set : BOOLEAN, checkbox : BOOLEAN], localOnly'.set = local
  PROVE  PageInv'
<1> DEFINE n == newest + 1
           new == [pc |-> "fetch", local |-> local, aborted |-> FALSE]
<1>1. /\ newest < MaxRequests /\ newest' = n /\ webRequest' = [Aborted EXCEPT ![n] = new]
      /\ controller' = n /\ view' = [view EXCEPT !.panel = "loading", !.by = 0]
      /\ current' = q /\ mended' = FALSE
  BY DEF Dispatches
<1>2. newest \in Nat /\ MaxRequests \in Nat /\ n \in RequestId /\ n \in 1..MaxRequests
  BY <1>1, WebAssumption DEF PageInv, WebTypes, RequestId
<1>3. new \in WebRecord /\ new.pc = "fetch" /\ new.local = local /\ ~new.aborted
  BY WebNames DEF WebRecord
<1> HIDE DEF new
<1>4. /\ webRequest' \in [RequestId -> WebRecord] /\ webRequest'[n] = new
      /\ \A i \in RequestId : i # n => webRequest'[i] = Aborted[i]
  BY <1>1, <1>2, <1>3, AbortedRequests
<1>5. /\ view' \in [panel : Panel, results : Nat, by : Nat] /\ view'.panel = "loading"
      /\ view'.results = view.results /\ view'.by = 0 /\ view.results \in Nat /\ view.results <= newest
  <2> DEFINE a == [view EXCEPT !.panel = "loading"]
  <2>1. view' = [a EXCEPT !.by = 0]
    BY <1>1
  <2>2. view \in [panel : Panel, results : Nat, by : Nat] /\ view.results <= newest
    BY DEF PageInv, WebTypes
  <2>3. a \in [panel : Panel, results : Nat, by : Nat] /\ a.panel = "loading" /\ a.results = view.results
    BY <2>2, WebNames
  <2> HIDE DEF a
  <2> QED BY <2>1, <2>2, <2>3
<1>6. current' # NoQuery /\ current' \in WebQuery \cup {NoQuery}
  BY <1>1, WebAssumption
<1>7. WebTypes'
  <2>1. view'.results <= n /\ view'.by <= n
    BY <1>2, <1>5
  <2>2. n \in 0..MaxRequests /\ n \in 0..n
    BY <1>2
  <2> HIDE DEF n
  <2> QED BY <1>1, <1>4, <1>5, <1>6, <2>1, <2>2 DEF WebTypes
<1>8. NewestIsCurrent'
  <2>1. \A i \in RequestId : i > n => webRequest'[i] = NoWebRequest
    <3> SUFFICES ASSUME NEW i \in RequestId, i > n PROVE webRequest'[i] = NoWebRequest
      OBVIOUS
    <3>1. i # n /\ i > newest
      BY <1>2 DEF RequestId
    <3> QED BY <1>4, <3>1, AbortedRequests DEF PageInv, NewestIsCurrent
  <2>2. view'.results > 0 => webRequest'[view'.results].pc # "none"
    <3> SUFFICES ASSUME view.results > 0 PROVE webRequest'[view.results].pc # "none"
      BY <1>5
    <3>1. view.results \in RequestId /\ view.results # n
      BY <1>2, <1>5 DEF RequestId
    <3> QED BY <1>4, <3>1, AbortedRequests DEF PageInv, NewestIsCurrent
  <2> QED BY <1>1, <1>3, <1>4, <1>6, <2>1, <2>2 DEF NewestIsCurrent
<1>9. NewestCanBeAborted' /\ ResultsOfTheMode'
  BY <1>1, <1>2, <1>3, <1>4, <1>5, WebNames DEF NewestCanBeAborted, ResultsOfTheMode, Searching
<1> QED BY <1>7, <1>8, <1>9 DEF PageInv

(* The panel is shown without results. *)
LEMMA PanelShown ==
  ASSUME NEW panel \in Panel, NEW i \in Nat, Shows(panel, i)
  PROVE  /\ view' \in [panel : Panel, results : Nat, by : Nat]
         /\ view'.panel = panel /\ view'.results = 0 /\ view'.by = i
  BY DEF Shows

(* Without a network, a search only takes the place of the last one. *)
LEMMA SearchOffline ==
  ASSUME PageInv, newest < MaxRequests, newest' = newest + 1, webRequest' = Aborted, controller' = 0,
         Shows("offline", newest'), mended' = FALSE, UNCHANGED current,
         online' \in BOOLEAN, localOnly' \in [set : BOOLEAN, checkbox : BOOLEAN]
  PROVE  PageInv'
<1> DEFINE n == newest + 1
<1>1. newest \in Nat /\ MaxRequests \in Nat /\ n \in RequestId /\ n \in 1..MaxRequests
  BY WebAssumption DEF PageInv, WebTypes, RequestId
<1>2. /\ view' \in [panel : Panel, results : Nat, by : Nat]
      /\ view'.panel = "offline" /\ view'.results = 0 /\ view'.by = n
  <2>1. n \in Nat /\ Shows("offline", n)
    BY <1>1
  <2> QED BY <2>1, PanelShown, WebNames
<1>3. webRequest'[n] = NoWebRequest
  <2>1. n > newest
    BY <1>1
  <2>2. webRequest[n] = NoWebRequest
    BY <1>1, <2>1 DEF PageInv, NewestIsCurrent
  <2> QED BY <1>1, <2>1, <2>2, AbortedRequests
<1>4. webRequest' \in [RequestId -> WebRecord] /\ current \in WebQuery \cup {NoQuery}
  BY AbortedRequests DEF PageInv, WebTypes
<1>5. WebTypes'
  <2>1. n \in 0..MaxRequests /\ 0 \in 0..n /\ 0 <= n /\ n <= n /\ newest' = n
    BY <1>1
  <2> HIDE DEF n
  <2> QED BY <1>2, <1>4, <2>1 DEF WebTypes
<1>6. \A i \in RequestId : i > n => webRequest'[i] = NoWebRequest
  <2> SUFFICES ASSUME NEW i \in RequestId, i > n PROVE webRequest'[i] = NoWebRequest
    OBVIOUS
  <2>1. i > newest
    BY <1>1 DEF RequestId
  <2> QED BY <2>1, AbortedRequests DEF PageInv, NewestIsCurrent
<1>7. \A i \in RequestId : webRequest'[i].pc # "none" => current' # NoQuery
  BY AbortedRequests DEF PageInv, NewestIsCurrent
<1>8. NewestIsCurrent'
  BY <1>2, <1>3, <1>6, <1>7, WebNames DEF NewestIsCurrent, Searching
<1>9. NewestCanBeAborted' /\ ResultsOfTheMode'
  BY <1>2, <1>3, WebNames DEF NewestCanBeAborted, ResultsOfTheMode, Searching
<1> QED BY <1>5, <1>8, <1>9 DEF PageInv

LEMMA SearchPerformed ==
  ASSUME PageInv, NEW q \in WebQuery, NEW local \in BOOLEAN, PerformSearch(q, local), online' = online,
         localOnly' \in [set : BOOLEAN, checkbox : BOOLEAN], localOnly'.set = local
  PROVE  PageInv'
<1>1. online' \in BOOLEAN
  BY DEF PageInv, WebTypes
<1>2. CASE online /\ Dispatches(q, local)
  BY <1>1, <1>2, SearchDispatched
<1>3. CASE /\ ~online /\ newest < MaxRequests
           /\ newest' = newest + 1
           /\ webRequest' = Aborted /\ controller' = 0
           /\ Shows("offline", newest')
           /\ mended' = FALSE /\ UNCHANGED current
  BY <1>1, <1>3, SearchOffline
<1> QED BY <1>2, <1>3 DEF PerformSearch

(* Only the panel changes, and it does not say that the page is loading. *)
LEMMA PanelChanges ==
  ASSUME PageInv, UNCHANGED <<newest, controller, current, webRequest, localOnly, mended>>,
         online' \in BOOLEAN, view' \in [panel : Panel, results : Nat, by : Nat],
         view'.panel # "loading", view'.by = 0,
         view'.results = 0 \/ (view'.results = view.results /\ view.panel # "loading")
  PROVE  PageInv'
<1>1. newest \in Nat /\ view.results <= newest /\ view.results \in Nat
  BY WebAssumption DEF PageInv, WebTypes
<1>2. view'.results <= newest' /\ view'.by <= newest'
  BY <1>1
<1>3. WebTypes'
  BY <1>2 DEF PageInv, WebTypes
<1>4. NewestIsCurrent'
  BY DEF PageInv, NewestIsCurrent, Searching
<1>5. NewestCanBeAborted' /\ ResultsOfTheMode'
  BY DEF PageInv, NewestCanBeAborted, ResultsOfTheMode, Searching
<1> QED BY <1>3, <1>4, <1>5 DEF PageInv

(* A request moves on.  When it ends, either it is not the newest, or what it has to *)
(* show takes the place of the loading panel.                                        *)
LEMMA RequestSettles ==
  ASSUME PageInv, NEW i \in RequestId, Searching(i), NEW pc \in WebPc, pc # "none",
         webRequest' = [webRequest EXCEPT ![i].pc = pc],
         UNCHANGED <<online, newest, current, localOnly, mended>>,
         \/ pc \in UnderWay /\ i = newest /\ UNCHANGED <<controller, view>>
         \/ /\ Finally(i) /\ pc = "done"
            /\ \/ i # newest /\ UNCHANGED view
               \/ /\ view' \in [panel : Panel, results : Nat, by : Nat] /\ view'.panel # "loading"
                  /\ view'.by = i
                  /\ view'.results = 0 \/ (i = newest /\ view'.results = i)
  PROVE  PageInv'
<1>1. /\ newest \in 0..MaxRequests /\ MaxRequests \in Nat /\ controller \in 0..newest
      /\ webRequest \in [RequestId -> WebRecord]
      /\ view \in [panel : Panel, results : Nat, by : Nat] /\ view.results <= newest /\ view.by <= newest
  BY WebAssumption DEF PageInv, WebTypes
<1>2. i <= newest /\ i \in Nat /\ i > 0
  <2>1. ~(i > newest)
    BY WebNames DEF PageInv, NewestIsCurrent, Searching
  <2> QED BY <1>1, <2>1 DEF RequestId
<1> DEFINE r == [webRequest[i] EXCEPT !.pc = pc]
<1>3. r \in WebRecord /\ r.pc = pc /\ r.local = webRequest[i].local /\ r.aborted = webRequest[i].aborted
  BY <1>1 DEF WebRecord
<1>4. webRequest' = [webRequest EXCEPT ![i] = r]
  OBVIOUS
<1> HIDE DEF r
<1>5. /\ webRequest' \in [RequestId -> WebRecord] /\ webRequest'[i] = r
      /\ \A j \in RequestId : j # i => webRequest'[j] = webRequest[j]
  BY <1>1, <1>3, <1>4
<1>6. WebTypes'
  <2>1. controller' \in 0..newest'
    BY <1>1 DEF Finally
  <2>2. /\ view' \in [panel : Panel, results : Nat, by : Nat]
        /\ view'.results <= newest' /\ view'.by <= newest'
    BY <1>1, <1>2
  <2> QED BY <1>5, <2>1, <2>2 DEF PageInv, WebTypes
<1>7. \A j \in RequestId : /\ webRequest'[j].local = webRequest[j].local
                           /\ webRequest'[j].aborted = webRequest[j].aborted
                           /\ webRequest[j].pc # "none" <=> webRequest'[j].pc # "none"
  BY <1>3, <1>5, WebNames DEF Searching
<1>8. view'.results > 0 => view'.results \in RequestId /\ webRequest'[view'.results].pc # "none"
  <2>1. CASE view' = view
    <3> SUFFICES ASSUME view.results > 0 PROVE view.results \in RequestId /\ webRequest'[view.results].pc # "none"
      BY <2>1
    <3>1. view.results \in RequestId
      BY <1>1 DEF RequestId
    <3> QED BY <1>7, <3>1 DEF PageInv, NewestIsCurrent
  <2>2. CASE view' # view
    BY <1>3, <1>5, <2>2
  <2> QED BY <2>1, <2>2
<1>9. newest > 0 => newest \in RequestId
  BY <1>1 DEF RequestId
<1>10. newest > 0 /\ Searching(newest)' => Searching(newest)
  BY <1>5, <1>9 DEF Searching
<1>11. NewestIsCurrent'
  <2>1. \A j \in RequestId : j > newest' => webRequest'[j] = NoWebRequest
    <3> SUFFICES ASSUME NEW j \in RequestId, j > newest PROVE webRequest'[j] = NoWebRequest
      OBVIOUS
    <3>1. j # i
      BY <1>1, <1>2
    <3> QED BY <1>5, <3>1 DEF PageInv, NewestIsCurrent
  <2>2. newest' > 0 => ~webRequest'[newest'].aborted
    BY <1>7, <1>9 DEF PageInv, NewestIsCurrent
  <2>3. \A j \in RequestId : webRequest'[j].pc # "none" => current' # NoQuery
    BY <1>7 DEF PageInv, NewestIsCurrent
  <2>4. newest' > 0 /\ Searching(newest)' /\ ~mended' => webRequest'[newest'].local = localOnly'.set
    BY <1>7, <1>9, <1>10 DEF PageInv, NewestIsCurrent
  <2> QED BY <1>8, <2>1, <2>2, <2>3, <2>4 DEF NewestIsCurrent, Searching
<1>12. NewestCanBeAborted'
  <2>1. ASSUME NEW j \in RequestId, j = newest, Searching(j)' PROVE controller' = j
    <3>1. newest > 0 /\ Searching(newest) /\ controller = newest
      BY <1>1, <1>10, <2>1 DEF RequestId, PageInv, NewestCanBeAborted
    <3>2. ~(pc = "done" /\ i = newest)
      BY <1>3, <1>5, <2>1, WebNames DEF Searching
    <3> QED BY <2>1, <3>1, <3>2 DEF Finally
  <2>2. ASSUME view'.panel = "loading" PROVE newest > 0 /\ Searching(newest)'
    <3>1. view' = view /\ newest > 0 /\ Searching(newest)
      BY <2>2 DEF PageInv, NewestCanBeAborted
    <3>2. i = newest => pc \in UnderWay
      BY <2>2
    <3> QED BY <1>3, <1>5, <1>9, <3>1, <3>2 DEF Searching
  <2> QED BY <2>1, <2>2 DEF NewestCanBeAborted, Searching
<1>13. ResultsOfTheMode'
  <2> SUFFICES ASSUME view'.results > 0, view'.panel # "loading", ~mended'
               PROVE  webRequest'[view'.results].local = localOnly'.set
    BY DEF ResultsOfTheMode
  <2>1. CASE view' = view
    <3>1. view.results \in RequestId
      BY <1>1, <2>1 DEF RequestId
    <3> QED BY <1>7, <2>1, <3>1 DEF PageInv, ResultsOfTheMode
  <2>2. CASE view' # view
    <3>1. view'.results = i /\ i = newest
      BY <2>2
    <3>2. webRequest[i].local = localOnly.set
      BY <1>2, <3>1 DEF PageInv, NewestIsCurrent
    <3> QED BY <1>7, <3>1, <3>2
  <2> QED BY <2>1, <2>2
<1> QED BY <1>6, <1>11, <1>12, <1>13 DEF PageInv

LEMMA SettleStep ==
  ASSUME WebInv, NEW i \in RequestId, Settles(i)
  PROVE  WebInv'
<1>0. /\ PageInv /\ CountdownRuns /\ i \in Nat /\ MaxRequests \in Nat
      /\ webRequest[i].aborted => i # newest
  <2>1. i = newest => ~webRequest[i].aborted
    BY WebAssumption DEF WebInv, PageInv, NewestIsCurrent, RequestId
  <2> QED BY <2>1, WebAssumption DEF WebInv, RequestId
<1>a. Done(i) => webRequest' = [webRequest EXCEPT ![i].pc = "done"]
  BY DEF Done
<1>b. ~Dropped(i) => i = newest
  BY DEF Dropped
<1>c. Dropped(i) => i # newest
  BY <1>0 DEF Dropped
<1>d. \A panel \in {"rate", "error", "offline", "failure"} :
        Shows(panel, i) => /\ view' \in [panel : Panel, results : Nat, by : Nat] /\ view'.panel = panel
                           /\ view'.results = 0 /\ view'.by = i /\ view'.panel # "loading"
  BY <1>0, PanelShown, WebNames
<1>1. CASE WebResponds(i)
  <2>1. Searching(i) /\ UNCHANGED <<online, newest, current, localOnly, mended>>
    BY <1>1, WebNames DEF WebResponds, Searching
  <2>2. CASE Dropped(i) /\ Done(i) /\ Finally(i) /\ UNCHANGED <<view, countdown>>
    <3>1. PageInv'
      BY <1>0, <1>a, <1>c, <2>1, <2>2, RequestSettles, WebNames
    <3> QED BY <1>0, <2>2, <3>1 DEF WebInv, CountdownRuns
  <2>3. CASE /\ ~Dropped(i) /\ online
             /\ \E pc \in {"body", "errorBody"} : webRequest' = [webRequest EXCEPT ![i].pc = pc]
             /\ UNCHANGED <<controller, view, countdown>>
    <3>1. PICK pc \in {"body", "errorBody"} : webRequest' = [webRequest EXCEPT ![i].pc = pc]
      BY <2>3
    <3>2. pc \in WebPc /\ pc \in UnderWay /\ pc # "none"
      BY <3>1, WebNames
    <3>3. PageInv'
      BY <1>0, <1>b, <2>1, <2>3, <3>1, <3>2, RequestSettles
    <3> QED BY <1>0, <2>3, <3>3 DEF WebInv, CountdownRuns
  <2>4. CASE /\ ~Dropped(i) /\ online
             /\ Done(i) /\ Finally(i) /\ Shows("rate", i) /\ StartsCountdown
    <3>1. PageInv'
      BY <1>0, <1>a, <1>d, <2>1, <2>4, RequestSettles, WebNames
    <3>2. CountdownRuns'
      BY <2>4, WebAssumption DEF StartsCountdown, CountdownRuns
    <3> QED BY <3>1, <3>2 DEF WebInv
  <2>5. CASE /\ ~Dropped(i)
             /\ Done(i) /\ Finally(i) /\ Shows(IF online THEN "error" ELSE "offline", i)
             /\ UNCHANGED countdown
    <3>1. PageInv'
      BY <1>0, <1>a, <1>d, <2>1, <2>5, RequestSettles, WebNames
    <3> QED BY <1>0, <2>5, <3>1 DEF WebInv, CountdownRuns
  <2> QED BY <1>1, <2>2, <2>3, <2>4, <2>5 DEF WebResponds
<1>2. CASE ReadsBody(i)
  <2>1. Searching(i) /\ UNCHANGED <<online, newest, current, localOnly, mended, countdown>>
        /\ Done(i) /\ Finally(i)
    BY <1>2, WebNames DEF ReadsBody, Searching
  <2>2. CASE Dropped(i) /\ UNCHANGED view
    <3>1. PageInv'
      BY <1>0, <1>a, <1>c, <2>1, <2>2, RequestSettles, WebNames
    <3> QED BY <1>0, <2>1, <3>1 DEF WebInv, CountdownRuns
  <2>3. CASE ~Dropped(i) /\ view' = [panel |-> "none", results |-> i, by |-> i]
    <3>1. view' \in [panel : Panel, results : Nat, by : Nat] /\ view'.panel # "loading"
          /\ view'.results = i /\ view'.by = i
      BY <1>0, <2>3, WebNames
    <3>2. PageInv'
      BY <1>0, <1>a, <1>b, <2>1, <2>3, <3>1, RequestSettles, WebNames
    <3> QED BY <1>0, <2>1, <3>2 DEF WebInv, CountdownRuns
  <2>4. CASE Shows(IF online THEN "error" ELSE "offline", i)
    <3>1. PageInv'
      BY <1>0, <1>a, <1>d, <2>1, <2>4, RequestSettles, WebNames
    <3> QED BY <1>0, <2>1, <3>1 DEF WebInv, CountdownRuns
  <2> QED BY <1>2, <2>2, <2>3, <2>4 DEF ReadsBody
<1>3. CASE ReadsErrorBody(i)
  <2>1. Searching(i) /\ UNCHANGED <<online, newest, current, localOnly, mended, countdown>>
        /\ Done(i) /\ Finally(i)
    BY <1>3, WebNames DEF ReadsErrorBody, Searching
  <2>2. PICK panel \in {"failure", "error"} : Shows(panel, i)
    BY <1>3 DEF ReadsErrorBody
  <2>3. PageInv'
    BY <1>0, <1>a, <1>d, <2>1, <2>2, RequestSettles, WebNames
  <2> QED BY <1>0, <2>1, <2>3 DEF WebInv, CountdownRuns
<1> QED BY <1>1, <1>2, <1>3 DEF Settles

LEMMA WebStep == WebInv /\ [WebNext]_webVars => WebInv'
<1> SUFFICES ASSUME WebInv, [WebNext]_webVars PROVE WebInv'
  OBVIOUS
<1>0. /\ PageInv /\ CountdownRuns /\ online \in BOOLEAN /\ current \in WebQuery \cup {NoQuery}
      /\ localOnly \in [set : BOOLEAN, checkbox : BOOLEAN] /\ localOnly.set \in BOOLEAN
      /\ view \in [panel : Panel, results : Nat, by : Nat]
      /\ newest \in Nat
  BY WebAssumption DEF WebInv, PageInv, WebTypes
<1>a. countdown' = countdown => CountdownRuns'
  BY <1>0 DEF CountdownRuns
<1>1. ASSUME NEW q \in WebQuery, Submits(q) PROVE WebInv'
  <2>1. PageInv'
    BY <1>0, <1>1, SearchPerformed DEF Submits
  <2> QED BY <1>1, <1>a, <2>1 DEF Submits, WebInv
<1>2. CASE PressesRetry
  <2>1. current \in WebQuery
    BY <1>0, <1>2 DEF PressesRetry
  <2>2. PageInv'
    BY <1>0, <1>2, <2>1, SearchPerformed DEF PressesRetry
  <2> QED BY <1>2, <1>a, <2>2 DEF PressesRetry, WebInv
<1>3. CASE ResetsPreferences
  <2>1. /\ localOnly' \in [set : BOOLEAN, checkbox : BOOLEAN] /\ mended' = TRUE
        /\ UNCHANGED <<online, newest, controller, current, webRequest, view, countdown>>
    BY <1>0, <1>3 DEF ResetsPreferences
  <2>2. PageInv'
    BY <1>0, <2>1 DEF PageInv, WebTypes, NewestIsCurrent, NewestCanBeAborted, ResultsOfTheMode, Searching
  <2> QED BY <1>a, <2>1, <2>2 DEF WebInv
<1>4. CASE Clears
  <2>1. Shows("none", 0) /\ UNCHANGED <<online, newest, controller, current, webRequest, localOnly, countdown, mended>>
    BY <1>4 DEF Clears
  <2>2. PageInv'
    BY <1>0, <2>1, PanelShown, PanelChanges, WebNames
  <2> QED BY <1>a, <2>1, <2>2 DEF WebInv
<1>5. CASE GoesOffline
  <2>1. /\ Shows("offline", 0) /\ online' = FALSE
        /\ UNCHANGED <<newest, controller, current, webRequest, localOnly, countdown, mended>>
    BY <1>5 DEF GoesOffline
  <2>2. PageInv'
    BY <1>0, <2>1, PanelShown, PanelChanges, WebNames
  <2> QED BY <1>a, <2>1, <2>2 DEF WebInv
<1>6. CASE GoesOnline
  <2>1. online' = TRUE /\ UNCHANGED <<localOnly, countdown>>
    BY <1>6 DEF GoesOnline
  <2>2. CASE view.panel # "offline"
    <3>1. UNCHANGED <<newest, controller, current, webRequest, view, mended>>
      BY <1>6, <2>2 DEF GoesOnline
    <3>2. PageInv'
      BY <1>0, <2>1, <3>1 DEF PageInv, WebTypes, NewestIsCurrent, NewestCanBeAborted, ResultsOfTheMode, Searching
    <3> QED BY <1>a, <2>1, <3>2 DEF WebInv
  <2>3. CASE view.panel = "offline" /\ current # NoQuery
    <3>1. Dispatches(current, localOnly.set) /\ current \in WebQuery
      BY <1>0, <1>6, <2>3 DEF GoesOnline
    <3>2. PageInv'
      BY <1>0, <2>1, <3>1, SearchDispatched
    <3> QED BY <1>a, <2>1, <3>2 DEF WebInv
  <2>4. CASE view.panel = "offline" /\ current = NoQuery
    <3>1. view' = [view EXCEPT !.panel = "none", !.by = 0] /\ UNCHANGED <<newest, controller, current, webRequest, mended>>
      BY <1>6, <2>4 DEF GoesOnline
    <3> DEFINE a == [view EXCEPT !.panel = "none"]
    <3>2. view' = [a EXCEPT !.by = 0]
      BY <3>1
    <3>3. a \in [panel : Panel, results : Nat, by : Nat] /\ a.panel = "none" /\ a.results = view.results
      BY <1>0, WebNames
    <3> HIDE DEF a
    <3>4. view' \in [panel : Panel, results : Nat, by : Nat] /\ view'.panel = "none"
          /\ view'.results = view.results /\ view'.by = 0
      BY <3>2, <3>3
    <3>5. PageInv'
      BY <1>0, <2>1, <2>4, <3>1, <3>4, PanelChanges
    <3> QED BY <1>a, <2>1, <3>5 DEF WebInv
  <2> QED BY <2>2, <2>3, <2>4
<1>7. CASE SecondPasses
  <2>1. UNCHANGED <<online, newest, controller, current, webRequest, view, localOnly, mended>>
    BY <1>7 DEF SecondPasses
  <2>2. PageInv'
    BY <1>0, <2>1 DEF PageInv, WebTypes, NewestIsCurrent, NewestCanBeAborted, ResultsOfTheMode, Searching
  <2>3. CountdownRuns'
    <3> DEFINE l == countdown.left
               t == countdown.timers
               s == countdown.since
    <3>1. /\ l \in 0..WebRetryAfter /\ t \in 0..1 /\ s \in 0..WebRetryAfter /\ WebRetryAfter \in Nat
          /\ l + s = WebRetryAfter /\ (t = 0 <=> l = 0)
      BY <1>0, WebAssumption DEF CountdownRuns
    <3>2. t = 1 \/ s < WebRetryAfter
      BY <1>7 DEF SecondPasses
    <3>3. countdown' = [left   |-> l - t,
                        timers |-> IF l - 1 <= 0 THEN 0 ELSE t,
                        since  |-> IF s < WebRetryAfter THEN s + 1 ELSE WebRetryAfter]
      BY <1>7 DEF SecondPasses
    <3> HIDE DEF l, t, s
    <3>4. t = 1 /\ l > 0 /\ s < WebRetryAfter
      BY <3>1, <3>2
    <3>5. countdown'.left = l - 1 /\ countdown'.since = s + 1
          /\ countdown'.timers = (IF l - 1 <= 0 THEN 0 ELSE 1)
      BY <3>3, <3>4
    <3>6. countdown' \in [left : 0..WebRetryAfter, timers : 0..1, since : 0..WebRetryAfter]
      BY <3>1, <3>3, <3>4
    <3> QED BY <3>1, <3>4, <3>5, <3>6 DEF CountdownRuns
  <2> QED BY <2>2, <2>3 DEF WebInv
<1>8. ASSUME NEW b \in BOOLEAN, SetsLocalOnly(b) PROVE WebInv'
  <2>1. /\ localOnly' = [set |-> b, checkbox |-> b] /\ SearchAgain(b) /\ UNCHANGED <<online, countdown>>
    BY <1>8 DEF SetsLocalOnly
  <2>2. localOnly' \in [set : BOOLEAN, checkbox : BOOLEAN] /\ localOnly'.set = b
    BY <2>1
  <2>3. CASE current = NoQuery
    <3>1. UNCHANGED <<newest, controller, current, webRequest, view, mended>>
      BY <2>1, <2>3 DEF SearchAgain
    <3>2. WebTypes' /\ NewestCanBeAborted'
      BY <1>0, <2>1, <2>2, <3>1 DEF PageInv, WebTypes, NewestCanBeAborted, Searching
    <3>3. \A i \in RequestId : webRequest[i].pc = "none"
      BY <1>0, <2>3 DEF PageInv, NewestIsCurrent
    <3>4. newest > 0 => newest \in RequestId
      BY <1>0 DEF PageInv, WebTypes, RequestId
    <3>5. ~(view.results > 0)
      <4>1. view.results \in Nat /\ view.results <= newest /\ newest <= MaxRequests /\ MaxRequests \in Nat
        BY <1>0, WebAssumption DEF PageInv, WebTypes
      <4>2. view.results > 0 => view.results \in RequestId
        BY <1>0, <4>1 DEF RequestId
      <4> QED BY <1>0, <3>3, <4>2 DEF PageInv, NewestIsCurrent
    <3>6. NewestIsCurrent'
      BY <1>0, <3>1, <3>3, <3>4, WebNames DEF PageInv, NewestIsCurrent, Searching
    <3>7. ResultsOfTheMode'
      BY <3>1, <3>5 DEF ResultsOfTheMode
    <3> QED BY <1>a, <2>1, <3>2, <3>6, <3>7 DEF WebInv, PageInv
  <2>4. CASE current # NoQuery
    <3>1. PerformSearch(current, b) /\ current \in WebQuery
      BY <1>0, <2>1, <2>4 DEF SearchAgain
    <3>2. PageInv'
      BY <1>0, <2>1, <2>2, <3>1, SearchPerformed
    <3> QED BY <1>a, <2>1, <3>2 DEF WebInv
  <2> QED BY <2>3, <2>4
<1>9. ASSUME NEW i \in RequestId, Settles(i) PROVE WebInv'
  BY <1>9, SettleStep
<1>10. CASE UNCHANGED webVars
  BY <1>10, <1>0 DEF webVars, WebInv, CountdownRuns, PageInv, WebTypes, NewestIsCurrent, NewestCanBeAborted,
                     ResultsOfTheMode, Searching
<1> QED BY <1>1, <1>2, <1>3, <1>4, <1>5, <1>6, <1>7, <1>8, <1>9, <1>10 DEF WebNext

LEMMA WebProperties ==
  WebInv => WebTypeOK /\ NewestCanBeAborted /\ ResultsOfTheMode /\ RetryAfterHonoured
<1> SUFFICES ASSUME WebInv PROVE WebTypeOK /\ RetryAfterHonoured
  BY DEF WebInv, PageInv
<1>1. WebTypeOK
  <2>1. view \in [panel : Panel, results : 0..newest, by : 0..newest]
    <3>1. view \in [panel : Panel, results : Nat, by : Nat] /\ view.results <= newest /\ view.by <= newest
          /\ newest \in Nat
      BY WebAssumption DEF WebInv, PageInv, WebTypes
    <3> QED BY <3>1
  <2>2. countdown \in [left : -MaxRequests..WebRetryAfter, timers : 0..1, since : 0..WebRetryAfter]
    BY WebAssumption DEF WebInv, CountdownRuns
  <2> QED BY <2>1, <2>2 DEF WebInv, PageInv, WebTypes, WebTypeOK, WebRecord, WebPc
<1>2. RetryAfterHonoured
  BY WebAssumption DEF WebInv, CountdownRuns, RetryAfterHonoured
<1> QED BY <1>1, <1>2


(***************************************************************************)
(* The page fetch.  Each retry pays for one chain of redirects.            *)
(***************************************************************************)
FetchPc == {"idle", "request", "body", "backoff"}
Target  == PageUrl \cup {Malformed}
FetchRecord ==
  [pc : FetchPc, start : Target, url : Target, redirects : 0..MaxRedirects + 1,
   retries : 0..MaxFetchRetries, code : FetchCode]

SentWithinChains ==
  /\ fetch.redirects <= MaxRedirects
  /\ fetch.pc = "backoff" => fetch.retries < MaxFetchRetries
  /\ sent <= fetch.retries * (MaxRedirects + 1) + fetch.redirects + 1

FetchInv ==
  /\ fetch \in FetchRecord /\ sent \in Nat /\ HopsChecked
  /\ fetch.pc # "idle" => Safe(fetch.start)
  /\ SentWithinChains

LEMMA Products ==
  ASSUME NEW a \in Nat, NEW b \in Nat, NEW c \in Nat, a <= b
  PROVE  a * c \in Nat /\ (a + 1) * c = a * c + c /\ a * c <= b * c
<1> DEFINE k == b - a
<1>1. k \in Nat /\ b = a + k
  OBVIOUS
<1> HIDE DEF k
<1>2. k * c \in Nat /\ a * c \in Nat
  BY <1>1
<1>3. b * c = a * c + k * c
  BY <1>1
<1> QED BY <1>2, <1>3

LEMMA FetchNames ==
  /\ "idle" \in FetchPc /\ "request" \in FetchPc /\ "body" \in FetchPc /\ "backoff" \in FetchPc
  /\ "none" \in FetchCode /\ "OK" \in FetchCode /\ "REJECTED" \in FetchCode /\ "TIMEOUT" \in FetchCode
  /\ "REDIRECT_FAILURE" \in FetchCode /\ "NETWORK_ERROR" \in FetchCode
  /\ "CONTENT_SIZE_EXCEEDED" \in FetchCode
  BY DEF FetchPc, FetchCode

LEMMA FetchFields ==
  ASSUME NEW f \in FetchRecord
  PROVE  /\ \A pc \in FetchPc : [f EXCEPT !.pc = pc] \in FetchRecord
         /\ \A u \in Target : [f EXCEPT !.start = u] \in FetchRecord /\ [f EXCEPT !.url = u] \in FetchRecord
         /\ \A n \in 0..MaxRedirects + 1 : [f EXCEPT !.redirects = n] \in FetchRecord
         /\ \A n \in 0..MaxFetchRetries : [f EXCEPT !.retries = n] \in FetchRecord
         /\ \A code \in FetchCode : [f EXCEPT !.code = code] \in FetchRecord
  BY DEF FetchRecord

LEMMA FetchInitInvariant == FetchInit => FetchInv
<1> SUFFICES ASSUME FetchInit PROVE FetchInv
  OBVIOUS
<1>1. NoFetch \in FetchRecord
  BY FetchAssumption, FetchNames DEF NoFetch, FetchRecord, Target
<1>2. fetch.retries = 0 /\ fetch.redirects = 0 /\ fetch.pc = "idle" /\ sent = 0 /\ contacted = {}
  BY DEF FetchInit, NoFetch
<1>3. fetch.retries * (MaxRedirects + 1) = 0
  BY <1>2, FetchAssumption
<1> QED BY <1>1, <1>2, <1>3, FetchAssumption DEF FetchInit, FetchInv, SentWithinChains, HopsChecked

(* Only pc and code change when a request ends, so only these need be looked at. *)
LEMMA FetchEnds ==
  ASSUME FetchInv, NEW pc \in FetchPc, NEW code \in FetchCode, fetch.pc # "idle",
         fetch' = [fetch EXCEPT !.pc = pc, !.code = code], UNCHANGED <<contacted, sent>>,
         pc = "backoff" => fetch.retries < MaxFetchRetries
  PROVE  FetchInv'
<1> DEFINE f == [fetch EXCEPT !.pc = pc]
<1>1. fetch' = [f EXCEPT !.code = code]
  OBVIOUS
<1>2. f \in FetchRecord /\ f.pc = pc /\ f.start = fetch.start /\ f.redirects = fetch.redirects
      /\ f.retries = fetch.retries
  BY FetchFields DEF FetchInv, FetchRecord
<1> HIDE DEF f
<1>3. /\ fetch' \in FetchRecord /\ fetch'.pc = pc /\ fetch'.start = fetch.start
      /\ fetch'.redirects = fetch.redirects /\ fetch'.retries = fetch.retries
  <2>1. [f EXCEPT !.code = code] \in FetchRecord
    BY <1>2, FetchFields
  <2> QED BY <1>1, <1>2, <2>1 DEF FetchRecord
<1> QED BY <1>3 DEF FetchInv, SentWithinChains, HopsChecked, Safe

LEMMA FetchFails ==
  ASSUME FetchInv, NEW code \in FetchCode, FailsWith(code), fetch.pc # "idle"
  PROVE  FetchInv'
<1>1. CASE Retriable(code) /\ fetch.retries < MaxFetchRetries
  BY <1>1, FetchEnds, FetchNames DEF FailsWith
<1>2. CASE ~(Retriable(code) /\ fetch.retries < MaxFetchRetries)
  BY <1>2, FetchEnds, FetchNames DEF FailsWith
<1> QED BY <1>1, <1>2

LEMMA FetchStep == FetchInv /\ [FetchNext]_fetchVars => FetchInv'
<1> SUFFICES ASSUME FetchInv, [FetchNext]_fetchVars PROVE FetchInv'
  OBVIOUS
<1>0. /\ fetch \in FetchRecord /\ sent \in Nat /\ HopsChecked /\ SentWithinChains
      /\ fetch.pc # "idle" => Safe(fetch.start)
      /\ MaxRedirects \in Nat /\ MaxFetchRetries \in Nat
      /\ fetch.redirects \in Nat /\ fetch.retries \in Nat
  BY FetchAssumption DEF FetchInv, FetchRecord
<1>1. ASSUME NEW u \in Target, BeginFetch(u) PROVE FetchInv'
  <2>1. CASE u # Malformed /\ Safe(u)
    <3> DEFINE n == NoFetch
               f == [n EXCEPT !.pc = "request"]
               g == [f EXCEPT !.start = u]
               h == [g EXCEPT !.url = u]
    <3>1. n \in FetchRecord /\ n.redirects = 0 /\ n.retries = 0
      BY FetchAssumption, FetchNames DEF NoFetch, FetchRecord, Target
    <3>2. fetch' = h /\ contacted' = {u} /\ sent' = 1
      BY <1>1, <2>1 DEF BeginFetch
    <3> HIDE DEF n
    <3>3. f \in FetchRecord /\ f.redirects = 0 /\ f.retries = 0
      BY <3>1, FetchFields, FetchNames DEF FetchRecord
    <3> HIDE DEF f
    <3>4. g \in FetchRecord /\ g.redirects = 0 /\ g.retries = 0 /\ g.start = u
      BY <3>3, FetchFields DEF FetchRecord
    <3> HIDE DEF g
    <3>5. h \in FetchRecord /\ h.redirects = 0 /\ h.retries = 0 /\ h.start = u
      BY <3>4, FetchFields DEF FetchRecord
    <3>6. h.pc = "request"
      BY <3>1, <3>2 DEF f, g, h, FetchRecord
    <3> HIDE DEF h
    <3>7. fetch'.retries * (MaxRedirects + 1) = 0
      BY <1>0, <3>2, <3>5
    <3> QED BY <1>0, <2>1, <3>2, <3>5, <3>6, <3>7 DEF FetchInv, SentWithinChains, HopsChecked, Safe
  <2>2. CASE ~(u # Malformed /\ Safe(u))
    <3>1. fetch' = [NoFetch EXCEPT !.code = "REJECTED"] /\ contacted' = {} /\ sent' = 0
      BY <1>1, <2>2 DEF BeginFetch
    <3>2. NoFetch \in FetchRecord
      BY FetchAssumption, FetchNames DEF NoFetch, FetchRecord, Target
    <3>3. [NoFetch EXCEPT !.code = "REJECTED"] \in FetchRecord
      BY <3>2, FetchFields, FetchNames
    <3>4. fetch'.retries = 0 /\ fetch'.redirects = 0 /\ fetch'.pc = "idle"
      BY <3>1 DEF NoFetch
    <3>5. fetch'.retries * (MaxRedirects + 1) = 0
      BY <1>0, <3>4
    <3> QED BY <1>0, <3>1, <3>3, <3>4, <3>5 DEF FetchInv, SentWithinChains, HopsChecked
  <2> QED BY <2>1, <2>2
<1>2. ASSUME NEW u \in Target, Redirects(u) PROVE FetchInv'
  <2>1. fetch.pc = "request"
    BY <1>2 DEF Redirects
  <2>2. CASE u = Malformed \/ ~Safe(u) \/ fetch.redirects + 1 > MaxRedirects
    <3>1. FailsWith("REDIRECT_FAILURE") \/ FailsWith("REJECTED")
      BY <1>2, <2>2 DEF Redirects
    <3> QED BY <2>1, <3>1, FetchFails, FetchNames
  <2>3. CASE ~(u = Malformed \/ ~Safe(u) \/ fetch.redirects + 1 > MaxRedirects)
    <3> DEFINE f == [fetch EXCEPT !.url = u]
               k == fetch.redirects + 1
               g == [f EXCEPT !.redirects = k]
    <3>1. fetch' = g /\ contacted' = contacted \cup {u} /\ sent' = sent + 1
      BY <1>2, <2>3 DEF Redirects, SendsTo
    <3>2. k \in 0..MaxRedirects + 1 /\ k <= MaxRedirects
      BY <1>0, <2>3
    <3> HIDE DEF k
    <3>3. /\ f \in FetchRecord /\ f.retries = fetch.retries /\ f.start = fetch.start /\ f.pc = fetch.pc
      BY <1>0, FetchFields DEF FetchRecord
    <3> HIDE DEF f
    <3>4. /\ g \in FetchRecord /\ g.retries = fetch.retries /\ g.start = fetch.start /\ g.pc = fetch.pc
          /\ g.redirects = k
      BY <3>2, <3>3, FetchFields DEF FetchRecord
    <3> HIDE DEF g
    <3>5. sent' <= fetch'.retries * (MaxRedirects + 1) + fetch'.redirects + 1
      <4>1. fetch.retries * (MaxRedirects + 1) \in Nat
        BY <1>0
      <4> QED BY <1>0, <3>1, <3>4, <4>1 DEF SentWithinChains, k
    <3> QED BY <1>0, <2>1, <2>3, <3>1, <3>2, <3>4, <3>5 DEF FetchInv, SentWithinChains, HopsChecked, Safe
  <2> QED BY <2>2, <2>3
<1>3. ASSUME BackoffOver PROVE FetchInv'
  <2> DEFINE k == fetch.retries + 1
             f == [fetch EXCEPT !.pc = "request"]
             g == [f EXCEPT !.url = fetch.start]
             h == [g EXCEPT !.redirects = 0]
             i == [h EXCEPT !.retries = k]
             j == [i EXCEPT !.code = "none"]
  <2>1. fetch.pc = "backoff" /\ fetch' = j /\ contacted' = contacted \cup {fetch.start} /\ sent' = sent + 1
    BY <1>3 DEF BackoffOver, SendsTo
  <2>2. k \in 0..MaxFetchRetries /\ 0 \in 0..MaxRedirects + 1 /\ fetch.start \in Target
    BY <1>0, <2>1 DEF SentWithinChains, FetchRecord
  <2> HIDE DEF k
  <2>3. f \in FetchRecord /\ f.start = fetch.start /\ f.pc = "request"
    BY <1>0, FetchFields, FetchNames DEF FetchRecord
  <2> HIDE DEF f
  <2>4. g \in FetchRecord /\ g.start = fetch.start /\ g.pc = "request"
    BY <2>2, <2>3, FetchFields DEF FetchRecord
  <2> HIDE DEF g
  <2>5. h \in FetchRecord /\ h.start = fetch.start /\ h.pc = "request" /\ h.redirects = 0
    BY <2>2, <2>4, FetchFields DEF FetchRecord
  <2> HIDE DEF h
  <2>6. i \in FetchRecord /\ i.start = fetch.start /\ i.pc = "request" /\ i.redirects = 0 /\ i.retries = k
    BY <2>2, <2>5, FetchFields DEF FetchRecord
  <2> HIDE DEF i
  <2>7. j \in FetchRecord /\ j.start = fetch.start /\ j.pc = "request" /\ j.redirects = 0 /\ j.retries = k
    BY <2>6, FetchFields, FetchNames DEF FetchRecord
  <2> HIDE DEF j
  <2>8. sent' <= fetch'.retries * (MaxRedirects + 1) + fetch'.redirects + 1
    <3>1. k * (MaxRedirects + 1) = fetch.retries * (MaxRedirects + 1) + (MaxRedirects + 1)
      BY <1>0, Products DEF k
    <3>2. fetch.retries * (MaxRedirects + 1) \in Nat
      BY <1>0
    <3> QED BY <1>0, <2>1, <2>7, <3>1, <3>2 DEF SentWithinChains
  <2> QED BY <1>0, <2>1, <2>7, <2>8 DEF FetchInv, SentWithinChains, HopsChecked, Safe
<1>4. ASSUME RequestTimesOut PROVE FetchInv'
  BY <1>4, FetchFails, FetchNames DEF RequestTimesOut
<1>5. ASSUME Refuses PROVE FetchInv'
  <2>1. PICK code \in FetchCode : FailsWith(code)
    BY <1>5 DEF Refuses, FetchCode
  <2>2. fetch.pc # "idle"
    BY <1>5 DEF Refuses
  <2> QED BY <2>1, <2>2, FetchFails
<1>6. ASSUME fetch.pc # "idle", FetchSucceeds PROVE FetchInv'
  BY <1>6, FetchEnds, FetchNames DEF FetchSucceeds
<1>7. ASSUME AnswersWithBody PROVE FetchInv'
  <2>1. fetch.pc = "request" /\ fetch' = [fetch EXCEPT !.pc = "body"] /\ UNCHANGED <<contacted, sent>>
    BY <1>7 DEF AnswersWithBody
  <2>2. [fetch EXCEPT !.pc = "body"] = [fetch EXCEPT !.pc = "body", !.code = fetch.code]
    BY <1>0 DEF FetchRecord
  <2>3. fetch.code \in FetchCode
    BY <1>0 DEF FetchRecord
  <2> QED BY <2>1, <2>2, <2>3, FetchEnds, FetchNames
<1>8. ASSUME BodyEnds PROVE FetchInv'
  <2>1. fetch.pc # "idle" /\ (FetchSucceeds \/ FailsWith("NETWORK_ERROR") \/ FailsWith("CONTENT_SIZE_EXCEEDED"))
    BY <1>8 DEF BodyEnds
  <2> QED BY <1>6, <2>1, FetchFails, FetchNames
<1>9. ASSUME UNCHANGED fetchVars PROVE FetchInv'
  BY <1>9, <1>0 DEF fetchVars, FetchInv, SentWithinChains, HopsChecked, Safe
<1>10. AnswersEmpty => fetch.pc # "idle" /\ FetchSucceeds
  BY DEF AnswersEmpty
<1> QED BY <1>1, <1>2, <1>3, <1>4, <1>5, <1>6, <1>7, <1>8, <1>9, <1>10 DEF FetchNext, Target

LEMMA FetchProperties == FetchInv => FetchTypeOK /\ HopsChecked /\ RequestsBounded
<1> SUFFICES ASSUME FetchInv PROVE FetchTypeOK /\ HopsChecked /\ RequestsBounded
  OBVIOUS
<1>1. FetchTypeOK /\ HopsChecked
  BY FetchAssumption DEF FetchInv, FetchTypeOK, FetchRecord, FetchPc, Target, HopsChecked
<1>2. RequestsBounded
  <2> DEFINE chain == MaxRedirects + 1
             n == fetch.retries
  <2>1. n \in Nat /\ n <= MaxFetchRetries /\ MaxFetchRetries \in Nat /\ chain \in Nat
        /\ fetch.redirects \in Nat /\ fetch.redirects + 1 <= chain /\ sent \in Nat
    BY FetchAssumption DEF FetchInv, FetchRecord, SentWithinChains
  <2>2. sent <= n * chain + fetch.redirects + 1
    BY DEF FetchInv, SentWithinChains
  <2> HIDE DEF chain, n
  <2>3. n * chain <= MaxFetchRetries * chain /\ n * chain \in Nat
    BY <2>1, Products
  <2>4. chain * (MaxFetchRetries + 1) = MaxFetchRetries * chain + chain /\ MaxFetchRetries * chain \in Nat
    BY <2>1
  <2>5. sent <= chain * (MaxFetchRetries + 1)
    BY <2>1, <2>2, <2>3, <2>4
  <2> QED BY <2>5 DEF RequestsBounded, chain
<1> QED BY <1>1, <1>2


(***************************************************************************)
(* The robots policies.  A cached policy that permits is no older than the *)
(* site's last permission, or failure; nor is a permission whose text is   *)
(* being read, since time is not counted while it is.                      *)
(***************************************************************************)
PolicyRecord == [verdict : Verdict \cup {Nowhere}, age : 0..PolicyLife + 1]
AskerRecord  == [waits : Origin \cup {Nowhere}, allowed : {"yes", "no", "none"}, of : Origin \cup {Nowhere}]

PolicyTypes ==
  /\ site \in [Origin -> Verdict]
  /\ policy \in [Origin -> PolicyRecord]
  /\ pending \in [Origin -> BOOLEAN] /\ inFlight \in [Origin -> 0..1]
  /\ heard \in [Origin -> {"permits", "forbids", Nowhere}]
  /\ asker \in [Asker -> AskerRecord]
  /\ lastOpen \in [Origin -> 0..Old]

AnswersAreDated ==
  \A o \in Origin : heard[o] = "permits" => lastOpen[o] = 0 /\ inFlight[o] > 0

PendingIsUnderWay ==
  /\ \A o \in Origin : inFlight[o] = One(pending[o])
  /\ \A a \in Asker : asker[a].waits # Nowhere => pending[asker[a].waits]

OpenSince(o) == policy[o].verdict \notin {"forbids", Nowhere} /\ policy[o].age <= PolicyLife

PermitsAreDated ==
  /\ \A o \in Origin : site[o] # "forbids" => lastOpen[o] = 0
  /\ \A o \in Origin : OpenSince(o) => lastOpen[o] <= policy[o].age
  /\ \A a \in Asker : asker[a].allowed = "yes" =>
       asker[a].of \in Origin /\ lastOpen[asker[a].of] <= PolicyLife

PolicyInv == PolicyTypes /\ AnswersAreDated /\ PendingIsUnderWay /\ PermitsAreDated

LEMMA NowhereIsNoOrigin == Nowhere \notin Origin /\ PolicyLife \in Nat /\ Old = PolicyLife + 2
  BY PolicyAssumption DEF Nowhere, Old

LEMMA PolicyRecords ==
  /\ NoPolicy \in PolicyRecord
  /\ \A v \in Verdict : [verdict |-> v, age |-> 0] \in PolicyRecord
  /\ \A o \in Origin : [waits |-> o, allowed |-> "none", of |-> Nowhere] \in AskerRecord
  /\ [waits |-> Nowhere, allowed |-> "none", of |-> Nowhere] \in AskerRecord
  /\ \A v \in Verdict, o \in Origin : [waits |-> Nowhere, allowed |-> Allows(v), of |-> o] \in AskerRecord
  BY PolicyAssumption DEF NoPolicy, PolicyRecord, AskerRecord, Allows

LEMMA PolicyInitInvariant == PolicyInit => PolicyInv
<1> SUFFICES ASSUME PolicyInit PROVE PolicyInv
  OBVIOUS
<1>1. site \in [Origin -> Verdict] /\ pending \in [Origin -> BOOLEAN] /\ inFlight \in [Origin -> 0..1]
  BY DEF PolicyInit
<1>2. policy \in [Origin -> PolicyRecord] /\ \A o \in Origin : policy[o].verdict = Nowhere
  BY PolicyRecords DEF PolicyInit, NoPolicy
<1>3. asker \in [Asker -> AskerRecord]
      /\ \A a \in Asker : asker[a].waits = Nowhere /\ asker[a].allowed = "none"
  BY PolicyRecords DEF PolicyInit
<1>4. lastOpen \in [Origin -> 0..Old] /\ \A o \in Origin : site[o] # "forbids" => lastOpen[o] = 0
  BY NowhereIsNoOrigin DEF PolicyInit
<1>5. \A o \in Origin : inFlight[o] = One(pending[o])
  BY DEF PolicyInit, One
<1>6. heard \in [Origin -> {"permits", "forbids", Nowhere}] /\ AnswersAreDated
  BY DEF PolicyInit, AnswersAreDated, Nowhere
<1> QED BY <1>1, <1>2, <1>3, <1>4, <1>5, <1>6 DEF PolicyInv, PolicyTypes, PendingIsUnderWay, PermitsAreDated, OpenSince

LEMMA PolicyStep == PolicyInv /\ [PolicyNext]_policyVars => PolicyInv'
<1> SUFFICES ASSUME PolicyInv, [PolicyNext]_policyVars PROVE PolicyInv'
  OBVIOUS
<1> USE NowhereIsNoOrigin DEF PolicyInv
<1>0. PolicyTypes /\ AnswersAreDated /\ PendingIsUnderWay /\ PermitsAreDated
  OBVIOUS
<1>1. ASSUME PolicyTick PROVE PolicyInv'
  <2>1. UNCHANGED <<site, pending, inFlight, heard>>
    BY <1>1 DEF PolicyTick
  <2>2. ASSUME NEW o \in Origin
        PROVE  /\ policy'[o] \in PolicyRecord /\ policy'[o].verdict = policy[o].verdict
               /\ policy[o].verdict = Nowhere \/ policy[o].age > PolicyLife => policy'[o] = policy[o]
               /\ ~(policy[o].verdict = Nowhere \/ policy[o].age > PolicyLife)
                    => policy'[o].age = policy[o].age + 1
    <3>1. policy'[o] = IF policy[o].verdict = Nowhere \/ policy[o].age > PolicyLife THEN policy[o]
                       ELSE [policy[o] EXCEPT !.age = policy[o].age + 1]
      BY <1>1 DEF PolicyTick
    <3>2. policy[o] \in PolicyRecord
      BY <1>0 DEF PolicyTypes
    <3> QED BY <3>1, <3>2 DEF PolicyRecord
  <2>3. policy' \in [Origin -> PolicyRecord]
    <3>1. policy' = [o \in Origin |-> policy'[o]]
      BY <1>1 DEF PolicyTick
    <3> QED BY <2>2, <3>1
  <2>4. ASSUME NEW o \in Origin
        PROVE  /\ lastOpen'[o] \in 0..Old /\ lastOpen'[o] <= lastOpen[o] + 1
               /\ site[o] # "forbids" => lastOpen'[o] = 0
               /\ inFlight[o] > 0 => lastOpen'[o] <= lastOpen[o]
    <3>1. lastOpen'[o] = IF site[o] # "forbids" THEN 0
                         ELSE IF inFlight[o] > 0 THEN lastOpen[o]
                         ELSE IF lastOpen[o] < Old THEN lastOpen[o] + 1 ELSE Old
      BY <1>1 DEF PolicyTick
    <3>2. lastOpen[o] \in 0..Old /\ Old \in Nat
      BY <1>0 DEF PolicyTypes
    <3> QED BY <3>1, <3>2
  <2>5. lastOpen' \in [Origin -> 0..Old]
    <3>1. lastOpen' = [o \in Origin |-> lastOpen'[o]]
      BY <1>1 DEF PolicyTick
    <3> QED BY <2>4, <3>1
  <2>6. ASSUME NEW a \in Asker
        PROVE  asker'[a] \in AskerRecord /\ asker'[a].waits = asker[a].waits /\ asker'[a].allowed = "none"
    <3> DEFINE b == [asker[a] EXCEPT !.allowed = "none"]
    <3>1. asker'[a] = [b EXCEPT !.of = Nowhere]
      BY <1>1 DEF PolicyTick
    <3>2. b \in AskerRecord /\ b.waits = asker[a].waits /\ b.allowed = "none"
      BY <1>0 DEF PolicyTypes, AskerRecord
    <3> HIDE DEF b
    <3> QED BY <3>1, <3>2 DEF AskerRecord
  <2>7. asker' \in [Asker -> AskerRecord]
    <3>1. asker' = [a \in Asker |-> asker'[a]]
      BY <1>1 DEF PolicyTick
    <3> QED BY <2>6, <3>1
  <2>8. PolicyTypes'
    BY <1>0, <2>1, <2>3, <2>5, <2>7 DEF PolicyTypes
  <2>9. PendingIsUnderWay'
    BY <1>0, <2>1, <2>6 DEF PendingIsUnderWay
  <2>10. ASSUME NEW o \in Origin, OpenSince(o)' PROVE lastOpen'[o] <= policy'[o].age
    <3>1. policy[o] \in PolicyRecord /\ lastOpen[o] \in Nat
      BY <1>0 DEF PolicyTypes
    <3>2. policy[o].age \in Nat
      BY <3>1 DEF PolicyRecord
    <3>3. ~(policy[o].verdict = Nowhere \/ policy[o].age > PolicyLife)
      BY <2>2, <2>10, <3>2 DEF OpenSince
    <3>4. OpenSince(o)
      BY <2>2, <2>10, <3>2, <3>3 DEF OpenSince
    <3>5. lastOpen[o] <= policy[o].age
      BY <1>0, <3>4 DEF PermitsAreDated
    <3> QED BY <2>2, <2>4, <3>1, <3>2, <3>3, <3>5
  <2>11. PermitsAreDated'
    BY <2>1, <2>4, <2>6, <2>10 DEF PermitsAreDated
  <2>12. AnswersAreDated'
    <3> SUFFICES ASSUME NEW o \in Origin, heard'[o] = "permits"
                 PROVE  lastOpen'[o] = 0 /\ inFlight'[o] > 0
      BY DEF AnswersAreDated
    <3>1. lastOpen[o] = 0 /\ inFlight[o] > 0
      BY <1>0, <2>1 DEF AnswersAreDated
    <3>2. lastOpen'[o] \in Nat /\ lastOpen'[o] <= lastOpen[o]
      BY <2>4, <3>1
    <3> QED BY <2>1, <3>1, <3>2
  <2> QED BY <2>8, <2>9, <2>11, <2>12
<1>2. ASSUME ClearsCache PROVE PolicyInv'
  <2>1. policy' \in [Origin -> PolicyRecord] /\ \A o \in Origin : policy'[o].verdict = Nowhere
    BY <1>2, PolicyRecords DEF ClearsCache, NoPolicy
  <2>2. UNCHANGED <<site, pending, inFlight, heard, asker, lastOpen>>
    BY <1>2 DEF ClearsCache
  <2> QED BY <1>0, <2>1, <2>2
      DEF PolicyTypes, AnswersAreDated, PendingIsUnderWay, PermitsAreDated, OpenSince
<1>3. ASSUME NEW o \in Origin, NEW v \in Verdict, SiteChanges(o, v) PROVE PolicyInv'
  <2>1. UNCHANGED <<policy, pending, inFlight, heard, asker>>
    BY <1>3 DEF SiteChanges
  <2>2. site' = [site EXCEPT ![o] = v]
        /\ lastOpen' = [lastOpen EXCEPT ![o] = IF v = "forbids" THEN lastOpen[o] ELSE 0]
    BY <1>3 DEF SiteChanges
  <2>3. site' \in [Origin -> Verdict] /\ lastOpen' \in [Origin -> 0..Old]
        /\ \A u \in Origin : lastOpen'[u] <= lastOpen[u] /\ lastOpen'[u] \in Nat
    BY <1>0, <2>2 DEF PolicyTypes
  <2>4. PolicyTypes' /\ PendingIsUnderWay'
    BY <1>0, <2>1, <2>3 DEF PolicyTypes, PendingIsUnderWay
  <2>5. \A u \in Origin : site'[u] # "forbids" => lastOpen'[u] = 0
    BY <1>0, <2>2 DEF PolicyTypes, PermitsAreDated
  <2>6. \A u \in Origin : OpenSince(u)' => lastOpen'[u] <= policy'[u].age
    <3> SUFFICES ASSUME NEW u \in Origin, OpenSince(u)' PROVE lastOpen'[u] <= policy'[u].age
      OBVIOUS
    <3>1. lastOpen[u] <= policy[u].age
      BY <1>0, <2>1 DEF PermitsAreDated, OpenSince
    <3>2. lastOpen[u] \in Nat /\ lastOpen'[u] \in Nat /\ policy[u] \in PolicyRecord
      BY <1>0, <2>3 DEF PolicyTypes
    <3>3. policy[u].age \in Nat
      BY <3>2 DEF PolicyRecord
    <3> QED BY <2>1, <2>3, <3>1, <3>2, <3>3
  <2>7. ASSUME NEW a \in Asker, asker'[a].allowed = "yes"
        PROVE  asker'[a].of \in Origin /\ lastOpen'[asker'[a].of] <= PolicyLife
    <3>1. asker[a].of \in Origin /\ lastOpen[asker[a].of] <= PolicyLife
      BY <1>0, <2>1, <2>7 DEF PermitsAreDated
    <3>2. lastOpen[asker[a].of] \in Nat /\ lastOpen'[asker[a].of] \in Nat
      BY <1>0, <2>3, <3>1 DEF PolicyTypes
    <3> QED BY <2>1, <2>3, <3>1, <3>2
  <2>8. AnswersAreDated'
    BY <1>0, <2>1, <2>3 DEF AnswersAreDated
  <2> QED BY <2>4, <2>5, <2>6, <2>7, <2>8 DEF PermitsAreDated
<1>4. ASSUME NEW o \in Origin, NEW v \in Verdict, Fetched(o, v) PROVE PolicyInv'
  <2>1. /\ inFlight[o] > 0
        /\ v \in {heard[o], "error"} \/ (heard[o] = Nowhere /\ v = "absent" /\ site[o] = "absent")
        /\ heard' = [heard EXCEPT ![o] = Nowhere]
        /\ policy' = [policy EXCEPT ![o] = [verdict |-> v, age |-> 0]]
        /\ asker' = [a \in Asker |-> IF asker[a].waits = o THEN Decided(a, o, v)[a] ELSE asker[a]]
        /\ pending' = [pending EXCEPT ![o] = FALSE] /\ inFlight' = [inFlight EXCEPT ![o] = inFlight[o] - 1]
        /\ lastOpen' = [lastOpen EXCEPT ![o] = IF v = "error" THEN 0 ELSE lastOpen[o]]
        /\ site' = site
    BY <1>4 DEF Fetched, FetchOver
  <2>2. /\ \A a \in Asker : asker'[a] = IF asker[a].waits = o
                                        THEN [waits |-> Nowhere, allowed |-> Allows(v), of |-> o] ELSE asker[a]
        /\ asker' = [a \in Asker |-> asker'[a]]
    BY <1>0, <2>1 DEF Decided, PolicyTypes
  <2>3. asker' \in [Asker -> AskerRecord]
    <3>1. [waits |-> Nowhere, allowed |-> Allows(v), of |-> o] \in AskerRecord
      BY PolicyRecords
    <3>2. \A a \in Asker : asker'[a] \in AskerRecord
      BY <1>0, <2>2, <3>1 DEF PolicyTypes
    <3> QED BY <2>2, <3>2
  <2>4. policy' \in [Origin -> PolicyRecord] /\ policy'[o].verdict = v /\ policy'[o].age = 0
        /\ \A u \in Origin : u # o => policy'[u] = policy[u]
    BY <1>0, <2>1, PolicyRecords DEF PolicyTypes
  <2>5. inFlight[o] = 1
    BY <1>0, <2>1 DEF PolicyTypes
  <2>6. /\ inFlight' \in [Origin -> 0..1] /\ pending' \in [Origin -> BOOLEAN]
        /\ \A u \in Origin : inFlight'[u] = One(pending'[u])
    BY <1>0, <2>1, <2>5 DEF PolicyTypes, PendingIsUnderWay, One
  <2>7. /\ lastOpen' \in [Origin -> 0..Old] /\ \A u \in Origin : u # o => lastOpen'[u] = lastOpen[u]
        /\ v # "forbids" => lastOpen'[o] = 0
        /\ lastOpen'[o] <= lastOpen[o]
    <3>1. v \notin {"forbids", "error"} => lastOpen[o] = 0
      BY <1>0, <2>1 DEF PolicyTypes, AnswersAreDated, PermitsAreDated, Verdict, Nowhere
    <3> QED BY <1>0, <2>1, <3>1 DEF PolicyTypes
  <2>8. PolicyTypes'
    BY <1>0, <2>1, <2>3, <2>4, <2>6, <2>7 DEF PolicyTypes
  <2>9. AnswersAreDated'
    <3> SUFFICES ASSUME NEW u \in Origin, heard'[u] = "permits"
                 PROVE  lastOpen'[u] = 0 /\ inFlight'[u] > 0
      BY DEF AnswersAreDated
    <3>1. u # o /\ heard'[u] = heard[u]
      BY <1>0, <2>1 DEF PolicyTypes, Nowhere
    <3>2. inFlight'[u] = inFlight[u] /\ lastOpen'[u] = lastOpen[u]
      BY <1>0, <2>1, <2>7, <3>1 DEF PolicyTypes
    <3> QED BY <1>0, <3>1, <3>2 DEF AnswersAreDated
  <2>10. PendingIsUnderWay'
    <3>1. ASSUME NEW a \in Asker, asker'[a].waits # Nowhere PROVE pending'[asker'[a].waits]
      <4>1. asker'[a] = asker[a] /\ asker[a].waits # o
        BY <2>2, <3>1
      <4>2. pending[asker[a].waits] /\ asker[a].waits \in Origin
        BY <1>0, <3>1, <4>1 DEF PendingIsUnderWay, PolicyTypes, AskerRecord
      <4> QED BY <1>0, <2>1, <4>1, <4>2 DEF PolicyTypes
    <3> QED BY <2>6, <3>1 DEF PendingIsUnderWay
  <2>11. \A u \in Origin : site'[u] # "forbids" => lastOpen'[u] = 0
    BY <1>0, <2>1, <2>7 DEF PermitsAreDated, PolicyTypes
  <2>12. \A u \in Origin : OpenSince(u)' => lastOpen'[u] <= policy'[u].age
    BY <1>0, <2>4, <2>7 DEF PermitsAreDated, OpenSince
  <2>13. ASSUME NEW a \in Asker, asker'[a].allowed = "yes"
         PROVE  asker'[a].of \in Origin /\ lastOpen'[asker'[a].of] <= PolicyLife
    <3>1. CASE asker[a].waits = o
      BY <2>2, <2>7, <2>13, <3>1 DEF Allows
    <3>2. CASE asker[a].waits # o
      <4>1. asker[a].of \in Origin /\ lastOpen[asker[a].of] <= PolicyLife /\ asker'[a] = asker[a]
        BY <1>0, <2>2, <2>13, <3>2 DEF PermitsAreDated
      <4>2. lastOpen[asker[a].of] \in Nat /\ lastOpen'[asker[a].of] \in Nat
        BY <1>0, <2>7, <4>1 DEF PolicyTypes
      <4>3. lastOpen'[asker[a].of] <= lastOpen[asker[a].of]
        BY <2>7, <4>1, <4>2
      <4> QED BY <4>1, <4>2, <4>3
    <3> QED BY <3>1, <3>2
  <2> QED BY <2>8, <2>9, <2>10, <2>11, <2>12, <2>13 DEF PermitsAreDated
<1>5. ASSUME NEW o \in Origin, NEW a \in Asker, Asks(a, o) PROVE PolicyInv'
  <2>1. asker[a].waits = Nowhere /\ UNCHANGED <<site, policy, heard, lastOpen>>
    BY <1>5 DEF Asks
  <2>2. CASE CachedFor(o)
    <3> DEFINE r == [waits |-> Nowhere, allowed |-> Allows(policy[o].verdict), of |-> o]
    <3>1. asker' = [asker EXCEPT ![a] = r] /\ UNCHANGED <<pending, inFlight>>
      BY <1>5, <2>2 DEF Asks, Decided
    <3>2. policy[o].verdict \in Verdict /\ policy[o].age <= PolicyLife /\ policy[o].age \in Nat
      BY <1>0, <2>2 DEF CachedFor, PolicyTypes, PolicyRecord
    <3>3. r \in AskerRecord /\ r.waits = Nowhere /\ r.of = o
          /\ (r.allowed = "yes" => policy[o].verdict # "forbids")
      BY <3>2, PolicyRecords DEF Allows
    <3>4. r.allowed = "yes" => lastOpen[o] <= PolicyLife
      <4>1. policy[o].verdict # Nowhere
        BY <2>2 DEF CachedFor
      <4>2. lastOpen[o] \in Nat
        BY <1>0 DEF PolicyTypes
      <4> QED BY <1>0, <3>2, <3>3, <4>1, <4>2 DEF PermitsAreDated, OpenSince
    <3> HIDE DEF r
    <3>5. asker' \in [Asker -> AskerRecord] /\ asker'[a] = r /\ \A b \in Asker : b # a => asker'[b] = asker[b]
      BY <1>0, <3>1, <3>3 DEF PolicyTypes
    <3>6. PolicyTypes' /\ PendingIsUnderWay'
      BY <1>0, <2>1, <3>1, <3>3, <3>5 DEF PolicyTypes, PendingIsUnderWay
    <3>7. PermitsAreDated'
      BY <1>0, <2>1, <3>3, <3>4, <3>5 DEF PermitsAreDated, OpenSince
    <3>8. AnswersAreDated'
      BY <1>0, <2>1, <3>1 DEF AnswersAreDated
    <3> QED BY <3>6, <3>7, <3>8
  <2>3. CASE ~CachedFor(o)
    <3> DEFINE r == [waits |-> o, allowed |-> "none", of |-> Nowhere]
    <3>1. /\ asker' = [asker EXCEPT ![a] = r] /\ pending' = [pending EXCEPT ![o] = TRUE]
          /\ inFlight' = [inFlight EXCEPT ![o] = IF pending[o] THEN inFlight[o] ELSE inFlight[o] + 1]
      BY <1>5, <2>3 DEF Asks
    <3>2. r \in AskerRecord /\ r.waits = o /\ r.allowed = "none"
      BY PolicyRecords
    <3> HIDE DEF r
    <3>3. asker' \in [Asker -> AskerRecord] /\ asker'[a] = r /\ \A b \in Asker : b # a => asker'[b] = asker[b]
      BY <1>0, <3>1, <3>2 DEF PolicyTypes
    <3>4. inFlight[o] = One(pending[o]) /\ pending[o] \in BOOLEAN
      BY <1>0 DEF PendingIsUnderWay, PolicyTypes
    <3>5. /\ inFlight' \in [Origin -> 0..1] /\ pending' \in [Origin -> BOOLEAN]
          /\ \A u \in Origin : /\ inFlight'[u] = One(pending'[u]) /\ (pending[u] => pending'[u])
                               /\ inFlight'[u] >= inFlight[u]
          /\ pending'[o]
      BY <1>0, <3>1, <3>4 DEF PolicyTypes, PendingIsUnderWay, One
    <3>6. PolicyTypes'
      BY <1>0, <2>1, <3>3, <3>5 DEF PolicyTypes
    <3>7. PendingIsUnderWay'
      <4>1. ASSUME NEW b \in Asker, asker'[b].waits # Nowhere PROVE pending'[asker'[b].waits]
        <5>1. CASE b = a
          BY <3>2, <3>3, <3>5, <5>1
        <5>2. CASE b # a
          <6>1. pending[asker[b].waits] /\ asker[b].waits \in Origin /\ asker'[b] = asker[b]
            BY <1>0, <3>3, <4>1, <5>2 DEF PendingIsUnderWay, PolicyTypes, AskerRecord
          <6> QED BY <3>5, <6>1
        <5> QED BY <5>1, <5>2
      <4> QED BY <3>5, <4>1 DEF PendingIsUnderWay
    <3>8. PermitsAreDated'
      BY <1>0, <2>1, <3>2, <3>3 DEF PermitsAreDated, OpenSince
    <3>9. AnswersAreDated'
      <4> SUFFICES ASSUME NEW u \in Origin, heard'[u] = "permits"
                   PROVE  lastOpen'[u] = 0 /\ inFlight'[u] > 0
        BY DEF AnswersAreDated
      <4>1. lastOpen[u] = 0 /\ inFlight[u] > 0 /\ inFlight[u] \in Nat /\ inFlight'[u] \in Nat
        BY <1>0, <2>1, <3>5 DEF AnswersAreDated, PolicyTypes
      <4> QED BY <2>1, <3>5, <4>1
    <3> QED BY <3>6, <3>7, <3>8, <3>9
  <2> QED BY <2>2, <2>3
<1>6. ASSUME NEW o \in Origin, HeadArrives(o) PROVE PolicyInv'
  <2>1. /\ inFlight[o] > 0 /\ site[o] \in {"permits", "forbids"}
        /\ heard' = [heard EXCEPT ![o] = site[o]]
        /\ UNCHANGED <<site, policy, pending, inFlight, asker, lastOpen>>
    BY <1>6 DEF HeadArrives
  <2>2. PolicyTypes'
    BY <1>0, <2>1 DEF PolicyTypes
  <2>3. AnswersAreDated'
    BY <1>0, <2>1 DEF PolicyTypes, AnswersAreDated, PermitsAreDated
  <2> QED BY <1>0, <2>1, <2>2, <2>3 DEF PendingIsUnderWay, PermitsAreDated, OpenSince
<1>7. ASSUME UNCHANGED policyVars PROVE PolicyInv'
  BY <1>0, <1>7
  DEF policyVars, PolicyTypes, AnswersAreDated, PendingIsUnderWay, PermitsAreDated, OpenSince
<1> QED BY <1>1, <1>2, <1>3, <1>4, <1>5, <1>7, <1>6 DEF PolicyNext

LEMMA PolicyProperties == PolicyInv => PolicyTypeOK /\ OneFetchPerOrigin /\ ForbiddenInTime
<1> SUFFICES ASSUME PolicyInv PROVE PolicyTypeOK /\ OneFetchPerOrigin /\ ForbiddenInTime
  OBVIOUS
<1>1. PolicyTypeOK
  BY DEF PolicyInv, PolicyTypes, PolicyTypeOK, PolicyRecord, AskerRecord
<1>2. \A a \in Asker : asker[a].waits # Nowhere => asker[a].waits \in Origin
  BY DEF PolicyInv, PolicyTypes, AskerRecord
<1>3. OneFetchPerOrigin
  BY <1>2 DEF PolicyInv, PolicyTypes, PendingIsUnderWay, OneFetchPerOrigin, One
<1>4. ForbiddenInTime
  BY DEF PolicyInv, PermitsAreDated, ForbiddenInTime
<1> QED BY <1>1, <1>3, <1>4


(***************************************************************************)
(* The sitemaps.  Those fetched are those visited, and the limit is looked *)
(* at before each fetch.                                                   *)
(***************************************************************************)
ListedMap == [map : Sitemap, depth : 0..MaxIndexDepth + 1]

FetchedAreVisited ==
  /\ \A s \in Sitemap : fetchedMaps[s] = One(s \in visited)
  /\ Cardinality(visited) <= MaxSitemaps

MapInv ==
  /\ ingesting \in BOOLEAN /\ pendingMaps \in Seq(ListedMap)
  /\ visited \subseteq Sitemap /\ enqueued \subseteq Listed /\ recorded \subseteq Listed
  /\ fetchedMaps \in [Sitemap -> 0..1]
  /\ FetchedAreVisited /\ ForbiddenStayOut

LEMMA MapInitInvariant == MapInit => MapInv
<1> SUFFICES ASSUME MapInit PROVE MapInv
  OBVIOUS
<1>1. Cardinality({}) = 0
  BY FS_EmptySet
<1>2. pendingMaps \in Seq(ListedMap)
  BY DEF MapInit
<1>3. FetchedAreVisited
  BY <1>1, SitemapAssumption DEF MapInit, FetchedAreVisited, One
<1>4. fetchedMaps \in [Sitemap -> 0..1]
  BY DEF MapInit
<1>5. ingesting \in BOOLEAN /\ visited = {} /\ enqueued = {} /\ recorded = {}
  BY DEF MapInit
<1> QED BY <1>2, <1>3, <1>4, <1>5 DEF MapInv, ForbiddenStayOut

LEMMA MapsFinite ==
  ASSUME NEW S, S \subseteq Sitemap
  PROVE  IsFiniteSet(S) /\ Cardinality(S) \in Nat
  BY SitemapAssumption, FS_Subset, FS_CardinalityType

(* A sitemap that has not been passed over is fetched for the first time. *)
LEMMA SitemapFetched ==
  ASSUME MapInv, FetchesSitemap
  PROVE  /\ visited' \subseteq Sitemap /\ ingesting' \in BOOLEAN
         /\ fetchedMaps' \in [Sitemap -> 0..1] /\ FetchedAreVisited'
         /\ Current \in ListedMap /\ Current.depth <= MaxIndexDepth /\ Tail(pendingMaps) \in Seq(ListedMap)
<1>1. /\ pendingMaps # <<>> /\ Cardinality(visited) < MaxSitemaps
      /\ Current.map \notin visited /\ ~(Current.depth > MaxIndexDepth)
      /\ visited' = visited \cup {Current.map}
      /\ fetchedMaps' = [fetchedMaps EXCEPT ![Current.map] = @ + 1] /\ ingesting' = ingesting
  BY DEF FetchesSitemap, More, Passed
<1>2. Current \in ListedMap /\ Tail(pendingMaps) \in Seq(ListedMap)
  BY <1>1, HeadAndTail DEF MapInv, Current
<1>3. Current.map \in Sitemap /\ Current.depth <= MaxIndexDepth
  BY <1>1, <1>2, SitemapAssumption DEF ListedMap
<1>4. fetchedMaps[Current.map] = 0
  BY <1>1, <1>3 DEF MapInv, FetchedAreVisited, One
<1>5. /\ fetchedMaps' \in [Sitemap -> 0..1]
      /\ \A s \in Sitemap : fetchedMaps'[s] = IF s = Current.map THEN 1 ELSE fetchedMaps[s]
  BY <1>1, <1>3, <1>4 DEF MapInv
<1>6. Cardinality(visited') <= MaxSitemaps
  <2>1. Cardinality(visited') = Cardinality(visited) + 1 /\ Cardinality(visited) \in Nat
    BY <1>1, MapsFinite, FS_AddElement DEF MapInv
  <2> QED BY <1>1, <2>1, SitemapAssumption
<1>7. FetchedAreVisited'
  BY <1>1, <1>5, <1>6 DEF MapInv, FetchedAreVisited, One
<1> QED BY <1>1, <1>2, <1>3, <1>5, <1>7 DEF MapInv

LEMMA MapStep == MapInv /\ [MapNext]_mapVars => MapInv'
<1> SUFFICES ASSUME MapInv, [MapNext]_mapVars PROVE MapInv'
  OBVIOUS
<1>1. ASSUME NEW s \in Sitemap, NEW t \in Sitemap, BeginIngest(IF s = t THEN <<s>> ELSE <<s, t>>)
      PROVE  MapInv'
  <2> DEFINE roots == IF s = t THEN <<s>> ELSE <<s, t>>
  <2>1. roots \in Seq(Sitemap)
    OBVIOUS
  <2>2. /\ ingesting' = TRUE /\ visited' = {} /\ fetchedMaps' = [m \in Sitemap |-> 0]
        /\ pendingMaps' = [i \in DOMAIN roots |-> [map |-> roots[i], depth |-> 0]]
        /\ enqueued' = enqueued /\ recorded' = recorded
    BY <1>1 DEF BeginIngest
  <2> HIDE DEF roots
  <2>3. \A i \in DOMAIN roots : [map |-> roots[i], depth |-> 0] \in ListedMap
    BY <2>1, SitemapAssumption DEF ListedMap
  <2>4. pendingMaps' \in Seq(ListedMap)
    <3>1. Len(roots) \in Nat /\ DOMAIN roots = 1..Len(roots)
      BY <2>1
    <3> QED BY <2>2, <2>3, <3>1
  <2>5. FetchedAreVisited'
    <3>1. Cardinality(visited') = 0
      BY <2>2, FS_EmptySet
    <3> QED BY <2>2, <3>1, SitemapAssumption DEF FetchedAreVisited, One
  <2> QED BY <2>2, <2>4, <2>5 DEF MapInv, ForbiddenStayOut
<1>2. ASSUME SkipsSitemap PROVE MapInv'
  <2>1. pendingMaps # <<>> /\ pendingMaps' = Tail(pendingMaps)
    BY <1>2 DEF SkipsSitemap, More
  <2>2. pendingMaps' \in Seq(ListedMap)
    BY <2>1, HeadAndTail DEF MapInv
  <2> QED BY <1>2, <2>2 DEF SkipsSitemap, MapInv, FetchedAreVisited, ForbiddenStayOut
<1>3. ASSUME NEW children \in SUBSET Sitemap, ReadsIndex(children) PROVE MapInv'
  <2>1. FetchesSitemap
    BY <1>3 DEF ReadsIndex
  <2> DEFINE new == SetToSeq(children \ visited')
             d == Current.depth + 1
             more == [i \in DOMAIN new |-> [map |-> new[i], depth |-> d]]
  <2>2. pendingMaps' = Tail(pendingMaps) \o more /\ enqueued' = enqueued /\ recorded' = recorded
    BY <1>3 DEF ReadsIndex
  <2>3. new \in Seq(Sitemap)
    <3>1. children \ visited' \subseteq Sitemap
      OBVIOUS
    <3>2. new \in Seq(children \ visited')
      BY <3>1, MapsFinite, ListOfFiniteSet
    <3> HIDE DEF new
    <3> QED BY <3>1, <3>2
  <2> HIDE DEF new
  <2>4. d \in 0..MaxIndexDepth + 1
    BY <2>1, SitemapFetched, SitemapAssumption DEF ListedMap
  <2> HIDE DEF d
  <2>5. more \in Seq(ListedMap)
    <3>1. Len(new) \in Nat /\ DOMAIN new = 1..Len(new)
      BY <2>3
    <3>2. \A i \in DOMAIN new : [map |-> new[i], depth |-> d] \in ListedMap
      BY <2>3, <2>4 DEF ListedMap
    <3> QED BY <3>1, <3>2
  <2> HIDE DEF more
  <2>6. pendingMaps' \in Seq(ListedMap)
    BY <2>1, <2>2, <2>5, SitemapFetched
  <2> QED BY <2>1, <2>2, <2>6, SitemapFetched DEF MapInv, ForbiddenStayOut
<1>4. ASSUME NEW urls \in SUBSET Listed, ReadsUrls(urls) PROVE MapInv'
  <2>1. FetchesSitemap /\ pendingMaps' = Tail(pendingMaps)
    BY <1>4 DEF ReadsUrls
  <2>2. PICK accepted \in SUBSET (urls \ Disallowed), written \in SUBSET (urls \ Disallowed) :
          enqueued' = enqueued \cup accepted /\ recorded' = recorded \cup written
    BY <1>4 DEF ReadsUrls
  <2> QED BY <2>1, <2>2, SitemapFetched DEF MapInv, ForbiddenStayOut
<1>5. ASSUME FailsSitemap PROVE MapInv'
  BY <1>5, SitemapFetched DEF FailsSitemap, MapInv, ForbiddenStayOut
<1>6. ASSUME EndsIngest PROVE MapInv'
  <2>1. <<>> \in Seq(ListedMap)
    OBVIOUS
  <2> QED BY <1>6, <2>1 DEF EndsIngest, MapInv, FetchedAreVisited, ForbiddenStayOut
<1>7. ASSUME UNCHANGED mapVars PROVE MapInv'
  BY <1>7 DEF mapVars, MapInv, FetchedAreVisited, ForbiddenStayOut
<1> QED BY <1>1, <1>2, <1>3, <1>4, <1>5, <1>6, <1>7 DEF MapNext, IngestStep

LEMMA MapProperties == MapInv => MapTypeOK /\ ForbiddenStayOut /\ SitemapsFetchedOnce
<1> SUFFICES ASSUME MapInv PROVE MapTypeOK /\ ForbiddenStayOut /\ SitemapsFetchedOnce
  OBVIOUS
<1>1. MapTypeOK
  <2>1. \A i \in DOMAIN pendingMaps : pendingMaps[i] \in ListedMap
    BY DEF MapInv
  <2> QED BY <2>1 DEF MapInv, MapTypeOK, ListedMap
<1>2. {s \in Sitemap : fetchedMaps[s] > 0} = visited
  BY DEF MapInv, FetchedAreVisited, One
<1>3. SitemapsFetchedOnce
  <2>1. \A s \in Sitemap : fetchedMaps[s] <= 1
    BY DEF MapInv
  <2> QED BY <1>2, <2>1 DEF MapInv, FetchedAreVisited, SitemapsFetchedOnce
<1> QED BY <1>1, <1>3 DEF MapInv


(***************************************************************************)
(* The pool of workers.  Each request can be put down to a worker that     *)
(* keeps its delay; and a worker on its own has read, and writes, the end  *)
(* of what was sent, of which it left out only what was a window old.      *)
(***************************************************************************)
PoolPc == {"free", "waiting", "fetching", "ended"}
Instants == Seq(Nat)
WorkerStates == [pc : PoolPc, job : 0..JobCount, until : Int, read : Instants]

Ascends(s, t) ==
  /\ s \in Instants /\ \A i \in DOMAIN s : s[i] <= t
  /\ \A i, j \in DOMAIN s : i < j => s[i] <= s[j]

PoolTyped ==
  /\ pool \subseteq PoolWorker /\ pool # {}
  /\ clock \in 0..MaxClock /\ jobs \in 0..JobCount /\ stopped \in BOOLEAN
  /\ worker \in [PoolWorker -> WorkerStates] /\ results \in [Job -> 0..1]
  /\ lastRequest \in {LongAgo} \cup 0..clock
  /\ \A w \in PoolWorker : worker[w].until <= clock + PoolWindow + MinDelay

TimesFit ==
  /\ Ascends(window, clock) /\ Ascends(sentAt, clock)
  /\ \A w \in PoolWorker : Ascends(worker[w].read, clock)
  /\ \A i \in DOMAIN sentAt : sentAt[i] <= lastRequest

Working(w) == worker[w].pc \in {"waiting", "fetching"}

JobsFit ==
  /\ \A w \in PoolWorker : Working(w) => worker[w].job \in 1..jobs /\ results[worker[w].job] = 0
  /\ \A v, w \in PoolWorker : Working(v) /\ Working(w) /\ worker[v].job = worker[w].job => v = w
  /\ \A j \in 1..jobs : results[j] = 1 \/ \E w \in PoolWorker : Working(w) /\ worker[w].job = j
  /\ \A j \in Job : j > jobs => results[j] = 0
  /\ \A w \in PoolWorker : w \notin pool => worker[w].pc = "free"
  /\ \A w \in PoolWorker : worker[w].pc = "ended" => stopped \/ jobs = JobCount

\* by says whose each request was
KeepsDelay(by) ==
  /\ \A i, j \in DOMAIN sentAt : i < j /\ by[i] = by[j] => sentAt[i] + MinDelay <= sentAt[j]
  /\ \A i \in DOMAIN sentAt : worker[by[i]].pc = "waiting" => sentAt[i] + MinDelay <= worker[by[i]].until

DelayFits == \E by \in [DOMAIN sentAt -> pool] : KeepsDelay(by)

\* s is the end of what was sent, without what is a window old at t
EndOfSent(s, t) ==
  /\ Len(s) <= Len(sentAt)
  /\ \A k \in 1..Len(s) : s[k] = sentAt[(Len(sentAt) - Len(s)) + k]
  /\ \A i \in 1..(Len(sentAt) - Len(s)) : sentAt[i] + PoolWindow <= t

MayFollow(s, t) ==
  EndOfSent(s, t) /\ Len(s) <= MaxPerWindow /\ (Len(s) = MaxPerWindow => s[1] + PoolWindow <= t)

WindowFits ==
  \A w \in PoolWorker : pool = {w} =>
    /\ \A i \in DOMAIN sentAt : i + MaxPerWindow \in DOMAIN sentAt =>
         sentAt[i] + PoolWindow <= sentAt[i + MaxPerWindow]
    /\ EndOfSent(window, clock)
    /\ worker[w].pc = "waiting" => MayFollow(worker[w].read, worker[w].until)

PoolInv == PoolTyped /\ TimesFit /\ JobsFit /\ DelayFits /\ WindowFits

LEMMA PoolConstants ==
  /\ MaxPerWindow \in Nat /\ MaxPerWindow >= 1 /\ PoolWindow \in Nat /\ PoolWindow >= 1
  /\ MinDelay \in Nat /\ JobCount \in Nat /\ MaxClock \in Nat
  /\ LongAgo \in Int /\ LongAgo + MinDelay <= 0 /\ LongAgo < 0
BY PoolAssumption DEF LongAgo

LEMMA PoolNames ==
  /\ "free" \in PoolPc /\ "waiting" \in PoolPc /\ "fetching" \in PoolPc /\ "ended" \in PoolPc
BY DEF PoolPc

LEMMA NoInstants == /\ \A t \in Int : Ascends(<<>>, t)
                     /\ <<>> \in Instants /\ DOMAIN <<>> = {} /\ Len(<<>>) = 0
<1>1. <<>> \in Instants /\ DOMAIN <<>> = {} /\ Len(<<>>) = 0
  BY DEF Instants
<1> QED BY <1>1 DEF Ascends

LEMMA PoolInitInvariant == PoolInit => PoolInv
<1> SUFFICES ASSUME PoolInit PROVE PoolInv
  OBVIOUS
<1>1. /\ pool \subseteq PoolWorker /\ pool # {} /\ clock = 0 /\ jobs = 0 /\ stopped = FALSE
      /\ worker = [w \in PoolWorker |-> FreeWorker]
      /\ window = <<>> /\ lastRequest = LongAgo
      /\ results = [j \in Job |-> 0] /\ sentAt = <<>>
  BY DEF PoolInit
<1>2. FreeWorker \in WorkerStates
  BY PoolNames, PoolConstants, NoInstants DEF FreeWorker, WorkerStates
<1>3. \A w \in PoolWorker : worker[w] = FreeWorker
  BY <1>1
<1>4. FreeWorker.pc = "free" /\ FreeWorker.read = <<>> /\ FreeWorker.until = 0
  BY DEF FreeWorker
<1>5. PoolTyped
  <2>1. 0 \in 0..MaxClock /\ 0 \in 0..JobCount
    BY PoolConstants
  <2>2. results \in [Job -> 0..1] /\ worker \in [PoolWorker -> WorkerStates]
    BY <1>1, <1>2
  <2>3. \A w \in PoolWorker : worker[w].until <= clock + PoolWindow + MinDelay
    BY <1>1, <1>3, <1>4, PoolConstants
  <2> QED BY <1>1, <1>3, <1>4, <2>1, <2>2, <2>3 DEF PoolTyped
<1>6. TimesFit
  BY <1>1, <1>3, <1>4, NoInstants DEF TimesFit
<1>7. JobsFit
  <2>1. 1..jobs = {} /\ \A j \in Job : results[j] = 0
    BY <1>1
  <2> QED BY <1>3, <1>4, <2>1 DEF JobsFit, Working
<1>8. DelayFits
  <2> DEFINE by == [i \in DOMAIN sentAt |-> CHOOSE w \in pool : TRUE]
  <2>1. by \in [DOMAIN sentAt -> pool]
    BY <1>1
  <2>2. DOMAIN sentAt = {}
    BY <1>1, NoInstants
  <2> HIDE DEF by
  <2>3. KeepsDelay(by)
    BY <2>2 DEF KeepsDelay
  <2> QED BY <2>1, <2>3 DEF DelayFits
<1>9. WindowFits
  <2>1. DOMAIN sentAt = {} /\ Len(sentAt) = 0 /\ Len(window) = 0 /\ 1..0 = {} /\ 0 - 0 = 0
    BY <1>1, NoInstants
  <2>2. EndOfSent(window, clock)
    BY <2>1 DEF EndOfSent
  <2> QED BY <1>3, <1>4, <2>1, <2>2 DEF WindowFits
<1> QED BY <1>5, <1>6, <1>7, <1>8, <1>9 DEF PoolInv

(* What is read of an ascending record is its end. *)
LEMMA InWindowIs ==
  ASSUME PoolInv
  PROVE  \E d \in 0..Len(window) :
           /\ InWindow \in Instants /\ Len(InWindow) = Len(window) - d
           /\ \A k \in 1..(Len(window) - d) : InWindow[k] = window[d + k]
           /\ \A i \in 1..Len(window) : i > d <=> window[i] > clock + DelayWait - PoolWindow
<1> DEFINE c == clock + DelayWait - PoolWindow
           places == {i \in DOMAIN window : window[i] > c}
           n == Len(window)
           old == {i \in 1..n : window[i] <= c}
<1>1. /\ window \in Seq(Nat) /\ DOMAIN window = 1..n /\ n \in Nat
      /\ \A i, j \in 1..n : i < j => window[i] <= window[j]
      /\ \A i \in 1..n : window[i] \in Nat
  BY DEF PoolInv, TimesFit, Ascends, Instants
<1>2. c \in Int
  <2>1. clock \in Int /\ lastRequest \in Int
    BY PoolConstants DEF PoolInv, PoolTyped
  <2> QED BY <2>1, PoolConstants DEF DelayWait
<1>3. InWindow = Chosen(window, places)
  BY DEF InWindow, Chosen
<1>4. \A i \in 1..n : i \in places <=> window[i] > c
  BY <1>1
<1> HIDE DEF c, places, n
<1>5. \E d \in 0..n : \A i \in 1..n : i > d <=> window[i] > c
  <2>1. CASE old = {}
    <3>1. \A i \in 1..n : i > 0 /\ window[i] > c
      BY <1>1, <1>2, <2>1
    <3>2. 0 \in 0..n
      BY <1>1
    <3> QED BY <3>1, <3>2
  <2>2. CASE old # {}
    <3>1. old \in SUBSET (0..n)
      BY <1>1
    <3>2. \A i \in 1..n : i \in old <=> window[i] <= c
      OBVIOUS
    <3> HIDE DEF old
    <3>3. PICK d \in old : \A i \in old : d >= i
      BY <1>1, <2>2, <3>1, GreatestElement
    <3>4. d \in 1..n /\ window[d] <= c /\ d \in 0..n
      BY <1>1, <3>1, <3>2, <3>3 DEF old
    <3>5. ASSUME NEW i \in 1..n PROVE i > d <=> window[i] > c
      <4>1. CASE i > d
        <5>1. i \notin old
          BY <1>1, <3>3, <3>4, <4>1
        <5> QED BY <1>1, <1>2, <3>2, <4>1, <5>1
      <4>2. CASE ~ (i > d)
        <5>1. window[i] <= window[d]
          BY <1>1, <3>4, <4>2
        <5> QED BY <1>1, <1>2, <3>4, <4>2, <5>1
      <4> QED BY <4>1, <4>2
    <3> QED BY <3>4, <3>5
  <2> QED BY <2>1, <2>2
<1>6. PICK d \in 0..n : \A i \in 1..n : i > d <=> window[i] > c
  BY <1>5
<1>7. /\ Chosen(window, places) \in Seq(Nat) /\ Len(Chosen(window, places)) = n - d
      /\ \A k \in 1..(n - d) : Chosen(window, places)[k] = window[d + k]
  <2>1. \A i \in 1..n : i \in places <=> i > d
    BY <1>4, <1>6
  <2>2. window \in Seq(Nat) /\ d \in 0..Len(window) /\ \A i \in 1..Len(window) : i \in places <=> i > d
    BY <1>1, <2>1 DEF n
  <2>3. /\ Chosen(window, places) \in Seq(Nat) /\ Len(Chosen(window, places)) = Len(window) - d
        /\ \A k \in 1..(Len(window) - d) : Chosen(window, places)[k] = window[d + k]
    BY <2>2, ChosenSuffix
  <2> QED BY <2>3 DEF n
<1> QED BY <1>3, <1>6, <1>7 DEF c, n, Instants

(* The wait covers the delay, and the window of the first request in it. *)
LEMMA WaitIs ==
  ASSUME PoolInv
  PROVE  /\ DelayWait \in 0..MinDelay /\ lastRequest + MinDelay <= clock + DelayWait
         /\ PermissionWait \in Nat /\ PermissionWait >= DelayWait
         /\ PermissionWait <= PoolWindow + MinDelay
         /\ Len(InWindow) >= MaxPerWindow => InWindow[1] + PoolWindow <= clock + PermissionWait
<1>1. clock \in Nat /\ lastRequest \in Int /\ lastRequest <= clock
  BY PoolConstants DEF PoolInv, PoolTyped
<1>2. DelayWait \in 0..MinDelay /\ lastRequest + MinDelay <= clock + DelayWait
  BY <1>1, PoolConstants DEF DelayWait
<1>3. PICK d \in 0..Len(window) :
        /\ InWindow \in Instants /\ Len(InWindow) = Len(window) - d
        /\ \A k \in 1..(Len(window) - d) : InWindow[k] = window[d + k]
  BY InWindowIs
<1>4. window \in Seq(Nat) /\ \A i \in DOMAIN window : window[i] <= clock
  BY DEF PoolInv, TimesFit, Ascends, Instants
<1>5. Len(InWindow) >= MaxPerWindow => InWindow[1] \in Nat /\ InWindow[1] <= clock
  <2> SUFFICES ASSUME Len(InWindow) >= MaxPerWindow PROVE InWindow[1] \in Nat /\ InWindow[1] <= clock
    OBVIOUS
  <2>1. Len(window) \in Nat /\ DOMAIN window = 1..Len(window)
    BY <1>4
  <2>2. 1 \in 1..(Len(window) - d) /\ d + 1 \in DOMAIN window
    BY <1>3, <2>1, PoolConstants
  <2>3. InWindow[1] = window[d + 1]
    BY <1>3, <2>2
  <2> QED BY <1>4, <2>2, <2>3
<1>6. CASE Len(InWindow) >= MaxPerWindow
  <2> DEFINE x == InWindow[1] + PoolWindow - clock
  <2>1. PermissionWait = IF DelayWait > x THEN DelayWait ELSE x
    BY <1>6 DEF PermissionWait, Later
  <2>2. x \in Int /\ x <= PoolWindow
    BY <1>1, <1>5, <1>6, PoolConstants
  <2>3. clock + x = InWindow[1] + PoolWindow
    BY <1>1, <1>5, <1>6, PoolConstants
  <2> HIDE DEF x
  <2> QED BY <1>1, <1>2, <2>1, <2>2, <2>3, PoolConstants
<1>7. CASE ~ (Len(InWindow) >= MaxPerWindow)
  <2>1. PermissionWait = DelayWait
    BY <1>7 DEF PermissionWait
  <2> QED BY <1>2, <1>7, <2>1, PoolConstants
<1> QED BY <1>6, <1>7

(* Sending a request keeps the order of the times, the delay of the worker *)
(* and, for a worker on its own, the window.                               *)
LEMMA SendFits ==
  ASSUME PoolInv, NEW w \in pool, NEW read, Ascends(read, clock), NotesRequest(read),
         UNCHANGED <<pool, clock>>, DOMAIN worker' = PoolWorker,
         worker'[w].pc = "fetching", Ascends(worker'[w].read, clock),
         \A v \in PoolWorker : v # w => worker'[v] = worker[v],
         \/ \A i \in DOMAIN sentAt : sentAt[i] + MinDelay <= clock
         \/ worker[w].pc = "waiting" /\ worker[w].until <= clock,
         pool = {w} => MayFollow(read, clock)
  PROVE  TimesFit' /\ DelayFits' /\ WindowFits'
<1> DEFINE n == Len(sentAt)
           s == sentAt'
<1>1. /\ clock \in Nat /\ lastRequest \in Int /\ w \in PoolWorker /\ pool \subseteq PoolWorker
      /\ worker \in [PoolWorker -> WorkerStates]
  BY PoolConstants DEF PoolInv, PoolTyped
<1>2. /\ sentAt \in Seq(Nat) /\ n \in Nat /\ DOMAIN sentAt = 1..n
      /\ \A i \in 1..n : sentAt[i] \in Nat /\ sentAt[i] <= clock /\ sentAt[i] <= lastRequest
      /\ \A i, j \in 1..n : i < j => sentAt[i] <= sentAt[j]
  BY DEF PoolInv, TimesFit, Ascends, Instants
<1>3. window' = Append(read, clock) /\ lastRequest' = clock /\ s = Append(sentAt, clock)
  BY DEF NotesRequest
<1> HIDE DEF s, n
<1>4. /\ s \in Seq(Nat) /\ Len(s) = n + 1 /\ DOMAIN s = 1..(n + 1) /\ s[n + 1] = clock
      /\ \A i \in 1..n : s[i] = sentAt[i]
  BY <1>1, <1>2, <1>3 DEF n
<1>5. \A i \in DOMAIN s : i \in 1..n \/ i = n + 1
  BY <1>2, <1>4
<1>6. ASSUME NEW r, Ascends(r, clock) PROVE Ascends(Append(r, clock), clock)
  <2> DEFINE a == Append(r, clock)
  <2>1. r \in Seq(Nat) /\ (\A i \in DOMAIN r : r[i] <= clock) /\ \A i, j \in DOMAIN r : i < j => r[i] <= r[j]
    BY <1>6 DEF Ascends, Instants
  <2>2. /\ a \in Seq(Nat) /\ Len(r) \in Nat /\ DOMAIN r = 1..Len(r) /\ DOMAIN a = 1..(Len(r) + 1)
        /\ a[Len(r) + 1] = clock /\ \A i \in 1..Len(r) : a[i] = r[i]
    BY <1>1, <2>1
  <2> HIDE DEF a
  <2>3. \A i \in DOMAIN a : (i \in DOMAIN r /\ i < Len(r) + 1) \/ i = Len(r) + 1
    BY <2>2
  <2>4. \A i \in DOMAIN a : a[i] <= clock
    BY <1>1, <2>1, <2>2, <2>3
  <2>5. ASSUME NEW i \in DOMAIN a, NEW j \in DOMAIN a, i < j PROVE a[i] <= a[j]
    <3>1. i \in DOMAIN r /\ a[i] = r[i]
      BY <2>2, <2>3, <2>5
    <3> QED BY <2>1, <2>2, <2>3, <2>5, <3>1
  <2>6. Ascends(a, clock)
    BY <2>2, <2>4, <2>5 DEF Ascends, Instants
  <2> QED BY <2>6 DEF a
<1>7. TimesFit'
  <2>1. Ascends(s, clock) /\ Ascends(window', clock)
    BY <1>3, <1>6 DEF PoolInv, TimesFit
  <2>2. \A v \in PoolWorker : Ascends(worker'[v].read, clock)
    BY DEF PoolInv, TimesFit
  <2>3. \A i \in DOMAIN s : s[i] <= clock
    BY <2>1 DEF Ascends
  <2> QED BY <1>3, <2>1, <2>2, <2>3 DEF TimesFit, Ascends, s
<1>8. DelayFits'
  <2>1. PICK by \in [DOMAIN sentAt -> pool] : KeepsDelay(by)
    BY DEF PoolInv, DelayFits
  <2> DEFINE now == [i \in DOMAIN s |-> IF i = n + 1 THEN w ELSE by[i]]
  <2>2. /\ \A i \in 1..n : by[i] \in pool /\ now[i] = by[i] /\ i < n + 1 /\ i # n + 1
        /\ now[n + 1] = w /\ now \in [DOMAIN s -> pool]
    <3>1. n + 1 \in DOMAIN s /\ \A i \in 1..n : i \in DOMAIN s /\ i # n + 1 /\ i < n + 1
      BY <1>2, <1>4
    <3>2. \A i \in 1..n : by[i] \in pool
      BY <1>2
    <3> QED BY <1>5, <3>1, <3>2
  <2> HIDE DEF now
  <2>3. ASSUME NEW i \in 1..n, by[i] = w PROVE sentAt[i] + MinDelay <= clock
    <3>1. CASE \A j \in DOMAIN sentAt : sentAt[j] + MinDelay <= clock
      BY <1>2, <3>1
    <3>2. CASE worker[w].pc = "waiting" /\ worker[w].until <= clock
      <4>1. sentAt[i] + MinDelay <= worker[w].until /\ worker[w].until \in Int
        BY <1>1, <1>2, <2>1, <2>3, <3>2 DEF KeepsDelay, WorkerStates
      <4> QED BY <1>1, <1>2, <3>2, <4>1, PoolConstants
    <3> QED BY <3>1, <3>2
  <2>4. ASSUME NEW i \in DOMAIN s, NEW j \in DOMAIN s, i < j, now[i] = now[j]
        PROVE  s[i] + MinDelay <= s[j]
    <3>1. i \in 1..n
      BY <1>2, <1>4, <2>4
    <3>2. CASE j \in 1..n
      <4>1. sentAt[i] + MinDelay <= sentAt[j]
        BY <1>2, <2>1, <2>2, <2>4, <3>1, <3>2 DEF KeepsDelay
      <4> QED BY <1>4, <3>1, <3>2, <4>1
    <3>3. CASE j = n + 1
      BY <1>4, <2>2, <2>3, <2>4, <3>1, <3>3
    <3> QED BY <1>5, <3>2, <3>3
  <2>5. ASSUME NEW i \in DOMAIN s, worker'[now[i]].pc = "waiting"
        PROVE  s[i] + MinDelay <= worker'[now[i]].until
    <3>1. now[i] # w
      BY <2>5
    <3>2. i \in 1..n
      BY <1>5, <2>2, <3>1
    <3>3. now[i] = by[i] /\ worker'[now[i]] = worker[by[i]]
      BY <1>1, <2>2, <3>1, <3>2
    <3> QED BY <1>2, <1>4, <2>1, <2>5, <3>2, <3>3 DEF KeepsDelay
  <2>6. \E of \in [DOMAIN s -> pool] :
          /\ \A i, j \in DOMAIN s : i < j /\ of[i] = of[j] => s[i] + MinDelay <= s[j]
          /\ \A i \in DOMAIN s : worker'[of[i]].pc = "waiting" => s[i] + MinDelay <= worker'[of[i]].until
    BY <2>2, <2>4, <2>5
  <2> QED BY <2>6 DEF DelayFits, KeepsDelay, s
<1>9. WindowFits'
  <2> SUFFICES ASSUME NEW v \in PoolWorker, pool = {v}
               PROVE  /\ \A i \in DOMAIN s : i + MaxPerWindow \in DOMAIN s =>
                           s[i] + PoolWindow <= s[i + MaxPerWindow]
                      /\ EndOfSent(window, clock)'
                      /\ worker'[v].pc # "waiting"
    BY DEF WindowFits, s
  <2>1. v = w /\ pool = {w}
    OBVIOUS
  <2>2. worker'[v].pc # "waiting"
    BY <2>1
  <2>3. /\ \A i \in 1..n : i + MaxPerWindow \in 1..n => sentAt[i] + PoolWindow <= sentAt[i + MaxPerWindow]
        /\ MayFollow(read, clock)
    BY <1>1, <1>2, <2>1 DEF PoolInv, WindowFits
  <2> DEFINE m == Len(read)
  <2>4. /\ read \in Seq(Nat) /\ m \in Nat /\ m <= n /\ m <= MaxPerWindow
        /\ \A k \in 1..m : read[k] = sentAt[(n - m) + k]
        /\ \A i \in 1..(n - m) : sentAt[i] + PoolWindow <= clock
        /\ m = MaxPerWindow => read[1] + PoolWindow <= clock
    BY <2>3 DEF MayFollow, EndOfSent, Ascends, Instants, n
  <2> HIDE DEF m
  <2>5. m \in Nat /\ n \in Nat /\ m <= n /\ m <= MaxPerWindow /\ MaxPerWindow \in Nat /\ MaxPerWindow >= 1
    BY <1>2, <2>4, PoolConstants
  <2>6. ASSUME NEW i \in DOMAIN s, i + MaxPerWindow \in DOMAIN s
        PROVE  s[i] + PoolWindow <= s[i + MaxPerWindow]
    <3>1. i \in 1..n /\ s[i] = sentAt[i]
      <4>1. i \in 1..(n + 1) /\ i + MaxPerWindow \in 1..(n + 1)
        BY <1>4, <2>6
      <4>2. i \in 1..n
        BY <2>5, <4>1
      <4> QED BY <1>4, <4>2
    <3>2. CASE i + MaxPerWindow \in 1..n
      BY <1>4, <2>3, <3>1, <3>2
    <3>3. CASE i + MaxPerWindow = n + 1
      <4>1. i \in 1..(n - m) => sentAt[i] + PoolWindow <= clock
        BY <2>4
      <4>2. i \notin 1..(n - m) => m = MaxPerWindow /\ i = (n - m) + 1 /\ 1 \in 1..m
        <5>1. i \in Nat /\ i >= 1 /\ i + MaxPerWindow = n + 1
          BY <3>1, <3>3
        <5> QED BY <2>5, <5>1
      <4>3. i \notin 1..(n - m) => sentAt[i] + PoolWindow <= clock
        BY <2>4, <4>2
      <4> QED BY <1>4, <3>1, <3>3, <4>1, <4>3
    <3> QED BY <1>5, <2>6, <3>2, <3>3
  <2>7. EndOfSent(window, clock)'
    <3> DEFINE r == Append(read, clock)
    <3>1. /\ r = window' /\ Len(r) = m + 1 /\ r[m + 1] = clock /\ \A k \in 1..m : r[k] = read[k]
      BY <1>1, <1>3, <2>4 DEF m
    <3> HIDE DEF r
    <3>5. Len(r) = m + 1 /\ Len(s) = n + 1
      BY <1>4, <3>1
    <3>2. Len(r) <= Len(s) /\ Len(s) - Len(r) = n - m
      BY <2>5, <3>5
    <3>3. ASSUME NEW k \in 1..(m + 1) PROVE r[k] = s[(n - m) + k]
      <4>1. CASE k \in 1..m
        <5>1. (n - m) + k \in 1..n
          BY <1>2, <2>4, <4>1
        <5> QED BY <1>4, <2>4, <3>1, <4>1, <5>1
      <4>2. CASE k = m + 1
        <5>1. (n - m) + k = n + 1
          BY <1>2, <2>4, <4>2
        <5> QED BY <1>4, <3>1, <4>2, <5>1
      <4> QED BY <2>4, <4>1, <4>2
    <3>4. ASSUME NEW i \in 1..(n - m) PROVE s[i] + PoolWindow <= clock
      <4>1. i \in 1..n
        BY <1>2, <2>4
      <4> QED BY <1>4, <2>4, <4>1
    <3> QED BY <3>1, <3>2, <3>3, <3>4 DEF EndOfSent, s
  <2> QED BY <2>2, <2>6, <2>7
<1> QED BY <1>7, <1>8, <1>9

(* What a worker reads before it waits, it may write after it. *)
LEMMA InWindowFits ==
  ASSUME PoolInv
  PROVE  /\ Ascends(InWindow, clock)
         /\ \A w \in PoolWorker : pool = {w} => MayFollow(InWindow, clock + PermissionWait)
<1> DEFINE n == Len(sentAt)
           l == Len(window)
           t == clock + PermissionWait
<1>1. PICK d \in 0..l :
        /\ InWindow \in Instants /\ Len(InWindow) = l - d
        /\ \A k \in 1..(l - d) : InWindow[k] = window[d + k]
        /\ \A i \in 1..l : i > d <=> window[i] > clock + DelayWait - PoolWindow
  BY InWindowIs
<1>2. /\ window \in Seq(Nat) /\ l \in Nat /\ DOMAIN window = 1..l
      /\ \A i \in 1..l : window[i] \in Nat /\ window[i] <= clock
      /\ \A i, j \in 1..l : i < j => window[i] <= window[j]
  BY DEF PoolInv, TimesFit, Ascends, Instants
<1>3. /\ sentAt \in Seq(Nat) /\ n \in Nat /\ DOMAIN sentAt = 1..n
      /\ \A i \in 1..n : sentAt[i] \in Nat /\ sentAt[i] <= lastRequest
  BY DEF PoolInv, TimesFit, Ascends, Instants
<1>4. clock \in Nat /\ lastRequest \in Int
  BY PoolConstants DEF PoolInv, PoolTyped
<1>5. /\ DelayWait \in Nat /\ lastRequest + MinDelay <= clock + DelayWait
      /\ PermissionWait \in Nat /\ PermissionWait >= DelayWait
      /\ Len(InWindow) >= MaxPerWindow => InWindow[1] + PoolWindow <= clock + PermissionWait
  BY WaitIs, PoolConstants
<1>6. d \in Nat /\ d <= l /\ l - d \in Nat
  BY <1>1, <1>2
<1>7. InWindow \in Seq(Nat) /\ DOMAIN InWindow = 1..(l - d)
  BY <1>1 DEF Instants
<1> HIDE DEF n, l, t
<1>8. Ascends(InWindow, clock)
  <2>1. \A k \in 1..(l - d) : d + k \in 1..l
    BY <1>2, <1>6
  <2>2. \A k \in 1..(l - d) : InWindow[k] <= clock
    BY <1>1, <1>2, <2>1
  <2>3. ASSUME NEW i \in 1..(l - d), NEW j \in 1..(l - d), i < j PROVE InWindow[i] <= InWindow[j]
    <3>1. d + i < d + j
      BY <1>6, <2>3
    <3> QED BY <1>1, <1>2, <2>1, <3>1
  <2> QED BY <1>1, <1>7, <2>2, <2>3 DEF Ascends
<1>9. ASSUME NEW w \in PoolWorker, pool = {w} PROVE MayFollow(InWindow, t)
  <2>1. /\ \A i \in 1..n : i + MaxPerWindow \in 1..n => sentAt[i] + PoolWindow <= sentAt[i + MaxPerWindow]
        /\ l <= n /\ \A k \in 1..l : window[k] = sentAt[(n - l) + k]
        /\ \A i \in 1..(n - l) : sentAt[i] + PoolWindow <= clock
    BY <1>3, <1>9 DEF PoolInv, WindowFits, EndOfSent, n, l
  <2>2. l - d <= n /\ n - (l - d) \in Nat
    BY <1>2, <1>3, <1>6, <2>1
  <2>3. ASSUME NEW k \in 1..(l - d) PROVE InWindow[k] = sentAt[(n - (l - d)) + k]
    <3>1. d + k \in 1..l /\ (n - l) + (d + k) = (n - (l - d)) + k
      BY <1>2, <1>3, <1>6
    <3> QED BY <1>1, <2>1, <3>1
  <2>4. ASSUME NEW i \in 1..(n - (l - d)) PROVE sentAt[i] + PoolWindow <= t
    <3>1. i \in 1..n /\ sentAt[i] \in Nat
      BY <1>2, <1>3, <1>6, <2>1
    <3>2. i \in 1..(n - l) => sentAt[i] + PoolWindow <= clock
      BY <2>1
    <3>3. i \notin 1..(n - l) => sentAt[i] + PoolWindow <= clock + DelayWait
      <4> SUFFICES ASSUME i \notin 1..(n - l) PROVE sentAt[i] + PoolWindow <= clock + DelayWait
        OBVIOUS
      <4> DEFINE j == i - (n - l)
      <4>1. j \in 1..l /\ ~ (j > d) /\ (n - l) + j = i
        BY <1>2, <1>3, <1>6, <2>1
      <4> HIDE DEF j
      <4>2. sentAt[i] = window[j] /\ ~ (window[j] > clock + DelayWait - PoolWindow)
        BY <1>1, <2>1, <4>1
      <4> QED BY <1>4, <1>5, <3>1, <4>2, PoolConstants
    <3> QED BY <1>4, <1>5, <3>1, <3>2, <3>3, PoolConstants DEF t
  <2>5. EndOfSent(InWindow, t)
    BY <1>1, <2>2, <2>3, <2>4 DEF EndOfSent, n
  <2>6. Len(InWindow) <= MaxPerWindow
    <3> SUFFICES ASSUME l - d >= MaxPerWindow + 1 PROVE FALSE
      BY <1>1, <1>6, PoolConstants
    <3> DEFINE i == (n - l) + (d + 1)
    <3>1. /\ d + 1 \in 1..l /\ d + 1 > d /\ i \in 1..n /\ i + MaxPerWindow \in 1..n
      BY <1>2, <1>3, <1>6, <2>1, PoolConstants
    <3>2. window[d + 1] = sentAt[i] /\ window[d + 1] > clock + DelayWait - PoolWindow
      BY <1>1, <2>1, <3>1
    <3> HIDE DEF i
    <3>3. /\ sentAt[i] + PoolWindow <= sentAt[i + MaxPerWindow] /\ sentAt[i + MaxPerWindow] <= lastRequest
          /\ sentAt[i] \in Nat /\ sentAt[i + MaxPerWindow] \in Nat
      BY <1>3, <2>1, <3>1
    <3> QED BY <1>4, <1>5, <3>2, <3>3, PoolConstants
  <2>7. Len(InWindow) = MaxPerWindow => InWindow[1] + PoolWindow <= t
    BY <1>5, PoolConstants DEF t
  <2> QED BY <2>5, <2>6, <2>7 DEF MayFollow
<1> QED BY <1>8, <1>9 DEF t

LEMMA WorkerMoves ==
  ASSUME PoolTyped, NEW w \in PoolWorker, NEW st \in WorkerStates, worker' = [worker EXCEPT ![w] = st]
  PROVE  /\ worker' \in [PoolWorker -> WorkerStates] /\ DOMAIN worker' = PoolWorker
         /\ worker'[w] = st /\ \A v \in PoolWorker : v # w => worker'[v] = worker[v]
BY DEF PoolTyped

LEMMA PcMoves ==
  ASSUME PoolTyped, NEW w \in PoolWorker, NEW p \in PoolPc, worker' = [worker EXCEPT ![w].pc = p]
  PROVE  /\ worker' \in [PoolWorker -> WorkerStates] /\ DOMAIN worker' = PoolWorker
         /\ worker'[w].pc = p /\ worker'[w].job = worker[w].job /\ worker'[w].until = worker[w].until
         /\ worker'[w].read = worker[w].read
         /\ \A v \in PoolWorker : v # w => worker'[v] = worker[v]
<1> DEFINE st == [worker[w] EXCEPT !.pc = p]
<1>1. worker[w] \in WorkerStates
  BY DEF PoolTyped
<1>2. /\ st \in WorkerStates /\ st.pc = p /\ st.job = worker[w].job /\ st.until = worker[w].until
      /\ st.read = worker[w].read
  BY <1>1 DEF WorkerStates
<1>3. worker' = [worker EXCEPT ![w] = st]
  OBVIOUS
<1> HIDE DEF st
<1> QED BY <1>2, <1>3, WorkerMoves

(* Where a worker is does not matter to the requests, unless it waits. *)
LEMMA SentStays ==
  ASSUME PoolInv, UNCHANGED <<pool, clock, window, lastRequest, sentAt>>,
         \A v \in PoolWorker : worker'[v].read = worker[v].read,
         \A v \in PoolWorker : worker'[v].pc = "waiting" =>
           worker[v].pc = "waiting" /\ worker'[v].until = worker[v].until
  PROVE  TimesFit' /\ DelayFits' /\ WindowFits'
<1>1. TimesFit'
  BY DEF PoolInv, TimesFit, Ascends
<1>2. DelayFits'
  <2>1. PICK by \in [DOMAIN sentAt -> pool] : KeepsDelay(by)
    BY DEF PoolInv, DelayFits
  <2>2. \A i \in DOMAIN sentAt : by[i] \in PoolWorker
    BY DEF PoolInv, PoolTyped
  <2>3. /\ \A i, j \in DOMAIN sentAt : i < j /\ by[i] = by[j] => sentAt[i] + MinDelay <= sentAt[j]
        /\ \A i \in DOMAIN sentAt : worker'[by[i]].pc = "waiting" => sentAt[i] + MinDelay <= worker'[by[i]].until
    BY <2>1, <2>2 DEF KeepsDelay
  <2> QED BY <2>3 DEF DelayFits, KeepsDelay
<1>3. WindowFits'
  BY DEF PoolInv, WindowFits, EndOfSent, MayFollow
<1> QED BY <1>1, <1>2, <1>3

LEMMA PoolClockStep == ASSUME PoolInv, ClockTicks PROVE PoolInv'
<1>1. /\ clock' = clock + 1 /\ clock < MaxClock /\ clock \in 0..MaxClock /\ lastRequest \in {LongAgo} \cup 0..clock
      /\ UNCHANGED <<pool, jobs, worker, window, lastRequest, stopped, results, sentAt>>
  BY DEF ClockTicks, PoolInv, PoolTyped
<1>2. /\ clock' \in 0..MaxClock /\ lastRequest' \in {LongAgo} \cup 0..clock'
      /\ clock \in Nat /\ clock' \in Nat /\ clock <= clock'
  BY <1>1, PoolConstants
<1>3. ASSUME NEW r, Ascends(r, clock) PROVE Ascends(r, clock')
  <2>1. \A i \in DOMAIN r : r[i] \in Nat /\ r[i] <= clock
    BY <1>3 DEF Ascends, Instants
  <2>2. \A i \in DOMAIN r : r[i] <= clock'
    BY <1>2, <2>1
  <2> QED BY <1>3, <2>2 DEF Ascends
<1>4. PoolTyped'
  <2>1. \A w \in PoolWorker : worker[w].until \in Int
    BY DEF PoolInv, PoolTyped, WorkerStates
  <2>2. \A w \in PoolWorker : worker'[w].until <= clock' + PoolWindow + MinDelay
    BY <1>1, <1>2, <2>1, PoolConstants DEF PoolInv, PoolTyped
  <2> QED BY <1>1, <1>2, <2>2 DEF PoolInv, PoolTyped
<1>5. TimesFit'
  <2>1. Ascends(window, clock') /\ Ascends(sentAt, clock') /\ \A w \in PoolWorker : Ascends(worker[w].read, clock')
    BY <1>3 DEF PoolInv, TimesFit
  <2> QED BY <1>1, <2>1 DEF PoolInv, TimesFit, Ascends
<1>6. JobsFit'
  BY <1>1 DEF PoolInv, JobsFit, Working
<1>7. DelayFits'
  BY <1>1 DEF PoolInv, DelayFits, KeepsDelay
<1>8. WindowFits'
  <2> SUFFICES ASSUME NEW w \in PoolWorker, pool = {w}, EndOfSent(window, clock)
               PROVE  EndOfSent(window, clock')
    BY <1>1 DEF PoolInv, WindowFits, EndOfSent, MayFollow
  <2>1. sentAt \in Seq(Nat) /\ window \in Seq(Nat)
    BY DEF PoolInv, TimesFit, Ascends, Instants
  <2>2. ASSUME NEW i \in 1..(Len(sentAt) - Len(window)) PROVE sentAt[i] + PoolWindow <= clock'
    <3>1. sentAt[i] + PoolWindow <= clock
      BY DEF EndOfSent
    <3>2. i \in 1..Len(sentAt)
      BY <2>1
    <3>3. sentAt[i] \in Nat
      BY <2>1, <3>2
    <3> QED BY <1>2, <3>1, <3>3, PoolConstants
  <2> QED BY <2>2 DEF EndOfSent
<1> QED BY <1>4, <1>5, <1>6, <1>7, <1>8 DEF PoolInv

LEMMA PoolStopStep == ASSUME PoolInv, Terminates PROVE PoolInv'
<1>1. stopped' = TRUE /\ UNCHANGED <<pool, clock, jobs, worker, window, lastRequest, results, sentAt>>
  BY DEF Terminates
<1>2. PoolTyped'
  BY <1>1 DEF PoolInv, PoolTyped
<1>3. TimesFit' /\ DelayFits' /\ WindowFits'
  BY <1>1, SentStays
<1>4. JobsFit'
  BY <1>1 DEF PoolInv, JobsFit, Working
<1> QED BY <1>2, <1>3, <1>4 DEF PoolInv

LEMMA TakesJobStep ==
  ASSUME PoolInv, NEW w \in pool, TakesJob(w)
  PROVE  PoolInv'
<1> DEFINE t == clock + PermissionWait
           waits == [pc |-> "waiting", job |-> jobs + 1, until |-> t, read |-> InWindow]
           sends == [pc |-> "fetching", job |-> jobs + 1, until |-> t, read |-> InWindow]
<1>1. /\ worker[w].pc = "free" /\ ~ stopped /\ jobs < JobCount /\ jobs' = jobs + 1
      /\ UNCHANGED <<pool, clock, stopped, results>>
      /\ IF PermissionWait = 0
         THEN NotesRequest(InWindow) /\ worker' = [worker EXCEPT ![w] = [waits EXCEPT !.pc = "fetching"]]
         ELSE worker' = [worker EXCEPT ![w] = waits] /\ UNCHANGED <<window, lastRequest, sentAt>>
  BY DEF TakesJob
<1>2. [waits EXCEPT !.pc = "fetching"] = sends
  OBVIOUS
<1>3. /\ w \in PoolWorker /\ clock \in Nat /\ jobs \in Nat /\ jobs \in 0..JobCount
      /\ worker \in [PoolWorker -> WorkerStates] /\ lastRequest \in Int
  BY PoolConstants DEF PoolInv, PoolTyped
<1>4. /\ PermissionWait \in Nat /\ PermissionWait <= PoolWindow + MinDelay /\ PermissionWait >= DelayWait
      /\ DelayWait \in Nat /\ lastRequest + MinDelay <= clock + DelayWait
  BY WaitIs, PoolConstants
<1>5. Ascends(InWindow, clock) /\ \A v \in PoolWorker : pool = {v} => MayFollow(InWindow, t)
  BY InWindowFits
<1>6. waits \in WorkerStates /\ sends \in WorkerStates
  <2>1. jobs + 1 \in 0..JobCount /\ t \in Int /\ InWindow \in Instants
    BY <1>1, <1>3, <1>4, <1>5, PoolConstants DEF Ascends
  <2> QED BY <2>1, PoolNames DEF WorkerStates
<1>7. PICK st \in {waits, sends} :
        /\ worker' = [worker EXCEPT ![w] = st]
        /\ st = sends => PermissionWait = 0 /\ NotesRequest(InWindow)
        /\ st = waits => PermissionWait # 0 /\ UNCHANGED <<window, lastRequest, sentAt>>
  <2>1. waits # sends
    OBVIOUS
  <2> HIDE DEF waits, sends
  <2> QED BY <1>1, <1>2, <2>1
<1>8. /\ st.job = jobs + 1 /\ st.until = t /\ st.read = InWindow /\ st.pc \in {"waiting", "fetching"}
      /\ (st.pc = "waiting" => st = waits) /\ (st = sends => st.pc = "fetching") /\ st \in WorkerStates
  BY <1>6
<1>9. st = waits \/ st = sends
  BY <1>7
<1> HIDE DEF waits, sends, t
<1>10. /\ worker' \in [PoolWorker -> WorkerStates] /\ DOMAIN worker' = PoolWorker
       /\ worker'[w] = st /\ \A v \in PoolWorker : v # w => worker'[v] = worker[v]
  BY <1>3, <1>7, <1>8, WorkerMoves DEF PoolInv
<1>11. \A i \in DOMAIN sentAt : sentAt[i] \in Nat /\ sentAt[i] <= lastRequest
  BY DEF PoolInv, TimesFit, Ascends, Instants
<1>12. \A i \in DOMAIN sentAt : sentAt[i] + MinDelay <= t
  BY <1>3, <1>4, <1>11, PoolConstants DEF t
<1>13. PoolTyped'
  <2>1. t <= clock + PoolWindow + MinDelay
    BY <1>3, <1>4, PoolConstants DEF t
  <2>2. \A v \in PoolWorker : worker'[v].until <= clock + PoolWindow + MinDelay
    BY <1>8, <1>10, <2>1 DEF PoolInv, PoolTyped
  <2>3. jobs' \in 0..JobCount
    BY <1>1, <1>3, PoolConstants
  <2>4. lastRequest' \in {LongAgo} \cup 0..clock
    <3>1. lastRequest' = lastRequest \/ lastRequest' = clock
      BY <1>7, <1>9 DEF NotesRequest
    <3>2. clock \in 0..clock
      BY <1>3
    <3> QED BY <3>1, <3>2 DEF PoolInv, PoolTyped
  <2> QED BY <1>1, <1>10, <2>2, <2>3, <2>4 DEF PoolInv, PoolTyped
<1>14. JobsFit'
  <2> DEFINE Works(v) == worker'[v].pc \in {"waiting", "fetching"}
  <2>1. /\ \A v \in PoolWorker : v # w => (Works(v) <=> Working(v)) /\ worker'[v] = worker[v]
        /\ Works(w) /\ worker'[w].job = jobs + 1 /\ ~ Working(w)
    BY <1>1, <1>8, <1>10 DEF Working
  <2>2. /\ \A v \in PoolWorker : Working(v) => worker[v].job \in 1..jobs /\ worker[v].job # jobs + 1
                                            /\ results[worker[v].job] = 0
        /\ \A v, u \in PoolWorker : Working(v) /\ Working(u) /\ worker[v].job = worker[u].job => v = u
        /\ \A j \in 1..jobs : results[j] = 1 \/ \E v \in PoolWorker : Working(v) /\ worker[v].job = j
        /\ \A j \in Job : j > jobs => results[j] = 0
        /\ \A v \in PoolWorker : v \notin pool => worker[v].pc = "free"
        /\ \A v \in PoolWorker : worker[v].pc # "ended"
    <3>1. \A j \in 1..jobs : j # jobs + 1
      BY <1>3
    <3>2. jobs # JobCount
      BY <1>1, <1>3, PoolConstants
    <3> QED BY <1>1, <3>1, <3>2 DEF PoolInv, JobsFit
  <2>3. /\ 1..(jobs + 1) = 1..jobs \cup {jobs + 1} /\ jobs + 1 \in Job /\ jobs + 1 > jobs
        /\ \A j \in Job : j > jobs + 1 => j > jobs
    BY <1>1, <1>3, PoolConstants DEF Job
  <2> HIDE DEF Works
  <2>4. \A v \in PoolWorker : Works(v) => worker'[v].job \in 1..(jobs + 1) /\ results[worker'[v].job] = 0
    BY <2>1, <2>2, <2>3
  <2>5. \A v, u \in PoolWorker : Works(v) /\ Works(u) /\ worker'[v].job = worker'[u].job => v = u
    BY <2>1, <2>2
  <2>6. \A j \in 1..(jobs + 1) : results[j] = 1 \/ \E v \in PoolWorker : Works(v) /\ worker'[v].job = j
    BY <1>3, <2>1, <2>2, <2>3
  <2>7. \A j \in Job : j > jobs + 1 => results[j] = 0
    BY <2>2, <2>3
  <2>8. /\ \A v \in PoolWorker : v \notin pool => worker'[v].pc = "free"
        /\ \A v \in PoolWorker : worker'[v].pc # "ended"
    BY <1>8, <1>10, <2>2
  <2> QED BY <1>1, <2>4, <2>5, <2>6, <2>7, <2>8 DEF JobsFit, Working, Works
<1>15. CASE st = sends
  <2>1. t = clock
    BY <1>3, <1>7, <1>15 DEF t
  <2>2. pool = {w} => MayFollow(InWindow, clock)
    BY <1>3, <1>5, <2>1
  <2>3. /\ NotesRequest(InWindow) /\ UNCHANGED <<pool, clock>> /\ worker'[w].pc = "fetching"
        /\ Ascends(worker'[w].read, clock)
    BY <1>1, <1>5, <1>7, <1>8, <1>10, <1>15
  <2>4. \A i \in DOMAIN sentAt : sentAt[i] + MinDelay <= clock
    BY <1>12, <2>1
  <2>5. TimesFit' /\ DelayFits' /\ WindowFits'
    BY <1>5, <1>10, <2>2, <2>3, <2>4, SendFits
  <2> QED BY <1>13, <1>14, <2>5 DEF PoolInv
<1>16. CASE st = waits
  <2>1. UNCHANGED <<pool, clock, window, lastRequest, sentAt>> /\ worker'[w].until = t /\ worker'[w].read = InWindow
    BY <1>1, <1>7, <1>8, <1>10, <1>16
  <2>2. TimesFit'
    <3>1. \A v \in PoolWorker : Ascends(worker'[v].read, clock)
      BY <1>5, <1>10, <2>1 DEF PoolInv, TimesFit
    <3> QED BY <2>1, <3>1 DEF PoolInv, TimesFit, Ascends
  <2>3. DelayFits'
    <3>1. PICK by \in [DOMAIN sentAt -> pool] : KeepsDelay(by)
      BY DEF PoolInv, DelayFits
    <3>2. \A i \in DOMAIN sentAt : by[i] \in PoolWorker
      BY DEF PoolInv, PoolTyped
    <3>3. \A i \in DOMAIN sentAt : worker'[by[i]].pc = "waiting" => sentAt[i] + MinDelay <= worker'[by[i]].until
      BY <1>10, <1>12, <2>1, <3>1, <3>2 DEF KeepsDelay
    <3>4. \A i, j \in DOMAIN sentAt : i < j /\ by[i] = by[j] => sentAt[i] + MinDelay <= sentAt[j]
      BY <3>1 DEF KeepsDelay
    <3> QED BY <2>1, <3>3, <3>4 DEF DelayFits, KeepsDelay
  <2>4. WindowFits'
    <3>1. \A v \in PoolWorker : pool = {v} => v = w /\ MayFollow(InWindow, t)
      BY <1>5
    <3> QED BY <2>1, <3>1 DEF PoolInv, WindowFits, EndOfSent, MayFollow
  <2> QED BY <1>13, <1>14, <2>2, <2>3, <2>4 DEF PoolInv
<1> QED BY <1>9, <1>15, <1>16

LEMMA SendsRequestStep ==
  ASSUME PoolInv, NEW w \in pool, SendsRequest(w)
  PROVE  PoolInv'
<1> DEFINE read == worker[w].read
<1>1. /\ worker[w].pc = "waiting" /\ clock >= worker[w].until /\ NotesRequest(read)
      /\ worker' = [worker EXCEPT ![w].pc = "fetching"]
      /\ UNCHANGED <<pool, clock, jobs, stopped, results>>
  BY DEF SendsRequest
<1>2. /\ w \in PoolWorker /\ clock \in Nat /\ worker[w].until \in Int
  BY DEF PoolInv, PoolTyped, WorkerStates
<1>3. /\ worker' \in [PoolWorker -> WorkerStates] /\ DOMAIN worker' = PoolWorker
      /\ worker'[w].pc = "fetching" /\ worker'[w].job = worker[w].job
      /\ worker'[w].until = worker[w].until /\ worker'[w].read = read
      /\ \A v \in PoolWorker : v # w => worker'[v] = worker[v]
  BY <1>1, <1>2, PcMoves, PoolNames DEF PoolInv
<1> HIDE DEF read
<1>4. PoolTyped'
  <2>1. lastRequest' \in {LongAgo} \cup 0..clock
    BY <1>1, <1>2 DEF NotesRequest
  <2>2. \A v \in PoolWorker : worker'[v].until <= clock + PoolWindow + MinDelay
    BY <1>1, <1>3 DEF PoolInv, PoolTyped
  <2> QED BY <1>1, <1>3, <2>1, <2>2 DEF PoolInv, PoolTyped
<1>5. JobsFit'
  <2>1. \A v \in PoolWorker : (worker'[v].pc \in {"waiting", "fetching"} <=> Working(v))
          /\ worker'[v].job = worker[v].job
    BY <1>1, <1>3 DEF Working
  <2>2. /\ \A v \in PoolWorker : v \notin pool => worker'[v].pc = "free"
        /\ \A v \in PoolWorker : worker'[v].pc = "ended" => stopped \/ jobs = JobCount
    BY <1>1, <1>3 DEF PoolInv, JobsFit
  <2> QED BY <1>1, <2>1, <2>2 DEF PoolInv, JobsFit, Working
<1>6. TimesFit' /\ DelayFits' /\ WindowFits'
  <2>1. Ascends(read, clock)
    BY <1>2 DEF PoolInv, TimesFit, read
  <2>2. pool = {w} => MayFollow(read, worker[w].until)
    BY <1>1, <1>2 DEF PoolInv, WindowFits, read
  <2>3. MayFollow(read, worker[w].until) => MayFollow(read, clock)
    <3> SUFFICES ASSUME MayFollow(read, worker[w].until) PROVE MayFollow(read, clock)
      OBVIOUS
    <3>1. sentAt \in Seq(Nat) /\ read \in Seq(Nat) /\ Len(read) <= Len(sentAt)
      BY <2>1 DEF PoolInv, TimesFit, Ascends, Instants, MayFollow, EndOfSent
    <3>2. ASSUME NEW i \in 1..(Len(sentAt) - Len(read)) PROVE sentAt[i] + PoolWindow <= clock
      <4>1. i \in 1..Len(sentAt)
        BY <3>1
      <4>2. sentAt[i] \in Nat
        BY <3>1, <4>1
      <4>3. sentAt[i] + PoolWindow <= worker[w].until
        BY DEF MayFollow, EndOfSent
      <4> QED BY <1>1, <1>2, <4>2, <4>3, PoolConstants
    <3>3. Len(read) = MaxPerWindow => read[1] + PoolWindow <= clock
      <4> SUFFICES ASSUME Len(read) = MaxPerWindow PROVE read[1] + PoolWindow <= clock
        OBVIOUS
      <4>1. read[1] \in Nat
        BY <3>1, PoolConstants
      <4>2. read[1] + PoolWindow <= worker[w].until
        BY DEF MayFollow
      <4> QED BY <1>1, <1>2, <4>1, <4>2, PoolConstants
    <3> QED BY <3>2, <3>3 DEF MayFollow, EndOfSent
  <2>4. worker[w].until <= clock /\ Ascends(worker'[w].read, clock)
    BY <1>1, <1>2, <1>3, <2>1
  <2> QED BY <1>1, <1>3, <2>1, <2>2, <2>3, <2>4, SendFits
<1> QED BY <1>4, <1>5, <1>6 DEF PoolInv

LEMMA FetchReturnsStep ==
  ASSUME PoolInv, NEW w \in pool, FetchReturns(w)
  PROVE  PoolInv'
<1> DEFINE job == worker[w].job
<1>1. /\ worker[w].pc = "fetching" /\ results' = [results EXCEPT ![job] = @ + 1]
      /\ worker' = [worker EXCEPT ![w].pc = "free"]
      /\ UNCHANGED <<pool, clock, jobs, window, lastRequest, stopped, sentAt>>
  BY DEF FetchReturns
<1>2. w \in PoolWorker /\ jobs \in Nat /\ jobs <= JobCount /\ results \in [Job -> 0..1]
  BY PoolConstants DEF PoolInv, PoolTyped
<1>3. Working(w) /\ job \in 1..jobs /\ results[job] = 0
  BY <1>1, <1>2 DEF PoolInv, JobsFit, Working
<1>4. job \in Job
  BY <1>2, <1>3, PoolConstants DEF Job
<1>5. /\ worker' \in [PoolWorker -> WorkerStates] /\ DOMAIN worker' = PoolWorker
      /\ worker'[w].pc = "free" /\ worker'[w].read = worker[w].read /\ worker'[w].until = worker[w].until
      /\ \A v \in PoolWorker : v # w => worker'[v] = worker[v]
  BY <1>1, <1>2, PcMoves, PoolNames DEF PoolInv
<1> HIDE DEF job
<1>6. results' \in [Job -> 0..1] /\ results'[job] = 1 /\ \A j \in Job : j # job => results'[j] = results[j]
  BY <1>1, <1>2, <1>3, <1>4
<1>7. PoolTyped'
  <2>1. \A v \in PoolWorker : worker'[v].until <= clock + PoolWindow + MinDelay
    BY <1>2, <1>5 DEF PoolInv, PoolTyped
  <2> QED BY <1>1, <1>5, <1>6, <2>1 DEF PoolInv, PoolTyped
<1>8. TimesFit' /\ DelayFits' /\ WindowFits'
  <2>1. /\ \A v \in PoolWorker : worker'[v].read = worker[v].read
        /\ \A v \in PoolWorker : worker'[v].pc = "waiting" =>
             worker[v].pc = "waiting" /\ worker'[v].until = worker[v].until
    BY <1>5
  <2> QED BY <1>1, <2>1, SentStays
<1>9. JobsFit'
  <2> DEFINE Works(v) == worker'[v].pc \in {"waiting", "fetching"}
  <2>1. /\ \A v \in PoolWorker : Works(v) => v # w /\ Working(v) /\ worker'[v] = worker[v]
        /\ \A v \in PoolWorker : v # w /\ Working(v) => Works(v) /\ worker'[v] = worker[v]
    BY <1>5 DEF Working
  <2>2. /\ \A v \in PoolWorker : Working(v) => worker[v].job \in 1..jobs /\ results[worker[v].job] = 0
        /\ \A v, u \in PoolWorker : Working(v) /\ Working(u) /\ worker[v].job = worker[u].job => v = u
        /\ \A j \in 1..jobs : results[j] = 1 \/ \E v \in PoolWorker : Working(v) /\ worker[v].job = j
        /\ \A j \in Job : j > jobs => results[j] = 0
        /\ \A v \in PoolWorker : v \notin pool => worker[v].pc = "free"
        /\ \A v \in PoolWorker : worker[v].pc = "ended" => stopped \/ jobs = JobCount
    BY DEF PoolInv, JobsFit
  <2>3. (\A j \in 1..jobs : j \in Job) /\ ~ (job > jobs)
    BY <1>2, <1>3, PoolConstants DEF Job
  <2> HIDE DEF Works
  <2>4. \A v \in PoolWorker : Works(v) => worker'[v].job \in 1..jobs /\ results'[worker'[v].job] = 0
    <3> SUFFICES ASSUME NEW v \in PoolWorker, Works(v)
                 PROVE  worker'[v].job \in 1..jobs /\ results'[worker'[v].job] = 0
      OBVIOUS
    <3>1. v # w /\ Working(v) /\ worker'[v] = worker[v]
      BY <2>1
    <3>2. worker[v].job # job
      BY <1>2, <1>3, <2>2, <3>1 DEF job
    <3> QED BY <1>6, <2>2, <2>3, <3>1, <3>2
  <2>5. \A v, u \in PoolWorker : Works(v) /\ Works(u) /\ worker'[v].job = worker'[u].job => v = u
    BY <2>1, <2>2
  <2>6. ASSUME NEW j \in 1..jobs PROVE results'[j] = 1 \/ \E v \in PoolWorker : Works(v) /\ worker'[v].job = j
    <3>1. CASE j = job
      BY <1>6, <3>1
    <3>2. CASE j # job /\ results[j] = 1
      BY <1>6, <2>3, <3>2
    <3>3. CASE j # job /\ results[j] # 1
      <4>1. PICK v \in PoolWorker : Working(v) /\ worker[v].job = j
        BY <2>2, <3>3
      <4>2. v # w
        BY <3>3, <4>1 DEF job
      <4> QED BY <2>1, <4>1, <4>2
    <3> QED BY <3>1, <3>2, <3>3
  <2>7. \A j \in Job : j > jobs => results'[j] = 0
    BY <1>6, <2>2, <2>3
  <2>8. /\ \A v \in PoolWorker : v \notin pool => worker'[v].pc = "free"
        /\ \A v \in PoolWorker : worker'[v].pc = "ended" => stopped \/ jobs = JobCount
    BY <1>5, <2>2
  <2> QED BY <1>1, <2>4, <2>5, <2>6, <2>7, <2>8 DEF JobsFit, Working, Works
<1> QED BY <1>7, <1>8, <1>9 DEF PoolInv

LEMMA WorkerEndsStep ==
  ASSUME PoolInv, NEW w \in pool, WorkerEnds(w)
  PROVE  PoolInv'
<1>1. /\ worker[w].pc = "free" /\ (stopped \/ jobs = JobCount)
      /\ worker' = [worker EXCEPT ![w].pc = "ended"]
      /\ UNCHANGED <<pool, clock, jobs, window, lastRequest, stopped, results, sentAt>>
  BY DEF WorkerEnds
<1>2. w \in PoolWorker
  BY DEF PoolInv, PoolTyped
<1>3. /\ worker' \in [PoolWorker -> WorkerStates] /\ DOMAIN worker' = PoolWorker
      /\ worker'[w].pc = "ended" /\ worker'[w].until = worker[w].until
      /\ worker'[w].read = worker[w].read /\ worker'[w].job = worker[w].job
      /\ \A v \in PoolWorker : v # w => worker'[v] = worker[v]
  BY <1>1, <1>2, PcMoves, PoolNames DEF PoolInv
<1>4. PoolTyped'
  <2>1. \A v \in PoolWorker : worker'[v].until <= clock + PoolWindow + MinDelay
    BY <1>2, <1>3 DEF PoolInv, PoolTyped
  <2> QED BY <1>1, <1>3, <2>1 DEF PoolInv, PoolTyped
<1>5. TimesFit' /\ DelayFits' /\ WindowFits'
  <2>1. /\ \A v \in PoolWorker : worker'[v].read = worker[v].read
        /\ \A v \in PoolWorker : worker'[v].pc = "waiting" =>
             worker[v].pc = "waiting" /\ worker'[v].until = worker[v].until
    BY <1>3
  <2> QED BY <1>1, <2>1, SentStays
<1>6. JobsFit'
  <2>1. \A v \in PoolWorker : (worker'[v].pc \in {"waiting", "fetching"} <=> Working(v))
          /\ worker'[v].job = worker[v].job
    BY <1>1, <1>3 DEF Working
  <2>2. /\ \A v \in PoolWorker : v \notin pool => worker'[v].pc = "free"
        /\ \A v \in PoolWorker : worker'[v].pc = "ended" => stopped \/ jobs = JobCount
    BY <1>1, <1>3 DEF PoolInv, JobsFit
  <2> QED BY <1>1, <2>1, <2>2 DEF PoolInv, JobsFit, Working
<1> QED BY <1>4, <1>5, <1>6 DEF PoolInv

LEMMA PoolNextStep == ASSUME PoolInv, [PoolNext]_poolVars PROVE PoolInv'
<1>1. CASE PoolNext
  BY <1>1, PoolClockStep, PoolStopStep, TakesJobStep, SendsRequestStep, FetchReturnsStep, WorkerEndsStep
     DEF PoolNext
<1>2. CASE UNCHANGED poolVars
  <2>1. UNCHANGED <<pool, clock, jobs, worker, window, lastRequest, stopped, results, sentAt>>
    BY <1>2 DEF poolVars
  <2>2. PoolTyped'
    BY <2>1 DEF PoolInv, PoolTyped
  <2>3. TimesFit' /\ DelayFits' /\ WindowFits'
    BY <2>1, SentStays
  <2>4. JobsFit'
    BY <2>1 DEF PoolInv, JobsFit, Working
  <2> QED BY <2>2, <2>3, <2>4 DEF PoolInv
<1> QED BY <1>1, <1>2

LEMMA PoolProperties ==
  PoolInv => PoolTypeOK /\ DelayKeptPerWorker /\ WindowKeptAlone /\ JobsAnswered
<1> SUFFICES ASSUME PoolInv PROVE PoolTypeOK /\ DelayKeptPerWorker /\ WindowKeptAlone /\ JobsAnswered
  OBVIOUS
<1>1. /\ pool \subseteq PoolWorker /\ pool # {} /\ clock \in 0..MaxClock /\ clock \in Nat
      /\ worker \in [PoolWorker -> WorkerStates] /\ lastRequest \in {LongAgo} \cup 0..clock
      /\ IsFiniteSet(pool)
  BY FS_Subset, PoolAssumption DEF PoolInv, PoolTyped
<1>2. /\ sentAt \in Seq(Nat) /\ \A i \in DOMAIN sentAt : sentAt[i] \in Nat /\ sentAt[i] <= clock
      /\ \A i, j \in DOMAIN sentAt : i < j => sentAt[i] <= sentAt[j]
  BY DEF PoolInv, TimesFit, Ascends, Instants
<1>3. PoolTypeOK
  <2>1. \A w \in PoolWorker : worker[w].pc \in {"free", "waiting", "fetching", "ended"}
    BY <1>1 DEF WorkerStates, PoolPc
  <2>2. 0..clock \subseteq 0..MaxClock
    BY <1>1, PoolConstants
  <2> QED BY <1>1, <2>1, <2>2 DEF PoolInv, PoolTyped, PoolTypeOK
<1>4. DelayKeptPerWorker
  <2> DEFINE S == {i \in DOMAIN sentAt : sentAt[i] > clock - MinDelay /\ sentAt[i] <= clock}
  <2>1. PICK by \in [DOMAIN sentAt -> pool] : KeepsDelay(by)
    BY DEF PoolInv, DelayFits
  <2> DEFINE of == [i \in S |-> by[i]]
  <2>2. of \in [S -> pool]
    OBVIOUS
  <2>3. ASSUME NEW i \in S, NEW j \in S, i < j PROVE of[i] # of[j]
    <3>1. by[i] = by[j] => sentAt[i] + MinDelay <= sentAt[j]
      BY <2>1, <2>3 DEF KeepsDelay
    <3>2. sentAt[i] \in Nat /\ sentAt[j] \in Nat /\ sentAt[i] > clock - MinDelay /\ sentAt[j] <= clock
      BY <1>2
    <3>3. by[i] # by[j]
      BY <1>1, <3>1, <3>2, PoolConstants
    <3> QED BY <3>3
  <2>4. \A i, j \in S : i = j \/ i < j \/ j < i
    BY <1>2
  <2> HIDE DEF S, of
  <2>5. of \in Injection(S, pool)
    BY <2>2, <2>3, <2>4 DEF Injection, IsInjective
  <2>6. Cardinality(S) <= Cardinality(pool)
    BY <1>1, <2>5, FS_Injection
  <2> QED BY <2>6 DEF DelayKeptPerWorker, SentWithin, S
<1>5. WindowKeptAlone
  <2> SUFFICES ASSUME Cardinality(pool) = 1 PROVE SentWithin(PoolWindow, clock) <= MaxPerWindow
    BY DEF WindowKeptAlone
  <2> DEFINE S == {i \in DOMAIN sentAt : sentAt[i] > clock - PoolWindow /\ sentAt[i] <= clock}
  <2>1. PICK w \in PoolWorker : pool = {w}
    <3>1. PICK w : pool = {w}
      BY <1>1, FS_Singleton
    <3> QED BY <1>1, <3>1
  <2>2. \A i \in DOMAIN sentAt : i + MaxPerWindow \in DOMAIN sentAt =>
          sentAt[i] + PoolWindow <= sentAt[i + MaxPerWindow]
    BY <2>1 DEF PoolInv, WindowFits
  <2>3. S \in SUBSET Nat /\ \A i \in S : i \in DOMAIN sentAt /\ sentAt[i] > clock - PoolWindow
    BY <1>2
  <2> HIDE DEF S
  <2>4. CASE S = {}
    <3>1. Cardinality(S) = 0 /\ 0 <= MaxPerWindow
      BY <2>4, FS_EmptySet, PoolConstants
    <3> QED BY <3>1 DEF SentWithin, S
  <2>5. CASE S # {}
    <3>1. PICK a \in S : \A i \in S : a <= i
      BY <2>3, <2>5, LeastElement
    <3> DEFINE b == a + MaxPerWindow - 1
    <3>2. ASSUME NEW i \in S PROVE i \in a..b
      <4>1. i \in Nat /\ a \in Nat /\ a <= i
        BY <2>3, <3>1
      <4>2. SUFFICES ASSUME i >= a + MaxPerWindow PROVE FALSE
        BY <4>1, PoolConstants
      <4>3. a + MaxPerWindow \in DOMAIN sentAt
        <5>1. a \in 1..Len(sentAt) /\ i \in 1..Len(sentAt)
          BY <1>2, <2>3
        <5> QED BY <1>2, <4>1, <4>2, <5>1, PoolConstants
      <4>4. sentAt[a] + PoolWindow <= sentAt[a + MaxPerWindow]
        BY <2>2, <2>3, <4>3
      <4>5. sentAt[a + MaxPerWindow] \in Nat /\ sentAt[a + MaxPerWindow] <= clock /\ sentAt[a] \in Nat
        BY <1>2, <2>3, <4>3
      <4>6. sentAt[a] > clock - PoolWindow
        BY <2>3
      <4> QED BY <1>1, <4>4, <4>5, <4>6, PoolConstants
    <3>3. a \in Int /\ b \in Int /\ a <= b + 1 /\ b - a + 1 = MaxPerWindow
      BY <2>3, PoolConstants
    <3> HIDE DEF b
    <3>4. IsFiniteSet(a..b) /\ Cardinality(a..b) = MaxPerWindow
      BY <3>3, FS_Interval, PoolConstants
    <3>5. Cardinality(S) <= Cardinality(a..b)
      BY <3>2, <3>4, FS_Subset
    <3> QED BY <3>4, <3>5 DEF SentWithin, S
  <2> QED BY <2>4, <2>5
<1>6. JobsAnswered
  <2> SUFFICES ASSUME \A w \in pool : worker[w].pc = "ended", ~ stopped, NEW j \in Job
               PROVE  results[j] = 1
    BY DEF JobsAnswered
  <2>1. jobs = JobCount
    BY <1>1 DEF PoolInv, JobsFit
  <2>2. \A w \in PoolWorker : ~ Working(w)
    BY DEF PoolInv, JobsFit, Working
  <2>3. j \in 1..jobs
    BY <2>1 DEF Job
  <2> QED BY <2>2, <2>3 DEF PoolInv, JobsFit
<1> QED BY <1>3, <1>4, <1>5, <1>6

(***************************************************************************)
(* The caches.  Entries that were not written in place since they were     *)
(* last hit are in the order in which their keys were touched; an entry    *)
(* that makes room therefore has as many keys touched after it as there    *)
(* is room for.                                                            *)
(***************************************************************************)
Once(s) == \A i, j \in DOMAIN s : s[i] = s[j] => i = j
OncePerKey(c) == \A i, j \in DOMAIN c : c[i].key = c[j].key => i = j
Before(s, x, y) == \E a, b \in DOMAIN s : a < b /\ s[a] = x /\ s[b] = y

\* the keys of c, those in marks aside, are in the order they have in s
InOrderOf(c, s, marks) ==
  \A i, j \in DOMAIN c : i < j /\ c[i].key \notin marks => Before(s, c[i].key, c[j].key)

CacheFits ==
  /\ cache \in Seq(Entry) /\ OncePerKey(cache) /\ Len(cache) <= Capacity

TouchedFits ==
  /\ touched \in Seq(CacheKey) /\ Once(touched)
  /\ \A i \in DOMAIN cache : \E a \in DOMAIN touched : touched[a] = cache[i].key

CacheInv ==
  /\ which \in {"query", "provider", "robots"} /\ minute \in 0..MaxMinute /\ rewritten \subseteq CacheKey
  /\ CacheFits /\ TouchedFits /\ InOrderOf(cache, touched, rewritten)

LEMMA CacheInitInvariant == CacheInit => CacheInv
<1> SUFFICES ASSUME CacheInit PROVE CacheInv
  OBVIOUS
<1>1. /\ cache = <<>> /\ touched = <<>> /\ rewritten = {} /\ minute = 0
      /\ which \in {"query", "provider", "robots"}
  BY DEF CacheInit
<1>2. 0 \in 0..MaxMinute /\ 0 <= Capacity
  BY CacheAssumption
<1>3. \A S : <<>> \in Seq(S)
  OBVIOUS
<1>4. DOMAIN <<>> = {} /\ Len(<<>>) = 0
  OBVIOUS
<1> QED BY <1>1, <1>2, <1>3, <1>4
        DEF CacheInv, CacheFits, TouchedFits, InOrderOf, Once, OncePerKey

LEMMA KeptIsChosen == \A s, places : Kept(s, places) = Chosen(s, places)
BY DEF Kept, Chosen

(* Keeping some of the entries. *)
LEMMA KeptIs ==
  ASSUME NEW c \in Seq(Entry), OncePerKey(c), NEW places
  PROVE  /\ Kept(c, places) \in Seq(Entry) /\ OncePerKey(Kept(c, places)) /\ Len(Kept(c, places)) <= Len(c)
         /\ (\E i \in DOMAIN c : i \notin places) => Len(Kept(c, places)) < Len(c)
         /\ \A a \in DOMAIN Kept(c, places) : \E i \in DOMAIN c : i \in places /\ Kept(c, places)[a] = c[i]
         /\ \A i \in DOMAIN c : i \in places => \E a \in DOMAIN Kept(c, places) : Kept(c, places)[a] = c[i]
         /\ \A a, b \in DOMAIN Kept(c, places) : a < b =>
              \E i, j \in DOMAIN c : i < j /\ Kept(c, places)[a] = c[i] /\ Kept(c, places)[b] = c[j]
<1> DEFINE r == Kept(c, places)
<1>1. r = Chosen(c, places)
  BY KeptIsChosen
<1>2. DOMAIN c = 1..Len(c) /\ Len(c) \in Nat
  OBVIOUS
<1> HIDE DEF r
<1>3. r \in Seq(Entry) /\ ChosenFrom(r, c, Len(c), places)
  BY <1>1, ChosenIs
<1>4. /\ Len(r) <= Len(c) /\ ((\E i \in DOMAIN c : i \notin places) => Len(r) < Len(c))
      /\ \A a \in DOMAIN r : \E i \in DOMAIN c : i \in places /\ r[a] = c[i]
      /\ \A i \in DOMAIN c : i \in places => \E a \in DOMAIN r : r[a] = c[i]
      /\ \A a, b \in DOMAIN r : a < b =>
           \E i, j \in DOMAIN c : i < j /\ i \in places /\ j \in places /\ r[a] = c[i] /\ r[b] = c[j]
  <2> DEFINE D == DOMAIN c
  <2>1. D = 1..Len(c)
    BY <1>2
  <2> HIDE DEF D
  <2>2. /\ Len(r) <= Len(c) /\ ((\E i \in D : i \notin places) => Len(r) < Len(c))
        /\ \A a \in DOMAIN r : \E i \in D : i \in places /\ r[a] = c[i]
        /\ \A i \in D : i \in places => \E a \in DOMAIN r : r[a] = c[i]
        /\ \A a, b \in DOMAIN r : a < b =>
             \E i, j \in D : i < j /\ i \in places /\ j \in places /\ r[a] = c[i] /\ r[b] = c[j]
    BY <1>3, <2>1, Zenon DEF ChosenFrom
  <2> QED BY <2>2 DEF D
<1>5. OncePerKey(r)
  <2>1. ASSUME NEW a \in DOMAIN r, NEW b \in DOMAIN r, a < b PROVE r[a].key # r[b].key
    <3>1. PICK i, j \in DOMAIN c : i < j /\ r[a] = c[i] /\ r[b] = c[j]
      BY <1>4, <2>1
    <3>2. i # j
      BY <1>2, <3>1
    <3> QED BY <3>1, <3>2 DEF OncePerKey
  <2>2. \A a, b \in DOMAIN r : a < b \/ b < a \/ a = b
    BY <1>3
  <2> QED BY <2>1, <2>2 DEF OncePerKey
<1>6. \A a, b \in DOMAIN r : a < b => \E i, j \in DOMAIN c : i < j /\ r[a] = c[i] /\ r[b] = c[j]
  BY <1>4
<1> QED BY <1>3, <1>4, <1>5, <1>6 DEF r

LEMMA WithoutIs ==
  ASSUME NEW c \in Seq(Entry), OncePerKey(c), NEW ks
  PROVE  /\ Without(c, ks) \in Seq(Entry) /\ OncePerKey(Without(c, ks)) /\ Len(Without(c, ks)) <= Len(c)
         /\ (\E i \in DOMAIN c : c[i].key \in ks) => Len(Without(c, ks)) < Len(c)
         /\ \A a \in DOMAIN Without(c, ks) : \E i \in DOMAIN c : c[i].key \notin ks /\ Without(c, ks)[a] = c[i]
         /\ \A i \in DOMAIN c : c[i].key \notin ks => \E a \in DOMAIN Without(c, ks) : Without(c, ks)[a] = c[i]
         /\ \A a, b \in DOMAIN Without(c, ks) : a < b =>
              \E i, j \in DOMAIN c : i < j /\ Without(c, ks)[a] = c[i] /\ Without(c, ks)[b] = c[j]
<1> DEFINE places == {i \in DOMAIN c : c[i].key \notin ks}
           r == Without(c, ks)
<1>1. r = Kept(c, places)
  BY DEF Without
<1>2. \A i \in DOMAIN c : i \in places <=> c[i].key \notin ks
  OBVIOUS
<1> HIDE DEF places, r
<1>3. /\ r \in Seq(Entry) /\ OncePerKey(r) /\ Len(r) <= Len(c)
      /\ (\E i \in DOMAIN c : i \notin places) => Len(r) < Len(c)
      /\ \A a \in DOMAIN r : \E i \in DOMAIN c : i \in places /\ r[a] = c[i]
      /\ \A i \in DOMAIN c : i \in places => \E a \in DOMAIN r : r[a] = c[i]
      /\ \A a, b \in DOMAIN r : a < b => \E i, j \in DOMAIN c : i < j /\ r[a] = c[i] /\ r[b] = c[j]
  BY <1>1, KeptIs
<1>4. /\ (\E i \in DOMAIN c : c[i].key \in ks) => Len(r) < Len(c)
      /\ \A a \in DOMAIN r : \E i \in DOMAIN c : c[i].key \notin ks /\ r[a] = c[i]
      /\ \A i \in DOMAIN c : c[i].key \notin ks => \E a \in DOMAIN r : r[a] = c[i]
  BY <1>2, <1>3
<1> QED BY <1>3, <1>4 DEF r

(* Keeping the keys touched that are not in ks. *)
LEMMA UntouchedIs ==
  ASSUME touched \in Seq(CacheKey), Once(touched), NEW ks
  PROVE  /\ Untouched(ks) \in Seq(CacheKey) /\ Once(Untouched(ks))
         /\ \A a \in DOMAIN Untouched(ks) : Untouched(ks)[a] \notin ks
         /\ \A i \in DOMAIN touched : touched[i] \notin ks =>
              \E a \in DOMAIN Untouched(ks) : Untouched(ks)[a] = touched[i]
         /\ \A x, y : Before(touched, x, y) /\ x \notin ks /\ y \notin ks => Before(Untouched(ks), x, y)
<1> DEFINE places == {i \in DOMAIN touched : touched[i] \notin ks}
           r == Untouched(ks)
<1>1. r = Chosen(touched, places)
  BY KeptIsChosen DEF Untouched
<1>2. DOMAIN touched = 1..Len(touched) /\ Len(touched) \in Nat
  OBVIOUS
<1>3. \A i \in DOMAIN touched : i \in places <=> touched[i] \notin ks
  OBVIOUS
<1> HIDE DEF places, r
<1>4. r \in Seq(CacheKey) /\ ChosenFrom(r, touched, Len(touched), places)
  BY <1>1, ChosenIs
<1>5. /\ \A a \in DOMAIN r : \E i \in DOMAIN touched : i \in places /\ r[a] = touched[i]
      /\ \A i \in DOMAIN touched : i \in places => \E a \in DOMAIN r : r[a] = touched[i]
      /\ \A a, b \in DOMAIN r : a < b =>
           \E i, j \in DOMAIN touched : i < j /\ i \in places /\ j \in places /\ r[a] = touched[i] /\ r[b] = touched[j]
      /\ \A i, j \in DOMAIN touched : i < j /\ i \in places /\ j \in places =>
           \E a, b \in DOMAIN r : a < b /\ r[a] = touched[i] /\ r[b] = touched[j]
  <2> DEFINE D == DOMAIN touched
  <2>1. D = 1..Len(touched)
    BY <1>2
  <2> HIDE DEF D
  <2>2. /\ \A a \in DOMAIN r : \E i \in D : i \in places /\ r[a] = touched[i]
        /\ \A i \in D : i \in places => \E a \in DOMAIN r : r[a] = touched[i]
        /\ \A a, b \in DOMAIN r : a < b =>
             \E i, j \in D : i < j /\ i \in places /\ j \in places /\ r[a] = touched[i] /\ r[b] = touched[j]
        /\ \A i, j \in D : i < j /\ i \in places /\ j \in places =>
             \E a, b \in DOMAIN r : a < b /\ r[a] = touched[i] /\ r[b] = touched[j]
    BY <1>4, <2>1, Zenon DEF ChosenFrom
  <2> QED BY <2>2 DEF D
<1>6. Once(r)
  <2>1. ASSUME NEW a \in DOMAIN r, NEW b \in DOMAIN r, a < b PROVE r[a] # r[b]
    <3>1. PICK i, j \in DOMAIN touched : i < j /\ r[a] = touched[i] /\ r[b] = touched[j]
      BY <1>5, <2>1
    <3>2. i # j
      BY <1>2, <3>1
    <3> QED BY <3>1, <3>2 DEF Once
  <2>2. \A a, b \in DOMAIN r : a < b \/ b < a \/ a = b
    BY <1>4
  <2> QED BY <2>1, <2>2 DEF Once
<1>7. ASSUME NEW x, NEW y, Before(touched, x, y), x \notin ks, y \notin ks PROVE Before(r, x, y)
  <2>1. PICK i, j \in DOMAIN touched : i < j /\ touched[i] = x /\ touched[j] = y
    BY <1>7 DEF Before
  <2>2. i \in places /\ j \in places
    BY <1>3, <1>7, <2>1
  <2> QED BY <1>5, <2>1, <2>2 DEF Before
<1>8. \A a \in DOMAIN r : r[a] \notin ks
  BY <1>3, <1>5
<1>9. \A i \in DOMAIN touched : touched[i] \notin ks => \E a \in DOMAIN r : r[a] = touched[i]
  BY <1>3, <1>5
<1> QED BY <1>4, <1>6, <1>7, <1>8, <1>9 DEF r

(* Touching a key brings it behind the others, which stay as they are. *)
LEMMA TouchIs ==
  ASSUME touched \in Seq(CacheKey), Once(touched), NEW k \in CacheKey, Touch(k)
  PROVE  /\ touched' \in Seq(CacheKey) /\ Once(touched') /\ Len(touched') >= 1
         /\ touched'[Len(touched')] = k
         /\ \A i \in DOMAIN touched : \E a \in DOMAIN touched' : touched'[a] = touched[i]
         /\ \A x, y : Before(touched, x, y) /\ x # k /\ y # k => Before(touched', x, y)
         /\ \A i \in DOMAIN touched : touched[i] # k => Before(touched', touched[i], k)
<1> DEFINE r == Untouched({k})
           t == touched'
<1>1. /\ r \in Seq(CacheKey) /\ Once(r)
      /\ \A a \in DOMAIN r : r[a] \notin {k}
      /\ \A i \in DOMAIN touched : touched[i] \notin {k} => \E a \in DOMAIN r : r[a] = touched[i]
      /\ \A x, y : Before(touched, x, y) /\ x \notin {k} /\ y \notin {k} => Before(r, x, y)
  BY UntouchedIs
<1>2. t = Append(r, k)
  BY DEF Touch
<1> HIDE DEF r, t
<1>3. /\ t \in Seq(CacheKey) /\ Len(r) \in Nat /\ Len(t) = Len(r) + 1 /\ DOMAIN r = 1..Len(r)
      /\ DOMAIN t = 1..(Len(r) + 1) /\ t[Len(r) + 1] = k /\ \A a \in 1..Len(r) : t[a] = r[a]
  BY <1>1, <1>2
<1>4. /\ \A a \in DOMAIN t : a \in DOMAIN r \/ a = Len(r) + 1
      /\ \A a \in DOMAIN r : a \in DOMAIN t /\ t[a] = r[a] /\ a < Len(r) + 1
      /\ Len(r) + 1 \in DOMAIN t
  BY <1>3
<1>5. Once(t)
  BY <1>1, <1>3, <1>4 DEF Once
<1>6. ASSUME NEW i \in DOMAIN touched PROVE \E a \in DOMAIN t : t[a] = touched[i]
  <2>1. CASE touched[i] = k
    BY <1>3, <1>4, <2>1
  <2>2. CASE touched[i] # k
    <3>1. PICK a \in DOMAIN r : r[a] = touched[i]
      BY <1>1, <2>2
    <3> QED BY <1>4, <3>1
  <2> QED BY <2>1, <2>2
<1>7. ASSUME NEW x, NEW y, Before(touched, x, y), x # k, y # k PROVE Before(t, x, y)
  <2>1. Before(r, x, y)
    BY <1>1, <1>7
  <2>2. PICK a, b \in DOMAIN r : a < b /\ r[a] = x /\ r[b] = y
    BY <2>1 DEF Before
  <2> QED BY <1>4, <2>2 DEF Before
<1>8. ASSUME NEW i \in DOMAIN touched, touched[i] # k PROVE Before(t, touched[i], k)
  <2>1. PICK a \in DOMAIN r : r[a] = touched[i]
    BY <1>1, <1>8
  <2> QED BY <1>3, <1>4, <2>1 DEF Before
<1>9. Len(t) >= 1 /\ t[Len(t)] = k
  BY <1>3
<1> QED BY <1>3, <1>5, <1>6, <1>7, <1>8, <1>9 DEF t

(* A list with one entry per key, and one for another key behind it. *)
LEMMA EntryAppended ==
  ASSUME NEW c \in Seq(Entry), OncePerKey(c), NEW e \in Entry, \A i \in DOMAIN c : c[i].key # e.key
  PROVE  /\ Append(c, e) \in Seq(Entry) /\ OncePerKey(Append(c, e)) /\ Len(Append(c, e)) = Len(c) + 1
         /\ DOMAIN Append(c, e) = 1..(Len(c) + 1) /\ Append(c, e)[Len(c) + 1] = e
         /\ \A i \in DOMAIN c : Append(c, e)[i] = c[i]
         /\ Len(c) \in Nat /\ DOMAIN c = 1..Len(c)
<1> DEFINE r == Append(c, e)
<1>1. /\ r \in Seq(Entry) /\ Len(r) = Len(c) + 1 /\ DOMAIN r = 1..(Len(c) + 1) /\ r[Len(c) + 1] = e
      /\ \A i \in DOMAIN c : r[i] = c[i]
      /\ Len(c) \in Nat /\ DOMAIN c = 1..Len(c)
  OBVIOUS
<1> HIDE DEF r
<1>2. \A a \in DOMAIN r : a \in DOMAIN c \/ a = Len(c) + 1
  BY <1>1
<1>3. OncePerKey(r)
  BY <1>1, <1>2 DEF OncePerKey
<1> QED BY <1>1, <1>3 DEF r

(* A list of n elements that differ has at least n places. *)
LEMMA PlacesForAll ==
  ASSUME NEW n \in Nat, NEW p \in Nat, NEW m \in Nat, NEW q \in [1..m -> (p + 1)..n],
         \A i, j \in 1..m : q[i] = q[j] => i = j, m # 0
  PROVE  m <= n - p
<1>1. 1 \in Int /\ m \in Int /\ p + 1 \in Int /\ n \in Int
  OBVIOUS
<1>2. /\ IsFiniteSet(1..m) /\ Cardinality(1..m) = m
      /\ IsFiniteSet((p + 1)..n) /\ Cardinality((p + 1)..n) = IF p + 1 > n THEN 0 ELSE n - (p + 1) + 1
  <2>1. IsFiniteSet(1..m) /\ Cardinality(1..m) = IF 1 > m THEN 0 ELSE m - 1 + 1
    BY <1>1, FS_Interval
  <2>2. IsFiniteSet((p + 1)..n) /\ Cardinality((p + 1)..n) = IF p + 1 > n THEN 0 ELSE n - (p + 1) + 1
    BY <1>1, FS_Interval
  <2> QED BY <2>1, <2>2
<1>3. q \in Injection(1..m, (p + 1)..n)
  BY DEF Injection, IsInjective
<1>4. Cardinality(1..m) <= Cardinality((p + 1)..n)
  BY <1>2, <1>3, FS_Injection
<1> QED BY <1>2, <1>4

(* The first entry of a full cache, unless it was written in place, has as *)
(* many keys touched after it as the cache has room for once a new key is  *)
(* touched.                                                                *)
LEMMA FirstIsNotLastUsed ==
  ASSUME CacheInv, Len(cache) >= Capacity, NEW k \in CacheKey, k \notin KeysOf(cache), Touch(k),
         cache[1].key \notin rewritten
  PROVE  cache[1].key \notin LastUsed'
<1> DEFINE t == touched'
           n == Len(t)
           x == cache[1].key
<1>1. /\ cache \in Seq(Entry) /\ OncePerKey(cache) /\ Len(cache) = Capacity
      /\ touched \in Seq(CacheKey) /\ Once(touched) /\ InOrderOf(cache, touched, rewritten)
      /\ \A i \in DOMAIN cache : \E a \in DOMAIN touched : touched[a] = cache[i].key
      /\ Capacity \in Nat /\ Capacity >= 1 /\ DOMAIN cache = 1..Capacity
  BY CacheAssumption DEF CacheInv, CacheFits, TouchedFits
<1>2. \A i \in DOMAIN cache : cache[i].key # k
  BY DEF KeysOf
<1>3. /\ t \in Seq(CacheKey) /\ Once(t)
      /\ \A i \in DOMAIN touched : \E a \in DOMAIN t : t[a] = touched[i]
      /\ \A y, z : Before(touched, y, z) /\ y # k /\ z # k => Before(t, y, z)
      /\ \A i \in DOMAIN touched : touched[i] # k => Before(t, touched[i], k)
  BY <1>1, TouchIs
<1>4. 1 \in DOMAIN cache /\ x # k
  BY <1>1, <1>2
<1>5. PICK p \in DOMAIN t : t[p] = x
  BY <1>1, <1>3, <1>4, ZenonT(40)
<1>6. n \in Nat /\ DOMAIN t = 1..n /\ p \in 1..n
  BY <1>3, <1>5
<1> DEFINE Afterwards(m) == IF m = Capacity THEN k ELSE cache[m + 1].key
<1>7. ASSUME NEW m \in 1..Capacity PROVE \E a \in (p + 1)..n : t[a] = Afterwards(m)
  <2>1. Before(t, x, Afterwards(m))
    <3>1. CASE m = Capacity
      BY <1>1, <1>3, <1>4, <3>1
    <3>2. CASE m # Capacity
      <4>1. m + 1 \in DOMAIN cache /\ 1 < m + 1
        BY <1>1, <3>2
      <4>2. Before(touched, x, cache[m + 1].key) /\ cache[m + 1].key # k
        BY <1>1, <1>2, <1>4, <4>1 DEF InOrderOf
      <4> QED BY <1>3, <1>4, <3>2, <4>2
    <3> QED BY <3>1, <3>2
  <2> HIDE DEF t, n, x, Afterwards
  <2>2. PICK a, b \in DOMAIN t : a < b /\ t[a] = x /\ t[b] = Afterwards(m)
    BY <2>1 DEF Before
  <2>3. a = p
    BY <1>3, <1>5, <2>2 DEF Once
  <2>4. b \in (p + 1)..n
    BY <1>6, <2>2, <2>3
  <2> QED BY <2>2, <2>4
<1>8. \A i, j \in 1..Capacity : Afterwards(i) = Afterwards(j) => i = j
  <2>1. \A i \in 1..Capacity : i # Capacity => i + 1 \in DOMAIN cache
    BY <1>1
  <2>2. ASSUME NEW i \in 1..Capacity, NEW j \in 1..Capacity, Afterwards(i) = Afterwards(j) PROVE i = j
    <3>1. CASE i = Capacity \/ j = Capacity
      BY <1>2, <2>1, <2>2, <3>1
    <3>2. CASE i # Capacity /\ j # Capacity
      <4>1. i + 1 = j + 1
        BY <1>1, <2>1, <2>2, <3>2 DEF OncePerKey
      <4> QED BY <1>1, <4>1
    <3> QED BY <3>1, <3>2
  <2> QED BY <2>2
<1> HIDE DEF t, n, x, Afterwards
<1>9. Capacity <= n - p
  <2> DEFINE q == [m \in 1..Capacity |-> CHOOSE a \in (p + 1)..n : t[a] = Afterwards(m)]
  <2>1. \A m \in 1..Capacity : q[m] \in (p + 1)..n /\ t[q[m]] = Afterwards(m)
    BY <1>7
  <2>2. q \in [1..Capacity -> (p + 1)..n]
    BY <2>1
  <2> HIDE DEF q
  <2>3. \A i, j \in 1..Capacity : q[i] = q[j] => i = j
    BY <1>8, <2>1
  <2>4. p \in Nat /\ Capacity # 0
    BY <1>1, <1>6
  <2> QED BY <1>1, <1>6, <2>2, <2>3, <2>4, PlacesForAll
<1>10. n > Capacity /\ n - Capacity + 1 \in 1..n /\ p < n - Capacity + 1
  BY <1>1, <1>6, <1>9
<1>11. ASSUME NEW i \in DOMAIN SubSeq(t, n - Capacity + 1, n) PROVE SubSeq(t, n - Capacity + 1, n)[i] # x
  <2> DEFINE s == SubSeq(t, n - Capacity + 1, n)
  <2>1. Len(s) = Capacity /\ DOMAIN s = 1..Capacity /\ \A j \in 1..Capacity : s[j] = t[(n - Capacity + 1) + j - 1]
    BY <1>1, <1>3, <1>6, <1>10 DEF n
  <2>2. i \in 1..Capacity
    BY <1>11, <2>1
  <2>3. (n - Capacity + 1) + i - 1 \in 1..n /\ (n - Capacity + 1) + i - 1 > p
    BY <1>1, <1>6, <1>10, <2>2
  <2>4. s[i] = t[(n - Capacity + 1) + i - 1]
    BY <2>1, <2>2
  <2>5. t[(n - Capacity + 1) + i - 1] # x
    <3> DEFINE j == (n - Capacity + 1) + i - 1
    <3>1. j \in DOMAIN t /\ j # p
      BY <1>6, <2>3
    <3> HIDE DEF j
    <3>2. t[j] # x
      BY <1>3, <1>5, <3>1 DEF Once
    <3> QED BY <3>2 DEF j
  <2> QED BY <2>4, <2>5
<1>12. x \notin ToSet(SubSeq(t, n - Capacity + 1, n))
  BY <1>11 DEF ToSet
<1>13. LastUsed' = IF n <= Capacity THEN ToSet(t) ELSE ToSet(SubSeq(t, n - Capacity + 1, n))
  BY DEF LastUsed, t, n
<1>14. ~ (n <= Capacity)
  BY <1>1, <1>6, <1>10
<1> QED BY <1>12, <1>13, <1>14 DEF x

(* An entry that is read or written takes the last place. *)
LEMMA MovesToEnd ==
  ASSUME CacheInv, NEW k \in CacheKey, Touch(k), UNCHANGED <<which, minute>>,
         NEW c \in Seq(Entry), OncePerKey(c), Len(c) < Capacity,
         \A a \in DOMAIN c : c[a].key # k /\ \E i \in DOMAIN cache : c[a] = cache[i],
         \A a, b \in DOMAIN c : a < b =>
           \E i, j \in DOMAIN cache : i < j /\ c[a] = cache[i] /\ c[b] = cache[j],
         NEW e \in Entry, e.key = k, cache' = Append(c, e),
         rewritten' \subseteq CacheKey, rewritten \ {k} \subseteq rewritten'
  PROVE  CacheInv'
<1>1. /\ touched \in Seq(CacheKey) /\ Once(touched) /\ InOrderOf(cache, touched, rewritten)
      /\ \A i \in DOMAIN cache : \E a \in DOMAIN touched : touched[a] = cache[i].key
  BY DEF CacheInv, TouchedFits
<1> DEFINE t == touched'
           d == cache'
<1>2. /\ t \in Seq(CacheKey) /\ Once(t) /\ Len(t) >= 1 /\ t[Len(t)] = k
      /\ \A i \in DOMAIN touched : \E a \in DOMAIN t : t[a] = touched[i]
      /\ \A x, y : Before(touched, x, y) /\ x # k /\ y # k => Before(t, x, y)
      /\ \A i \in DOMAIN touched : touched[i] # k => Before(t, touched[i], k)
  BY <1>1, TouchIs
<1>3. /\ d \in Seq(Entry) /\ OncePerKey(d) /\ Len(d) = Len(c) + 1
      /\ DOMAIN d = 1..(Len(c) + 1) /\ d[Len(c) + 1] = e
      /\ \A i \in DOMAIN c : d[i] = c[i]
      /\ Len(c) \in Nat /\ DOMAIN c = 1..Len(c)
  BY EntryAppended
<1>4. Len(d) <= Capacity
  BY <1>3, CacheAssumption
<1> HIDE DEF t, d
<1>5. /\ \A i \in DOMAIN d : i \in DOMAIN c \/ i = Len(c) + 1
      /\ Len(t) \in DOMAIN t
  BY <1>2, <1>3
<1>6. ASSUME NEW i \in DOMAIN d PROVE \E a \in DOMAIN t : t[a] = d[i].key
  <2>1. CASE i \in DOMAIN c
    <3>1. PICK j \in DOMAIN cache : d[i] = cache[j]
      BY <1>3, <2>1
    <3> QED BY <1>1, <1>2, <3>1
  <2>2. CASE i = Len(c) + 1
    BY <1>2, <1>3, <1>5, <2>2
  <2> QED BY <1>5, <2>1, <2>2
<1>7. ASSUME NEW a \in DOMAIN d, NEW b \in DOMAIN d, a < b, d[a].key \notin rewritten'
      PROVE  Before(t, d[a].key, d[b].key)
  <2>1. a \in DOMAIN c /\ d[a] = c[a] /\ c[a].key # k /\ c[a].key \notin rewritten
    <3>1. a \in DOMAIN c
      BY <1>3, <1>5, <1>7
    <3> QED BY <1>3, <1>7, <3>1
  <2>2. CASE b \in DOMAIN c
    <3>1. PICK i, j \in DOMAIN cache : i < j /\ c[a] = cache[i] /\ c[b] = cache[j]
      BY <1>7, <2>1, <2>2
    <3>2. Before(touched, c[a].key, c[b].key)
      BY <1>1, <2>1, <3>1 DEF InOrderOf
    <3> QED BY <1>2, <1>3, <2>1, <2>2, <3>2
  <2>3. CASE b = Len(c) + 1
    <3>1. PICK j \in DOMAIN cache : c[a] = cache[j]
      BY <2>1
    <3>2. PICK i \in DOMAIN touched : touched[i] = c[a].key
      BY <1>1, <3>1
    <3> QED BY <1>2, <1>3, <2>1, <2>3, <3>2
  <2> QED BY <1>5, <2>2, <2>3
<1>8. InOrderOf(d, t, rewritten')
  BY <1>7 DEF InOrderOf
<1>9. which' \in {"query", "provider", "robots"} /\ minute' \in 0..MaxMinute
  BY DEF CacheInv
<1> QED BY <1>2, <1>3, <1>4, <1>6, <1>8, <1>9 DEF CacheInv, CacheFits, TouchedFits, t, d

(* Entries that go leave the others in their order. *)
LEMMA SomeGo ==
  ASSUME CacheInv, UNCHANGED <<which, minute, rewritten>>,
         cache' \in Seq(Entry), OncePerKey(cache'), Len(cache') <= Len(cache),
         \A a \in DOMAIN cache' : \E i \in DOMAIN cache : cache'[a] = cache[i],
         \A a, b \in DOMAIN cache' : a < b =>
           \E i, j \in DOMAIN cache : i < j /\ cache'[a] = cache[i] /\ cache'[b] = cache[j],
         touched' \in Seq(CacheKey), Once(touched'),
         \A a \in DOMAIN cache' : \E i \in DOMAIN touched' : touched'[i] = cache'[a].key,
         \A a, b \in DOMAIN cache' : Before(touched, cache'[a].key, cache'[b].key)
                                       => Before(touched', cache'[a].key, cache'[b].key)
  PROVE  CacheInv'
<1>1. InOrderOf(cache', touched', rewritten')
  <2> SUFFICES ASSUME NEW a \in DOMAIN cache', NEW b \in DOMAIN cache', a < b,
                      cache'[a].key \notin rewritten
               PROVE  Before(touched', cache'[a].key, cache'[b].key)
    BY DEF InOrderOf
  <2>1. PICK i, j \in DOMAIN cache : i < j /\ cache'[a] = cache[i] /\ cache'[b] = cache[j]
    OBVIOUS
  <2>2. Before(touched, cache'[a].key, cache'[b].key)
    BY <2>1 DEF CacheInv, InOrderOf
  <2> QED BY <2>2
<1>2. Len(cache') <= Capacity
  <2>1. Len(cache') \in Nat /\ Len(cache) \in Nat /\ Len(cache) <= Capacity /\ Capacity \in Nat
    BY CacheAssumption DEF CacheInv, CacheFits
  <2> QED BY <2>1
<1> QED BY <1>1, <1>2 DEF CacheInv, CacheFits, TouchedFits

(* The entry of a key, of which there is one. *)
LEMMA EntryOfIs ==
  ASSUME CacheInv, NEW i \in DOMAIN cache
  PROVE  EntryOf(cache, cache[i].key) = cache[i]
<1>1. \A e \in ToSet(cache) : e.key = cache[i].key => e = cache[i]
  BY DEF ToSet, CacheInv, CacheFits, OncePerKey
<1>2. cache[i] \in ToSet(cache)
  BY DEF ToSet
<1> QED BY <1>1, <1>2 DEF EntryOf

LEMMA WrittenEntry ==
  ASSUME CacheInv, NEW k \in CacheKey
  PROVE  NewEntry(k) \in Entry /\ NewEntry(k).key = k
BY DEF CacheInv, NewEntry, Entry

LEMMA CacheGetStep ==
  ASSUME CacheInv, NEW k \in CacheKey, CacheGet(k)
  PROVE  /\ CacheInv'
         /\ \A x \in KeysOf(cache) : x \in KeysOf(cache') \/ Expired(EntryOf(cache, x))
<1> DEFINE c == Without(cache, {k})
           e == EntryOf(cache, k)
<1>1. /\ cache \in Seq(Entry) /\ OncePerKey(cache) /\ Len(cache) <= Capacity /\ Len(cache) \in Nat
      /\ touched \in Seq(CacheKey) /\ Once(touched) /\ rewritten \subseteq CacheKey
      /\ \A i \in DOMAIN cache : \E a \in DOMAIN touched : touched[a] = cache[i].key
  BY DEF CacheInv, CacheFits, TouchedFits
<1>2. PICK i \in DOMAIN cache : cache[i].key = k
  BY DEF CacheGet, KeysOf
<1>3. /\ c \in Seq(Entry) /\ OncePerKey(c) /\ Len(c) < Len(cache) /\ Len(c) <= Len(cache) /\ Len(c) \in Nat
      /\ \A a \in DOMAIN c : \E j \in DOMAIN cache : cache[j].key \notin {k} /\ c[a] = cache[j]
      /\ \A j \in DOMAIN cache : cache[j].key \notin {k} => \E a \in DOMAIN c : c[a] = cache[j]
      /\ \A a, b \in DOMAIN c : a < b => \E j, l \in DOMAIN cache : j < l /\ c[a] = cache[j] /\ c[b] = cache[l]
  <2>1. \E j \in DOMAIN cache : cache[j].key \in {k}
    BY <1>2
  <2>2. /\ c \in Seq(Entry) /\ OncePerKey(c) /\ Len(c) < Len(cache)
        /\ \A a \in DOMAIN c : \E j \in DOMAIN cache : cache[j].key \notin {k} /\ c[a] = cache[j]
        /\ \A j \in DOMAIN cache : cache[j].key \notin {k} => \E a \in DOMAIN c : c[a] = cache[j]
        /\ \A a, b \in DOMAIN c : a < b => \E j, l \in DOMAIN cache : j < l /\ c[a] = cache[j] /\ c[b] = cache[l]
    BY <1>1, <2>1, WithoutIs
  <2> HIDE DEF c
  <2>3. Len(c) \in Nat /\ Len(c) <= Len(cache)
    BY <1>1, <2>2
  <2> QED BY <2>2, <2>3
<1>4. e = cache[i] /\ e \in Entry /\ e.key = k
  BY <1>1, <1>2, EntryOfIs
<1>5. UNCHANGED <<which, minute>>
  BY DEF CacheGet
<1> HIDE DEF c, e
<1>6. CASE Expired(EntryOf(cache, k))
  <2>1. cache' = c /\ UNCHANGED <<touched, rewritten>>
    BY <1>6 DEF CacheGet, c
  <2>2. CacheInv'
    <3>1. ASSUME NEW a \in DOMAIN c PROVE \E j \in DOMAIN touched : touched[j] = c[a].key
      <4>1. PICK j \in DOMAIN cache : c[a] = cache[j]
        BY <1>3
      <4> QED BY <1>1, <4>1
    <3>2. \A a \in DOMAIN c : \E j \in DOMAIN cache : c[a] = cache[j]
      BY <1>3
    <3> QED BY <1>1, <1>3, <1>5, <2>1, <3>1, <3>2, SomeGo
  <2>3. ASSUME NEW x \in KeysOf(cache), x # k PROVE x \in KeysOf(cache')
    BY <1>3, <2>1, <2>3 DEF KeysOf
  <2> QED BY <1>6, <2>2, <2>3
<1>7. CASE ~ Expired(EntryOf(cache, k))
  <2>1. cache' = Append(c, e) /\ Touch(k) /\ rewritten' = rewritten \ {k}
    BY <1>7 DEF CacheGet, Moved, c, e
  <2>2. Len(c) < Capacity
    BY <1>1, <1>3, CacheAssumption
  <2>3. \A a \in DOMAIN c : c[a].key # k /\ \E j \in DOMAIN cache : c[a] = cache[j]
    BY <1>3
  <2>4. CacheInv'
    BY <1>1, <1>3, <1>4, <1>5, <2>1, <2>2, <2>3, MovesToEnd
  <2>5. /\ DOMAIN cache' = 1..(Len(c) + 1) /\ cache'[Len(c) + 1] = e
        /\ \A a \in DOMAIN c : cache'[a] = c[a] /\ a \in DOMAIN cache'
    BY <1>3, <1>4, <2>1
  <2>6. ASSUME NEW x \in KeysOf(cache) PROVE x \in KeysOf(cache')
    <3>1. CASE x = k
      <4>1. Len(c) + 1 \in DOMAIN cache' /\ cache'[Len(c) + 1].key = k
        BY <1>3, <1>4, <2>5
      <4> QED BY <3>1, <4>1 DEF KeysOf
    <3>2. CASE x # k
      BY <1>3, <2>5, <3>2 DEF KeysOf
    <3> QED BY <3>1, <3>2
  <2> QED BY <2>4, <2>6
<1> QED BY <1>6, <1>7

LEMMA CacheSetStep ==
  ASSUME CacheInv, NEW k \in CacheKey, CacheSet(k)
  PROVE  /\ CacheInv'
         /\ \A x \in KeysOf(cache) : x \in KeysOf(cache') \/ x \in rewritten \/ x \notin LastUsed'
<1> DEFINE e == NewEntry(k)
<1>1. /\ cache \in Seq(Entry) /\ OncePerKey(cache) /\ Len(cache) <= Capacity /\ Len(cache) \in Nat
      /\ DOMAIN cache = 1..Len(cache)
      /\ touched \in Seq(CacheKey) /\ Once(touched) /\ rewritten \subseteq CacheKey
      /\ \A i \in DOMAIN cache : \E a \in DOMAIN touched : touched[a] = cache[i].key
      /\ Capacity \in Nat /\ Capacity >= 1
  BY CacheAssumption DEF CacheInv, CacheFits, TouchedFits
<1>2. e \in Entry /\ e.key = k
  BY WrittenEntry
<1>3. Touch(k) /\ UNCHANGED <<which, minute>>
  BY DEF CacheSet
<1>4. \/ /\ k \notin KeysOf(cache) /\ cache' = Append(Evicted(cache), e) /\ rewritten' = rewritten \ {k}
      \/ /\ k \in KeysOf(cache) /\ cache' = Append(Without(cache, {k}), e) /\ UNCHANGED rewritten
      \/ /\ k \in KeysOf(cache) /\ rewritten' = rewritten \cup {k}
         /\ cache' = [i \in DOMAIN cache |-> IF cache[i].key = k THEN e ELSE cache[i]]
  BY DEF CacheSet
<1> HIDE DEF e
<1>5. ASSUME NEW c \in Seq(Entry), cache' = Append(c, e)
      PROVE  /\ DOMAIN cache' = 1..(Len(c) + 1) /\ Len(c) + 1 \in DOMAIN cache' /\ cache'[Len(c) + 1] = e
             /\ \A a \in DOMAIN c : cache'[a] = c[a] /\ a \in DOMAIN cache'
  BY <1>2, <1>5
<1>6. CASE k \notin KeysOf(cache) /\ cache' = Append(Evicted(cache), e) /\ rewritten' = rewritten \ {k}
  <2> DEFINE c == Evicted(cache)
  <2>1. \A i \in DOMAIN cache : cache[i].key # k
    BY <1>6 DEF KeysOf
  <2>9. rewritten' \subseteq CacheKey /\ rewritten \ {k} \subseteq rewritten'
    BY <1>1, <1>6
  <2>2. CASE Len(cache) < Capacity
    <3>1. c = cache
      <4>1. ~ (Len(cache) >= Capacity)
        BY <1>1, <2>2
      <4> QED BY <4>1, Zenon DEF Evicted
    <3>2. /\ \A a \in DOMAIN c : c[a].key # k /\ \E i \in DOMAIN cache : c[a] = cache[i]
          /\ \A a, b \in DOMAIN c : a < b => \E i, j \in DOMAIN cache : i < j /\ c[a] = cache[i] /\ c[b] = cache[j]
          /\ c \in Seq(Entry) /\ OncePerKey(c) /\ Len(c) < Capacity /\ cache' = Append(c, e)
      BY <1>1, <1>6, <2>1, <2>2, <3>1
    <3> HIDE DEF c
    <3>3. CacheInv'
      BY <1>2, <1>3, <2>9, <3>2, MovesToEnd
    <3>4. ASSUME NEW x \in KeysOf(cache) PROVE x \in KeysOf(cache')
      <4>1. PICK i \in DOMAIN cache : cache[i].key = x
        BY DEF KeysOf
      <4>2. i \in DOMAIN cache' /\ cache'[i] = cache[i]
        BY <1>5, <3>1, <3>2
      <4> QED BY <4>1, <4>2 DEF KeysOf
    <3> QED BY <3>3, <3>4
  <2>3. CASE ~ (Len(cache) < Capacity)
    <3>1. Len(cache) = Capacity /\ c = Tail(cache) /\ cache # <<>>
      <4>1. Len(cache) >= Capacity /\ Len(cache) = Capacity /\ cache # <<>>
        <5> DEFINE n == Len(cache)
        <5>1. n \in Nat /\ n <= Capacity /\ ~ (n < Capacity) /\ Capacity \in Nat /\ Capacity >= 1
          BY <1>1, <2>3
        <5>2. cache = <<>> => n = 0
          OBVIOUS
        <5> HIDE DEF n
        <5>3. n = Capacity /\ n # 0
          BY <5>1
        <5> QED BY <5>1, <5>2, <5>3 DEF n
      <4>2. c = Tail(cache)
        BY <4>1, Zenon DEF Evicted
      <4> QED BY <4>1, <4>2
    <3>2. /\ c \in Seq(Entry) /\ Len(c) = Len(cache) - 1 /\ DOMAIN c = 1..(Len(cache) - 1)
          /\ \A a \in DOMAIN c : c[a] = cache[a + 1]
      BY <1>1, <3>1
    <3> HIDE DEF c
    <3>3. \A a \in DOMAIN c : a + 1 \in DOMAIN cache
      BY <1>1, <3>2
    <3>4. OncePerKey(c)
      <4>1. ASSUME NEW a \in DOMAIN c, NEW b \in DOMAIN c, c[a].key = c[b].key PROVE a = b
        <5>1. a + 1 = b + 1
          BY <1>1, <3>2, <3>3, <4>1 DEF OncePerKey
        <5> QED BY <3>2, <5>1
      <4> QED BY <4>1 DEF OncePerKey
    <3>5. \A a \in DOMAIN c : c[a].key # k /\ \E i \in DOMAIN cache : c[a] = cache[i]
      BY <2>1, <3>2, <3>3
    <3>6. ASSUME NEW a \in DOMAIN c, NEW b \in DOMAIN c, a < b
          PROVE  \E i, j \in DOMAIN cache : i < j /\ c[a] = cache[i] /\ c[b] = cache[j]
      <4>1. a + 1 < b + 1
        BY <3>2, <3>6
      <4> QED BY <3>2, <3>3, <4>1
    <3>7. Len(c) < Capacity /\ cache' = Append(c, e)
      BY <1>1, <1>6, <3>1, <3>2 DEF c
    <3>8. CacheInv'
      BY <1>2, <1>3, <2>9, <3>2, <3>4, <3>5, <3>6, <3>7, MovesToEnd
    <3>9. ASSUME NEW x \in KeysOf(cache), x # cache[1].key PROVE x \in KeysOf(cache')
      <4>1. PICK i \in DOMAIN cache : cache[i].key = x
        BY DEF KeysOf
      <4>2. i - 1 \in DOMAIN c /\ c[i - 1] = cache[i]
        <5>1. i # 1
          BY <3>9, <4>1
        <5>2. i - 1 \in DOMAIN c /\ (i - 1) + 1 = i
          BY <1>1, <3>2, <5>1
        <5> QED BY <3>2, <5>2
      <4> QED BY <1>5, <3>2, <3>7, <4>1, <4>2 DEF KeysOf
    <3>10. cache[1].key \in rewritten \/ cache[1].key \notin LastUsed'
      BY <1>1, <1>3, <1>6, <3>1, FirstIsNotLastUsed
    <3> QED BY <3>8, <3>9, <3>10
  <2> QED BY <2>2, <2>3
<1>7. CASE k \in KeysOf(cache) /\ cache' = Append(Without(cache, {k}), e) /\ UNCHANGED rewritten
  <2> DEFINE c == Without(cache, {k})
  <2>1. /\ c \in Seq(Entry) /\ OncePerKey(c) /\ Len(c) < Len(cache)
        /\ \A a \in DOMAIN c : \E j \in DOMAIN cache : cache[j].key \notin {k} /\ c[a] = cache[j]
        /\ \A j \in DOMAIN cache : cache[j].key \notin {k} => \E a \in DOMAIN c : c[a] = cache[j]
        /\ \A a, b \in DOMAIN c : a < b => \E j, l \in DOMAIN cache : j < l /\ c[a] = cache[j] /\ c[b] = cache[l]
    <3>1. \E i \in DOMAIN cache : cache[i].key \in {k}
      BY <1>7 DEF KeysOf
    <3> QED BY <1>1, <3>1, WithoutIs
  <2>2. cache' = Append(c, e) /\ rewritten' = rewritten
    BY <1>7
  <2> HIDE DEF c
  <2>3. Len(c) < Capacity
    BY <1>1, <2>1
  <2>4. \A a \in DOMAIN c : c[a].key # k /\ \E j \in DOMAIN cache : c[a] = cache[j]
    BY <2>1
  <2>5. CacheInv'
    BY <1>1, <1>2, <1>3, <2>1, <2>2, <2>3, <2>4, MovesToEnd
  <2>6. ASSUME NEW x \in KeysOf(cache) PROVE x \in KeysOf(cache')
    <3>1. CASE x = k
      BY <1>2, <1>5, <2>1, <2>2, <3>1 DEF KeysOf
    <3>2. CASE x # k
      BY <1>5, <2>1, <2>2, <3>2 DEF KeysOf
    <3> QED BY <3>1, <3>2
  <2> QED BY <2>5, <2>6
<1>8. CASE /\ k \in KeysOf(cache) /\ rewritten' = rewritten \cup {k}
           /\ cache' = [i \in DOMAIN cache |-> IF cache[i].key = k THEN e ELSE cache[i]]
  <2>1. /\ cache' \in Seq(Entry) /\ Len(cache') = Len(cache) /\ DOMAIN cache' = DOMAIN cache
        /\ \A i \in DOMAIN cache : cache'[i].key = cache[i].key
    BY <1>1, <1>2, <1>8
  <2>2. /\ touched' \in Seq(CacheKey) /\ Once(touched')
        /\ \A i \in DOMAIN touched : \E a \in DOMAIN touched' : touched'[a] = touched[i]
        /\ \A x, y : Before(touched, x, y) /\ x # k /\ y # k => Before(touched', x, y)
        /\ \A i \in DOMAIN touched : touched[i] # k => Before(touched', touched[i], k)
    BY <1>1, <1>3, TouchIs
  <2>3. OncePerKey(cache')
    BY <1>1, <2>1 DEF OncePerKey
  <2>4. \A i \in DOMAIN cache' : \E a \in DOMAIN touched' : touched'[a] = cache'[i].key
    BY <1>1, <2>1, <2>2
  <2>5. ASSUME NEW i \in DOMAIN cache, NEW j \in DOMAIN cache, i < j, cache[i].key \notin rewritten'
        PROVE  Before(touched', cache[i].key, cache[j].key)
    <3>1. cache[i].key # k /\ Before(touched, cache[i].key, cache[j].key)
      BY <1>8, <2>5 DEF CacheInv, InOrderOf
    <3>2. PICK a \in DOMAIN touched : touched[a] = cache[i].key
      BY <1>1
    <3> QED BY <2>2, <3>1, <3>2
  <2>6. InOrderOf(cache', touched', rewritten')
    BY <2>1, <2>5 DEF InOrderOf
  <2>7. rewritten' \subseteq CacheKey
    BY <1>1, <1>8
  <2>8. CacheInv'
    BY <1>1, <1>3, <2>1, <2>2, <2>3, <2>4, <2>6, <2>7 DEF CacheInv, CacheFits, TouchedFits
  <2>9. KeysOf(cache') = KeysOf(cache)
    BY <2>1 DEF KeysOf
  <2> QED BY <2>8, <2>9
<1> QED BY <1>4, <1>6, <1>7, <1>8

LEMMA CachePurgeStep ==
  ASSUME CacheInv, CachePurge
  PROVE  /\ CacheInv'
         /\ \A x \in KeysOf(cache) : x \in KeysOf(cache') \/ Expired(EntryOf(cache, x))
<1> DEFINE places == {i \in DOMAIN cache : ~Expired(cache[i])}
<1>1. /\ cache \in Seq(Entry) /\ OncePerKey(cache)
      /\ touched \in Seq(CacheKey) /\ Once(touched)
      /\ \A i \in DOMAIN cache : \E a \in DOMAIN touched : touched[a] = cache[i].key
  BY DEF CacheInv, CacheFits, TouchedFits
<1>2. cache' = Kept(cache, places) /\ UNCHANGED <<which, minute, touched, rewritten>>
  BY DEF CachePurge
<1>3. \A i \in DOMAIN cache : i \notin places => Expired(cache[i])
  OBVIOUS
<1> HIDE DEF places
<1>4. /\ cache' \in Seq(Entry) /\ OncePerKey(cache') /\ Len(cache') <= Len(cache)
      /\ \A a \in DOMAIN cache' : \E i \in DOMAIN cache : i \in places /\ cache'[a] = cache[i]
      /\ \A i \in DOMAIN cache : i \in places => \E a \in DOMAIN cache' : cache'[a] = cache[i]
      /\ \A a, b \in DOMAIN cache' : a < b =>
           \E i, j \in DOMAIN cache : i < j /\ cache'[a] = cache[i] /\ cache'[b] = cache[j]
  BY <1>1, <1>2, KeptIs
<1>5. /\ \A a \in DOMAIN cache' : \E i \in DOMAIN cache : cache'[a] = cache[i]
      /\ \A a \in DOMAIN cache' : \E i \in DOMAIN touched : touched[i] = cache'[a].key
  <2>1. ASSUME NEW a \in DOMAIN cache'
        PROVE  /\ \E i \in DOMAIN cache : cache'[a] = cache[i]
               /\ \E i \in DOMAIN touched : touched[i] = cache'[a].key
    <3>1. PICK i \in DOMAIN cache : cache'[a] = cache[i]
      BY <1>4
    <3> QED BY <1>1, <3>1
  <2> QED BY <2>1
<1>6. CacheInv'
  BY <1>1, <1>2, <1>4, <1>5, SomeGo
<1>7. ASSUME NEW x \in KeysOf(cache), x \notin KeysOf(cache') PROVE Expired(EntryOf(cache, x))
  <2>1. PICK i \in DOMAIN cache : cache[i].key = x
    BY DEF KeysOf
  <2>2. i \notin places
    BY <1>4, <1>7, <2>1 DEF KeysOf
  <2> QED BY <1>3, <2>1, <2>2, EntryOfIs
<1> QED BY <1>6, <1>7

LEMMA CacheDropsStep ==
  ASSUME CacheInv, NEW ks, CacheDrops(ks)
  PROVE  /\ CacheInv'
         /\ \A x \in KeysOf(cache) : x \in KeysOf(cache') \/ x \notin LastUsed'
<1>1. /\ cache \in Seq(Entry) /\ OncePerKey(cache)
      /\ touched \in Seq(CacheKey) /\ Once(touched)
      /\ \A i \in DOMAIN cache : \E a \in DOMAIN touched : touched[a] = cache[i].key
  BY DEF CacheInv, CacheFits, TouchedFits
<1>2. cache' = Without(cache, ks) /\ touched' = Untouched(ks) /\ UNCHANGED <<which, minute, rewritten>>
  BY DEF CacheDrops
<1>3. /\ cache' \in Seq(Entry) /\ OncePerKey(cache') /\ Len(cache') <= Len(cache)
      /\ \A a \in DOMAIN cache' : \E i \in DOMAIN cache : cache[i].key \notin ks /\ cache'[a] = cache[i]
      /\ \A i \in DOMAIN cache : cache[i].key \notin ks => \E a \in DOMAIN cache' : cache'[a] = cache[i]
      /\ \A a, b \in DOMAIN cache' : a < b =>
           \E i, j \in DOMAIN cache : i < j /\ cache'[a] = cache[i] /\ cache'[b] = cache[j]
  BY <1>1, <1>2, WithoutIs
<1>4. /\ touched' \in Seq(CacheKey) /\ Once(touched')
      /\ \A a \in DOMAIN touched' : touched'[a] \notin ks
      /\ \A i \in DOMAIN touched : touched[i] \notin ks => \E a \in DOMAIN touched' : touched'[a] = touched[i]
      /\ \A x, y : Before(touched, x, y) /\ x \notin ks /\ y \notin ks => Before(touched', x, y)
  BY <1>1, <1>2, UntouchedIs
<1>5. \A a \in DOMAIN cache' : cache'[a].key \notin ks
  BY <1>3
<1>6. ASSUME NEW a \in DOMAIN cache' PROVE \E i \in DOMAIN touched' : touched'[i] = cache'[a].key
  <2>1. PICK i \in DOMAIN cache : cache[i].key \notin ks /\ cache'[a] = cache[i]
    BY <1>3
  <2>2. PICK j \in DOMAIN touched : touched[j] = cache[i].key
    BY <1>1
  <2> QED BY <1>4, <2>1, <2>2
<1>7. /\ \A a \in DOMAIN cache' : \E i \in DOMAIN cache : cache'[a] = cache[i]
      /\ \A a, b \in DOMAIN cache' : Before(touched, cache'[a].key, cache'[b].key)
                                       => Before(touched', cache'[a].key, cache'[b].key)
  BY <1>3, <1>4, <1>5
<1>8. CacheInv'
  BY <1>2, <1>3, <1>4, <1>6, <1>7, SomeGo
<1>9. ASSUME NEW x \in KeysOf(cache), x \notin KeysOf(cache') PROVE x \notin LastUsed'
  <2>1. x \in ks
    BY <1>3, <1>9 DEF KeysOf
  <2>2. \A a \in DOMAIN touched' : touched'[a] # x
    BY <1>4, <2>1
  <2>3. x \notin ToSet(touched')
    BY <2>2 DEF ToSet
  <2> DEFINE t == touched'
             n == Len(t)
             s == SubSeq(t, n - Capacity + 1, n)
  <2>4. LastUsed' = IF n <= Capacity THEN ToSet(t) ELSE ToSet(s)
    BY DEF LastUsed
  <2>5. CASE n <= Capacity
    BY <2>3, <2>4, <2>5
  <2>6. CASE ~ (n <= Capacity)
    <3>1. n \in Nat /\ Capacity \in Nat /\ DOMAIN t = 1..n
      BY <1>4, CacheAssumption
    <3>2. /\ DOMAIN s = 1..Capacity
          /\ \A i \in 1..Capacity : /\ s[i] = t[(n - Capacity + 1) + i - 1]
                                    /\ (n - Capacity + 1) + i - 1 \in DOMAIN t
      <4> HIDE DEF t
      <4>1. t \in Seq(CacheKey) /\ n - Capacity + 1 \in 1..n /\ n = Len(t)
        <5>1. t \in Seq(CacheKey)
          BY <1>4 DEF t
        <5>2. Capacity >= 1
          BY CacheAssumption
        <5> QED BY <2>6, <3>1, <5>1, <5>2
      <4>2. Len(s) = n - (n - Capacity + 1) + 1 /\ DOMAIN s = 1..Len(s)
        BY <3>1, <4>1
      <4>3. Len(s) = Capacity
        BY <3>1, <4>2
      <4>4. \A i \in 1..Capacity : s[i] = t[(n - Capacity + 1) + i - 1]
        BY <3>1, <4>1, <4>2, <4>3
      <4>5. \A i \in 1..Capacity : (n - Capacity + 1) + i - 1 \in 1..n
        BY <2>6, <3>1
      <4> QED BY <3>1, <4>2, <4>3, <4>4, <4>5
    <3> HIDE DEF s, n, t
    <3>3. x \notin ToSet(s)
      BY <2>2, <3>2 DEF ToSet, t
    <3> QED BY <2>4, <2>6, <3>3
  <2> QED BY <2>5, <2>6
<1> QED BY <1>8, <1>9

LEMMA CacheNextStep ==
  ASSUME CacheInv, [CacheNext]_cacheVars
  PROVE  /\ CacheInv'
         /\ [\A k \in KeysOf(cache) \cap LastUsed' :
               k \in KeysOf(cache') \/ k \in rewritten \/ Expired(EntryOf(cache, k))]_cacheVars
<1> DEFINE Stay == \A k \in KeysOf(cache) \cap LastUsed' :
                     k \in KeysOf(cache') \/ k \in rewritten \/ Expired(EntryOf(cache, k))
<1>1. CASE UNCHANGED cacheVars
  BY <1>1 DEF cacheVars, CacheInv, CacheFits, TouchedFits, InOrderOf
<1>2. CASE CacheTick
  <2>1. minute' \in 0..MaxMinute /\ UNCHANGED <<which, cache, touched, rewritten>>
    BY <1>2, CacheAssumption DEF CacheTick, CacheInv
  <2>2. CacheInv'
    BY <2>1 DEF CacheInv, CacheFits, TouchedFits, InOrderOf
  <2> QED BY <2>1, <2>2
<1>3. ASSUME NEW k \in CacheKey, CacheGet(k) PROVE CacheInv' /\ Stay
  BY <1>3, CacheGetStep
<1>4. ASSUME NEW k \in CacheKey, CacheSet(k) PROVE CacheInv' /\ Stay
  BY <1>4, CacheSetStep
<1>5. CASE CachePurge
  <2>1. CacheInv' /\ Stay
    BY <1>5, CachePurgeStep
  <2> QED BY <2>1
<1>6. ASSUME NEW ks, CacheDrops(ks) PROVE CacheInv' /\ Stay
  BY <1>6, CacheDropsStep
<1> HIDE DEF Stay
<1>7. CASE CacheNext
  <2>1. CASE \E k \in CacheKey : CacheGet(k) \/ CacheSet(k) \/ CacheDrops({k})
    BY <1>3, <1>4, <1>6, <2>1 DEF Stay
  <2>2. CASE CacheDrops(CacheKey)
    BY <1>6, <2>2 DEF Stay
  <2> QED BY <1>2, <1>5, <1>7, <2>1, <2>2 DEF CacheNext
<1> QED BY <1>1, <1>7

LEMMA CacheProperties == CacheInv => CacheTypeOK /\ CapacityHeld
<1> SUFFICES ASSUME CacheInv PROVE CacheTypeOK /\ CapacityHeld
  OBVIOUS
<1>1. /\ cache \in Seq(Entry) /\ OncePerKey(cache) /\ Len(cache) <= Capacity
      /\ DOMAIN cache = 1..Len(cache) /\ Len(cache) \in Nat
  BY DEF CacheInv, CacheFits
<1>2. CacheTypeOK
  BY DEF CacheInv, CacheFits, TouchedFits, CacheTypeOK
<1>3. Cardinality(KeysOf(cache)) = Len(cache)
  <2> DEFINE n == Len(cache)
             f == [i \in 1..n |-> cache[i].key]
  <2>1. f \in Bijection(1..n, KeysOf(cache))
    <3>1. f \in [1..n -> KeysOf(cache)]
      BY <1>1 DEF KeysOf
    <3>2. \A i, j \in 1..n : f[i] = f[j] => i = j
      BY <1>1 DEF OncePerKey
    <3>3. \A x \in KeysOf(cache) : \E i \in 1..n : f[i] = x
      BY <1>1 DEF KeysOf
    <3> HIDE DEF f, n
    <3> QED BY <3>1, <3>2, <3>3 DEF Bijection, Injection, Surjection, IsInjective
  <2>2. IsFiniteSet(1..n) /\ Cardinality(1..n) = n
    <3>1. 1 \in Int /\ n \in Int
      BY <1>1
    <3>2. IsFiniteSet(1..n) /\ Cardinality(1..n) = IF 1 > n THEN 0 ELSE n - 1 + 1
      BY <3>1, FS_Interval
    <3> QED BY <1>1, <3>2
  <2> HIDE DEF f, n
  <2>3. ExistsBijection(1..n, KeysOf(cache))
    BY <2>1 DEF ExistsBijection
  <2>4. Cardinality(KeysOf(cache)) = n
    BY <2>2, <2>3, FS_Bijection
  <2> QED BY <2>4 DEF n
<1> QED BY <1>1, <1>2, <1>3 DEF CapacityHeld

(***************************************************************************)
(* The rules of robots.txt.  The agents of the group that is read are      *)
(* those of the lines that are open, and a rule or a delay was read for    *)
(* it just when one stands below each of these lines; so when the next     *)
(* user agent begins a group, none of them stays open.                     *)
(***************************************************************************)
AgentsOf(g)   == ToSet(g.agents)
NamedIn(L)    == {lines[i].agent : i \in L}
OpenLines     == {i \in 1..Len(lines) : IsOpen(i, Len(lines))}
RuleGroup     == [agents : Seq(Agent), rules : Seq(Rule)]
CurrentGroup  == [agents |-> agents, rules |-> rules]

Groups        == {groups[g] : g \in DOMAIN groups} \cup {CurrentGroup}

\* the rules of a group stand below the lines that name its agents
StandsBelow(g) ==
  \A r \in DOMAIN g.rules :
    LET above == AgentLinesOf(g.rules[r].line)
    IN  g.rules[r].line \in 1..Len(lines) /\ AgentsOf(g) = NamedIn(above) /\ above # {}

RulesFile ==
  /\ lines \in Seq(Line) /\ Len(lines) <= MaxLines
  /\ agents \in Seq(Agent) /\ rules \in Seq(Rule) /\ delayed \in BOOLEAN
  /\ groups \in Seq(RuleGroup)
  /\ rules # <<>> \/ delayed => agents # <<>>

RulesInv ==
  /\ RulesFile
  /\ AgentsOf(CurrentGroup) = NamedIn(OpenLines)
  /\ \A i \in OpenLines : (rules # <<>> \/ delayed) <=> \E k \in i..Len(lines) : Splits(k)
  /\ \A g \in Groups : StandsBelow(g)

LEMMA RulesInitInvariant == RulesInit => RulesInv
<1> SUFFICES ASSUME RulesInit PROVE RulesInv
  OBVIOUS
<1>1. lines = <<>> /\ groups = <<>> /\ agents = <<>> /\ rules = <<>> /\ delayed = FALSE
  BY DEF RulesInit
<1>2. Len(<<>>) = 0 /\ DOMAIN <<>> = {} /\ 1..0 = {} /\ MaxLines \in Nat
  BY RulesAssumption
<1>3. OpenLines = {}
  BY <1>1, <1>2 DEF OpenLines
<1>4. AgentsOf(CurrentGroup) = NamedIn(OpenLines)
  BY <1>1, <1>2, <1>3 DEF AgentsOf, ToSet, CurrentGroup, NamedIn
<1>5. \A g \in Groups : StandsBelow(g)
  BY <1>1, <1>2 DEF StandsBelow, CurrentGroup, Groups
<1>6. RulesFile
  <2>1. <<>> \in Seq(Line) /\ <<>> \in Seq(Agent) /\ <<>> \in Seq(Rule) /\ <<>> \in Seq(RuleGroup)
    OBVIOUS
  <2>2. /\ lines \in Seq(Line) /\ agents \in Seq(Agent) /\ rules \in Seq(Rule)
        /\ groups \in Seq(RuleGroup) /\ delayed \in BOOLEAN /\ ~(rules # <<>> \/ delayed)
    BY <1>1, <2>1
  <2>3. Len(lines) <= MaxLines
    BY <1>1, <1>2
  <2> QED BY <2>2, <2>3 DEF RulesFile
<1> QED BY <1>3, <1>4, <1>5, <1>6 DEF RulesInv

(* What is read stays what it was when a line is added. *)
LEMMA LineAdded ==
  ASSUME lines \in Seq(Line), NEW l \in Line, lines' = Append(lines, l)
  PROVE  /\ Len(lines) \in Nat /\ Len(lines') = Len(lines) + 1 /\ lines' \in Seq(Line)
         /\ lines'[Len(lines) + 1] = l
         /\ \A i \in 1..Len(lines) : lines'[i] = lines[i] /\ (Splits(i)' <=> Splits(i))
         /\ \A n \in 0..Len(lines) : \A i \in 1..n : IsOpen(i, n)' <=> IsOpen(i, n)
         /\ \A j \in 1..(Len(lines) + 1) : AgentLinesOf(j)' = AgentLinesOf(j)
<1>1. /\ Len(lines) \in Nat /\ Len(lines') = Len(lines) + 1 /\ lines' \in Seq(Line)
      /\ lines'[Len(lines) + 1] = l /\ \A i \in 1..Len(lines) : lines'[i] = lines[i]
  OBVIOUS
<1>2. \A i \in 1..Len(lines) : Splits(i)' <=> Splits(i)
  BY <1>1 DEF Splits
<1>3. ASSUME NEW n \in 0..Len(lines), NEW i \in 1..n PROVE IsOpen(i, n)' <=> IsOpen(i, n)
  <2>1. i \in 1..Len(lines) /\ \A k \in i..n : k \in 1..Len(lines)
    BY <1>1
  <2> QED BY <1>1, <1>2, <2>1 DEF IsOpen
<1>4. ASSUME NEW j \in 1..(Len(lines) + 1) PROVE AgentLinesOf(j)' = AgentLinesOf(j)
  <2>1. j - 1 \in 0..Len(lines)
    BY <1>1
  <2> QED BY <1>3, <2>1 DEF AgentLinesOf
<1> QED BY <1>1, <1>2, <1>3, <1>4

(* A group stays below its lines. *)
LEMMA GroupStays ==
  ASSUME lines \in Seq(Line), NEW l \in Line, lines' = Append(lines, l), NEW g, StandsBelow(g)
  PROVE  StandsBelow(g)'
<1>1. /\ Len(lines) \in Nat /\ Len(lines') = Len(lines) + 1
      /\ \A i \in 1..Len(lines) : lines'[i] = lines[i]
      /\ \A j \in 1..(Len(lines) + 1) : AgentLinesOf(j)' = AgentLinesOf(j)
  BY LineAdded
<1>2. ASSUME NEW j \in 1..Len(lines)
      PROVE  AgentLinesOf(j)' = AgentLinesOf(j) /\ \A i \in AgentLinesOf(j) : lines'[i] = lines[i]
  <2>1. j \in 1..(Len(lines) + 1) /\ \A i \in 1..(j - 1) : i \in 1..Len(lines)
    BY <1>1
  <2> QED BY <1>1, <2>1 DEF AgentLinesOf
<1>3. ASSUME NEW j, j \in 1..Len(lines) /\ AgentsOf(g) = NamedIn(AgentLinesOf(j)) /\ AgentLinesOf(j) # {}
      PROVE  j \in 1..Len(lines') /\ AgentsOf(g) = NamedIn(AgentLinesOf(j))' /\ AgentLinesOf(j)' # {}
  <2>1. AgentLinesOf(j)' = AgentLinesOf(j) /\ \A i \in AgentLinesOf(j) : lines'[i] = lines[i]
    BY <1>2, <1>3
  <2>2. NamedIn(AgentLinesOf(j))' = NamedIn(AgentLinesOf(j))
    BY <2>1 DEF NamedIn
  <2>3. j \in 1..Len(lines')
    BY <1>1, <1>3
  <2> QED BY <1>3, <2>1, <2>2, <2>3
<1> QED BY <1>3 DEF StandsBelow

(* A line that names no agent leaves the same lines open. *)
LEMMA OpenStay ==
  ASSUME lines \in Seq(Line), NEW l \in Line, lines' = Append(lines, l), l.dir # "user-agent"
  PROVE  OpenLines' = OpenLines /\ NamedIn(OpenLines)' = NamedIn(OpenLines)
         /\ \A j : j = Len(lines) + 1 => AgentLinesOf(j)' = OpenLines
<1>0. PICK n : n = Len(lines)
  OBVIOUS
<1>1. /\ n \in Nat /\ Len(lines') = n + 1 /\ lines'[n + 1] = l
      /\ \A i \in 1..n : lines'[i] = lines[i] /\ (Splits(i)' <=> Splits(i))
      /\ \A j \in 0..n : \A i \in 1..j : IsOpen(i, j)' <=> IsOpen(i, j)
      /\ \A j \in 1..(n + 1) : AgentLinesOf(j)' = AgentLinesOf(j)
  BY <1>0, LineAdded
<1>2. ASSUME NEW i \in 1..(n + 1) PROVE IsOpen(i, n + 1)' <=> i \in 1..n /\ IsOpen(i, n)
  <2>1. CASE i = n + 1
    BY <1>1, <2>1 DEF IsOpen
  <2>2. CASE i # n + 1
    <3>1. i \in 1..n /\ n \in 0..n
      BY <1>1, <2>2
    <3>2. IsOpen(i, n)' <=> IsOpen(i, n)
      BY <1>1, <3>1
    <3>3. IsOpen(i, n + 1)' <=> IsOpen(i, n)'
      <4>1. \A k, m \in i..(n + 1) : k < m /\ m # n + 1 => k \in i..n /\ m \in i..n
        BY <1>1, <3>1
      <4>2. \A k \in i..n : k \in i..(n + 1)
        BY <1>1, <3>1
      <4> QED BY <1>1, <4>1, <4>2 DEF IsOpen
    <3> QED BY <3>1, <3>2, <3>3
  <2> QED BY <2>1, <2>2
<1>3. OpenLines' = OpenLines
  <2>1. \A i \in 1..n : i \in 1..(n + 1)
    BY <1>1
  <2> QED BY <1>0, <1>1, <1>2, <2>1 DEF OpenLines
<1>4. \A i \in OpenLines : lines'[i] = lines[i]
  BY <1>0, <1>1 DEF OpenLines
<1>5. AgentLinesOf(n + 1)' = OpenLines
  <2>1. n + 1 \in 1..(n + 1) /\ (n + 1) - 1 = n
    BY <1>1
  <2> QED BY <1>0, <1>1, <2>1 DEF AgentLinesOf, OpenLines
<1> QED BY <1>0, <1>3, <1>4, <1>5 DEF NamedIn

(* A line with a user agent stays open, if it names one; those before it only if no *)
(* rule or delay stands between.                                                     *)
LEMMA OpenMore ==
  ASSUME lines \in Seq(Line), NEW l \in Line, lines' = Append(lines, l), l.dir = "user-agent"
  PROVE  OpenLines' = {i \in OpenLines : \A k \in i..Len(lines) : ~Splits(k)}
                        \cup (IF l.agent = "" THEN {} ELSE {Len(lines) + 1})
<1>0. PICK n : n = Len(lines)
  OBVIOUS
<1>1. /\ n \in Nat /\ Len(lines') = n + 1 /\ lines'[n + 1] = l
      /\ \A i \in 1..n : lines'[i] = lines[i] /\ (Splits(i)' <=> Splits(i))
      /\ \A j \in 0..n : \A i \in 1..j : IsOpen(i, j)' <=> IsOpen(i, j)
  BY <1>0, LineAdded
<1>2. IsOpen(n + 1, n + 1)' <=> l.agent # ""
  <2>1. \A k, m \in (n + 1)..(n + 1) : ~(k < m)
    BY <1>1
  <2> QED BY <1>1, <2>1 DEF IsOpen
<1>3. ASSUME NEW i \in 1..n
      PROVE  IsOpen(i, n + 1)' <=> IsOpen(i, n) /\ \A k \in i..n : ~Splits(k)
  <2>1. IsOpen(i, n)' <=> IsOpen(i, n)
    BY <1>1
  <2>2. \A k \in i..n : k \in 1..n /\ k \in i..(n + 1) /\ k < n + 1 /\ n + 1 \in i..(n + 1)
    BY <1>1
  <2>3. \A k, m \in i..(n + 1) : k < m => k \in i..n /\ (m = n + 1 \/ m \in i..n)
    BY <1>1
  <2>4. ASSUME IsOpen(i, n + 1)' PROVE IsOpen(i, n)' /\ \A k \in i..n : ~Splits(k)
    BY <1>1, <2>2, <2>4 DEF IsOpen
  <2>5. ASSUME IsOpen(i, n)', \A k \in i..n : ~Splits(k) PROVE IsOpen(i, n + 1)'
    BY <1>1, <2>2, <2>3, <2>5 DEF IsOpen
  <2> QED BY <2>1, <2>4, <2>5
<1>4. 1..(n + 1) = (1..n) \cup {n + 1} /\ n + 1 \notin 1..n
  BY <1>1
<1>5. \A i : i \in OpenLines' <=> i \in 1..(n + 1) /\ IsOpen(i, n + 1)'
  BY <1>0, <1>1 DEF OpenLines
<1>6. \A i : i \in OpenLines <=> i \in 1..n /\ IsOpen(i, n)
  BY <1>0 DEF OpenLines
<1>7. \A i : i \in OpenLines' <=> \/ i \in OpenLines /\ \A k \in i..n : ~Splits(k)
                                  \/ i = n + 1 /\ l.agent # ""
  BY <1>2, <1>3, <1>4, <1>5, <1>6
<1> QED BY <1>0, <1>7

LEMMA LineKinds ==
  ASSUME NEW l \in Line
  PROVE  /\ l.dir \in {"user-agent", "allow", "disallow", "crawl-delay", "other"}
         /\ l.dir = "user-agent" => l.agent \in Agent \cup {""}
         /\ l.dir \in {"allow", "disallow"} => l.pattern \in Pattern /\ l.pattern.len \in Nat
<1>1. \A p \in Pattern : p.len \in Nat
  BY DEF Pattern
<1> HIDE DEF Pattern, Agent
<1> QED BY <1>1 DEF Line

(* The group that is read, put at the end of the others. *)
LEMMA FlushedFits ==
  ASSUME RulesFile
  PROVE  /\ Flushed \in Seq(RuleGroup) /\ \A g \in DOMAIN Flushed : Flushed[g] \in Groups
         /\ \A g \in DOMAIN groups : Flushed[g] = groups[g]
<1>1. groups \in Seq(RuleGroup) /\ CurrentGroup \in RuleGroup
  BY DEF RulesFile, CurrentGroup, RuleGroup
<1>2. Flushed = groups \/ Flushed = Append(groups, CurrentGroup)
  BY DEF Flushed, CurrentGroup
<1>3. CurrentGroup \in Groups /\ \A g \in DOMAIN groups : groups[g] \in Groups
  BY DEF Groups
<1> HIDE DEF CurrentGroup, RuleGroup, Groups
<1>4. CASE Flushed = groups
  BY <1>1, <1>3, <1>4
<1>5. CASE Flushed = Append(groups, CurrentGroup)
  <2>1. /\ Flushed \in Seq(RuleGroup) /\ Len(groups) \in Nat /\ DOMAIN Flushed = 1..(Len(groups) + 1)
        /\ \A g \in DOMAIN groups : Flushed[g] = groups[g]
        /\ Flushed[Len(groups) + 1] = CurrentGroup /\ DOMAIN groups = 1..Len(groups)
    BY <1>1, <1>5
  <2>2. \A g \in DOMAIN Flushed : g \in DOMAIN groups \/ g = Len(groups) + 1
    BY <2>1
  <2> QED BY <1>3, <2>1, <2>2
<1> QED BY <1>2, <1>4, <1>5

(* What all lines have in common. *)
LEMMA LineReads ==
  ASSUME RulesInv, NEW l \in Line, ReadLine(l)
  PROVE  /\ lines \in Seq(Line) /\ lines' = Append(lines, l) /\ lines' \in Seq(Line)
         /\ Len(lines) \in Nat /\ Len(lines') = Len(lines) + 1 /\ Len(lines') <= MaxLines
         /\ \A g \in Groups : StandsBelow(g)'
<1>1. lines \in Seq(Line) /\ lines' = Append(lines, l) /\ Len(lines) < MaxLines
  BY DEF RulesInv, RulesFile, ReadLine
<1>2. /\ Len(lines) \in Nat /\ Len(lines') = Len(lines) + 1 /\ lines' \in Seq(Line)
  BY <1>1, LineAdded
<1>3. Len(lines') <= MaxLines
  BY <1>1, <1>2, RulesAssumption
<1>4. \A g \in Groups : StandsBelow(g)
  BY DEF RulesInv
<1>5. ASSUME NEW g \in Groups PROVE StandsBelow(g)'
  BY <1>1, <1>4, GroupStays
<1> QED BY <1>1, <1>2, <1>3, <1>5

(* A group without rules stands below anything. *)
LEMMA NoRulesFit ==
  ASSUME NEW g, g.rules = <<>>
  PROVE  StandsBelow(g)'
<1>1. DOMAIN <<>> = {}
  OBVIOUS
<1> QED BY <1>1 DEF StandsBelow

LEMMA AgentAppended ==
  ASSUME NEW names \in Seq(Agent), NEW a \in Agent
  PROVE  Append(names, a) \in Seq(Agent) /\ ToSet(Append(names, a)) = ToSet(names) \cup {a}
BY AppendElements

LEMMA JoinedIs ==
  ASSUME NEW names \in Seq(Agent), NEW a \in Agent \cup {""}
  PROVE  /\ Joined(names, a) \in Seq(Agent)
         /\ ToSet(Joined(names, a)) = ToSet(names) \cup (IF a = "" THEN {} ELSE {a})
<1>1. CASE a = ""
  BY <1>1 DEF Joined
<1>2. CASE a # ""
  <2>1. a \in Agent /\ Joined(names, a) = Append(names, a)
    BY <1>2 DEF Joined
  <2>2. Append(names, a) \in Seq(Agent) /\ ToSet(Append(names, a)) = ToSet(names) \cup {a}
    BY <2>1, AgentAppended
  <2> QED BY <1>2, <2>1, <2>2
<1> QED BY <1>1, <1>2

(* A user agent ends a group that has rules or a delay, or joins it. *)
LEMMA AgentFits ==
  ASSUME RulesInv, NEW l \in Line, ReadLine(l), ReadAgent(l)
  PROVE  RulesInv'
<1>1. /\ lines \in Seq(Line) /\ lines' = Append(lines, l) /\ lines' \in Seq(Line)
      /\ Len(lines) \in Nat /\ Len(lines') = Len(lines) + 1 /\ Len(lines') <= MaxLines
      /\ \A g \in Groups : StandsBelow(g)'
  BY LineReads
<1>2. RulesFile /\ l.dir = "user-agent" /\ l.agent \in Agent \cup {""}
  BY LineKinds DEF RulesInv, ReadAgent
<1>3. PICK n : n = Len(lines)
  OBVIOUS
<1>4. lines'[n + 1] = l /\ \A i \in 1..n : lines'[i] = lines[i] /\ (Splits(i)' <=> Splits(i))
  BY <1>1, <1>3, LineAdded
<1>5. OpenLines' = {i \in OpenLines : \A k \in i..n : ~Splits(k)} \cup (IF l.agent = "" THEN {} ELSE {n + 1})
  BY <1>1, <1>2, <1>3, OpenMore
<1>6. OpenLines \subseteq 1..n
  BY <1>3 DEF OpenLines
<1>7. ~Splits(n + 1)'
  BY <1>2, <1>4 DEF Splits
<1>8. /\ agents \in Seq(Agent) /\ rules \in Seq(Rule) /\ delayed \in BOOLEAN /\ groups \in Seq(RuleGroup)
      /\ ToSet(agents) = NamedIn(OpenLines)
      /\ \A i \in OpenLines : (rules # <<>> \/ delayed) <=> \E k \in i..n : Splits(k)
  BY <1>2, <1>3 DEF RulesInv, RulesFile, AgentsOf, CurrentGroup
<1>9. CurrentGroup'.rules = rules' /\ CurrentGroup'.agents = agents'
  BY DEF CurrentGroup
<1>10. CASE rules # <<>> \/ delayed
  <2>1. groups' = Flushed /\ agents' = Joined(<<>>, l.agent) /\ rules' = <<>> /\ delayed' = FALSE
    BY <1>10 DEF ReadAgent
  <2>2. OpenLines' = IF l.agent = "" THEN {} ELSE {n + 1}
    BY <1>5, <1>8, <1>10
  <2>3. agents' \in Seq(Agent) /\ ToSet(agents') = IF l.agent = "" THEN {} ELSE {l.agent}
    <3>1. <<>> \in Seq(Agent) /\ ToSet(<<>>) = {}
      BY DEF ToSet
    <3> HIDE DEF Agent
    <3> QED BY <1>2, <2>1, <3>1, JoinedIs
  <2>4. NamedIn(OpenLines)' = IF l.agent = "" THEN {} ELSE {l.agent}
    BY <1>4, <2>2 DEF NamedIn
  <2>5. \A i \in OpenLines' : (rules' # <<>> \/ delayed') <=> \E k \in i..Len(lines') : Splits(k)'
    <3>1. \A i \in OpenLines' : i = n + 1
      BY <2>2
    <3>2. \A k \in (n + 1)..(n + 1) : k = n + 1
      BY <1>1, <1>3
    <3> QED BY <1>1, <1>3, <1>7, <2>1, <3>1, <3>2
  <2>6. \A g \in Groups' : StandsBelow(g)'
    <3>1. \A g \in Groups' : g \in Groups \/ g = CurrentGroup'
      BY <1>2, <2>1, FlushedFits DEF Groups
    <3>2. ASSUME NEW g, g = CurrentGroup' PROVE StandsBelow(g)'
      BY <1>9, <2>1, <3>2, NoRulesFit
    <3> QED BY <1>1, <3>1, <3>2
  <2>7. RulesFile'
    <3>1. groups' \in Seq(RuleGroup)
      BY <1>2, <2>1, FlushedFits
    <3>2. rules' \in Seq(Rule) /\ delayed' \in BOOLEAN /\ ~(rules' # <<>> \/ delayed')
      <4>1. <<>> \in Seq(Rule)
        OBVIOUS
      <4> QED BY <2>1, <4>1
    <3> QED BY <1>1, <2>3, <3>1, <3>2 DEF RulesFile
  <2>8. (AgentsOf(CurrentGroup) = NamedIn(OpenLines))'
    BY <1>9, <2>3, <2>4 DEF AgentsOf
  <2> QED BY <2>5, <2>6, <2>7, <2>8 DEF RulesInv
<1>11. CASE ~(rules # <<>> \/ delayed)
  <2>1. groups' = groups /\ agents' = Joined(agents, l.agent) /\ rules' = <<>> /\ delayed' = FALSE
    BY <1>8, <1>11 DEF ReadAgent
  <2>2. OpenLines' = OpenLines \cup (IF l.agent = "" THEN {} ELSE {n + 1})
    BY <1>5, <1>8, <1>11
  <2>3. agents' \in Seq(Agent) /\ ToSet(agents') = ToSet(agents) \cup (IF l.agent = "" THEN {} ELSE {l.agent})
    <3> HIDE DEF Agent
    <3> QED BY <1>2, <1>8, <2>1, JoinedIs
  <2>4. NamedIn(OpenLines)' = NamedIn(OpenLines) \cup (IF l.agent = "" THEN {} ELSE {l.agent})
    BY <1>4, <1>6, <2>2 DEF NamedIn
  <2>5. \A i \in OpenLines' : (rules' # <<>> \/ delayed') <=> \E k \in i..Len(lines') : Splits(k)'
    <3>1. ASSUME NEW i \in OpenLines', NEW k \in i..(n + 1), Splits(k)' PROVE FALSE
      <4>1. k # n + 1
        BY <1>7, <3>1
      <4>a. i \in OpenLines \/ i = n + 1
        BY <2>2, <3>1
      <4>b. n \in Nat /\ (i \in 1..n \/ i = n + 1)
        BY <1>1, <1>3, <1>6, <4>a
      <4>c. i \in 1..n /\ k \in 1..n /\ k \in i..n
        BY <3>1, <4>1, <4>b
      <4>2. i \in 1..n /\ k \in 1..n /\ k \in i..n /\ i \in OpenLines
        <5>1. n + 1 \notin 1..n
          BY <4>b
        <5> QED BY <4>a, <4>c, <5>1
      <4>3. Splits(k)
        BY <1>4, <3>1, <4>2
      <4> QED BY <1>8, <1>11, <4>2, <4>3, SMTT(30)
    <3> QED BY <1>1, <1>3, <2>1, <3>1
  <2>6. \A g \in Groups' : StandsBelow(g)'
    <3>1. \A g \in Groups' : g \in Groups \/ g = CurrentGroup'
      BY <2>1 DEF Groups
    <3>2. ASSUME NEW g, g = CurrentGroup' PROVE StandsBelow(g)'
      BY <1>9, <2>1, <3>2, NoRulesFit
    <3> QED BY <1>1, <3>1, <3>2
  <2>7. RulesFile'
    <3>1. rules' \in Seq(Rule) /\ delayed' \in BOOLEAN /\ ~(rules' # <<>> \/ delayed') /\ groups' \in Seq(RuleGroup)
      <4>1. <<>> \in Seq(Rule)
        OBVIOUS
      <4> QED BY <1>8, <2>1, <4>1
    <3> QED BY <1>1, <2>3, <3>1 DEF RulesFile
  <2>8. (AgentsOf(CurrentGroup) = NamedIn(OpenLines))'
    BY <1>8, <1>9, <2>3, <2>4 DEF AgentsOf
  <2> QED BY <2>5, <2>6, <2>7, <2>8 DEF RulesInv
<1> QED BY <1>10, <1>11

(* Any other line leaves the open lines open; a rule that is taken, or a delay, is one *)
(* more below each of them.                                                            *)
LEMMA OtherLineFits ==
  ASSUME RulesInv, NEW l \in Line, ReadLine(l), l.dir # "user-agent", UNCHANGED <<groups, agents>>,
         rules' \in Seq(Rule), delayed' \in BOOLEAN,
         rules' # <<>> \/ delayed' => agents # <<>>,
         agents # <<>> => \A j : j = Len(lines) + 1 =>
           ((rules' # <<>> \/ delayed') <=> rules # <<>> \/ delayed \/ Splits(j)'),
         \/ rules' = rules
         \/ \E r : rules' = Append(rules, r) /\ r.line = Len(lines) + 1 /\ agents # <<>>
  PROVE  RulesInv'
<1>1. /\ lines \in Seq(Line) /\ lines' = Append(lines, l) /\ lines' \in Seq(Line)
      /\ Len(lines) \in Nat /\ Len(lines') = Len(lines) + 1 /\ Len(lines') <= MaxLines
      /\ \A g \in Groups : StandsBelow(g)'
  BY LineReads
<1>2. RulesFile /\ groups' = groups /\ agents' = agents
  BY DEF RulesInv
<1>3. PICK n : n = Len(lines)
  OBVIOUS
<1>4. \A i \in 1..n : lines'[i] = lines[i] /\ (Splits(i)' <=> Splits(i))
  BY <1>1, <1>3, LineAdded
<1>5. OpenLines' = OpenLines /\ NamedIn(OpenLines)' = NamedIn(OpenLines)
      /\ \A j : j = n + 1 => AgentLinesOf(j)' = OpenLines
  BY <1>1, <1>3, OpenStay
<1>6. OpenLines \subseteq 1..n
  BY <1>3 DEF OpenLines
<1>7. /\ agents \in Seq(Agent) /\ rules \in Seq(Rule) /\ groups \in Seq(RuleGroup)
      /\ ToSet(agents) = NamedIn(OpenLines)
      /\ \A i \in OpenLines : (rules # <<>> \/ delayed) <=> \E k \in i..n : Splits(k)
  BY <1>2, <1>3 DEF RulesInv, RulesFile, AgentsOf, CurrentGroup
<1>8. CurrentGroup'.rules = rules' /\ CurrentGroup'.agents = agents'
      /\ CurrentGroup.rules = rules /\ CurrentGroup.agents = agents
  BY DEF CurrentGroup
<1>9. RulesFile'
  BY <1>1, <1>2, <1>7 DEF RulesFile
<1>10. (AgentsOf(CurrentGroup) = NamedIn(OpenLines))'
  BY <1>2, <1>5, <1>7, <1>8 DEF AgentsOf
<1>11. agents # <<>> => OpenLines # {}
  <2>1. agents # <<>> => ToSet(agents) # {}
    <3>1. agents # <<>> => agents[1] \in ToSet(agents)
      BY <1>7 DEF ToSet
    <3> QED BY <3>1
  <2> QED BY <1>7, <2>1 DEF NamedIn
<1>12. \A i \in OpenLines' : (rules' # <<>> \/ delayed') <=> \E k \in i..Len(lines') : Splits(k)'
  <2> SUFFICES ASSUME NEW i \in OpenLines
               PROVE  (rules' # <<>> \/ delayed') <=> \E k \in i..(n + 1) : Splits(k)'
    BY <1>1, <1>3, <1>5
  <2>1. agents # <<>>
    <3>1. ToSet(<<>>) = {}
      BY DEF ToSet
    <3>2. ToSet(agents) # {}
      BY <1>7 DEF NamedIn
    <3> QED BY <3>1, <3>2
  <2>2. (rules' # <<>> \/ delayed') <=> rules # <<>> \/ delayed \/ \E j : j = n + 1 /\ Splits(j)'
    BY <1>3, <2>1
  <2>3. n \in Nat /\ i \in 1..n
    BY <1>1, <1>3, <1>6
  <2>4. \A k : k \in i..(n + 1) <=> (k \in i..n \/ k = n + 1)
    BY <2>3
  <2>5. \A k \in i..n : k \in 1..n
    BY <2>3
  <2>6. (\E k \in i..(n + 1) : Splits(k)') <=> (\E k \in i..n : Splits(k)) \/ \E j : j = n + 1 /\ Splits(j)'
    BY <1>4, <2>4, <2>5
  <2> QED BY <1>7, <2>2, <2>6
<1>13. ASSUME NEW g, g = CurrentGroup' PROVE StandsBelow(g)'
  <2>1. CASE rules' = rules
    <3>1. g = CurrentGroup
      BY <1>2, <1>13, <2>1 DEF CurrentGroup
    <3> QED BY <1>1, <3>1 DEF Groups
  <2>2. CASE \E r : rules' = Append(rules, r) /\ r.line = n + 1 /\ agents # <<>>
    <3>1. PICK r : rules' = Append(rules, r) /\ r.line = n + 1 /\ agents # <<>>
      BY <2>2
    <3>2. g.rules = rules' /\ AgentsOf(g) = ToSet(agents)
      BY <1>2, <1>8, <1>13 DEF AgentsOf
    <3>3. PICK h : h = CurrentGroup
      OBVIOUS
    <3>4. StandsBelow(h)' /\ h.rules = rules /\ AgentsOf(h) = ToSet(agents)
      BY <1>1, <1>8, <3>3 DEF Groups, AgentsOf
    <3>5. /\ Len(rules) \in Nat /\ DOMAIN g.rules = 1..(Len(rules) + 1) /\ DOMAIN h.rules = 1..Len(rules)
          /\ g.rules[Len(rules) + 1] = r /\ \A i \in 1..Len(rules) : g.rules[i] = h.rules[i]
      BY <1>7, <3>1, <3>2, <3>4
    <3>6. ASSUME NEW k \in DOMAIN g.rules
          PROVE  /\ g.rules[k].line \in 1..Len(lines')
                 /\ AgentsOf(g) = NamedIn(AgentLinesOf(g.rules[k].line))'
                 /\ AgentLinesOf(g.rules[k].line)' # {}
      <4>1. CASE k \in 1..Len(rules)
        <5>1. g.rules[k] = h.rules[k] /\ k \in DOMAIN h.rules
          BY <3>5, <4>1
        <5> QED BY <3>2, <3>4, <5>1 DEF StandsBelow
      <4>2. CASE k = Len(rules) + 1
        <5>1. g.rules[k].line = n + 1
          BY <3>1, <3>5, <4>2
        <5>2. AgentLinesOf(g.rules[k].line)' = OpenLines
          BY <1>5, <5>1
        <5>3. NamedIn(AgentLinesOf(g.rules[k].line))' = NamedIn(OpenLines)'
          BY <1>5, <5>2 DEF NamedIn
        <5>4. g.rules[k].line \in 1..Len(lines')
          BY <1>1, <1>3, <5>1
        <5> QED BY <1>5, <1>7, <1>11, <3>1, <3>2, <5>2, <5>3, <5>4
      <4> QED BY <3>5, <4>1, <4>2
    <3> QED BY <3>6 DEF StandsBelow
  <2> QED BY <1>3, <2>1, <2>2
<1>14. \A g \in Groups' : StandsBelow(g)'
  <2>1. \A g \in Groups' : g \in Groups \/ g = CurrentGroup'
    BY <1>2 DEF Groups
  <2> QED BY <1>1, <1>13, <2>1
<1> QED BY <1>9, <1>10, <1>12, <1>14 DEF RulesInv

LEMMA RulesNextStep == RulesInv /\ [RulesNext]_rulesVars => RulesInv'
<1> SUFFICES ASSUME RulesInv, [RulesNext]_rulesVars PROVE RulesInv'
  OBVIOUS
<1>1. CASE UNCHANGED rulesVars
  <2>1. lines' = lines /\ groups' = groups /\ agents' = agents /\ rules' = rules /\ delayed' = delayed
    BY <1>1 DEF rulesVars
  <2>2. OpenLines' = OpenLines /\ Groups' = Groups /\ CurrentGroup' = CurrentGroup
        /\ \A k : Splits(k)' <=> Splits(k)
    BY <2>1 DEF OpenLines, IsOpen, Splits, Groups, CurrentGroup
  <2>3. \A g : StandsBelow(g)' <=> StandsBelow(g)
    BY <2>1 DEF StandsBelow, AgentLinesOf, IsOpen, Splits, NamedIn
  <2>4. NamedIn(OpenLines)' = NamedIn(OpenLines)
    BY <2>1, <2>2 DEF NamedIn
  <2>5. RulesFile'
    BY <2>1 DEF RulesInv, RulesFile
  <2> QED BY <2>1, <2>2, <2>3, <2>4, <2>5 DEF RulesInv
<1>2. ASSUME NEW l \in Line, ReadLine(l) PROVE RulesInv'
  <2>1. /\ lines \in Seq(Line) /\ lines' = Append(lines, l)
        /\ Len(lines) \in Nat /\ Len(lines') = Len(lines) + 1 /\ Len(lines') <= MaxLines
    BY <1>2, LineReads
  <2>2. /\ rules \in Seq(Rule) /\ delayed \in BOOLEAN /\ (rules # <<>> \/ delayed => agents # <<>>)
    BY DEF RulesInv, RulesFile
  <2>3. \A j : j = Len(lines) + 1 => lines'[j] = l
    BY <2>1, LineAdded
  <2>4. CASE ReadAgent(l)
    BY <1>2, <2>4, AgentFits
  <2>5. CASE ReadRule(l)
    <3> DEFINE r == [allow   |-> l.dir = "allow" \/ l.pattern.len = 0,
                     pattern |-> l.pattern, line |-> Len(lines) + 1]
               none == agents = <<>> \/ (l.dir = "allow" /\ l.pattern.len = 0)
    <3>1. /\ l.dir \in {"allow", "disallow"} /\ UNCHANGED <<groups, agents, delayed>>
          /\ rules' = IF none THEN rules ELSE Append(rules, r)
      BY <2>5 DEF ReadRule
    <3>2. r \in Rule
      <4>1. l.pattern \in Pattern /\ (l.dir = "allow" \/ l.pattern.len = 0) \in BOOLEAN
        BY <3>1, LineKinds
      <4>2. Len(lines) + 1 \in 1..MaxLines
        BY <2>1, RulesAssumption
      <4> QED BY <4>1, <4>2 DEF Rule
    <3>3. r.line = Len(lines) + 1
      OBVIOUS
    <3> HIDE DEF r
    <3>4. rules' \in Seq(Rule)
      BY <2>2, <3>1, <3>2
    <3>5. ~none => rules' # <<>>
      BY <2>2, <3>1, <3>2
    <3>6. agents # <<>> => \A j : j = Len(lines) + 1 => (Splits(j)' <=> ~none)
      BY <2>3, <3>1 DEF Splits
    <3>7. rules' = rules \/ (rules' = Append(rules, r) /\ r.line = Len(lines) + 1 /\ agents # <<>>)
      BY <3>1, <3>3
    <3>8. rules' # <<>> \/ delayed' => agents # <<>>
      BY <2>2, <3>1
    <3>9. agents # <<>> => \A j : j = Len(lines) + 1 =>
            ((rules' # <<>> \/ delayed') <=> rules # <<>> \/ delayed \/ Splits(j)')
      BY <3>1, <3>5, <3>6
    <3>10. l.dir # "user-agent" /\ UNCHANGED <<groups, agents>> /\ delayed' \in BOOLEAN
      BY <2>2, <3>1
    <3> QED BY <1>2, <3>4, <3>7, <3>8, <3>9, <3>10, OtherLineFits
  <2>6. CASE ReadDelay(l)
    <3>1. /\ l.dir = "crawl-delay" /\ rules' = rules /\ UNCHANGED <<groups, agents>>
          /\ delayed' = (delayed \/ agents # <<>>)
      BY <2>6 DEF ReadDelay
    <3>2. delayed' \in BOOLEAN /\ (delayed' <=> delayed \/ agents # <<>>) /\ rules' \in Seq(Rule)
      BY <2>2, <3>1
    <3>3. \A j : j = Len(lines) + 1 => Splits(j)'
      BY <2>3, <3>1 DEF Splits
    <3>4. rules' # <<>> \/ delayed' => agents # <<>>
      BY <2>2, <3>1, <3>2
    <3>5. agents # <<>> => \A j : j = Len(lines) + 1 =>
            ((rules' # <<>> \/ delayed') <=> rules # <<>> \/ delayed \/ Splits(j)')
      BY <3>2, <3>3
    <3>6. l.dir # "user-agent"
      BY <3>1
    <3> QED BY <1>2, <3>1, <3>2, <3>4, <3>5, <3>6, OtherLineFits
  <2>7. CASE l.dir = "other" /\ UNCHANGED <<groups, agents, rules, delayed>>
    <3>1. rules' = rules /\ delayed' = delayed /\ UNCHANGED <<groups, agents>> /\ l.dir = "other"
      BY <2>7
    <3>2. \A j : j = Len(lines) + 1 => ~Splits(j)'
      BY <2>3, <3>1 DEF Splits
    <3>3. agents # <<>> => \A j : j = Len(lines) + 1 =>
            ((rules' # <<>> \/ delayed') <=> rules # <<>> \/ delayed \/ Splits(j)')
      BY <3>1, <3>2
    <3>4. rules' \in Seq(Rule) /\ delayed' \in BOOLEAN /\ (rules' # <<>> \/ delayed' => agents # <<>>)
      BY <2>2, <3>1
    <3>5. l.dir # "user-agent"
      BY <3>1
    <3> QED BY <1>2, <3>1, <3>3, <3>4, <3>5, OtherLineFits
  <2> QED BY <1>2, <2>4, <2>5, <2>6, <2>7 DEF ReadLine
<1> QED BY <1>1, <1>2 DEF RulesNext

(***************************************************************************)
(* The longest match.  After some of the rules the best one is as long as  *)
(* any that matched, and forbids only when no rule of its length allows.   *)
(***************************************************************************)
MatchedBy(rs, n, allowed) ==
  {i \in 1..n : rs[i].pattern.matches /\ rs[i].allow = allowed}

BestOf(b, rs, n) ==
  /\ b.allow \in BOOLEAN /\ b.pattern.len \in Int
  /\ \A i \in 1..n : rs[i].pattern.matches => rs[i].pattern.len <= b.pattern.len
  /\ b.allow => \/ b.pattern.len = -1
                \/ \E i \in MatchedBy(rs, n, TRUE) : rs[i].pattern.len = b.pattern.len
  /\ ~b.allow => /\ \E i \in MatchedBy(rs, n, FALSE) : rs[i].pattern.len = b.pattern.len
                 /\ \A i \in MatchedBy(rs, n, TRUE) : rs[i].pattern.len < b.pattern.len

LEMMA RulesAre ==
  ASSUME NEW r \in Rule
  PROVE  r.allow \in BOOLEAN /\ r.pattern.len \in Nat /\ r.pattern.matches \in BOOLEAN
<1>1. r.allow \in BOOLEAN /\ r.pattern \in Pattern
  BY DEF Rule
<1>2. PICK p : p = r.pattern
  OBVIOUS
<1>3. CASE p \in {[len |-> 0, matches |-> TRUE]}
  <2>1. p = [len |-> 0, matches |-> TRUE]
    BY <1>3
  <2>2. p.len \in Nat
    BY <2>1
  <2>3. p.matches \in BOOLEAN
    BY <2>1, Zenon
  <2> QED BY <1>1, <1>2, <2>2, <2>3
<1>4. CASE p \in [len : 1..MaxPattern, matches : BOOLEAN]
  <2>1. p.len \in 1..MaxPattern /\ p.matches \in BOOLEAN
    BY <1>4
  <2> QED BY <1>1, <1>2, <2>1, RulesAssumption
<1> QED BY <1>1, <1>2, <1>3, <1>4 DEF Pattern

LEMMA OneMoreRule ==
  ASSUME NEW rs \in Seq(Rule), NEW k \in 1..Len(rs), NEW b, BestOf(b, rs, k - 1)
  PROVE  BestOf(Better(b, rs[k]), rs, k)
<1> DEFINE r == rs[k]
           better == /\ r.pattern.matches
                     /\ \/ r.pattern.len > b.pattern.len
                        \/ r.pattern.len = b.pattern.len /\ r.allow /\ ~b.allow
<1>1. k \in Nat /\ k >= 1 /\ \A i \in 1..k : rs[i] \in Rule
  OBVIOUS
<1>2. \A i \in 1..k : rs[i].allow \in BOOLEAN /\ rs[i].pattern.len \in Nat /\ rs[i].pattern.matches \in BOOLEAN
  BY <1>1, RulesAre
<1>3. \A i : i \in 1..k <=> (i \in 1..(k - 1) \/ i = k)
  BY <1>1
<1>4. r.allow \in BOOLEAN /\ r.pattern.len \in Nat /\ r.pattern.matches \in BOOLEAN
  BY <1>2, <1>3
<1>5. /\ b.allow \in BOOLEAN /\ b.pattern.len \in Int
      /\ \A i \in 1..(k - 1) : rs[i].pattern.matches => rs[i].pattern.len <= b.pattern.len
      /\ b.allow => \/ b.pattern.len = -1
                    \/ \E i \in MatchedBy(rs, k - 1, TRUE) : rs[i].pattern.len = b.pattern.len
      /\ ~b.allow => /\ \E i \in MatchedBy(rs, k - 1, FALSE) : rs[i].pattern.len = b.pattern.len
                     /\ \A i \in MatchedBy(rs, k - 1, TRUE) : rs[i].pattern.len < b.pattern.len
  BY DEF BestOf
<1>6. ASSUME NEW allowed \in BOOLEAN
      PROVE  /\ MatchedBy(rs, k - 1, allowed) \subseteq MatchedBy(rs, k, allowed)
             /\ \A i \in MatchedBy(rs, k, allowed) : i \in MatchedBy(rs, k - 1, allowed) \/ (i = k /\ r.allow = allowed /\ r.pattern.matches)
             /\ r.pattern.matches /\ r.allow = allowed => k \in MatchedBy(rs, k, allowed)
  BY <1>3 DEF MatchedBy
<1>7. \A allowed \in BOOLEAN : \A i \in MatchedBy(rs, k, allowed) : i \in 1..k /\ rs[i].pattern.matches
  BY DEF MatchedBy
<1>8. \A allowed \in BOOLEAN : \A i \in MatchedBy(rs, k - 1, allowed) : i \in 1..(k - 1) /\ rs[i].pattern.matches
  BY DEF MatchedBy
<1>9. CASE better
  <2>1. Better(b, rs[k]) = r
    BY <1>9 DEF Better
  <2>2. \A i \in 1..k : rs[i].pattern.matches => rs[i].pattern.len <= r.pattern.len
    <3>1. ASSUME NEW i \in 1..(k - 1), rs[i].pattern.matches PROVE rs[i].pattern.len <= r.pattern.len
      <4>1. rs[i].pattern.len \in Nat /\ rs[i].pattern.len <= b.pattern.len
        BY <1>2, <1>3, <1>5, <3>1
      <4> QED BY <1>4, <1>5, <1>9, <4>1
    <3> QED BY <1>3, <1>4, <3>1
  <2>3. r.allow => \E i \in MatchedBy(rs, k, TRUE) : rs[i].pattern.len = r.pattern.len
    BY <1>4, <1>6, <1>9
  <2>4. ~r.allow => \E i \in MatchedBy(rs, k, FALSE) : rs[i].pattern.len = r.pattern.len
    BY <1>4, <1>6, <1>9
  <2>5. ~r.allow => \A i \in MatchedBy(rs, k, TRUE) : rs[i].pattern.len < r.pattern.len
    <3>1. ASSUME ~r.allow, NEW i \in MatchedBy(rs, k, TRUE) PROVE rs[i].pattern.len < r.pattern.len
      <4>1. i \in MatchedBy(rs, k - 1, TRUE)
        BY <1>6, <3>1
      <4>2. i \in 1..(k - 1) /\ rs[i].pattern.matches
        BY <1>8, <4>1
      <4>3. rs[i].pattern.len \in Nat /\ rs[i].pattern.len <= b.pattern.len
        BY <1>2, <1>3, <1>5, <4>2
      <4> QED BY <1>4, <1>5, <1>9, <3>1, <4>3
    <3> QED BY <3>1
  <2>6. r.pattern.len \in Int
    BY <1>4
  <2> HIDE DEF r
  <2> QED BY <1>4, <2>1, <2>2, <2>3, <2>4, <2>5, <2>6 DEF BestOf
<1>10. CASE ~better
  <2>1. Better(b, rs[k]) = b
    BY <1>10 DEF Better
  <2>2. r.pattern.matches => r.pattern.len <= b.pattern.len /\ (r.allow /\ ~b.allow => r.pattern.len < b.pattern.len)
    BY <1>4, <1>5, <1>10
  <2>3. \A i \in 1..k : rs[i].pattern.matches => rs[i].pattern.len <= b.pattern.len
    BY <1>3, <1>5, <2>2
  <2>4. b.allow => \/ b.pattern.len = -1
                   \/ \E i \in MatchedBy(rs, k, TRUE) : rs[i].pattern.len = b.pattern.len
    BY <1>5, <1>6
  <2>5. ~b.allow => \E i \in MatchedBy(rs, k, FALSE) : rs[i].pattern.len = b.pattern.len
    BY <1>5, <1>6
  <2>6. ~b.allow => \A i \in MatchedBy(rs, k, TRUE) : rs[i].pattern.len < b.pattern.len
    BY <1>5, <1>6, <2>2
  <2> QED BY <1>5, <2>1, <2>3, <2>4, <2>5, <2>6 DEF BestOf
<1> QED BY <1>9, <1>10

(* The rule that decides is the best of the whole list. *)
LEMMA BestDecides ==
  ASSUME NEW rs \in Seq(Rule)
  PROVE  \E b : BestOf(b, rs, Len(rs)) /\ EvaluatePathRules(rs) = b.allow
<1> DEFINE n == Len(rs)
           Bests == [allow : BOOLEAN, pattern : [len : Int, matches : BOOLEAN], line : Int] 
           Best == {NoRule} \cup Rule
           step == [k \in 1..n |-> [b \in Best |-> Better(b, rs[k])]]
           best == CHOOSE f : f = [k \in 0..n |-> IF k = 0 THEN NoRule ELSE Better(f[k - 1], rs[k])]
<1>1. n \in Nat /\ \A k \in 1..n : rs[k] \in Rule
  OBVIOUS
<1>2. \A k \in 1..n : \A b \in Best : Better(b, rs[k]) \in Best
  BY <1>1 DEF Better
<1>3. step \in [1..n -> [Best -> Best]]
  BY <1>2
<1>4. NoRule \in Best
  OBVIOUS
<1>5. \A k \in 1..n : \A b \in Best : step[k][b] = Better(b, rs[k])
  OBVIOUS
<1> HIDE DEF Best, step
<1>6. PICK f \in [0..n -> Best] : Iterates(f, NoRule, step, n)
  BY <1>1, <1>3, <1>4, RecursionUpTo
<1>7. f[0] = NoRule /\ \A k \in 1..n : f[k] = Better(f[k - 1], rs[k])
  <2>1. f[0] = NoRule /\ \A k \in 1..n : f[k] = step[k][f[k - 1]]
    BY <1>6 DEF Iterates
  <2>2. \A k \in 1..n : k - 1 \in 0..n
    BY <1>1
  <2> QED BY <1>5, <2>1, <2>2
<1>8. f = [k \in 0..n |-> IF k = 0 THEN NoRule ELSE Better(f[k - 1], rs[k])]
  <2>1. \A k \in 0..n : k # 0 => k \in 1..n
    BY <1>1
  <2> QED BY <1>7, <2>1
<1>9. best = [k \in 0..n |-> IF k = 0 THEN NoRule ELSE Better(best[k - 1], rs[k])]
  BY <1>8
<1>10. EvaluatePathRules(rs) = best[n].allow
  BY DEF EvaluatePathRules
<1>11. best[0] = NoRule /\ \A k \in 1..n : best[k] = Better(best[k - 1], rs[k])
  <2> HIDE DEF best, n
  <2>1. 0 \in 0..n /\ \A k \in 1..n : k \in 0..n /\ k # 0
    BY <1>1
  <2> QED BY <1>9, <2>1
<1> HIDE DEF best
<1> DEFINE G == {k \in 0..n : BestOf(best[k], rs, k)}
<1>12. 0 \in G
  <2>1. NoRule.allow = TRUE /\ NoRule.pattern.len = -1
    BY DEF NoRule
  <2>2. -1 \in Int /\ 0 \in 0..n /\ \A i \in 1..0 : FALSE
    BY <1>1
  <2>3. BestOf(NoRule, rs, 0)
    BY <2>1, <2>2 DEF BestOf
  <2> QED BY <1>11, <2>2, <2>3
<1>13. \A k \in 1..n : k - 1 \in G => k \in G
  <2> SUFFICES ASSUME NEW k \in 1..n, k - 1 \in G PROVE k \in G
    OBVIOUS
  <2>1. BestOf(best[k - 1], rs, k - 1) /\ k \in 0..n
    BY <1>1
  <2>2. BestOf(Better(best[k - 1], rs[k]), rs, k)
    BY <2>1, OneMoreRule
  <2> QED BY <1>11, <2>1, <2>2
<1> HIDE DEF G
<1>14. \A k \in 0..n : k \in G
  BY <1>1, <1>12, <1>13, InductionUpTo
<1>15. BestOf(best[n], rs, n)
  BY <1>1, <1>14 DEF G
<1> QED BY <1>10, <1>15

(* A list forbids just if a matching Disallow is longer than every matching Allow. *)
LEMMA LongestWins ==
  ASSUME NEW rs \in Seq(Rule)
  PROVE  EvaluatePathRules(rs) <=>
           \A d \in MatchedBy(rs, Len(rs), FALSE) :
             \E a \in MatchedBy(rs, Len(rs), TRUE) : rs[a].pattern.len >= rs[d].pattern.len
<1> DEFINE n == Len(rs)
<1>1. PICK b : BestOf(b, rs, n) /\ EvaluatePathRules(rs) = b.allow
  BY BestDecides
<1>2. /\ b.allow \in BOOLEAN /\ b.pattern.len \in Int
      /\ \A i \in 1..n : rs[i].pattern.matches => rs[i].pattern.len <= b.pattern.len
      /\ b.allow => \/ b.pattern.len = -1
                    \/ \E i \in MatchedBy(rs, n, TRUE) : rs[i].pattern.len = b.pattern.len
      /\ ~b.allow => /\ \E i \in MatchedBy(rs, n, FALSE) : rs[i].pattern.len = b.pattern.len
                     /\ \A i \in MatchedBy(rs, n, TRUE) : rs[i].pattern.len < b.pattern.len
  BY <1>1 DEF BestOf
<1>3. \A i \in 1..n : rs[i].pattern.len \in Nat
  <2>1. \A i \in 1..n : rs[i] \in Rule
    OBVIOUS
  <2> QED BY <2>1, RulesAre
<1>4. \A allowed \in BOOLEAN : \A i \in MatchedBy(rs, n, allowed) : i \in 1..n /\ rs[i].pattern.matches
  BY DEF MatchedBy
<1>5. \A allowed \in BOOLEAN : \A i \in MatchedBy(rs, n, allowed) :
        rs[i].pattern.len \in Nat /\ rs[i].pattern.len <= b.pattern.len
  BY <1>2, <1>3, <1>4
<1> HIDE DEF n
<1>6. CASE b.allow
  <2>1. CASE b.pattern.len = -1
    <3>1. MatchedBy(rs, n, FALSE) = {}
      <4>1. \A i \in MatchedBy(rs, n, FALSE) : rs[i].pattern.len \in Nat /\ rs[i].pattern.len <= b.pattern.len
        BY <1>5
      <4>2. \A i \in MatchedBy(rs, n, FALSE) : FALSE
        <5>1. ASSUME NEW i \in MatchedBy(rs, n, FALSE) PROVE FALSE
          <6>1. rs[i].pattern.len \in Nat /\ rs[i].pattern.len <= b.pattern.len
            BY <4>1
          <6> HIDE DEF MatchedBy
          <6> QED BY <2>1, <6>1
        <5> QED BY <5>1
      <4> QED BY <4>2
    <3> QED BY <1>1, <1>6, <3>1 DEF n
  <2>2. CASE \E i \in MatchedBy(rs, n, TRUE) : rs[i].pattern.len = b.pattern.len
    <3>1. PICK a \in MatchedBy(rs, n, TRUE) : rs[a].pattern.len = b.pattern.len
      BY <2>2
    <3>2. ASSUME NEW d \in MatchedBy(rs, n, FALSE) PROVE rs[a].pattern.len >= rs[d].pattern.len
      BY <1>2, <1>5, <3>1
    <3> QED BY <1>1, <1>6, <3>1, <3>2 DEF n
  <2> QED BY <1>2, <1>6, <2>1, <2>2
<1>7. CASE ~b.allow
  <2>1. PICK d \in MatchedBy(rs, n, FALSE) : rs[d].pattern.len = b.pattern.len
    BY <1>2, <1>7
  <2>2. ASSUME NEW a \in MatchedBy(rs, n, TRUE) PROVE ~(rs[a].pattern.len >= rs[d].pattern.len)
    <3>1. rs[a].pattern.len \in Nat /\ rs[a].pattern.len < b.pattern.len
      BY <1>2, <1>5, <1>7, <2>2
    <3> QED BY <1>2, <2>1, <3>1
  <2> QED BY <1>1, <1>7, <2>1, <2>2 DEF n
<1> QED BY <1>2, <1>6, <1>7

(* The group that is the crawler's, if there is one. *)
LEMMA FirstIs ==
  ASSUME NEW gs \in Seq(RuleGroup), NEW agent
  PROVE  First(gs, agent) = 0 \/ First(gs, agent) \in DOMAIN gs
<1> DEFINE named == {g \in DOMAIN gs : Names(gs[g], agent)}
<1>1. Len(gs) \in Nat /\ named \in SUBSET (1..Len(gs)) /\ DOMAIN gs = 1..Len(gs)
  OBVIOUS
<1>2. First(gs, agent) = IF named = {} THEN 0 ELSE Min(named)
  BY DEF First
<1> HIDE DEF named
<1>3. named # {} => Min(named) \in named
  BY <1>1, MinOfPositions
<1> QED BY <1>1, <1>2, <1>3

LEMMA RulesProperties ==
  ASSUME RulesInv
  PROVE  RulesTypeOK /\ RulesOfTheirAgents /\ LongestMatchWins
<1>1. RulesFile /\ \A g \in Groups : StandsBelow(g)
  BY DEF RulesInv
<1>2. /\ Flushed \in Seq(RuleGroup) /\ \A g \in DOMAIN Flushed : Flushed[g] \in Groups
  BY <1>1, FlushedFits
<1>3. RulesTypeOK
  <2>1. \A g \in DOMAIN groups : groups[g] \in RuleGroup
    BY <1>1 DEF RulesFile
  <2> QED BY <1>1, <2>1 DEF RulesFile, RulesTypeOK, RuleGroup
<1>4. RulesOfTheirAgents
  <2> SUFFICES ASSUME NEW g \in DOMAIN Flushed, NEW r \in DOMAIN Flushed[g].rules
               PROVE  LET above == AgentLinesOf(Flushed[g].rules[r].line)
                      IN  /\ {Flushed[g].agents[a] : a \in DOMAIN Flushed[g].agents} = {lines[i].agent : i \in above}
                          /\ above # {}
    BY DEF RulesOfTheirAgents
  <2>1. PICK h : h = Flushed[g]
    OBVIOUS
  <2>2. StandsBelow(h) /\ r \in DOMAIN h.rules
    BY <1>1, <1>2, <2>1
  <2>3. AgentsOf(h) = NamedIn(AgentLinesOf(h.rules[r].line)) /\ AgentLinesOf(h.rules[r].line) # {}
    BY <2>2 DEF StandsBelow
  <2>4. AgentsOf(h) = {h.agents[a] : a \in DOMAIN h.agents}
    BY DEF AgentsOf, ToSet
  <2> QED BY <2>1, <2>3, <2>4, ZenonT(40) DEF NamedIn
<1>5. LongestMatchWins
  <2> DEFINE g == MatchingGroup(Flushed)
             rs == Flushed[g].rules
  <2>1. g = 0 \/ g \in DOMAIN Flushed
    BY <1>2, FirstIs DEF MatchingGroup
  <2>2. CASE g = 0
    BY <2>2 DEF LongestMatchWins, Decision
  <2>3. CASE g # 0 /\ g \in DOMAIN Flushed
    <3>1. rs \in Seq(Rule) /\ DOMAIN rs = 1..Len(rs)
      <4>1. Flushed[g] \in RuleGroup
        BY <1>2, <2>3
      <4>2. rs \in Seq(Rule)
        BY <4>1 DEF RuleGroup
      <4> QED BY <4>2
    <3>2. Decision(Flushed) <=> EvaluatePathRules(rs)
      BY <2>3 DEF Decision
    <3>3. EvaluatePathRules(rs) <=>
            \A d \in MatchedBy(rs, Len(rs), FALSE) :
              \E a \in MatchedBy(rs, Len(rs), TRUE) : rs[a].pattern.len >= rs[d].pattern.len
      BY <3>1, LongestWins
    <3>4. \A allowed \in BOOLEAN :
            MatchedBy(rs, Len(rs), allowed) = {r \in DOMAIN rs : rs[r].allow = allowed /\ rs[r].pattern.matches}
      BY <3>1 DEF MatchedBy
    <3> QED BY <2>3, <3>2, <3>3, <3>4 DEF LongestMatchWins
  <2> QED BY <2>1, <2>2, <2>3
<1> QED BY <1>3, <1>4, <1>5

(***************************************************************************)
(* The component that runs.                                                *)
(***************************************************************************)
Parts ==
  {"server", "providers", "web", "fetch", "robots", "sitemaps", "mcp", "pool", "caches", "rules"}

RequestsInv ==
  /\ part \in Parts
  /\ part = "server"    => ServerInv
  /\ part = "providers" => ProviderInv
  /\ part = "web"       => WebInv
  /\ part = "fetch"     => FetchInv
  /\ part = "robots"    => PolicyInv
  /\ part = "sitemaps"  => MapInv
  /\ part = "mcp"       => McpInv
  /\ part = "pool"      => PoolInv
  /\ part = "caches"    => CacheInv
  /\ part = "rules"     => RulesInv

LEMMA RequestsInit == Init => RequestsInv
<1> SUFFICES ASSUME Init PROVE RequestsInv
  OBVIOUS
<1>1. /\ part \in Parts /\ ServerInit /\ ProviderInit /\ WebInit /\ FetchInit /\ PolicyInit /\ MapInit
      /\ McpInit /\ PoolInit /\ CacheInit /\ RulesInit
  BY DEF Init, Parts
<1> QED BY <1>1, ServerInitInvariant, ProviderInitInvariant, WebInitInvariant, FetchInitInvariant,
           PolicyInitInvariant, MapInitInvariant, McpInitInvariant, PoolInitInvariant,
           CacheInitInvariant, RulesInitInvariant DEF RequestsInv

(* A step is one of the component that runs, or leaves it as it is. *)
LEMMA RequestsMoves ==
  ASSUME [Next]_allVars
  PROVE  /\ part' = part
         /\ part = "server"    => [ServerNext]_serverVars
         /\ part = "providers" => [ProviderNext]_providerVars
         /\ part = "web"       => [WebNext]_webVars
         /\ part = "fetch"     => [FetchNext]_fetchVars
         /\ part = "robots"    => [PolicyNext]_policyVars
         /\ part = "sitemaps"  => [MapNext]_mapVars
         /\ part = "mcp"       => [McpNext]_mcpVars
         /\ part = "pool"      => [PoolNext]_poolVars
         /\ part = "caches"    => [CacheNext]_cacheVars
         /\ part = "rules"     => [RulesNext]_rulesVars
         /\ part # "server"    => UNCHANGED serverVars
         /\ part # "caches"    => UNCHANGED cacheVars
<1>1. CASE Next
  BY <1>1 DEF Next
<1>2. CASE UNCHANGED allVars
  BY <1>2 DEF allVars
<1> QED BY <1>1, <1>2

LEMMA RequestsStep == RequestsInv /\ [Next]_allVars => RequestsInv'
<1> SUFFICES ASSUME RequestsInv, [Next]_allVars PROVE RequestsInv'
  OBVIOUS
<1>1. part' = part /\ part \in Parts
  BY RequestsMoves DEF RequestsInv
<1>2. part = "server" => ServerInv'
  BY RequestsMoves, ServerStep DEF RequestsInv
<1>3. part = "providers" => ProviderInv'
  BY RequestsMoves, ProviderStep DEF RequestsInv
<1>4. part = "web" => WebInv'
  BY RequestsMoves, WebStep DEF RequestsInv
<1>5. part = "fetch" => FetchInv'
  BY RequestsMoves, FetchStep DEF RequestsInv
<1>6. part = "robots" => PolicyInv'
  BY RequestsMoves, PolicyStep DEF RequestsInv
<1>7. part = "sitemaps" => MapInv'
  BY RequestsMoves, MapStep DEF RequestsInv
<1>8. part = "mcp" => McpInv'
  BY RequestsMoves, McpStep DEF RequestsInv
<1>9. part = "pool" => PoolInv'
  BY RequestsMoves, PoolNextStep DEF RequestsInv
<1>10. part = "caches" => CacheInv'
  BY RequestsMoves, CacheNextStep DEF RequestsInv
<1>11. part = "rules" => RulesInv'
  BY RequestsMoves, RulesNextStep DEF RequestsInv
<1> QED BY <1>1, <1>2, <1>3, <1>4, <1>5, <1>6, <1>7, <1>8, <1>9, <1>10, <1>11 DEF RequestsInv

(* The inductive invariant of whichever component runs. *)
THEOREM RequestsInvariance == Spec => []RequestsInv
<1> QED BY RequestsInit, RequestsStep, PTL DEF Spec

(* The state of every component that waits for an answer, or keeps it, is well formed. *)
THEOREM RequestsAreTyped == Spec => []RequestsTypeOK
<1>1. RequestsInv => RequestsTypeOK
  BY ServerProperties, ProviderProperties, WebProperties, FetchProperties, PolicyProperties,
     MapProperties, McpProperties, PoolProperties, CacheProperties, RulesProperties
     DEF RequestsInv, RequestsTypeOK
<1> QED BY <1>1, RequestsInvariance, PTL

(* A request in local-only mode contacts nobody, through the API or over MCP; every    *)
(* hop of every attempt of a fetch goes to an address that was checked to be public;   *)
(* no page that robots.txt forbids comes out of a sitemap; and a page is forbidden by  *)
(* the longest of the rules that stand below the agent they are for, for every file.   *)
THEOREM NothingLeavesUnasked == Spec => []RequestsStayWhereAllowed
<1>1. RequestsInv => RequestsStayWhereAllowed
  BY ServerProperties, FetchProperties, MapProperties, McpProperties, RulesProperties
     DEF RequestsInv, RequestsStayWhereAllowed
<1> QED BY <1>1, RequestsInvariance, PTL

(* However many searches share a provider, an open circuit is sent at most the retries *)
(* of the other searches; a fetch sends at most one chain of redirects per attempt; a  *)
(* sitemap is fetched at most once and no more of them than the limit; and an origin's *)
(* robots.txt has one fetch under way, however many ask for it.                        *)
THEOREM OthersAreNotFlooded == Spec => []OutwardWorkIsBounded
<1>1. RequestsInv => OutwardWorkIsBounded
  BY ProviderProperties, FetchProperties, MapProperties, PolicyProperties
     DEF RequestsInv, OutwardWorkIsBounded
<1> QED BY <1>1, RequestsInvariance, PTL

(* The server's count is that of its open requests and each is measured once, the page *)
(* can abort the search it shows as loading, and an id of the MCP server names the     *)
(* request that may be cancelled by it.                                                *)
THEOREM HandlesAreExact == Spec => []HandlesNameWhatIsUnderWay
<1>1. RequestsInv => HandlesNameWhatIsUnderWay
  BY ServerProperties, WebProperties, McpProperties DEF RequestsInv, HandlesNameWhatIsUnderWay
<1> QED BY <1>1, RequestsInvariance, PTL

(* The results a page shows were asked for in the mode its preference has, its retry   *)
(* button waits for the last rate limit, and a page is permitted against a robots.txt  *)
(* that forbids it for no longer than the lifetime of a policy.                        *)
THEOREM StaleIsNotUsed == Spec => []NothingStaleIsUsed
<1>1. RequestsInv => NothingStaleIsUsed
  BY WebProperties, PolicyProperties DEF RequestsInv, NothingStaleIsUsed
<1> QED BY <1>1, RequestsInvariance, PTL

(* Each worker of the crawl pool keeps the delay of the host and a worker on its own   *)
(* keeps its window, however long the others waited; a batch leaves no job without its *)
(* result; and a cache holds no more than its capacity, nor a key twice.               *)
THEOREM LimitsHold == Spec => []LimitsAreKept
<1>1. RequestsInv => LimitsAreKept
  BY PoolProperties, CacheProperties DEF RequestsInv, LimitsAreKept
<1> QED BY <1>1, RequestsInvariance, PTL

(* What makes room in a cache is never among the keys used last, as many as it has     *)
(* room for: they stay until they expire or are dropped.  Only in the provider cache   *)
(* may a key go early, when it was written in place and not hit since.                 *)
THEOREM UsedStayCached == Spec => RecentlyUsedStay
<1>1. RequestsInv /\ [Next]_allVars =>
        [\A k \in KeysOf(cache) \cap LastUsed' :
           k \in KeysOf(cache') \/ k \in rewritten \/ Expired(EntryOf(cache, k))]_cacheVars
  BY RequestsMoves, CacheNextStep DEF RequestsInv
<1> QED BY <1>1, RequestsInvariance, PTL DEF Spec, RecentlyUsedStay

(* A stop() goes on before its grace period is over only when no request is open, and  *)
(* only a server that is ready takes a new one, however many stop() and start().       *)
THEOREM StoppingIsOrderly == Spec => StopIsOrderly
<1>1. RequestsInv /\ [Next]_allVars =>
        [/\ \A p \in Stopper : stopping[p] = "draining" /\ stopping'[p] \in {"closing", "idle"}
              => active = 0
         /\ \A s \in Slot : request[s].pc \in Ended /\ request'[s].pc = "reading"
              => lifecycle = "ready"]_serverVars
  BY RequestsMoves, ServerStepIsOrderly DEF RequestsInv
<1> QED BY <1>1, RequestsInvariance, PTL DEF Spec, StopIsOrderly, GraceRespected, NoNewWorkWhileStopping
===============================================================================
