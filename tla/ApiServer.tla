------------------------------ MODULE ApiServer ------------------------------
(***************************************************************************)
(* The life cycle of the HTTP API server and of the requests it handles    *)
(* (apps/api/src/server.ts, router.ts, middlewares.ts and handleSearch in  *)
(* routes.ts).                                                             *)
(*                                                                         *)
(* A request passes the middlewares and is answered from the query cache,  *)
(* or its handler waits for the search providers.  A time-out answers for  *)
(* a handler, which goes on.  Calls of start() and stop() run beside the   *)
(* requests, and stop() may be called twice, by two signals.               *)
(*                                                                         *)
(* Abstractions: "query" is what the cache key is made of (query, page,    *)
(* page size, lens); of an answer only what the options of its request     *)
(* decide is kept; time passes by grace periods, time-outs and expiries    *)
(* that happen when they like.  Health and readiness probes, which are     *)
(* answered during a shutdown too and are not counted there, are left out: *)
(* they change nothing, and stop() does not wait for them.                 *)
(***************************************************************************)
EXTENDS Integers, FiniteSets

CONSTANTS
  Slot,      \* bound: requests in progress at a time
  Query,     \* what a cache key is made of
  Options,   \* the options a request may have: records of mode and safe
  Stopper    \* bound: calls of stop() in progress at a time

ASSUME ServerAssumption ==
  /\ IsFiniteSet(Slot) /\ Query # {}
  /\ Options \subseteq [mode : {"standard", "local"}, safe : {"off", "strict"}]

VARIABLES
  lifecycle,  \* state
  server,     \* the HTTP server: "none", "listening", or "closing"
  active,     \* activeRequestsCount
  request,    \* the requests
  answers,    \* queryCache: query -> the options the answer was made for
  starting,   \* start() is loading the index
  stopping,   \* calls of stop()
  \* history
  stopCalls   \* calls of stop() since the last start()

serverVars == <<lifecycle, server, active, request, answers, starting, stopping, stopCalls>>

NoAnswer == [mode |-> "none", safe |-> "off"]
NoRequest == [pc |-> "free", query |-> CHOOSE q \in Query : TRUE, options |-> NoAnswer,
              status |-> 0, answer |-> NoAnswer, counted |-> 0, contacted |-> FALSE]
InFlight == {"reading", "fetching"}
Ended    == {"free", "answered"}

ServerTypeOK ==
  /\ lifecycle \in {"initializing", "ready", "shutting_down", "stopped"}
  /\ server \in {"none", "listening", "closing"} /\ starting \in BOOLEAN
  /\ active \in 0..Cardinality(Slot)
  /\ request \in [Slot -> [pc : {"free", "reading", "fetching", "late", "aborted", "gone", "answered"},
                           query : Query, options : Options \cup {NoAnswer},
                           status : {0, 200, 429, 503, 504}, answer : Options \cup {NoAnswer},
                           counted : 0..1, contacted : BOOLEAN]]
  /\ answers \in [Query -> Options \cup {NoAnswer}]
  /\ stopping \in [Stopper -> {"idle", "draining", "overdue", "closing"}]
  /\ stopCalls \in 0..2

ServerInit ==
  /\ lifecycle = "initializing" /\ server = "none" /\ active = 0
  /\ request = [s \in Slot |-> NoRequest]
  /\ answers = [q \in Query |-> NoAnswer]
  /\ starting = FALSE
  /\ stopping = [p \in Stopper |-> "idle"]
  /\ stopCalls = 0

(***************************************************************************)
(* start and stop                                                          *)
(***************************************************************************)
Start ==
  /\ lifecycle \in {"initializing", "stopped"} /\ ~starting /\ server = "none"
  /\ \A p \in Stopper : stopping[p] = "idle"
  /\ starting' = TRUE /\ stopCalls' = 0
  /\ UNCHANGED <<lifecycle, server, active, request, answers, stopping>>

\* the index is loaded, whatever has happened meanwhile
Listens ==
  /\ starting /\ starting' = FALSE
  /\ lifecycle' = "ready" /\ server' = "listening" /\ active' = 0
  /\ UNCHANGED <<request, answers, stopping, stopCalls>>

\* drain and stop: only the call that finds the server running waits for the requests
Stop(p) ==
  /\ stopping[p] = "idle" /\ lifecycle # "stopped" /\ stopCalls < 2
  /\ stopCalls' = stopCalls + 1
  /\ stopping' = [stopping EXCEPT ![p] = IF lifecycle = "shutting_down" THEN "overdue" ELSE "draining"]
  /\ lifecycle' = "shutting_down"
  /\ UNCHANGED <<server, active, request, answers, starting>>

GraceExpires(p) ==
  /\ stopping[p] = "draining"
  /\ stopping' = [stopping EXCEPT ![p] = "overdue"]
  /\ UNCHANGED <<lifecycle, server, active, request, answers, starting, stopCalls>>

\* mutant: the requests are not waited for
DrainedAtOnce(p) == stopping[p] \in {"overdue", "draining"}

\* the sockets are destroyed, the cache is cleared and the server closed
Drained(p) == stopping[p] = "overdue" \/ (stopping[p] = "draining" /\ active = 0)

Cut(r) == [r EXCEPT !.pc = CASE @ = "reading" -> "aborted" [] @ = "fetching" -> "gone" [] OTHER -> @]
DestroysSockets(p) ==
  /\ Drained(p)
  /\ request' = [s \in Slot |-> Cut(request[s])]
  /\ active' = 0
  /\ answers' = [q \in Query |-> NoAnswer]
  /\ CASE server = "none"      -> /\ lifecycle' = "stopped" /\ UNCHANGED server
                                  /\ stopping' = [stopping EXCEPT ![p] = "idle"]
       [] server = "listening" -> /\ server' = "closing" /\ UNCHANGED lifecycle
                                  /\ stopping' = [stopping EXCEPT ![p] = "closing"]
       \* it refuses to be closed again, and the call ends with an error
       [] server = "closing"   -> /\ stopping' = [stopping EXCEPT ![p] = "idle"]
                                  /\ UNCHANGED <<lifecycle, server>>
  /\ UNCHANGED <<starting, stopCalls>>

Closed(p) ==
  /\ stopping[p] = "closing"
  /\ stopping' = [stopping EXCEPT ![p] = "idle"]
  /\ lifecycle' = "stopped" /\ server' = "none"
  /\ UNCHANGED <<active, request, answers, starting, stopCalls>>

(***************************************************************************)
(* Requests                                                                *)
(***************************************************************************)

\* the count goes down with the first of the events finish and close
Finishes(s, r) ==
  /\ request' = [request EXCEPT ![s] = r]
  /\ active' = IF request[s].pc \in InFlight THEN (IF active > 0 THEN active - 1 ELSE 0) ELSE active

Arrives(s, q, o) ==
  /\ server = "listening" /\ request[s].pc \in Ended
  /\ IF lifecycle = "shutting_down"
     THEN /\ request' = [request EXCEPT ![s] = [NoRequest EXCEPT !.pc = "answered", !.status = 503]]
          /\ UNCHANGED active
     ELSE /\ request' = [request EXCEPT ![s] = [NoRequest EXCEPT !.pc = "reading", !.query = q, !.options = o]]
          /\ active' = active + 1
  /\ UNCHANGED <<lifecycle, server, answers, starting, stopping, stopCalls>>

Answered(r, status, answer) ==
  [r EXCEPT !.pc = "answered", !.status = status, !.answer = answer, !.counted = @ + 1]

\* the rate limiter refuses, or the cache has an answer
AnswersAtOnce(s) ==
  LET r == request[s] IN
  /\ r.pc = "reading"
  /\ \/ Finishes(s, Answered(r, 429, NoAnswer))
     \/ answers[r.query] # NoAnswer /\ Finishes(s, Answered(r, 200, answers[r.query]))
  /\ UNCHANGED <<lifecycle, server, answers, starting, stopping, stopCalls>>

\* the body has been read; local results are found, providers are contacted in standard mode
Contacts(r) == r.options.mode = "standard"

Fetches(s) ==
  /\ request[s].pc = "reading" /\ answers[request[s].query] = NoAnswer
  /\ request' = [request EXCEPT ![s].pc = "fetching", ![s].contacted = Contacts(request[s])]
  /\ UNCHANGED <<lifecycle, server, active, answers, starting, stopping, stopCalls>>

\* the answer is cached, and sent if there is still someone to send it to
Responds(s) ==
  LET r == request[s] IN
  /\ r.pc = "fetching"
  /\ answers' = [answers EXCEPT ![r.query] = r.options]
  /\ Finishes(s, Answered(r, 200, r.options))
  /\ UNCHANGED <<lifecycle, server, starting, stopping, stopCalls>>

\* after a time-out: json() throws, and the rejection is not looked at
RespondsLate(s) ==
  LET r == request[s] IN
  /\ r.pc = "late"
  /\ answers' = [answers EXCEPT ![r.query] = r.options]
  /\ request' = [request EXCEPT ![s].pc = "answered"]
  /\ UNCHANGED <<lifecycle, server, active, starting, stopping, stopCalls>>

\* the time-out middleware rejects: handleError answers and counts
TimesOut(s) ==
  /\ request[s].pc = "fetching"
  /\ Finishes(s, [Answered(request[s], 504, NoAnswer) EXCEPT !.pc = "late"])
  /\ UNCHANGED <<lifecycle, server, answers, starting, stopping, stopCalls>>

\* the client goes away; the handler goes on
ClientCloses(s) ==
  /\ request[s].pc \in InFlight
  /\ Finishes(s, Cut(request[s]))
  /\ UNCHANGED <<lifecycle, server, answers, starting, stopping, stopCalls>>

\* the handler of a closed connection ends, with an answer, a time-out or an aborted body
EndsUnheard(s) ==
  LET r == request[s] IN
  /\ r.pc \in {"aborted", "gone"}
  /\ request' = [request EXCEPT ![s] = Answered(r, 0, NoAnswer)]
  /\ \/ UNCHANGED answers
     \/ r.pc = "gone" /\ answers' = [answers EXCEPT ![r.query] = r.options]
  /\ UNCHANGED <<lifecycle, server, active, starting, stopping, stopCalls>>

\* an answer is too old, or makes room for another
CacheForgets(q) ==
  /\ answers[q] # NoAnswer
  /\ answers' = [answers EXCEPT ![q] = NoAnswer]
  /\ UNCHANGED <<lifecycle, server, active, request, starting, stopping, stopCalls>>

ServerNext ==
  \/ Start \/ Listens
  \/ \E p \in Stopper : Stop(p) \/ GraceExpires(p) \/ DestroysSockets(p) \/ Closed(p)
  \/ \E s \in Slot : \/ \E q \in Query, o \in Options : Arrives(s, q, o)
                     \/ AnswersAtOnce(s) \/ Fetches(s) \/ Responds(s) \/ RespondsLate(s)
                     \/ TimesOut(s) \/ ClientCloses(s) \/ EndsUnheard(s)
  \/ \E q \in Query : CacheForgets(q)

\* timers fire and callbacks run; clients need not send, and providers need not answer
ServerFairness ==
  /\ WF_serverVars(Listens)
  /\ \A p \in Stopper : WF_serverVars(GraceExpires(p)) /\ WF_serverVars(DestroysSockets(p))
                        /\ WF_serverVars(Closed(p))
  /\ \A s \in Slot : WF_serverVars(TimesOut(s))

ServerSpec == ServerInit /\ [][ServerNext]_serverVars /\ ServerFairness

(***************************************************************************)
(* Properties                                                              *)
(***************************************************************************)

\* activeRequestsCount, which drain waits for, is the number of open requests,
\* whichever of their events comes first.
ActiveCountsRequests == active = Cardinality({s \in Slot : request[s].pc \in InFlight})

\* The request metrics count each request once, also when it timed out and its
\* handler ended later, or when its client had gone.
CountedOnce ==
  \A s \in Slot : /\ request[s].counted <= 1
                  /\ request[s].pc = "answered" /\ request[s].status # 503 => request[s].counted = 1

\* "In-flight requests are allowed to finish up to gracePeriodMs": the server cuts a
\* request only when the period is over, or when stop() was called again.
GraceRespected ==
  [][\A p \in Stopper : stopping[p] = "draining" /\ stopping'[p] \in {"closing", "idle"}
       => active = 0]_serverVars

\* "Stop accepting new work during shutdown": nothing new reaches a handler
\* from stop() on, unless a start() under way overtakes it.
NoNewWorkWhileStopping ==
  [][\A s \in Slot : request[s].pc \in Ended /\ request'[s].pc = "reading"
       => lifecycle = "ready"]_serverVars

\* "Zero outbound network calls in Local-only mode": a request in local-only mode
\* contacts no provider.
LocalContactsNobody ==
  \A s \in Slot : request[s].contacted => request[s].options.mode = "standard"

\* A call of stop() ends with the server stopped, or running again because a
\* start() was under way, whatever clients and providers do.
StopEnds == (\E p \in Stopper : stopping[p] # "idle") ~> (lifecycle \in {"stopped", "ready"})

\* Divergence: what a local-only or strict request is answered was made for such a
\* request.  The cache key has neither of the options.
AnsweredAsAsked ==
  \A s \in Slot : request[s].status = 200 => request[s].answer = request[s].options
===============================================================================
