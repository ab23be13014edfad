------------------------------- MODULE WebSearch -------------------------------
(***************************************************************************)
(* The search page (apps/web/src/app.js): searches under way, the panel    *)
(* and the results the page shows, the local-only preference, the loss and *)
(* return of the network, and the wait after a rate limit.                 *)
(*                                                                         *)
(* Abstractions: a query stands for the query and its page; what a search  *)
(* shows is named by its request; suggestions, themes, keyboard            *)
(* navigation, the service worker and the layout of results are left out.  *)
(* An action is one task of the browser's event loop.                      *)
(***************************************************************************)
EXTENDS Integers

CONSTANTS
  WebQuery,
  MaxRequests,     \* bound: searches started
  WebRetryAfter    \* seconds a Retry-After header asks for

\* callers start no search for an empty query
NoQuery == ""   \* currentQuery before the first search

ASSUME WebAssumption ==
  NoQuery \notin WebQuery /\ MaxRequests \in Nat /\ WebRetryAfter \in Nat \ {0}

VARIABLES
  online,      \* navigator.onLine
  newest,      \* currentRequestId
  controller,      \* request of activeAbortController, 0 for null
  current,     \* currentQuery
  webRequest,      \* request -> its fetch
  view,        \* the panel, the request whose results are in resultsArea, the one that showed it
  localOnly,   \* isLocalOnly, and the checkbox beside the search field
  countdown,   \* rateLimitSecondsLeft and its timer
  mended       \* history: preferences were reset since the last search

webVars == <<online, newest, controller, current, webRequest, view, localOnly, countdown, mended>>

RequestId == 1..MaxRequests
UnderWay == {"fetch", "body", "errorBody"}
Panel == {"none", "loading", "offline", "failure", "rate", "error"}
NoWebRequest == [pc |-> "none", local |-> FALSE, aborted |-> FALSE]

WebTypeOK ==
  /\ online \in BOOLEAN /\ mended \in BOOLEAN
  /\ newest \in 0..MaxRequests /\ controller \in 0..newest
  /\ current \in WebQuery \cup {NoQuery}
  /\ webRequest \in [RequestId -> [pc : UnderWay \cup {"none", "done"},
                                local : BOOLEAN, aborted : BOOLEAN]]
  /\ view \in [panel : Panel, results : 0..newest, by : 0..newest]
  /\ localOnly \in [set : BOOLEAN, checkbox : BOOLEAN]
  /\ countdown \in [left : -MaxRequests..WebRetryAfter, timers : 0..1, since : 0..WebRetryAfter]

WebInit ==
  /\ online = TRUE /\ newest = 0 /\ controller = 0 /\ current = NoQuery
  /\ webRequest = [i \in RequestId |-> NoWebRequest]
  /\ view = [panel |-> "none", results |-> 0, by |-> 0]
  /\ \E b \in BOOLEAN : localOnly = [set |-> b, checkbox |-> b]   \* initPreferences
  /\ countdown = [left |-> 0, timers |-> 0, since |-> WebRetryAfter]
  /\ mended = FALSE

(***************************************************************************)
(* performSearch, up to its fetch                                          *)
(***************************************************************************)
Aborted == IF controller = 0 THEN webRequest ELSE [webRequest EXCEPT ![controller].aborted = TRUE]

\* showOfflineState and the other panels clear the results; the loading panel does not
Shows(panel, i) == view' = [panel |-> panel, results |-> 0, by |-> i]

Dispatches(q, local) ==
  /\ newest < MaxRequests
  /\ newest' = newest + 1
  /\ webRequest' = [Aborted EXCEPT ![newest'] = [pc |-> "fetch", local |-> local, aborted |-> FALSE]]
  /\ controller' = newest'
  /\ view' = [view EXCEPT !.panel = "loading", !.by = 0]
  /\ current' = q /\ mended' = FALSE

PerformSearch(q, local) ==
  \/ online /\ Dispatches(q, local)
  \/ /\ ~online /\ newest < MaxRequests
     /\ newest' = newest + 1
     /\ webRequest' = Aborted /\ controller' = 0
     /\ Shows("offline", newest')
     /\ mended' = FALSE /\ UNCHANGED current

SearchAgain(local) ==
  IF current = NoQuery THEN UNCHANGED <<newest, controller, current, webRequest, view, mended>>
  ELSE PerformSearch(current, local)

(***************************************************************************)
(* Events                                                                  *)
(***************************************************************************)
\* submit, topic button, suggestion, "did you mean", filter, another page, back and forward
Submits(q) == PerformSearch(q, localOnly.set) /\ UNCHANGED <<online, localOnly, countdown>>

\* the retry button of a panel, that of the rate limit once its countdown is over
PressesRetry ==
  /\ view.panel \in {"error", "failure", "offline"} \/ (view.panel = "rate" /\ countdown.left <= 0)
  /\ current # NoQuery
  /\ PerformSearch(current, localOnly.set)
  /\ UNCHANGED <<online, localOnly, countdown>>

\* mutant: the shown results are left
SetsLocalOnlyQuietly(b) ==
  /\ b # localOnly.set
  /\ localOnly' = [set |-> b, checkbox |-> b]
  /\ UNCHANGED <<online, countdown, newest, controller, current, webRequest, view, mended>>

\* the checkbox, the toggle in the settings, or the buttons that leave local-only mode
SetsLocalOnly(b) ==
  /\ b # localOnly.set \/ b # localOnly.checkbox
  /\ localOnly' = [set |-> b, checkbox |-> b]
  /\ SearchAgain(b)
  /\ UNCHANGED <<online, countdown>>

\* resetPreferences leaves the checkbox, and the results
ResetsPreferences ==
  /\ localOnly' = [localOnly EXCEPT !.set = FALSE]
  /\ mended' = TRUE
  /\ UNCHANGED <<online, newest, controller, current, webRequest, view, countdown>>

\* Escape in the search field, or back to a page without a query: requests go on
Clears ==
  /\ Shows("none", 0)
  /\ UNCHANGED <<online, newest, controller, current, webRequest, localOnly, countdown, mended>>

GoesOffline ==
  /\ online /\ online' = FALSE
  /\ Shows("offline", 0)
  /\ UNCHANGED <<newest, controller, current, webRequest, localOnly, countdown, mended>>

GoesOnline ==
  /\ ~online /\ online' = TRUE
  /\ CASE view.panel # "offline" -> UNCHANGED <<newest, controller, current, webRequest, view, mended>>
       [] view.panel = "offline" /\ current # NoQuery -> Dispatches(current, localOnly.set)
       [] OTHER -> /\ view' = [view EXCEPT !.panel = "none", !.by = 0]
                   /\ UNCHANGED <<newest, controller, current, webRequest, mended>>
  /\ UNCHANGED <<localOnly, countdown>>

(***************************************************************************)
(* performSearch, from its fetch on                                        *)
(***************************************************************************)
\* mutant: as in fetchSuggestions
FinallyAlways(i) == controller' = 0

\* finally: only the newest search hides the loading panel and lets its controller go
Finally(i) == controller' = IF i = newest THEN 0 ELSE controller

\* a superseded request, or one whose AbortError is caught, shows nothing
Dropped(i) == webRequest[i].aborted \/ i # newest

Done(i) == webRequest' = [webRequest EXCEPT ![i].pc = "done"]

\* showRateLimitState: the timer of an earlier one is cleared
StartsCountdown == countdown' = [left |-> WebRetryAfter, timers |-> 1, since |-> 0]

\* the response's head, the rejection by an abort, or a network error
WebResponds(i) ==
  /\ webRequest[i].pc = "fetch"
  /\ \/ /\ Dropped(i)
        /\ Done(i) /\ Finally(i) /\ UNCHANGED <<view, countdown>>
     \/ /\ ~Dropped(i) /\ online
        /\ \E pc \in {"body", "errorBody"} : webRequest' = [webRequest EXCEPT ![i].pc = pc]
        /\ UNCHANGED <<controller, view, countdown>>
     \/ /\ ~Dropped(i) /\ online
        /\ Done(i) /\ Finally(i) /\ Shows("rate", i) /\ StartsCountdown
     \/ /\ ~Dropped(i)
        /\ Done(i) /\ Finally(i) /\ Shows(IF online THEN "error" ELSE "offline", i)
        /\ UNCHANGED countdown
  /\ UNCHANGED <<online, newest, current, localOnly, mended>>

\* the body: the results are rendered, or it cannot be read
ReadsBody(i) ==
  /\ webRequest[i].pc = "body"
  /\ Done(i) /\ Finally(i)
  /\ IF Dropped(i) THEN UNCHANGED view
     ELSE \/ online /\ view' = [panel |-> "none", results |-> i, by |-> i]
          \/ Shows(IF online THEN "error" ELSE "offline", i)
  /\ UNCHANGED <<online, newest, current, localOnly, countdown, mended>>

\* the body of an error: whatever becomes of it, also an abort, the panel is shown
ReadsErrorBody(i) ==
  /\ webRequest[i].pc = "errorBody"
  /\ Done(i) /\ Finally(i)
  /\ \E panel \in {"failure", "error"} : Shows(panel, i)
  /\ UNCHANGED <<online, newest, current, localOnly, countdown, mended>>

\* a second passes: the timer's callback
SecondPasses ==
  /\ countdown.timers = 1 \/ countdown.since < WebRetryAfter
  /\ countdown' = [left   |-> countdown.left - countdown.timers,
                   timers |-> IF countdown.left - 1 <= 0 THEN 0 ELSE countdown.timers,
                   since  |-> IF countdown.since < WebRetryAfter THEN countdown.since + 1
                              ELSE WebRetryAfter]
  /\ UNCHANGED <<online, newest, controller, current, webRequest, view, localOnly, mended>>

Settles(i) == WebResponds(i) \/ ReadsBody(i) \/ ReadsErrorBody(i)

WebNext ==
  \/ \E q \in WebQuery : Submits(q)
  \/ PressesRetry \/ ResetsPreferences \/ Clears \/ GoesOffline \/ GoesOnline \/ SecondPasses
  \/ \E b \in BOOLEAN : SetsLocalOnly(b)
  \/ \E i \in RequestId : Settles(i)

\* a browser settles every fetch, and runs its timers
WebFairness == WF_webVars(SecondPasses) /\ \A i \in RequestId : WF_webVars(Settles(i))

WebSpec == WebInit /\ [][WebNext]_webVars /\ WebFairness

(***************************************************************************)
(* Properties                                                              *)
(***************************************************************************)
Searching(i) == webRequest[i].pc \in UnderWay

\* While a search is under way the next one can abort it, and while the page says it is
\* loading, the search it says so for is under way.
NewestCanBeAborted ==
  /\ \A i \in RequestId : i = newest /\ Searching(i) => controller = i
  /\ view.panel = "loading" => newest > 0 /\ Searching(newest)

\* Results that stay on the page were asked for in the mode the preference has: turning
\* local-only on or off replaces them, except when the preferences are reset.
ResultsOfTheMode ==
  view.results > 0 /\ view.panel # "loading" /\ ~mended =>
    webRequest[view.results].local = localOnly.set

\* "Countdown timer honoring Retry-After; disabled retry until ready": the retry button
\* of the rate limit is ready only when the seconds of the last 429 have passed.
RetryAfterHonoured == view.panel = "rate" /\ countdown.left <= 0 => countdown.since >= WebRetryAfter

\* The newest search under way shows an answer or what went wrong, or a newer one does.
SearchAnswered ==
  (newest > 0 /\ Searching(newest)) ~> (newest > 0 /\ view.by = newest)

\* "prevent stale responses from overwriting newer searches": what a search shows, it
\* shows while it is the newest one.
StaleAnswersDropped == [][view' # view /\ view'.by # 0 => view'.by = newest]_webVars
===============================================================================
