------------------------------- MODULE PageFetch -------------------------------
(***************************************************************************)
(* One page fetch of the crawler (NodeFetcher,                             *)
(* packages/crawler/src/fetcher/node-fetcher.ts): the address check before *)
(* every hop, redirects followed by hand, time-outs, and retries with a    *)
(* back-off.                                                               *)
(*                                                                         *)
(* Abstractions: a URL is a valid, normalized one or Malformed; which      *)
(* hosts resolve to public addresses (ssrfCheck) does not change; servers  *)
(* answer as they like, or never.                                          *)
(***************************************************************************)
EXTENDS Integers

CONSTANTS
  PageUrl, PublicUrl,   \* URLs, and those whose host resolves to public addresses
  Malformed,            \* an address validateUrl or normalizeUrl refuses
  MaxRedirects, MaxFetchRetries

ASSUME FetchAssumption ==
  /\ PublicUrl \subseteq PageUrl /\ Malformed \notin PageUrl
  /\ MaxRedirects \in Nat /\ MaxFetchRetries \in Nat

VARIABLES
  fetch,       \* the fetch under way: where it is, its URL, redirects, retries, outcome
  contacted,   \* history: the URLs requests were sent to
  sent         \* history: how many requests were

fetchVars == <<fetch, contacted, sent>>

FetchCode == {"none", "OK", "TIMEOUT", "NETWORK_ERROR", "HTTP_CLIENT_ERROR", "TOO_MANY_REQUESTS",
              "HTTP_SERVER_ERROR", "UNAVAILABLE", "REDIRECT_FAILURE", "REJECTED",
              "UNSUPPORTED_CONTENT_TYPE", "CONTENT_SIZE_EXCEEDED"}
NoFetch == [pc |-> "idle", start |-> Malformed, url |-> Malformed,
            redirects |-> 0, retries |-> 0, code |-> "none"]

FetchTypeOK ==
  /\ fetch \in [pc : {"idle", "request", "body", "backoff"},
                start : PageUrl \cup {Malformed}, url : PageUrl \cup {Malformed},
                redirects : 0..MaxRedirects + 1, retries : 0..MaxFetchRetries, code : FetchCode]
  /\ contacted \subseteq PageUrl
  /\ sent \in Nat

FetchInit == fetch = NoFetch /\ contacted = {} /\ sent = 0

\* isRetriable and the "retryable" of each failure; 429, 503 and 504 have codes of their own here
Retriable(code) == code \in {"TIMEOUT", "NETWORK_ERROR", "TOO_MANY_REQUESTS", "UNAVAILABLE"}

\* mutant: a redirect's target is not looked up
SafeByForm(u) == u # Malformed

\* validateUrl, normalizeUrl and ssrfCheck
Safe(u) == u \in PublicUrl

SendsTo(u) == contacted' = contacted \cup {u} /\ sent' = sent + 1

BeginFetch(u) ==
  /\ fetch.pc = "idle"
  /\ IF u # Malformed /\ Safe(u)
     THEN /\ fetch' = [NoFetch EXCEPT !.pc = "request", !.start = u, !.url = u]
          /\ contacted' = {u} /\ sent' = 1
     ELSE fetch' = [NoFetch EXCEPT !.code = "REJECTED"] /\ contacted' = {} /\ sent' = 0

\* doFetch returned a failure: fetch decides on a retry
FailsWith(code) ==
  /\ fetch' = IF Retriable(code) /\ fetch.retries < MaxFetchRetries
              THEN [fetch EXCEPT !.pc = "backoff", !.code = code]
              ELSE [fetch EXCEPT !.pc = "idle", !.code = code]
  /\ UNCHANGED <<contacted, sent>>

BackoffOver ==
  /\ fetch.pc = "backoff"
  /\ fetch' = [fetch EXCEPT !.pc = "request", !.url = fetch.start, !.redirects = 0,
                            !.retries = @ + 1, !.code = "none"]
  /\ SendsTo(fetch.start)

\* the timer of the request: it is cleared once the response's head is there
RequestTimesOut == fetch.pc = "request" /\ FailsWith("TIMEOUT")

\* a redirect without a location, or with one that is refused, ends the fetch
Redirects(u) ==
  /\ fetch.pc = "request"
  /\ IF u = Malformed THEN FailsWith("REDIRECT_FAILURE")
     ELSE IF ~Safe(u) THEN FailsWith("REJECTED")
     ELSE IF fetch.redirects + 1 > MaxRedirects THEN FailsWith("REDIRECT_FAILURE")
     ELSE fetch' = [fetch EXCEPT !.url = u, !.redirects = @ + 1] /\ SendsTo(u)

Refuses ==
  /\ fetch.pc = "request"
  /\ \E code \in {"NETWORK_ERROR", "HTTP_CLIENT_ERROR", "TOO_MANY_REQUESTS", "HTTP_SERVER_ERROR",
                  "UNAVAILABLE", "UNSUPPORTED_CONTENT_TYPE"} : FailsWith(code)

FetchSucceeds == fetch' = [fetch EXCEPT !.pc = "idle", !.code = "OK"] /\ UNCHANGED <<contacted, sent>>

\* 304, or a response without a body
AnswersEmpty == fetch.pc = "request" /\ FetchSucceeds

AnswersWithBody ==
  /\ fetch.pc = "request"
  /\ fetch' = [fetch EXCEPT !.pc = "body"]
  /\ UNCHANGED <<contacted, sent>>

\* the body ends, breaks off, or is too long
BodyEnds ==
  /\ fetch.pc = "body"
  /\ FetchSucceeds \/ FailsWith("NETWORK_ERROR") \/ FailsWith("CONTENT_SIZE_EXCEEDED")

FetchNext ==
  \/ \E u \in PageUrl \cup {Malformed} : BeginFetch(u) \/ Redirects(u)
  \/ BackoffOver \/ RequestTimesOut \/ Refuses \/ AnswersEmpty \/ AnswersWithBody \/ BodyEnds

\* timers fire; nothing is asked of the servers
FetchFairness == WF_fetchVars(RequestTimesOut) /\ WF_fetchVars(BackoffOver)

FetchSpec == FetchInit /\ [][FetchNext]_fetchVars /\ FetchFairness

(***************************************************************************)
(* Properties                                                              *)
(***************************************************************************)

\* Whatever the servers answer, redirect loops included, a fetch sends a bounded number
\* of requests.
RequestsBounded == sent <= (MaxRedirects + 1) * (MaxFetchRetries + 1)

\* No request goes to a host that does not resolve to public addresses, at no hop.
HopsChecked == contacted \subseteq PublicUrl

\* A server that does not answer does not hold up a fetch: a response's head, or an end.
HeadOrEnd == (fetch.pc \in {"request", "backoff"}) ~> (fetch.pc \in {"body", "idle"})

\* "Request Timeout Enforcement: Ensures non-responsive hosts do not block crawler
\* workers": every fetch ends.
FetchesEndInTime == (fetch.pc # "idle") ~> (fetch.pc = "idle")
===============================================================================
