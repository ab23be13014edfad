------------------------------ MODULE MCRequests ------------------------------
(***************************************************************************)
(* The components that wait for someone's answer, or keep it, each on its  *)
(* own: a behaviour chooses one of them, and the others stay as they begin.*)
(***************************************************************************)
EXTENDS ApiServer, ProviderSearch, WebSearch, PageFetch, RobotsPolicy, SitemapIngest,
        McpServer, WorkerPool, LruCaches, RobotsRules

VARIABLE part   \* the component that runs

allVars == <<serverVars, providerVars, webVars, fetchVars, policyVars, mapVars, mcpVars,
             poolVars, cacheVars, rulesVars, part>>

MCOptions == {[mode |-> "standard", safe |-> "off"], [mode |-> "local", safe |-> "strict"]}

Init ==
  /\ part \in {"server", "providers", "web", "fetch", "robots", "sitemaps", "mcp", "pool", "caches",
               "rules"}
  /\ ServerInit /\ ProviderInit /\ WebInit /\ FetchInit /\ PolicyInit /\ MapInit
  /\ McpInit /\ PoolInit /\ CacheInit /\ RulesInit
  /\ part # "providers" => ~outage
  /\ part # "web" => ~localOnly.set
  /\ part # "mcp" => ~localServer
  /\ part # "pool" => pool = PoolWorker
  /\ part # "caches" => which = "query"
  /\ part # "robots" => \A o \in Origin : site[o] = "absent"

Next ==
  /\ UNCHANGED part
  /\ \/ /\ part = "server" /\ ServerNext
        /\ UNCHANGED <<providerVars, webVars, fetchVars, policyVars, mapVars, mcpVars, poolVars,
                       cacheVars, rulesVars>>
     \/ /\ part = "providers" /\ ProviderNext
        /\ UNCHANGED <<serverVars, webVars, fetchVars, policyVars, mapVars, mcpVars, poolVars,
                       cacheVars, rulesVars>>
     \/ /\ part = "web" /\ WebNext
        /\ UNCHANGED <<serverVars, providerVars, fetchVars, policyVars, mapVars, mcpVars,
                       poolVars, cacheVars, rulesVars>>
     \/ /\ part = "fetch" /\ FetchNext
        /\ UNCHANGED <<serverVars, providerVars, webVars, policyVars, mapVars, mcpVars, poolVars,
                       cacheVars, rulesVars>>
     \/ /\ part = "robots" /\ PolicyNext
        /\ UNCHANGED <<serverVars, providerVars, webVars, fetchVars, mapVars, mcpVars, poolVars,
                       cacheVars, rulesVars>>
     \/ /\ part = "sitemaps" /\ MapNext
        /\ UNCHANGED <<serverVars, providerVars, webVars, fetchVars, policyVars, mcpVars,
                       poolVars, cacheVars, rulesVars>>
     \/ /\ part = "mcp" /\ McpNext
        /\ UNCHANGED <<serverVars, providerVars, webVars, fetchVars, policyVars, mapVars,
                       poolVars, cacheVars, rulesVars>>
     \/ /\ part = "pool" /\ PoolNext
        /\ UNCHANGED <<serverVars, providerVars, webVars, fetchVars, policyVars, mapVars, mcpVars,
                       cacheVars, rulesVars>>
     \/ /\ part = "caches" /\ CacheNext
        /\ UNCHANGED <<serverVars, providerVars, webVars, fetchVars, policyVars, mapVars, mcpVars,
                       poolVars, rulesVars>>
     \/ /\ part = "rules" /\ RulesNext
        /\ UNCHANGED <<serverVars, providerVars, webVars, fetchVars, policyVars, mapVars, mcpVars,
                       poolVars, cacheVars>>

\* ServerFairness, ProviderFairness and so on, of the component that runs
Spec ==
  /\ Init /\ [][Next]_allVars
  /\ WF_serverVars(part = "server" /\ Listens)
  /\ \A p \in Stopper : /\ WF_serverVars(part = "server" /\ GraceExpires(p))
                        /\ WF_serverVars(part = "server" /\ DestroysSockets(p))
                        /\ WF_serverVars(part = "server" /\ Closed(p))
  /\ \A s \in Slot : WF_serverVars(part = "server" /\ TimesOut(s))
  /\ WF_providerVars(part = "providers" /\ ProviderTick)
  /\ \A s \in Search, p \in Provider :
       /\ WF_providerVars(part = "providers" /\ StartCall(s, p))
       /\ WF_providerVars(part = "providers" /\ Retries(s, p))
       /\ WF_providerVars(part = "providers" /\ AttemptEnds(s, p))
  /\ WF_webVars(part = "web" /\ SecondPasses)
  /\ \A i \in RequestId : WF_webVars(part = "web" /\ Settles(i))
  /\ WF_fetchVars(part = "fetch" /\ RequestTimesOut)
  /\ WF_fetchVars(part = "fetch" /\ BackoffOver)
  /\ \A o \in Origin : WF_policyVars(part = "robots" /\ HeadOrFailure(o))
  /\ WF_mapVars(part = "sitemaps" /\ IngestStep /\ ~AwaitsSitemap)
  /\ \A c \in Caller : /\ WF_mcpVars(part = "mcp" /\ ProvidersAnswer(c))
                       /\ WF_mcpVars(part = "mcp" /\ Replies(c))

(***************************************************************************)
(* Properties.  Each gathers the parts of one question, asked of the       *)
(* component that runs; the parts, and the code they are about, are        *)
(* explained in the components' modules.                                   *)
(***************************************************************************)

\* The state of every component is well formed.
RequestsTypeOK ==
  /\ part = "server"    => ServerTypeOK
  /\ part = "providers" => ProviderTypeOK
  /\ part = "web"       => WebTypeOK
  /\ part = "fetch"     => FetchTypeOK
  /\ part = "robots"    => PolicyTypeOK
  /\ part = "sitemaps"  => MapTypeOK
  /\ part = "mcp"       => McpTypeOK
  /\ part = "pool"      => PoolTypeOK
  /\ part = "caches"    => CacheTypeOK
  /\ part = "rules"     => RulesTypeOK

\* No request leaves for where it must not go: to a provider in local-only mode, through
\* the API or MCP, to an address that is not public at any hop of any attempt, to a page
\* robots.txt forbids by the longest of the rules that stand below the crawler's name.
RequestsStayWhereAllowed ==
  /\ part = "server"   => LocalContactsNobody
  /\ part = "mcp"      => LocalServerContactsNobody
  /\ part = "fetch"    => HopsChecked
  /\ part = "sitemaps" => ForbiddenStayOut
  /\ part = "rules"    => RulesOfTheirAgents /\ LongestMatchWins

\* Others are not flooded, whatever they answer: retries beside an open circuit, redirect
\* loops times retries, sitemaps that name each other, and askers of one origin.
OutwardWorkIsBounded ==
  /\ part = "providers" => RetryStormBounded
  /\ part = "fetch"     => RequestsBounded
  /\ part = "sitemaps"  => SitemapsFetchedOnce
  /\ part = "robots"    => OneFetchPerOrigin

\* What stands for the work under way (the server's count and metrics, the page's abort
\* controller, the entries of the MCP server by id) stands for just that work, in whatever
\* order requests end, time out, are cut and are cancelled.
HandlesNameWhatIsUnderWay ==
  /\ part = "server" => ActiveCountsRequests /\ CountedOnce
  /\ part = "web"    => NewestCanBeAborted
  /\ part = "mcp"    => EntriesAreUnderWay /\ OwnIdsCanBeCancelled

\* What was learnt is not used past its time: results of another mode, a wait that was
\* extended, a policy older than its lifetime.
NothingStaleIsUsed ==
  /\ part = "web"    => ResultsOfTheMode /\ RetryAfterHonoured
  /\ part = "robots" => ForbiddenInTime

\* Shared resources stay within their limits: each worker's delay, a lone worker's
\* window, one result for a job, the capacity of a cache.
LimitsAreKept ==
  /\ part = "pool"   => DelayKeptPerWorker /\ WindowKeptAlone /\ JobsAnswered
  /\ part = "caches" => CapacityHeld

\* stop() lets requests finish for the grace period and takes no new ones.
StopIsOrderly == GraceRespected /\ NoNewWorkWhileStopping

\* Whatever is waited for ends: stop(), searches over providers, searches of the page,
\* fetches up to the head of an answer, robots decisions and sitemap walks unless the
\* text of an answer never ends; and circuits close again once the providers are up.
EverythingEnds ==
  /\ StopEnds /\ SearchesEnd /\ SearchAnswered /\ HeadOrEnd /\ AskersAnswered /\ IngestsEnd
  /\ CircuitsRecover
===============================================================================
