------------------------------- MODULE McpServer -------------------------------
(***************************************************************************)
(* The Model Context Protocol server (apps/api/src/mcp/mcp-server.ts with  *)
(* its HTTP and stdio transports): JSON-RPC requests under way, the search *)
(* tool, which may ask the search providers, and notifications that cancel *)
(* a request by its id.                                                    *)
(*                                                                         *)
(* Abstractions: a request is a call of the search tool or one that is     *)
(* answered from memory; what is searched for, validation and formatting   *)
(* are left out.  Clients of the HTTP transport share one server, and each *)
(* chooses the ids of its requests.                                        *)
(***************************************************************************)
EXTENDS Integers, FiniteSets

CONSTANTS
  RpcClient, RpcSlot,   \* clients, and the requests a client can have under way
  RpcId                 \* the ids they choose from

ASSUME McpAssumption == RpcId # {}

VARIABLES
  localServer,     \* isLocalOnly
  rpc,             \* client, slot -> request; alone: history, no other had its id
  activeRequests   \* id -> the request whose AbortController the entry holds

mcpVars == <<localServer, rpc, activeRequests>>

Caller == RpcClient \X RpcSlot
Nobody == <<>>
NoCallYet == [pc |-> "free", id |-> CHOOSE i \in RpcId : TRUE, aborted |-> FALSE, mode |-> "local-only",
              contacted |-> FALSE, result |-> "none", alone |-> TRUE]

McpTypeOK ==
  /\ localServer \in BOOLEAN
  /\ rpc \in [Caller -> [pc : {"free", "waiting", "ready"}, id : RpcId, aborted : BOOLEAN,
                         mode : {"standard", "local-only"}, contacted : BOOLEAN,
                         result : {"none", "ok"}, alone : BOOLEAN]]
  /\ activeRequests \in [RpcId -> Caller \cup {Nobody}]

McpInit ==
  /\ localServer \in BOOLEAN
  /\ rpc = [c \in Caller |-> NoCallYet]
  /\ activeRequests = [i \in RpcId |-> Nobody]

\* "Enforce server-side Local-only mode"
EffectiveMode(mode) == IF localServer THEN "local-only" ELSE mode

UnderWayAt(c) == rpc[c].pc # "free"
Rivals(id) == {d \in Caller : UnderWayAt(d) /\ rpc[d].id = id}

\* handleMessage up to its first await: a call of another tool, or one that finds local
\* results, is ready to be answered; a search without local results asks the providers
HandleMessage(c, id, mode) ==
  /\ rpc[c].pc = "free"
  /\ \A d \in Rivals(id) : d[1] # c[1]   \* a client's ids differ
  /\ activeRequests' = [activeRequests EXCEPT ![id] = c]
  /\ \E found \in BOOLEAN :
       LET asks == ~found /\ EffectiveMode(mode) = "standard"
       IN  rpc' = [d \in Caller |->
                     IF d = c THEN [NoCallYet EXCEPT !.pc = IF asks THEN "waiting" ELSE "ready",
                                      !.id = id, !.mode = mode, !.contacted = asks, !.alone = Rivals(id) = {}]
                     ELSE [rpc[d] EXCEPT !.alone = @ /\ d \notin Rivals(id)]]
  /\ UNCHANGED localServer

\* fetchExternalWebResults returns, or throws, which is only logged
ProvidersAnswer(c) ==
  /\ rpc[c].pc = "waiting"
  /\ rpc' = [rpc EXCEPT ![c].pc = "ready"]
  /\ UNCHANGED <<localServer, activeRequests>>

\* "finally": the entry of the id goes, whosever it is
Forgets(id) == activeRequests' = [activeRequests EXCEPT ![id] = Nobody]

Replies(c) ==
  /\ rpc[c].pc = "ready"
  /\ rpc' = [rpc EXCEPT ![c].pc = "free", ![c].result = "ok"]
  /\ Forgets(rpc[c].id)
  /\ UNCHANGED localServer

\* notifications/cancelled
Cancel(id) ==
  /\ activeRequests[id] # Nobody
  /\ rpc' = [rpc EXCEPT ![activeRequests[id]].aborted = TRUE]
  /\ Forgets(id)
  /\ UNCHANGED localServer

McpNext ==
  \/ \E c \in Caller : \/ \E id \in RpcId, mode \in {"standard", "local-only"} : HandleMessage(c, id, mode)
                       \/ ProvidersAnswer(c) \/ Replies(c)
  \/ \E id \in RpcId : Cancel(id)

\* the providers answer by their deadline, and callbacks run
McpFairness == \A c \in Caller : WF_mcpVars(ProvidersAnswer(c)) /\ WF_mcpVars(Replies(c))

McpSpec == McpInit /\ [][McpNext]_mcpVars /\ McpFairness

(***************************************************************************)
(* Properties                                                              *)
(***************************************************************************)
\* "Server-side enforcement of Local-only mode": a server started so asks no provider,
\* whatever mode its clients ask for; and no client's local-only request is passed on.
LocalServerContactsNobody ==
  \A c \in Caller : rpc[c].contacted => ~localServer /\ rpc[c].mode = "standard"

\* An id's entry is a request that is under way with this id, so that a cancellation
\* aborts no request that was made later, also when clients choose the same ids.
EntriesAreUnderWay ==
  \A id \in RpcId : activeRequests[id] # Nobody =>
    /\ UnderWayAt(activeRequests[id])
    /\ rpc[activeRequests[id]].id = id

\* As long as a request has had its id to itself, a cancellation reaches it.
OwnIdsCanBeCancelled ==
  \A c \in Caller : UnderWayAt(c) /\ ~rpc[c].aborted /\ rpc[c].alone => activeRequests[rpc[c].id] = c

\* "Supports notifications/cancelled to abort in-flight requests cleanly": a request that
\* was aborted while it was under way gives no result.
CancelledGivesNoResult ==
  \A c \in Caller : rpc[c].aborted /\ rpc[c].pc = "free" => rpc[c].result # "ok"
===============================================================================
