---------------------------- MODULE ProviderSearch ----------------------------
(***************************************************************************)
(* Federated search over the external providers                            *)
(* (packages/ranking/src/providers/provider-registry.ts and                *)
(* resilience-manager.ts): concurrent searches call every provider, with   *)
(* retries, time-outs, a response cache, a circuit breaker and a cool-down *)
(* after a rate limit.                                                     *)
(*                                                                         *)
(* Abstractions: one query, so that a provider's cache is one entry; what  *)
(* a timer waits for is counted in ticks left, and the timers of an        *)
(* attempt and of a back-off fire when they like.  An outage lasts for a   *)
(* while; in it attempts fail, and out of it they succeed.                 *)
(***************************************************************************)
EXTENDS Integers, FiniteSets

CONSTANTS
  Provider, Search,
  Threshold,       \* circuitFailureThreshold
  Cooldown,        \* circuitCooldownMs, in ticks
  RetryAfter,      \* ticks a provider asks to wait after a rate limit
  CacheLife,       \* ttlSeconds, in ticks; 0 for no caching
  MaxRetries, MaxConcurrency

ASSUME ProviderAssumption ==
  /\ IsFiniteSet(Search) /\ Search # {}
  /\ Threshold \in Nat \ {0} /\ Cooldown \in Nat \ {0} /\ RetryAfter \in Nat \ {0}
  /\ CacheLife \in Nat /\ MaxRetries \in Nat /\ MaxConcurrency \in Nat \ {0}

VARIABLES
  circuit,   \* provider -> state, consecutiveFailures, ticks until cooldownUntilMs
  limited,   \* provider -> ticks until its rate limit is over
  cached,    \* provider -> ticks its cached answer lives, 0 for none
  call,      \* search -> provider -> its call
  aborted,   \* search -> it was cancelled, or passed its deadline
  outage,    \* the providers are down
  \* history
  strays     \* provider -> attempts sent while its circuit has been cooling down

providerVars == <<circuit, limited, cached, call, aborted, outage, strays>>

ClosedCircuit == [state |-> "CLOSED", failures |-> 0, wait |-> 0]
NoCall == [pc |-> "idle", attempts |-> 0, outcome |-> "none"]
Outcome == {"none", "success", "cached", "failed", "limited", "refused", "cancelled"}

ProviderTypeOK ==
  /\ circuit \in [Provider -> [state : {"CLOSED", "OPEN", "HALF_OPEN"},
                               failures : 0..Threshold + 1, wait : 0..Cooldown]]
  /\ limited \in [Provider -> 0..RetryAfter] /\ cached \in [Provider -> 0..CacheLife]
  /\ call \in [Search -> [Provider -> [pc : {"idle", "queued", "calling", "backoff", "done"},
                                       attempts : 0..MaxRetries, outcome : Outcome]]]
  /\ aborted \in [Search -> BOOLEAN] /\ outage \in BOOLEAN
  /\ strays \in [Provider -> Nat]

ProviderInit ==
  /\ circuit = [p \in Provider |-> ClosedCircuit]
  /\ limited = [p \in Provider |-> 0] /\ cached = [p \in Provider |-> 0]
  /\ call = [s \in Search |-> [p \in Provider |-> NoCall]]
  /\ aborted = [s \in Search |-> FALSE]
  /\ outage \in BOOLEAN
  /\ strays = [p \in Provider |-> 0]

Minus(n) == IF n = 0 THEN 0 ELSE n - 1
ProviderTick ==
  /\ circuit' = [p \in Provider |-> [circuit[p] EXCEPT !.wait = Minus(@)]]
  /\ limited' = [p \in Provider |-> Minus(limited[p])]
  /\ cached' = [p \in Provider |-> Minus(cached[p])]
  /\ UNCHANGED <<call, aborted, outage, strays>>

OutageChanges ==
  /\ outage' = ~outage
  /\ UNCHANGED <<circuit, limited, cached, call, aborted, strays>>

(***************************************************************************)
(* ResilienceManager                                                       *)
(***************************************************************************)
Cooling(p) == circuit[p].state = "OPEN" /\ circuit[p].wait > 0

\* mutant: the cool-down is not waited for
CanExecuteOpen(p) == limited[p] = 0

\* canExecute: a circuit that has cooled down is half-opened by the question
CanExecute(p) == limited[p] = 0 /\ ~Cooling(p)
Asked(p) == IF limited[p] = 0 /\ circuit[p].state = "OPEN" /\ ~Cooling(p)
            THEN [circuit EXCEPT ![p].state = "HALF_OPEN"] ELSE circuit

RecordSuccess(p) == circuit' = [circuit EXCEPT ![p] = ClosedCircuit]

Opens(p) == circuit[p].failures + 1 >= Threshold \/ circuit[p].state = "HALF_OPEN"
RecordFailure(p) ==
  LET failures == IF circuit[p].failures > Threshold THEN circuit[p].failures
                  ELSE circuit[p].failures + 1   \* bound: it is not counted further
  IN  circuit' = [circuit EXCEPT ![p] =
                    IF Opens(p) THEN [state |-> "OPEN", failures |-> failures, wait |-> Cooldown]
                    ELSE [@ EXCEPT !.failures = failures]]

\* getAllProviderStatuses asks canExecute for every provider
ReportsStatus ==
  /\ circuit' = [p \in Provider |-> Asked(p)[p]]
  /\ circuit' # circuit
  /\ UNCHANGED <<limited, cached, call, aborted, outage, strays>>

(***************************************************************************)
(* executeSearch                                                           *)
(***************************************************************************)
Running(s) == \E p \in Provider : call[s][p].pc \in {"queued", "calling", "backoff"}
Busy(s)    == {p \in Provider : call[s][p].pc \in {"calling", "backoff"}}

StartSearch(s) ==
  /\ ~Running(s)
  /\ call' = [call EXCEPT ![s] = [p \in Provider |-> [NoCall EXCEPT !.pc = "queued"]]]
  /\ aborted' = [aborted EXCEPT ![s] = FALSE]
  /\ UNCHANGED <<circuit, limited, cached, outage, strays>>

\* the caller cancels, or the deadline passes: attempts may hear of it
Aborts(s) ==
  /\ Running(s) /\ ~aborted[s]
  /\ aborted' = [aborted EXCEPT ![s] = TRUE]
  /\ UNCHANGED <<circuit, limited, cached, call, outage, strays>>

Ends(s, p, outcome) ==
  call' = [call EXCEPT ![s][p].pc = "done", ![s][p].outcome = outcome]

\* attempts sent while the circuit is open and cooling down are counted
Sends(p) == strays' = [strays EXCEPT ![p] = IF Cooling(p) THEN @ + 1 ELSE 0]

\* executeSingleProvider: the cache, the circuit, the signal, and the first attempt
WorkerFree(s) == Cardinality(Busy(s)) < MaxConcurrency

StartCall(s, p) ==
  /\ call[s][p].pc = "queued" /\ WorkerFree(s)
  /\ IF cached[p] > 0
     THEN Ends(s, p, "cached") /\ UNCHANGED <<circuit, strays>>
     ELSE /\ circuit' = Asked(p)
          /\ IF ~CanExecute(p) THEN Ends(s, p, "refused") /\ UNCHANGED strays
             ELSE IF aborted[s] THEN Ends(s, p, "cancelled") /\ UNCHANGED strays
             ELSE call' = [call EXCEPT ![s][p].pc = "calling"] /\ Sends(p)
  /\ UNCHANGED <<limited, cached, aborted, outage>>

Succeeds(s, p) ==
  /\ call[s][p].pc = "calling" /\ ~outage
  /\ RecordSuccess(p)
  /\ cached' = [cached EXCEPT ![p] = CacheLife]
  /\ Ends(s, p, "success")
  /\ UNCHANGED <<limited, aborted, outage, strays>>

\* a transient error or a time-out, while there are retries left
FailsTransiently(s, p) ==
  /\ call[s][p].pc = "calling" /\ (outage \/ aborted[s])
  /\ call[s][p].attempts < MaxRetries
  /\ call' = [call EXCEPT ![s][p].pc = "backoff", ![s][p].attempts = @ + 1]
  /\ UNCHANGED <<circuit, limited, cached, aborted, outage, strays>>

\* the back-off is over: the signal is looked at again, the circuit is not
Retries(s, p) ==
  /\ call[s][p].pc = "backoff"
  /\ IF aborted[s] THEN Ends(s, p, "cancelled") /\ UNCHANGED strays
     ELSE call' = [call EXCEPT ![s][p].pc = "calling"] /\ Sends(p)
  /\ UNCHANGED <<circuit, limited, cached, aborted, outage>>

\* another error, or no retries left
Fails(s, p) ==
  /\ call[s][p].pc = "calling" /\ (outage \/ aborted[s])
  /\ RecordFailure(p)
  /\ Ends(s, p, "failed")
  /\ UNCHANGED <<limited, cached, aborted, outage, strays>>

Limited(s, p) ==
  /\ call[s][p].pc = "calling" /\ outage
  /\ limited' = [limited EXCEPT ![p] = RetryAfter]
  /\ Ends(s, p, "limited")
  /\ UNCHANGED <<circuit, cached, aborted, outage, strays>>

Cancelled(s, p) ==
  /\ call[s][p].pc = "calling" /\ aborted[s]
  /\ Ends(s, p, "cancelled")
  /\ UNCHANGED <<circuit, limited, cached, aborted, outage, strays>>

AttemptEnds(s, p) ==
  Succeeds(s, p) \/ FailsTransiently(s, p) \/ Fails(s, p) \/ Limited(s, p) \/ Cancelled(s, p)

ProviderNext ==
  \/ ProviderTick \/ OutageChanges \/ ReportsStatus
  \/ \E s \in Search : \/ StartSearch(s) \/ Aborts(s)
                       \/ \E p \in Provider : StartCall(s, p) \/ AttemptEnds(s, p) \/ Retries(s, p)

\* an attempt ends by its time-out at the latest; workers go on; timers fire
ProviderFairness ==
  /\ WF_providerVars(ProviderTick)
  /\ \A s \in Search, p \in Provider :
       /\ WF_providerVars(StartCall(s, p)) /\ WF_providerVars(Retries(s, p))
       /\ WF_providerVars(AttemptEnds(s, p))

ProviderSpec == ProviderInit /\ [][ProviderNext]_providerVars /\ ProviderFairness

(***************************************************************************)
(* Properties                                                              *)
(***************************************************************************)

\* "Circuit breaker to halt retry storms": after a circuit has opened, a provider is
\* sent at most the retries left to the calls that were already under way.
RetryStormBounded ==
  \A p \in Provider : strays[p] <= (Cardinality(Search) - 1) * MaxRetries

\* Every search ends, whatever the providers do.
SearchesEnd == \A s \in Search : Running(s) ~> ~Running(s)

\* When the providers are up again, searches go on and none of them is aborted any more,
\* then the circuits close for good.
CircuitsRecover ==
  /\ <>[](~outage /\ \A s \in Search : ~aborted[s])
  /\ []<>(\E s \in Search : Running(s))
  => <>[](\A p \in Provider : circuit[p].state = "CLOSED")
===============================================================================
