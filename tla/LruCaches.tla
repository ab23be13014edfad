------------------------------ MODULE LruCaches ------------------------------
(***************************************************************************)
(* The three bounded caches of the system: query results                   *)
(* (packages/ranking/src/cache/query-cache.ts), answers of providers       *)
(* (ranking/src/providers/provider-cache.ts) and robots policies           *)
(* (crawler/src/robots/robots-cache.ts).  Each keeps its entries in the    *)
(* insertion order of a Map, and moves the ones it uses to the end.        *)
(*                                                                         *)
(* They differ in when an entry has expired and in whether writing a key   *)
(* again moves it.  One of them is exercised in a behaviour.               *)
(***************************************************************************)
EXTENDS Integers, Sequences, FiniteSets, SequencesExt

CONSTANTS
  CacheKey,    \* keys
  Capacity,    \* the most entries
  Lifetime,    \* ticks an entry lives
  MaxMinute       \* bound: ticks

ASSUME CacheAssumption ==
  Capacity \in Nat \ {0} /\ Lifetime \in Nat /\ MaxMinute \in Nat

VARIABLES
  which,   \* the cache exercised: "query", "provider" or "robots"
  minute,
  cache,   \* entries, the next to be evicted first
  \* history
  touched, \* the keys written or hit, the last one last
  rewritten \* keys written again while they were cached, since they were last hit

cacheVars == <<which, minute, cache, touched, rewritten>>

Entry     == [key : CacheKey, created : 0..MaxMinute]
KeysOf(c) == {c[i].key : i \in DOMAIN c}

CacheTypeOK ==
  /\ which \in {"query", "provider", "robots"} /\ minute \in 0..MaxMinute
  /\ cache \in Seq(Entry) /\ touched \in Seq(CacheKey)
  /\ rewritten \subseteq CacheKey

CacheInit ==
  /\ which \in {"query", "provider", "robots"}
  /\ minute = 0 /\ cache = <<>> /\ touched = <<>> /\ rewritten = {}

CacheTick ==
  /\ minute < MaxMinute /\ minute' = minute + 1
  /\ UNCHANGED <<which, cache, touched, rewritten>>

\* what is left of a list when only some of its places are kept
Kept(s, places) ==
  LET upTo[i \in 0..Len(s)] == IF i = 0 THEN <<>>
                               ELSE IF i \in places THEN Append(upTo[i - 1], s[i])
                               ELSE upTo[i - 1]
  IN  upTo[Len(s)]

Without(c, ks) == Kept(c, {i \in DOMAIN c : c[i].key \notin ks})
Untouched(ks)  == Kept(touched, {i \in DOMAIN touched : touched[i] \notin ks})
Touch(k)       == touched' = Append(Untouched({k}), k)
EntryOf(c, k)  == CHOOSE e \in ToSet(c) : e.key = k

Expired(e) == IF which = "provider" THEN minute >= e.created + Lifetime
                                    ELSE minute > e.created + Lifetime

\* get: an expired entry is deleted, another one moves to the end
Moved(c, k) == Append(Without(c, {k}), EntryOf(c, k))

CacheGet(k) ==
  /\ k \in KeysOf(cache)
  /\ IF Expired(EntryOf(cache, k))
     THEN cache' = Without(cache, {k}) /\ UNCHANGED <<touched, rewritten>>
     ELSE /\ cache' = Moved(cache, k)
          /\ Touch(k) /\ rewritten' = rewritten \ {k}
  /\ UNCHANGED <<which, minute>>

\* mutant: the last entry goes
EvictedLast(c) == IF Len(c) >= Capacity THEN Front(c) ELSE c

\* set: the first entry makes room for a new key
Evicted(c) == IF Len(c) >= Capacity THEN Tail(c) ELSE c

NewEntry(k) == [key |-> k, created |-> minute]

CacheSet(k) ==
  LET e == NewEntry(k) IN
  /\ \/ /\ k \notin KeysOf(cache)
        /\ cache' = Append(Evicted(cache), e)
        /\ rewritten' = rewritten \ {k}
     \/ /\ k \in KeysOf(cache) /\ which # "provider"
        /\ cache' = Append(Without(cache, {k}), e)
        /\ UNCHANGED rewritten
     \* the provider cache writes in place
     \/ /\ k \in KeysOf(cache) /\ which = "provider"
        /\ cache' = [i \in DOMAIN cache |-> IF cache[i].key = k THEN e ELSE cache[i]]
        /\ rewritten' = rewritten \cup {k}
  /\ Touch(k)
  /\ UNCHANGED <<which, minute>>

\* purgeExpired of the provider cache
CachePurge ==
  /\ which = "provider" /\ \E e \in ToSet(cache) : Expired(e)
  /\ cache' = Kept(cache, {i \in DOMAIN cache : ~Expired(cache[i])})
  /\ UNCHANGED <<which, minute, touched, rewritten>>

\* clear, and invalidateProvider for the keys of a provider
CacheDrops(ks) ==
  /\ cache # <<>>
  /\ which # "provider" => ks = CacheKey
  /\ cache' = Without(cache, ks)
  /\ touched' = Untouched(ks)
  /\ UNCHANGED <<which, minute, rewritten>>

CacheNext ==
  \/ CacheTick \/ CachePurge
  \/ \E k \in CacheKey : CacheGet(k) \/ CacheSet(k) \/ CacheDrops({k})
  \/ CacheDrops(CacheKey)

CacheSpec == CacheInit /\ [][CacheNext]_cacheVars

(***************************************************************************)
(* Properties                                                              *)
(***************************************************************************)

\* "Bounded": a cache never holds more than its capacity, nor a key twice.
CapacityHeld ==
  Len(cache) <= Capacity /\ Cardinality(KeysOf(cache)) = Len(cache)

\* "Least-recently-used eviction": the keys used last are still cached, as many as
\* there is room for, unless they have expired since; in the provider cache a key
\* that was only written again may have gone before its turn.
LastUsed == IF Len(touched) <= Capacity THEN ToSet(touched)
            ELSE ToSet(SubSeq(touched, Len(touched) - Capacity + 1, Len(touched)))
RecentlyUsedStay ==
  [][\A k \in KeysOf(cache) \cap LastUsed' :
       k \in KeysOf(cache') \/ k \in rewritten \/ Expired(EntryOf(cache, k))]_cacheVars
===============================================================================
