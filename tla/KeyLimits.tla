------------------------------ MODULE KeyLimits ------------------------------
(***************************************************************************)
(* once() and throttle() of src/api/logger.api.ts over the two caches that *)
(* all loggers of the process share (src/brain/lru.utils.ts), each a       *)
(* sequence of keys, the first to be evicted first.  The clock is that of  *)
(* Date.now() and may be set back.                                         *)
(***************************************************************************)
EXTENDS Naturals, FiniteSets, Sequences, SequencesExt

CONSTANTS LimitKeys,
          CacheSize,          \* ONCE_THROTTLE_CACHE_CAP
          ThrottleMs,
          MaxClock, MaxKeyCalls   \* bounds of the model

ASSUME LimitsAssumption == CacheSize \in Nat \ {0} /\ {ThrottleMs, MaxClock} \subseteq Nat

VARIABLES onceKeys, rateLimits,   \* the caches: keys, and records of key and time
          clock,
          keyCalls,               \* history: calls made
          onceLogged,             \* history: how often once() logged a key
          loggedAt,               \* history: when throttle() last logged a key, or Never
          onceSince, usedSince    \* history: other keys marked or used since a key was

limitVars == <<onceKeys, rateLimits, clock, keyCalls, onceLogged, loggedAt, onceSince, usedSince>>

Never == MaxClock + 1

LimitsInit ==
    /\ onceKeys = <<>> /\ rateLimits = <<>> /\ clock = 0 /\ keyCalls = 0
    /\ onceLogged = [k \in LimitKeys |-> 0] /\ loggedAt = [k \in LimitKeys |-> Never]
    /\ onceSince = [k \in LimitKeys |-> {}] /\ usedSince = [k \in LimitKeys |-> {}]

\* set() of a key that is not in the cache makes room for it.
Room(cache) == IF Len(cache) >= CacheSize THEN Tail(cache) ELSE cache

Others(since, k) == [j \in LimitKeys |-> IF j = k THEN {} ELSE since[j] \cup {k}]

\* once(): has() does not make the key more recent.
Once(k) ==
    /\ keyCalls < MaxKeyCalls /\ keyCalls' = keyCalls + 1
    /\ IF k \in ToSet(onceKeys) THEN UNCHANGED <<onceKeys, onceLogged, onceSince>>
       ELSE /\ onceKeys' = Append(Room(onceKeys), k)
            /\ onceLogged' = [onceLogged EXCEPT ![k] = @ + 1]
            /\ onceSince' = Others(onceSince, k)
    /\ UNCHANGED <<rateLimits, clock, loggedAt, usedSince>>

\* Where rateLimits has a key, and the cache without it or with room for it.
Cached(k) == \E i \in DOMAIN rateLimits : rateLimits[i].key = k
PlaceOf(k) == CHOOSE i \in DOMAIN rateLimits : rateLimits[i].key = k
Without(k) == IF Cached(k) THEN RemoveAt(rateLimits, PlaceOf(k)) ELSE Room(rateLimits)
TooEarly(k) == Cached(k) /\ clock < rateLimits[PlaceOf(k)].at + ThrottleMs

\* Mutant of Throttle: a call that is dropped does not make the key more recent.
ThrottleNoBump(k) ==
    /\ keyCalls < MaxKeyCalls /\ keyCalls' = keyCalls + 1
    /\ rateLimits' = IF TooEarly(k) THEN rateLimits
                     ELSE Append(Without(k), [key |-> k, at |-> clock])
    /\ loggedAt' = IF TooEarly(k) THEN loggedAt ELSE [loggedAt EXCEPT ![k] = clock]
    /\ usedSince' = Others(usedSince, k)
    /\ UNCHANGED <<onceKeys, clock, onceLogged, onceSince>>

\* throttle(): get() makes the key the most recent one, logged or dropped.
Throttle(k) ==
    /\ keyCalls < MaxKeyCalls /\ keyCalls' = keyCalls + 1
    /\ rateLimits' = Append(Without(k), IF TooEarly(k) THEN rateLimits[PlaceOf(k)]
                                                      ELSE [key |-> k, at |-> clock])
    /\ loggedAt' = IF TooEarly(k) THEN loggedAt ELSE [loggedAt EXCEPT ![k] = clock]
    /\ usedSince' = Others(usedSince, k)
    /\ UNCHANGED <<onceKeys, clock, onceLogged, onceSince>>

\* Time passes, or the clock of the machine is set.
SetClock(t) ==
    /\ clock' = t
    /\ UNCHANGED <<onceKeys, rateLimits, keyCalls, onceLogged, loggedAt, onceSince, usedSince>>

LimitsNext == \/ \E k \in LimitKeys : Once(k) \/ Throttle(k)
              \/ \E t \in 0 .. MaxClock : SetClock(t)

LimitsSpec == LimitsInit /\ [][LimitsNext]_limitVars

-----------------------------------------------------------------------------
(* Properties.                                                             *)

\* The caches hold every key once and no more than CacheSize of them.
LimitsTypeOK ==
    /\ Len(onceKeys) <= CacheSize /\ Len(rateLimits) <= CacheSize
    /\ IsInjective(onceKeys)
    /\ \A i, j \in DOMAIN rateLimits : rateLimits[i].key = rateLimits[j].key => i = j

\* once() logs a key again only when as many other keys as the cache holds were
\* marked since.
OnceUnlessEvicted ==
    [][\A k \in LimitKeys : onceLogged'[k] > onceLogged[k] /\ onceLogged[k] > 0 =>
         Cardinality(onceSince[k]) >= CacheSize]_limitVars

\* Two entries of a key are ThrottleMs apart on the clock, unless as many other
\* keys as the cache holds were used since the last call of the key, dropped or
\* not: a key in use is not forgotten.
ThrottleSpacing ==
    [][\A k \in LimitKeys : loggedAt'[k] # loggedAt[k] /\ loggedAt[k] # Never =>
         \/ loggedAt'[k] >= loggedAt[k] + ThrottleMs
         \/ Cardinality(usedSince[k]) >= CacheSize]_limitVars

\* Both limits hold as long as their caches can remember the key.
LimitsKept == []LimitsTypeOK /\ OnceUnlessEvicted /\ ThrottleSpacing
=============================================================================
