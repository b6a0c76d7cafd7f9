------------------------------ MODULE Resolvers ------------------------------
(***************************************************************************)
(* The resolvers of a logger (src/resolvers/index.resolver.ts) over their  *)
(* cache (src/brain/ttl.utils.ts), and the asynchronous path an entry takes*)
(* through them (writeResolvedEntry of src/core/pipeline.core.ts).         *)
(*                                                                         *)
(* Every call of resolve() has a number and answers with it; 0 stands for  *)
(* the error marker.  A context is the sequence of the values that have a  *)
(* resolver.  An action is one event with the microtasks it queues.        *)
(***************************************************************************)
EXTENDS Naturals, Sequences, FiniteSets, SequencesExt, Lists

CONSTANTS Scalars, Objects, \* context values; a context holds at most one object
          Mark,             \* onError and onTimeout are "mark", not "skip"
          CacheCap,         \* DEFAULT_RESOLVER_CACHE_CAP
          Ttl,              \* ttlMs
          MaxEntries, MaxStarted, MaxIdle, MaxTime  \* bounds of the model

ASSUME ResolverAssumption ==
    /\ Scalars \cap Objects = {} /\ "object" \notin Scalars
    /\ Mark \in BOOLEAN /\ CacheCap \in Nat \ {0}
    /\ {Ttl, MaxEntries, MaxStarted, MaxIdle, MaxTime} \subseteq Nat

VARIABLES now,       \* Date.now()
          offered,   \* history: entries written
          delivered, \* history: entries handed to the dispatcher, in order
          waiting,   \* entries inside resolveAll, oldest first
          cache,     \* the TtlCache, least recently used first
          started,   \* resolve() calls made
          calls,     \* resolve() calls that have not answered; live: in time
          inFlight,  \* of a cache key: the lookup registered for it, 0 if none
          answeredAt,\* history: of a call, when it answered in time
          idle       \* waitForIdle() calls that have not returned

vars == <<now, offered, delivered, waiting, cache, started, calls, inFlight,
          answeredAt, idle>>

Values == Scalars \cup Objects
\* Scalars come first: the order of the keys only numbers the calls.
Contexts == {<<>>} \cup {<<v>> : v \in Values} \cup {<<v, w>> : v \in Scalars, w \in Objects}

\* cacheKey: typeof and String(value) of plain objects are the same, and no scalar's.
KeyOf(v) == IF v \in Objects THEN "object" ELSE v
CacheKeys == {KeyOf(v) : v \in Values}
Never == MaxTime + 1
MarkOr(fields) == IF Mark THEN fields ELSE {}

Init == /\ now = 0 /\ offered = 0 /\ delivered = <<>> /\ waiting = <<>>
        /\ cache = <<>> /\ started = 0 /\ calls = {}
        /\ inFlight = [k \in CacheKeys |-> 0]
        /\ answeredAt = [n \in 1 .. MaxStarted |-> Never] /\ idle = {}

-----------------------------------------------------------------------------
(* TtlCache.                                                               *)

Without(c, k) == Among(c, {r \in ToSet(c) : r.key # k})

\* Mutant of Live: an entry does not expire.
LiveExpired(k) == {r \in ToSet(cache) : r.key = k}

\* The entry of k that get() answers with.
Live(k) == {r \in ToSet(cache) : r.key = k /\ r.expiresAt > now}

\* get(): a hit becomes the most recently used, an expired entry is dropped.
AfterGet(c, k) ==
    Without(c, k) \o Among(c, {r \in ToSet(c) : r.key = k /\ r.expiresAt > now})

\* The gets of resolveAll(), one for every value of the context.
AfterGets(ctx) ==
    LET after[i \in 0 .. Len(ctx)] == IF i = 0 THEN cache ELSE AfterGet(after[i - 1], KeyOf(ctx[i]))
    IN  after[Len(ctx)]

\* set(): a new key evicts the least recently used one of a full cache.
AfterSet(c, k, n) ==
    LET kept == Without(c, k)
    IN  Append(IF Len(kept) >= CacheCap THEN Tail(kept) ELSE kept,
               [key |-> k, n |-> n, expiresAt |-> now + Ttl])

-----------------------------------------------------------------------------
(* Entries.                                                                *)

Cold(ctx) == {v \in ToSet(ctx) : Live(KeyOf(v)) = {}}

\* dedupe(): the values a new lookup is started for.
Fresh(ctx) == {v \in Cold(ctx) : inFlight[KeyOf(v)] = 0}

Warm(ctx) == UNION {{<<v, r.n>> : r \in Live(KeyOf(v))} : v \in ToSet(ctx)}

\* The number of the call made for v, the calls being made in context order.
CallOf(ctx, v) ==
    started + Cardinality({u \in Fresh(ctx) :
                             \E i, j \in DOMAIN ctx : ctx[i] = u /\ ctx[j] = v /\ i <= j})

Entry(ctx, needs, fields) ==
    [entry |-> offered + 1, ctx |-> ctx, needs |-> needs, fields |-> fields]

\* resolveAll() up to its await, and the rest when nothing has to be awaited.
\* resolve() may throw for the values in throws: that rejects the lookups of
\* the whole entry, which goes on with no additions at all.
Write(ctx, throws) ==
    LET fresh == Fresh(ctx)
        needs == {<<v, IF v \in fresh THEN CallOf(ctx, v) ELSE inFlight[KeyOf(v)]>>
                    : v \in Cold(ctx)}
        runs == fresh \ throws
    IN  /\ offered < MaxEntries /\ started + Cardinality(fresh) <= MaxStarted
        /\ throws \subseteq fresh
        /\ offered' = offered + 1
        /\ cache' = AfterGets(ctx)
        /\ started' = started + Cardinality(fresh)
        /\ calls' = calls \cup {[n |-> CallOf(ctx, v), v |-> v, live |-> TRUE] : v \in runs}
        /\ inFlight' = [k \in CacheKeys |->
               IF \E v \in runs : KeyOf(v) = k
                 THEN CallOf(ctx, CHOOSE v \in runs : KeyOf(v) = k) ELSE inFlight[k]]
        /\ \/ /\ throws # {}
              /\ delivered' = Append(delivered, Entry(ctx, needs, {}))
              /\ UNCHANGED waiting
           \/ /\ throws = {} /\ needs = {}
              /\ delivered' = Append(delivered, Entry(ctx, {}, Warm(ctx)))
              /\ UNCHANGED waiting
           \/ /\ throws = {} /\ needs # {}
              /\ waiting' = Append(waiting, Entry(ctx, needs, Warm(ctx)))
              /\ UNCHANGED delivered
        /\ UNCHANGED <<now, answeredAt, idle>>

-----------------------------------------------------------------------------
(* Lookups.                                                                *)

\* The waiting entries when lookup n is over, with these fields.
Settled(n, fields) ==
    [i \in DOMAIN waiting |->
        [waiting[i] EXCEPT
           !.fields = @ \cup {<<p[1], f>> : p \in {q \in waiting[i].needs : q[2] = n}, f \in fields},
           !.needs = {p \in @ : p[2] # n}]]

\* Mutant of Settles: the entries are gone through from the newest on.
SettlesNewestFirst(n, fields) ==
    LET after == Settled(n, fields)
    IN  /\ waiting' = Among(after, {x \in ToSet(after) : x.needs # {}})
        /\ delivered' = delivered \o Reverse(Among(after, {x \in ToSet(after) : x.needs = {}}))
        /\ idle' = {[w EXCEPT !.on = @ \ {n}] : w \in {u \in idle : u.on # {n}}}

\* The entries and the waitForIdle() calls that waited only for lookup n go on,
\* in the order they came.
Settles(n, fields) ==
    LET after == Settled(n, fields)
    IN  /\ waiting' = Among(after, {x \in ToSet(after) : x.needs # {}})
        /\ delivered' = delivered \o Among(after, {x \in ToSet(after) : x.needs = {}})
        /\ idle' = {[w EXCEPT !.on = @ \ {n}] : w \in {u \in idle : u.on # {n}}}

Over(c) == inFlight' = [inFlight EXCEPT ![KeyOf(c.v)] = 0]

\* resolve() answers in time, with a value that gives fields.
Answer(c) ==
    /\ c \in calls /\ c.live
    /\ calls' = calls \ {c}
    /\ cache' = AfterSet(cache, KeyOf(c.v), c.n)
    /\ answeredAt' = [answeredAt EXCEPT ![c.n] = now]
    /\ Settles(c.n, {c.n}) /\ Over(c)
    /\ UNCHANGED <<now, offered, started>>

\* resolve() answers in time with nothing, or rejects: nothing is cached.
NoAnswer(c, fields) ==
    /\ c \in calls /\ c.live
    /\ calls' = calls \ {c}
    /\ Settles(c.n, fields) /\ Over(c)
    /\ UNCHANGED <<now, offered, cache, started, answeredAt>>

\* Mutant of Timeout: the lookup is not registered any more but goes on.
TimeoutForgets(c) ==
    /\ c \in calls /\ c.live /\ inFlight[KeyOf(c.v)] # 0
    /\ Over(c)
    /\ UNCHANGED <<now, offered, delivered, waiting, cache, started, calls, answeredAt, idle>>

\* The deadline wins the race; the call itself goes on.
Timeout(c) ==
    /\ c \in calls /\ c.live
    /\ calls' = (calls \ {c}) \cup {[c EXCEPT !.live = FALSE]}
    /\ Settles(c.n, MarkOr({0})) /\ Over(c)
    /\ UNCHANGED <<now, offered, cache, started, answeredAt>>

\* Mutant of LateAnswer: what comes after the deadline is cached all the same.
LateAnswerCached(c) ==
    /\ c \in calls /\ ~c.live
    /\ calls' = calls \ {c}
    /\ cache' = AfterSet(cache, KeyOf(c.v), c.n)
    /\ UNCHANGED <<now, offered, delivered, waiting, started, inFlight, answeredAt, idle>>

\* An answer that comes after the deadline changes nothing.
LateAnswer(c) ==
    /\ c \in calls /\ ~c.live
    /\ calls' = calls \ {c}
    /\ UNCHANGED <<now, offered, delivered, waiting, cache, started, inFlight,
                   answeredAt, idle>>

\* Mutant of WaitForIdle: only the lookup registered last is waited for.
WaitForIdleLast ==
    LET active == {inFlight[k] : k \in CacheKeys} \ {0}
    IN  /\ active # {} /\ Cardinality(idle) < MaxIdle
        /\ idle' = idle \cup {[on |-> {CHOOSE n \in active : \A m \in active : m <= n},
                               upTo |-> offered]}
        /\ UNCHANGED <<now, offered, delivered, waiting, cache, started, calls, inFlight,
                       answeredAt>>

\* waitForIdle() awaits the lookups registered when it is called.
WaitForIdle ==
    LET active == {inFlight[k] : k \in CacheKeys} \ {0}
    IN  /\ active # {} /\ Cardinality(idle) < MaxIdle
        /\ idle' = idle \cup {[on |-> active, upTo |-> offered]}
        /\ UNCHANGED <<now, offered, delivered, waiting, cache, started, calls, inFlight,
                       answeredAt>>

Tick == /\ now < MaxTime /\ now' = now + 1
        /\ UNCHANGED <<offered, delivered, waiting, cache, started, calls, inFlight,
                       answeredAt, idle>>

Next == \/ \E ctx \in Contexts : \E throws \in SUBSET ToSet(ctx) : Write(ctx, throws)
        \/ \E c \in calls : \/ Answer(c) \/ NoAnswer(c, {}) \/ NoAnswer(c, MarkOr({0}))
                            \/ Timeout(c) \/ LateAnswer(c)
        \/ WaitForIdle \/ Tick

\* Only the deadline timers are fair: resolve() may never answer.
Spec == /\ Init /\ [][Next]_vars
        /\ WF_vars(\E c \in calls : Timeout(c))

-----------------------------------------------------------------------------
(* Properties.                                                             *)

\* The cache is bounded and holds a key once; waiting entries need some call.
TypeOK ==
    /\ now \in 0 .. MaxTime /\ offered \in 0 .. MaxEntries /\ started \in 0 .. MaxStarted
    /\ \A x \in ToSet(waiting) : x.entry \in 1 .. offered /\ x.needs # {}
    /\ Len(cache) <= CacheCap /\ \A r, q \in ToSet(cache) : r.key = q.key => r = q
    /\ calls \subseteq [n : 1 .. started, v : Values, live : BOOLEAN]
    /\ inFlight \in [CacheKeys -> 0 .. started]
    /\ idle \subseteq [on : (SUBSET (1 .. started)) \ {{}}, upTo : 0 .. offered]

\* Concurrent lookups for one cache key share one call; only the call of a
\* lookup that timed out may overlap with the next one.
OneLookupPerKey ==
    \A c, d \in calls : c.live /\ d.live /\ KeyOf(c.v) = KeyOf(d.v) => c = d

\* An entry waits only for lookups that are registered, so that waitForIdle()
\* sees every one of them.
WaitsAreRegistered ==
    \A x \in ToSet(waiting) : \A p \in x.needs : inFlight[KeyOf(p[1])] = p[2]

\* When waitForIdle() returns, every entry written before it is delivered.
IdleMeansDelivered ==
    [][\A w \in idle : (\A u \in idle' : u.upTo # w.upTo) =>
         \A i \in DOMAIN waiting' : waiting'[i].entry > w.upTo]_vars

\* Entries with the same context are delivered in the order they were written,
\* but for an entry whose resolver threw, which does not wait for the others.
Threw(x) == x.needs # {}
SameContextInOrder ==
    \A i, j \in DOMAIN delivered :
        /\ i < j /\ delivered[i].ctx = delivered[j].ctx
        /\ ~Threw(delivered[i])
        => delivered[i].entry < delivered[j].entry

\* A field is an answer to a call that came in time; an answer after the
\* deadline reaches no entry, not even through the cache.
NoLateAnswers ==
    \A x \in ToSet(delivered) \cup ToSet(waiting) : \A p \in x.fields :
        p[2] # 0 => answeredAt[p[2]] # Never

\* A cached answer is served for less than ttlMs.
ServedFresh ==
    [][\A v \in Values, n \in 1 .. started :
         offered' # offered /\ started' = started /\ Len(delivered') > Len(delivered)
           /\ <<v, n>> \in Last(delivered').fields => answeredAt[n] + Ttl > now]_vars

\* Every entry is delivered, even when resolve() never answers.
EveryEntryDelivered ==
    \A e \in 1 .. MaxEntries :
        (offered = e) ~> \E i \in DOMAIN delivered : delivered[i].entry = e

\* One lookup for a key, none that an entry waits for unseen, none that counts
\* after its deadline.
LookupsConsistent == TypeOK /\ OneLookupPerKey /\ WaitsAreRegistered /\ NoLateAnswers
=============================================================================
