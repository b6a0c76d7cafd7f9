---------------------------- MODULE Entries_proofs ----------------------------
(***************************************************************************)
(* The way of an entry, proved, from four inductive invariants:            *)
(*   - the lookups of a logger's resolvers (ResolverInv):                  *)
(*     LookupsConsistent, SameContextInOrder, ServedFresh and              *)
(*     IdleMeansDelivered;                                                 *)
(*   - the logger (LoggerInv): EntriesConsistent, CallsDeliver and         *)
(*     CrashIsRecorded;                                                    *)
(*   - the adaptive transport over the repeat transport (AdaptiveInv):     *)
(*     GroupsConsistent;                                                   *)
(*   - what one call builds, with the redaction as a function over the     *)
(*     paths of a value: EntriesAreClean.                                  *)
(***************************************************************************)
EXTENDS Resolvers, Logger, AdaptiveTransport, EntryBuilder, Containers_proofs, FiniteSetTheorems

-----------------------------------------------------------------------------
(* The resolvers.                                                          *)

\* Entries that wait for lookups, and what the cache keeps.
Entries == [entry : Nat, ctx : Contexts,
            needs : SUBSET (Values \X (1 .. MaxStarted)),
            fields : SUBSET (Values \X (0 .. MaxStarted))]
Kept == [key : CacheKeys, n : 1 .. MaxStarted, expiresAt : Nat]

\* The types of the variables.
ResolverTypes ==
    /\ now \in 0 .. MaxTime /\ offered \in 0 .. MaxEntries /\ started \in 0 .. MaxStarted
    /\ delivered \in Seq(Entries) /\ waiting \in Seq(Entries) /\ cache \in Seq(Kept)
    /\ calls \subseteq [n : 1 .. started, v : Values, live : BOOLEAN]
    /\ inFlight \in [CacheKeys -> 0 .. started]
    /\ answeredAt \in [1 .. MaxStarted -> 0 .. Never]
    /\ idle \subseteq [on : (SUBSET (1 .. started)) \ {{}}, upTo : 0 .. offered]

\* A call has its own number, and a live one is what is registered for its key.
CallsAreRegistered ==
    \A c \in calls : /\ c.live => inFlight[KeyOf(c.v)] = c.n
                     /\ \A d \in calls : c.n = d.n => c = d

\* What is cached is the answer of a call that is over, ttlMs old at most unless
\* expired, which it is when its key is being looked up.
CacheTellsAnswers ==
    /\ Len(cache) <= CacheCap /\ \A r, q \in ToSet(cache) : r.key = q.key => r = q
    /\ \A r \in ToSet(cache) :
         /\ r.n <= started /\ answeredAt[r.n] # Never /\ r.expiresAt = answeredAt[r.n] + Ttl
         /\ \A c \in calls : c.n # r.n
         /\ inFlight[r.key] # 0 => r.expiresAt <= now

\* Entries wait in the order they came, each for registered lookups of its own
\* values; a later entry waits at least for what an earlier one of the same
\* context still waits for.
WaitingInOrder ==
    /\ \A i, j \in DOMAIN waiting : i < j => waiting[i].entry < waiting[j].entry
    /\ \A x \in ToSet(waiting) :
         /\ x.entry \in 1 .. offered /\ x.needs # {}
         /\ \A p \in x.needs : p[1] \in ToSet(x.ctx) /\ inFlight[KeyOf(p[1])] = p[2]
         /\ \A y \in ToSet(waiting) :
              x.ctx = y.ctx /\ x.entry < y.entry => x.needs \subseteq y.needs

\* Nothing was delivered before a waiting entry of the same context that is older.
DeliveredFirst ==
    \A d \in ToSet(delivered) :
        /\ d.entry <= offered
        /\ \A x \in ToSet(waiting) : d.ctx = x.ctx /\ ~Threw(d) => d.entry < x.entry

\* A waitForIdle() call waits for all that the entries before it wait for.
IdleCovers ==
    \A w \in idle : \A x \in ToSet(waiting) :
        x.entry <= w.upTo => \A p \in x.needs : p[2] \in w.on

\* The inductive invariant of the resolvers.
ResolverInv == /\ ResolverTypes /\ CallsAreRegistered /\ CacheTellsAnswers /\ WaitingInOrder
               /\ DeliveredFirst /\ IdleCovers /\ NoLateAnswers /\ SameContextInOrder

-----------------------------------------------------------------------------
(* Contexts and keys.                                                      *)

\* The keys of the values of a context differ.
LEMMA ContextFacts ==
    ASSUME NEW ctx \in Contexts
    PROVE  /\ ctx \in Seq(Values) /\ Len(ctx) \in 0 .. 2 /\ ToSet(ctx) \subseteq Values
           /\ IsFiniteSet(ToSet(ctx))
           /\ \A i, j \in 1 .. Len(ctx) : ctx[i] = ctx[j] => i = j
           /\ \A u, v \in ToSet(ctx) : KeyOf(u) = KeyOf(v) => u = v
           /\ DOMAIN ctx = 1 .. Len(ctx)
<1>1. CASE ctx = <<>>
  <2>1. ToSet(ctx) = {}
    BY <1>1 DEF ToSet
  <2> QED  BY <1>1, <2>1, FS_EmptySet
<1>2. CASE \E v \in Values : ctx = <<v>>
  <2>1. PICK v \in Values : ctx = <<v>>
    BY <1>2
  <2>2. ToSet(ctx) = {v}
    BY <2>1 DEF ToSet
  <2>3. Len(ctx) = 1 /\ ctx \in Seq(Values) /\ DOMAIN ctx = 1 .. 1
    BY <2>1
  <2>4. IsFiniteSet({v})
    BY FS_Singleton
  <2> QED  BY <2>2, <2>3, <2>4
<1>3. CASE \E v \in Scalars, w \in Objects : ctx = <<v, w>>
  <2>1. PICK v \in Scalars, w \in Objects : ctx = <<v, w>>
    BY <1>3
  <2>2. v \in Values /\ w \in Values /\ v # w /\ KeyOf(v) = v /\ KeyOf(w) = "object" /\ v # "object"
    BY ResolverAssumption DEF Values, KeyOf
  <2>3. Len(ctx) = 2 /\ ctx[1] = v /\ ctx[2] = w /\ DOMAIN ctx = 1 .. 2
    BY <2>1
  <2>4. ToSet(ctx) = {v} \cup {w}
    <3>1. \A i \in 1 .. 2 : i = 1 \/ i = 2
      OBVIOUS
    <3> QED  BY <2>3, <3>1 DEF ToSet
  <2>5. IsFiniteSet({v} \cup {w})
    BY FS_Singleton, FS_AddElement
  <2>6. \A i, j \in 1 .. 2 : ctx[i] = ctx[j] => i = j
    BY <2>2, <2>3
  <2>7. \A a, b \in {v} \cup {w} : KeyOf(a) = KeyOf(b) => a = b
    BY <2>2
  <2>8. ctx \in Seq(Values)
    BY <2>1, <2>2
  <2>9. Len(ctx) \in 0 .. 2 /\ ToSet(ctx) \subseteq Values /\ IsFiniteSet(ToSet(ctx))
    BY <2>2, <2>3, <2>4, <2>5
  <2>10. \A i, j \in 1 .. Len(ctx) : ctx[i] = ctx[j] => i = j
    BY ONLY <2>3, <2>6
  <2>11. \A u, v_1 \in ToSet(ctx) : KeyOf(u) = KeyOf(v_1) => u = v_1
    BY ONLY <2>4, <2>7
  <2> QED  BY <2>3, <2>8, <2>9, <2>10, <2>11
<1> QED  BY <1>1, <1>2, <1>3 DEF Contexts

\* A value has a cache key.
LEMMA KeysOfValues ==
    \A v \in Values : KeyOf(v) \in CacheKeys
BY DEF CacheKeys

-----------------------------------------------------------------------------
(* The cache.                                                              *)

\* What get() leaves in a cache was there, and is not longer.
LEMMA GetKeeps ==
    ASSUME NEW c \in Seq(Kept), NEW k
    PROVE  /\ AfterGet(c, k) \in Seq(Kept) /\ Len(AfterGet(c, k)) <= Len(c)
           /\ \A r \in ToSet(AfterGet(c, k)) : r \in ToSet(c)
<1> DEFINE S == {r \in ToSet(c) : r.key # k}
           R == {r \in ToSet(c) : r.key = k /\ r.expiresAt > now}
           a == Among(c, S)
           b == Among(c, R)
<1>1. a \in Seq(Kept) /\ \A r \in ToSet(a) : r \in ToSet(c)
  BY AmongElements
<1>2. b \in Seq(Kept) /\ \A r \in ToSet(b) : r \in ToSet(c)
  BY AmongElements
<1>3. Len(a) + Len(b) <= Len(c)
  <2>1. \A x \in S : x \notin R
    OBVIOUS
  <2> HIDE DEF S, R
  <2> QED  BY <2>1, AmongDisjoint
<1>4. AfterGet(c, k) = a \o b
  BY DEF AfterGet, Without
<1> HIDE DEF a, b
<1>5. a \o b \in Seq(Kept) /\ Len(a \o b) = Len(a) + Len(b)
  BY <1>1, <1>2, ConcatProperties
<1>6. ToSet(a \o b) = ToSet(a) \cup ToSet(b)
  BY <1>1, <1>2, ToSetConcat
<1> QED  BY <1>1, <1>2, <1>3, <1>4, <1>5, <1>6

\* So do the gets of a context.
LEMMA GetsKeep ==
    ASSUME cache \in Seq(Kept), NEW ctx \in Contexts
    PROVE  /\ AfterGets(ctx) \in Seq(Kept) /\ Len(AfterGets(ctx)) <= Len(cache)
           /\ \A r \in ToSet(AfterGets(ctx)) : r \in ToSet(cache)
<1> DEFINE N == Len(ctx)
           G1 == AfterGet(cache, KeyOf(ctx[1]))
           G2 == AfterGet(G1, KeyOf(ctx[2]))
           Unfolds(g) == g = [i \in 0 .. N |-> IF i = 0 THEN cache ELSE AfterGet(g[i - 1], KeyOf(ctx[i]))]
           f == CHOOSE g : Unfolds(g)
           Good(c) == /\ c \in Seq(Kept) /\ Len(c) <= Len(cache)
                      /\ \A r \in ToSet(c) : r \in ToSet(cache)
<1>1. N \in 0 .. 2
  BY ContextFacts
<1>2. Good(cache) /\ Good(G1) /\ Good(G2)
  <2>1. Good(cache)
    BY LenProperties
  <2>2. Good(G1)
    BY <2>1, GetKeeps
  <2> HIDE DEF G1
  <2>3. Len(G2) <= Len(G1) /\ G2 \in Seq(Kept) /\ \A r \in ToSet(G2) : r \in ToSet(G1)
    BY <2>2, GetKeeps
  <2> HIDE DEF G2
  <2>4. Len(G1) \in Nat /\ Len(G2) \in Nat /\ Len(cache) \in Nat
    BY <2>2, <2>3, LenProperties
  <2> QED  BY <2>1, <2>2, <2>3, <2>4
<1>3. AfterGets(ctx) = f[N]
  BY DEF AfterGets
<1>4. \E g : Unfolds(g)
  <2> DEFINE g == [i \in 0 .. N |-> IF i = 0 THEN cache ELSE IF i = 1 THEN G1 ELSE G2]
  <2>1. \A i \in 0 .. N : i = 0 \/ (i = 1 /\ g[i - 1] = cache) \/ (i = 2 /\ g[i - 1] = G1)
    <3> HIDE DEF G1, G2, N
    <3> QED  BY <1>1
  <2>2. \A i \in 0 .. N : g[i] = IF i = 0 THEN cache ELSE AfterGet(g[i - 1], KeyOf(ctx[i]))
    <3> TAKE i \in 0 .. N
    <3>1. g[i] = IF i = 0 THEN cache ELSE IF i = 1 THEN G1 ELSE G2
      OBVIOUS
    <3> HIDE DEF g
    <3> QED  BY <2>1, <3>1
  <2>3. g = [i \in 0 .. N |-> g[i]]
    OBVIOUS
  <2> HIDE DEF g
  <2>4. g = [i \in 0 .. N |-> IF i = 0 THEN cache ELSE AfterGet(g[i - 1], KeyOf(ctx[i]))]
    BY <2>2, <2>3
  <2> QED  BY <2>4
<1>5. Unfolds(f)
  <2> HIDE DEF Unfolds
  <2> QED  BY <1>4
<1> HIDE DEF f
<1>6. \A i \in 0 .. N : f[i] = IF i = 0 THEN cache ELSE AfterGet(f[i - 1], KeyOf(ctx[i]))
  BY <1>5
<1>7. f[N] = cache \/ f[N] = G1 \/ f[N] = G2
  <2>1. CASE N = 0
    BY <2>1, <1>6
  <2>2. CASE N = 1
    <3>1. f[0] = cache /\ f[1] = AfterGet(f[0], KeyOf(ctx[1]))
      BY <2>2, <1>6
    <3> QED  BY <2>2, <3>1
  <2>3. CASE N = 2
    <3>1. f[0] = cache /\ f[1] = AfterGet(f[0], KeyOf(ctx[1])) /\ f[2] = AfterGet(f[1], KeyOf(ctx[2]))
      BY <2>3, <1>6
    <3> QED  BY <2>3, <3>1
  <2> QED  BY <1>1, <2>1, <2>2, <2>3
<1> HIDE DEF Good, G1, G2
<1>8. Good(f[N])
  BY <1>2, <1>7
<1> QED  BY <1>3, <1>8 DEF Good

\* set() replaces the entry of a key and keeps the cache within its capacity.
LEMMA SetKeeps ==
    ASSUME NEW c \in Seq(Kept), Len(c) <= CacheCap, NEW k \in CacheKeys, NEW n \in 1 .. MaxStarted,
           now \in Nat
    PROVE  LET s == AfterSet(c, k, n)
           IN  /\ s \in Seq(Kept) /\ Len(s) <= CacheCap
               /\ \A r \in ToSet(s) : \/ r \in ToSet(c) /\ r.key # k
                                      \/ r = [key |-> k, n |-> n, expiresAt |-> now + Ttl]
<1> DEFINE S == {r \in ToSet(c) : r.key # k}
           a == Among(c, S)
           b == IF Len(a) >= CacheCap THEN Tail(a) ELSE a
           x == [key |-> k, n |-> n, expiresAt |-> now + Ttl]
<1>0. CacheCap \in Nat \ {0} /\ Ttl \in Nat
  BY ResolverAssumption
<1>1. a \in Seq(Kept) /\ Len(a) <= Len(c) /\ \A r \in ToSet(a) : r \in ToSet(c) /\ r.key # k
  BY AmongElements
<1>2. AfterSet(c, k, n) = Append(b, x)
  BY DEF AfterSet, Without
<1> HIDE DEF a
<1>3. x \in Kept
  BY <1>0 DEF Kept
<1> HIDE DEF x
<1>4. Len(a) \in Nat /\ Len(c) \in Nat
  BY <1>1, LenProperties
<1>5. b \in Seq(Kept) /\ Len(b) + 1 <= CacheCap /\ \A r \in ToSet(b) : r \in ToSet(a)
  <2>1. CASE Len(a) >= CacheCap
    <3>1. a # <<>>
      BY <1>0, <2>1
    <3>2. Tail(a) \in Seq(Kept) /\ Len(Tail(a)) = Len(a) - 1
          /\ \A i \in 1 .. Len(Tail(a)) : Tail(a)[i] = a[i + 1]
      BY <1>1, <3>1, HeadTailProperties
    <3>3. \A r \in ToSet(Tail(a)) : r \in ToSet(a)
      <4>1. DOMAIN Tail(a) = 1 .. Len(a) - 1 /\ DOMAIN a = 1 .. Len(a)
        BY <1>1, <3>2
      <4> QED  BY <1>4, <3>2, <4>1 DEF ToSet
    <3> QED  BY <1>0, <1>1, <1>4, <2>1, <3>2, <3>3
  <2>2. CASE ~(Len(a) >= CacheCap)
    BY <1>0, <1>1, <1>4, <2>2
  <2> QED  BY <2>1, <2>2
<1> HIDE DEF b
<1>6. Append(b, x) \in Seq(Kept) /\ Len(Append(b, x)) = Len(b) + 1 /\ Len(b) \in Nat
  BY <1>3, <1>5, AppendProperties, LenProperties
<1>7. \A r \in ToSet(Append(b, x)) : r \in ToSet(b) \/ r = x
  BY <1>3, <1>5 DEF ToSet
<1> QED  BY <1>0, <1>1, <1>2, <1>5, <1>6, <1>7 DEF x

-----------------------------------------------------------------------------
(* The numbers of the calls.                                               *)

\* New calls take the numbers that follow, each its own.
LEMMA CallNumbers ==
    ASSUME NEW ctx \in Contexts, started \in Nat
    PROVE  /\ Cardinality(Fresh(ctx)) \in Nat
           /\ \A v \in Fresh(ctx) : CallOf(ctx, v) \in started + 1 .. started + Cardinality(Fresh(ctx))
           /\ \A u, v \in Fresh(ctx) : CallOf(ctx, u) = CallOf(ctx, v) => u = v
           /\ Cardinality(Fresh(ctx)) = 0 => Fresh(ctx) = {}
<1> DEFINE F == Fresh(ctx)
           U(v) == {u \in F : \E i, j \in DOMAIN ctx : ctx[i] = u /\ ctx[j] = v /\ i <= j}
<1>0. /\ IsFiniteSet(ToSet(ctx)) /\ DOMAIN ctx = 1 .. Len(ctx) /\ Len(ctx) \in Nat
      /\ \A i, j \in 1 .. Len(ctx) : ctx[i] = ctx[j] => i = j
  BY ContextFacts
<1>1. F \subseteq ToSet(ctx)
  BY DEF Fresh, Cold
<1>2. \A v \in F : \E i \in 1 .. Len(ctx) : ctx[i] = v
  BY <1>0, <1>1 DEF ToSet
<1>3. \A v : CallOf(ctx, v) = started + Cardinality(U(v))
  BY DEF CallOf
<1> HIDE DEF F
<1>4. IsFiniteSet(F)
  BY <1>0, <1>1, FS_Subset
<1>5. Cardinality(F) \in Nat /\ (Cardinality(F) = 0 => F = {})
  BY <1>4, FS_CardinalityType, FS_EmptySet
<1>6. ASSUME NEW v \in F
      PROVE  IsFiniteSet(U(v)) /\ Cardinality(U(v)) \in 1 .. Cardinality(F) /\ v \in U(v)
  <2>1. U(v) \in SUBSET F
    OBVIOUS
  <2>2. v \in U(v)
    BY <1>0, <1>2
  <2> HIDE DEF U
  <2>3. IsFiniteSet(U(v)) /\ Cardinality(U(v)) <= Cardinality(F)
    BY <1>4, <2>1, FS_Subset
  <2>4. Cardinality(U(v)) \in Nat /\ Cardinality(U(v)) # 0
    BY <2>2, <2>3, FS_CardinalityType, FS_EmptySet
  <2> QED  BY <1>5, <2>2, <2>3, <2>4
<1>7. ASSUME NEW u \in F, NEW v \in F, NEW i \in 1 .. Len(ctx), NEW j \in 1 .. Len(ctx),
             ctx[i] = u, ctx[j] = v, i < j
      PROVE  Cardinality(U(u)) # Cardinality(U(v))
  <2>1. ASSUME NEW x \in U(u) PROVE x \in U(v)
    <3>1. PICK k, l \in 1 .. Len(ctx) : ctx[k] = x /\ ctx[l] = u /\ k <= l /\ x \in F
      BY <1>0, <2>1
    <3>2. l = i
      BY <1>0, <1>7, <3>1
    <3>3. k <= j
      BY <1>0, <1>7, <3>1, <3>2
    <3> QED  BY <1>0, <1>7, <3>1, <3>3
  <2>2. v \notin U(u)
    <3> SUFFICES ASSUME v \in U(u) PROVE FALSE
      OBVIOUS
    <3>1. PICK k, l \in 1 .. Len(ctx) : ctx[k] = v /\ ctx[l] = u /\ k <= l
      BY <1>0
    <3>2. k = j /\ l = i
      BY <1>0, <1>7, <3>1
    <3> QED  BY <1>0, <1>7, <3>1, <3>2
  <2>3. v \in U(v) /\ IsFiniteSet(U(v))
    BY <1>6
  <2> HIDE DEF U
  <2>4. U(u) \in SUBSET U(v)
    BY <2>1
  <2>5. Cardinality(U(v)) = Cardinality(U(u)) => U(v) = U(u)
    BY <2>3, <2>4, FS_Subset
  <2> QED  BY <2>2, <2>3, <2>5
<1> HIDE DEF U
<1>8. ASSUME NEW u \in F, NEW v \in F, Cardinality(U(u)) = Cardinality(U(v)) PROVE u = v
  <2>1. PICK i \in 1 .. Len(ctx) : ctx[i] = u
    BY <1>2
  <2>2. PICK j \in 1 .. Len(ctx) : ctx[j] = v
    BY <1>2
  <2>3. ~(i < j) /\ ~(j < i)
    BY <1>7, <1>8, <2>1, <2>2
  <2>4. i = j
    BY <1>0, <2>3
  <2> QED  BY <2>1, <2>2, <2>4
<1>9. \A v \in F : CallOf(ctx, v) \in started + 1 .. started + Cardinality(F)
  BY <1>3, <1>5, <1>6
<1>10. \A u, v \in F : CallOf(ctx, u) = CallOf(ctx, v) => Cardinality(U(u)) = Cardinality(U(v))
  BY <1>3, <1>5, <1>6
<1> QED  BY <1>5, <1>8, <1>9, <1>10 DEF F

-----------------------------------------------------------------------------
(* A lookup is over.                                                       *)

\* The entry x went on as y when lookup n was over, with these fields.
Went(x, y, n, fields) ==
    /\ x.entry = y.entry /\ x.ctx = y.ctx
    /\ x.needs = {p \in y.needs : p[2] # n}
    /\ \A f \in x.fields : f \in y.fields \/ f[2] \in fields

\* The entries that waited, after lookup n.
LEMMA SettledFacts ==
    ASSUME waiting \in Seq(Entries), NEW n, NEW fields \in SUBSET (0 .. MaxStarted)
    PROVE  /\ Settled(n, fields) \in Seq(Entries) /\ Len(Settled(n, fields)) = Len(waiting)
           /\ \A i \in 1 .. Len(waiting) : Went(Settled(n, fields)[i], waiting[i], n, fields)
<1> DEFINE A == Settled(n, fields)
<1>1. /\ DOMAIN waiting = 1 .. Len(waiting) /\ Len(waiting) \in Nat
      /\ \A i \in 1 .. Len(waiting) : waiting[i] \in Entries
  BY LenProperties, ElementOfSeq
<1>2. ASSUME NEW i \in 1 .. Len(waiting)
      PROVE  A[i] \in Entries /\ Went(A[i], waiting[i], n, fields)
  <2> DEFINE x == waiting[i]
             more == {<<p[1], f>> : p \in {q \in x.needs : q[2] = n}, f \in fields}
             left == {p \in x.needs : p[2] # n}
  <2>1. x \in Entries
    BY <1>1
  <2>2. A[i] = [x EXCEPT !.fields = x.fields \cup more, !.needs = left]
    BY <1>1 DEF Settled
  <2> HIDE DEF x
  <2>3. /\ x.needs \in SUBSET (Values \X (1 .. MaxStarted))
        /\ x.fields \in SUBSET (Values \X (0 .. MaxStarted))
        /\ x.entry \in Nat /\ x.ctx \in Contexts
        /\ x = [entry |-> x.entry, ctx |-> x.ctx, needs |-> x.needs, fields |-> x.fields]
    BY <2>1 DEF Entries
  <2>4. more \in SUBSET (Values \X (0 .. MaxStarted)) /\ \A f \in more : f[2] \in fields
    BY <2>3
  <2>5. left \in SUBSET (Values \X (1 .. MaxStarted))
    BY <2>3
  <2>6. left = {p \in x.needs : p[2] # n}
    OBVIOUS
  <2> HIDE DEF more, left, A
  <2>7. A[i] = [entry |-> x.entry, ctx |-> x.ctx, needs |-> left, fields |-> x.fields \cup more]
    BY <2>2, <2>3
  <2>8. A[i] \in Entries
    BY <2>3, <2>4, <2>5, <2>7 DEF Entries
  <2>9. Went(A[i], x, n, fields)
    BY <2>4, <2>6, <2>7 DEF Went
  <2> QED  BY <2>8, <2>9 DEF x
<1>3. DOMAIN A = 1 .. Len(waiting) /\ A = [i \in 1 .. Len(waiting) |-> A[i]]
  BY <1>1 DEF Settled
<1> HIDE DEF A
<1>4. A \in [1 .. Len(waiting) -> Entries]
  BY <1>2, <1>3
<1>5. A \in Seq(Entries) /\ Len(A) = Len(waiting)
  BY <1>1, <1>4
<1> QED  BY <1>2, <1>5 DEF A

\* A part of them is in the order of the entries.
LEMMA PartOfSettled ==
    ASSUME waiting \in Seq(Entries), NEW n, NEW fields \in SUBSET (0 .. MaxStarted), NEW S,
           \A i, j \in DOMAIN waiting : i < j => waiting[i].entry < waiting[j].entry
    PROVE  LET r == Among(Settled(n, fields), S)
           IN  /\ r \in Seq(Entries)
               /\ \A i, j \in 1 .. Len(r) : i < j => r[i].entry < r[j].entry
               /\ \A x \in ToSet(r) : x \in S /\ \E y \in ToSet(waiting) : Went(x, y, n, fields)
<1> DEFINE A == Settled(n, fields)
           r == Among(A, S)
<1>1. /\ A \in Seq(Entries) /\ Len(A) = Len(waiting)
      /\ \A i \in 1 .. Len(waiting) : Went(A[i], waiting[i], n, fields)
  BY SettledFacts
<1>2. DOMAIN waiting = 1 .. Len(waiting) /\ DOMAIN A = 1 .. Len(waiting)
  BY <1>1
<1> HIDE DEF A
<1>3. r \in Seq(Entries) /\ \A x \in ToSet(r) : x \in ToSet(A) /\ x \in S
  BY <1>1, AmongElements
<1>4. PICK p \in [1 .. Len(r) -> 1 .. Len(A)] :
         /\ \A i, j \in 1 .. Len(r) : i < j => p[i] < p[j]
         /\ \A i \in 1 .. Len(r) : r[i] = A[p[i]]
  BY <1>1, AmongPlaces
<1> HIDE DEF r
<1>5. ASSUME NEW i \in 1 .. Len(r), NEW j \in 1 .. Len(r), i < j
      PROVE  r[i].entry < r[j].entry
  <2>1. p[i] \in 1 .. Len(waiting) /\ p[j] \in 1 .. Len(waiting) /\ p[i] < p[j]
    BY <1>1, <1>4, <1>5
  <2>2. waiting[p[i]].entry < waiting[p[j]].entry
    BY <1>2, <2>1
  <2>3. A[p[i]].entry = waiting[p[i]].entry /\ A[p[j]].entry = waiting[p[j]].entry
    BY <1>1, <2>1 DEF Went
  <2> QED  BY <1>4, <2>2, <2>3
<1>6. ASSUME NEW x \in ToSet(r) PROVE x \in S /\ \E y \in ToSet(waiting) : Went(x, y, n, fields)
  <2>1. PICK i \in 1 .. Len(waiting) : x = A[i]
    BY <1>2, <1>3 DEF ToSet
  <2>2. waiting[i] \in ToSet(waiting)
    BY <1>2 DEF ToSet
  <2> QED  BY <1>1, <1>3, <2>1, <2>2
<1> QED  BY <1>3, <1>5, <1>6 DEF r, A

\* What holds while a lookup is settled.
Settling(c, fields) ==
    /\ c \in calls /\ c.live /\ Settles(c.n, fields) /\ Over(c)
    /\ fields \in SUBSET (0 .. MaxStarted)
    /\ calls' \subseteq (calls \ {c}) \cup {[c EXCEPT !.live = FALSE]}
    /\ UNCHANGED <<now, offered, started>>
    /\ answeredAt' = answeredAt \/ answeredAt' = [answeredAt EXCEPT ![c.n] = now]
    /\ \A f \in fields : f # 0 => answeredAt'[f] # Never

\* A settled lookup keeps the calls registered.
LEMMA SettlingKeepsCalls ==
    ASSUME ResolverInv, NEW c, NEW fields, Settling(c, fields)
    PROVE  /\ calls' \subseteq [n : 1 .. started', v : Values, live : BOOLEAN]
           /\ inFlight' \in [CacheKeys -> 0 .. started'] /\ CallsAreRegistered'
           /\ KeyOf(c.v) \in CacheKeys /\ c.n \in 1 .. started /\ inFlight[KeyOf(c.v)] = c.n
           /\ \A k \in CacheKeys : inFlight'[k] = IF k = KeyOf(c.v) THEN 0 ELSE inFlight[k]
           /\ answeredAt' \in [1 .. MaxStarted -> 0 .. Never]
           /\ \A n \in 1 .. MaxStarted : answeredAt[n] # Never => answeredAt'[n] # Never
           /\ \A n \in 1 .. MaxStarted : n # c.n => answeredAt'[n] = answeredAt[n]
<1>0. /\ c \in calls /\ c.live /\ started' = started
      /\ calls \subseteq [n : 1 .. started, v : Values, live : BOOLEAN]
      /\ inFlight \in [CacheKeys -> 0 .. started] /\ CallsAreRegistered
      /\ started \in 0 .. MaxStarted /\ now \in 0 .. MaxTime
      /\ answeredAt \in [1 .. MaxStarted -> 0 .. Never]
      /\ MaxStarted \in Nat /\ MaxTime \in Nat
  BY ResolverAssumption DEF Settling, ResolverInv, ResolverTypes
<1>1. c \in [n : 1 .. started, v : Values, live : BOOLEAN]
  BY <1>0
<1>2. KeyOf(c.v) \in CacheKeys /\ c.n \in 1 .. started /\ c.n \in 1 .. MaxStarted
  BY <1>0, <1>1, KeysOfValues
<1>3. inFlight[KeyOf(c.v)] = c.n
  BY <1>0 DEF CallsAreRegistered
<1>4. inFlight' = [inFlight EXCEPT ![KeyOf(c.v)] = 0]
  BY DEF Settling, Over
<1>5. /\ inFlight' \in [CacheKeys -> 0 .. started]
      /\ \A k \in CacheKeys : inFlight'[k] = IF k = KeyOf(c.v) THEN 0 ELSE inFlight[k]
  BY <1>0, <1>2, <1>4
<1> DEFINE dead == [c EXCEPT !.live = FALSE]
<1>6. \A d \in calls' : (d \in calls /\ d # c) \/ d = dead
  BY DEF Settling
<1>7. calls' \subseteq [n : 1 .. started, v : Values, live : BOOLEAN] /\ dead.n = c.n /\ ~dead.live
  <2>1. dead \in [n : 1 .. started, v : Values, live : BOOLEAN] /\ dead.n = c.n /\ ~dead.live
    BY <1>1
  <2> HIDE DEF dead
  <2> QED  BY <1>0, <1>6, <2>1
<1>8. CallsAreRegistered'
  <2> HIDE DEF dead
  <2>1. ASSUME NEW d \in calls', d.live PROVE inFlight'[KeyOf(d.v)] = d.n
    <3>1. d \in calls /\ d # c
      BY <1>6, <1>7, <2>1
    <3>2. inFlight[KeyOf(d.v)] = d.n /\ d.n # c.n
      BY <1>0, <2>1, <3>1 DEF CallsAreRegistered
    <3>3. KeyOf(d.v) \in CacheKeys /\ KeyOf(d.v) # KeyOf(c.v)
      BY <1>0, <1>3, <3>1, <3>2, KeysOfValues
    <3> QED  BY <1>5, <3>2, <3>3
  <2>2. ASSUME NEW d \in calls', NEW e \in calls', d.n = e.n PROVE d = e
    <3>1. \A x \in calls : x # c => x.n # c.n
      BY <1>0 DEF CallsAreRegistered
    <3>2. \A x, y \in calls : x.n = y.n => x = y
      BY <1>0 DEF CallsAreRegistered
    <3>3. /\ (d \in calls /\ d # c) \/ d = dead
          /\ (e \in calls /\ e # c) \/ e = dead
      BY <1>6
    <3> QED  BY <1>7, <2>2, <3>1, <3>2, <3>3
  <2> QED  BY <2>1, <2>2 DEF CallsAreRegistered
<1>9. /\ answeredAt' \in [1 .. MaxStarted -> 0 .. Never]
      /\ \A n \in 1 .. MaxStarted : answeredAt[n] # Never => answeredAt'[n] # Never
      /\ \A n \in 1 .. MaxStarted : n # c.n => answeredAt'[n] = answeredAt[n]
  <2>1. now \in 0 .. Never /\ now # Never
    BY <1>0 DEF Never
  <2>2. answeredAt' = answeredAt \/ answeredAt' = [answeredAt EXCEPT ![c.n] = now]
    BY DEF Settling
  <2> QED  BY <1>0, <1>2, <2>1, <2>2
<1> QED  BY <1>0, <1>2, <1>3, <1>5, <1>7, <1>8, <1>9

\* A settled lookup keeps what waits and what was delivered in order.
LEMMA SettlingKeepsOrder ==
    ASSUME ResolverInv, NEW c, NEW fields, Settling(c, fields)
    PROVE  /\ waiting' \in Seq(Entries) /\ delivered' \in Seq(Entries)
           /\ WaitingInOrder' /\ DeliveredFirst' /\ SameContextInOrder' /\ NoLateAnswers'
           /\ \A x \in ToSet(waiting') : \E y \in ToSet(waiting) : Went(x, y, c.n, fields)
<1> DEFINE S == {x \in ToSet(Settled(c.n, fields)) : x.needs # {}}
           R == {x \in ToSet(Settled(c.n, fields)) : x.needs = {}}
           D == Among(Settled(c.n, fields), R)
           From(x, y) == Went(x, y, c.n, fields)
<1>0. /\ waiting \in Seq(Entries) /\ delivered \in Seq(Entries) /\ offered \in Nat
      /\ WaitingInOrder /\ DeliveredFirst /\ SameContextInOrder /\ NoLateAnswers
      /\ fields \in SUBSET (0 .. MaxStarted) /\ offered' = offered
      /\ \A f \in fields : f # 0 => answeredAt'[f] # Never
      /\ MaxStarted \in Nat
  BY ResolverAssumption DEF ResolverInv, ResolverTypes, Settling
<1>1. /\ KeyOf(c.v) \in CacheKeys /\ c.n \in 1 .. started /\ inFlight[KeyOf(c.v)] = c.n
      /\ \A k \in CacheKeys : inFlight'[k] = IF k = KeyOf(c.v) THEN 0 ELSE inFlight[k]
      /\ \A n \in 1 .. MaxStarted : answeredAt[n] # Never => answeredAt'[n] # Never
  BY SettlingKeepsCalls
<1>2. \A i, j \in DOMAIN waiting : i < j => waiting[i].entry < waiting[j].entry
  BY <1>0 DEF WaitingInOrder
<1>3. waiting' = Among(Settled(c.n, fields), S) /\ delivered' = delivered \o D
  BY DEF Settling, Settles
<1>4. /\ waiting' \in Seq(Entries)
      /\ \A i, j \in 1 .. Len(waiting') : i < j => waiting'[i].entry < waiting'[j].entry
      /\ \A x \in ToSet(waiting') : x \in S /\ \E y \in ToSet(waiting) : From(x, y)
  BY <1>0, <1>2, <1>3, PartOfSettled
<1>5. /\ D \in Seq(Entries)
      /\ \A i, j \in 1 .. Len(D) : i < j => D[i].entry < D[j].entry
      /\ \A x \in ToSet(D) : x \in R /\ \E y \in ToSet(waiting) : From(x, y)
  BY <1>0, <1>2, PartOfSettled
<1>6. /\ \A x \in ToSet(waiting') : x.needs # {}
      /\ \A x \in ToSet(D) : x.needs = {}
  BY <1>4, <1>5
<1> HIDE DEF S, R, D
<1>7. /\ \A x \in ToSet(waiting) : x \in Entries
      /\ \A x \in ToSet(delivered) : x \in Entries
      /\ \A x \in ToSet(waiting') : x \in Entries
      /\ \A x \in ToSet(D) : x \in Entries
  BY <1>0, <1>4, <1>5, ElementOfSeq DEF ToSet
<1>8. delivered' \in Seq(Entries) /\ ToSet(delivered') = ToSet(delivered) \cup ToSet(D)
  BY <1>0, <1>3, <1>5, ConcatProperties, ToSetConcat
<1>9. WaitingInOrder'
  <2>1. \A i, j \in DOMAIN waiting' : i < j => waiting'[i].entry < waiting'[j].entry
    BY <1>4
  <2>2. ASSUME NEW x \in ToSet(waiting')
        PROVE  /\ x.entry \in 1 .. offered /\ x.needs # {}
               /\ \A p \in x.needs : p[1] \in ToSet(x.ctx) /\ inFlight'[KeyOf(p[1])] = p[2]
    <3>1. PICK y \in ToSet(waiting) : From(x, y)
      BY <1>4
    <3>2. y.entry \in 1 .. offered /\ y \in Entries
          /\ \A p \in y.needs : p[1] \in ToSet(y.ctx) /\ inFlight[KeyOf(p[1])] = p[2]
      BY <1>0, <1>7 DEF WaitingInOrder
    <3>3. ASSUME NEW p \in x.needs
          PROVE  p[1] \in ToSet(x.ctx) /\ inFlight'[KeyOf(p[1])] = p[2]
      <4>1. p \in y.needs /\ p[2] # c.n /\ x.ctx = y.ctx
        BY <3>1 DEF Went
      <4>2. p[1] \in Values
        BY <3>2, <4>1 DEF Entries
      <4>3. KeyOf(p[1]) \in CacheKeys
        BY <4>2, KeysOfValues
      <4> QED  BY <1>1, <3>2, <4>1, <4>3
    <3> QED  BY <1>6, <3>1, <3>2, <3>3 DEF Went
  <2>3. ASSUME NEW x \in ToSet(waiting'), NEW y \in ToSet(waiting'), x.ctx = y.ctx, x.entry < y.entry
        PROVE  x.needs \subseteq y.needs
    <3>1. PICK a \in ToSet(waiting) : From(x, a)
      BY <1>4
    <3>2. PICK b \in ToSet(waiting) : From(y, b)
      BY <1>4
    <3>3. a.needs \subseteq b.needs
      BY <1>0, <2>3, <3>1, <3>2 DEF Went, WaitingInOrder
    <3> QED  BY <3>1, <3>2, <3>3 DEF Went
  <2> QED  BY <1>0, <2>1, <2>2, <2>3 DEF WaitingInOrder
<1>10. DeliveredFirst'
  <2>1. ASSUME NEW d \in ToSet(delivered) 
        PROVE  /\ d.entry <= offered
               /\ \A x \in ToSet(waiting') : d.ctx = x.ctx /\ ~Threw(d) => d.entry < x.entry
    BY <1>0, <1>4 DEF DeliveredFirst, Went
  <2>2. ASSUME NEW d \in ToSet(D)
        PROVE  /\ d.entry <= offered
               /\ \A x \in ToSet(waiting') : d.ctx = x.ctx => d.entry < x.entry
    <3>1. PICK a \in ToSet(waiting) : From(d, a)
      BY <1>5
    <3>2. a.entry \in 1 .. offered /\ d.entry = a.entry /\ d.ctx = a.ctx /\ \A p \in a.needs : p[2] = c.n
      <4>1. d.needs = {}
        BY <1>6
      <4> QED  BY <1>0, <3>1, <4>1 DEF Went, WaitingInOrder
    <3>3. ASSUME NEW x \in ToSet(waiting'), d.ctx = x.ctx PROVE d.entry < x.entry
      <4>1. PICK b \in ToSet(waiting) : From(x, b)
        BY <1>4
      <4>2. PICK p \in b.needs : p[2] # c.n
        BY <1>6, <4>1 DEF Went
      <4>3. x.entry = b.entry /\ x.ctx = b.ctx /\ b.entry \in 1 .. offered
        BY <1>0, <4>1 DEF Went, WaitingInOrder
      <4>4. ~(b.entry < a.entry)
        BY <1>0, <3>2, <3>3, <4>2, <4>3 DEF WaitingInOrder
      <4>5. a.entry # b.entry
        <5>1. PICK i \in DOMAIN waiting : waiting[i] = a
          BY DEF ToSet
        <5>2. PICK j \in DOMAIN waiting : waiting[j] = b
          BY DEF ToSet
        <5>3. i # j /\ i \in Nat /\ j \in Nat
          BY <1>0, <3>2, <4>2, <5>1, <5>2, LenProperties
        <5>4. i < j \/ j < i
          BY <5>3
        <5> QED  BY <1>0, <1>2, <3>2, <4>3, <5>1, <5>2, <5>4
      <4> QED  BY <1>0, <3>2, <4>3, <4>4, <4>5
    <3> QED  BY <1>0, <3>2, <3>3
  <2> QED  BY <1>0, <1>8, <2>1, <2>2 DEF DeliveredFirst
<1>11. SameContextInOrder'
  <2> SUFFICES ASSUME NEW i \in DOMAIN delivered', NEW j \in DOMAIN delivered', i < j,
                      delivered'[i].ctx = delivered'[j].ctx, ~Threw(delivered'[i])
               PROVE  delivered'[i].entry < delivered'[j].entry
    BY DEF SameContextInOrder, Threw
  <2>1. \/ i \in DOMAIN delivered /\ j \in DOMAIN delivered
           /\ delivered'[i] = delivered[i] /\ delivered'[j] = delivered[j]
        \/ delivered'[i] \in ToSet(delivered) /\ delivered'[j] \in ToSet(D)
        \/ \E k, l \in DOMAIN D : k < l /\ delivered'[i] = D[k] /\ delivered'[j] = D[l]
    BY <1>0, <1>3, <1>5, PairsOfConcat
  <2>2. CASE i \in DOMAIN delivered /\ j \in DOMAIN delivered
             /\ delivered'[i] = delivered[i] /\ delivered'[j] = delivered[j]
    BY <1>0, <2>2 DEF SameContextInOrder
  <2>3. CASE delivered'[i] \in ToSet(delivered) /\ delivered'[j] \in ToSet(D)
    <3>1. PICK a \in ToSet(waiting) : From(delivered'[j], a)
      BY <1>5, <2>3
    <3> QED  BY <1>0, <2>3, <3>1 DEF DeliveredFirst, Went
  <2>4. CASE \E k, l \in DOMAIN D : k < l /\ delivered'[i] = D[k] /\ delivered'[j] = D[l]
    BY <1>5, <2>4
  <2> QED  BY <2>1, <2>2, <2>3, <2>4
<1>12. NoLateAnswers'
  <2>1. ASSUME NEW x \in Entries, NEW y \in ToSet(waiting), From(x, y), NEW p \in x.fields, p[2] # 0
        PROVE  answeredAt'[p[2]] # Never
    <3>1. p[2] \in 1 .. MaxStarted
      BY <1>0, <2>1 DEF Entries
    <3>2. CASE p \in y.fields
      BY <1>0, <1>1, <2>1, <3>1, <3>2 DEF NoLateAnswers
    <3>3. CASE p[2] \in fields
      BY <1>0, <2>1, <3>3
    <3> QED  BY <2>1, <3>2, <3>3 DEF Went
  <2>2. ASSUME NEW x \in ToSet(delivered), NEW p \in x.fields, p[2] # 0
        PROVE  answeredAt'[p[2]] # Never
    <3>1. p[2] \in 1 .. MaxStarted
      BY <1>0, <1>7, <2>2 DEF Entries
    <3> QED  BY <1>0, <1>1, <2>2, <3>1 DEF NoLateAnswers
  <2>3. ASSUME NEW x \in ToSet(waiting') \cup ToSet(D), NEW p \in x.fields, p[2] # 0
        PROVE  answeredAt'[p[2]] # Never
    BY <1>4, <1>5, <1>7, <2>1, <2>3
  <2>4. \A x \in ToSet(delivered') \cup ToSet(waiting') :
           x \in ToSet(delivered) \/ x \in ToSet(waiting') \cup ToSet(D)
    BY <1>8
  <2> QED  BY <2>2, <2>3, <2>4 DEF NoLateAnswers, Never
<1> QED  BY <1>4, <1>8, <1>9, <1>10, <1>11, <1>12

\* A settled lookup leaves the waitForIdle() calls covering what still waits;
\* one that returns leaves nothing waiting that was written before it.
LEMMA SettlingKeepsIdle ==
    ASSUME ResolverInv, NEW c, NEW fields, Settling(c, fields)
    PROVE  /\ idle' \subseteq [on : (SUBSET (1 .. started')) \ {{}}, upTo : 0 .. offered']
           /\ IdleCovers'
           /\ \A w \in idle : (\A u \in idle' : u.upTo # w.upTo) =>
                \A x \in ToSet(waiting') : x.entry > w.upTo
<1>0. /\ idle \subseteq [on : (SUBSET (1 .. started)) \ {{}}, upTo : 0 .. offered]
      /\ idle' = {[w EXCEPT !.on = @ \ {c.n}] : w \in {u \in idle : u.on # {c.n}}}
      /\ started' = started /\ offered' = offered /\ offered \in Nat /\ IdleCovers
      /\ \A x \in ToSet(waiting) : x.entry \in 1 .. offered
  BY ResolverAssumption, SMTT(20) DEF ResolverInv, ResolverTypes, Settling, Settles, WaitingInOrder
<1>1. /\ \A x \in ToSet(waiting') : x.needs # {}
      /\ \A x \in ToSet(waiting') : \E y \in ToSet(waiting) : Went(x, y, c.n, fields)
  BY SettlingKeepsOrder DEF WaitingInOrder
<1>2. ASSUME NEW w \in idle
      PROVE  LET u == [w EXCEPT !.on = @ \ {c.n}]
             IN  /\ u.upTo = w.upTo /\ u.on = w.on \ {c.n}
                 /\ w.on # {c.n} => u \in [on : (SUBSET (1 .. started)) \ {{}}, upTo : 0 .. offered]
  <2>1. w \in [on : (SUBSET (1 .. started)) \ {{}}, upTo : 0 .. offered]
    BY <1>0
  <2>2. w.on \in (SUBSET (1 .. started)) \ {{}} /\ w.upTo \in 0 .. offered
    BY <2>1
  <2> DEFINE u == [w EXCEPT !.on = @ \ {c.n}]
  <2>3. u.upTo = w.upTo /\ u.on = w.on \ {c.n}
    BY <2>1
  <2>4. ASSUME w.on # {c.n} PROVE w.on \ {c.n} \in (SUBSET (1 .. started)) \ {{}}
    <3>1. w.on \in SUBSET (1 .. started) /\ w.on # {}
      BY <2>2
    <3>2. \E m \in w.on : m # c.n
      BY <2>4, <3>1
    <3> QED  BY <3>1, <3>2
  <2>5. ASSUME w.on \ {c.n} \in (SUBSET (1 .. started)) \ {{}}
        PROVE  u \in [on : (SUBSET (1 .. started)) \ {{}}, upTo : 0 .. offered]
    BY <2>1, <2>5
  <2> QED  BY <2>3, <2>4, <2>5
<1>3. idle' \subseteq [on : (SUBSET (1 .. started)) \ {{}}, upTo : 0 .. offered]
  BY <1>0, <1>2
<1>4. ASSUME NEW v \in idle', NEW x \in ToSet(waiting'), x.entry <= v.upTo, NEW p \in x.needs
      PROVE  p[2] \in v.on
  <2>1. PICK w \in idle : v = [w EXCEPT !.on = @ \ {c.n}]
    BY <1>0
  <2>2. v.upTo = w.upTo /\ v.on = w.on \ {c.n}
    BY <1>2, <2>1
  <2>3. PICK y \in ToSet(waiting) : Went(x, y, c.n, fields)
    BY <1>1
  <2>4. p \in y.needs /\ p[2] # c.n /\ y.entry <= w.upTo
    BY <1>4, <2>2, <2>3 DEF Went
  <2> QED  BY <1>0, <2>2, <2>4 DEF IdleCovers
<1>5. ASSUME NEW w \in idle, \A u \in idle' : u.upTo # w.upTo, NEW x \in ToSet(waiting')
      PROVE  x.entry > w.upTo
  <2>1. w.on = {c.n}
    <3> SUFFICES ASSUME w.on # {c.n} PROVE FALSE
      OBVIOUS
    <3>1. [w EXCEPT !.on = @ \ {c.n}] \in idle'
      BY <1>0
    <3> QED  BY <1>2, <1>5, <3>1
  <2>2. PICK y \in ToSet(waiting) : Went(x, y, c.n, fields)
    BY <1>1
  <2>3. PICK p \in y.needs : p[2] # c.n
    BY <1>1, <2>2 DEF Went
  <2>4. ~(y.entry <= w.upTo)
    BY <1>0, <2>1, <2>3 DEF IdleCovers
  <2>5. y.entry \in Nat /\ w.upTo \in Nat /\ x.entry = y.entry
    BY <1>0, <2>2 DEF Went
  <2> QED  BY <2>4, <2>5
<1> QED  BY <1>0, <1>3, <1>4, <1>5 DEF IdleCovers

\* A lookup that is settled without an answer leaves the cache alone.
LEMMA SettlingKeepsCache ==
    ASSUME ResolverInv, NEW c, NEW fields, Settling(c, fields), UNCHANGED <<cache, answeredAt>>
    PROVE  CacheTellsAnswers'
<1>0. /\ cache' = cache /\ answeredAt' = answeredAt /\ now' = now /\ started' = started
      /\ cache \in Seq(Kept) /\ CacheTellsAnswers
      /\ c \in calls
  BY DEF Settling, ResolverInv, ResolverTypes
<1>1. \A k \in CacheKeys : inFlight'[k] = IF k = KeyOf(c.v) THEN 0 ELSE inFlight[k]
  BY SettlingKeepsCalls
<1>2. \A d \in calls' : d.n = c.n \/ d \in calls
  <2>1. [c EXCEPT !.live = FALSE].n = c.n
    <3>1. c \in [n : 1 .. started, v : Values, live : BOOLEAN]
      BY <1>0 DEF ResolverInv, ResolverTypes
    <3> QED  BY <3>1
  <2> QED  BY <2>1 DEF Settling
<1>3. \A r \in ToSet(cache) : r.key \in CacheKeys
  <2>1. \A r \in ToSet(cache) : r \in Kept
    BY <1>0, ElementOfSeq DEF ToSet
  <2> QED  BY <2>1 DEF Kept
<1> QED  BY <1>0, <1>1, <1>2, <1>3 DEF CacheTellsAnswers

\* What is left to show of a step that settles a lookup.
LEMMA SettlingKeepsInv ==
    ASSUME ResolverInv, NEW c, NEW fields, Settling(c, fields), cache' \in Seq(Kept),
           CacheTellsAnswers'
    PROVE  ResolverInv'
<1>0. ResolverTypes /\ UNCHANGED <<now, offered, started>>
  BY DEF ResolverInv, Settling
<1>1. /\ calls' \subseteq [n : 1 .. started', v : Values, live : BOOLEAN]
      /\ inFlight' \in [CacheKeys -> 0 .. started'] /\ CallsAreRegistered'
      /\ answeredAt' \in [1 .. MaxStarted -> 0 .. Never]
  BY SettlingKeepsCalls
<1>2. /\ waiting' \in Seq(Entries) /\ delivered' \in Seq(Entries)
      /\ WaitingInOrder' /\ DeliveredFirst' /\ SameContextInOrder' /\ NoLateAnswers'
  BY SettlingKeepsOrder
<1>3. /\ idle' \subseteq [on : (SUBSET (1 .. started')) \ {{}}, upTo : 0 .. offered']
      /\ IdleCovers'
  BY SettlingKeepsIdle
<1>4. ResolverTypes'
  BY <1>0, <1>1, <1>2, <1>3 DEF ResolverTypes, Never
<1> QED  BY <1>1, <1>2, <1>3, <1>4 DEF ResolverInv

\* Steps that settle a lookup.
LEMMA SettlingSteps ==
    ASSUME ResolverInv, NEW c \in calls
    PROVE  /\ Answer(c) => Settling(c, {c.n})
           /\ \A fields \in {{}, MarkOr({0})} : NoAnswer(c, fields) => Settling(c, fields)
           /\ Timeout(c) => Settling(c, MarkOr({0}))
<1>0. /\ c \in [n : 1 .. started, v : Values, live : BOOLEAN] /\ started \in 0 .. MaxStarted
      /\ now \in 0 .. MaxTime /\ answeredAt \in [1 .. MaxStarted -> 0 .. Never]
      /\ MaxStarted \in Nat /\ MaxTime \in Nat
  BY ResolverAssumption DEF ResolverInv, ResolverTypes
<1>1. c.n \in 1 .. MaxStarted /\ now # Never
  BY <1>0 DEF Never
<1>2. MarkOr({0}) \in SUBSET {0}
  BY DEF MarkOr
<1>3. ASSUME Answer(c) PROVE Settling(c, {c.n})
  <2>1. answeredAt'[c.n] = now
    BY <1>0, <1>1, <1>3 DEF Answer
  <2> QED  BY <1>1, <1>3, <2>1 DEF Answer, Settling, Never
<1>4. ASSUME NEW fields \in {{}, MarkOr({0})}, NoAnswer(c, fields) PROVE Settling(c, fields)
  <2>1. fields \in SUBSET {0}
    BY <1>2
  <2>2. fields \in SUBSET (0 .. MaxStarted) /\ \A f \in fields : f = 0
    BY <1>0, <2>1
  <2> QED  BY <1>4, <2>2 DEF NoAnswer, Settling
<1>5. ASSUME Timeout(c) PROVE Settling(c, MarkOr({0}))
  <2>1. MarkOr({0}) \in SUBSET (0 .. MaxStarted) /\ \A f \in MarkOr({0}) : f = 0
    BY <1>0, <1>2
  <2> QED  BY <1>5, <2>1 DEF Timeout, Settling
<1> QED  BY <1>3, <1>4, <1>5

\* An answer in time.
LEMMA AnswerKeepsInv ==
    ASSUME ResolverInv, NEW c \in calls, Answer(c)
    PROVE  ResolverInv'
<1> DEFINE k == KeyOf(c.v)
           x == [key |-> k, n |-> c.n, expiresAt |-> now + Ttl]
<1>0. /\ Settling(c, {c.n})
      /\ cache' = AfterSet(cache, k, c.n) /\ answeredAt' = [answeredAt EXCEPT ![c.n] = now]
      /\ calls' = calls \ {c} /\ now' = now /\ started' = started
  BY SettlingSteps DEF Answer
<1>1. /\ cache \in Seq(Kept) /\ CacheTellsAnswers /\ CallsAreRegistered
      /\ now \in 0 .. MaxTime /\ MaxTime \in Nat /\ now \in Nat
      /\ started \in 0 .. MaxStarted /\ MaxStarted \in Nat
      /\ answeredAt \in [1 .. MaxStarted -> 0 .. Never]
  BY ResolverAssumption DEF ResolverInv, ResolverTypes
<1>2. /\ k \in CacheKeys /\ c.n \in 1 .. started
      /\ \A q \in CacheKeys : inFlight'[q] = IF q = k THEN 0 ELSE inFlight[q]
      /\ \A n \in 1 .. MaxStarted : n # c.n => answeredAt'[n] = answeredAt[n]
  BY <1>0, SettlingKeepsCalls
<1> HIDE DEF k
<1>3. c.n \in 1 .. MaxStarted /\ Len(cache) <= CacheCap /\ now # Never
  BY <1>1, <1>2 DEF CacheTellsAnswers, Never
<1>4. /\ cache' \in Seq(Kept) /\ Len(cache') <= CacheCap
      /\ \A r \in ToSet(cache') : (r \in ToSet(cache) /\ r.key # k) \/ r = x
  BY <1>0, <1>1, <1>2, <1>3, SetKeeps
<1>5. x.key = k /\ x.n = c.n /\ x.expiresAt = now + Ttl
  OBVIOUS
<1> HIDE DEF x
<1>6. \A r, q \in ToSet(cache') : r.key = q.key => r = q
  BY <1>1, <1>4, <1>5 DEF CacheTellsAnswers
<1>7. ASSUME NEW r \in ToSet(cache'), r \in ToSet(cache), r.key # k
      PROVE  /\ r.n <= started /\ answeredAt'[r.n] # Never /\ r.expiresAt = answeredAt'[r.n] + Ttl
             /\ \A d \in calls' : d.n # r.n
             /\ inFlight'[r.key] # 0 => r.expiresAt <= now
  <2>1. r \in Kept
    BY <1>1, <1>7, ElementOfSeq DEF ToSet
  <2>2. r.n \in 1 .. MaxStarted /\ r.key \in CacheKeys
    BY <2>1 DEF Kept
  <2>3. c.n # r.n
    BY <1>1, <1>7 DEF CacheTellsAnswers
  <2>4. answeredAt'[r.n] = answeredAt[r.n] /\ inFlight'[r.key] = inFlight[r.key]
    BY <1>2, <1>7, <2>2, <2>3
  <2> QED  BY <1>0, <1>1, <1>7, <2>4 DEF CacheTellsAnswers
<1>8. /\ x.n <= started /\ answeredAt'[x.n] = now /\ x.expiresAt = now + Ttl
      /\ \A d \in calls' : d.n # x.n
      /\ inFlight'[x.key] = 0
  <2>1. answeredAt'[c.n] = now
    BY <1>0, <1>1, <1>3
  <2>2. \A d \in calls' : d.n # c.n
    BY <1>0, <1>1 DEF CallsAreRegistered
  <2> QED  BY <1>1, <1>2, <1>5, <2>1, <2>2
<1>9. CacheTellsAnswers'
  <2>1. ASSUME NEW r \in ToSet(cache')
        PROVE  /\ r.n <= started /\ answeredAt'[r.n] # Never /\ r.expiresAt = answeredAt'[r.n] + Ttl
               /\ \A d \in calls' : d.n # r.n
               /\ inFlight'[r.key] # 0 => r.expiresAt <= now
    <3>1. CASE r \in ToSet(cache) /\ r.key # k
      BY <1>7, <3>1
    <3>2. CASE r = x
      BY <1>3, <1>8, <3>2
    <3> QED  BY <1>4, <3>1, <3>2
  <2> QED  BY <1>0, <1>4, <1>6, <2>1 DEF CacheTellsAnswers, Never
<1> QED  BY <1>0, <1>4, <1>9, SettlingKeepsInv

-----------------------------------------------------------------------------
(* An entry is written.                                                    *)

\* What an entry with this context waits for.
NeedsOf(ctx) ==
    {<<v, IF v \in Fresh(ctx) THEN CallOf(ctx, v) ELSE inFlight[KeyOf(v)]>> : v \in Cold(ctx)}

\* It waits for lookups with numbers, and for all an older entry with its
\* context still waits for.
LEMMA NeedsFacts ==
    ASSUME ResolverInv, NEW ctx \in Contexts, started + Cardinality(Fresh(ctx)) <= MaxStarted
    PROVE  /\ NeedsOf(ctx) \in SUBSET (Values \X (1 .. MaxStarted))
           /\ \A p \in NeedsOf(ctx) : p[1] \in Cold(ctx)
           /\ \A x \in ToSet(waiting) : x.ctx = ctx => x.needs \subseteq NeedsOf(ctx)
           /\ NeedsOf(ctx) = {} => Cold(ctx) = {}
<1>0. /\ started \in 0 .. MaxStarted /\ MaxStarted \in Nat /\ started \in Nat
      /\ inFlight \in [CacheKeys -> 0 .. started]
      /\ CacheTellsAnswers /\ WaitingInOrder /\ waiting \in Seq(Entries)
      /\ now \in Nat /\ cache \in Seq(Kept)
  BY ResolverAssumption DEF ResolverInv, ResolverTypes
<1>1. ToSet(ctx) \subseteq Values
  BY ContextFacts
<1>2. /\ \A v \in Fresh(ctx) : CallOf(ctx, v) \in started + 1 .. started + Cardinality(Fresh(ctx))
      /\ Cardinality(Fresh(ctx)) \in Nat
  BY <1>0, CallNumbers
<1>3. ASSUME NEW v \in Cold(ctx)
      PROVE  /\ v \in Values
             /\ (IF v \in Fresh(ctx) THEN CallOf(ctx, v) ELSE inFlight[KeyOf(v)]) \in 1 .. MaxStarted
  <2>1. v \in Values /\ KeyOf(v) \in CacheKeys
    BY <1>1, KeysOfValues DEF Cold
  <2>2. CASE v \in Fresh(ctx)
    BY <1>0, <1>2, <2>1, <2>2
  <2>3. CASE v \notin Fresh(ctx)
    <3>1. inFlight[KeyOf(v)] # 0
      BY <2>3 DEF Fresh
    <3>2. inFlight[KeyOf(v)] \in 0 .. started
      BY <1>0, <2>1
    <3> QED  BY <1>0, <2>1, <2>3, <3>1, <3>2
  <2> QED  BY <2>2, <2>3
<1>4. NeedsOf(ctx) \in SUBSET (Values \X (1 .. MaxStarted))
  BY <1>3 DEF NeedsOf
<1>5. ASSUME NEW x \in ToSet(waiting), x.ctx = ctx, NEW p \in x.needs
      PROVE  p \in NeedsOf(ctx)
  <2>1. x \in Entries
    BY <1>0, ElementOfSeq DEF ToSet
  <2>2. p \in Values \X (1 .. MaxStarted)
    BY <2>1 DEF Entries
  <2>3. p = <<p[1], p[2]>> /\ p[1] \in Values /\ p[2] \in 1 .. MaxStarted
    BY <2>2
  <2>4. p[1] \in ToSet(ctx) /\ inFlight[KeyOf(p[1])] = p[2] /\ p[2] # 0
    BY <1>0, <1>5, <2>3 DEF WaitingInOrder
  <2>5. Live(KeyOf(p[1])) = {}
    <3>1. ASSUME NEW r \in ToSet(cache), r.key = KeyOf(p[1]) PROVE ~(r.expiresAt > now)
      <4>1. r.expiresAt <= now
        BY <1>0, <2>4, <3>1 DEF CacheTellsAnswers
      <4>2. r \in Kept
        BY <1>0, ElementOfSeq DEF ToSet
      <4>3. r.expiresAt \in Nat
        BY <4>2 DEF Kept
      <4> QED  BY <1>0, <4>1, <4>3
    <3> QED  BY <3>1 DEF Live
  <2>6. p[1] \in Cold(ctx) /\ p[1] \notin Fresh(ctx)
    BY <2>4, <2>5 DEF Cold, Fresh
  <2> QED  BY <2>3, <2>4, <2>6 DEF NeedsOf
<1>6. \A p \in NeedsOf(ctx) : p[1] \in Cold(ctx)
  BY DEF NeedsOf
<1>7. NeedsOf(ctx) = {} => Cold(ctx) = {}
  BY DEF NeedsOf
<1> QED  BY <1>4, <1>5, <1>6, <1>7

\* What is served from the cache was answered in time.
LEMMA WarmFacts ==
    ASSUME ResolverInv, NEW ctx \in Contexts
    PROVE  /\ Warm(ctx) \in SUBSET (Values \X (0 .. MaxStarted))
           /\ \A p \in Warm(ctx) : /\ p[2] \in 1 .. MaxStarted /\ answeredAt[p[2]] # Never
                                   /\ answeredAt[p[2]] + Ttl > now
<1>0. /\ MaxStarted \in Nat /\ CacheTellsAnswers /\ cache \in Seq(Kept)
  BY ResolverAssumption DEF ResolverInv, ResolverTypes
<1>1. ToSet(ctx) \subseteq Values
  BY ContextFacts
<1>2. ASSUME NEW p \in Warm(ctx)
      PROVE  /\ p \in Values \X (0 .. MaxStarted)
             /\ p[2] \in 1 .. MaxStarted /\ answeredAt[p[2]] # Never /\ answeredAt[p[2]] + Ttl > now
  <2>0. PICK v \in ToSet(ctx) : \E r \in Live(KeyOf(v)) : p = <<v, r.n>>
    BY DEF Warm
  <2>1. PICK r \in Live(KeyOf(v)) : p = <<v, r.n>>
    BY <2>0
  <2>2. r \in ToSet(cache) /\ r.expiresAt > now
    BY DEF Live
  <2>3. r \in Kept
    BY <1>0, <2>2, ElementOfSeq DEF ToSet
  <2>4. r.n \in 1 .. MaxStarted
    BY <2>3 DEF Kept
  <2>5. answeredAt[r.n] # Never /\ r.expiresAt = answeredAt[r.n] + Ttl
    BY <1>0, <2>2 DEF CacheTellsAnswers
  <2>6. p \in Values \X (0 .. MaxStarted) /\ p[2] = r.n
    BY <1>0, <1>1, <2>1, <2>4
  <2> QED  BY <2>2, <2>4, <2>5, <2>6
<1> QED  BY <1>2

\* The lookups an entry starts.
LEMMA WriteKeepsCalls ==
    ASSUME ResolverInv, NEW ctx \in Contexts, NEW throws, Write(ctx, throws)
    PROVE  /\ started' \in 0 .. MaxStarted /\ cache' \in Seq(Kept)
           /\ calls' \subseteq [n : 1 .. started', v : Values, live : BOOLEAN]
           /\ inFlight' \in [CacheKeys -> 0 .. started']
           /\ CallsAreRegistered' /\ CacheTellsAnswers'
           /\ \A k \in CacheKeys : inFlight[k] # 0 => inFlight'[k] = inFlight[k]
           /\ \A v \in Fresh(ctx) \ throws : inFlight'[KeyOf(v)] = CallOf(ctx, v)
<1> DEFINE F == Fresh(ctx)
           N == Cardinality(F)
           R == F \ throws
           number(v) == CallOf(ctx, v)
           call(v) == [n |-> number(v), v |-> v, live |-> TRUE]
<1>0. /\ started \in 0 .. MaxStarted /\ MaxStarted \in Nat /\ started \in Nat /\ now \in Nat
      /\ calls \subseteq [n : 1 .. started, v : Values, live : BOOLEAN]
      /\ inFlight \in [CacheKeys -> 0 .. started] /\ cache \in Seq(Kept)
      /\ CallsAreRegistered /\ CacheTellsAnswers
      /\ CacheCap \in Nat
  BY ResolverAssumption DEF ResolverInv, ResolverTypes
<1>1. /\ started + N <= MaxStarted /\ started' = started + N
      /\ cache' = AfterGets(ctx) /\ now' = now /\ answeredAt' = answeredAt
      /\ calls' = calls \cup {call(v) : v \in R}
      /\ inFlight' = [k \in CacheKeys |->
             IF \E v \in R : KeyOf(v) = k THEN CallOf(ctx, CHOOSE v \in R : KeyOf(v) = k) ELSE inFlight[k]]
  BY DEF Write
<1>2. /\ N \in Nat
      /\ \A v \in F : number(v) \in started + 1 .. started + N
      /\ \A u, v \in F : number(u) = number(v) => u = v
  BY <1>0, CallNumbers
<1>3. /\ \A v \in F : v \in Values /\ KeyOf(v) \in CacheKeys
      /\ \A u, v \in F : KeyOf(u) = KeyOf(v) => u = v
  BY ContextFacts, KeysOfValues DEF Fresh, Cold
<1>4. ASSUME NEW v \in F PROVE inFlight[KeyOf(v)] = 0 /\ Live(KeyOf(v)) = {}
  BY DEF Fresh, Cold
<1> HIDE DEF F, N, number
<1>5. ASSUME NEW v \in R PROVE inFlight'[KeyOf(v)] = number(v)
  <2>1. v \in F /\ KeyOf(v) \in CacheKeys
    BY <1>3
  <2>2. (CHOOSE u \in R : KeyOf(u) = KeyOf(v)) = v
    <3>1. \A u \in R : KeyOf(u) = KeyOf(v) => u = v
      BY <1>3
    <3> QED  BY <3>1
  <2>3. inFlight'[KeyOf(v)] = CallOf(ctx, CHOOSE u \in R : KeyOf(u) = KeyOf(v))
    BY <1>1, <2>1
  <2> QED  BY <2>2, <2>3 DEF number
<1>6. ASSUME NEW k \in CacheKeys, ~ \E v \in R : KeyOf(v) = k PROVE inFlight'[k] = inFlight[k]
  BY <1>1, <1>6
<1>7. ASSUME NEW k \in CacheKeys, inFlight[k] # 0 PROVE inFlight'[k] = inFlight[k]
  BY <1>4, <1>6, <1>7
<1>8. started' \in 0 .. MaxStarted /\ started' \in Nat /\ started <= started'
  BY <1>0, <1>1, <1>2
<1>9. inFlight' \in [CacheKeys -> 0 .. started']
  <2>1. ASSUME NEW k \in CacheKeys PROVE inFlight'[k] \in 0 .. started'
    <3>1. CASE \E v \in R : KeyOf(v) = k
      <4>1. PICK v \in R : KeyOf(v) = k
        BY <3>1
      <4>2. inFlight'[k] = number(v) /\ number(v) \in started + 1 .. started + N
        BY <1>2, <1>5, <4>1
      <4> QED  BY <1>0, <1>1, <1>2, <4>2
    <3>2. CASE ~ \E v \in R : KeyOf(v) = k
      <4>1. inFlight[k] \in 0 .. started /\ inFlight'[k] = inFlight[k]
        BY <1>0, <1>6, <3>2
      <4> QED  BY <1>0, <1>8, <4>1
    <3> QED  BY <3>1, <3>2
  <2>2. inFlight' = [k \in CacheKeys |-> inFlight'[k]]
    BY <1>1
  <2> QED  BY <2>1, <2>2
<1>10. ASSUME NEW d \in calls' PROVE d \in calls \/ \E v \in R : d = call(v)
  BY <1>1
<1>11. ASSUME NEW v \in R
       PROVE  /\ call(v).n = number(v) /\ call(v).v = v /\ call(v).n \in 1 .. started'
              /\ call(v).n > started /\ call(v) \in [n : 1 .. started', v : Values, live : BOOLEAN]
  <2>1. number(v) \in 1 .. started' /\ number(v) > started /\ v \in Values
    BY <1>0, <1>1, <1>2, <1>3
  <2> QED  BY <2>1
<1>12. ASSUME NEW d \in calls
       PROVE  d.n \in 1 .. started /\ d \in [n : 1 .. started', v : Values, live : BOOLEAN]
              /\ KeyOf(d.v) \in CacheKeys
  <2>1. d \in [n : 1 .. started, v : Values, live : BOOLEAN]
    BY <1>0
  <2>2. d.n \in 1 .. started /\ d.v \in Values /\ 1 .. started \subseteq 1 .. started'
    BY <1>0, <1>8, <2>1
  <2> QED  BY <2>1, <2>2, KeysOfValues
<1>13. calls' \subseteq [n : 1 .. started', v : Values, live : BOOLEAN]
  <2> HIDE DEF call
  <2> QED  BY <1>10, <1>11, <1>12
<1>14. CallsAreRegistered'
  <2>1. ASSUME NEW d \in calls', d.live PROVE inFlight'[KeyOf(d.v)] = d.n
    <3>1. CASE d \in calls
      <4>1. inFlight[KeyOf(d.v)] = d.n /\ d.n # 0
        BY <1>0, <1>12, <2>1, <3>1 DEF CallsAreRegistered
      <4> QED  BY <1>7, <1>12, <3>1, <4>1
    <3>2. CASE \E v \in R : d = call(v)
      <4>1. PICK v \in R : d = call(v)
        BY <3>2
      <4>2. d.v = v /\ d.n = number(v)
        BY <1>11, <4>1
      <4> QED  BY <1>5, <4>2
    <3> QED  BY <1>10, <3>1, <3>2
  <2>2. ASSUME NEW d \in calls', NEW e \in calls', d.n = e.n PROVE d = e
    <3>1. CASE d \in calls /\ e \in calls
      BY <1>0, <2>2, <3>1 DEF CallsAreRegistered
    <3>2. ASSUME NEW a \in calls, NEW v \in R PROVE a.n # call(v).n
      BY <1>0, <1>11, <1>12
    <3>3. ASSUME NEW u \in R, NEW v \in R, call(u).n = call(v).n PROVE call(u) = call(v)
      <4>1. number(u) = number(v)
        BY <1>11, <3>3
      <4> QED  BY <1>2, <4>1
    <3> HIDE DEF call
    <3> QED  BY <1>10, <2>2, <3>1, <3>2, <3>3
  <2> QED  BY <2>1, <2>2 DEF CallsAreRegistered
<1>15. /\ cache' \in Seq(Kept) /\ Len(cache') <= Len(cache)
       /\ \A r \in ToSet(cache') : r \in ToSet(cache)
  BY <1>0, <1>1, GetsKeep
<1>16. CacheTellsAnswers'
  <2>1. Len(cache') <= CacheCap /\ \A r, q \in ToSet(cache') : r.key = q.key => r = q
    <3>1. Len(cache) <= CacheCap /\ Len(cache) \in Nat /\ Len(cache') \in Nat
      BY <1>0, <1>15, LenProperties DEF CacheTellsAnswers
    <3> QED  BY <1>0, <1>15, <3>1 DEF CacheTellsAnswers
  <2>2. ASSUME NEW r \in ToSet(cache')
        PROVE  /\ r.n <= started' /\ answeredAt[r.n] # Never /\ r.expiresAt = answeredAt[r.n] + Ttl
               /\ \A d \in calls' : d.n # r.n
               /\ inFlight'[r.key] # 0 => r.expiresAt <= now
    <3>1. /\ r \in ToSet(cache) /\ r.n <= started /\ answeredAt[r.n] # Never
          /\ r.expiresAt = answeredAt[r.n] + Ttl
          /\ \A d \in calls : d.n # r.n
          /\ inFlight[r.key] # 0 => r.expiresAt <= now
      BY <1>0, <1>15 DEF CacheTellsAnswers
    <3>2. r \in Kept
      BY <1>0, <3>1, ElementOfSeq DEF ToSet
    <3>3. r.key \in CacheKeys /\ r.n \in Nat /\ r.expiresAt \in Nat
      BY <1>0, <3>2 DEF Kept
    <3>4. ASSUME NEW v \in R PROVE call(v).n # r.n
      BY <1>0, <1>11, <3>1, <3>3
    <3>5. \A d \in calls' : d.n # r.n
      <4> HIDE DEF call
      <4> QED  BY <1>10, <3>1, <3>4
    <3>6. ASSUME inFlight'[r.key] # 0 PROVE r.expiresAt <= now
      <4>1. CASE inFlight[r.key] # 0
        BY <3>1, <4>1
      <4>2. CASE inFlight[r.key] = 0
        <5>1. PICK v \in R : KeyOf(v) = r.key
          BY <1>6, <3>3, <3>6, <4>2
        <5>2. r \notin Live(KeyOf(v))
          BY <1>4, <5>1
        <5>3. ~(r.expiresAt > now)
          BY <3>1, <5>1, <5>2 DEF Live
        <5> QED  BY <1>0, <3>3, <5>3
      <4> QED  BY <4>1, <4>2
    <3> QED  BY <1>0, <1>8, <3>1, <3>3, <3>5, <3>6
  <2> QED  BY <1>1, <2>1, <2>2 DEF CacheTellsAnswers, Never
<1> QED  BY <1>5, <1>7, <1>8, <1>9, <1>13, <1>14, <1>15, <1>16 DEF F, number

\* The entry itself.
LEMMA WriteKeepsOrder ==
    ASSUME ResolverInv, NEW ctx \in Contexts, NEW throws, Write(ctx, throws)
    PROVE  /\ waiting' \in Seq(Entries) /\ delivered' \in Seq(Entries)
           /\ WaitingInOrder' /\ DeliveredFirst' /\ SameContextInOrder' /\ NoLateAnswers'
           /\ \A x \in ToSet(waiting') : x \in ToSet(waiting) \/ x.entry = offered + 1
<1> DEFINE needs == NeedsOf(ctx)
           thrown == Entry(ctx, needs, {})
           fresh == Entry(ctx, {}, Warm(ctx))
           held == Entry(ctx, needs, Warm(ctx))
<1>0. /\ waiting \in Seq(Entries) /\ delivered \in Seq(Entries) /\ offered \in Nat
      /\ inFlight \in [CacheKeys -> 0 .. started] /\ started \in Nat /\ MaxStarted \in Nat
      /\ WaitingInOrder /\ DeliveredFirst /\ SameContextInOrder /\ NoLateAnswers
  BY ResolverAssumption DEF ResolverInv, ResolverTypes
<1>1. /\ offered' = offered + 1 /\ answeredAt' = answeredAt
      /\ started + Cardinality(Fresh(ctx)) <= MaxStarted /\ throws \subseteq Fresh(ctx)
      /\ \/ throws # {} /\ delivered' = Append(delivered, thrown) /\ waiting' = waiting
         \/ needs = {} /\ delivered' = Append(delivered, fresh) /\ waiting' = waiting
         \/ throws = {} /\ needs # {} /\ waiting' = Append(waiting, held) /\ delivered' = delivered
  BY DEF Write, NeedsOf
<1>2. /\ needs \in SUBSET (Values \X (1 .. MaxStarted))
      /\ \A p \in needs : p[1] \in Cold(ctx)
      /\ \A x \in ToSet(waiting) : x.ctx = ctx => x.needs \subseteq needs
      /\ needs = {} => Cold(ctx) = {}
  BY <1>1, NeedsFacts
<1>3. /\ Warm(ctx) \in SUBSET (Values \X (0 .. MaxStarted))
      /\ \A p \in Warm(ctx) : answeredAt[p[2]] # Never
  BY WarmFacts
<1>4. /\ \A k \in CacheKeys : inFlight[k] # 0 => inFlight'[k] = inFlight[k]
      /\ \A v \in Fresh(ctx) \ throws : inFlight'[KeyOf(v)] = CallOf(ctx, v)
  BY WriteKeepsCalls
<1>5. ToSet(ctx) \subseteq Values /\ Cold(ctx) \subseteq ToSet(ctx) /\ Fresh(ctx) \subseteq Cold(ctx)
  BY ContextFacts DEF Cold, Fresh
<1>6. /\ thrown.entry = offered + 1 /\ thrown.ctx = ctx /\ thrown.needs = needs /\ thrown.fields = {}
      /\ fresh.entry = offered + 1 /\ fresh.ctx = ctx /\ fresh.needs = {} /\ fresh.fields = Warm(ctx)
      /\ held.entry = offered + 1 /\ held.ctx = ctx /\ held.needs = needs /\ held.fields = Warm(ctx)
  BY DEF Entry
<1>7. thrown \in Entries /\ fresh \in Entries /\ held \in Entries
  <2> HIDE DEF needs
  <2> QED  BY <1>0, <1>2, <1>3 DEF Entry, Entries
<1> HIDE DEF needs, thrown, fresh, held
<1>8. /\ \A x \in ToSet(waiting) : x \in Entries /\ x.entry \in 1 .. offered /\ x.entry < offered + 1
      /\ \A d \in ToSet(delivered) : d \in Entries /\ d.entry < offered + 1
  <2>1. /\ \A x \in ToSet(waiting) : x \in Entries /\ x.entry \in 1 .. offered
        /\ \A d \in ToSet(delivered) : d \in Entries /\ d.entry <= offered
    BY <1>0, ElementOfSeq DEF ToSet, WaitingInOrder, DeliveredFirst
  <2>2. \A d \in Entries : d.entry \in Nat
    BY DEF Entries
  <2> QED  BY <1>0, <2>1, <2>2
\* Delivered at once.
<1>9. ASSUME NEW e \in {thrown, fresh}, delivered' = Append(delivered, e), waiting' = waiting,
             Threw(e) \/ needs = {}
      PROVE  /\ delivered' \in Seq(Entries)
             /\ WaitingInOrder' /\ DeliveredFirst' /\ SameContextInOrder' /\ NoLateAnswers'
  <2>1. /\ e \in Entries /\ e.entry = offered + 1 /\ e.ctx = ctx
        /\ \A p \in e.fields : answeredAt[p[2]] # Never
    BY <1>3, <1>6, <1>7
  <2>2. /\ delivered' \in Seq(Entries) /\ ToSet(delivered') = ToSet(delivered) \cup {e}
        /\ \A i, j \in DOMAIN delivered' : i < j =>
              \/ /\ i \in DOMAIN delivered /\ j \in DOMAIN delivered
                 /\ delivered'[i] = delivered[i] /\ delivered'[j] = delivered[j]
              \/ delivered'[i] \in ToSet(delivered) /\ delivered'[j] = e
    BY <1>0, <1>9, <2>1, AppendFacts
  <2>3. ASSUME NEW x \in ToSet(waiting), NEW p \in x.needs PROVE inFlight'[KeyOf(p[1])] = p[2]
    <3>1. inFlight[KeyOf(p[1])] = p[2]
      BY <1>0 DEF WaitingInOrder
    <3>2. x \in Entries
      BY <1>8
    <3>3. p[1] \in Values /\ p[2] # 0
      BY <1>0, <3>2 DEF Entries
    <3> QED  BY <1>4, <3>1, <3>3, KeysOfValues
  <2>4. WaitingInOrder'
    <3>1. \A x \in ToSet(waiting) : x.entry \in 1 .. offered'
      BY <1>0, <1>1, <1>8
    <3> QED  BY <1>0, <1>9, <2>3, <3>1 DEF WaitingInOrder
  <2>5. DeliveredFirst'
    <3>1. ASSUME NEW d \in ToSet(delivered') 
          PROVE  /\ d.entry <= offered + 1
                 /\ \A x \in ToSet(waiting) : d.ctx = x.ctx /\ ~Threw(d) => d.entry < x.entry
      <4>1. CASE d \in ToSet(delivered)
        <5>1. d.entry <= offered /\ d \in Entries
          BY <1>0, <1>8, <4>1 DEF DeliveredFirst
        <5>2. d.entry \in Nat
          BY <5>1 DEF Entries
        <5> QED  BY <1>0, <4>1, <5>1, <5>2 DEF DeliveredFirst
      <4>2. CASE d = e
        <5>1. ASSUME NEW x \in ToSet(waiting), d.ctx = x.ctx, ~Threw(d) PROVE FALSE
          <6>1. x.needs \subseteq needs /\ needs = {}
            BY <1>2, <1>9, <2>1, <4>2, <5>1
          <6>2. x.needs # {}
            BY <1>0 DEF WaitingInOrder
          <6> QED  BY <6>1, <6>2
        <5> QED  BY <1>0, <2>1, <4>2, <5>1
      <4> QED  BY <2>2, <4>1, <4>2
    <3> QED  BY <1>1, <1>9, <3>1 DEF DeliveredFirst, Threw
  <2>6. SameContextInOrder'
    <3> SUFFICES ASSUME NEW i \in DOMAIN delivered', NEW j \in DOMAIN delivered', i < j,
                        delivered'[i].ctx = delivered'[j].ctx, ~Threw(delivered'[i])
                 PROVE  delivered'[i].entry < delivered'[j].entry
      BY DEF SameContextInOrder, Threw
    <3>1. CASE /\ i \in DOMAIN delivered /\ j \in DOMAIN delivered
               /\ delivered'[i] = delivered[i] /\ delivered'[j] = delivered[j]
      BY <1>0, <3>1 DEF SameContextInOrder
    <3>2. CASE delivered'[i] \in ToSet(delivered) /\ delivered'[j] = e
      BY <1>8, <2>1, <3>2
    <3> QED  BY <2>2, <3>1, <3>2
  <2>7. NoLateAnswers'
    BY <1>0, <1>1, <1>9, <2>1, <2>2 DEF NoLateAnswers, Never
  <2> QED  BY <2>2, <2>4, <2>5, <2>6, <2>7
\* Held until its lookups are over.
<1>10. ASSUME throws = {}, needs # {}, waiting' = Append(waiting, held), delivered' = delivered
       PROVE  /\ waiting' \in Seq(Entries)
              /\ WaitingInOrder' /\ DeliveredFirst' /\ SameContextInOrder' /\ NoLateAnswers'
              /\ ToSet(waiting') = ToSet(waiting) \cup {held}
  <2>1. /\ waiting' \in Seq(Entries) /\ ToSet(waiting') = ToSet(waiting) \cup {held}
        /\ \A i, j \in DOMAIN waiting' : i < j =>
              \/ /\ i \in DOMAIN waiting /\ j \in DOMAIN waiting
                 /\ waiting'[i] = waiting[i] /\ waiting'[j] = waiting[j]
              \/ waiting'[i] \in ToSet(waiting) /\ waiting'[j] = held
    BY <1>0, <1>7, <1>10, AppendFacts
  <2>2. ASSUME NEW x \in ToSet(waiting), NEW p \in x.needs
        PROVE  p[1] \in ToSet(x.ctx) /\ inFlight'[KeyOf(p[1])] = p[2]
    <3>1. p[1] \in ToSet(x.ctx) /\ inFlight[KeyOf(p[1])] = p[2]
      BY <1>0 DEF WaitingInOrder
    <3>2. x \in Entries
      BY <1>8
    <3>3. p[1] \in Values /\ p[2] # 0
      BY <1>0, <3>2 DEF Entries
    <3> QED  BY <1>4, <3>1, <3>3, KeysOfValues
  <2>3. ASSUME NEW p \in needs PROVE p[1] \in ToSet(ctx) /\ inFlight'[KeyOf(p[1])] = p[2]
    <3>1. PICK v \in Cold(ctx) :
             p = <<v, IF v \in Fresh(ctx) THEN CallOf(ctx, v) ELSE inFlight[KeyOf(v)]>>
      BY DEF needs, NeedsOf
    <3>2. p[1] = v /\ v \in ToSet(ctx) /\ KeyOf(v) \in CacheKeys
      BY <1>5, <3>1, KeysOfValues
    <3>3. CASE v \in Fresh(ctx)
      BY <1>4, <1>10, <3>1, <3>2, <3>3
    <3>4. CASE v \notin Fresh(ctx)
      <4>1. inFlight[KeyOf(v)] # 0
        BY <3>4 DEF Fresh
      <4> QED  BY <1>4, <3>1, <3>2, <3>4, <4>1
    <3> QED  BY <3>3, <3>4
  <2>4. WaitingInOrder'
    <3>1. \A i, j \in DOMAIN waiting' : i < j => waiting'[i].entry < waiting'[j].entry
      BY <1>0, <1>6, <1>8, <2>1 DEF WaitingInOrder
    <3>2. ASSUME NEW x \in ToSet(waiting')
          PROVE  /\ x.entry \in 1 .. offered' /\ x.needs # {}
                 /\ \A p \in x.needs : p[1] \in ToSet(x.ctx) /\ inFlight'[KeyOf(p[1])] = p[2]
      <4>1. CASE x \in ToSet(waiting)
        <5>1. x.entry \in 1 .. offered' /\ x.needs # {}
          BY <1>0, <1>1, <1>8, <4>1, SMTT(20) DEF WaitingInOrder
        <5> QED  BY <2>2, <4>1, <5>1
      <4>2. CASE x = held
        <5>1. x.entry \in 1 .. offered'
          BY <1>0, <1>1, <1>6, <4>2
        <5> QED  BY <1>6, <1>10, <2>3, <4>2, <5>1
      <4> QED  BY <2>1, <4>1, <4>2
    <3>3. ASSUME NEW x \in ToSet(waiting'), NEW y \in ToSet(waiting'), x.ctx = y.ctx, x.entry < y.entry
          PROVE  x.needs \subseteq y.needs
      <4>1. CASE x \in ToSet(waiting) /\ y \in ToSet(waiting)
        BY <1>0, <3>3, <4>1 DEF WaitingInOrder
      <4>2. CASE x \in ToSet(waiting) /\ y = held
        BY <1>2, <1>6, <3>3, <4>2
      <4>3. CASE x = held
        <5>1. ~(x.entry < y.entry)
          BY <1>0, <1>6, <1>8, <2>1, <4>3
        <5> QED  BY <3>3, <5>1
      <4> QED  BY <2>1, <4>1, <4>2, <4>3
    <3> QED  BY <3>1, <3>2, <3>3 DEF WaitingInOrder
  <2>5. DeliveredFirst'
    <3>1. ASSUME NEW d \in ToSet(delivered)
          PROVE  /\ d.entry <= offered + 1
                 /\ \A x \in ToSet(waiting') : d.ctx = x.ctx /\ ~Threw(d) => d.entry < x.entry
      <4>1. d.entry <= offered /\ d.entry < offered + 1 /\ d \in Entries
        BY <1>0, <1>8 DEF DeliveredFirst
      <4>2. d.entry \in Nat
        BY <4>1 DEF Entries
      <4>3. ASSUME NEW x \in ToSet(waiting'), d.ctx = x.ctx, ~Threw(d) PROVE d.entry < x.entry
        <5>1. CASE x \in ToSet(waiting)
          BY <1>0, <4>3, <5>1 DEF DeliveredFirst
        <5>2. CASE x = held
          BY <1>6, <4>1, <5>2
        <5> QED  BY <2>1, <5>1, <5>2
      <4> QED  BY <1>0, <4>1, <4>2, <4>3
    <3> QED  BY <1>1, <1>10, <3>1 DEF DeliveredFirst, Threw
  <2>6. SameContextInOrder'
    BY <1>0, <1>10 DEF SameContextInOrder, Threw
  <2>7. NoLateAnswers'
    BY <1>0, <1>1, <1>3, <1>6, <1>10, <2>1 DEF NoLateAnswers, Never
  <2> QED  BY <2>1, <2>4, <2>5, <2>6, <2>7
<1>11. CASE throws # {} /\ delivered' = Append(delivered, thrown) /\ waiting' = waiting
  <2>1. Threw(thrown)
    <3>1. Cold(ctx) # {}
      BY <1>1, <1>5, <1>11
    <3> QED  BY <1>2, <1>6, <3>1 DEF Threw
  <2> QED  BY <1>0, <1>9, <1>11, <2>1
<1>12. CASE needs = {} /\ delivered' = Append(delivered, fresh) /\ waiting' = waiting
  BY <1>0, <1>9, <1>12
<1>13. CASE throws = {} /\ needs # {} /\ waiting' = Append(waiting, held) /\ delivered' = delivered
  BY <1>0, <1>6, <1>10, <1>13
<1> QED  BY <1>1, <1>11, <1>12, <1>13

-----------------------------------------------------------------------------
(* The invariant and what follows from it.                                 *)

\* Writing an entry.
LEMMA WriteKeepsInv ==
    ASSUME ResolverInv, NEW ctx \in Contexts, NEW throws, Write(ctx, throws)
    PROVE  ResolverInv'
<1>0. /\ ResolverTypes /\ IdleCovers /\ offered' = offered + 1 /\ offered < MaxEntries
      /\ started \in Nat /\ started <= started' /\ offered \in Nat /\ MaxEntries \in Nat
      /\ UNCHANGED <<now, answeredAt, idle>>
  <2>1. started \in Nat /\ Cardinality(Fresh(ctx)) \in Nat
    BY ResolverAssumption, CallNumbers DEF ResolverInv, ResolverTypes
  <2>2. started' = started + Cardinality(Fresh(ctx))
    BY DEF Write
  <2>3. /\ offered' = offered + 1 /\ offered < MaxEntries /\ UNCHANGED <<now, answeredAt, idle>>
    BY DEF Write
  <2> QED  BY <2>1, <2>2, <2>3, ResolverAssumption, SMTT(20) DEF ResolverInv, ResolverTypes
<1>1. /\ started' \in 0 .. MaxStarted /\ cache' \in Seq(Kept)
      /\ calls' \subseteq [n : 1 .. started', v : Values, live : BOOLEAN]
      /\ inFlight' \in [CacheKeys -> 0 .. started']
      /\ CallsAreRegistered' /\ CacheTellsAnswers'
  BY WriteKeepsCalls
<1>2. /\ waiting' \in Seq(Entries) /\ delivered' \in Seq(Entries)
      /\ WaitingInOrder' /\ DeliveredFirst' /\ SameContextInOrder' /\ NoLateAnswers'
      /\ \A x \in ToSet(waiting') : x \in ToSet(waiting) \/ x.entry = offered + 1
  BY WriteKeepsOrder
<1>3. ASSUME NEW w \in idle
      PROVE  /\ w \in [on : (SUBSET (1 .. started')) \ {{}}, upTo : 0 .. offered']
             /\ w.upTo < offered + 1
  <2>1. w \in [on : (SUBSET (1 .. started)) \ {{}}, upTo : 0 .. offered]
    BY <1>0 DEF ResolverTypes
  <2>2. 1 .. started \subseteq 1 .. started' /\ 0 .. offered \subseteq 0 .. offered'
    BY <1>0, <1>1
  <2> QED  BY <1>0, <2>1, <2>2
<1>4. ResolverTypes'
  <2>1. idle' \subseteq [on : (SUBSET (1 .. started')) \ {{}}, upTo : 0 .. offered']
    BY <1>0, <1>3
  <2>2. offered' \in 0 .. MaxEntries /\ now' \in 0 .. MaxTime
        /\ answeredAt' \in [1 .. MaxStarted -> 0 .. Never]
    BY <1>0 DEF ResolverTypes
  <2> QED  BY <1>1, <1>2, <2>1, <2>2 DEF ResolverTypes, Never
<1>5. IdleCovers'
  <2>1. ASSUME NEW w \in idle, NEW x \in ToSet(waiting'), x.entry <= w.upTo
        PROVE  \A p \in x.needs : p[2] \in w.on
    <3>1. w.upTo \in Nat
      BY <1>0 DEF ResolverTypes
    <3>2. x.entry # offered + 1
      BY <1>0, <1>3, <2>1, <3>1
    <3> QED  BY <1>0, <1>2, <2>1, <3>2 DEF IdleCovers
  <2> QED  BY <1>0, <2>1 DEF IdleCovers
<1> QED  BY <1>1, <1>2, <1>4, <1>5 DEF ResolverInv

\* waitForIdle() is called.
LEMMA WaitForIdleKeepsInv ==
    ASSUME ResolverInv, WaitForIdle
    PROVE  ResolverInv'
<1> DEFINE active == {inFlight[k] : k \in CacheKeys} \ {0}
           w == [on |-> active, upTo |-> offered]
<1>0. /\ active # {} /\ idle' = idle \cup {w}
      /\ UNCHANGED <<now, offered, delivered, waiting, cache, started, calls, inFlight, answeredAt>>
  BY DEF WaitForIdle
<1>1. /\ ResolverTypes /\ CallsAreRegistered /\ CacheTellsAnswers /\ WaitingInOrder
      /\ DeliveredFirst /\ IdleCovers /\ NoLateAnswers /\ SameContextInOrder
      /\ inFlight \in [CacheKeys -> 0 .. started] /\ started \in Nat /\ offered \in Nat
      /\ waiting \in Seq(Entries)
  BY ResolverAssumption DEF ResolverInv, ResolverTypes
<1>2. active \in (SUBSET (1 .. started)) \ {{}}
  <2>1. active \subseteq 1 .. started
    BY <1>1
  <2> QED  BY <1>0, <2>1
<1>3. w.on = active /\ w.upTo = offered
      /\ w \in [on : (SUBSET (1 .. started)) \ {{}}, upTo : 0 .. offered]
  <2> HIDE DEF active
  <2> QED  BY <1>1, <1>2
<1>4. ASSUME NEW x \in ToSet(waiting), NEW p \in x.needs PROVE p[2] \in active
  <2>1. x \in Entries
    BY <1>1, ElementOfSeq DEF ToSet
  <2>2. p[1] \in Values /\ p[2] \in 1 .. MaxStarted
    BY <2>1 DEF Entries
  <2>3. inFlight[KeyOf(p[1])] = p[2] /\ KeyOf(p[1]) \in CacheKeys /\ p[2] # 0
    BY <1>1, <2>2, KeysOfValues DEF WaitingInOrder
  <2> QED  BY <2>3
<1> HIDE DEF w, active
<1>5. ResolverTypes'
  BY <1>0, <1>1, <1>3 DEF ResolverTypes, Never
<1>6. IdleCovers'
  BY <1>0, <1>1, <1>3, <1>4 DEF IdleCovers
<1>7. CallsAreRegistered' /\ CacheTellsAnswers' /\ WaitingInOrder'
  BY <1>0, <1>1 DEF CallsAreRegistered, CacheTellsAnswers, WaitingInOrder, Never
<1>8. DeliveredFirst' /\ NoLateAnswers' /\ SameContextInOrder'
  BY <1>0, <1>1 DEF DeliveredFirst, NoLateAnswers, SameContextInOrder, Threw, Never
<1> QED  BY <1>5, <1>6, <1>7, <1>8 DEF ResolverInv

\* Time passes, or an answer comes too late.
LEMMA OthersKeepInv ==
    ASSUME ResolverInv, Tick \/ \E c \in calls : LateAnswer(c)
    PROVE  ResolverInv'
<1>0. /\ UNCHANGED <<offered, delivered, waiting, cache, started, inFlight, answeredAt, idle>>
      /\ calls' \subseteq calls
      /\ now' \in 0 .. MaxTime /\ now' \in Nat /\ now <= now' /\ now \in Nat
  <2>1. now \in 0 .. MaxTime /\ MaxTime \in Nat
    BY ResolverAssumption DEF ResolverInv, ResolverTypes
  <2> QED  BY <2>1 DEF Tick, LateAnswer
<1>1. /\ ResolverTypes /\ CallsAreRegistered /\ CacheTellsAnswers /\ WaitingInOrder
      /\ DeliveredFirst /\ IdleCovers /\ NoLateAnswers /\ SameContextInOrder /\ cache \in Seq(Kept)
  BY DEF ResolverInv, ResolverTypes
<1>2. ResolverTypes'
  BY <1>0, <1>1 DEF ResolverTypes, Never
<1>3. CacheTellsAnswers'
  <2>1. ASSUME NEW r \in ToSet(cache), inFlight[r.key] # 0 PROVE r.expiresAt <= now'
    <3>1. r.expiresAt <= now
      BY <1>1, <2>1 DEF CacheTellsAnswers
    <3>2. r \in Kept
      BY <1>1, ElementOfSeq DEF ToSet
    <3>3. r.expiresAt \in Nat
      BY <3>2 DEF Kept
    <3> QED  BY <1>0, <3>1, <3>3
  <2> QED  BY <1>0, <1>1, <2>1 DEF CacheTellsAnswers, Never
<1>4. CallsAreRegistered' /\ WaitingInOrder' /\ IdleCovers'
  BY <1>0, <1>1 DEF CallsAreRegistered, WaitingInOrder, IdleCovers
<1>5. DeliveredFirst' /\ NoLateAnswers' /\ SameContextInOrder'
  BY <1>0, <1>1 DEF DeliveredFirst, NoLateAnswers, SameContextInOrder, Threw, Never
<1> QED  BY <1>2, <1>3, <1>4, <1>5 DEF ResolverInv

\* The steps, the ones that settle a lookup together.
LEMMA NextCases ==
    ASSUME Next
    PROVE  \/ \E ctx \in Contexts : \E throws \in SUBSET ToSet(ctx) : Write(ctx, throws)
           \/ \E c \in calls : Answer(c)
           \/ \E c \in calls : \E fields \in {{}, MarkOr({0})} : NoAnswer(c, fields)
           \/ \E c \in calls : Timeout(c)
           \/ WaitForIdle
           \/ Tick \/ \E c \in calls : LateAnswer(c)
BY DEF Next

\* Nothing was written.
LEMMA InvHoldsFirst == Init => ResolverInv
<1> SUFFICES ASSUME Init PROVE ResolverInv
  OBVIOUS
<1>0. /\ now = 0 /\ offered = 0 /\ delivered = <<>> /\ waiting = <<>> /\ cache = <<>>
      /\ started = 0 /\ calls = {} /\ inFlight = [k \in CacheKeys |-> 0]
      /\ answeredAt = [n \in 1 .. MaxStarted |-> Never] /\ idle = {}
      /\ {Ttl, MaxEntries, MaxStarted, MaxIdle, MaxTime} \subseteq Nat /\ CacheCap \in Nat
  BY ResolverAssumption DEF Init
<1>1. ToSet(<<>>) = {} /\ DOMAIN <<>> = {} /\ Len(<<>>) = 0
  BY DEF ToSet
<1>2. ResolverTypes
  <2>1. Never \in 0 .. Never
    BY <1>0 DEF Never
  <2> QED  BY <1>0, <2>1 DEF ResolverTypes
<1> QED  BY <1>0, <1>1, <1>2 DEF ResolverInv, CallsAreRegistered, CacheTellsAnswers, WaitingInOrder,
              DeliveredFirst, IdleCovers, NoLateAnswers, SameContextInOrder

\* The invariant is inductive.
LEMMA StepKeepsInv == ResolverInv /\ [Next]_vars => ResolverInv'
<1> SUFFICES ASSUME ResolverInv, [Next]_vars PROVE ResolverInv'
  OBVIOUS
<1>1. CASE \E ctx \in Contexts : \E throws \in SUBSET ToSet(ctx) : Write(ctx, throws)
  BY <1>1, WriteKeepsInv
<1>2. CASE \E c \in calls : Answer(c)
  BY <1>2, AnswerKeepsInv
<1>3. ASSUME NEW c \in calls, NEW fields, Settling(c, fields), UNCHANGED <<cache, answeredAt>>
      PROVE  ResolverInv'
  <2>1. CacheTellsAnswers'
    BY <1>3, SettlingKeepsCache
  <2>2. cache' \in Seq(Kept)
    BY <1>3 DEF ResolverInv, ResolverTypes
  <2> QED  BY <1>3, <2>1, <2>2, SettlingKeepsInv
<1>4. CASE \E c \in calls : \E fields \in {{}, MarkOr({0})} : NoAnswer(c, fields)
  <2>1. PICK c \in calls, fields \in {{}, MarkOr({0})} : NoAnswer(c, fields)
    BY <1>4
  <2>2. Settling(c, fields) /\ UNCHANGED <<cache, answeredAt>>
    BY <2>1, SettlingSteps DEF NoAnswer
  <2> QED  BY <1>3, <2>2
<1>5. CASE \E c \in calls : Timeout(c)
  <2>1. PICK c \in calls : Timeout(c)
    BY <1>5
  <2>2. Settling(c, MarkOr({0})) /\ UNCHANGED <<cache, answeredAt>>
    BY <2>1, SettlingSteps DEF Timeout
  <2> QED  BY <1>3, <2>2
<1>6. CASE WaitForIdle
  BY <1>6, WaitForIdleKeepsInv
<1>7. CASE Tick \/ \E c \in calls : LateAnswer(c)
  BY <1>7, OthersKeepInv
<1>8. CASE UNCHANGED vars
  BY <1>8 DEF vars, ResolverInv, ResolverTypes, CallsAreRegistered, CacheTellsAnswers, WaitingInOrder,
              DeliveredFirst, IdleCovers, NoLateAnswers, SameContextInOrder, Threw, Never
<1> QED  BY <1>1, <1>2, <1>4, <1>5, <1>6, <1>7, <1>8, NextCases

\* The invariant of resolve(), its cache and the entries that wait for it.
THEOREM ResolverInvariant == Spec => []ResolverInv
<1> QED  BY InvHoldsFirst, StepKeepsInv, PTL DEF Spec

\* A cache that is bounded and holds a key once, one call that counts for a key,
\* no wait that waitForIdle() would miss, no answer that counts after its deadline.
THEOREM LookupsConsistentCorrect == Spec => []LookupsConsistent
<1>1. ResolverInv => LookupsConsistent
  <2> SUFFICES ASSUME ResolverInv PROVE LookupsConsistent
    OBVIOUS
  <2>1. TypeOK
    BY DEF ResolverInv, ResolverTypes, WaitingInOrder, CacheTellsAnswers, TypeOK
  <2>2. OneLookupPerKey
    BY DEF ResolverInv, CallsAreRegistered, OneLookupPerKey
  <2>3. WaitsAreRegistered
    BY DEF ResolverInv, WaitingInOrder, WaitsAreRegistered
  <2> QED  BY <2>1, <2>2, <2>3 DEF LookupsConsistent, ResolverInv
<1> QED  BY <1>1, ResolverInvariant, PTL

\* Entries with one context reach the dispatcher in the order they were written.
THEOREM SameContextInOrderCorrect == Spec => []SameContextInOrder
<1>1. ResolverInv => SameContextInOrder
  BY DEF ResolverInv
<1> QED  BY <1>1, ResolverInvariant, PTL

\* No answer is served from the cache ttlMs after it was given.
THEOREM ServedFreshCorrect == Spec => ServedFresh
<1> DEFINE Served ==
      \A v \in Values, n \in 1 .. started :
         offered' # offered /\ started' = started /\ Len(delivered') > Len(delivered)
           /\ <<v, n>> \in Last(delivered').fields => answeredAt[n] + Ttl > now
<1>1. ResolverInv /\ [Next]_vars => [Served]_vars
  <2> SUFFICES ASSUME ResolverInv, Next, NEW v \in Values, NEW n \in 1 .. started, offered' # offered,
                      started' = started, Len(delivered') > Len(delivered),
                      <<v, n>> \in Last(delivered').fields
               PROVE  answeredAt[n] + Ttl > now
    BY DEF vars
  <2>0. delivered \in Seq(Entries) /\ started \in Nat /\ Len(delivered) \in Nat
    BY ResolverAssumption, LenProperties DEF ResolverInv, ResolverTypes
  <2>1. PICK ctx \in Contexts : \E throws : Write(ctx, throws)
    BY NextCases DEF Answer, NoAnswer, Timeout, WaitForIdle, Tick, LateAnswer
  <2> PICK throws : Write(ctx, throws)
    BY <2>1
  <2>2. Fresh(ctx) = {}
    <3>1. started' = started + Cardinality(Fresh(ctx))
      BY DEF Write
    <3> QED  BY <2>0, <3>1, CallNumbers, SMTT(20)
  <2>3. delivered' = Append(delivered, Entry(ctx, {}, Warm(ctx)))
    <3>1. throws = {}
      BY <2>2 DEF Write
    <3>2. ~(delivered' = delivered)
      BY <2>0
    <3> QED  BY <2>2, <3>1, <3>2 DEF Write
  <2>4. Last(delivered') = Entry(ctx, {}, Warm(ctx))
    BY <2>0, <2>3 DEF Last
  <2>5. Warm(ctx) = Last(delivered').fields
    BY <2>4 DEF Entry
  <2> QED  BY <2>5, WarmFacts
<1> QED  BY <1>1, ResolverInvariant, PTL DEF Spec, ServedFresh

\* When waitForIdle() returns, nothing written before it still waits.
THEOREM IdleMeansDeliveredCorrect == Spec => IdleMeansDelivered
<1> DEFINE AllGone ==
      \A w \in idle : (\A u \in idle' : u.upTo # w.upTo) =>
         \A i \in DOMAIN waiting' : waiting'[i].entry > w.upTo
<1>1. ResolverInv /\ [Next]_vars => [AllGone]_vars
  <2> SUFFICES ASSUME ResolverInv, Next PROVE AllGone
    BY DEF vars
  <2>1. ASSUME NEW c, NEW fields, Settling(c, fields) PROVE AllGone
    <3>1. \A w \in idle : (\A u \in idle' : u.upTo # w.upTo) =>
             \A x \in ToSet(waiting') : x.entry > w.upTo
      BY <2>1, SettlingKeepsIdle
    <3>2. \A i \in DOMAIN waiting' : waiting'[i] \in ToSet(waiting')
      BY DEF ToSet
    <3> QED  BY <3>1, <3>2
  <2>2. CASE idle \subseteq idle'
    BY <2>2
  <2> HIDE DEF AllGone
  <2>3. \A c \in calls : Answer(c) => AllGone
    BY <2>1, SettlingSteps
  <2>4. \A c \in calls : \A fields \in {{}, MarkOr({0})} : NoAnswer(c, fields) => AllGone
    BY <2>1, SettlingSteps
  <2>5. \A c \in calls : Timeout(c) => AllGone
    BY <2>1, SettlingSteps
  <2>6. ASSUME NEW ctx, NEW throws, Write(ctx, throws) PROVE idle \subseteq idle'
    BY <2>6 DEF Write
  <2>7. (WaitForIdle \/ Tick \/ \E c \in calls : LateAnswer(c)) => idle \subseteq idle'
    BY DEF WaitForIdle, Tick, LateAnswer
  <2> QED  BY <2>2, <2>3, <2>4, <2>5, <2>6, <2>7, NextCases
<1> QED  BY <1>1, ResolverInvariant, PTL DEF Spec, IdleMeansDelivered

-----------------------------------------------------------------------------
(* The logger.                                                             *)

USE DEF loggerVars, settingsVars, pauseVars

\* Entries on their way, the black boxes, and all of the way of an entry.
LogEntries == [n : Nat, level : {"info", "error"}, plan : {"builds", "drops"},
               hop : {"none", "lookup", "throws"}]
Blackboxes == Rings(RingSize, Nat) \cup {Off}
Flows == [resolving : SUBSET [entry : LogEntries, gen : Gens], ring : Blackboxes,
          latest : Seq(Nat), direct : Seq(Nat), buffered : [Gens -> SUBSET Nat],
          shown : SUBSET Nat, gone : SUBSET Nat, lost : SUBSET Nat]

\* Where entry n can be: in a resolver, in a transport, or at an end of its way.
InHop(fl, n) == \E r \in fl.resolving : r.entry.n = n
InTransport(fl, n) == \E g \in Gens : n \in fl.buffered[g]
InFlow(fl, n) == InHop(fl, n) \/ InTransport(fl, n) \/ n \in fl.shown \cup fl.gone \cup fl.lost

\* An entry is in one place.
OnePlace(fl) ==
    /\ \A r, s \in fl.resolving : r.entry.n = s.entry.n => r = s
    /\ \A n, g, h : g \in Gens /\ h \in Gens /\ n \in fl.buffered[g] /\ n \in fl.buffered[h] => g = h
    /\ \A n : InHop(fl, n) => ~InTransport(fl, n) /\ n \notin fl.shown \cup fl.gone \cup fl.lost
    /\ \A n : InTransport(fl, n) => n \notin fl.shown \cup fl.gone \cup fl.lost
    /\ fl.shown \cap fl.gone = {} /\ fl.shown \cap fl.lost = {} /\ fl.gone \cap fl.lost = {}

\* The black box holds what was built since it was started.
BoxOK(fl) == IF fl.ring = Off THEN fl.latest = <<>> ELSE RingArray(fl.ring) = fl.latest

\* Entries in the order they were logged.
Upwards(s) == \A i, j \in DOMAIN s : i < j => s[i] < s[j]

\* Every entry in one place; the black box and what is written at once in order.
FlowOK(fl) ==
    /\ fl \in Flows /\ OnePlace(fl) /\ BoxOK(fl) /\ Upwards(fl.direct)
    /\ \A r \in fl.resolving : r.entry.hop # "none"

\* What the constants of the logger are.
LEMMA LoggerConstants ==
    /\ RingSize \in Nat \ {0} /\ MaxGen \in Nat \ {0} /\ PauseCap \in Nat
    /\ MaxLogCalls \in Nat /\ MaxEvents \in Nat
BY LoggerAssumption

\* A black box that is off is no ring, and a new one is.
LEMMA OffIsNoRing == Off \notin Rings(RingSize, Nat) /\ NewRing(RingSize) \in Rings(RingSize, Nat)
<1>1. Off.count = RingSize + 1
  BY LoggerConstants DEF Off, NewRing
<1>2. \A r \in Rings(RingSize, Nat) : r.count # RingSize + 1
  BY LoggerConstants DEF Rings
<1>3. NewRing(RingSize) \in Rings(RingSize, Nat)
  BY LoggerConstants, EmptyRing
<1> QED  BY <1>1, <1>2, <1>3

\* What is longer by x at its end.
LEMMA LongerByOne ==
    ASSUME NEW s \in Seq(Nat), NEW t \in Seq(Nat), NEW x \in Nat,
           Len(t) = Len(s) + 1, t[Len(t)] = x, \A i \in 1 .. Len(s) : t[i] = s[i]
    PROVE  t = Append(s, x)
<1> DEFINE n == Len(s)
           u == Append(s, x)
<1>1. /\ n \in Nat /\ u \in Seq(Nat) /\ Len(u) = n + 1
      /\ \A i \in 1 .. n : u[i] = s[i]
      /\ u[n + 1] = x
  OBVIOUS
<1>2. \A i \in 1 .. n + 1 : t[i] = u[i]
  <2> SUFFICES ASSUME NEW i \in 1 .. n + 1 PROVE t[i] = u[i]
    OBVIOUS
  <2>1. CASE i = n + 1
    BY <1>1, <2>1
  <2>2. CASE i \in 1 .. n
    BY <1>1, <2>2
  <2> QED  BY <1>1, <2>1, <2>2
<1> HIDE DEF u, n
<1>3. Len(t) = n + 1
  BY DEF n
<1> QED  BY <1>1, <1>2, <1>3 DEF u

\* What record does.
LEMMA RecordKeeps ==
    ASSUME NEW fl \in Flows, BoxOK(fl), NEW e \in LogEntries
    PROVE  LET gl == Record(fl, e)
           IN  /\ gl \in Flows /\ BoxOK(gl)
               /\ gl.resolving = fl.resolving /\ gl.direct = fl.direct /\ gl.buffered = fl.buffered
               /\ gl.shown = fl.shown /\ gl.gone = fl.gone /\ gl.lost = fl.lost
               /\ fl.ring = Off => gl.ring = Off
               /\ fl.ring # Off => e.n \in ToSet(RingArray(gl.ring))
<1> DEFINE gl == Record(fl, e)
           a == RingArray(fl.ring)
           b == RingArray(RingPush(fl.ring, e.n))
<1>1. CASE fl.ring = Off
  BY <1>1 DEF Record
<1>2. CASE fl.ring # Off
  <2>0. fl.ring \in Rings(RingSize, Nat) /\ e.n \in Nat /\ a = fl.latest
    BY <1>2 DEF Flows, Blackboxes, LogEntries, BoxOK
  <2>1. /\ RingPush(fl.ring, e.n) \in Rings(RingSize, Nat) /\ b \in Seq(Nat)
        /\ Slides(a, b, e.n, RingSize)
    BY <2>0, PushAppends, LoggerConstants
  <2>2. a \in Seq(Nat) /\ Len(a) \in 0 .. RingSize
    BY <2>0, ArrayElements, LoggerConstants
  <2>3. b = Append(IF Len(a) < RingSize THEN a ELSE Tail(a), e.n)
    <3> DEFINE t == IF Len(a) < RingSize THEN a ELSE Tail(a)
    <3>1. CASE Len(a) < RingSize
      <4>1. /\ Len(b) = Len(a) + 1 /\ b[Len(b)] = e.n
            /\ \A i \in 1 .. Len(b) - 1 : b[i] = a[i]
        BY <2>1, <3>1 DEF Slides
      <4>2. \A i \in 1 .. Len(a) : b[i] = a[i]
        BY <2>2, <4>1
      <4>3. b = Append(a, e.n)
        BY ONLY <2>0, <2>1, <2>2, <4>1, <4>2, LongerByOne
      <4> QED  BY <3>1, <4>3
    <3>2. CASE ~(Len(a) < RingSize)
      <4>1. /\ Len(b) = Len(a) /\ Len(a) = RingSize /\ b[Len(b)] = e.n
            /\ \A i \in 1 .. Len(b) - 1 : b[i] = a[i + 1]
        BY <2>1, <2>2, <3>2, LoggerConstants DEF Slides
      <4>2. /\ Tail(a) \in Seq(Nat) /\ Len(Tail(a)) = Len(a) - 1
            /\ \A i \in 1 .. Len(a) - 1 : Tail(a)[i] = a[i + 1]
        BY <2>2, <4>1, LoggerConstants
      <4> DEFINE r == Tail(a)
      <4>3. /\ r \in Seq(Nat) /\ Len(b) = Len(r) + 1
            /\ \A i \in 1 .. Len(r) : b[i] = r[i]
        BY <2>2, <4>1, <4>2
      <4> HIDE DEF r
      <4>4. b = Append(r, e.n)
        BY ONLY <2>0, <2>1, <4>1, <4>3, LongerByOne
      <4> QED  BY <3>2, <4>4 DEF r
    <3> QED  BY <3>1, <3>2
  <2>4. /\ gl.ring = RingPush(fl.ring, e.n) /\ gl.latest = b
        /\ gl.resolving = fl.resolving /\ gl.direct = fl.direct /\ gl.buffered = fl.buffered
        /\ gl.shown = fl.shown /\ gl.gone = fl.gone /\ gl.lost = fl.lost /\ gl \in Flows
    <3>1. gl = [fl EXCEPT !.ring = RingPush(fl.ring, e.n), !.latest = b]
      BY <1>2, <2>0, <2>3 DEF Record
    <3>2. RingPush(fl.ring, e.n) \in Blackboxes
      BY <2>1 DEF Blackboxes
    <3> QED  BY <2>1, <3>1, <3>2 DEF Flows
  <2>5. gl.ring # Off
    BY <2>1, <2>4, OffIsNoRing
  <2>6. gl.ring.count = Len(b) /\ Len(b) > 0 /\ b[Len(b)] = e.n
    BY <2>1, <2>2, <2>4, ArrayElements, LoggerConstants DEF Slides
  <2>7. e.n \in ToSet(b)
    BY <2>1, <2>6 DEF ToSet
  <2> QED  BY <1>2, <2>4, <2>5, <2>6, <2>7 DEF BoxOK
<1> QED  BY <1>1, <1>2

\* gl is fl with entry n in one more place.
AddsOne(fl, gl, n) == \A m : InFlow(gl, m) <=> InFlow(fl, m) \/ m = n

\* What deliver() does to an entry that is nowhere yet.
LEMMA DeliverKeeps ==
    ASSUME NEW fl, FlowOK(fl), NEW e \in LogEntries, ~InFlow(fl, e.n), gen \in Gens,
           e.hop = "none" => \A i \in DOMAIN fl.direct : fl.direct[i] < e.n, NEW out
    PROVE  LET gl == Deliver(fl, e, out)
           IN  /\ FlowOK(gl) /\ AddsOne(fl, gl, e.n)
               /\ gl.resolving = fl.resolving
               /\ gl.direct # fl.direct => gl.direct = Append(fl.direct, e.n) /\ e.hop = "none"
               /\ fl.shown = gl.shown /\ fl.gone \subseteq gl.gone /\ fl.lost \subseteq gl.lost
               /\ \A g \in Gens : fl.buffered[g] \subseteq gl.buffered[g]
               /\ gen \notin closedGens => gl.lost = fl.lost
               /\ fl.ring = Off => gl.ring = Off
               /\ e.plan = "builds" /\ fl.ring # Off => e.n \in ToSet(RingArray(gl.ring))
<1> DEFINE rl == Record(fl, e)
           gl == Deliver(fl, e, out)
<1>0. fl \in Flows /\ OnePlace(fl) /\ BoxOK(fl) /\ e.n \in Nat
  BY DEF FlowOK, LogEntries
<1>1. /\ rl \in Flows /\ BoxOK(rl)
      /\ rl.resolving = fl.resolving /\ rl.direct = fl.direct /\ rl.buffered = fl.buffered
      /\ rl.shown = fl.shown /\ rl.gone = fl.gone /\ rl.lost = fl.lost
      /\ fl.ring = Off => rl.ring = Off
      /\ fl.ring # Off => e.n \in ToSet(RingArray(rl.ring))
  BY <1>0, RecordKeeps
<1> DEFINE direct == IF e.hop = "none" THEN Append(fl.direct, e.n) ELSE fl.direct
<1>2. /\ direct \in Seq(Nat) /\ Upwards(direct)
      /\ direct # fl.direct => direct = Append(fl.direct, e.n) /\ e.hop = "none"
  <2>1. fl.direct \in Seq(Nat) /\ Upwards(fl.direct)
    BY DEF FlowOK, Flows
  <2>2. CASE e.hop = "none"
    <3>1. Append(fl.direct, e.n) \in Seq(Nat)
      BY <1>0, <2>1
    <3>2. \A i \in DOMAIN fl.direct : fl.direct[i] < e.n
      BY <2>2
    <3>3. ASSUME NEW i \in DOMAIN Append(fl.direct, e.n), NEW j \in DOMAIN Append(fl.direct, e.n),
                 i < j
          PROVE  Append(fl.direct, e.n)[i] < Append(fl.direct, e.n)[j]
      <4>1. i \in 1 .. Len(fl.direct) /\ Append(fl.direct, e.n)[i] = fl.direct[i]
        BY <1>0, <2>1, <3>3
      <4>2. CASE j = Len(fl.direct) + 1
        BY <1>0, <2>1, <3>2, <4>1, <4>2
      <4>3. CASE j \in 1 .. Len(fl.direct)
        BY <1>0, <2>1, <3>3, <4>1, <4>3 DEF Upwards
      <4> QED  BY <1>0, <2>1, <4>2, <4>3, SMTT(20)
    <3> QED  BY <2>2, <3>1, <3>3 DEF Upwards
  <2> QED  BY <2>1, <2>2
<1> HIDE DEF direct
<1>3. \A r \in fl.resolving : r.entry.hop # "none"
  BY DEF FlowOK
<1>4. ASSUME NEW x \in Flows, x.resolving = fl.resolving, x.shown = fl.shown, x.lost = fl.lost,
             x.buffered = fl.buffered, x.gone = fl.gone \cup {e.n}, x.direct = fl.direct, BoxOK(x)
      PROVE  FlowOK(x) /\ AddsOne(fl, x, e.n)
  <2>1. \A n : /\ InHop(x, n) <=> InHop(fl, n)
               /\ InTransport(x, n) <=> InTransport(fl, n)
    BY <1>4 DEF InHop, InTransport
  <2>2. OnePlace(x)
    BY <1>0, <1>4, <2>1 DEF OnePlace, InFlow
  <2>3. AddsOne(fl, x, e.n)
    BY <1>4, <2>1 DEF AddsOne, InFlow
  <2> QED  BY <1>3, <1>4, <2>2, <2>3 DEF FlowOK
<1>5. CASE e.plan = "drops"
  <2>1. gl = [fl EXCEPT !.gone = @ \cup {e.n}]
    BY <1>5 DEF Deliver
  <2>2. gl \in Flows
    BY <1>0, <2>1 DEF Flows
  <2>3. /\ gl.resolving = fl.resolving /\ gl.shown = fl.shown /\ gl.lost = fl.lost
        /\ gl.buffered = fl.buffered /\ gl.gone = fl.gone \cup {e.n} /\ gl.direct = fl.direct
        /\ gl.ring = fl.ring /\ gl.latest = fl.latest
    BY <1>0, <2>1 DEF Flows
  <2>4. BoxOK(gl)
    BY <1>0, <2>3 DEF BoxOK
  <2> QED  BY <1>4, <1>5, <2>2, <2>3, <2>4
<1>6. CASE e.plan # "drops" /\ e.n \in out
  <2>1. gl = [rl EXCEPT !.gone = @ \cup {e.n}]
    BY <1>6 DEF Deliver
  <2> HIDE DEF rl, gl
  <2>2. gl \in Flows
    BY <1>0, <1>1, <2>1 DEF Flows
  <2>3. /\ gl.resolving = fl.resolving /\ gl.shown = fl.shown /\ gl.lost = fl.lost
        /\ gl.buffered = fl.buffered /\ gl.gone = fl.gone \cup {e.n} /\ gl.direct = fl.direct
        /\ gl.ring = rl.ring /\ gl.latest = rl.latest
    BY <1>1, <2>1 DEF Flows
  <2>4. BoxOK(gl)
    BY <1>1, <2>3 DEF BoxOK
  <2> QED  BY <1>1, <1>4, <1>6, <2>2, <2>3, <2>4 DEF gl
<1>7. CASE e.plan # "drops" /\ e.n \notin out
  <2> DEFINE dl == [rl EXCEPT !.direct = IF e.hop = "none" THEN Append(@, e.n) ELSE @]
  <2>1. gl = IF gen \in closedGens THEN [dl EXCEPT !.lost = @ \cup {e.n}]
                                   ELSE [dl EXCEPT !.buffered[gen] = @ \cup {e.n}]
    BY <1>7 DEF Deliver, Dispatch
  <2>2. dl = [rl EXCEPT !.direct = direct]
    BY <1>1 DEF Flows, direct
  <2>3. /\ dl \in Flows
        /\ dl.resolving = fl.resolving /\ dl.shown = fl.shown /\ dl.lost = fl.lost
        /\ dl.buffered = fl.buffered /\ dl.gone = fl.gone /\ dl.direct = direct
        /\ dl.ring = rl.ring /\ dl.latest = rl.latest
    BY <1>1, <1>2, <2>2 DEF Flows
  <2> HIDE DEF dl, gl, rl
  <2>4. CASE gen \in closedGens
    <3>1. /\ gl \in Flows
          /\ gl.resolving = fl.resolving /\ gl.shown = fl.shown /\ gl.lost = fl.lost \cup {e.n}
          /\ gl.buffered = fl.buffered /\ gl.gone = fl.gone /\ gl.direct = direct
          /\ gl.ring = rl.ring /\ gl.latest = rl.latest
      BY <1>0, <2>1, <2>3, <2>4 DEF Flows
    <3>2. \A n : (InHop(gl, n) <=> InHop(fl, n)) /\ (InTransport(gl, n) <=> InTransport(fl, n))
      BY <3>1 DEF InHop, InTransport
    <3>3. OnePlace(gl) /\ AddsOne(fl, gl, e.n)
      BY <1>0, <3>1, <3>2 DEF OnePlace, InFlow, AddsOne
    <3>4. BoxOK(gl)
      BY <1>1, <3>1 DEF BoxOK
    <3>5. FlowOK(gl)
      BY <1>2, <1>3, <3>1, <3>3, <3>4 DEF FlowOK
    <3> QED  BY <1>1, <1>2, <2>4, <3>1, <3>3, <3>5 DEF gl
  <2>5. CASE gen \notin closedGens
    <3>1. /\ gl \in Flows
          /\ gl.resolving = fl.resolving /\ gl.shown = fl.shown /\ gl.lost = fl.lost
          /\ gl.buffered = [fl.buffered EXCEPT ![gen] = @ \cup {e.n}]
          /\ gl.gone = fl.gone /\ gl.direct = direct
          /\ gl.ring = rl.ring /\ gl.latest = rl.latest
      BY <1>0, <2>1, <2>3, <2>5 DEF Flows
    <3>2. \A g \in Gens : gl.buffered[g] = IF g = gen THEN fl.buffered[g] \cup {e.n} ELSE fl.buffered[g]
      BY <1>0, <3>1 DEF Flows
    <3>3. \A n : /\ InHop(gl, n) <=> InHop(fl, n)
                 /\ InTransport(gl, n) <=> InTransport(fl, n) \/ n = e.n
      BY <3>1, <3>2 DEF InHop, InTransport
    <3>4. \A g \in Gens : e.n \notin fl.buffered[g]
      BY DEF InFlow, InTransport
    <3>5. OnePlace(gl)
      BY <1>0, <3>1, <3>2, <3>3, <3>4 DEF OnePlace, InFlow
    <3>6. AddsOne(fl, gl, e.n)
      BY <3>1, <3>3 DEF InFlow, AddsOne
    <3>7. BoxOK(gl)
      BY <1>1, <3>1 DEF BoxOK
    <3>8. FlowOK(gl)
      BY <1>2, <1>3, <3>1, <3>5, <3>7 DEF FlowOK
    <3> QED  BY <1>1, <1>2, <2>5, <3>1, <3>2, <3>6, <3>8 DEF gl
  <2> QED  BY <2>4, <2>5
<1> QED  BY <1>5, <1>6, <1>7

\* What writeEntry() does to an entry that is nowhere yet.
LEMMA WriteKeeps ==
    ASSUME NEW fl, FlowOK(fl), NEW e \in LogEntries, ~InFlow(fl, e.n), gen \in Gens,
           \A i \in DOMAIN fl.direct : fl.direct[i] < e.n, NEW out
    PROVE  LET gl == WriteEntry(fl, e, out)
           IN  /\ FlowOK(gl) /\ AddsOne(fl, gl, e.n)
               /\ fl.resolving \subseteq gl.resolving
               /\ gl.direct = fl.direct \/ gl.direct = Append(fl.direct, e.n)
               /\ fl.shown = gl.shown /\ fl.gone \subseteq gl.gone /\ fl.lost \subseteq gl.lost
               /\ \A g \in Gens : fl.buffered[g] \subseteq gl.buffered[g]
               /\ fl.ring = Off => gl.ring = Off
               /\ enabled /\ e.plan = "builds" /\ e.hop = "none" /\ fl.ring # Off =>
                    e.n \in ToSet(RingArray(gl.ring))
               /\ enabled /\ e.hop # "none" => InHop(gl, e.n)
<1> DEFINE gl == WriteEntry(fl, e, out)
<1>0. fl \in Flows /\ OnePlace(fl) /\ BoxOK(fl) /\ e.n \in Nat /\ Upwards(fl.direct)
      /\ \A r \in fl.resolving : r.entry.hop # "none"
  BY DEF FlowOK, LogEntries
<1>1. CASE ~enabled
  <2>1. gl = [fl EXCEPT !.gone = @ \cup {e.n}]
    BY <1>1 DEF WriteEntry
  <2>2. /\ gl \in Flows
        /\ gl.resolving = fl.resolving /\ gl.shown = fl.shown /\ gl.lost = fl.lost
        /\ gl.buffered = fl.buffered /\ gl.gone = fl.gone \cup {e.n} /\ gl.direct = fl.direct
        /\ gl.ring = fl.ring /\ gl.latest = fl.latest
    BY <1>0, <2>1, ZenonT(30) DEF Flows
  <2> HIDE DEF gl
  <2>3. \A n : (InHop(gl, n) <=> InHop(fl, n)) /\ (InTransport(gl, n) <=> InTransport(fl, n))
    BY <2>2 DEF InHop, InTransport
  <2>4. OnePlace(gl) /\ AddsOne(fl, gl, e.n)
    BY <1>0, <2>2, <2>3 DEF OnePlace, InFlow, AddsOne
  <2>5. FlowOK(gl)
    BY <1>0, <2>2, <2>4 DEF FlowOK, BoxOK
  <2> QED  BY <1>1, <2>2, <2>4, <2>5 DEF gl
<1>2. CASE enabled /\ e.hop = "none"
  <2>1. gl = Deliver(fl, e, out)
    BY <1>2 DEF WriteEntry
  <2> QED  BY <1>2, <2>1, DeliverKeeps
<1>3. CASE enabled /\ e.hop # "none"
  <2> DEFINE r0 == [entry |-> e, gen |-> gen]
  <2>1. gl = [fl EXCEPT !.resolving = @ \cup {r0}]
    BY <1>3 DEF WriteEntry
  <2>r. r0 \in [entry : LogEntries, gen : Gens] /\ r0.entry.n = e.n /\ r0.entry = e
    OBVIOUS
  <2> HIDE DEF gl, r0
  <2>2. /\ gl \in Flows
        /\ gl.resolving = fl.resolving \cup {r0} /\ gl.shown = fl.shown /\ gl.lost = fl.lost
        /\ gl.buffered = fl.buffered /\ gl.gone = fl.gone /\ gl.direct = fl.direct
        /\ gl.ring = fl.ring /\ gl.latest = fl.latest
    BY <1>0, <2>1, <2>r DEF Flows
  <2>3. \A n : /\ InHop(gl, n) <=> InHop(fl, n) \/ n = e.n
               /\ InTransport(gl, n) <=> InTransport(fl, n)
    BY <2>2, <2>r DEF InHop, InTransport
  <2>4. \A r \in fl.resolving : r.entry.n # e.n
    BY DEF InFlow, InHop
  <2>5. \A r, s \in gl.resolving : r.entry.n = s.entry.n => r = s
    BY <1>0, <2>2, <2>r, <2>4 DEF OnePlace
  <2>6. OnePlace(gl)
    BY <1>0, <2>2, <2>3, <2>5 DEF OnePlace, InFlow
  <2>7. AddsOne(fl, gl, e.n)
    BY <2>2, <2>3 DEF InFlow, AddsOne
  <2>8. FlowOK(gl)
    BY <1>0, <1>3, <2>2, <2>r, <2>6 DEF FlowOK, BoxOK
  <2> QED  BY <1>3, <2>2, <2>3, <2>7, <2>8 DEF gl
<1> QED  BY <1>1, <1>2, <1>3

\* How the entries are written one after the other.
LEMMA WriteAllUnfolds ==
    ASSUME NEW fl, NEW es \in Seq(LogEntries), NEW out
    PROVE  \E f : /\ WriteAll(fl, es, out) = f[Len(es)] /\ f[0] = fl
                  /\ \A i \in 1 .. Len(es) : f[i] = WriteEntry(f[i - 1], es[i], out)
<1> DEFINE N == Len(es)
           Step(x, i) == WriteEntry(x, es[i], out)
           Unfolds(g) == g = [i \in 0 .. N |-> IF i = 0 THEN fl ELSE Step(g[i - 1], i)]
           Grows(g, k) == g[0] = fl /\ \A i \in 1 .. k : g[i] = Step(g[i - 1], i)
           f == CHOOSE g : Unfolds(g)
<1>0. N \in Nat
  BY LenProperties
<1>1. WriteAll(fl, es, out) = f[N]
  BY DEF WriteAll
<1>2. \E g : Unfolds(g)
  <2> DEFINE BuiltUpTo(k) == \E g : g = [i \in 0 .. k |-> g[i]] /\ Grows(g, k)
             R == {k \in Nat : BuiltUpTo(k)}
  <2>1. 0 \in R
    <3> DEFINE g == [i \in 0 .. 0 |-> fl]
    <3>1. g = [i \in 0 .. 0 |-> g[i]] /\ Grows(g, 0)
      OBVIOUS
    <3> QED  BY <3>1
  <2>2. ASSUME NEW k \in Nat, k \in R PROVE k + 1 \in R
    <3> SUFFICES BuiltUpTo(k + 1)
      <4> HIDE DEF BuiltUpTo
      <4> QED  BY <2>2
    <3>1. PICK h : h = [i \in 0 .. k |-> h[i]] /\ Grows(h, k)
      BY <2>2
    <3> DEFINE g == [i \in 0 .. k + 1 |-> IF i = k + 1 THEN Step(h[k], k + 1) ELSE h[i]]
    <3> HIDE DEF Step
    <3>2. (\A i \in 0 .. k : g[i] = h[i]) /\ g[k + 1] = Step(h[k], k + 1)
      OBVIOUS
    <3>3. g = [i \in 0 .. k + 1 |-> g[i]]
      OBVIOUS
    <3> HIDE DEF g
    <3>4. g[0] = fl
      BY <3>1, <3>2
    <3>5. ASSUME NEW i \in 1 .. k + 1 PROVE g[i] = Step(g[i - 1], i)
      <4>1. CASE i = k + 1
        <5>1. i - 1 = k /\ k \in 0 .. k
          BY <4>1
        <5> QED  BY <3>2, <4>1, <5>1
      <4>2. CASE i \in 1 .. k
        <5>1. i - 1 \in 0 .. k /\ i \in 0 .. k
          BY <4>2
        <5> QED  BY <3>1, <3>2, <4>2, <5>1
      <4> QED  BY <4>1, <4>2
    <3> QED  BY <3>3, <3>4, <3>5
  <2>3. N \in R
    <3> HIDE DEF R
    <3> QED  BY <2>1, <2>2, <1>0, SetInduction
  <2>4. PICK g : g = [i \in 0 .. N |-> g[i]] /\ Grows(g, N)
    BY <2>3
  <2> HIDE DEF Step, N
  <2>5. \A i \in 0 .. N : g[i] = IF i = 0 THEN fl ELSE Step(g[i - 1], i)
    BY <2>4, <1>0, SMTT(20)
  <2> QED  BY <2>4, <2>5
<1>3. Unfolds(f)
  <2> HIDE DEF Unfolds
  <2> QED  BY <1>2
<1>4. f[0] = fl /\ \A i \in 1 .. N : f[i] = Step(f[i - 1], i)
  <2> HIDE DEF f, Step
  <2> QED  BY <1>3, <1>0
<1> HIDE DEF f
<1> QED  BY ONLY <1>1, <1>4

\* resume() writes each entry of the buffer once, and those without a lookup in
\* their order.
LEMMA WriteAllKeeps ==
    ASSUME NEW fl, FlowOK(fl), NEW es \in Seq(LogEntries), gen \in Gens, NEW out,
           \A i, j \in DOMAIN es : i < j => es[i].n < es[j].n,
           \A j \in DOMAIN es : ~InFlow(fl, es[j].n),
           \A i \in DOMAIN fl.direct, j \in DOMAIN es : fl.direct[i] < es[j].n
    PROVE  LET gl == WriteAll(fl, es, out)
           IN  /\ FlowOK(gl)
               /\ \A n : InFlow(gl, n) <=> InFlow(fl, n) \/ \E j \in DOMAIN es : es[j].n = n
               /\ \A i \in DOMAIN gl.direct : \/ \E k \in DOMAIN fl.direct : gl.direct[i] = fl.direct[k]
                                              \/ \E j \in DOMAIN es : gl.direct[i] = es[j].n
               /\ fl.resolving \subseteq gl.resolving
               /\ fl.shown = gl.shown /\ fl.gone \subseteq gl.gone /\ fl.lost \subseteq gl.lost
               /\ \A g \in Gens : fl.buffered[g] \subseteq gl.buffered[g]
<1> DEFINE N == Len(es)
<1>0. /\ N \in Nat /\ DOMAIN es = 1 .. N /\ \A j \in 1 .. N : es[j] \in LogEntries /\ es[j].n \in Nat
  <2>1. \A x \in LogEntries : x.n \in Nat
    BY DEF LogEntries
  <2>2. N \in Nat /\ DOMAIN es = 1 .. N
    BY LenProperties
  <2>3. \A j \in 1 .. N : es[j] \in LogEntries
    BY <2>2, ElementOfSeq
  <2> QED  BY <2>1, <2>2, <2>3
<1>1. PICK f : /\ WriteAll(fl, es, out) = f[N] /\ f[0] = fl
               /\ \A i \in 1 .. N : f[i] = WriteEntry(f[i - 1], es[i], out)
  BY ONLY es \in Seq(LogEntries), WriteAllUnfolds
<1> DEFINE Good(k) ==
      LET gl == f[k]
      IN  /\ FlowOK(gl)
          /\ \A n : InFlow(gl, n) <=> InFlow(fl, n) \/ \E j \in 1 .. k : es[j].n = n
          /\ \A i \in DOMAIN gl.direct : \/ \E m \in DOMAIN fl.direct : gl.direct[i] = fl.direct[m]
                                         \/ \E j \in 1 .. k : gl.direct[i] = es[j].n
          /\ fl.resolving \subseteq gl.resolving
          /\ fl.shown = gl.shown /\ fl.gone \subseteq gl.gone /\ fl.lost \subseteq gl.lost
          /\ \A g \in Gens : fl.buffered[g] \subseteq gl.buffered[g]
           R == {k \in Nat : k <= N => Good(k)}
<1> HIDE DEF N
<1>2. 0 \in R
  BY <1>1
<1>3. ASSUME NEW k \in Nat, k \in R PROVE k + 1 \in R
  <2> SUFFICES ASSUME k + 1 <= N PROVE Good(k + 1)
    OBVIOUS
  <2> DEFINE gl == f[k]
             hl == f[k + 1]
             e == es[k + 1]
  <2>1. Good(k) /\ k + 1 \in 1 .. N
    BY <1>0, <1>3
  <2>2. hl = WriteEntry(gl, e, out) /\ e \in LogEntries /\ e.n \in Nat
    BY <1>0, <1>1, <2>1
  <2>3. ~InFlow(gl, e.n)
    <3>1. ~InFlow(fl, e.n)
      BY <1>0, <2>1
    <3>2. \A j \in 1 .. k : es[j].n # e.n
      BY <1>0, <2>1, SMTT(20)
    <3> QED  BY <2>1, <3>1, <3>2
  <2>4. \A i \in DOMAIN gl.direct : gl.direct[i] < e.n
    <3>1. \A m \in DOMAIN fl.direct : fl.direct[m] < e.n
      BY <1>0, <2>1
    <3>2. \A j \in 1 .. k : es[j].n < e.n
      BY <1>0, <2>1
    <3> QED  BY <2>1, <3>1, <3>2
  <2>5. gl.direct \in Seq(Nat)
    BY <2>1 DEF FlowOK, Flows
  <2> HIDE DEF gl, hl, e
  <2>6. /\ FlowOK(hl) /\ AddsOne(gl, hl, e.n)
        /\ gl.resolving \subseteq hl.resolving
        /\ hl.direct = gl.direct \/ hl.direct = Append(gl.direct, e.n)
        /\ gl.shown = hl.shown /\ gl.gone \subseteq hl.gone /\ gl.lost \subseteq hl.lost
        /\ \A g \in Gens : gl.buffered[g] \subseteq hl.buffered[g]
    <3>1. FlowOK(gl)
      BY <2>1 DEF gl
    <3> QED  BY <2>2, <2>3, <2>4, <3>1, WriteKeeps
  <2>7. /\ \A n : InFlow(gl, n) <=> InFlow(fl, n) \/ \E j \in 1 .. k : es[j].n = n
        /\ \A i \in DOMAIN gl.direct : \/ \E m \in DOMAIN fl.direct : gl.direct[i] = fl.direct[m]
                                       \/ \E j \in 1 .. k : gl.direct[i] = es[j].n
        /\ fl.resolving \subseteq gl.resolving
        /\ fl.shown = gl.shown /\ fl.gone \subseteq gl.gone /\ fl.lost \subseteq gl.lost
        /\ \A g \in Gens : fl.buffered[g] \subseteq gl.buffered[g]
    BY <2>1 DEF gl
  <2>8. \A n : InFlow(hl, n) <=> InFlow(fl, n) \/ \E j \in 1 .. k + 1 : es[j].n = n
    <3>1. 1 .. k + 1 = 1 .. k \cup {k + 1}
      OBVIOUS
    <3> QED  BY <2>6, <2>7, <3>1 DEF AddsOne, e
  <2>9. \A i \in DOMAIN hl.direct : \/ \E m \in DOMAIN fl.direct : hl.direct[i] = fl.direct[m]
                                    \/ \E j \in 1 .. k + 1 : hl.direct[i] = es[j].n
    <3> TAKE i \in DOMAIN hl.direct
    <3>1. CASE hl.direct = gl.direct
      BY <2>7, <3>1
    <3>2. CASE hl.direct = Append(gl.direct, e.n)
      <4>1. \/ i \in DOMAIN gl.direct /\ hl.direct[i] = gl.direct[i]
            \/ hl.direct[i] = e.n
        BY <2>2, <2>5, <3>2
      <4> QED  BY <2>7, <4>1 DEF e
    <3> QED  BY <2>6, <3>1, <3>2
  <2> QED  BY <2>6, <2>7, <2>8, <2>9 DEF hl
<1>4. N \in R
  <2> HIDE DEF R
  <2> QED  BY <1>0, <1>2, <1>3, SetInduction
<1>5. Good(N)
  BY <1>0, <1>4
<1> DEFINE gl == WriteAll(fl, es, out)
<1>6. gl = f[N]
  BY <1>1
<1> HIDE DEF gl
<1>7. /\ FlowOK(gl)
      /\ \A n : InFlow(gl, n) <=> InFlow(fl, n) \/ \E j \in 1 .. N : es[j].n = n
      /\ \A i \in DOMAIN gl.direct : \/ \E m \in DOMAIN fl.direct : gl.direct[i] = fl.direct[m]
                                     \/ \E j \in 1 .. N : gl.direct[i] = es[j].n
      /\ fl.resolving \subseteq gl.resolving
      /\ fl.shown = gl.shown /\ fl.gone \subseteq gl.gone /\ fl.lost \subseteq gl.lost
      /\ \A g \in Gens : fl.buffered[g] \subseteq gl.buffered[g]
  BY <1>5, <1>6, Zenon
<1> QED  BY <1>0, <1>7 DEF gl

-----------------------------------------------------------------------------
\* The entry is held back by pause().
Held(n) == \E j \in DOMAIN pauseBuffer : pauseBuffer[j].n = n

\* The calls of flush() and close().
Requests == [kind : {"flush", "close"}, on : SUBSET Nat, fails : BOOLEAN, upTo : SUBSET Nat,
             to : Gens \cup {0}, given : SUBSET Nat]

\* What a call has to see through is at an end of its way, in a transport, or in
\* a lookup that the call awaits; once its transport is called, what is not at an
\* end is given to that transport or in another one.
RequestOK(q) ==
    /\ q \in Requests
    /\ q.to = 0 => \A n \in q.upTo : \/ n \in flow.shown \cup flow.gone \cup flow.lost
                                     \/ InTransport(flow, n)
                                     \/ n \in q.on /\ InHop(flow, n)
    /\ q.to # 0 => \A n \in q.upTo : \/ n \in flow.shown \cup flow.gone \cup flow.lost \cup q.given
                                     \/ \E g \in Gens \ {q.to} : n \in flow.buffered[g]

\* Every entry logged so far is held or on its way, and nothing else is.
PlacesInv ==
    /\ logged \in 0 .. MaxLogCalls /\ gen \in Gens /\ closedGens \subseteq Gens
    /\ enabled \in BOOLEAN /\ paused \in BOOLEAN
    /\ pauseBuffer \in Seq(LogEntries) /\ Len(pauseBuffer) <= PauseCap
    /\ FlowOK(flow)
    /\ ~paused => pauseBuffer = <<>>
    /\ \A i, j \in DOMAIN pauseBuffer : i < j => pauseBuffer[i].n < pauseBuffer[j].n
    /\ \A n : InFlow(flow, n) \/ Held(n) \/ n \in pauseDropped <=> n \in 1 .. logged
    /\ \A n : InFlow(flow, n) => ~Held(n) /\ n \notin pauseDropped
    /\ \A n : Held(n) => n \notin pauseDropped
    /\ \A i \in DOMAIN flow.direct, j \in DOMAIN pauseBuffer : flow.direct[i] < pauseBuffer[j].n
    /\ \A i \in DOMAIN flow.direct : flow.direct[i] <= logged

\* The inductive invariant of the logger: the places of the entries, and that a
\* pending flush() or close() still finds what it was called for.
LoggerInv == PlacesInv /\ \A q \in requests : RequestOK(q)

\* The initial state satisfies the invariant.
LEMMA LoggerInitInv == LoggerInit => LoggerInv
<1> SUFFICES ASSUME LoggerInit PROVE PlacesInv
  BY DEF LoggerInit, LoggerInv
<1>1. /\ NoEntries \in Flows
      /\ NoEntries.resolving = {} /\ NoEntries.direct = <<>> /\ NoEntries.latest = <<>>
      /\ NoEntries.shown = {} /\ NoEntries.gone = {} /\ NoEntries.lost = {}
      /\ \A g \in Gens : NoEntries.buffered[g] = {}
      /\ NoEntries.ring = NewRing(RingSize)
  BY OffIsNoRing DEF NoEntries, Flows, Blackboxes
<1>2. BoxOK(NoEntries)
  BY <1>1, OffIsNoRing, EmptyRing, LoggerConstants DEF BoxOK
<1>3. \A n : ~InFlow(NoEntries, n)
  BY <1>1 DEF InFlow, InHop, InTransport
<1>4. OnePlace(NoEntries)
  BY <1>1 DEF OnePlace, InFlow, InHop, InTransport
<1>5. FlowOK(NoEntries)
  BY <1>1, <1>2, <1>4 DEF FlowOK, Upwards
<1>6. gen \in Gens
  BY LoggerConstants DEF LoggerInit, Gens
<1> HIDE DEF NoEntries
<1>7. /\ flow = NoEntries /\ logged = 0 /\ closedGens = {} /\ enabled = TRUE /\ paused = FALSE
      /\ pauseBuffer = <<>> /\ pauseDropped = {} /\ pauseBuffer \in Seq(LogEntries)
      /\ Len(pauseBuffer) = 0 /\ DOMAIN pauseBuffer = {} /\ DOMAIN flow.direct = {}
  BY <1>1 DEF LoggerInit
<1>8. \A n : ~Held(n) /\ ~InFlow(flow, n) /\ n \notin 1 .. logged
  BY <1>3, <1>7 DEF Held
<1>9. FlowOK(flow) /\ logged \in 0 .. MaxLogCalls /\ Len(pauseBuffer) <= PauseCap
  BY <1>5, <1>7, LoggerConstants
<1>10. /\ \A i, j \in DOMAIN pauseBuffer : i < j => pauseBuffer[i].n < pauseBuffer[j].n
       /\ \A i \in DOMAIN flow.direct, j \in DOMAIN pauseBuffer : flow.direct[i] < pauseBuffer[j].n
       /\ \A i \in DOMAIN flow.direct : flow.direct[i] <= logged
  <2> HIDE DEF NoEntries
  <2>1. \A i : i \notin DOMAIN pauseBuffer /\ i \notin DOMAIN flow.direct
    BY <1>7, Zenon
  <2> QED  BY <2>1, Zenon
<1>11. gen \in Gens /\ closedGens \subseteq Gens /\ enabled \in BOOLEAN /\ paused \in BOOLEAN
       /\ (~paused => pauseBuffer = <<>>) /\ \A n : n \notin pauseDropped
  BY <1>6, <1>7
<1> QED  BY <1>7, <1>8, <1>9, <1>10, <1>11, Zenon DEF PlacesInv

\* What the calls wait for, when entries only come nearer.
LEMMA RequestsKept ==
    ASSUME LoggerInv,
           flow.shown \subseteq flow'.shown, flow.gone \subseteq flow'.gone,
           flow.lost \subseteq flow'.lost,
           \A g \in Gens : flow.buffered[g] \subseteq flow'.buffered[g] \cup flow'.shown,
           \A n : InHop(flow, n) => \/ InHop(flow', n) \/ InTransport(flow', n)
                                    \/ n \in flow'.shown \cup flow'.gone \cup flow'.lost
    PROVE  \A q \in requests : RequestOK(q)'
<1> SUFFICES ASSUME NEW q \in requests PROVE RequestOK(q)'
  OBVIOUS
<1>1. RequestOK(q)
  BY DEF LoggerInv
<1>2. ASSUME q.to = 0, NEW n \in q.upTo
      PROVE  \/ n \in flow'.shown \cup flow'.gone \cup flow'.lost
             \/ InTransport(flow', n)
             \/ n \in q.on /\ InHop(flow', n)
  <2>1. \/ n \in flow.shown \cup flow.gone \cup flow.lost
        \/ InTransport(flow, n)
        \/ n \in q.on /\ InHop(flow, n)
    BY <1>1, <1>2 DEF RequestOK
  <2>2. InTransport(flow, n) => InTransport(flow', n) \/ n \in flow'.shown
    BY DEF InTransport
  <2> QED  BY <2>1, <2>2
<1>3. ASSUME q.to # 0, NEW n \in q.upTo
      PROVE  \/ n \in flow'.shown \cup flow'.gone \cup flow'.lost \cup q.given
             \/ \E g \in Gens \ {q.to} : n \in flow'.buffered[g]
  <2>1. \/ n \in flow.shown \cup flow.gone \cup flow.lost \cup q.given
        \/ \E g \in Gens \ {q.to} : n \in flow.buffered[g]
    BY <1>1, <1>3 DEF RequestOK
  <2> QED  BY <2>1
<1>4. q \in Requests
  BY <1>1 DEF RequestOK
<1> QED  BY <1>2, <1>3, <1>4 DEF RequestOK, InTransport, InHop

\* A new call waits for what there is.
LEMMA RequestsNew ==
    ASSUME PlacesInv', NEW kind \in {"flush", "close"}, NEW q, gen' = gen, q = Request(kind, flow')
    PROVE  RequestOK(q)'
<1>0. flow' \in Flows
  BY DEF PlacesInv, FlowOK
<1>1. /\ q.on = {r.entry.n : r \in {x \in flow'.resolving : x.gen = gen}} /\ q.to = 0
      /\ q.upTo = (UNION {flow'.buffered[g] : g \in Gens}) \cup q.on
  BY DEF Request, Accepted
<1>2. ASSUME NEW n \in q.upTo
      PROVE  InTransport(flow', n) \/ (n \in q.on /\ InHop(flow', n))
  <2>1. CASE n \in UNION {flow'.buffered[g] : g \in Gens}
    BY <2>1 DEF InTransport
  <2>2. CASE n \in q.on
    BY <1>1, <2>2 DEF InHop
  <2> QED  BY <1>1, <2>1, <2>2
<1>3. q \in Requests
  <2>1. q.on \subseteq Nat
    BY <1>0, <1>1 DEF Flows, LogEntries
  <2>2. UNION {flow'.buffered[g] : g \in Gens} \subseteq Nat
    BY <1>0 DEF Flows
  <2>3. q.upTo \subseteq Nat
    BY <1>1, <2>1, <2>2
  <2>4. q = [kind |-> kind, on |-> q.on, fails |-> q.fails, upTo |-> q.upTo, to |-> 0, given |-> {}]
        /\ q.fails \in BOOLEAN
    BY DEF Request
  <2> HIDE DEF Request
  <2> QED  BY ONLY <2>1, <2>3, <2>4, kind \in {"flush", "close"} DEF Requests
<1> QED  BY <1>1, <1>2, <1>3 DEF RequestOK, InTransport, InHop

\* write() of the logger.
LEMMA LogWriteKeeps ==
    ASSUME LoggerInv, NEW e \in LogEntries, e.n = logged + 1, logged < MaxLogCalls, NEW out,
           logged' = logged + 1, LogWrite(e, out), UNCHANGED <<settingsVars, closedGens>>
    PROVE  PlacesInv' /\ \A q \in requests : RequestOK(q)'
<1>0. /\ PlacesInv /\ FlowOK(flow) /\ logged \in Nat /\ MaxLogCalls \in Nat /\ gen \in Gens
      /\ pauseBuffer \in Seq(LogEntries) /\ flow.direct \in Seq(Nat)
      /\ \A n : InFlow(flow, n) \/ Held(n) \/ n \in pauseDropped <=> n \in 1 .. logged
  BY LoggerConstants DEF LoggerInv, PlacesInv, FlowOK, Flows
<1>1. ~InFlow(flow, e.n) /\ ~Held(e.n) /\ e.n \notin pauseDropped
  BY <1>0
<1>2. CASE ~paused
  <2>1. /\ flow' = WriteEntry(flow, e, out) /\ paused' = paused /\ pauseBuffer' = pauseBuffer
        /\ pauseDropped' = pauseDropped /\ pauseBuffer = <<>>
    BY <1>0, <1>2 DEF LogWrite, PlacesInv
  <2>2. \A i \in DOMAIN flow.direct : flow.direct[i] < e.n
    BY <1>0 DEF PlacesInv
  <2>3. /\ FlowOK(flow') /\ AddsOne(flow, flow', e.n)
        /\ flow.resolving \subseteq flow'.resolving
        /\ flow'.direct = flow.direct \/ flow'.direct = Append(flow.direct, e.n)
        /\ flow.shown = flow'.shown /\ flow.gone \subseteq flow'.gone /\ flow.lost \subseteq flow'.lost
        /\ \A g \in Gens : flow.buffered[g] \subseteq flow'.buffered[g]
    BY <1>0, <1>1, <2>1, <2>2, WriteKeeps
  <2>4. ASSUME NEW i \in DOMAIN flow'.direct PROVE flow'.direct[i] <= logged + 1
    <3>1. e.n \in Nat /\ \A k \in DOMAIN flow.direct : flow.direct[k] \in Nat
      BY <1>0
    <3>2. \/ i \in DOMAIN flow.direct /\ flow'.direct[i] = flow.direct[i]
          \/ flow'.direct[i] = e.n
      <4>1. CASE flow'.direct = flow.direct
        BY <4>1
      <4>2. CASE flow'.direct = Append(flow.direct, e.n)
        BY <1>0, <3>1, <4>2
      <4> QED  BY <2>3, <4>1, <4>2
    <3> QED  BY <1>0, <2>2, <3>1, <3>2
  <2>5. \A n : ~Held(n) /\ ~Held(n)'
    BY <2>1 DEF Held
  <2>6. PlacesInv'
    BY <1>0, <1>1, <2>1, <2>3, <2>4, <2>5 DEF PlacesInv, AddsOne
  <2>7. \A n : InHop(flow, n) => InHop(flow', n)
    BY <2>3 DEF InHop
  <2> QED  BY <2>3, <2>6, <2>7, RequestsKept
<1>3. CASE paused /\ Len(pauseBuffer) >= PauseCap
  <2>1. /\ flow' = flow /\ paused' = paused /\ pauseBuffer' = pauseBuffer
        /\ pauseDropped' = pauseDropped \cup {e.n}
    BY <1>3 DEF LogWrite
  <2>2. \A n : Held(n)' <=> Held(n)
    BY <2>1 DEF Held
  <2>3. \A i \in DOMAIN flow.direct : flow.direct[i] <= logged + 1
    BY <1>0 DEF PlacesInv
  <2>4. PlacesInv'
    BY <1>0, <1>1, <2>1, <2>2, <2>3 DEF PlacesInv
  <2> QED  BY <2>1, <2>4, RequestsKept
<1>4. CASE paused /\ ~(Len(pauseBuffer) >= PauseCap)
  <2>1. /\ flow' = flow /\ paused' = paused /\ pauseBuffer' = Append(pauseBuffer, e)
        /\ pauseDropped' = pauseDropped
    BY <1>4 DEF LogWrite
  <2>2. /\ pauseBuffer' \in Seq(LogEntries) /\ Len(pauseBuffer') = Len(pauseBuffer) + 1
        /\ DOMAIN pauseBuffer' = 1 .. Len(pauseBuffer) + 1 /\ DOMAIN pauseBuffer = 1 .. Len(pauseBuffer)
        /\ \A i \in 1 .. Len(pauseBuffer) : pauseBuffer'[i] = pauseBuffer[i]
        /\ pauseBuffer'[Len(pauseBuffer) + 1] = e /\ Len(pauseBuffer) \in Nat
    BY <1>0, <2>1
  <2>3. \A n : Held(n)' <=> Held(n) \/ n = e.n
    BY <2>2 DEF Held
  <2>4. ASSUME NEW j \in DOMAIN pauseBuffer PROVE pauseBuffer[j].n < e.n
    <3>1. Held(pauseBuffer[j].n)
      BY DEF Held
    <3>2. pauseBuffer[j].n \in 1 .. logged
      BY <1>0, <3>1
    <3> QED  BY <1>0, <3>2
  <2>5. \A i, j \in DOMAIN pauseBuffer' : i < j => pauseBuffer'[i].n < pauseBuffer'[j].n
    BY <1>0, <2>2, <2>4 DEF PlacesInv
  <2>6. \A i \in DOMAIN flow.direct : flow.direct[i] <= logged + 1 /\ flow.direct[i] < e.n
    BY <1>0 DEF PlacesInv
  <2>7. \A i \in DOMAIN flow.direct, j \in DOMAIN pauseBuffer' : flow.direct[i] < pauseBuffer'[j].n
    BY <1>0, <2>2, <2>6, SMTT(20) DEF PlacesInv
  <2>8. Len(pauseBuffer') <= PauseCap
    BY <1>4, <2>2, LoggerConstants
  <2>9. PlacesInv'
    BY <1>0, <1>1, <1>4, <2>1, <2>2, <2>3, <2>5, <2>6, <2>7, <2>8 DEF PlacesInv
  <2> QED  BY <2>1, <2>9, RequestsKept
<1> QED  BY <1>2, <1>3, <1>4

\* The entries stay where they can be: what else changes.
LEMMA PlacesStay ==
    ASSUME LoggerInv, UNCHANGED <<logged, pauseVars>>, gen' \in Gens, enabled' \in BOOLEAN,
           closedGens' \subseteq Gens, FlowOK(flow'), flow'.direct = flow.direct,
           \A n : InFlow(flow', n) <=> InFlow(flow, n)
    PROVE  PlacesInv'
<1>1. \A n : Held(n)' <=> Held(n)
  BY DEF Held
<1> QED  BY <1>1 DEF LoggerInv, PlacesInv

\* A transport that delivers shows what it had, and nothing else moves.
LEMMA ShowsKeeps ==
    ASSUME NEW fl, FlowOK(fl), NEW g \in Gens
    PROVE  LET gl == Shows(fl, g)
           IN  /\ FlowOK(gl) /\ gl.direct = fl.direct /\ gl.resolving = fl.resolving
               /\ gl.ring = fl.ring /\ gl.gone = fl.gone /\ gl.lost = fl.lost
               /\ gl.shown = fl.shown \cup fl.buffered[g]
               /\ \A h \in Gens : h # g => gl.buffered[h] = fl.buffered[h]
               /\ \A n : InFlow(gl, n) <=> InFlow(fl, n)
               /\ \A n : InHop(gl, n) <=> InHop(fl, n)
               /\ \A n : InTransport(fl, n) => InTransport(gl, n) \/ n \in gl.shown
<1> DEFINE gl == Shows(fl, g)
<1>0. /\ fl \in Flows /\ OnePlace(fl) /\ BoxOK(fl) /\ Upwards(fl.direct)
      /\ \A r \in fl.resolving : r.entry.hop # "none"
  BY DEF FlowOK
<1>1. /\ gl.direct = fl.direct /\ gl.resolving = fl.resolving /\ gl.latest = fl.latest
      /\ gl.ring = fl.ring /\ gl.gone = fl.gone /\ gl.shown = fl.shown \cup fl.buffered[g]
      /\ gl.lost = fl.lost /\ gl.buffered = [fl.buffered EXCEPT ![g] = {}] /\ gl \in Flows
  BY <1>0 DEF Shows, Flows
<1>2. \A h \in Gens : gl.buffered[h] = IF h = g THEN {} ELSE fl.buffered[h]
  BY <1>0, <1>1 DEF Flows
<1> HIDE DEF gl
<1>3. \A n : InHop(gl, n) <=> InHop(fl, n)
  BY <1>1 DEF InHop
<1>4. \A n : InTransport(fl, n) <=> InTransport(gl, n) \/ n \in fl.buffered[g]
  BY <1>2 DEF InTransport
<1>5. \A n : InTransport(gl, n) => n \notin fl.buffered[g]
  BY <1>0, <1>2 DEF InTransport, OnePlace
<1>6. \A n : InFlow(gl, n) <=> InFlow(fl, n)
  BY <1>1, <1>3, <1>4 DEF InFlow
<1>7. OnePlace(gl)
  <2>1. \A n \in fl.buffered[g] : InTransport(fl, n)
    BY <1>4
  <2>2. \A n : InTransport(gl, n) => n \notin gl.shown \cup gl.gone \cup gl.lost
    BY <1>0, <1>1, <1>4, <1>5 DEF OnePlace
  <2>3. gl.shown \cap gl.gone = {} /\ gl.shown \cap gl.lost = {} /\ gl.gone \cap gl.lost = {}
    BY <1>0, <1>1, <2>1 DEF OnePlace
  <2>4. \A n : InHop(gl, n) => ~InTransport(gl, n) /\ n \notin gl.shown \cup gl.gone \cup gl.lost
    BY <1>0, <1>1, <1>3, <1>4, <2>1 DEF OnePlace
  <2>5. \A n, h, k : h \in Gens /\ k \in Gens /\ n \in gl.buffered[h] /\ n \in gl.buffered[k] => h = k
    BY <1>0, <1>2 DEF OnePlace
  <2>6. \A r, s \in gl.resolving : r.entry.n = s.entry.n => r = s
    BY <1>0, <1>1 DEF OnePlace
  <2> QED  BY <2>2, <2>3, <2>4, <2>5, <2>6 DEF OnePlace
<1>8. FlowOK(gl)
  BY <1>0, <1>1, <1>7 DEF FlowOK, BoxOK
<1> QED  BY <1>1, <1>2, <1>3, <1>4, <1>6, <1>8 DEF gl

\* The next entry has the next number.
LEMMA NumberedEntry ==
    ASSUME logged \in Nat, NEW shape, shape.level \in {"info", "error"},
           shape.plan \in {"builds", "drops"}, shape.hop \in {"none", "lookup", "throws"}
    PROVE  Numbered(shape) \in LogEntries /\ Numbered(shape).n = logged + 1
BY DEF Numbered, LogEntries

\* log() preserves the invariant.
LEMMA LogKeeps == ASSUME LoggerInv, NEW shape \in EntryShapes, Log(shape) PROVE LoggerInv'
<1>1. Numbered(shape) \in LogEntries /\ Numbered(shape).n = logged + 1
  <2>1. logged \in Nat
    BY LoggerConstants DEF LoggerInv, PlacesInv
  <2>2. /\ shape.level \in {"info", "error"} /\ shape.plan \in {"builds", "drops"}
        /\ shape.hop \in {"none", "lookup", "throws"}
    BY DEF EntryShapes
  <2> QED  BY <2>1, <2>2, NumberedEntry
<1>2. PICK out \in SampledOut({Numbered(shape)}) : LogWrite(Numbered(shape), out)
  BY DEF Log
<1>3. /\ logged < MaxLogCalls /\ logged' = logged + 1
      /\ UNCHANGED <<settingsVars, closedGens>> /\ requests' = requests
  BY DEF Log
<1>4. PlacesInv' /\ \A q \in requests : RequestOK(q)'
  BY <1>1, <1>2, <1>3, LogWriteKeeps
<1> QED  BY <1>3, <1>4 DEF LoggerInv

\* The end of a lookup preserves the invariant.
LEMMA ResolvedKeeps == ASSUME LoggerInv, NEW r \in flow.resolving, Resolved(r) PROVE LoggerInv'
<1> DEFINE fl == [flow EXCEPT !.resolving = @ \ {r}]
           e == r.entry
<1>1. PICK out \in SampledOut({e}) : flow' = Deliver(fl, e, out)
  BY DEF Resolved
<1>2. /\ UNCHANGED <<logged, settingsVars, pauseVars, closedGens>> /\ requests' = requests
  BY DEF Resolved
<1>3. /\ flow \in Flows /\ OnePlace(flow) /\ BoxOK(flow) /\ Upwards(flow.direct)
      /\ (\A s \in flow.resolving : s.entry.hop # "none") /\ gen \in Gens /\ closedGens \subseteq Gens
      /\ enabled \in BOOLEAN
  BY DEF LoggerInv, PlacesInv, FlowOK
<1>4. e \in LogEntries /\ e.n \in Nat /\ e.hop # "none"
  BY <1>3 DEF Flows, LogEntries
<1>5. /\ fl \in Flows /\ fl.resolving = flow.resolving \ {r} /\ fl.ring = flow.ring
      /\ fl.latest = flow.latest /\ fl.direct = flow.direct /\ fl.buffered = flow.buffered
      /\ fl.shown = flow.shown /\ fl.gone = flow.gone /\ fl.lost = flow.lost
  BY <1>3 DEF Flows
<1> HIDE DEF fl
<1>6. \A n : InHop(flow, n) <=> InHop(fl, n) \/ n = e.n
  BY <1>5 DEF InHop
<1>7. \A n : InTransport(fl, n) <=> InTransport(flow, n)
  BY <1>5 DEF InTransport
<1>8. ~InHop(fl, e.n) /\ InHop(flow, e.n)
  BY <1>3, <1>5 DEF InHop, OnePlace
<1>9. OnePlace(fl)
  BY <1>3, <1>5, <1>6, <1>7 DEF OnePlace
<1>10. FlowOK(fl)
  BY <1>3, <1>5, <1>9 DEF FlowOK, BoxOK
<1>11. ~InFlow(fl, e.n) /\ \A n : InFlow(flow, n) <=> InFlow(fl, n) \/ n = e.n
  BY <1>3, <1>5, <1>6, <1>7, <1>8 DEF InFlow, OnePlace
<1>12. /\ FlowOK(flow') /\ AddsOne(fl, flow', e.n)
       /\ flow'.resolving = fl.resolving
       /\ flow'.direct = fl.direct
       /\ fl.shown = flow'.shown /\ fl.gone \subseteq flow'.gone /\ fl.lost \subseteq flow'.lost
       /\ \A g \in Gens : fl.buffered[g] \subseteq flow'.buffered[g]
  <2> HIDE DEF e
  <2> QED  BY <1>1, <1>3, <1>4, <1>10, <1>11, DeliverKeeps
<1>13. \A n : InFlow(flow', n) <=> InFlow(flow, n)
  BY <1>11, <1>12 DEF AddsOne
<1>14. PlacesInv'
  BY <1>2, <1>3, <1>5, <1>12, <1>13, PlacesStay
<1>15. ASSUME NEW n, InHop(flow, n)
       PROVE  InHop(flow', n) \/ InTransport(flow', n) \/ n \in flow'.shown \cup flow'.gone \cup flow'.lost
  <2>1. CASE InHop(fl, n)
    BY <1>12, <2>1 DEF InHop
  <2>2. CASE n = e.n
    <3>1. InFlow(flow', e.n)
      BY <1>12 DEF AddsOne
    <3> QED  BY <2>2, <3>1 DEF InFlow
  <2> QED  BY <1>6, <1>15, <2>1, <2>2
<1>16. \A g \in Gens : flow.buffered[g] \subseteq flow'.buffered[g]
  BY <1>5, <1>12
<1>17. \A q \in requests : RequestOK(q)'
  BY <1>5, <1>12, <1>15, <1>16, RequestsKept
<1> QED  BY <1>2, <1>14, <1>17 DEF LoggerInv

\* pause() preserves the invariant.
LEMMA PauseKeeps == ASSUME LoggerInv, Pause PROVE LoggerInv'
<1>1. /\ UNCHANGED <<logged, flow, settingsVars, pauseBuffer, pauseDropped, closedGens, requests>>
      /\ paused' = TRUE
  BY DEF Pause
<1>2. \A n : Held(n)' <=> Held(n)
  BY <1>1 DEF Held
<1>3. PlacesInv'
  BY <1>1, <1>2 DEF LoggerInv, PlacesInv
<1>4. \A q \in requests : RequestOK(q)'
  BY <1>1, RequestsKept
<1> QED  BY <1>1, <1>3, <1>4 DEF LoggerInv

\* resume() preserves the invariant.
LEMMA ResumeKeepsAll == ASSUME LoggerInv, Resume PROVE LoggerInv'
<1>1. PICK out \in SampledOut(ToSet(pauseBuffer)) : flow' = WriteAll(flow, pauseBuffer, out)
  BY DEF Resume
<1>2. /\ UNCHANGED <<logged, settingsVars, pauseDropped, closedGens, requests>>
      /\ paused' = FALSE /\ pauseBuffer' = <<>>
  BY DEF Resume
<1>3. /\ FlowOK(flow) /\ pauseBuffer \in Seq(LogEntries) /\ gen \in Gens /\ logged \in Nat
      /\ closedGens \subseteq Gens /\ enabled \in BOOLEAN /\ logged \in 0 .. MaxLogCalls
      /\ \A i, j \in DOMAIN pauseBuffer : i < j => pauseBuffer[i].n < pauseBuffer[j].n
      /\ \A i \in DOMAIN flow.direct, j \in DOMAIN pauseBuffer : flow.direct[i] < pauseBuffer[j].n
      /\ \A n : InFlow(flow, n) \/ Held(n) \/ n \in pauseDropped <=> n \in 1 .. logged
      /\ \A n : InFlow(flow, n) => ~Held(n) /\ n \notin pauseDropped
      /\ \A n : Held(n) => n \notin pauseDropped
      /\ \A i \in DOMAIN flow.direct : flow.direct[i] <= logged
  BY LoggerConstants DEF LoggerInv, PlacesInv
<1>4. \A j \in DOMAIN pauseBuffer : Held(pauseBuffer[j].n)
  BY DEF Held
<1>5. \A j \in DOMAIN pauseBuffer : ~InFlow(flow, pauseBuffer[j].n)
  BY <1>3, <1>4
<1>6. /\ FlowOK(flow')
      /\ \A n : InFlow(flow', n) <=> InFlow(flow, n) \/ \E j \in DOMAIN pauseBuffer : pauseBuffer[j].n = n
      /\ \A i \in DOMAIN flow'.direct :
           \/ \E k \in DOMAIN flow.direct : flow'.direct[i] = flow.direct[k]
           \/ \E j \in DOMAIN pauseBuffer : flow'.direct[i] = pauseBuffer[j].n
      /\ flow.resolving \subseteq flow'.resolving
      /\ flow.shown = flow'.shown /\ flow.gone \subseteq flow'.gone /\ flow.lost \subseteq flow'.lost
      /\ \A g \in Gens : flow.buffered[g] \subseteq flow'.buffered[g]
  BY <1>1, <1>3, <1>5, WriteAllKeeps
<1>7. \A n : ~Held(n)' /\ (InFlow(flow', n) <=> InFlow(flow, n) \/ Held(n))
  BY <1>2, <1>6 DEF Held
<1>8. \A i \in DOMAIN flow'.direct : flow'.direct[i] <= logged
  <2>1. \A j \in DOMAIN pauseBuffer : pauseBuffer[j].n <= logged
    BY <1>3, <1>4
  <2> QED  BY <1>3, <1>6, <2>1
<1>9. PlacesInv'
  <2>1. /\ pauseBuffer' \in Seq(LogEntries) /\ Len(pauseBuffer') <= PauseCap
        /\ \A j : j \notin DOMAIN pauseBuffer'
    BY <1>2, LoggerConstants
  <2>2. /\ \A n : InFlow(flow', n) \/ n \in pauseDropped <=> n \in 1 .. logged
        /\ \A n : InFlow(flow', n) => n \notin pauseDropped
    BY <1>3, <1>7
  <2> QED  BY <1>2, <1>3, <1>6, <1>7, <1>8, <2>1, <2>2 DEF PlacesInv
<1>10. \A n : InHop(flow, n) => InHop(flow', n)
  BY <1>6 DEF InHop
<1>11. \A q \in requests : RequestOK(q)'
  BY <1>2, <1>6, <1>10, RequestsKept
<1> QED  BY <1>2, <1>9, <1>11 DEF LoggerInv

\* A change of the settings preserves the invariant.
LEMMA SettingsKeeps ==
    ASSUME LoggerInv, NEW on \in BOOLEAN, NEW blackbox \in BOOLEAN, Settings(on, blackbox)
    PROVE  LoggerInv'
<1> DEFINE ring == IF ~blackbox THEN Off ELSE IF flow.ring = Off THEN NewRing(RingSize) ELSE flow.ring
           latest == IF ~blackbox THEN <<>> ELSE flow.latest
<1>1. /\ gen < MaxGen /\ gen' = gen + 1 /\ enabled' = on
      /\ UNCHANGED <<logged, pauseVars, closedGens, requests>>
      /\ flow' = [flow EXCEPT !.ring = ring, !.latest = latest]
  <2>1. flow' = [flow EXCEPT
           !.ring = IF ~blackbox THEN Off ELSE IF @ = Off THEN NewRing(RingSize) ELSE @,
           !.latest = IF ~blackbox THEN <<>> ELSE @]
    BY DEF Settings
  <2>2. flow \in Flows
    BY DEF LoggerInv, PlacesInv, FlowOK
  <2>3. flow' = [flow EXCEPT !.ring = ring, !.latest = latest]
    BY <2>1, <2>2 DEF Flows
  <2> QED  BY <2>3 DEF Settings
<1>2. /\ flow \in Flows /\ OnePlace(flow) /\ BoxOK(flow) /\ Upwards(flow.direct)
      /\ (\A s \in flow.resolving : s.entry.hop # "none") /\ gen \in Gens /\ closedGens \subseteq Gens
  BY DEF LoggerInv, PlacesInv, FlowOK
<1>3. ring \in Blackboxes /\ latest \in Seq(Nat)
  BY <1>2, OffIsNoRing DEF Blackboxes, Flows
<1>4. IF ring = Off THEN latest = <<>> ELSE RingArray(ring) = latest
  <2>1. CASE ~blackbox
    BY <2>1
  <2>2. CASE blackbox /\ flow.ring = Off
    <3>1. RingArray(NewRing(RingSize)) = <<>> /\ NewRing(RingSize) # Off
      BY OffIsNoRing, EmptyRing, LoggerConstants
    <3> QED  BY <1>2, <2>2, <3>1 DEF BoxOK
  <2>3. CASE blackbox /\ flow.ring # Off
    BY <1>2, <2>3 DEF BoxOK
  <2> QED  BY <2>1, <2>2, <2>3
<1> HIDE DEF ring, latest
<1>5. /\ flow' \in Flows /\ flow'.ring = ring /\ flow'.latest = latest
      /\ flow'.resolving = flow.resolving /\ flow'.direct = flow.direct
      /\ flow'.buffered = flow.buffered /\ flow'.shown = flow.shown /\ flow'.gone = flow.gone
      /\ flow'.lost = flow.lost
  BY <1>1, <1>2, <1>3 DEF Flows
<1>6. \A n : (InHop(flow', n) <=> InHop(flow, n)) /\ (InTransport(flow', n) <=> InTransport(flow, n))
  BY <1>5 DEF InHop, InTransport
<1>7. OnePlace(flow') /\ \A n : InFlow(flow', n) <=> InFlow(flow, n)
  BY <1>2, <1>5, <1>6 DEF OnePlace, InFlow
<1>8. FlowOK(flow')
  BY <1>2, <1>4, <1>5, <1>7 DEF FlowOK, BoxOK
<1>9. gen' \in Gens
  BY <1>1, <1>2, LoggerConstants DEF Gens
<1>10. PlacesInv'
  BY <1>1, <1>2, <1>5, <1>7, <1>8, <1>9, PlacesStay
<1>11. \A q \in requests : RequestOK(q)'
  BY <1>5, <1>6, RequestsKept
<1> QED  BY <1>1, <1>10, <1>11 DEF LoggerInv

\* What does not touch the entries keeps them in their places.
LEMMA EntriesStay ==
    ASSUME LoggerInv, UNCHANGED <<logged, flow, settingsVars, pauseVars>>, closedGens' \subseteq Gens
    PROVE  PlacesInv' /\ \A q \in requests : RequestOK(q)'
<1>1. FlowOK(flow) /\ gen \in Gens /\ enabled \in BOOLEAN
  BY DEF LoggerInv, PlacesInv
<1>2. PlacesInv'
  BY <1>1, PlacesStay
<1>3. \A q \in requests : RequestOK(q)'
  BY RequestsKept
<1> QED  BY <1>2, <1>3

\* A call of flush() or close() preserves the invariant.
LEMMA CallKeeps ==
    ASSUME LoggerInv, NEW kind \in {"flush", "close"}, Call(kind) PROVE LoggerInv'
<1>1. /\ UNCHANGED <<logged, flow, settingsVars, pauseVars, closedGens>>
      /\ requests' = requests \cup {Request(kind, flow')}
  BY DEF Call
<1>2. PlacesInv' /\ \A q \in requests : RequestOK(q)'
  BY <1>1, EntriesStay DEF LoggerInv, PlacesInv
<1>4. \A q : q = Request(kind, flow') => RequestOK(q)'
  BY <1>1, <1>2, RequestsNew
<1> QED  BY <1>1, <1>2, <1>4 DEF LoggerInv

\* The deliveries of a transport preserve the invariant.
LEMMA DeliveriesKeep ==
    ASSUME LoggerInv, NEW g \in Gens, TransportDelivers(g)
    PROVE  LoggerInv'
<1>1. /\ UNCHANGED <<logged, settingsVars, pauseVars, closedGens, requests>>
      /\ flow' = Shows(flow, g)
  BY DEF TransportDelivers
<1>2. /\ FlowOK(flow) /\ gen \in Gens /\ enabled \in BOOLEAN /\ closedGens \subseteq Gens
  BY DEF LoggerInv, PlacesInv
<1>3. /\ FlowOK(flow') /\ flow'.direct = flow.direct /\ flow'.gone = flow.gone
      /\ flow'.lost = flow.lost /\ flow'.shown = flow.shown \cup flow.buffered[g]
      /\ \A h \in Gens : h # g => flow'.buffered[h] = flow.buffered[h]
      /\ \A n : InFlow(flow', n) <=> InFlow(flow, n)
      /\ \A n : InHop(flow', n) <=> InHop(flow, n)
  BY <1>1, <1>2, ShowsKeeps
<1>4. PlacesInv'
  BY <1>1, <1>2, <1>3, PlacesStay
<1>5. \A h \in Gens : flow.buffered[h] \subseteq flow'.buffered[h] \cup flow'.shown
  BY <1>3
<1>6. \A q \in requests : RequestOK(q)'
  BY <1>3, <1>5, RequestsKept
<1> QED  BY <1>1, <1>4, <1>6 DEF LoggerInv

\* The end of waitForIdle() preserves the invariant: of what the call has to see
\* through, nothing is in a lookup any more.
LEMMA IdleKeeps == ASSUME LoggerInv, NEW q \in requests, Idle(q) PROVE LoggerInv'
<1>0. PICK p : p = [q EXCEPT !.to = gen, !.given = flow.buffered[gen]]
  OBVIOUS
<1>1. /\ UNCHANGED <<logged, flow, settingsVars, pauseVars>> /\ requests' = (requests \ {q}) \cup {p}
      /\ closedGens' = closedGens \/ closedGens' = closedGens \cup {gen}
      /\ q.to = 0 /\ q.on \cap {r.entry.n : r \in flow.resolving} = {}
  BY <1>0 DEF Idle
<1>2. gen \in Gens /\ closedGens' \subseteq Gens /\ gen # 0
  <2>1. gen \in Gens /\ closedGens \subseteq Gens
    BY DEF LoggerInv, PlacesInv
  <2>2. gen # 0
    BY <2>1 DEF Gens
  <2> QED  BY <1>1, <2>1, <2>2
<1>3. PlacesInv' /\ \A x \in requests : RequestOK(x)'
  BY <1>1, <1>2, EntriesStay
<1>4. RequestOK(p)'
  <2>1. q \in Requests /\ flow.buffered[gen] \subseteq Nat
    BY <1>2 DEF LoggerInv, RequestOK, PlacesInv, FlowOK, Flows
  <2>2. p \in Requests /\ p.to = gen /\ p.given = flow.buffered[gen] /\ p.upTo = q.upTo
    BY <1>0, <1>2, <2>1 DEF Requests
  <2>3. ASSUME NEW n \in p.upTo
        PROVE  \/ n \in flow.shown \cup flow.gone \cup flow.lost \cup p.given
               \/ \E g \in Gens \ {p.to} : n \in flow.buffered[g]
    <3>1. \/ n \in flow.shown \cup flow.gone \cup flow.lost
          \/ InTransport(flow, n)
          \/ n \in q.on /\ InHop(flow, n)
      BY <1>1, <2>2, <2>3 DEF LoggerInv, RequestOK
    <3>2. ~(n \in q.on /\ InHop(flow, n))
      BY <1>1 DEF InHop
    <3> QED  BY <2>2, <3>1, <3>2 DEF InTransport
  <2> QED  BY <1>1, <1>2, <2>2, <2>3 DEF RequestOK
<1> QED  BY <1>1, <1>3, <1>4 DEF LoggerInv

\* So does the end of a call.
LEMMA ReturnKeeps == ASSUME LoggerInv, NEW q \in requests, Return(q) PROVE LoggerInv'
<1>1. UNCHANGED <<logged, flow, settingsVars, pauseVars, closedGens>> /\ requests' = requests \ {q}
  BY DEF Return
<1>2. PlacesInv' /\ \A x \in requests : RequestOK(x)'
  BY <1>1, EntriesStay DEF LoggerInv, PlacesInv
<1> QED  BY <1>1, <1>2 DEF LoggerInv

\* dump() preserves the invariant.
LEMMA DumpKeeps == ASSUME LoggerInv, Dump PROVE LoggerInv'
<1>1. UNCHANGED <<logged, flow, settingsVars, pauseVars, closedGens, requests>>
  BY DEF Dump
<1>2. PlacesInv' /\ \A q \in requests : RequestOK(q)'
  BY <1>1, EntriesStay DEF LoggerInv, PlacesInv
<1> QED  BY <1>1, <1>2 DEF LoggerInv

\* The entry of a crash is an entry like the others.
LEMMA CrashEntry ==
    ASSUME LoggerInv, NEW shape \in CrashShapes
    PROVE  LET e == Numbered(shape)
           IN  /\ e \in LogEntries /\ e.n = logged + 1 /\ e.plan = shape.plan /\ e.hop = shape.hop
               /\ shape.plan \in {"builds", "drops"} /\ shape.hop \in {"none", "lookup"}
<1>1. logged \in Nat
  BY LoggerConstants DEF LoggerInv, PlacesInv
<1>2. /\ shape.level \in {"info", "error"} /\ shape.plan \in {"builds", "drops"}
      /\ shape.hop \in {"none", "lookup"}
  BY DEF CrashShapes
<1>3. Numbered(shape) \in LogEntries /\ Numbered(shape).n = logged + 1
  BY <1>1, <1>2, NumberedEntry
<1>4. Numbered(shape).plan = shape.plan /\ Numbered(shape).hop = shape.hop
  BY DEF Numbered
<1> QED  BY <1>2, <1>3, <1>4

\* A crash preserves the invariant.
LEMMA CrashKeeps == ASSUME LoggerInv, NEW shape \in CrashShapes, Crash(shape) PROVE LoggerInv'
<1> DEFINE e == Numbered(shape)
<1>1. /\ logged < MaxLogCalls /\ logged' = logged + 1 /\ LogWrite(e, {})
      /\ UNCHANGED <<settingsVars, closedGens>>
      /\ requests' = requests \/ requests' = requests \cup {Request("flush", flow')}
  BY DEF Crash, PostMortem
<1>2. e \in LogEntries /\ e.n = logged + 1
  BY CrashEntry
<1> HIDE DEF e
<1>3. PlacesInv' /\ \A q \in requests : RequestOK(q)'
  BY <1>1, <1>2, LogWriteKeeps
<1>4. \A q : q = Request("flush", flow') => RequestOK(q)'
  BY <1>1, <1>3, RequestsNew
<1> QED  BY <1>1, <1>3, <1>4 DEF LoggerInv

\* So do a crash that is not logged and the end of a dump.
LEMMA FlushesKeep ==
    ASSUME LoggerInv, UNCHANGED <<logged, flow, settingsVars, pauseVars, closedGens>>,
           requests' = requests \/ requests' = requests \cup {Request("flush", flow')}
    PROVE  LoggerInv'
<1>1. PlacesInv' /\ \A q \in requests : RequestOK(q)'
  BY EntriesStay DEF LoggerInv, PlacesInv
<1>2. \A q : q = Request("flush", flow') => RequestOK(q)'
  BY <1>1, RequestsNew
<1> QED  BY <1>1, <1>2 DEF LoggerInv

\* The inductive invariant: every step keeps it.
THEOREM LoggerInvariant == LoggerSpec => []LoggerInv
<1>1. LoggerInit => LoggerInv
  BY LoggerInitInv
<1>2. LoggerInv /\ [LoggerNext]_loggerVars => LoggerInv'
  <2> SUFFICES ASSUME LoggerInv, [LoggerNext]_loggerVars PROVE LoggerInv'
    OBVIOUS
  <2>1. ASSUME NEW shape \in EntryShapes, Log(shape) PROVE LoggerInv'
    BY <2>1, LogKeeps
  <2>2. ASSUME NEW r \in flow.resolving, Resolved(r) PROVE LoggerInv'
    BY <2>2, ResolvedKeeps
  <2>3. CASE Pause
    BY <2>3, PauseKeeps
  <2>4. CASE Resume
    BY <2>4, ResumeKeepsAll
  <2>5. ASSUME NEW on \in BOOLEAN, NEW blackbox \in BOOLEAN, Settings(on, blackbox) PROVE LoggerInv'
    BY <2>5, SettingsKeeps
  <2>6. CASE Call("flush") \/ Call("close")
    BY <2>6, CallKeeps
  <2>7. CASE Dump
    BY <2>7, DumpKeeps
  <2>8. ASSUME NEW g \in Gens, TransportDelivers(g) PROVE LoggerInv'
    BY <2>8, DeliveriesKeep
  <2>9. ASSUME NEW q \in requests, Idle(q) \/ Return(q) PROVE LoggerInv'
    BY <2>9, IdleKeeps, ReturnKeeps
  <2>10. ASSUME NEW shape \in CrashShapes, Crash(shape) PROVE LoggerInv'
    BY <2>10, CrashKeeps
  <2>11. CASE CrashGated
    BY <2>11, FlushesKeep DEF CrashGated, PostMortem
  <2>12. ASSUME NEW d \in dumps, DumpEnds(d) PROVE LoggerInv'
    BY <2>12, FlushesKeep DEF DumpEnds
  <2>13. CASE UNCHANGED loggerVars
    BY <2>13, FlushesKeep
  <2> QED  BY <2>1, <2>2, <2>3, <2>4, <2>5, <2>6, <2>7, <2>8, <2>9, <2>10, <2>11, <2>12, <2>13
           DEF LoggerNext
<1> QED  BY <1>1, <1>2, PTL DEF LoggerSpec

-----------------------------------------------------------------------------
\* A set without two different elements is of size one at most.
LEMMA AtMostOne ==
    ASSUME NEW S, \A x, y \in S : x = y
    PROVE  Cardinality(S) = IF S = {} THEN 0 ELSE 1
<1>1. CASE S = {}
  BY <1>1, FS_EmptySet
<1>2. CASE S # {}
  <2>1. PICK x : S = {x}
    BY <1>2
  <2>2. Cardinality({x}) = 1
    BY FS_Singleton
  <2> QED  BY <1>2, <2>1, <2>2
<1> QED  BY <1>1, <1>2

\* The invariant puts every entry in one place.
LEMMA InvHasOnePlace == LoggerInv => EveryEntryOnce
<1> SUFFICES ASSUME LoggerInv, NEW n \in 1 .. logged
             PROVE  Cardinality({i \in DOMAIN pauseBuffer : pauseBuffer[i].n = n})
                    + Cardinality({r \in flow.resolving : r.entry.n = n})
                    + Cardinality({g \in Gens : n \in flow.buffered[g]})
                    + Cardinality({i \in 1 .. 4 :
                        n \in <<flow.shown, flow.gone, flow.lost, pauseDropped>>[i]}) = 1
  BY DEF EveryEntryOnce
<1> DEFINE S1 == {i \in DOMAIN pauseBuffer : pauseBuffer[i].n = n}
           S2 == {r \in flow.resolving : r.entry.n = n}
           S3 == {g \in Gens : n \in flow.buffered[g]}
           out == <<flow.shown, flow.gone, flow.lost, pauseDropped>>
           S4 == {i \in 1 .. 4 : n \in out[i]}
<1>0. /\ OnePlace(flow) /\ pauseBuffer \in Seq(LogEntries)
      /\ \A i, j \in DOMAIN pauseBuffer : i < j => pauseBuffer[i].n < pauseBuffer[j].n
      /\ InFlow(flow, n) \/ Held(n) \/ n \in pauseDropped
      /\ InFlow(flow, n) => ~Held(n) /\ n \notin pauseDropped
      /\ Held(n) => n \notin pauseDropped
  BY DEF LoggerInv, PlacesInv, FlowOK
<1>1. Cardinality(S1) = IF Held(n) THEN 1 ELSE 0
  <2>1. ASSUME NEW i \in S1, NEW j \in S1 PROVE i = j
    <3>1. i \in Nat /\ j \in Nat /\ pauseBuffer[i].n = n /\ pauseBuffer[j].n = n
      BY <1>0
    <3>2. n \in Nat /\ ~(n < n)
      BY LoggerConstants DEF LoggerInv, PlacesInv
    <3> QED  BY <1>0, <3>1, <3>2
  <2>2. S1 # {} <=> Held(n)
    BY DEF Held
  <2> HIDE DEF S1
  <2> QED  BY <2>1, <2>2, AtMostOne
<1>2. Cardinality(S2) = IF InHop(flow, n) THEN 1 ELSE 0
  <2>1. \A r, s \in S2 : r = s
    BY <1>0 DEF OnePlace
  <2>2. S2 # {} <=> InHop(flow, n)
    BY DEF InHop
  <2> HIDE DEF S2
  <2> QED  BY <2>1, <2>2, AtMostOne
<1>3. Cardinality(S3) = IF InTransport(flow, n) THEN 1 ELSE 0
  <2>1. \A g, h \in S3 : g = h
    BY <1>0 DEF OnePlace
  <2>2. S3 # {} <=> InTransport(flow, n)
    BY DEF InTransport
  <2> HIDE DEF S3
  <2> QED  BY <2>1, <2>2, AtMostOne
<1>4. Cardinality(S4) = IF n \in flow.shown \cup flow.gone \cup flow.lost \cup pauseDropped THEN 1 ELSE 0
  <2>1. /\ out[1] = flow.shown /\ out[2] = flow.gone /\ out[3] = flow.lost /\ out[4] = pauseDropped
        /\ 1 .. 4 = {1, 2, 3, 4}
    OBVIOUS
  <2> HIDE DEF out
  <2>2. n \in flow.shown \cup flow.gone \cup flow.lost => n \notin pauseDropped
    BY <1>0 DEF InFlow
  <2>3. \A i, j \in S4 : i = j
    BY <1>0, <2>1, <2>2 DEF OnePlace
  <2>4. S4 # {} <=> n \in flow.shown \cup flow.gone \cup flow.lost \cup pauseDropped
    BY <2>1
  <2> HIDE DEF S4
  <2> QED  BY <2>3, <2>4, AtMostOne
<1> HIDE DEF S1, S2, S3, S4
<1>5. Cardinality(S1) + Cardinality(S2) + Cardinality(S3) + Cardinality(S4) = 1
  <2>1. CASE Held(n)
    <3>1. ~InHop(flow, n) /\ ~InTransport(flow, n)
          /\ n \notin flow.shown \cup flow.gone \cup flow.lost \cup pauseDropped
      BY <1>0, <2>1 DEF InFlow
    <3> QED  BY <1>1, <1>2, <1>3, <1>4, <2>1, <3>1
  <2>2. CASE InHop(flow, n)
    <3>1. ~Held(n) /\ ~InTransport(flow, n)
          /\ n \notin flow.shown \cup flow.gone \cup flow.lost \cup pauseDropped
      BY <1>0, <2>2 DEF InFlow, OnePlace
    <3> QED  BY <1>1, <1>2, <1>3, <1>4, <2>2, <3>1
  <2>3. CASE InTransport(flow, n)
    <3>1. ~Held(n) /\ ~InHop(flow, n)
          /\ n \notin flow.shown \cup flow.gone \cup flow.lost \cup pauseDropped
      BY <1>0, <2>3 DEF InFlow, OnePlace
    <3> QED  BY <1>1, <1>2, <1>3, <1>4, <2>3, <3>1
  <2>4. CASE n \in flow.shown \cup flow.gone \cup flow.lost \cup pauseDropped
    <3>1. ~Held(n) /\ ~InHop(flow, n) /\ ~InTransport(flow, n)
      BY <1>0, <2>4 DEF InFlow, OnePlace
    <3> QED  BY <1>1, <1>2, <1>3, <1>4, <2>4, <3>1
  <2> QED  BY <1>0, <2>1, <2>2, <2>3, <2>4 DEF InFlow
<1> QED  BY <1>5 DEF S1, S2, S3, S4

\* Every entry a logger was given is in one place, handed over in the order of
\* the calls, and the black box holds the last ones (EntriesConsistent).
THEOREM EntriesConsistentCorrect == LoggerSpec => []EntriesConsistent
<1>1. LoggerInv => EntriesConsistent
  <2> SUFFICES ASSUME LoggerInv PROVE EntriesConsistent
    OBVIOUS
  <2>1. PlacesInv /\ FlowOK(flow)
    BY DEF LoggerInv, PlacesInv
  <2>2. flow.shown \subseteq 1 .. logged /\ flow.gone \subseteq 1 .. logged
    BY <2>1 DEF PlacesInv, InFlow
  <2>3. LoggerTypeOK
    BY <2>1, <2>2 DEF PlacesInv, LoggerTypeOK
  <2>4. OrderKept
    BY <2>1 DEF FlowOK, Upwards, OrderKept
  <2>5. RecorderKeepsLast
    BY <2>1 DEF FlowOK, BoxOK, RecorderKeepsLast
  <2> QED  BY <2>3, <2>4, <2>5, InvHasOnePlace DEF EntriesConsistent
<1> QED  BY <1>1, LoggerInvariant, PTL

\* When a flush() or close() ends and its transport has delivered what it was
\* given, nothing the call found is left (CallsDeliver).
THEOREM CallsDeliverCorrect == LoggerSpec => CallsDeliver
<1> DEFINE Delivers == \A q \in requests \ requests' :
              q.to # 0 /\ q.given \subseteq flow.shown =>
                q.upTo \subseteq flow.shown \cup flow.gone \cup flow.lost
                   \cup UNION {flow.buffered[g] : g \in Gens \ {q.to}}
<1>1. LoggerInv => Delivers
  <2> SUFFICES ASSUME LoggerInv, NEW q \in requests, q.to # 0, q.given \subseteq flow.shown,
                      NEW n \in q.upTo
               PROVE  \/ n \in flow.shown \cup flow.gone \cup flow.lost
                      \/ n \in UNION {flow.buffered[g] : g \in Gens \ {q.to}}
    OBVIOUS
  <2>1. \/ n \in flow.shown \cup flow.gone \cup flow.lost \cup q.given
        \/ \E g \in Gens \ {q.to} : n \in flow.buffered[g]
    BY DEF LoggerInv, RequestOK
  <2> QED  BY <2>1
<1>2. LoggerSpec => [][LoggerInv]_loggerVars
  BY LoggerInvariant, PTL
<1>3. [LoggerInv]_loggerVars => [Delivers]_loggerVars
  BY <1>1
<1> QED  BY <1>2, <1>3, PTL DEF CallsDeliver

\* The black box file of a crash holds the entry of the crash (CrashIsRecorded).
THEOREM CrashIsRecordedCorrect == LoggerSpec => CrashIsRecorded
<1> DEFINE Recorded == \A d \in dumps' \ dumps : d.crash /\ ~paused /\ enabled /\ logged' # logged =>
              \/ logged' \in d.entries \cup flow'.gone
              \/ \E r \in flow'.resolving : r.entry.n = logged'
<1>1. LoggerInv /\ [LoggerNext]_loggerVars => Recorded
  <2> SUFFICES ASSUME LoggerInv, [LoggerNext]_loggerVars, NEW d \in dumps', d \notin dumps,
                      d.crash, ~paused, enabled, logged' # logged
               PROVE  logged' \in d.entries \cup flow'.gone \/ InHop(flow', logged')
    BY DEF InHop
  <2>1. PICK shape \in CrashShapes : Crash(shape)
    BY DEF LoggerNext, Log, Resolved, Pause, Resume, Settings, Call, Dump, TransportDelivers, Idle,
           Return, CrashGated, DumpEnds, loggerVars
  <2> DEFINE e == Numbered(shape)
  <2>3. /\ e \in LogEntries /\ e.n = logged + 1 /\ e.plan \in {"builds", "drops"}
        /\ e.hop \in {"none", "lookup"}
    BY CrashEntry
  <2>4. /\ logged' = logged + 1 /\ LogWrite(e, {})
        /\ dumps' = dumps \cup {[s EXCEPT !.crash = TRUE] : s \in Snapshot(flow'.ring)}
    BY <2>1 DEF Crash, PostMortem
  <2> HIDE DEF e
  <2>5. flow' = WriteEntry(flow, e, {})
    BY <2>4 DEF LogWrite
  <2>6. /\ FlowOK(flow) /\ gen \in Gens /\ logged \in Nat
        /\ (\A n : InFlow(flow, n) => n \in 1 .. logged)
        /\ \A i \in DOMAIN flow.direct : flow.direct[i] <= logged
        /\ flow.direct \in Seq(Nat) /\ flow \in Flows
    BY LoggerConstants DEF LoggerInv, PlacesInv, FlowOK, Flows
  <2>7. ~InFlow(flow, e.n) /\ \A i \in DOMAIN flow.direct : flow.direct[i] < e.n
    BY <2>3, <2>6
  <2>8. /\ flow.ring = Off => flow'.ring = Off
        /\ e.plan = "builds" /\ e.hop = "none" /\ flow.ring # Off => e.n \in ToSet(RingArray(flow'.ring))
        /\ e.hop # "none" => InHop(flow', e.n)
    BY <2>3, <2>5, <2>6, <2>7, WriteKeeps
  <2>9. CASE e.hop = "lookup"
    BY <2>3, <2>4, <2>8, <2>9
  <2>10. CASE e.hop = "none" /\ e.plan = "drops"
    <3>1. flow' = [flow EXCEPT !.gone = @ \cup {e.n}]
      BY <2>5, <2>10 DEF WriteEntry, Deliver
    <3> QED  BY <2>3, <2>4, <2>6, <3>1 DEF Flows
  <2>11. CASE e.hop = "none" /\ e.plan = "builds"
    <3>1. PICK s \in Snapshot(flow'.ring) : d = [s EXCEPT !.crash = TRUE]
      BY <2>4
    <3>2. flow'.ring # Off /\ s = [entries |-> ToSet(RingArray(flow'.ring)), crash |-> FALSE]
      BY <3>1 DEF Snapshot
    <3>3. d.entries = ToSet(RingArray(flow'.ring))
      BY <3>1, <3>2
    <3> QED  BY <2>3, <2>4, <2>8, <2>11, <3>2, <3>3
  <2> QED  BY <2>3, <2>9, <2>10, <2>11
<1>2. LoggerSpec => [][LoggerInv /\ LoggerNext]_loggerVars
  BY LoggerInvariant, PTL DEF LoggerSpec
<1>3. [LoggerInv /\ LoggerNext]_loggerVars => [Recorded]_loggerVars
  BY <1>1
<1> QED  BY <1>2, <1>3, PTL DEF CrashIsRecorded

-----------------------------------------------------------------------------
(* The adaptive transport over the repeat transport.  Its groups.          *)

\* The groups of a counter over the keys K: one group for a key, cap at most.
GroupSet(K) == [key : K, count : Nat \ {0}, id : Nat]
KeysOnce(groups) == \A i, j \in DOMAIN groups : groups[i].key = groups[j].key => i = j
CounterOK(gc, K, cap) ==
    /\ gc \in [groups : Seq(GroupSet(K)), started : Nat]
    /\ KeysOnce(gc.groups) /\ Len(gc.groups) <= cap

\* The place of a key is a group of that key.
LEMMA PlaceFacts ==
    ASSUME NEW G, NEW gs \in Seq(G), NEW k, Has(gs, k)
    PROVE  Place(gs, k) \in 1 .. Len(gs) /\ gs[Place(gs, k)].key = k
BY DEF Has, Place

\* A group less: the others are as they were, and none has its key.
LEMMA GroupLess ==
    ASSUME NEW K, NEW gs \in Seq(GroupSet(K)), KeysOnce(gs), NEW p \in 1 .. Len(gs)
    PROVE  LET r == RemoveAt(gs, p)
           IN  /\ r \in Seq(GroupSet(K)) /\ Len(r) = Len(gs) - 1 /\ KeysOnce(r)
               /\ \A g : g \in ToSet(r) <=> g \in ToSet(gs) /\ g # gs[p]
               /\ \A g \in ToSet(r) : g.key # gs[p].key
<1> DEFINE r == RemoveAt(gs, p)
<1>1. /\ r \in Seq(GroupSet(K)) /\ Len(r) = Len(gs) - 1 /\ Len(gs) \in Nat
      /\ \A k \in 1 .. Len(gs) - 1 : r[k] = IF k < p THEN gs[k] ELSE gs[k + 1]
  <2>1. r = SubSeq(gs, 1, p - 1) \o SubSeq(gs, p + 1, Len(gs))
    BY DEF RemoveAt
  <2>2. Len(gs) \in Nat
    OBVIOUS
  <2> HIDE DEF r
  <2> QED  BY <2>1, <2>2, CutOut
<1> HIDE DEF r
<1>2. KeysOnce(r)
  <2> SUFFICES ASSUME NEW i \in 1 .. Len(gs) - 1, NEW j \in 1 .. Len(gs) - 1, r[i].key = r[j].key
               PROVE  i = j
    BY <1>1 DEF KeysOnce
  <2> DEFINE PlaceOf(k) == IF k < p THEN k ELSE k + 1
  <2>1. \A k \in 1 .. Len(gs) - 1 : PlaceOf(k) \in 1 .. Len(gs) /\ r[k] = gs[PlaceOf(k)]
    BY <1>1
  <2>2. PlaceOf(i) = PlaceOf(j) => i = j
    OBVIOUS
  <2> HIDE DEF PlaceOf
  <2>3. PlaceOf(i) = PlaceOf(j)
    BY <2>1 DEF KeysOnce
  <2> QED  BY <2>2, <2>3
<1>3. ASSUME NEW g \in ToSet(r) PROVE g \in ToSet(gs) /\ g.key # gs[p].key
  <2>1. PICK k \in 1 .. Len(r) : g = r[k]
    BY <1>1 DEF ToSet
  <2>2. PICK l \in 1 .. Len(gs) : l # p /\ g = gs[l]
    BY <1>1, <2>1
  <2> QED  BY <2>2 DEF KeysOnce, ToSet
<1>4. ASSUME NEW g \in ToSet(gs), g # gs[p] PROVE g \in ToSet(r)
  <2>1. PICK l \in 1 .. Len(gs) : g = gs[l] /\ l # p
    BY <1>4 DEF ToSet
  <2>2. CASE l < p
    <3>1. l \in 1 .. Len(r) /\ r[l] = g
      BY <1>1, <2>1, <2>2
    <3> QED  BY <1>1, <3>1 DEF ToSet
  <2>3. CASE l > p
    <3>1. l - 1 \in 1 .. Len(r) /\ r[l - 1] = g
      BY <1>1, <2>1, <2>3
    <3> QED  BY <1>1, <3>1 DEF ToSet
  <2> QED  BY <2>1, <2>2, <2>3
<1> QED  BY <1>1, <1>2, <1>3, <1>4 DEF r

\* A group of a key that has none, behind the others.
LEMMA GroupMore ==
    ASSUME NEW K, NEW gs \in Seq(GroupSet(K)), KeysOnce(gs), NEW g \in GroupSet(K),
           \A h \in ToSet(gs) : h.key # g.key
    PROVE  /\ Append(gs, g) \in Seq(GroupSet(K)) /\ Len(Append(gs, g)) = Len(gs) + 1
           /\ KeysOnce(Append(gs, g)) /\ ToSet(Append(gs, g)) = ToSet(gs) \cup {g}
<1>1. /\ Append(gs, g) \in Seq(GroupSet(K)) /\ Len(Append(gs, g)) = Len(gs) + 1
      /\ ToSet(Append(gs, g)) = ToSet(gs) \cup {g}
  BY AppendFacts
<1>2. KeysOnce(Append(gs, g))
  <2>1. /\ \A i \in 1 .. Len(gs) : Append(gs, g)[i] = gs[i] /\ gs[i] \in ToSet(gs)
        /\ Append(gs, g)[Len(gs) + 1] = g /\ DOMAIN Append(gs, g) = 1 .. Len(gs) + 1
        /\ Len(gs) \in Nat /\ DOMAIN gs = 1 .. Len(gs)
    BY DEF ToSet
  <2> SUFFICES ASSUME NEW i \in 1 .. Len(gs) + 1, NEW j \in 1 .. Len(gs) + 1,
                      Append(gs, g)[i].key = Append(gs, g)[j].key
               PROVE  i = j
    BY <2>1 DEF KeysOnce
  <2>2. CASE i \in 1 .. Len(gs) /\ j \in 1 .. Len(gs)
    BY <2>1, <2>2 DEF KeysOnce
  <2>3. CASE i = Len(gs) + 1 /\ j \in 1 .. Len(gs)
    BY <2>1, <2>3
  <2>4. CASE i \in 1 .. Len(gs) /\ j = Len(gs) + 1
    BY <2>1, <2>4
  <2> QED  BY <2>1, <2>2, <2>3, <2>4
<1> QED  BY <1>1, <1>2

\* A group that counts one entry more.
Counting(g) == [g EXCEPT !.count = @ + 1]

\* absorb(): the group of the key counts one more and comes last.
LEMMA AbsorbKeeps ==
    ASSUME NEW K, NEW cap \in Nat, NEW gc, CounterOK(gc, K, cap), NEW k, Has(gc.groups, k)
    PROVE  LET x == Absorb(gc, k)
               g == gc.groups[Place(gc.groups, k)]
               h == Counting(g)
           IN  /\ CounterOK(x, K, cap) /\ g \in GroupSet(K) /\ h \in GroupSet(K)
               /\ g \in ToSet(gc.groups) /\ g.key = k
               /\ h.key = k /\ h.count = g.count + 1 /\ h.id = g.id
               /\ ToSet(x.groups) = (ToSet(gc.groups) \ {g}) \cup {h}
               /\ \A w \in [GroupSet(K) -> Nat] :
                    Weigh(x.groups, w) + w[g] = Weigh(gc.groups, w) + w[h]
<1> DEFINE gs == gc.groups
           p == Place(gs, k)
           g == gs[p]
           h == Counting(g)
           r == RemoveAt(gs, p)
           x == Absorb(gc, k)
<1>1. gs \in Seq(GroupSet(K)) /\ KeysOnce(gs) /\ Len(gs) <= cap /\ gc.started \in Nat
      /\ gc \in [groups : Seq(GroupSet(K)), started : Nat]
  BY DEF CounterOK
<1>2. p \in 1 .. Len(gs) /\ g.key = k
  BY <1>1, PlaceFacts
<1>3. g \in GroupSet(K) /\ g \in ToSet(gs)
  BY <1>1, <1>2 DEF ToSet
<1>4. h \in GroupSet(K) /\ h.key = k /\ h.count = g.count + 1 /\ h.id = g.id
  BY <1>2, <1>3 DEF GroupSet, Counting
<1>5. x = [gc EXCEPT !.groups = Append(r, h)]
  BY DEF Absorb, WithoutKey, Counting
<1>6. /\ r \in Seq(GroupSet(K)) /\ Len(r) = Len(gs) - 1 /\ KeysOnce(r)
      /\ \A e : e \in ToSet(r) <=> e \in ToSet(gs) /\ e # g
      /\ \A e \in ToSet(r) : e.key # g.key
  <2> HIDE DEF gs, p, r
  <2>1. r = RemoveAt(gs, p)
    BY DEF r
  <2> QED  BY ONLY <2>1, <1>1, <1>2, GroupLess DEF g
<1> HIDE DEF h, r, x
<1>7. /\ Append(r, h) \in Seq(GroupSet(K)) /\ Len(Append(r, h)) = Len(r) + 1
      /\ KeysOnce(Append(r, h)) /\ ToSet(Append(r, h)) = ToSet(r) \cup {h}
  <2>1. \A e \in ToSet(r) : e.key # h.key
    BY <1>2, <1>4, <1>6
  <2> QED  BY ONLY <2>1, <1>4, <1>6, GroupMore
<1>8. x.groups = Append(r, h) /\ x \in [groups : Seq(GroupSet(K)), started : Nat]
  BY <1>1, <1>5, <1>7
<1>9. CounterOK(x, K, cap)
  <2>1. Len(gs) \in Nat
    BY <1>1
  <2> QED  BY <1>1, <1>6, <1>7, <1>8, <2>1 DEF CounterOK
<1>10. ASSUME NEW w \in [GroupSet(K) -> Nat] PROVE Weigh(x.groups, w) + w[g] = Weigh(gs, w) + w[h]
  <2>1. Weigh(gs, w) = Weigh(r, w) + w[g] /\ w[g] \in Nat
    BY <1>1, <1>2, WeighWithout DEF r
  <2>2. Weigh(Append(r, h), w) = Weigh(r, w) + w[h] /\ Weigh(r, w) \in Nat
    <3>1. r \in Seq(GroupSet(K)) /\ h \in GroupSet(K)
      BY <1>4, <1>6
    <3> QED  BY ONLY w \in [GroupSet(K) -> Nat], <3>1, WeighAppend
  <2>3. w[h] \in Nat
    BY <1>4
  <2> QED  BY <1>8, <2>1, <2>2, <2>3
<1>11. ToSet(x.groups) = (ToSet(gs) \ {g}) \cup {h}
  BY <1>6, <1>7, <1>8
<1> QED  BY <1>2, <1>3, <1>4, <1>9, <1>10, <1>11 DEF x, h

\* start() of a key without a group: the new group comes last, the oldest goes
\* when the counter is full.
LEMMA StartKeeps ==
    ASSUME NEW K, NEW cap \in Nat \ {0}, NEW gc, CounterOK(gc, K, cap), NEW k \in K,
           ~Has(gc.groups, k)
    PROVE  LET x == Start(gc, k, cap)
               out == Evicted(gc, k, cap)
               g == [key |-> k, count |-> 1, id |-> gc.started + 1]
           IN  /\ CounterOK(x, K, cap) /\ out \in Seq(GroupSet(K)) /\ g \in GroupSet(K)
               /\ ToSet(out) \subseteq ToSet(gc.groups)
               /\ ToSet(x.groups) = (ToSet(gc.groups) \ ToSet(out)) \cup {g}
               /\ \A w \in [GroupSet(K) -> Nat] :
                    Weigh(x.groups, w) + Weigh(out, w) = Weigh(gc.groups, w) + w[g]
<1> DEFINE gs == gc.groups
           x == Start(gc, k, cap)
           out == Evicted(gc, k, cap)
           g == [key |-> k, count |-> 1, id |-> gc.started + 1]
           kept == IF Len(gs) >= cap THEN Tail(gs) ELSE gs
<1>1. gs \in Seq(GroupSet(K)) /\ KeysOnce(gs) /\ Len(gs) <= cap /\ gc.started \in Nat
      /\ Len(gs) \in Nat
  BY DEF CounterOK
<1>2. g \in GroupSet(K) /\ g.key = k
  BY <1>1 DEF GroupSet
<1>3. x.groups = Append(kept, g) /\ x.started = gc.started + 1
      /\ x = [groups |-> Append(kept, g), started |-> gc.started + 1]
  BY DEF Start, WithoutKey
<1>4. out = IF Len(gs) >= cap THEN <<Head(gs)>> ELSE <<>>
  BY DEF Evicted, WithoutKey
<1>5. \A e \in ToSet(gs) : e.key # k
  BY DEF Has, ToSet
<1> HIDE DEF x, out, g
<1>6. /\ kept \in Seq(GroupSet(K)) /\ KeysOnce(kept) /\ Len(kept) + 1 <= cap
      /\ out \in Seq(GroupSet(K)) /\ ToSet(out) \subseteq ToSet(gs)
      /\ ToSet(kept) = ToSet(gs) \ ToSet(out)
      /\ \A w \in [GroupSet(K) -> Nat] :
           /\ Weigh(kept, w) + Weigh(out, w) = Weigh(gs, w)
           /\ Weigh(kept, w) \in Nat /\ Weigh(out, w) \in Nat
  <2>1. CASE ~(Len(gs) >= cap)
    <3>1. kept = gs /\ out = <<>> /\ ToSet(<<>>) = {} /\ <<>> \in Seq(GroupSet(K))
      BY <1>4, <2>1 DEF ToSet
    <3>2. ASSUME NEW w \in [GroupSet(K) -> Nat]
          PROVE  Weigh(gs, w) \in Nat /\ Weigh(<<>>, w) = 0
      BY ONLY w \in [GroupSet(K) -> Nat], <1>1, WeighBasics
    <3> HIDE DEF kept
    <3> QED  BY <1>1, <2>1, <3>1, <3>2
  <2>2. CASE Len(gs) >= cap
    <3>1. 1 \in 1 .. Len(gs) /\ Len(gs) = cap
      BY <1>1, <2>2
    <3>2. RemoveAt(gs, 1) = Tail(gs) /\ Head(gs) = gs[1]
      <4>1. RemoveAt(gs, 1) = SubSeq(gs, 1, 0) \o SubSeq(gs, 2, Len(gs))
        BY DEF RemoveAt
      <4>2. /\ SubSeq(gs, 1, 0) = <<>> /\ SubSeq(gs, 2, Len(gs)) \in Seq(GroupSet(K))
            /\ SubSeq(gs, 2, Len(gs)) = Tail(gs) /\ Head(gs) = gs[1]
        BY <1>1, <3>1
      <4>3. <<>> \o Tail(gs) = Tail(gs)
        BY <4>2
      <4> QED  BY <4>1, <4>2, <4>3
    <3>3. kept = RemoveAt(gs, 1) /\ out = <<gs[1]>>
      BY <1>4, <2>2, <3>2
    <3> HIDE DEF kept
    <3>4. /\ kept \in Seq(GroupSet(K)) /\ Len(kept) = Len(gs) - 1 /\ KeysOnce(kept)
          /\ \A e : e \in ToSet(kept) <=> e \in ToSet(gs) /\ e # gs[1]
      BY <1>1, <3>1, <3>3, GroupLess
    <3>5. gs[1] \in GroupSet(K) /\ out \in Seq(GroupSet(K)) /\ gs[1] \in ToSet(gs) /\ ToSet(out) = {gs[1]}
      BY <1>1, <3>1, <3>3 DEF ToSet
    <3>6. ASSUME NEW w \in [GroupSet(K) -> Nat]
          PROVE  /\ Weigh(kept, w) + Weigh(out, w) = Weigh(gs, w)
                 /\ Weigh(kept, w) \in Nat /\ Weigh(out, w) \in Nat
      <4>1. Weigh(gs, w) = Weigh(kept, w) + w[gs[1]] /\ w[gs[1]] \in Nat
        <5>1. Weigh(gs, w) = Weigh(RemoveAt(gs, 1), w) + w[gs[1]] /\ w[gs[1]] \in Nat
          BY ONLY w \in [GroupSet(K) -> Nat], <1>1, <3>1, WeighWithout
        <5> HIDE DEF Weigh
        <5> QED  BY <3>3, <5>1
      <4>2. Weigh(kept, w) \in Nat /\ \A e \in GroupSet(K) : Weigh(<<e>>, w) = w[e]
        BY ONLY w \in [GroupSet(K) -> Nat], <3>4, WeighBasics
      <4>3. Weigh(out, w) = w[gs[1]]
        BY <3>3, <3>5, <4>2
      <4> QED  BY <4>1, <4>2, <4>3
    <3> QED  BY <1>1, <3>1, <3>4, <3>5, <3>6
  <2> QED  BY <2>1, <2>2
<1> HIDE DEF kept
<1>7. /\ Append(kept, g) \in Seq(GroupSet(K)) /\ Len(Append(kept, g)) = Len(kept) + 1
      /\ KeysOnce(Append(kept, g)) /\ ToSet(Append(kept, g)) = ToSet(kept) \cup {g}
  <2>1. \A e \in ToSet(kept) : e.key # g.key
    BY <1>2, <1>5, <1>6
  <2> QED  BY ONLY <2>1, <1>2, <1>6, GroupMore
<1>8. CounterOK(x, K, cap)
  BY <1>1, <1>3, <1>6, <1>7 DEF CounterOK
<1>9. ASSUME NEW w \in [GroupSet(K) -> Nat] PROVE Weigh(x.groups, w) + Weigh(out, w) = Weigh(gs, w) + w[g]
  <2>1. Weigh(Append(kept, g), w) = Weigh(kept, w) + w[g]
    <3>1. kept \in Seq(GroupSet(K)) /\ g \in GroupSet(K)
      BY <1>2, <1>6
    <3> QED  BY ONLY w \in [GroupSet(K) -> Nat], <3>1, WeighAppend
  <2>2. w[g] \in Nat
    BY <1>2
  <2> QED  BY <1>3, <1>6, <2>1, <2>2
<1> QED  BY <1>2, <1>3, <1>6, <1>7, <1>8, <1>9 DEF x, out, g

-----------------------------------------------------------------------------
(* The repeat transport.                                                   *)

\* The states of the repeat transport: its groups are keyed by messages.
MsgKeys == Keys \cup {Notice}
RepeatMsgs == [key : MsgKeys, times : Nat]
RepeatGroups == GroupSet(RepeatMsgs)
RepeatStates == [gc : [groups : Seq(RepeatGroups), started : Nat],
                 timers : SUBSET [message : RepeatMsgs, id : Nat], closed : BOOLEAN,
                 shown : [MsgKeys -> Nat], lost : [MsgKeys -> Nat]]

\* The window timers of groups.
Timers(gs) == {Timer(g) : g \in ToSet(gs)}

\* One group for a message, and the timers of the open groups, no other.
RepeatOK(st) ==
    /\ st \in RepeatStates /\ CounterOK(st.gc, RepeatMsgs, MaxKeys)
    /\ st.timers = Timers(st.gc.groups)

\* The entries of key k the repeat transport answers for.
Account(st, k) == st.shown[k] + Unreported(st, k) + st.lost[k]

\* What a group has counted and not shown.
RestOf(k) == [g \in RepeatGroups |-> IF g.key.key = k THEN (g.count - 1) * g.key.times ELSE 0]

\* The cap of the repeat transport admits a group.
LEMMA RepeatConstants == MaxKeys \in Nat \ {0}
BY RepeatAssumption

\* What a group is made of.
LEMMA RestFacts ==
    ASSUME NEW g \in RepeatGroups
    PROVE  /\ g.key \in RepeatMsgs /\ g.key.key \in MsgKeys /\ g.key.times \in Nat
           /\ g.count \in Nat \ {0} /\ g.id \in Nat /\ (g.count - 1) * g.key.times \in Nat
<1>1. /\ g.key \in RepeatMsgs /\ g.key.key \in MsgKeys /\ g.key.times \in Nat
      /\ g.count \in Nat \ {0} /\ g.id \in Nat
  BY DEF RepeatGroups, GroupSet, RepeatMsgs
<1>2. \A a, b \in Nat : a * b \in Nat
  OBVIOUS
<1>3. g.count - 1 \in Nat
  BY <1>1
<1> QED  BY <1>1, <1>2, <1>3

\* What groups have counted and not shown is the weight of their sequence.
LEMMA RestWeights ==
    ASSUME NEW k
    PROVE  /\ RestOf(k) \in [RepeatGroups -> Nat]
           /\ \A gs \in Seq(RepeatGroups) :
                Total([i \in DOMAIN gs |->
                         IF gs[i].key.key = k THEN (gs[i].count - 1) * gs[i].key.times ELSE 0])
                  = Weigh(gs, RestOf(k))
<1>1. RestOf(k) \in [RepeatGroups -> Nat]
  BY RestFacts DEF RestOf
<1>2. ASSUME NEW gs \in Seq(RepeatGroups)
      PROVE  [i \in DOMAIN gs |->
                 IF gs[i].key.key = k THEN (gs[i].count - 1) * gs[i].key.times ELSE 0]
               = [i \in DOMAIN gs |-> RestOf(k)[gs[i]]]
  <2>1. \A i \in DOMAIN gs : gs[i] \in RepeatGroups
    OBVIOUS
  <2>2. \A i \in DOMAIN gs : RestOf(k)[gs[i]] =
           IF gs[i].key.key = k THEN (gs[i].count - 1) * gs[i].key.times ELSE 0
    BY <2>1 DEF RestOf
  <2> QED  BY <2>2, Zenon
<1> QED  BY <1>1, <1>2, Zenon DEF Weigh

\* A group at the end adds what it has not shown.
LEMMA RestBasics ==
    ASSUME NEW k, NEW s \in Seq(RepeatGroups)
    PROVE  /\ Weigh(s, RestOf(k)) \in Nat /\ Weigh(<<>>, RestOf(k)) = 0
           /\ \A g \in RepeatGroups :
                Weigh(Append(s, g), RestOf(k)) = Weigh(s, RestOf(k)) + RestOf(k)[g]
<1>1. RestOf(k) \in [RepeatGroups -> Nat]
  BY RestWeights
<1> HIDE DEF RestOf
<1> QED  BY ONLY <1>1, s \in Seq(RepeatGroups), WeighBasics

\* What open groups still have to report, as a weight.
LEMMA UnreportedIs ==
    ASSUME NEW st, st.gc.groups \in Seq(RepeatGroups), NEW k
    PROVE  Unreported(st, k) = Weigh(st.gc.groups, RestOf(k))
BY RestWeights, Zenon DEF Unreported

\* How the summaries of groups are written, one by one.
LEMMA SummariseUnfolds ==
    ASSUME NEW st, NEW gs, Len(gs) \in Nat
    PROVE  \E f : /\ Summarise(st, gs) = f[Len(gs)] /\ f[0] = st
                  /\ \A i \in 1 .. Len(gs) : f[i] = WriteSummary(f[i - 1], gs[i])
<1> DEFINE N == Len(gs)
           Step(x, i) == WriteSummary(x, gs[i])
           Unfolds(g) == g = [i \in 0 .. N |-> IF i = 0 THEN st ELSE Step(g[i - 1], i)]
           Grows(g, k) == g[0] = st /\ \A i \in 1 .. k : g[i] = Step(g[i - 1], i)
           f == CHOOSE g : Unfolds(g)
<1>0. N \in Nat
  OBVIOUS
<1>1. Summarise(st, gs) = f[N]
  BY DEF Summarise
<1>2. \E g : Unfolds(g)
  <2> DEFINE BuiltUpTo(k) == \E g : g = [i \in 0 .. k |-> g[i]] /\ Grows(g, k)
             R == {k \in Nat : BuiltUpTo(k)}
  <2>1. 0 \in R
    <3> DEFINE g == [i \in 0 .. 0 |-> st]
    <3>1. g = [i \in 0 .. 0 |-> g[i]] /\ Grows(g, 0)
      OBVIOUS
    <3> QED  BY <3>1
  <2>2. ASSUME NEW k \in Nat, k \in R PROVE k + 1 \in R
    <3> SUFFICES BuiltUpTo(k + 1)
      <4> HIDE DEF BuiltUpTo
      <4> QED  BY <2>2
    <3>1. PICK h : h = [i \in 0 .. k |-> h[i]] /\ Grows(h, k)
      BY <2>2
    <3> DEFINE g == [i \in 0 .. k + 1 |-> IF i = k + 1 THEN Step(h[k], k + 1) ELSE h[i]]
    <3> HIDE DEF Step
    <3>2. (\A i \in 0 .. k : g[i] = h[i]) /\ g[k + 1] = Step(h[k], k + 1)
      OBVIOUS
    <3>3. g = [i \in 0 .. k + 1 |-> g[i]]
      OBVIOUS
    <3> HIDE DEF g
    <3>4. g[0] = st
      BY <3>1, <3>2
    <3>5. ASSUME NEW i \in 1 .. k + 1 PROVE g[i] = Step(g[i - 1], i)
      <4>1. CASE i = k + 1
        <5>1. i - 1 = k /\ k \in 0 .. k
          BY <4>1
        <5> QED  BY <3>2, <4>1, <5>1
      <4>2. CASE i \in 1 .. k
        <5>1. i - 1 \in 0 .. k /\ i \in 0 .. k
          BY <4>2
        <5> QED  BY <3>1, <3>2, <4>2, <5>1
      <4> QED  BY <4>1, <4>2
    <3> QED  BY <3>3, <3>4, <3>5
  <2>3. N \in R
    <3> HIDE DEF R
    <3> QED  BY <2>1, <2>2, <1>0, SetInduction
  <2>4. PICK g : g = [i \in 0 .. N |-> g[i]] /\ Grows(g, N)
    BY <2>3
  <2> HIDE DEF Step, N
  <2>5. ASSUME NEW i \in 0 .. N PROVE g[i] = IF i = 0 THEN st ELSE Step(g[i - 1], i)
    <3>1. CASE i = 0
      BY <2>4, <3>1
    <3>2. CASE i # 0
      <4>1. i \in 1 .. N
        BY <1>0, <3>2
      <4> QED  BY <2>4, <3>2, <4>1
    <3> QED  BY <3>1, <3>2
  <2> QED  BY <2>4, <2>5
<1>3. Unfolds(f)
  <2> HIDE DEF Unfolds
  <2> QED  BY <1>2
<1>4. f[0] = st /\ \A i \in 1 .. N : f[i] = Step(f[i - 1], i)
  <2> HIDE DEF f, Step
  <2> QED  BY <1>3, <1>0
<1> HIDE DEF f
<1> QED  BY ONLY <1>1, <1>4

\* The summaries of groups show what the groups counted, and stop their timers.
LEMMA SummariseTells ==
    ASSUME NEW st \in RepeatStates, NEW gs \in Seq(RepeatGroups)
    PROVE  LET x == Summarise(st, gs)
           IN  /\ x \in RepeatStates /\ x.gc = st.gc /\ x.closed = st.closed /\ x.lost = st.lost
               /\ x.timers = st.timers \ Timers(gs)
               /\ \A k \in MsgKeys : x.shown[k] = st.shown[k] + Weigh(gs, RestOf(k))
<1>0. Len(gs) \in Nat /\ DOMAIN gs = 1 .. Len(gs)
  OBVIOUS
<1>1. PICK f : /\ Summarise(st, gs) = f[Len(gs)] /\ f[0] = st
               /\ \A i \in 1 .. Len(gs) : f[i] = WriteSummary(f[i - 1], gs[i])
  <2>1. Len(gs) \in Nat
    BY <1>0
  <2> QED  BY ONLY <2>1, SummariseUnfolds
<1> DEFINE N == Len(gs)
           Good(j) == LET x == f[j]
                          s == SubSeq(gs, 1, j)
                      IN  /\ x \in RepeatStates /\ x.gc = st.gc /\ x.closed = st.closed
                          /\ x.lost = st.lost /\ x.timers = st.timers \ Timers(s)
                          /\ \A k \in MsgKeys : x.shown[k] = st.shown[k] + Weigh(s, RestOf(k))
           R == {j \in Nat : j <= N => Good(j)}
<1>2. 0 \in R
  <2>1. SubSeq(gs, 1, 0) = <<>> /\ <<>> \in Seq(RepeatGroups) /\ ToSet(<<>>) = {}
    BY DEF ToSet
  <2>2. ASSUME NEW k PROVE Weigh(<<>>, RestOf(k)) = 0
    BY <2>1, RestBasics
  <2>3. \A k \in MsgKeys : st.shown[k] \in Nat
    BY DEF RepeatStates
  <2>4. Timers(<<>>) = {}
    BY <2>1 DEF Timers
  <2>5. ASSUME NEW k \in MsgKeys
        PROVE  st.shown[k] = st.shown[k] + Weigh(SubSeq(gs, 1, 0), RestOf(k))
    <3>1. Weigh(SubSeq(gs, 1, 0), RestOf(k)) = 0
      BY <2>1, <2>2
    <3> QED  BY <2>3, <3>1
  <2>6. Good(0)
    BY <1>1, <2>1, <2>4, <2>5
  <2> QED  BY <2>6
<1>3. ASSUME NEW j \in Nat, j \in R PROVE j + 1 \in R
  <2> SUFFICES ASSUME j + 1 <= N PROVE Good(j + 1)
    OBVIOUS
  <2> DEFINE x == f[j]
             y == f[j + 1]
             s == SubSeq(gs, 1, j)
             t == SubSeq(gs, 1, j + 1)
             g == gs[j + 1]
  <2>1. Good(j) /\ j + 1 \in 1 .. N /\ (j + 1) - 1 = j
    BY <1>0, <1>3
  <2>2. g \in RepeatGroups /\ s \in Seq(RepeatGroups) /\ t = Append(s, g)
    BY <1>0, <2>1
  <2>3. y = [x EXCEPT !.shown[g.key.key] = @ + (g.count - 1) * g.key.times, !.timers = @ \ {Timer(g)}]
    BY <1>1, <2>1 DEF WriteSummary
  <2>4. /\ x \in RepeatStates /\ x.gc = st.gc /\ x.closed = st.closed
        /\ x.lost = st.lost /\ x.timers = st.timers \ Timers(s)
        /\ \A k \in MsgKeys : x.shown[k] = st.shown[k] + Weigh(s, RestOf(k))
    BY <2>1
  <2> HIDE DEF x, y, s, t, g
  <2>5. /\ g.key.key \in MsgKeys /\ (g.count - 1) * g.key.times \in Nat
    BY <2>2, RestFacts
  <2> DEFINE r == (g.count - 1) * g.key.times
  <2>6. r \in Nat /\ y = [x EXCEPT !.shown[g.key.key] = @ + r, !.timers = @ \ {Timer(g)}]
    BY <2>3, <2>5
  <2>6a. \A k : RestOf(k)[g] = IF g.key.key = k THEN r ELSE 0
    BY <2>2 DEF RestOf
  <2> HIDE DEF r
  <2>7. /\ y.gc = x.gc /\ y.closed = x.closed /\ y.lost = x.lost /\ y.timers = x.timers \ {Timer(g)}
        /\ y.shown = [x.shown EXCEPT ![g.key.key] = @ + r] /\ y \in RepeatStates
    <3>1. y = [x EXCEPT !.shown = [x.shown EXCEPT ![g.key.key] = @ + r], !.timers = @ \ {Timer(g)}]
      BY <2>6, Zenon
    <3>2. [x.shown EXCEPT ![g.key.key] = @ + r] \in [MsgKeys -> Nat]
      BY <2>4, <2>5, <2>6, SMTT(20) DEF RepeatStates
    <3>3. x.timers \ {Timer(g)} \in SUBSET [message : RepeatMsgs, id : Nat]
      BY <2>4 DEF RepeatStates
    <3> DEFINE v == [x.shown EXCEPT ![g.key.key] = @ + r]
               u == x.timers \ {Timer(g)}
    <3>4. y = [x EXCEPT !.shown = v, !.timers = u]
      BY <3>1
    <3> HIDE DEF v, u
    <3>5. /\ y.gc = x.gc /\ y.closed = x.closed /\ y.lost = x.lost /\ y.timers = u /\ y.shown = v
          /\ y \in RepeatStates
      <4>1. v \in [MsgKeys -> Nat] /\ u \in SUBSET [message : RepeatMsgs, id : Nat]
        BY <3>2, <3>3 DEF v, u
      <4> QED  BY <2>4, <3>4, <4>1 DEF RepeatStates
    <3> QED  BY <3>5 DEF v, u
  <2>8. Timers(t) = Timers(s) \cup {Timer(g)}
    <3>1. ToSet(t) = ToSet(s) \cup {g}
      BY <2>2, AppendFacts
    <3> QED  BY <3>1 DEF Timers
  <2>9. ASSUME NEW k \in MsgKeys PROVE y.shown[k] = st.shown[k] + Weigh(t, RestOf(k))
    <3>1. Weigh(t, RestOf(k)) = Weigh(s, RestOf(k)) + RestOf(k)[g] /\ Weigh(s, RestOf(k)) \in Nat
      BY <2>2, RestBasics
    <3>2. st.shown[k] \in Nat /\ x.shown[k] \in Nat /\ x.shown \in [MsgKeys -> Nat]
      BY <2>4 DEF RepeatStates
    <3>3. y.shown[k] = IF g.key.key = k THEN x.shown[k] + r ELSE x.shown[k]
      BY <2>5, <2>7, <3>2
    <3> QED  BY <2>4, <2>6, <2>6a, <3>1, <3>2, <3>3, SMTT(20)
  <2> QED  BY <2>4, <2>7, <2>8, <2>9 DEF y, t
<1>4. N \in R
  <2> HIDE DEF R
  <2> QED  BY <1>0, <1>2, <1>3, SetInduction
<1>5. SubSeq(gs, 1, N) = gs
  OBVIOUS
<1>6. Good(N)
  BY <1>0, <1>4
<1> HIDE DEF N
<1> QED  BY <1>1, <1>5, <1>6 DEF N

\* Groups have different timers.
LEMMA TimersDiffer ==
    ASSUME NEW K, NEW gs \in Seq(GroupSet(K)), KeysOnce(gs)
    PROVE  /\ \A e, h \in ToSet(gs) : Timer(e) = Timer(h) => e = h
           /\ \A S \in SUBSET ToSet(gs) :
                {Timer(e) : e \in ToSet(gs) \ S} = Timers(gs) \ {Timer(e) : e \in S}
<1>1. ASSUME NEW e \in ToSet(gs), NEW h \in ToSet(gs), Timer(e) = Timer(h) PROVE e = h
  <2>1. e.key = h.key
    BY <1>1 DEF Timer
  <2>2. PICK i \in DOMAIN gs, j \in DOMAIN gs : e = gs[i] /\ h = gs[j]
    BY DEF ToSet
  <2> QED  BY <2>1, <2>2 DEF KeysOnce
<1> QED  BY <1>1 DEF Timers

\* What a consistent state of the repeat transport is made of.
LEMMA RepeatFacts ==
    ASSUME NEW st, RepeatOK(st)
    PROVE  /\ st.gc.groups \in Seq(RepeatGroups) /\ KeysOnce(st.gc.groups)
           /\ st.gc.started \in Nat /\ st.gc \in [groups : Seq(RepeatGroups), started : Nat]
           /\ \A k : Unreported(st, k) = Weigh(st.gc.groups, RestOf(k)) /\ Unreported(st, k) \in Nat
           /\ \A k \in MsgKeys : st.shown[k] \in Nat /\ st.lost[k] \in Nat
<1>1. /\ st.gc.groups \in Seq(RepeatGroups) /\ KeysOnce(st.gc.groups)
      /\ st.gc.started \in Nat /\ st.gc \in [groups : Seq(RepeatGroups), started : Nat]
      /\ \A k \in MsgKeys : st.shown[k] \in Nat /\ st.lost[k] \in Nat
  BY DEF RepeatOK, RepeatStates, CounterOK
<1>2. ASSUME NEW k PROVE Unreported(st, k) = Weigh(st.gc.groups, RestOf(k)) /\ Unreported(st, k) \in Nat
  BY <1>1, UnreportedIs, RestBasics
<1> QED  BY <1>1, <1>2

\* What pushEntries() does with an entry: the books grow by what it stands for.
LEMMA PushKeeps ==
    ASSUME NEW st, RepeatOK(st), NEW m \in RepeatMsgs
    PROVE  LET x == PushRepeat(st, m)
           IN  /\ RepeatOK(x)
               /\ \A k \in MsgKeys : Account(x, k) = Account(st, k) + (IF m.key = k THEN m.times ELSE 0)
<1> DEFINE x == PushRepeat(st, m)
           gs == st.gc.groups
<1>0. /\ m.key \in MsgKeys /\ m.times \in Nat
      /\ st \in RepeatStates /\ CounterOK(st.gc, RepeatMsgs, MaxKeys) /\ st.timers = Timers(gs)
      /\ gs \in Seq(RepeatGroups) /\ KeysOnce(gs) /\ st.gc.started \in Nat
      /\ st.gc \in [groups : Seq(RepeatGroups), started : Nat]
  BY RepeatFacts DEF RepeatMsgs, RepeatOK
<1>a. ASSUME NEW k \in MsgKeys
      PROVE  /\ Unreported(st, k) = Weigh(gs, RestOf(k)) /\ Unreported(st, k) \in Nat
             /\ st.shown[k] \in Nat /\ st.lost[k] \in Nat /\ RestOf(k) \in [RepeatGroups -> Nat]
  BY RepeatFacts, RestWeights
<1>1. CASE st.closed
  <2>1. x = [st EXCEPT !.lost = [st.lost EXCEPT ![m.key] = @ + m.times]]
    BY <1>1 DEF PushRepeat
  <2> DEFINE l == [st.lost EXCEPT ![m.key] = @ + m.times]
  <2>2. l \in [MsgKeys -> Nat] /\ \A k \in MsgKeys : l[k] = IF m.key = k THEN st.lost[k] + m.times ELSE st.lost[k]
    BY <1>0 DEF RepeatStates
  <2>3. x = [st EXCEPT !.lost = l]
    BY <2>1
  <2> HIDE DEF x, l
  <2>4. /\ x \in RepeatStates /\ x.gc = st.gc /\ x.timers = st.timers /\ x.shown = st.shown /\ x.lost = l
    BY <1>0, <2>2, <2>3 DEF RepeatStates
  <2>5. RepeatOK(x)
    BY <1>0, <2>4 DEF RepeatOK
  <2>6. \A k : Unreported(x, k) = Unreported(st, k)
    BY <2>4 DEF Unreported
  <2>7. ASSUME NEW k \in MsgKeys
        PROVE  Account(x, k) = Account(st, k) + (IF m.key = k THEN m.times ELSE 0)
    BY <1>0, <1>a, <2>2, <2>4, <2>6, SMTT(20) DEF Account
  <2> QED  BY <2>5, <2>7 DEF x
<1>2. CASE ~st.closed /\ Has(gs, m)
  <2> DEFINE gc == Absorb(st.gc, m)
             g == gs[Place(gs, m)]
             h == Counting(g)
  <2>1. x = [st EXCEPT !.gc = gc]
    BY <1>2 DEF PushRepeat
  <2>2. /\ CounterOK(gc, RepeatMsgs, MaxKeys) /\ g \in RepeatGroups /\ h \in RepeatGroups
        /\ g \in ToSet(gs) /\ g.key = m
        /\ h.key = m /\ h.count = g.count + 1 /\ h.id = g.id
        /\ ToSet(gc.groups) = (ToSet(gs) \ {g}) \cup {h}
        /\ \A w \in [RepeatGroups -> Nat] : Weigh(gc.groups, w) + w[g] = Weigh(gs, w) + w[h]
    <3>1. CounterOK(st.gc, RepeatMsgs, MaxKeys) /\ Has(st.gc.groups, m) /\ MaxKeys \in Nat
      BY <1>0, <1>2, RepeatConstants
    <3>2. RepeatGroups = GroupSet(RepeatMsgs)
      BY DEF RepeatGroups
    <3> QED  BY ONLY <3>1, <3>2, AbsorbKeeps
  <2> HIDE DEF x, gc, g, h
  <2>3. /\ x \in RepeatStates /\ x.gc = gc /\ x.timers = st.timers /\ x.shown = st.shown /\ x.lost = st.lost
    <3>1. gc \in [groups : Seq(RepeatGroups), started : Nat]
      BY <2>2 DEF CounterOK, RepeatGroups
    <3> QED  BY <1>0, <2>1, <3>1 DEF RepeatStates
  <2>4. Timers(gc.groups) = Timers(gs)
    <3>1. Timer(h) = Timer(g)
      BY <2>2 DEF Timer
    <3> QED  BY <2>2, <3>1 DEF Timers
  <2>5. RepeatOK(x)
    BY <1>0, <2>2, <2>3, <2>4 DEF RepeatOK
  <2>6. ASSUME NEW k \in MsgKeys
        PROVE  Account(x, k) = Account(st, k) + (IF m.key = k THEN m.times ELSE 0)
    <3>1. Weigh(gc.groups, RestOf(k)) + RestOf(k)[g] = Weigh(gs, RestOf(k)) + RestOf(k)[h]
      BY <1>a, <2>2
    <3>2. RestOf(k)[h] = RestOf(k)[g] + (IF m.key = k THEN m.times ELSE 0)
      <4>1. \A c \in Nat \ {0}, t \in Nat : ((c + 1) - 1) * t = (c - 1) * t + t
        OBVIOUS
      <4>2. g.count \in Nat \ {0}
        BY <2>2, RestFacts
      <4>3. (h.count - 1) * m.times = (g.count - 1) * m.times + m.times
        BY <1>0, <2>2, <4>1, <4>2
      <4> QED  BY <2>2, <4>3 DEF RestOf
    <3>3. RestOf(k)[g] \in Nat /\ Weigh(gs, RestOf(k)) \in Nat /\ Weigh(gc.groups, RestOf(k)) \in Nat
      <4>1. gc.groups \in Seq(RepeatGroups)
        BY <2>3 DEF RepeatStates
      <4> QED  BY <1>0, <1>a, <2>2, <4>1, RestBasics
    <3>4. Unreported(x, k) = Weigh(gc.groups, RestOf(k))
      BY <2>3, <2>5, RepeatFacts
    <3>5. /\ Account(x, k) = st.shown[k] + Weigh(gc.groups, RestOf(k)) + st.lost[k]
          /\ Account(st, k) = st.shown[k] + Weigh(gs, RestOf(k)) + st.lost[k]
      BY <1>a, <2>3, <3>4 DEF Account
    <3>6. st.shown[k] \in Nat /\ st.lost[k] \in Nat /\ m.times \in Nat
      BY <1>0, <1>a
    <3> DEFINE d == IF m.key = k THEN m.times ELSE 0
    <3>7. d \in Nat
      BY <3>6
    <3>8. Weigh(gc.groups, RestOf(k)) = Weigh(gs, RestOf(k)) + d
      BY <3>1, <3>2, <3>3, <3>7
    <3> HIDE DEF Account, Weigh, RestOf, d
    <3>9. Account(x, k) = Account(st, k) + d
      BY ONLY <3>3, <3>5, <3>6, <3>7, <3>8
    <3> QED  BY <3>9 DEF d
  <2> QED  BY <2>5, <2>6 DEF x
<1>3. CASE ~st.closed /\ ~Has(gs, m)
  <2> DEFINE gc == Start(st.gc, m, MaxKeys)
             out == Evicted(st.gc, m, MaxKeys)
             y == Summarise(st, out)
             g == [key |-> m, count |-> 1, id |-> st.gc.started + 1]
             timer == [message |-> m, id |-> st.gc.started + 1]
             v == [y.shown EXCEPT ![m.key] = @ + m.times]
             u == y.timers \cup {timer}
  <2>1. /\ CounterOK(gc, RepeatMsgs, MaxKeys) /\ out \in Seq(RepeatGroups) /\ g \in RepeatGroups
        /\ ToSet(out) \subseteq ToSet(gs)
        /\ ToSet(gc.groups) = (ToSet(gs) \ ToSet(out)) \cup {g}
        /\ \A w \in [RepeatGroups -> Nat] :
             Weigh(gc.groups, w) + Weigh(out, w) = Weigh(gs, w) + w[g]
    BY <1>0, <1>3, RepeatConstants, StartKeeps DEF RepeatGroups
  <2>2. /\ y \in RepeatStates /\ y.gc = st.gc /\ y.closed = st.closed /\ y.lost = st.lost
        /\ y.timers = st.timers \ Timers(out)
        /\ \A k \in MsgKeys : y.shown[k] = st.shown[k] + Weigh(out, RestOf(k))
    BY <1>0, <2>1, SummariseTells
  <2>3. x = [y EXCEPT !.gc = gc, !.timers = u, !.shown = v]
    <3>1. x = [y EXCEPT !.gc = Start(y.gc, m, MaxKeys), !.timers = y.timers \cup {timer},
                        !.shown = [y.shown EXCEPT ![m.key] = @ + m.times]]
      BY <1>3, Zenon DEF PushRepeat
    <3> QED  BY <2>2, <3>1
  <2>4. g.key = m /\ g.count = 1 /\ Timer(g) = timer
    BY DEF Timer
  <2>5. timer \in [message : RepeatMsgs, id : Nat]
    BY <1>0
  <2> HIDE DEF x, gc, out, y, g, timer
  <2>6. v \in [MsgKeys -> Nat] /\ \A k \in MsgKeys : v[k] = IF m.key = k THEN y.shown[k] + m.times ELSE y.shown[k]
    BY <1>0, <2>2, SMTT(20) DEF RepeatStates
  <2>7. u \in SUBSET [message : RepeatMsgs, id : Nat]
    BY <2>2, <2>5 DEF RepeatStates
  <2>u. u = (st.timers \ Timers(out)) \cup {timer}
    BY <2>2
  <2> HIDE DEF u, v
  <2>8. /\ x \in RepeatStates /\ x.gc = gc /\ x.timers = u /\ x.shown = v /\ x.lost = st.lost
    <3>1. gc \in [groups : Seq(RepeatGroups), started : Nat]
      BY <2>1 DEF CounterOK, RepeatGroups
    <3> QED  BY <2>2, <2>3, <2>6, <2>7, <3>1 DEF RepeatStates
  <2>9. Timers(gc.groups) = (st.timers \ Timers(out)) \cup {timer}
    <3>1. {Timer(e) : e \in ToSet(gs) \ ToSet(out)} = Timers(gs) \ {Timer(e) : e \in ToSet(out)}
      <4>1. ToSet(out) \in SUBSET ToSet(gs)
        BY <2>1
      <4> QED  BY <1>0, <4>1, TimersDiffer DEF RepeatGroups
    <3> QED  BY <1>0, <2>1, <2>4, <3>1 DEF Timers
  <2>10. RepeatOK(x)
    BY <2>1, <2>8, <2>9, <2>u DEF RepeatOK
  <2>11. ASSUME NEW k \in MsgKeys
         PROVE  Account(x, k) = Account(st, k) + (IF m.key = k THEN m.times ELSE 0)
    <3>1. Weigh(gc.groups, RestOf(k)) + Weigh(out, RestOf(k)) = Weigh(gs, RestOf(k)) + RestOf(k)[g]
      BY <1>a, <2>1
    <3>2. RestOf(k)[g] = 0
      <4>1. (1 - 1) * m.times = 0
        BY <1>0
      <4> QED  BY <2>1, <2>4, <4>1 DEF RestOf
    <3>3. /\ Weigh(out, RestOf(k)) \in Nat /\ Weigh(gs, RestOf(k)) \in Nat
          /\ Weigh(gc.groups, RestOf(k)) \in Nat
      <4>1. gc.groups \in Seq(RepeatGroups)
        BY <2>8 DEF RepeatStates
      <4> QED  BY <1>0, <2>1, <4>1, RestBasics
    <3>4. Unreported(x, k) = Weigh(gc.groups, RestOf(k))
      BY <2>8, <2>10, RepeatFacts
    <3>5. x.shown[k] = IF m.key = k THEN st.shown[k] + Weigh(out, RestOf(k)) + m.times
                                    ELSE st.shown[k] + Weigh(out, RestOf(k))
      BY <2>2, <2>6, <2>8
    <3>6. /\ Account(x, k) = x.shown[k] + Weigh(gc.groups, RestOf(k)) + st.lost[k]
          /\ Account(st, k) = st.shown[k] + Weigh(gs, RestOf(k)) + st.lost[k]
      BY <1>a, <2>8, <3>4 DEF Account
    <3>7. st.shown[k] \in Nat /\ st.lost[k] \in Nat /\ m.times \in Nat
      BY <1>0, <1>a
    <3> HIDE DEF Account, Weigh, RestOf
    <3> QED  BY ONLY <3>1, <3>2, <3>3, <3>5, <3>6, <3>7
  <2> QED  BY <2>10, <2>11 DEF x
<1> QED  BY <1>1, <1>2, <1>3

\* How messages are written, one by one.
LEMMA PushAllUnfolds ==
    ASSUME NEW st, NEW ms, Len(ms) \in Nat
    PROVE  \E f : /\ PushAll(st, ms) = f[Len(ms)] /\ f[0] = st
                  /\ \A i \in 1 .. Len(ms) : f[i] = PushRepeat(f[i - 1], ms[i])
<1> DEFINE N == Len(ms)
           Step(x, i) == PushRepeat(x, ms[i])
           Unfolds(g) == g = [i \in 0 .. N |-> IF i = 0 THEN st ELSE Step(g[i - 1], i)]
           Grows(g, k) == g[0] = st /\ \A i \in 1 .. k : g[i] = Step(g[i - 1], i)
           f == CHOOSE g : Unfolds(g)
<1>0. N \in Nat
  OBVIOUS
<1>1. PushAll(st, ms) = f[N]
  BY DEF PushAll
<1>2. \E g : Unfolds(g)
  <2> DEFINE BuiltUpTo(k) == \E g : g = [i \in 0 .. k |-> g[i]] /\ Grows(g, k)
             R == {k \in Nat : BuiltUpTo(k)}
  <2>1. 0 \in R
    <3> DEFINE g == [i \in 0 .. 0 |-> st]
    <3>1. g = [i \in 0 .. 0 |-> g[i]] /\ Grows(g, 0)
      OBVIOUS
    <3> QED  BY <3>1
  <2>2. ASSUME NEW k \in Nat, k \in R PROVE k + 1 \in R
    <3> SUFFICES BuiltUpTo(k + 1)
      <4> HIDE DEF BuiltUpTo
      <4> QED  BY <2>2
    <3>1. PICK h : h = [i \in 0 .. k |-> h[i]] /\ Grows(h, k)
      BY <2>2
    <3> DEFINE g == [i \in 0 .. k + 1 |-> IF i = k + 1 THEN Step(h[k], k + 1) ELSE h[i]]
    <3> HIDE DEF Step
    <3>2. (\A i \in 0 .. k : g[i] = h[i]) /\ g[k + 1] = Step(h[k], k + 1)
      OBVIOUS
    <3>3. g = [i \in 0 .. k + 1 |-> g[i]]
      OBVIOUS
    <3> HIDE DEF g
    <3>4. g[0] = st
      BY <3>1, <3>2
    <3>5. ASSUME NEW i \in 1 .. k + 1 PROVE g[i] = Step(g[i - 1], i)
      <4>1. CASE i = k + 1
        <5>1. i - 1 = k /\ k \in 0 .. k
          BY <4>1
        <5> QED  BY <3>2, <4>1, <5>1
      <4>2. CASE i \in 1 .. k
        <5>1. i - 1 \in 0 .. k /\ i \in 0 .. k
          BY <4>2
        <5> QED  BY <3>1, <3>2, <4>2, <5>1
      <4> QED  BY <4>1, <4>2
    <3> QED  BY <3>3, <3>4, <3>5
  <2>3. N \in R
    <3> HIDE DEF R
    <3> QED  BY <2>1, <2>2, <1>0, SetInduction
  <2>4. PICK g : g = [i \in 0 .. N |-> g[i]] /\ Grows(g, N)
    BY <2>3
  <2> HIDE DEF Step, N
  <2>5. ASSUME NEW i \in 0 .. N PROVE g[i] = IF i = 0 THEN st ELSE Step(g[i - 1], i)
    <3>1. CASE i = 0
      BY <2>4, <3>1
    <3>2. CASE i # 0
      <4>1. i \in 1 .. N
        BY <1>0, <3>2
      <4> QED  BY <2>4, <3>2, <4>1
    <3> QED  BY <3>1, <3>2
  <2> QED  BY <2>4, <2>5
<1>3. Unfolds(f)
  <2> HIDE DEF Unfolds
  <2> QED  BY <1>2
<1>4. f[0] = st /\ \A i \in 1 .. N : f[i] = Step(f[i - 1], i)
  <2> HIDE DEF f, Step
  <2> QED  BY <1>3, <1>0
<1> HIDE DEF f
<1> QED  BY ONLY <1>1, <1>4

\* The entries of key k that a message stands for.
TimesOf(k) == [m \in RepeatMsgs |-> IF m.key = k THEN m.times ELSE 0]

\* A message at the end adds the entries it stands for.
LEMMA TimesFacts ==
    ASSUME NEW k
    PROVE  /\ TimesOf(k) \in [RepeatMsgs -> Nat]
           /\ \A ms \in Seq(RepeatMsgs) :
                /\ Weigh(ms, TimesOf(k)) \in Nat /\ Weigh(<<>>, TimesOf(k)) = 0
                /\ \A m \in RepeatMsgs : Weigh(Append(ms, m), TimesOf(k)) =
                      Weigh(ms, TimesOf(k)) + (IF m.key = k THEN m.times ELSE 0)
<1>1. TimesOf(k) \in [RepeatMsgs -> Nat]
  BY DEF TimesOf, RepeatMsgs
<1>2. \A m \in RepeatMsgs : TimesOf(k)[m] = IF m.key = k THEN m.times ELSE 0
  BY DEF TimesOf
<1>3. ASSUME NEW ms \in Seq(RepeatMsgs), NEW m \in RepeatMsgs
      PROVE  Weigh(Append(ms, m), TimesOf(k)) = Weigh(ms, TimesOf(k)) + (IF m.key = k THEN m.times ELSE 0)
  <2>1. Weigh(Append(ms, m), TimesOf(k)) = Weigh(ms, TimesOf(k)) + TimesOf(k)[m]
    BY ONLY <1>1, ms \in Seq(RepeatMsgs), m \in RepeatMsgs, WeighAppend
  <2> QED  BY <1>2, <2>1
<1>4. ASSUME NEW ms \in Seq(RepeatMsgs)
      PROVE  Weigh(ms, TimesOf(k)) \in Nat /\ Weigh(<<>>, TimesOf(k)) = 0
  BY ONLY <1>1, ms \in Seq(RepeatMsgs), WeighBasics
<1> QED  BY <1>1, <1>3, <1>4

\* The account of a key is a number.
LEMMA AccountNat == ASSUME NEW st, RepeatOK(st), NEW k \in MsgKeys PROVE Account(st, k) \in Nat
BY RepeatFacts DEF Account

\* A batch of messages adds the entries it stands for to the accounts.
LEMMA PushAllKeeps ==
    ASSUME NEW st, RepeatOK(st), NEW ms \in Seq(RepeatMsgs)
    PROVE  LET x == PushAll(st, ms)
           IN  /\ RepeatOK(x)
               /\ \A k \in MsgKeys : Account(x, k) = Account(st, k) + Weigh(ms, TimesOf(k))
<1>0. Len(ms) \in Nat
  OBVIOUS
<1>1. PICK f : /\ PushAll(st, ms) = f[Len(ms)] /\ f[0] = st
               /\ \A i \in 1 .. Len(ms) : f[i] = PushRepeat(f[i - 1], ms[i])
  BY ONLY <1>0, PushAllUnfolds
<1> DEFINE N == Len(ms)
           Good(j) == LET s == SubSeq(ms, 1, j)
                      IN  /\ RepeatOK(f[j])
                          /\ \A k \in MsgKeys : Account(f[j], k) = Account(st, k) + Weigh(s, TimesOf(k))
           R == {j \in Nat : j <= N => Good(j)}
<1>2. 0 \in R
  <2>1. SubSeq(ms, 1, 0) = <<>> /\ <<>> \in Seq(RepeatMsgs)
    OBVIOUS
  <2>2. ASSUME NEW k \in MsgKeys
        PROVE  Account(f[0], k) = Account(st, k) + Weigh(SubSeq(ms, 1, 0), TimesOf(k))
    <3>1. Weigh(<<>>, TimesOf(k)) = 0
      BY ONLY <2>1, TimesFacts
    <3>2. Account(st, k) \in Nat
      BY AccountNat
    <3>3. Weigh(SubSeq(ms, 1, 0), TimesOf(k)) = 0
      BY ONLY <2>1, <3>1
    <3>4. Account(f[0], k) = Account(st, k)
      BY ONLY <1>1
    <3> QED  BY ONLY <3>2, <3>3, <3>4
  <2>3. Good(0)
    BY <1>1, <2>2
  <2> QED  BY <2>3
<1>3. ASSUME NEW j \in Nat, j \in R PROVE j + 1 \in R
  <2> SUFFICES ASSUME j + 1 <= N PROVE Good(j + 1)
    OBVIOUS
  <2> DEFINE s == SubSeq(ms, 1, j)
             t == SubSeq(ms, 1, j + 1)
             m == ms[j + 1]
  <2>1. Good(j) /\ j + 1 \in 1 .. N /\ (j + 1) - 1 = j
    BY <1>0, <1>3
  <2>2. m \in RepeatMsgs /\ s \in Seq(RepeatMsgs) /\ t = Append(s, m)
    BY <1>0, <2>1
  <2>3. f[j + 1] = PushRepeat(f[j], m)
    BY <1>1, <2>1
  <2>4. /\ RepeatOK(f[j])
        /\ \A k \in MsgKeys : Account(f[j], k) = Account(st, k) + Weigh(s, TimesOf(k))
    BY <2>1
  <2> HIDE DEF s, t, m
  <2>5. /\ RepeatOK(f[j + 1])
        /\ \A k \in MsgKeys : Account(f[j + 1], k) = Account(f[j], k) + (IF m.key = k THEN m.times ELSE 0)
    <3>1. /\ RepeatOK(PushRepeat(f[j], m))
          /\ \A k \in MsgKeys : Account(PushRepeat(f[j], m), k) = Account(f[j], k) + (IF m.key = k THEN m.times ELSE 0)
      BY ONLY <2>2, <2>4, PushKeeps
    <3> QED  BY <2>3, <3>1
  <2>6. ASSUME NEW k \in MsgKeys PROVE Account(f[j + 1], k) = Account(st, k) + Weigh(t, TimesOf(k))
    <3> DEFINE d == IF m.key = k THEN m.times ELSE 0
    <3>1. Weigh(t, TimesOf(k)) = Weigh(s, TimesOf(k)) + d /\ Weigh(s, TimesOf(k)) \in Nat
      BY <2>2, TimesFacts
    <3>2. Account(st, k) \in Nat /\ d \in Nat
      BY <2>2, AccountNat DEF RepeatMsgs
    <3>3. Account(f[j + 1], k) = Account(f[j], k) + d /\ Account(f[j], k) = Account(st, k) + Weigh(s, TimesOf(k))
      BY <2>4, <2>5
    <3> HIDE DEF Account, TimesOf, Weigh, d
    <3> QED  BY ONLY <3>1, <3>2, <3>3
  <2> QED  BY <2>5, <2>6 DEF t
<1>4. N \in R
  <2> HIDE DEF R
  <2> QED  BY <1>0, <1>2, <1>3, SetInduction
<1>5. SubSeq(ms, 1, N) = ms
  OBVIOUS
<1>6. Good(N)
  BY <1>0, <1>4
<1> HIDE DEF N
<1> QED  BY <1>1, <1>5, <1>6 DEF N

\* The timer of a group fires: what the group counted is shown.
LEMMA WindowKeeps ==
    ASSUME NEW st, RepeatOK(st), NEW t \in st.timers
    PROVE  LET x == WindowCloses(st, t)
           IN  RepeatOK(x) /\ \A k \in MsgKeys : Account(x, k) = Account(st, k)
<1> DEFINE gs == st.gc.groups
           p == Place(gs, t.message)
           g == gs[p]
           s == [st EXCEPT !.timers = @ \ {t}]
           y == Summarise(s, <<g>>)
           gc == Take(st.gc, t.message)
           x == WindowCloses(st, t)
<1>0. /\ st \in RepeatStates /\ CounterOK(st.gc, RepeatMsgs, MaxKeys) /\ st.timers = Timers(gs)
      /\ gs \in Seq(RepeatGroups) /\ KeysOnce(gs) /\ st.gc.started \in Nat
      /\ st.gc \in [groups : Seq(RepeatGroups), started : Nat] /\ Len(gs) <= MaxKeys
  BY RepeatFacts DEF RepeatOK, CounterOK
<1>1. PICK e \in ToSet(gs) : t = Timer(e)
  BY <1>0 DEF Timers
<1>2. PICK i \in 1 .. Len(gs) : e = gs[i]
  BY <1>0, <1>1 DEF ToSet
<1>3. t.message = e.key /\ Has(gs, t.message)
  BY <1>0, <1>1, <1>2 DEF Timer, Has
<1>4. p \in 1 .. Len(gs) /\ g.key = t.message
  BY <1>0, <1>3, PlaceFacts
<1>5. p = i /\ g = e
  BY <1>0, <1>2, <1>3, <1>4 DEF KeysOnce
<1>6. g \in RepeatGroups /\ <<g>> \in Seq(RepeatGroups) /\ t = Timer(g) /\ g \in ToSet(gs)
  BY <1>0, <1>1, <1>4, <1>5
<1>7. s \in RepeatStates /\ s.gc = st.gc /\ s.lost = st.lost /\ s.shown = st.shown /\ s.timers = st.timers \ {t}
  BY <1>0 DEF RepeatStates
<1>8. x = [y EXCEPT !.gc = gc]
  <2>1. GroupsOf(gs, t.message) = <<g>>
    BY <1>3 DEF GroupsOf
  <2>2. x = [Summarise(s, GroupsOf(s.gc.groups, t.message)) EXCEPT !.gc = Take(@, t.message)]
    BY DEF WindowCloses
  <2> HIDE DEF s, x, g
  <2>3. x = [y EXCEPT !.gc = Take(@, t.message)]
    BY <1>7, <2>1, <2>2
  <2>4. y.gc = st.gc
    BY <1>6, <1>7, SummariseTells
  <2> QED  BY <2>3, <2>4
<1> HIDE DEF s, g
<1>9. /\ y \in RepeatStates /\ y.gc = st.gc /\ y.lost = st.lost
      /\ y.timers = (st.timers \ {t}) \ Timers(<<g>>)
      /\ \A k \in MsgKeys : y.shown[k] = st.shown[k] + Weigh(<<g>>, RestOf(k))
  <2>1. /\ y \in RepeatStates /\ y.gc = s.gc /\ y.lost = s.lost
        /\ y.timers = s.timers \ Timers(<<g>>)
        /\ \A k \in MsgKeys : y.shown[k] = s.shown[k] + Weigh(<<g>>, RestOf(k))
    BY ONLY <1>6, <1>7, SummariseTells
  <2> HIDE DEF y
  <2> QED  BY ONLY <2>1, <1>7
<1>10. Timers(<<g>>) = {t}
  <2>1. ToSet(<<g>>) = {g}
    BY DEF ToSet
  <2> QED  BY <1>6, <2>1 DEF Timers
<1> DEFINE r == RemoveAt(gs, p)
<1>11. gc = [st.gc EXCEPT !.groups = r]
  BY <1>3 DEF Take, WithoutKey
<1>12. /\ r \in Seq(RepeatGroups) /\ Len(r) = Len(gs) - 1 /\ KeysOnce(r)
       /\ \A h : h \in ToSet(r) <=> h \in ToSet(gs) /\ h # g
  <2> HIDE DEF p
  <2> QED  BY ONLY <1>0, <1>4, GroupLess DEF RepeatGroups, g
<1> HIDE DEF x, gc, r, y
<1>13. gc.groups = r /\ gc \in [groups : Seq(RepeatGroups), started : Nat] /\ CounterOK(gc, RepeatMsgs, MaxKeys)
  <2>1. gc.groups = r /\ gc \in [groups : Seq(RepeatGroups), started : Nat]
    BY <1>0, <1>11, <1>12
  <2>2. Len(r) <= MaxKeys
    BY <1>0, <1>12, RepeatConstants
  <2> QED  BY <1>12, <2>1, <2>2 DEF CounterOK, RepeatGroups
<1>14. /\ x \in RepeatStates /\ x.gc = gc /\ x.timers = y.timers /\ x.shown = y.shown /\ x.lost = st.lost
  BY <1>8, <1>9, <1>13 DEF RepeatStates
<1>15. Timers(r) = st.timers \ {t}
  <2>1. ToSet(r) = ToSet(gs) \ {g}
    BY <1>12
  <2>2. {Timer(h) : h \in ToSet(gs) \ {g}} = Timers(gs) \ {Timer(h) : h \in {g}}
    <3>1. {g} \in SUBSET ToSet(gs)
      BY <1>6
    <3> QED  BY <1>0, <3>1, TimersDiffer DEF RepeatGroups
  <2> QED  BY <1>0, <1>6, <2>1, <2>2 DEF Timers
<1>16. RepeatOK(x)
  BY <1>9, <1>10, <1>13, <1>14, <1>15 DEF RepeatOK
<1>17. ASSUME NEW k \in MsgKeys PROVE Account(x, k) = Account(st, k)
  <2>1. RestOf(k) \in [RepeatGroups -> Nat]
    BY RestWeights
  <2>2. Weigh(gs, RestOf(k)) = Weigh(r, RestOf(k)) + RestOf(k)[g] /\ RestOf(k)[g] \in Nat
    BY <1>0, <1>4, <2>1, WeighWithout DEF r, g
  <2>3. Weigh(<<g>>, RestOf(k)) = RestOf(k)[g]
    <3>1. \A h \in RepeatGroups : Weigh(<<h>>, RestOf(k)) = RestOf(k)[h]
      BY ONLY <1>0, <2>1, WeighBasics
    <3> QED  BY <1>6, <3>1
  <2>4. Unreported(x, k) = Weigh(r, RestOf(k)) /\ Unreported(x, k) \in Nat
    BY <1>13, <1>14, <1>16, RepeatFacts
  <2>5. /\ Unreported(st, k) = Weigh(gs, RestOf(k)) /\ Unreported(st, k) \in Nat
        /\ st.shown[k] \in Nat /\ st.lost[k] \in Nat
    BY RepeatFacts
  <2>6. /\ Account(x, k) = (st.shown[k] + RestOf(k)[g]) + Weigh(r, RestOf(k)) + st.lost[k]
        /\ Account(st, k) = st.shown[k] + Weigh(gs, RestOf(k)) + st.lost[k]
    BY <1>9, <1>14, <2>3, <2>4, <2>5 DEF Account
  <2> HIDE DEF Account, Weigh, RestOf
  <2> QED  BY <2>2, <2>4, <2>5, <2>6
<1> QED  BY <1>16, <1>17 DEF x

\* flush() and close(): what all groups counted is shown.
LEMMA DrainKeeps ==
    ASSUME NEW st, RepeatOK(st)
    PROVE  LET x == DrainAll(st)
           IN  /\ RepeatOK(x) /\ x.gc.groups = <<>>
               /\ \A k \in MsgKeys : Account(x, k) = Account(st, k)
<1> DEFINE gs == st.gc.groups
           y == Summarise(st, gs)
           gc == Drain(st.gc)
           x == DrainAll(st)
<1>0. /\ st \in RepeatStates /\ CounterOK(st.gc, RepeatMsgs, MaxKeys) /\ st.timers = Timers(gs)
      /\ gs \in Seq(RepeatGroups) /\ st.gc \in [groups : Seq(RepeatGroups), started : Nat]
  BY RepeatFacts DEF RepeatOK, CounterOK
<1>1. /\ y \in RepeatStates /\ y.gc = st.gc /\ y.lost = st.lost /\ y.timers = st.timers \ Timers(gs)
      /\ \A k \in MsgKeys : y.shown[k] = st.shown[k] + Weigh(gs, RestOf(k))
  BY <1>0, SummariseTells
<1>2. x = [y EXCEPT !.gc = gc]
  <2>1. x = [y EXCEPT !.gc = Drain(@)]
    BY DEF DrainAll
  <2> HIDE DEF y, x
  <2> QED  BY <1>1, <2>1
<1>3. gc.groups = <<>> /\ gc \in [groups : Seq(RepeatGroups), started : Nat]
  <2>1. <<>> \in Seq(RepeatGroups)
    OBVIOUS
  <2>2. gc = [st.gc EXCEPT !.groups = <<>>]
    BY DEF Drain
  <2> HIDE DEF gc
  <2> QED  BY ONLY <1>0, <2>1, <2>2
<1>4. CounterOK(gc, RepeatMsgs, MaxKeys)
  <2>1. KeysOnce(<<>>) /\ Len(<<>>) <= MaxKeys
    BY RepeatConstants DEF KeysOnce
  <2> QED  BY <1>3, <2>1 DEF CounterOK, RepeatGroups
<1> HIDE DEF x, gc, y
<1>5. /\ x \in RepeatStates /\ x.gc = gc /\ x.timers = y.timers /\ x.shown = y.shown /\ x.lost = st.lost
  BY <1>1, <1>2, <1>3 DEF RepeatStates
<1>6. Timers(<<>>) = {} /\ y.timers = {}
  <2>1. ToSet(<<>>) = {}
    BY DEF ToSet
  <2> QED  BY <1>0, <1>1, <2>1 DEF Timers
<1>7. RepeatOK(x)
  BY <1>3, <1>4, <1>5, <1>6 DEF RepeatOK
<1>8. ASSUME NEW k \in MsgKeys PROVE Account(x, k) = Account(st, k)
  <2>1. Unreported(x, k) = Weigh(<<>>, RestOf(k))
    BY <1>3, <1>5, <1>7, RepeatFacts
  <2>2. /\ Unreported(st, k) = Weigh(gs, RestOf(k)) /\ Unreported(st, k) \in Nat
        /\ st.shown[k] \in Nat /\ st.lost[k] \in Nat
    BY RepeatFacts
  <2>3. Weigh(<<>>, RestOf(k)) = 0
    BY <1>0, RestBasics
  <2>4. /\ Account(x, k) = (st.shown[k] + Weigh(gs, RestOf(k))) + 0 + st.lost[k]
        /\ Account(st, k) = st.shown[k] + Weigh(gs, RestOf(k)) + st.lost[k]
    BY <1>1, <1>5, <2>1, <2>2, <2>3 DEF Account
  <2> HIDE DEF Account, Weigh, RestOf
  <2> QED  BY <2>2, <2>4
<1> QED  BY <1>3, <1>5, <1>7, <1>8 DEF x

\* close(): a drain, once.
LEMMA CloseKeeps ==
    ASSUME NEW st, RepeatOK(st)
    PROVE  LET x == CloseRepeat(st)
           IN  RepeatOK(x) /\ \A k \in MsgKeys : Account(x, k) = Account(st, k)
<1> DEFINE y == DrainAll(st)
           x == CloseRepeat(st)
<1>1. CASE st.closed
  BY <1>1 DEF CloseRepeat
<1>2. CASE ~st.closed
  <2>1. RepeatOK(y) /\ \A k \in MsgKeys : Account(y, k) = Account(st, k)
    BY DrainKeeps
  <2>2. x = [y EXCEPT !.closed = TRUE]
    BY <1>2 DEF CloseRepeat
  <2> HIDE DEF x, y
  <2>3. x \in RepeatStates /\ x.gc = y.gc /\ x.timers = y.timers /\ x.shown = y.shown /\ x.lost = y.lost
    BY <2>1, <2>2 DEF RepeatOK, RepeatStates
  <2>4. RepeatOK(x) /\ \A k \in MsgKeys : Account(x, k) = Account(y, k)
    BY <2>1, <2>3 DEF RepeatOK, Account, Unreported
  <2> QED  BY <2>1, <2>4 DEF x
<1> QED  BY <1>1, <1>2

-----------------------------------------------------------------------------
(* The storm.                                                              *)

\* The groups of a storm are keyed by the entries themselves.
StormGroups == GroupSet(Keys)

\* The entries of key k that a group stands for.
CountsOf(k) == [g \in StormGroups |-> IF g.key = k THEN g.count ELSE 0]

\* What groups of a storm stand for is the weight of their sequence.
LEMMA CountFacts ==
    ASSUME NEW k
    PROVE  /\ CountsOf(k) \in [StormGroups -> Nat]
           /\ \A gs \in Seq(StormGroups) : /\ Grouped(gs, k) = Weigh(gs, CountsOf(k))
                                           /\ Grouped(gs, k) \in Nat
           /\ Grouped(<<>>, k) = 0
<1>1. CountsOf(k) \in [StormGroups -> Nat]
  BY DEF CountsOf, StormGroups, GroupSet
<1>2. ASSUME NEW gs \in Seq(StormGroups)
      PROVE  Grouped(gs, k) = Weigh(gs, CountsOf(k)) /\ Grouped(gs, k) \in Nat
  <2>1. \A i \in DOMAIN gs : gs[i] \in StormGroups
    OBVIOUS
  <2>2. \A i \in DOMAIN gs : CountsOf(k)[gs[i]] = IF gs[i].key = k THEN gs[i].count ELSE 0
    BY <2>1 DEF CountsOf
  <2>3. [i \in DOMAIN gs |-> IF gs[i].key = k THEN gs[i].count ELSE 0]
          = [i \in DOMAIN gs |-> CountsOf(k)[gs[i]]]
    BY <2>2, Zenon
  <2>4. Grouped(gs, k) = Weigh(gs, CountsOf(k))
    BY <2>3, Zenon DEF Grouped, Weigh
  <2>5. Weigh(gs, CountsOf(k)) \in Nat
    BY ONLY <1>1, gs \in Seq(StormGroups), WeighBasics
  <2> QED  BY <2>4, <2>5
<1>3. Grouped(<<>>, k) = 0
  <2>1. <<>> \in Seq(StormGroups)
    OBVIOUS
  <2>2. Weigh(<<>>, CountsOf(k)) = 0
    BY ONLY <1>1, <2>1, WeighBasics
  <2> QED  BY <1>2, <2>1, <2>2
<1> QED  BY <1>1, <1>2, <1>3

\* A summary is written for each group that counted a repetition; what the others
\* stand for is what is dropped.
LEMMA SummariesTell ==
    ASSUME NEW gc, CounterOK(gc, Keys, MaxGroups)
    PROVE  /\ Summaries(gc) \in Seq(RepeatMsgs)
           /\ \A k : /\ Single(gc, k) \in Nat
                     /\ Weigh(Summaries(gc), TimesOf(k)) + Single(gc, k) = Grouped(gc.groups, k)
<1> DEFINE gs == gc.groups
           Many == {g \in StormGroups : g.count > 1}
           One == {g \in StormGroups : g.count <= 1}
           c == Counted(gs)
           o == Among(gs, {g \in ToSet(gs) : g.count <= 1})
           sm == Summaries(gc)
<1>1. gs \in Seq(StormGroups) /\ \A g \in ToSet(gs) : g \in StormGroups
  BY DEF CounterOK, StormGroups, ToSet
<1>2. c = Among(gs, Many) /\ o = Among(gs, One)
  <2>1. /\ \A g \in ToSet(gs) : g \in {h \in ToSet(gs) : h.count > 1} <=> g \in Many
        /\ \A g \in ToSet(gs) : g \in {h \in ToSet(gs) : h.count <= 1} <=> g \in One
    BY <1>1
  <2>2. \A S, R : (\A g \in ToSet(gs) : g \in S <=> g \in R) => Among(gs, S) = Among(gs, R)
    BY <1>1, AmongAgree
  <2> QED  BY <2>1, <2>2 DEF Counted
<1>3. c \in Seq(StormGroups) /\ o \in Seq(StormGroups)
  BY <1>1, <1>2, AmongElements
<1>4. \A g \in StormGroups : g \in Many <=> g \notin One
  BY DEF StormGroups, GroupSet
<1>5. /\ sm = [i \in DOMAIN c |-> Message(c[i].key, c[i].count)]
      /\ \A i \in DOMAIN c : c[i] \in StormGroups /\ Message(c[i].key, c[i].count) \in RepeatMsgs
  <2>1. \A i \in DOMAIN c : c[i] \in StormGroups
    BY <1>3
  <2> HIDE DEF c
  <2>2. \A g \in StormGroups : Message(g.key, g.count) \in RepeatMsgs
    BY DEF StormGroups, GroupSet, Message, RepeatMsgs, MsgKeys
  <2> QED  BY <2>1, <2>2 DEF Summaries, c
<1> HIDE DEF c, o, sm
<1>6. sm \in Seq(RepeatMsgs) /\ DOMAIN sm = DOMAIN c /\ DOMAIN c = 1 .. Len(c) /\ Len(c) \in Nat
  BY <1>3, <1>5
<1>7. ASSUME NEW k
      PROVE  /\ Single(gc, k) \in Nat
             /\ Weigh(sm, TimesOf(k)) + Single(gc, k) = Grouped(gs, k)
  <2>1. Weigh(gs, CountsOf(k)) = Weigh(c, CountsOf(k)) + Weigh(o, CountsOf(k))
    <3>1. CountsOf(k) \in [StormGroups -> Nat]
      BY CountFacts
    <3>2. Weigh(gs, CountsOf(k)) = Weigh(Among(gs, Many), CountsOf(k)) + Weigh(Among(gs, One), CountsOf(k))
      <4> HIDE DEF Many, One
      <4> QED  BY ONLY <1>1, <1>4, <3>1, WeighSplit
    <3> QED  BY <1>2, <3>2
  <2>2. /\ Grouped(gs, k) = Weigh(gs, CountsOf(k))
        /\ Grouped(o, k) = Weigh(o, CountsOf(k)) /\ Grouped(o, k) \in Nat
        /\ Grouped(c, k) = Weigh(c, CountsOf(k)) /\ Grouped(c, k) \in Nat
    BY <1>1, <1>3, CountFacts
  <2>3. Weigh(sm, TimesOf(k)) = Weigh(c, CountsOf(k))
    <3>1. \A i \in DOMAIN c : TimesOf(k)[sm[i]] = CountsOf(k)[c[i]]
      <4>1. \A g \in StormGroups : TimesOf(k)[Message(g.key, g.count)] = CountsOf(k)[g]
        <5>1. \A g \in StormGroups : Message(g.key, g.count) \in RepeatMsgs
          BY DEF StormGroups, GroupSet, Message, RepeatMsgs, MsgKeys
        <5> QED  BY <5>1 DEF TimesOf, CountsOf, Message
      <4> QED  BY <1>5, <4>1
    <3>2. [i \in DOMAIN sm |-> TimesOf(k)[sm[i]]] = [i \in DOMAIN c |-> CountsOf(k)[c[i]]]
      BY <1>6, <3>1, Zenon
    <3> QED  BY <3>2, Zenon DEF Weigh
  <2>4. Single(gc, k) = Grouped(o, k)
    BY DEF Single, o
  <2> HIDE DEF gs
  <2> QED  BY ONLY <2>1, <2>2, <2>3, <2>4
<1> QED  BY <1>6, <1>7 DEF sm

\* How often key k is in a batch.
OneIf(k) == [x \in Keys |-> IF x = k THEN 1 ELSE 0]

\* The messages of a batch stand for its entries, the notice for none.
LEMMA MessagesTell ==
    ASSUME NEW batch \in Seq(Keys)
    PROVE  /\ Messages(batch) \in Seq(RepeatMsgs)
           /\ \A k : /\ OneIf(k) \in [Keys -> Nat] /\ CountOf(batch, k) = Weigh(batch, OneIf(k))
                     /\ Weigh(Messages(batch), TimesOf(k)) = CountOf(batch, k)
                     /\ CountOf(batch, k) \in Nat
<1> DEFINE ms == Messages(batch)
<1>1. /\ DOMAIN batch = 1 .. Len(batch) /\ Len(batch) \in Nat
      /\ \A i \in DOMAIN batch : batch[i] \in Keys
  OBVIOUS
<1>2. \A x \in Keys : Message(x, 1) \in RepeatMsgs
  BY DEF Message, RepeatMsgs, MsgKeys
<1>3. ms = [i \in DOMAIN batch |-> Message(batch[i], 1)]
  BY DEF Messages
<1>4. ms \in Seq(RepeatMsgs) /\ DOMAIN ms = DOMAIN batch
  BY <1>1, <1>2, <1>3
<1> HIDE DEF ms
<1>5. ASSUME NEW k
      PROVE  /\ OneIf(k) \in [Keys -> Nat] /\ CountOf(batch, k) = Weigh(batch, OneIf(k))
             /\ Weigh(ms, TimesOf(k)) = CountOf(batch, k) /\ CountOf(batch, k) \in Nat
  <2>1. OneIf(k) \in [Keys -> Nat] /\ \A x \in Keys : OneIf(k)[x] = IF x = k THEN 1 ELSE 0
    BY DEF OneIf
  <2>2. [i \in DOMAIN batch |-> IF batch[i] = k THEN 1 ELSE 0]
          = [i \in DOMAIN batch |-> OneIf(k)[batch[i]]]
    BY <1>1, <2>1, Zenon
  <2>3. CountOf(batch, k) = Weigh(batch, OneIf(k))
    BY <2>2, Zenon DEF CountOf, Weigh
  <2>4. \A i \in DOMAIN ms : TimesOf(k)[ms[i]] = OneIf(k)[batch[i]]
    <3>1. \A x \in Keys : TimesOf(k)[Message(x, 1)] = OneIf(k)[x]
      BY <1>2, <2>1 DEF TimesOf, Message
    <3> QED  BY <1>1, <1>3, <1>4, <3>1
  <2>5. [i \in DOMAIN ms |-> TimesOf(k)[ms[i]]] = [i \in DOMAIN batch |-> OneIf(k)[batch[i]]]
    BY <1>4, <2>4, Zenon
  <2>6. Weigh(ms, TimesOf(k)) = Weigh(batch, OneIf(k))
    BY <2>5, Zenon DEF Weigh
  <2>7. Weigh(batch, OneIf(k)) \in Nat
    BY ONLY <2>1, batch \in Seq(Keys), WeighBasics
  <2> HIDE DEF OneIf
  <2> QED  BY <2>1, <2>3, <2>6, <2>7
<1> QED  BY <1>4, <1>5 DEF ms

\* What the constants of the adaptive transport are.
LEMMA AdaptiveConstants ==
    /\ MaxGroups \in Nat \ {0} /\ Notice \notin Keys /\ MaxClock \in Nat /\ MaxWritten \in Nat
BY AdaptiveAssumption

\* The notice that a storm starts or ends stands for no entry.
LEMMA NoticeTells ==
    LET ms == <<Message(Notice, 1)>>
    IN  ms \in Seq(RepeatMsgs) /\ \A k \in Keys : Weigh(ms, TimesOf(k)) = 0
<1> DEFINE m == Message(Notice, 1)
<1>1. m \in RepeatMsgs /\ m.key = Notice
  BY DEF Message, RepeatMsgs, MsgKeys
<1> HIDE DEF m
<1>2. ASSUME NEW k \in Keys PROVE Weigh(<<m>>, TimesOf(k)) = 0
  <2>1. <<>> \in Seq(RepeatMsgs) /\ TimesOf(k) \in [RepeatMsgs -> Nat]
    BY TimesFacts
  <2>2. Weigh(<<m>>, TimesOf(k)) = TimesOf(k)[m]
    BY ONLY <1>1, <2>1, WeighBasics
  <2>3. TimesOf(k)[m] = 0
    BY <1>1, AdaptiveConstants DEF TimesOf
  <2> QED  BY <2>2, <2>3
<1> QED  BY <1>1, <1>2 DEF m

-----------------------------------------------------------------------------
(* The routing of a batch during a storm.                                  *)

\* The state that a batch is routed through.
StormStates == [groups : Seq(StormGroups), started : Nat]
RoutedOK(s) ==
    /\ s \in [repeat : RepeatStates, storm : StormStates, dropped : [Keys -> Nat]]
    /\ RepeatOK(s.repeat) /\ CounterOK(s.storm, Keys, MaxGroups)

\* The entries of key k that are shown, counted, lost or dropped.
Owed(s, k) == Account(s.repeat, k) + Grouped(s.storm.groups, k) + s.dropped[k]

\* Accounts are numbers.
LEMMA RoutedFacts ==
    ASSUME NEW s, RoutedOK(s), NEW k \in Keys
    PROVE  /\ Account(s.repeat, k) \in Nat /\ Grouped(s.storm.groups, k) \in Nat
           /\ s.dropped[k] \in Nat /\ Owed(s, k) \in Nat
<1>1. k \in MsgKeys /\ s.dropped[k] \in Nat /\ s.storm.groups \in Seq(StormGroups)
  BY DEF RoutedOK, MsgKeys, StormStates
<1>2. Account(s.repeat, k) \in Nat /\ Grouped(s.storm.groups, k) \in Nat
  BY <1>1, AccountNat, CountFacts DEF RoutedOK
<1> QED  BY <1>1, <1>2 DEF Owed

\* One entry of a batch is shown, counted or dropped, what it evicts is dropped.
LEMMA RouteKeeps ==
    ASSUME NEW s, RoutedOK(s), NEW k \in Keys, NEW out
    PROVE  LET x == Route(s, k, out)
           IN  /\ RoutedOK(x)
               /\ \A j \in Keys : Owed(x, j) = Owed(s, j) + (IF k = j THEN 1 ELSE 0)
<1> DEFINE x == Route(s, k, out)
           d(j) == IF k = j THEN 1 ELSE 0
<1>1. /\ s \in [repeat : RepeatStates, storm : StormStates, dropped : [Keys -> Nat]]
      /\ RepeatOK(s.repeat) /\ CounterOK(s.storm, Keys, MaxGroups) /\ s.dropped \in [Keys -> Nat]
      /\ MaxGroups \in Nat \ {0} /\ MaxGroups \in Nat /\ s.storm.groups \in Seq(StormGroups)
  BY AdaptiveConstants DEF RoutedOK, StormStates
<1>2. ASSUME NEW y, CounterOK(y, Keys, MaxGroups) PROVE y \in StormStates /\ y.groups \in Seq(StormGroups)
  BY <1>2 DEF CounterOK, StormStates, StormGroups
<1>3. CASE k \in Errors /\ Has(s.storm.groups, k)
  <2> DEFINE y == Absorb(s.storm, k)
             g == s.storm.groups[Place(s.storm.groups, k)]
             h == Counting(g)
  <2>1. x = [s EXCEPT !.storm = y]
    BY <1>3 DEF Route, GroupError
  <2>2. /\ CounterOK(y, Keys, MaxGroups) /\ g \in StormGroups /\ h \in StormGroups
        /\ g.key = k /\ h.key = k /\ h.count = g.count + 1
        /\ \A w \in [StormGroups -> Nat] : Weigh(y.groups, w) + w[g] = Weigh(s.storm.groups, w) + w[h]
    <3>1. /\ CounterOK(y, Keys, MaxGroups) /\ g \in GroupSet(Keys) /\ h \in GroupSet(Keys)
          /\ g.key = k /\ h.key = k /\ h.count = g.count + 1
          /\ \A w \in [GroupSet(Keys) -> Nat] :
               Weigh(y.groups, w) + w[g] = Weigh(s.storm.groups, w) + w[h]
      <4>1. CounterOK(s.storm, Keys, MaxGroups) /\ Has(s.storm.groups, k) /\ MaxGroups \in Nat
        BY <1>1, <1>3
      <4> QED  BY ONLY <4>1, AbsorbKeeps
    <3> HIDE DEF y, g, h
    <3> QED  BY ONLY <3>1 DEF StormGroups
  <2> HIDE DEF x, y, g, h
  <2>3. x.repeat = s.repeat /\ x.storm = y /\ x.dropped = s.dropped /\ RoutedOK(x)
    <3>1. y \in StormStates
      BY <1>2, <2>2
    <3>2. /\ x \in [repeat : RepeatStates, storm : StormStates, dropped : [Keys -> Nat]]
          /\ x.repeat = s.repeat /\ x.storm = y /\ x.dropped = s.dropped
      BY ONLY <1>1, <2>1, <3>1
    <3> QED  BY <1>1, <2>2, <3>2 DEF RoutedOK
  <2>4. ASSUME NEW j \in Keys PROVE Owed(x, j) = Owed(s, j) + d(j)
    <3>1. CountsOf(j) \in [StormGroups -> Nat]
      BY CountFacts
    <3>2. Weigh(y.groups, CountsOf(j)) + CountsOf(j)[g] = Weigh(s.storm.groups, CountsOf(j)) + CountsOf(j)[h]
      BY <2>2, <3>1
    <3>3. CountsOf(j)[h] = CountsOf(j)[g] + d(j) /\ CountsOf(j)[g] \in Nat
      <4>1. g.count \in Nat
        BY <2>2 DEF StormGroups, GroupSet
      <4> QED  BY <2>2, <4>1 DEF CountsOf
    <3>4. y.groups \in Seq(StormGroups)
      BY <1>2, <2>2
    <3>5. /\ Grouped(y.groups, j) = Weigh(y.groups, CountsOf(j)) /\ Grouped(y.groups, j) \in Nat
          /\ Grouped(s.storm.groups, j) = Weigh(s.storm.groups, CountsOf(j))
          /\ Grouped(s.storm.groups, j) \in Nat
      BY <1>1, <3>4, CountFacts
    <3>6. d(j) \in Nat
      OBVIOUS
    <3> HIDE DEF d
    <3>7. Grouped(y.groups, j) = Grouped(s.storm.groups, j) + d(j)
      BY ONLY <3>2, <3>3, <3>5, <3>6
    <3>8. Account(s.repeat, j) \in Nat /\ s.dropped[j] \in Nat
      BY RoutedFacts
    <3>9. Owed(x, j) = Account(s.repeat, j) + Grouped(y.groups, j) + s.dropped[j]
      BY <2>3 DEF Owed
    <3>10. Owed(s, j) = Account(s.repeat, j) + Grouped(s.storm.groups, j) + s.dropped[j]
      BY DEF Owed
    <3> QED  BY ONLY <3>5, <3>6, <3>7, <3>8, <3>9, <3>10
  <2> QED  BY <2>3, <2>4 DEF x
<1>4. CASE k \in Errors /\ ~Has(s.storm.groups, k)
  <2> DEFINE y == Start(s.storm, k, MaxGroups)
             ev == Evicted(s.storm, k, MaxGroups)
             g == [key |-> k, count |-> 1, id |-> s.storm.started + 1]
             dr == [j \in Keys |-> s.dropped[j] + Grouped(ev, j)]
  <2>1. x = [s EXCEPT !.storm = y, !.dropped = dr]
    <3>1. x = [s EXCEPT !.storm = Start(@, k, MaxGroups),
                        !.dropped = [key \in Keys |->
                           @[key] + Grouped(Evicted(s.storm, k, MaxGroups), key)]]
      BY <1>4 DEF Route, GroupError
    <3> QED  BY <3>1
  <2>2. /\ CounterOK(y, Keys, MaxGroups) /\ ev \in Seq(StormGroups) /\ g \in StormGroups
        /\ \A w \in [StormGroups -> Nat] : Weigh(y.groups, w) + Weigh(ev, w) = Weigh(s.storm.groups, w) + w[g]
    BY ONLY <1>1, <1>4, k \in Keys, StartKeeps DEF StormGroups
  <2>3. g.key = k /\ g.count = 1
    OBVIOUS
  <2>4. dr \in [Keys -> Nat] /\ \A j \in Keys : dr[j] = s.dropped[j] + Grouped(ev, j)
    <3>1. \A j \in Keys : Grouped(ev, j) \in Nat
      BY <2>2, CountFacts
    <3> QED  BY <1>1, <3>1
  <2> HIDE DEF x, y, g, ev, dr
  <2>5. x.repeat = s.repeat /\ x.storm = y /\ x.dropped = dr /\ RoutedOK(x)
    <3>1. y \in StormStates
      BY <1>2, <2>2
    <3>2. /\ x \in [repeat : RepeatStates, storm : StormStates, dropped : [Keys -> Nat]]
          /\ x.repeat = s.repeat /\ x.storm = y /\ x.dropped = dr
      BY ONLY <1>1, <2>1, <2>4, <3>1
    <3> QED  BY <1>1, <2>2, <3>2 DEF RoutedOK
  <2>6. ASSUME NEW j \in Keys PROVE Owed(x, j) = Owed(s, j) + d(j)
    <3>1. CountsOf(j) \in [StormGroups -> Nat]
      BY CountFacts
    <3>2. Weigh(y.groups, CountsOf(j)) + Weigh(ev, CountsOf(j)) = Weigh(s.storm.groups, CountsOf(j)) + CountsOf(j)[g]
      BY <2>2, <3>1
    <3>3. CountsOf(j)[g] = d(j)
      BY <2>2, <2>3 DEF CountsOf
    <3>4. y.groups \in Seq(StormGroups)
      BY <1>2, <2>2
    <3>5. /\ Grouped(y.groups, j) = Weigh(y.groups, CountsOf(j)) /\ Grouped(y.groups, j) \in Nat
          /\ Grouped(ev, j) = Weigh(ev, CountsOf(j)) /\ Grouped(ev, j) \in Nat
          /\ Grouped(s.storm.groups, j) = Weigh(s.storm.groups, CountsOf(j))
          /\ Grouped(s.storm.groups, j) \in Nat
      BY <1>1, <2>2, <3>4, CountFacts
    <3>6. d(j) \in Nat
      OBVIOUS
    <3> HIDE DEF d
    <3>7. Grouped(y.groups, j) + Grouped(ev, j) = Grouped(s.storm.groups, j) + d(j)
      BY ONLY <3>2, <3>3, <3>5
    <3>8. Account(s.repeat, j) \in Nat /\ s.dropped[j] \in Nat
      BY RoutedFacts
    <3>9. Owed(x, j) = Account(s.repeat, j) + Grouped(y.groups, j) + (s.dropped[j] + Grouped(ev, j))
      BY <2>4, <2>5 DEF Owed
    <3>10. Owed(s, j) = Account(s.repeat, j) + Grouped(s.storm.groups, j) + s.dropped[j]
      BY DEF Owed
    <3> QED  BY ONLY <3>5, <3>6, <3>7, <3>8, <3>9, <3>10
  <2> QED  BY <2>5, <2>6 DEF x
<1>5. CASE k \notin Errors /\ out
  <2>1. x = [s EXCEPT !.dropped[k] = @ + 1]
    BY <1>5 DEF Route
  <2> DEFINE dr == [s.dropped EXCEPT ![k] = @ + 1]
  <2>2. dr \in [Keys -> Nat] /\ \A j \in Keys : dr[j] = s.dropped[j] + d(j)
    BY <1>1
  <2>3. x = [s EXCEPT !.dropped = dr]
    BY <2>1
  <2> HIDE DEF x, dr
  <2>4. x.repeat = s.repeat /\ x.storm = s.storm /\ x.dropped = dr /\ RoutedOK(x)
    <3>1. /\ x \in [repeat : RepeatStates, storm : StormStates, dropped : [Keys -> Nat]]
          /\ x.repeat = s.repeat /\ x.storm = s.storm /\ x.dropped = dr
      BY ONLY <1>1, <2>2, <2>3
    <3> QED  BY <1>1, <3>1 DEF RoutedOK
  <2>5. ASSUME NEW j \in Keys PROVE Owed(x, j) = Owed(s, j) + d(j)
    <3>1. /\ Owed(x, j) = Account(s.repeat, j) + Grouped(s.storm.groups, j) + (s.dropped[j] + d(j))
          /\ Owed(s, j) = Account(s.repeat, j) + Grouped(s.storm.groups, j) + s.dropped[j]
      BY <2>2, <2>4 DEF Owed
    <3>2. /\ Account(s.repeat, j) \in Nat /\ s.dropped[j] \in Nat
          /\ Grouped(s.storm.groups, j) \in Nat /\ d(j) \in Nat
      BY RoutedFacts
    <3> HIDE DEF d
    <3> QED  BY ONLY <3>1, <3>2
  <2> QED  BY <2>4, <2>5 DEF x
<1>6. CASE k \notin Errors /\ ~out
  <2> DEFINE m == Message(k, 1)
             p == PushRepeat(s.repeat, m)
  <2>1. x = [s EXCEPT !.repeat = p]
    BY <1>6 DEF Route
  <2>2. m \in RepeatMsgs /\ m.key = k /\ m.times = 1
    BY DEF Message, RepeatMsgs, MsgKeys
  <2> HIDE DEF m
  <2>3. /\ RepeatOK(p)
        /\ \A j \in MsgKeys : Account(p, j) = Account(s.repeat, j) + (IF m.key = j THEN m.times ELSE 0)
    BY ONLY <1>1, <2>2, PushKeeps
  <2> HIDE DEF x, p
  <2>4. x.repeat = p /\ x.storm = s.storm /\ x.dropped = s.dropped /\ RoutedOK(x)
    <3>1. p \in RepeatStates
      BY <2>3 DEF RepeatOK
    <3>2. /\ x \in [repeat : RepeatStates, storm : StormStates, dropped : [Keys -> Nat]]
          /\ x.repeat = p /\ x.storm = s.storm /\ x.dropped = s.dropped
      BY ONLY <1>1, <2>1, <3>1
    <3> QED  BY <1>1, <2>3, <3>2 DEF RoutedOK
  <2>5. ASSUME NEW j \in Keys PROVE Owed(x, j) = Owed(s, j) + d(j)
    <3>1. Account(p, j) = Account(s.repeat, j) + d(j)
      <4>1. j \in MsgKeys
        BY DEF MsgKeys
      <4> QED  BY <2>2, <2>3, <4>1
    <3>2. /\ Owed(x, j) = Account(p, j) + Grouped(s.storm.groups, j) + s.dropped[j]
          /\ Owed(s, j) = Account(s.repeat, j) + Grouped(s.storm.groups, j) + s.dropped[j]
      BY <2>4 DEF Owed
    <3>3. /\ Account(s.repeat, j) \in Nat /\ s.dropped[j] \in Nat
          /\ Grouped(s.storm.groups, j) \in Nat /\ d(j) \in Nat
      BY RoutedFacts
    <3> HIDE DEF d
    <3> QED  BY ONLY <3>1, <3>2, <3>3
  <2> QED  BY <2>4, <2>5 DEF x
<1> QED  BY <1>3, <1>4, <1>5, <1>6

\* The routing of a batch, entry by entry.
LEMMA RoutedUnfolds ==
    ASSUME NEW batch, NEW sampledOut, Len(batch) \in Nat
    PROVE  \E f : /\ Routed(batch, sampledOut) = f[Len(batch)] /\ f[0] = [repeat |-> repeat, storm |-> storm, dropped |-> dropped]
                  /\ \A i \in 1 .. Len(batch) : f[i] = Route(f[i - 1], batch[i], i \in sampledOut)
<1> DEFINE N == Len(batch)
           Step(x, i) == Route(x, batch[i], i \in sampledOut)
           Unfolds(g) == g = [i \in 0 .. N |-> IF i = 0 THEN [repeat |-> repeat, storm |-> storm, dropped |-> dropped] ELSE Step(g[i - 1], i)]
           Grows(g, k) == g[0] = [repeat |-> repeat, storm |-> storm, dropped |-> dropped] /\ \A i \in 1 .. k : g[i] = Step(g[i - 1], i)
           f == CHOOSE g : Unfolds(g)
<1>0. N \in Nat
  OBVIOUS
<1>1. Routed(batch, sampledOut) = f[N]
  BY DEF Routed
<1>2. \E g : Unfolds(g)
  <2> DEFINE BuiltUpTo(k) == \E g : g = [i \in 0 .. k |-> g[i]] /\ Grows(g, k)
             R == {k \in Nat : BuiltUpTo(k)}
  <2>1. 0 \in R
    <3> DEFINE g == [i \in 0 .. 0 |-> [repeat |-> repeat, storm |-> storm, dropped |-> dropped]]
    <3>1. g = [i \in 0 .. 0 |-> g[i]] /\ Grows(g, 0)
      OBVIOUS
    <3> QED  BY <3>1
  <2>2. ASSUME NEW k \in Nat, k \in R PROVE k + 1 \in R
    <3> SUFFICES BuiltUpTo(k + 1)
      <4> HIDE DEF BuiltUpTo
      <4> QED  BY <2>2
    <3>1. PICK h : h = [i \in 0 .. k |-> h[i]] /\ Grows(h, k)
      BY <2>2
    <3> DEFINE g == [i \in 0 .. k + 1 |-> IF i = k + 1 THEN Step(h[k], k + 1) ELSE h[i]]
    <3> HIDE DEF Step
    <3>2. (\A i \in 0 .. k : g[i] = h[i]) /\ g[k + 1] = Step(h[k], k + 1)
      OBVIOUS
    <3>3. g = [i \in 0 .. k + 1 |-> g[i]]
      OBVIOUS
    <3> HIDE DEF g
    <3>4. g[0] = [repeat |-> repeat, storm |-> storm, dropped |-> dropped]
      BY <3>1, <3>2
    <3>5. ASSUME NEW i \in 1 .. k + 1 PROVE g[i] = Step(g[i - 1], i)
      <4>1. CASE i = k + 1
        <5>1. i - 1 = k /\ k \in 0 .. k
          BY <4>1
        <5> QED  BY <3>2, <4>1, <5>1
      <4>2. CASE i \in 1 .. k
        <5>1. i - 1 \in 0 .. k /\ i \in 0 .. k
          BY <4>2
        <5> QED  BY <3>1, <3>2, <4>2, <5>1
      <4> QED  BY <4>1, <4>2
    <3> QED  BY <3>3, <3>4, <3>5
  <2>3. N \in R
    <3> HIDE DEF R
    <3> QED  BY <2>1, <2>2, <1>0, SetInduction
  <2>4. PICK g : g = [i \in 0 .. N |-> g[i]] /\ Grows(g, N)
    BY <2>3
  <2> HIDE DEF Step, N
  <2>5. ASSUME NEW i \in 0 .. N PROVE g[i] = IF i = 0 THEN [repeat |-> repeat, storm |-> storm, dropped |-> dropped] ELSE Step(g[i - 1], i)
    <3>1. CASE i = 0
      BY <2>4, <3>1
    <3>2. CASE i # 0
      <4>1. i \in 1 .. N
        BY <1>0, <3>2
      <4> QED  BY <2>4, <3>2, <4>1
    <3> QED  BY <3>1, <3>2
  <2> QED  BY <2>4, <2>5
<1>3. Unfolds(f)
  <2> HIDE DEF Unfolds
  <2> QED  BY <1>2
<1>4. f[0] = [repeat |-> repeat, storm |-> storm, dropped |-> dropped] /\ \A i \in 1 .. N : f[i] = Step(f[i - 1], i)
  <2> HIDE DEF f, Step
  <2> QED  BY <1>3, <1>0
<1> HIDE DEF f
<1> QED  BY ONLY <1>1, <1>4

\* Each entry of a batch is accounted for once, whatever is sampled out.
LEMMA RoutedKeeps ==
    ASSUME NEW batch \in Seq(Keys), NEW sampledOut,
           RoutedOK([repeat |-> repeat, storm |-> storm, dropped |-> dropped])
    PROVE  LET s == [repeat |-> repeat, storm |-> storm, dropped |-> dropped]
               x == Routed(batch, sampledOut)
           IN  /\ RoutedOK(x)
               /\ \A k \in Keys : Owed(x, k) = Owed(s, k) + CountOf(batch, k)
<1> DEFINE s == [repeat |-> repeat, storm |-> storm, dropped |-> dropped]
<1>0. Len(batch) \in Nat /\ RoutedOK(s)
  OBVIOUS
<1> DEFINE N == Len(batch)
<1>1. PICK f : /\ Routed(batch, sampledOut) = f[N] /\ f[0] = s
               /\ \A i \in 1 .. N : f[i] = Route(f[i - 1], batch[i], i \in sampledOut)
  BY ONLY <1>0, RoutedUnfolds
<1> HIDE DEF s
<1> DEFINE Good(j) == LET b == SubSeq(batch, 1, j)
                      IN  /\ RoutedOK(f[j])
                          /\ \A k \in Keys : Owed(f[j], k) = Owed(s, k) + Weigh(b, OneIf(k))
           R == {j \in Nat : j <= N => Good(j)}
<1>2. \A k : OneIf(k) \in [Keys -> Nat]
  <2>1. batch \in Seq(Keys)
    OBVIOUS
  <2> QED  BY ONLY <2>1, MessagesTell
<1>3. 0 \in R
  <2>1. SubSeq(batch, 1, 0) = <<>> /\ <<>> \in Seq(Keys)
    OBVIOUS
  <2>2. ASSUME NEW k \in Keys PROVE Owed(f[0], k) = Owed(s, k) + Weigh(SubSeq(batch, 1, 0), OneIf(k))
    <3>1. Weigh(<<>>, OneIf(k)) = 0
      BY ONLY <1>2, <2>1, WeighBasics
    <3>2. Owed(s, k) \in Nat
      BY <1>0, RoutedFacts
    <3>3. Weigh(SubSeq(batch, 1, 0), OneIf(k)) = 0
      BY ONLY <2>1, <3>1
    <3>4. Owed(f[0], k) = Owed(s, k)
      BY ONLY <1>1
    <3> QED  BY ONLY <3>2, <3>3, <3>4
  <2>3. Good(0)
    BY <1>0, <1>1, <2>2
  <2> QED  BY <2>3
<1>4. ASSUME NEW j \in Nat, j \in R PROVE j + 1 \in R
  <2> SUFFICES ASSUME j + 1 <= N PROVE Good(j + 1)
    OBVIOUS
  <2> DEFINE b == SubSeq(batch, 1, j)
             t == SubSeq(batch, 1, j + 1)
             m == batch[j + 1]
             out == (j + 1) \in sampledOut
  <2>1. Good(j) /\ j + 1 \in 1 .. N /\ (j + 1) - 1 = j
    BY <1>0, <1>4
  <2>2. m \in Keys /\ b \in Seq(Keys) /\ t = Append(b, m)
    <3>1. batch \in Seq(Keys) /\ j + 1 \in 1 .. Len(batch) /\ j \in Nat
      BY <2>1
    <3> QED  BY ONLY <3>1
  <2>3. f[j + 1] = Route(f[j], m, out)
    BY <1>1, <2>1
  <2>4. /\ RoutedOK(f[j])
        /\ \A k \in Keys : Owed(f[j], k) = Owed(s, k) + Weigh(b, OneIf(k))
    BY <2>1
  <2> HIDE DEF b, t, m, out
  <2>5. /\ RoutedOK(f[j + 1])
        /\ \A k \in Keys : Owed(f[j + 1], k) = Owed(f[j], k) + (IF m = k THEN 1 ELSE 0)
    <3>1. /\ RoutedOK(Route(f[j], m, out))
          /\ \A k \in Keys : Owed(Route(f[j], m, out), k) = Owed(f[j], k) + (IF m = k THEN 1 ELSE 0)
      BY ONLY <2>2, <2>4, RouteKeeps
    <3> QED  BY <2>3, <3>1
  <2>6. ASSUME NEW k \in Keys PROVE Owed(f[j + 1], k) = Owed(s, k) + Weigh(t, OneIf(k))
    <3> DEFINE d == IF m = k THEN 1 ELSE 0
    <3>1. Weigh(t, OneIf(k)) = Weigh(b, OneIf(k)) + d /\ Weigh(b, OneIf(k)) \in Nat
      <4>1. OneIf(k)[m] = d
        BY <2>2 DEF OneIf
      <4>2. /\ Weigh(b, OneIf(k)) \in Nat
            /\ Weigh(Append(b, m), OneIf(k)) = Weigh(b, OneIf(k)) + OneIf(k)[m]
        BY ONLY <1>2, <2>2, WeighAppend, SMTT(20)
      <4> HIDE DEF d
      <4> QED  BY <2>2, <4>1, <4>2
    <3>2. Owed(s, k) \in Nat /\ d \in Nat
      BY <1>0, RoutedFacts
    <3>3. Owed(f[j + 1], k) = Owed(f[j], k) + d /\ Owed(f[j], k) = Owed(s, k) + Weigh(b, OneIf(k))
      BY <2>4, <2>5
    <3> HIDE DEF d
    <3> QED  BY ONLY <3>1, <3>2, <3>3
  <2> QED  BY <2>5, <2>6 DEF t
<1>5. N \in R
  <2> HIDE DEF R
  <2> QED  BY <1>0, <1>3, <1>4, SetInduction
<1>6. SubSeq(batch, 1, N) = batch
  OBVIOUS
<1>7. Good(N)
  BY <1>0, <1>5
<1>8. \A k : CountOf(batch, k) = Weigh(batch, OneIf(k))
  <2>1. batch \in Seq(Keys)
    OBVIOUS
  <2> QED  BY ONLY <2>1, MessagesTell
<1> HIDE DEF N
<1> QED  BY <1>1, <1>6, <1>7, <1>8 DEF N, s

-----------------------------------------------------------------------------
(* The adaptive transport.                                                 *)

\* What is true between the operations of the adaptive transport: the types, the
\* two counters with one group for a key, the timers of the open groups, the
\* account of every entry, and no group of a storm outside storms.
AdaptiveInv ==
    /\ AdaptiveTypeOK /\ StormGroupsInStorm
    /\ RepeatOK(repeat) /\ CounterOK(storm, Keys, MaxGroups)
    /\ \A k \in Keys :
         written[k] = Account(repeat, k) + Grouped(storm.groups, k) + dropped[k]

\* The empty counter is consistent for both uses.
LEMMA NoStorm ==
    /\ CounterOK(NoGroups, Keys, MaxGroups) /\ CounterOK(NoGroups, RepeatMsgs, MaxKeys)
    /\ NoGroups.groups = <<>>
<1>1. \A K : <<>> \in Seq(GroupSet(K))
  OBVIOUS
<1>2. KeysOnce(<<>>) /\ Len(<<>>) = 0
  BY DEF KeysOnce
<1> QED  BY <1>1, <1>2, AdaptiveConstants, RepeatConstants DEF NoGroups, CounterOK

\* So is the repeat transport that was just made.
LEMMA FreshIsOK == RepeatOK(FreshRepeat) /\ \A k \in MsgKeys : Account(FreshRepeat, k) = 0
<1> DEFINE st == FreshRepeat
           z == [k \in MsgKeys |-> 0]
<1>1. st = [gc |-> NoGroups, timers |-> {}, closed |-> FALSE, shown |-> z, lost |-> z]
  BY DEF FreshRepeat, MsgKeys
<1>2. z \in [MsgKeys -> Nat] /\ \A k \in MsgKeys : z[k] = 0
  OBVIOUS
<1> HIDE DEF st, z
<1>3. /\ st.gc = NoGroups /\ st.timers = {} /\ st.shown = z /\ st.lost = z
      /\ NoGroups \in [groups : Seq(RepeatGroups), started : Nat]
  BY <1>1, NoStorm DEF CounterOK, RepeatGroups
<1>4. st \in RepeatStates
  BY <1>1, <1>2, <1>3 DEF RepeatStates
<1>5. Timers(<<>>) = {}
  <2>1. ToSet(<<>>) = {}
    BY DEF ToSet
  <2> QED  BY <2>1 DEF Timers
<1>6. RepeatOK(st)
  BY <1>3, <1>4, <1>5, NoStorm DEF RepeatOK
<1>7. ASSUME NEW k \in MsgKeys PROVE Account(st, k) = 0
  <2>1. Unreported(st, k) = Weigh(<<>>, RestOf(k))
    BY <1>3, <1>6, NoStorm, RepeatFacts
  <2>2. Weigh(<<>>, RestOf(k)) = 0
    <3>1. <<>> \in Seq(RepeatGroups)
      OBVIOUS
    <3> QED  BY <3>1, RestBasics
  <2> QED  BY <1>2, <1>3, <2>1, <2>2 DEF Account
<1> QED  BY <1>6, <1>7 DEF st

\* The initial state satisfies the invariant.
LEMMA AdaptiveStarts == AdaptiveInit => AdaptiveInv
<1> SUFFICES ASSUME AdaptiveInit PROVE AdaptiveInv
  OBVIOUS
<1>1. /\ clock = 0 /\ throttled = FALSE /\ cooldownStart = MaxClock + 1
      /\ written = [k \in Keys |-> 0] /\ dropped = [k \in Keys |-> 0]
      /\ repeat = FreshRepeat /\ storm = NoGroups
  BY DEF AdaptiveInit
<1>2. RepeatOK(repeat) /\ CounterOK(storm, Keys, MaxGroups) /\ storm.groups = <<>>
      /\ \A k \in MsgKeys : Account(repeat, k) = 0
  BY <1>1, FreshIsOK, NoStorm
<1>3. AdaptiveTypeOK
  <2>1. Len(repeat.gc.groups) <= MaxKeys /\ Len(storm.groups) <= MaxGroups
    BY <1>2 DEF RepeatOK, CounterOK
  <2>2. clock \in 0 .. MaxClock /\ cooldownStart \in 0 .. None
    BY <1>1, AdaptiveConstants DEF None
  <2> QED  BY <1>1, <2>1, <2>2 DEF AdaptiveTypeOK
<1>4. ASSUME NEW k \in Keys
      PROVE  written[k] = Account(repeat, k) + Grouped(storm.groups, k) + dropped[k]
  <2>1. Grouped(<<>>, k) = 0 /\ k \in MsgKeys
    BY CountFacts DEF MsgKeys
  <2> QED  BY <1>1, <1>2, <2>1
<1> QED  BY <1>2, <1>3, <1>4 DEF AdaptiveInv, StormGroupsInStorm

\* What the invariant says of each key, as numbers.
LEMMA AdaptiveFacts ==
    ASSUME AdaptiveInv
    PROVE  /\ written \in [Keys -> Nat] /\ dropped \in [Keys -> Nat]
           /\ storm.groups \in Seq(StormGroups)
           /\ \A k \in Keys : /\ k \in MsgKeys /\ Account(repeat, k) \in Nat
                              /\ Grouped(storm.groups, k) \in Nat /\ Single(storm, k) \in Nat
                              /\ written[k] = Account(repeat, k) + Grouped(storm.groups, k) + dropped[k]
           /\ storm.groups = <<>> => \A k \in Keys : Single(storm, k) = 0
<1>1. /\ written \in [Keys -> Nat] /\ dropped \in [Keys -> Nat]
      /\ RepeatOK(repeat) /\ CounterOK(storm, Keys, MaxGroups)
      /\ \A k \in Keys : written[k] = Account(repeat, k) + Grouped(storm.groups, k) + dropped[k]
  BY DEF AdaptiveInv, AdaptiveTypeOK
<1>2. storm.groups \in Seq(StormGroups)
  BY <1>1 DEF CounterOK, StormGroups
<1>3. ASSUME NEW k \in Keys
      PROVE  /\ k \in MsgKeys /\ Account(repeat, k) \in Nat /\ Grouped(storm.groups, k) \in Nat
             /\ Single(storm, k) \in Nat
             /\ storm.groups = <<>> => Single(storm, k) = 0
  <2>1. k \in MsgKeys /\ Account(repeat, k) \in Nat
    BY <1>1, AccountNat DEF MsgKeys
  <2>2. Grouped(storm.groups, k) \in Nat /\ Grouped(<<>>, k) = 0
    BY <1>2, CountFacts
  <2>3. /\ Summaries(storm) \in Seq(RepeatMsgs) /\ Single(storm, k) \in Nat
        /\ Weigh(Summaries(storm), TimesOf(k)) + Single(storm, k) = Grouped(storm.groups, k)
    BY <1>1, SummariesTell
  <2>4. Weigh(Summaries(storm), TimesOf(k)) \in Nat
    BY <2>3, TimesFacts
  <2> QED  BY <2>1, <2>2, <2>3, <2>4
<1>4. storm.groups = <<>> => \A k \in Keys : Single(storm, k) = 0
  BY <1>3
<1> QED  BY <1>1, <1>2, <1>3, <1>4

\* What a drained counter is.
LEMMA StormDrains ==
    ASSUME CounterOK(storm, Keys, MaxGroups)
    PROVE  CounterOK(Drain(storm), Keys, MaxGroups) /\ Drain(storm).groups = <<>>
<1> DEFINE y == Drain(storm)
<1>1. y = [storm EXCEPT !.groups = <<>>]
  BY DEF Drain
<1>2. <<>> \in Seq(GroupSet(Keys)) /\ KeysOnce(<<>>) /\ Len(<<>>) = 0
  BY DEF KeysOnce
<1>3. storm \in [groups : Seq(GroupSet(Keys)), started : Nat]
  BY DEF CounterOK
<1> HIDE DEF y
<1>4. y.groups = <<>> /\ y \in [groups : Seq(GroupSet(Keys)), started : Nat]
  BY ONLY <1>1, <1>2, <1>3
<1>5. 0 <= MaxGroups
  BY AdaptiveConstants
<1>6. CounterOK(y, Keys, MaxGroups)
  BY <1>2, <1>4, <1>5 DEF CounterOK
<1> QED  BY <1>4, <1>6 DEF y

\* An arrival counts the entries of its batch.
LEMMA ArriveCounts ==
    ASSUME AdaptiveInv, NEW batch \in Batches, Arrive(batch)
    PROVE  /\ batch \in Seq(Keys) /\ written' \in [Keys -> Nat]
           /\ clock' = clock /\ \A k \in Keys : written'[k] = written[k] + CountOf(batch, k)
<1>1. batch \in Seq(Keys)
  BY DEF Batches
<1>2. \A k \in Keys : CountOf(batch, k) \in Nat
  BY <1>1, MessagesTell
<1>3. written' = [k \in Keys |-> written[k] + CountOf(batch, k)] /\ clock' = clock
  BY DEF Arrive
<1> QED  BY <1>1, <1>2, <1>3, AdaptiveFacts

\* The invariant follows from its parts, whatever the step did.
LEMMA AdaptiveNextParts ==
    ASSUME RepeatOK(repeat'), CounterOK(storm', Keys, MaxGroups),
           written' \in [Keys -> Nat], dropped' \in [Keys -> Nat],
           clock' \in 0 .. MaxClock, throttled' \in BOOLEAN, cooldownStart' \in 0 .. None,
           ~throttled' => storm'.groups = <<>>,
           \A k \in Keys :
             written'[k] = Account(repeat', k) + Grouped(storm'.groups, k) + dropped'[k]
    PROVE  AdaptiveInv'
<1>1. Len(repeat'.gc.groups) <= MaxKeys /\ Len(storm'.groups) <= MaxGroups
  BY DEF RepeatOK, CounterOK
<1>2. AdaptiveTypeOK'
  BY <1>1 DEF AdaptiveTypeOK, None
<1> QED  BY <1>2 DEF AdaptiveInv, StormGroupsInStorm, Account, Unreported

\* The cooldown starts at a time, or has not.
LEMMA CoolingType ==
    ASSUME AdaptiveInv, NEW errs
    PROVE  Cooling(errs) \in 0 .. None /\ None \in 0 .. None
<1>1. clock \in 0 .. MaxClock /\ cooldownStart \in 0 .. None
  BY DEF AdaptiveInv, AdaptiveTypeOK
<1>2. None \in 0 .. None /\ clock \in 0 .. None
  BY <1>1, AdaptiveConstants DEF None
<1> QED  BY <1>1, <1>2 DEF Cooling

\* A batch written as it is, after the notice and the summaries of the storm it ends.
LEMMA AsIsKeeps ==
    ASSUME AdaptiveInv, NEW batch \in Batches, WriteAsIs(batch)
    PROVE  AdaptiveInv'
<1> DEFINE errs == Observed(batch)
           ends == StormEnds(errs)
           told == IF ends THEN Summaries(storm) ELSE <<>>
           note == IF ends \/ StormStarts(errs) THEN <<Message(Notice, 1)>> ELSE <<>>
           ms == (told \o note) \o Messages(batch)
<1>1. /\ Arrive(batch) /\ AsIs(errs) /\ repeat' = PushAll(repeat, ms)
      /\ throttled' = StormStarts(errs) /\ cooldownStart' = None
      /\ IF ends THEN /\ storm' = Drain(storm)
                      /\ dropped' = [k \in Keys |-> dropped[k] + Single(storm, k)]
                 ELSE dropped' = dropped /\ storm' = storm
  BY DEF WriteAsIs
<1>2. /\ RepeatOK(repeat) /\ CounterOK(storm, Keys, MaxGroups)
      /\ throttled \in BOOLEAN /\ clock \in 0 .. MaxClock
      /\ ~throttled => storm.groups = <<>>
  BY DEF AdaptiveInv, StormGroupsInStorm, AdaptiveTypeOK
<1>3. /\ batch \in Seq(Keys) /\ written' \in [Keys -> Nat]
      /\ clock' = clock /\ \A k \in Keys : written'[k] = written[k] + CountOf(batch, k)
  BY <1>1, ArriveCounts
<1>4. (ends => throttled) /\ (~ends => ~throttled) /\ throttled' \in BOOLEAN
  BY <1>1 DEF AsIs, StormEnds, StormStarts
<1>5. Messages(batch) \in Seq(RepeatMsgs)
      /\ \A k : /\ Weigh(Messages(batch), TimesOf(k)) = CountOf(batch, k)
                /\ CountOf(batch, k) \in Nat
  BY <1>3, MessagesTell
<1>6. /\ Summaries(storm) \in Seq(RepeatMsgs)
      /\ \A k : /\ Single(storm, k) \in Nat
                /\ Weigh(Summaries(storm), TimesOf(k)) + Single(storm, k) = Grouped(storm.groups, k)
  BY <1>2, SummariesTell
<1>7. <<>> \in Seq(RepeatMsgs) /\ \A k : Weigh(<<>>, TimesOf(k)) = 0
  <2>1. <<>> \in Seq(RepeatMsgs)
    OBVIOUS
  <2> QED  BY <2>1, TimesFacts
<1>8. note \in Seq(RepeatMsgs) /\ \A k \in Keys : Weigh(note, TimesOf(k)) = 0
  BY <1>7, NoticeTells
<1>9. told \in Seq(RepeatMsgs)
  BY <1>6, <1>7
<1>10. ASSUME ends, NEW k \in Keys
       PROVE  Weigh(told, TimesOf(k)) + Single(storm, k) = Grouped(storm.groups, k)
  BY <1>6, <1>10
<1>11. ASSUME ~ends, NEW k \in Keys PROVE Weigh(told, TimesOf(k)) = 0
  BY <1>7, <1>11
<1> HIDE DEF told, note, ends, errs
<1>12. /\ ms \in Seq(RepeatMsgs)
       /\ \A k \in Keys : Weigh(ms, TimesOf(k)) = Weigh(told, TimesOf(k)) + CountOf(batch, k)
  <2>1. ms \in Seq(RepeatMsgs) /\ told \o note \in Seq(RepeatMsgs)
    BY <1>5, <1>8, <1>9
  <2>2. ASSUME NEW k \in Keys PROVE Weigh(ms, TimesOf(k)) = Weigh(told, TimesOf(k)) + CountOf(batch, k)
    <3>1. TimesOf(k) \in [RepeatMsgs -> Nat]
      BY TimesFacts
    <3>2. Weigh(told \o note, TimesOf(k)) = Weigh(told, TimesOf(k)) + Weigh(note, TimesOf(k))
          /\ Weigh(told, TimesOf(k)) \in Nat
      BY ONLY <1>8, <1>9, <3>1, WeighBasics
    <3>3. Weigh(ms, TimesOf(k)) = Weigh(told \o note, TimesOf(k)) + Weigh(Messages(batch), TimesOf(k))
      BY ONLY <1>5, <2>1, <3>1, WeighBasics
    <3> HIDE DEF Weigh, ms
    <3> QED  BY <1>5, <1>8, <3>2, <3>3
  <2> QED  BY <2>1, <2>2
<1> HIDE DEF ms
<1>13. /\ RepeatOK(repeat')
       /\ \A k \in MsgKeys : Account(repeat', k) = Account(repeat, k) + Weigh(ms, TimesOf(k))
  <2>1. /\ RepeatOK(PushAll(repeat, ms))
        /\ \A k \in MsgKeys : Account(PushAll(repeat, ms), k) = Account(repeat, k) + Weigh(ms, TimesOf(k))
    BY ONLY <1>2, <1>12, PushAllKeeps
  <2> QED  BY <1>1, <2>1
<1>14. /\ CounterOK(storm', Keys, MaxGroups) /\ storm'.groups = <<>>
       /\ dropped' \in [Keys -> Nat]
  <2>1. CASE ends
    <3>1. storm' = Drain(storm) /\ dropped' = [k \in Keys |-> dropped[k] + Single(storm, k)]
      BY <1>1, <2>1
    <3> QED  BY <1>2, <3>1, AdaptiveFacts, StormDrains
  <2>2. CASE ~ends
    BY <1>1, <1>2, <1>4, <2>2, AdaptiveFacts
  <2> QED  BY <2>1, <2>2
<1>15. ASSUME NEW k \in Keys
       PROVE  written'[k] = Account(repeat', k) + Grouped(storm'.groups, k) + dropped'[k]
  <2>1. /\ Account(repeat', k) = Account(repeat, k) + (Weigh(told, TimesOf(k)) + CountOf(batch, k))
        /\ Weigh(told, TimesOf(k)) \in Nat
    <3>1. k \in MsgKeys
      BY DEF MsgKeys
    <3>2. Weigh(told, TimesOf(k)) \in Nat
      BY <1>9, TimesFacts
    <3> QED  BY <1>12, <1>13, <3>1, <3>2
  <2>2. /\ Account(repeat, k) \in Nat /\ Grouped(storm.groups, k) \in Nat /\ Single(storm, k) \in Nat
        /\ written[k] = Account(repeat, k) + Grouped(storm.groups, k) + dropped[k]
        /\ dropped[k] \in Nat /\ CountOf(batch, k) \in Nat
    BY <1>5, AdaptiveFacts
  <2>3. Grouped(storm'.groups, k) = 0 /\ Grouped(<<>>, k) = 0
    BY <1>14, CountFacts
  <2>4. Weigh(told, TimesOf(k)) + dropped'[k] = Grouped(storm.groups, k) + dropped[k] /\ dropped'[k] \in Nat
    <3>1. CASE ends
      <4>1. dropped'[k] = dropped[k] + Single(storm, k)
        BY <1>1, <3>1
      <4>2. Weigh(told, TimesOf(k)) + Single(storm, k) = Grouped(storm.groups, k)
        BY <1>10, <3>1
      <4> QED  BY ONLY <2>1, <2>2, <4>1, <4>2
    <3>2. CASE ~ends
      <4>1. dropped'[k] = dropped[k] /\ Weigh(told, TimesOf(k)) = 0
        BY <1>1, <1>11, <3>2
      <4>2. Grouped(storm.groups, k) = 0
        BY <1>2, <1>4, <2>3, <3>2
      <4> QED  BY ONLY <2>2, <4>1, <4>2
    <3> QED  BY <3>1, <3>2
  <2>5. written'[k] = written[k] + CountOf(batch, k)
    BY <1>3
  <2>6. \A a, g, d, c, t, e \in Nat : t + e = g + d => (a + g + d) + c = (a + (t + c)) + 0 + e
    OBVIOUS
  <2>7. (Account(repeat, k) + Grouped(storm.groups, k) + dropped[k]) + CountOf(batch, k)
          = (Account(repeat, k) + (Weigh(told, TimesOf(k)) + CountOf(batch, k))) + 0 + dropped'[k]
    BY ONLY <2>1, <2>2, <2>4, <2>6
  <2> QED  BY <2>1, <2>2, <2>3, <2>5, <2>7, Zenon
<1>16. clock' \in 0 .. MaxClock /\ cooldownStart' \in 0 .. None
  BY <1>1, <1>2, <1>3, CoolingType
<1> QED  BY <1>3, <1>4, <1>13, <1>14, <1>15, <1>16, AdaptiveNextParts

\* A batch of a storm.
LEMMA ThrottledKeeps ==
    ASSUME AdaptiveInv, NEW batch \in Batches, NEW sampledOut, WriteThrottled(batch, sampledOut)
    PROVE  AdaptiveInv'
<1> DEFINE errs == Observed(batch)
           s == [repeat |-> repeat, storm |-> storm, dropped |-> dropped]
           x == Routed(batch, sampledOut)
<1>1. /\ Arrive(batch) /\ ~AsIs(errs) /\ cooldownStart' = Cooling(errs)
      /\ repeat' = x.repeat /\ storm' = x.storm /\ dropped' = x.dropped
      /\ throttled' = (throttled \/ StormStarts(errs))
  BY DEF WriteThrottled
<1>2. /\ RepeatOK(repeat) /\ CounterOK(storm, Keys, MaxGroups)
      /\ throttled \in BOOLEAN /\ clock \in 0 .. MaxClock
  BY DEF AdaptiveInv, AdaptiveTypeOK
<1>3. /\ batch \in Seq(Keys) /\ written' \in [Keys -> Nat]
      /\ clock' = clock /\ \A k \in Keys : written'[k] = written[k] + CountOf(batch, k)
  BY <1>1, ArriveCounts
<1>4. throttled /\ throttled' = TRUE
  BY <1>1, <1>2 DEF AsIs
<1>5. RoutedOK(s)
  <2>1. repeat \in RepeatStates /\ storm \in StormStates /\ dropped \in [Keys -> Nat]
    BY <1>2, AdaptiveFacts DEF RepeatOK, CounterOK, StormStates, StormGroups
  <2> QED  BY <1>2, <2>1 DEF RoutedOK
<1>6. RoutedOK(x) /\ \A k \in Keys : Owed(x, k) = Owed(s, k) + CountOf(batch, k)
  BY ONLY <1>3, <1>5, RoutedKeeps
<1> HIDE DEF x
<1>7. /\ RepeatOK(repeat') /\ CounterOK(storm', Keys, MaxGroups) /\ dropped' \in [Keys -> Nat]
  BY <1>1, <1>6 DEF RoutedOK
<1>8. ASSUME NEW k \in Keys
      PROVE  written'[k] = Account(repeat', k) + Grouped(storm'.groups, k) + dropped'[k]
  <2>1. Owed(s, k) = Account(repeat, k) + Grouped(storm.groups, k) + dropped[k]
    BY DEF Owed
  <2>2. Owed(x, k) = Account(repeat', k) + Grouped(storm'.groups, k) + dropped'[k]
    BY <1>1 DEF Owed
  <2>3. written[k] = Owed(s, k)
    BY <2>1, AdaptiveFacts
  <2>4. Owed(x, k) = Owed(s, k) + CountOf(batch, k) /\ written'[k] = written[k] + CountOf(batch, k)
    BY <1>3, <1>6
  <2> HIDE DEF s
  <2> QED  BY ONLY <2>2, <2>3, <2>4
<1>9. clock' \in 0 .. MaxClock /\ cooldownStart' \in 0 .. None
  BY <1>1, <1>2, <1>3, CoolingType
<1> QED  BY <1>3, <1>4, <1>7, <1>8, <1>9, AdaptiveNextParts

\* flush() and close(): the summaries of the storm, then what the repeat
\* transport does with all it has.
LEMMA DrainedKeeps ==
    ASSUME AdaptiveInv, NEW y, Drained(y), RepeatOK(y),
           \A k \in MsgKeys :
             Account(y, k) = Account(PushAll(repeat, Summaries(storm)), k)
    PROVE  AdaptiveInv'
<1> DEFINE ms == Summaries(storm)
<1>1. /\ repeat' = y /\ storm' = Drain(storm)
      /\ dropped' = [k \in Keys |-> dropped[k] + Single(storm, k)]
      /\ clock' = clock /\ written' = written /\ throttled' = throttled
      /\ cooldownStart' = cooldownStart
  BY DEF Drained
<1>2. /\ RepeatOK(repeat) /\ CounterOK(storm, Keys, MaxGroups) /\ AdaptiveTypeOK
  BY DEF AdaptiveInv
<1>3. /\ ms \in Seq(RepeatMsgs)
      /\ \A k : /\ Single(storm, k) \in Nat
                /\ Weigh(ms, TimesOf(k)) + Single(storm, k) = Grouped(storm.groups, k)
  BY <1>2, SummariesTell
<1> HIDE DEF ms
<1>4. \A k \in MsgKeys : Account(PushAll(repeat, ms), k) = Account(repeat, k) + Weigh(ms, TimesOf(k))
  BY ONLY <1>2, <1>3, PushAllKeeps
<1>5. CounterOK(storm', Keys, MaxGroups) /\ storm'.groups = <<>>
  BY <1>1, <1>2, StormDrains
<1>6. dropped' \in [Keys -> Nat]
  BY <1>1, AdaptiveFacts
<1>7. ASSUME NEW k \in Keys
      PROVE  written'[k] = Account(repeat', k) + Grouped(storm'.groups, k) + dropped'[k]
  <2>1. k \in MsgKeys /\ Weigh(ms, TimesOf(k)) \in Nat
    BY <1>3, TimesFacts DEF MsgKeys
  <2>2. Account(repeat', k) = Account(repeat, k) + Weigh(ms, TimesOf(k))
    BY <1>1, <1>4, <2>1 DEF ms
  <2>3. Grouped(storm'.groups, k) = 0
    BY <1>5, CountFacts
  <2>4. dropped'[k] = dropped[k] + Single(storm, k) /\ written'[k] = written[k]
    BY <1>1
  <2>5. /\ Account(repeat, k) \in Nat /\ Single(storm, k) \in Nat /\ dropped[k] \in Nat
        /\ Grouped(storm.groups, k) \in Nat
        /\ written[k] = Account(repeat, k) + Grouped(storm.groups, k) + dropped[k]
    BY AdaptiveFacts
  <2>6. Weigh(ms, TimesOf(k)) + Single(storm, k) = Grouped(storm.groups, k)
    BY <1>3
  <2> QED  BY ONLY <2>1, <2>2, <2>3, <2>4, <2>5, <2>6
<1>8. RepeatOK(repeat') /\ written' \in [Keys -> Nat]
  BY <1>1, AdaptiveFacts
<1>9. clock' \in 0 .. MaxClock /\ throttled' \in BOOLEAN /\ cooldownStart' \in 0 .. None
  BY <1>1, <1>2 DEF AdaptiveTypeOK
<1> QED  BY <1>5, <1>6, <1>7, <1>8, <1>9, AdaptiveNextParts

\* Every step preserves the invariant.
LEMMA AdaptiveStep == AdaptiveInv /\ [AdaptiveNext]_adaptiveVars => AdaptiveInv'
<1> SUFFICES ASSUME AdaptiveInv, [AdaptiveNext]_adaptiveVars PROVE AdaptiveInv'
  OBVIOUS
<1>0. /\ RepeatOK(repeat) /\ CounterOK(storm, Keys, MaxGroups) /\ AdaptiveTypeOK
      /\ ~throttled => storm.groups = <<>>
  BY DEF AdaptiveInv, StormGroupsInStorm
<1>1. ASSUME NEW batch \in Batches, WriteAsIs(batch) PROVE AdaptiveInv'
  BY <1>1, AsIsKeeps
<1>2. ASSUME NEW batch \in Batches, NEW out \in SUBSET DOMAIN batch, WriteThrottled(batch, out)
      PROVE  AdaptiveInv'
  BY <1>2, ThrottledKeeps
<1>a. RepeatOK(PushAll(repeat, Summaries(storm)))
  <2>1. Summaries(storm) \in Seq(RepeatMsgs)
    BY <1>0, SummariesTell
  <2> QED  BY ONLY <1>0, <2>1, PushAllKeeps
<1>3. CASE FlushAdaptive
  <2> DEFINE z == PushAll(repeat, Summaries(storm))
             y == DrainAll(z)
  <2>1. Drained(y)
    BY <1>3 DEF FlushAdaptive
  <2>2. RepeatOK(y) /\ \A k \in MsgKeys : Account(y, k) = Account(z, k)
    BY ONLY <1>a, DrainKeeps
  <2> QED  BY ONLY AdaptiveInv, <2>1, <2>2, DrainedKeeps
<1>4. CASE CloseAdaptive
  <2> DEFINE z == PushAll(repeat, Summaries(storm))
             y == CloseRepeat(z)
  <2>1. Drained(y)
    BY <1>4 DEF CloseAdaptive
  <2>2. RepeatOK(y) /\ \A k \in MsgKeys : Account(y, k) = Account(z, k)
    BY ONLY <1>a, CloseKeeps
  <2> QED  BY ONLY AdaptiveInv, <2>1, <2>2, DrainedKeeps
<1>5. CASE ClockTick
  <2>1. /\ clock' = clock + 1 /\ clock < MaxClock /\ written' = written /\ repeat' = repeat
        /\ throttled' = throttled /\ cooldownStart' = cooldownStart /\ storm' = storm
        /\ dropped' = dropped
    BY <1>5 DEF ClockTick
  <2>2. clock' \in 0 .. MaxClock
    BY <1>0, <2>1, AdaptiveConstants DEF AdaptiveTypeOK
  <2>3. throttled' \in BOOLEAN /\ cooldownStart' \in 0 .. None
    BY <1>0, <2>1 DEF AdaptiveTypeOK
  <2>4. ASSUME NEW k \in Keys
        PROVE  written'[k] = Account(repeat', k) + Grouped(storm'.groups, k) + dropped'[k]
    BY <2>1, AdaptiveFacts
  <2> QED  BY <1>0, <2>1, <2>2, <2>3, <2>4, AdaptiveFacts, AdaptiveNextParts
<1>6. ASSUME NEW t \in repeat.timers, WindowTimer(t) PROVE AdaptiveInv'
  <2>1. /\ repeat' = WindowCloses(repeat, t) /\ clock' = clock /\ written' = written
        /\ throttled' = throttled /\ cooldownStart' = cooldownStart /\ storm' = storm
        /\ dropped' = dropped
    BY <1>6 DEF WindowTimer
  <2>2. RepeatOK(repeat') /\ \A k \in MsgKeys : Account(repeat', k) = Account(repeat, k)
    <3>1. /\ RepeatOK(WindowCloses(repeat, t))
          /\ \A k \in MsgKeys : Account(WindowCloses(repeat, t), k) = Account(repeat, k)
      BY ONLY <1>0, t \in repeat.timers, WindowKeeps
    <3> QED  BY <2>1, <3>1
  <2>3. clock' \in 0 .. MaxClock /\ throttled' \in BOOLEAN /\ cooldownStart' \in 0 .. None
    BY <1>0, <2>1 DEF AdaptiveTypeOK
  <2>4. ASSUME NEW k \in Keys
        PROVE  written'[k] = Account(repeat', k) + Grouped(storm'.groups, k) + dropped'[k]
    BY <2>1, <2>2, AdaptiveFacts
  <2> QED  BY <1>0, <2>1, <2>2, <2>3, <2>4, AdaptiveFacts, AdaptiveNextParts
<1>7. CASE UNCHANGED adaptiveVars
  BY <1>7 DEF adaptiveVars, AdaptiveInv, AdaptiveTypeOK, StormGroupsInStorm, Account, Unreported, None
<1> QED  BY <1>1, <1>2, <1>3, <1>4, <1>5, <1>6, <1>7 DEF AdaptiveNext

\* The two counters, the timers and the account of every entry hold in every
\* state of the adaptive transport over the repeat transport.
THEOREM AdaptiveInvariant == AdaptiveSpec => []AdaptiveInv
<1>1. AdaptiveInit => AdaptiveInv
  BY AdaptiveStarts
<1>2. AdaptiveInv /\ [AdaptiveNext]_adaptiveVars => AdaptiveInv'
  BY AdaptiveStep
<1> QED  BY <1>1, <1>2, PTL DEF AdaptiveSpec

\* The state properties follow from the invariant.
LEMMA AdaptiveImplies ==
    AdaptiveInv => AdaptiveTypeOK /\ EveryEntryAccounted /\ TimersMatchGroups /\ StormGroupsInStorm
<1> SUFFICES ASSUME AdaptiveInv
             PROVE  AdaptiveTypeOK /\ EveryEntryAccounted /\ TimersMatchGroups /\ StormGroupsInStorm
  OBVIOUS
<1>1. AdaptiveTypeOK /\ StormGroupsInStorm /\ RepeatOK(repeat)
  BY DEF AdaptiveInv
<1>2. TimersMatchGroups
  <2>1. repeat.timers = Timers(repeat.gc.groups)
    BY <1>1 DEF RepeatOK
  <2> QED  BY <2>1 DEF Timers, ToSet, TimersMatchGroups
<1>3. EveryEntryAccounted
  <2> SUFFICES ASSUME NEW k \in Keys
               PROVE  written[k] = repeat.shown[k] + Unreported(repeat, k) + repeat.lost[k]
                                     + Grouped(storm.groups, k) + dropped[k]
    BY DEF EveryEntryAccounted
  <2> QED  BY AdaptiveFacts DEF Account
<1> QED  BY <1>1, <1>2, <1>3

\* A step outside a storm drops nothing, and the step that starts a storm leaves
\* its groups alone.
LEMMA AdaptiveActions ==
    AdaptiveInv /\ [AdaptiveNext]_adaptiveVars =>
      /\ [~throttled => dropped' = dropped]_adaptiveVars
      /\ [~throttled /\ throttled' => storm' = storm]_adaptiveVars
<1> SUFFICES ASSUME AdaptiveInv, AdaptiveNext
             PROVE  /\ ~throttled => dropped' = dropped
                    /\ ~throttled /\ throttled' => storm' = storm
  BY DEF adaptiveVars
<1>1. ASSUME NEW batch \in Batches, WriteAsIs(batch), ~throttled
      PROVE  dropped' = dropped /\ storm' = storm
  <2>1. ~StormEnds(Observed(batch))
    BY <1>1 DEF StormEnds
  <2> QED  BY <1>1, <2>1 DEF WriteAsIs
<1>2. ASSUME NEW batch \in Batches, NEW out, WriteThrottled(batch, out) PROVE throttled
  BY <1>2 DEF WriteThrottled, AsIs
<1>3. ASSUME NEW y, Drained(y), ~throttled PROVE dropped' = dropped /\ throttled' = throttled
  <2>1. storm.groups = <<>>
    BY <1>3 DEF AdaptiveInv, StormGroupsInStorm
  <2>2. dropped' = [k \in Keys |-> dropped[k] + Single(storm, k)] /\ throttled' = throttled
    BY <1>3 DEF Drained
  <2>3. \A k \in Keys : Single(storm, k) = 0
    BY <2>1, AdaptiveFacts
  <2>4. dropped \in [Keys -> Nat]
    BY AdaptiveFacts
  <2>5. \A k \in Keys : dropped[k] + Single(storm, k) = dropped[k]
    BY <2>3, <2>4
  <2> QED  BY <2>2, <2>4, <2>5
<1>4. CASE FlushAdaptive \/ CloseAdaptive
  <2>1. \E y : Drained(y)
    BY <1>4 DEF FlushAdaptive, CloseAdaptive
  <2> QED  BY <1>3, <2>1
<1>5. CASE ClockTick \/ \E t \in repeat.timers : WindowTimer(t)
  BY <1>5 DEF ClockTick, WindowTimer
<1> QED  BY <1>1, <1>2, <1>4, <1>5 DEF AdaptiveNext

\* Every entry that is written is shown, counted by a group that will report it,
\* dropped by a rule of the storm or refused after close(); window timers and open
\* groups belong together; nothing is dropped outside storms, and the batch that
\* starts one is written as it is.
THEOREM GroupsConsistentCorrect == AdaptiveSpec => GroupsConsistent
<1>1. AdaptiveSpec => [](AdaptiveTypeOK /\ EveryEntryAccounted /\ TimersMatchGroups /\ StormGroupsInStorm)
  BY AdaptiveInvariant, AdaptiveImplies, PTL
<1>2. AdaptiveSpec => NothingDroppedOutsideStorms /\ TriggerIsVisible
  BY AdaptiveInvariant, AdaptiveActions, PTL
     DEF AdaptiveSpec, NothingDroppedOutsideStorms, TriggerIsVisible
<1> QED  BY <1>1, <1>2, PTL DEF GroupsConsistent

-----------------------------------------------------------------------------
(* The building of an entry.                                               *)

\* A path is a list of names that is not too long.
LEMMA PathFacts ==
    /\ <<>> \in Paths
    /\ \A p : p \in Paths <=> p \in Seq(Fields) /\ Len(p) <= MaxNesting
<1>1. MaxNesting \in Nat
  BY EntryAssumption
<1>2. <<>> \in Seq(Fields) /\ Len(<<>>) = 0
  BY EmptySeq
<1>3. ASSUME NEW p \in Paths PROVE p \in Seq(Fields) /\ Len(p) <= MaxNesting
  <2>1. PICK n \in 0 .. MaxNesting : p \in [1 .. n -> Fields]
    BY DEF Paths
  <2>2. n \in Nat /\ n <= MaxNesting
    BY <1>1
  <2>3. p \in Seq(Fields)
    BY <2>1, <2>2, SeqDef
  <2>4. DOMAIN p = 1 .. n /\ DOMAIN p = 1 .. Len(p) /\ Len(p) \in Nat
    BY <2>1, <2>3, LenProperties
  <2>5. Len(p) = n
    BY ONLY <2>2, <2>4
  <2> QED  BY <2>2, <2>3, <2>5
<1>4. ASSUME NEW p \in Seq(Fields), Len(p) <= MaxNesting PROVE p \in Paths
  <2> DEFINE n == Len(p)
  <2>1. n \in Nat /\ p \in [1 .. n -> Fields]
    BY LenProperties
  <2>2. n \in 0 .. MaxNesting
    BY <1>1, <1>4, <2>1
  <2> HIDE DEF n
  <2> QED  BY <2>1, <2>2 DEF Paths
<1>5. <<>> \in Paths
  <2>1. Len(<<>>) <= MaxNesting
    BY <1>1, <1>2
  <2> QED  BY <1>2, <1>4, <2>1
<1>6. \A p : p \in Paths <=> p \in Seq(Fields) /\ Len(p) <= MaxNesting
  BY <1>3, <1>4
<1> QED  BY <1>5, <1>6

\* A path that is longer by one name.
LEMMA LongerPath ==
    ASSUME NEW p \in Seq(Fields), NEW k \in Fields
    PROVE  LET q == Append(p, k)
           IN  /\ q \in Seq(Fields) /\ Len(q) = Len(p) + 1 /\ Len(p) \in Nat
               /\ q[Len(p) + 1] = k /\ \A i \in 1 .. Len(p) : q[i] = p[i]
               /\ \A n \in 0 .. Len(p) : SubSeq(q, 1, n) = SubSeq(p, 1, n)
               /\ SubSeq(p, 1, Len(p)) = p
<1> DEFINE q == Append(p, k)
<1>1. /\ q \in Seq(Fields) /\ Len(q) = Len(p) + 1 /\ Len(p) \in Nat
      /\ q[Len(p) + 1] = k /\ \A i \in 1 .. Len(p) : q[i] = p[i]
  OBVIOUS
<1>2. ASSUME NEW n \in 0 .. Len(p) PROVE SubSeq(q, 1, n) = SubSeq(p, 1, n)
  <2> DEFINE a == SubSeq(q, 1, n)
             b == SubSeq(p, 1, n)
  <2>1. /\ a \in Seq(Fields) /\ Len(a) = n /\ \A i \in 1 .. n : a[i] = q[i]
        /\ b \in Seq(Fields) /\ Len(b) = n /\ \A i \in 1 .. n : b[i] = p[i]
    BY <1>1
  <2>2. \A i \in 1 .. n : a[i] = b[i]
    BY <1>1, <2>1
  <2> HIDE DEF a, b
  <2>3. a = b
    BY <2>1, <2>2, SeqEqual
  <2> QED  BY <2>3 DEF a, b
<1>3. SubSeq(p, 1, Len(p)) = p
  OBVIOUS
<1> QED  BY <1>1, <1>2, <1>3

LEMMA ShorterPath ==
    ASSUME NEW p \in Paths, p # <<>>
    PROVE  \E q \in Paths : \E k \in Fields : p = Append(q, k)
<1>1. p \in Seq(Fields) /\ Len(p) <= MaxNesting /\ MaxNesting \in Nat
  BY PathFacts, EntryAssumption
<1> DEFINE n == Len(p) - 1
           q == SubSeq(p, 1, n)
           k == p[n + 1]
<1>2. n \in Nat /\ Len(p) = n + 1
  <2>1. Len(p) # 0 /\ Len(p) \in Nat
    BY <1>1, EmptySeq
  <2> QED  BY <2>1
<1>3. q \in Seq(Fields) /\ Len(q) = n /\ k \in Fields /\ \A i \in 1 .. n : q[i] = p[i]
  BY <1>1, <1>2
<1>7. k = p[n + 1]
  OBVIOUS
<1> HIDE DEF n, q, k
<1>4. p = Append(q, k)
  <2> DEFINE u == Append(q, k)
  <2>1. u \in Seq(Fields) /\ Len(u) = n + 1 /\ u[n + 1] = k /\ \A i \in 1 .. n : u[i] = q[i]
    BY <1>2, <1>3
  <2> HIDE DEF u
  <2>2. \A i \in 1 .. n + 1 : u[i] = p[i]
    <3> SUFFICES ASSUME NEW i \in 1 .. n + 1 PROVE u[i] = p[i]
      OBVIOUS
    <3>1. CASE i = n + 1
      BY <1>7, <2>1, <3>1
    <3>2. CASE i \in 1 .. n
      BY <1>3, <2>1, <3>2
    <3> QED  BY <1>2, <3>1, <3>2
  <2>3. u = p
    BY <1>1, <1>2, <2>1, <2>2, SeqEqual
  <2> QED  BY <2>3 DEF u
<1>5. q \in Paths
  <2>1. Len(q) <= MaxNesting
    BY <1>1, <1>2, <1>3
  <2> QED  BY <1>3, <2>1, PathFacts
<1> QED  BY <1>3, <1>4, <1>5

\* Induction over paths, away from the root and towards it.
LEMMA PathInduction ==
    ASSUME NEW S, <<>> \in S,
           \A q \in Paths, k \in Fields : q \in S /\ Append(q, k) \in Paths => Append(q, k) \in S
    PROVE  Paths \subseteq S
<1> DEFINE R == {n \in Nat : \A p \in Paths : Len(p) = n => p \in S}
<1>1. 0 \in R
  BY PathFacts, EmptySeq
<1>2. ASSUME NEW n \in Nat, n \in R PROVE n + 1 \in R
  <2> SUFFICES ASSUME NEW p \in Paths, Len(p) = n + 1 PROVE p \in S
    OBVIOUS
  <2>1. p # <<>>
    BY EmptySeq
  <2>2. PICK q \in Paths, k \in Fields : p = Append(q, k)
    BY <2>1, ShorterPath
  <2>3. q \in Seq(Fields)
    BY PathFacts
  <2>4. Len(q) = n
    BY <2>2, <2>3, LongerPath
  <2> QED  BY <1>2, <2>2, <2>4
<1>3. Nat \subseteq R
  <2> HIDE DEF R
  <2> QED  BY <1>1, <1>2, SetInduction
<1> SUFFICES ASSUME NEW p \in Paths PROVE p \in S
  OBVIOUS
<1>4. Len(p) \in Nat
  BY PathFacts, LenProperties
<1> QED  BY <1>3, <1>4

LEMMA PathDescent ==
    ASSUME NEW S, \A q \in Paths : (\A k \in Fields : Append(q, k) \in Paths => Append(q, k) \in S)
                                   => q \in S
    PROVE  Paths \subseteq S
<1> DEFINE R == {n \in Nat : \A p \in Paths : Len(p) + n > MaxNesting => p \in S}
<1>0. MaxNesting \in Nat /\ \A p \in Paths : p \in Seq(Fields) /\ Len(p) \in Nat /\ Len(p) <= MaxNesting
  BY EntryAssumption, PathFacts, LenProperties
<1>1. 0 \in R
  BY <1>0
<1>2. ASSUME NEW n \in Nat, n \in R PROVE n + 1 \in R
  <2> SUFFICES ASSUME NEW p \in Paths, Len(p) + (n + 1) > MaxNesting PROVE p \in S
    OBVIOUS
  <2>1. ASSUME NEW k \in Fields, Append(p, k) \in Paths PROVE Append(p, k) \in S
    <3>1. Len(Append(p, k)) = Len(p) + 1
      BY <1>0, LongerPath
    <3>2. Len(Append(p, k)) + n > MaxNesting
      BY <1>0, <3>1
    <3> QED  BY <1>2, <2>1, <3>2
  <2> QED  BY <2>1
<1>3. Nat \subseteq R
  <2> HIDE DEF R
  <2> QED  BY <1>1, <1>2, SetInduction
<1>4. MaxNesting + 1 \in R
  <2> HIDE DEF R
  <2> QED  BY <1>0, <1>3
<1> SUFFICES ASSUME NEW p \in Paths PROVE p \in S
  OBVIOUS
<1>5. Len(p) + (MaxNesting + 1) > MaxNesting
  BY <1>0
<1> QED  BY <1>4, <1>5

\* What is at a path, from the root down.
LEMMA AtUnfolds ==
    ASSUME NEW v, NEW s, Len(s) \in Nat
    PROVE  \E f : /\ At(v, s) = f[Len(s)] /\ f[0] = v
                  /\ \A i \in 1 .. Len(s) : f[i] = f[i - 1].kids[s[i]]
<1> DEFINE N == Len(s)
           Step(x, i) == x.kids[s[i]]
           Unfolds(g) == g = [i \in 0 .. N |-> IF i = 0 THEN v ELSE Step(g[i - 1], i)]
           Grows(g, k) == g[0] = v /\ \A i \in 1 .. k : g[i] = Step(g[i - 1], i)
           f == CHOOSE g : Unfolds(g)
<1>0. N \in Nat
  OBVIOUS
<1>1. At(v, s) = f[N]
  BY DEF At
<1>2. \E g : Unfolds(g)
  <2> DEFINE Reaches(k) == \E g : g = [i \in 0 .. k |-> g[i]] /\ Grows(g, k)
             R == {k \in Nat : Reaches(k)}
  <2>1. 0 \in R
    <3> DEFINE g == [i \in 0 .. 0 |-> v]
    <3>1. g = [i \in 0 .. 0 |-> g[i]] /\ Grows(g, 0)
      OBVIOUS
    <3> QED  BY <3>1
  <2>2. ASSUME NEW k \in Nat, k \in R PROVE k + 1 \in R
    <3> SUFFICES Reaches(k + 1)
      <4> HIDE DEF Reaches
      <4> QED  BY <2>2
    <3>1. PICK h : h = [i \in 0 .. k |-> h[i]] /\ Grows(h, k)
      BY <2>2
    <3> DEFINE g == [i \in 0 .. k + 1 |-> IF i = k + 1 THEN Step(h[k], k + 1) ELSE h[i]]
    <3> HIDE DEF Step
    <3>2. (\A i \in 0 .. k : g[i] = h[i]) /\ g[k + 1] = Step(h[k], k + 1)
      OBVIOUS
    <3>3. g = [i \in 0 .. k + 1 |-> g[i]]
      OBVIOUS
    <3> HIDE DEF g
    <3>4. g[0] = v
      BY <3>1, <3>2
    <3>5. ASSUME NEW i \in 1 .. k + 1 PROVE g[i] = Step(g[i - 1], i)
      <4>1. CASE i = k + 1
        <5>1. i - 1 = k /\ k \in 0 .. k
          BY <4>1
        <5> QED  BY <3>2, <4>1, <5>1
      <4>2. CASE i \in 1 .. k
        <5>1. i - 1 \in 0 .. k /\ i \in 0 .. k
          BY <4>2
        <5> QED  BY <3>1, <3>2, <4>2, <5>1
      <4> QED  BY <4>1, <4>2
    <3> QED  BY <3>3, <3>4, <3>5
  <2>3. N \in R
    <3> HIDE DEF R
    <3> QED  BY <2>1, <2>2, <1>0, SetInduction
  <2>4. PICK g : g = [i \in 0 .. N |-> g[i]] /\ Grows(g, N)
    BY <2>3
  <2> HIDE DEF Step, N
  <2>5. ASSUME NEW i \in 0 .. N PROVE g[i] = IF i = 0 THEN v ELSE Step(g[i - 1], i)
    <3>1. CASE i = 0
      BY <2>4, <3>1
    <3>2. CASE i # 0
      <4>1. i \in 1 .. N
        BY <1>0, <3>2
      <4> QED  BY <2>4, <3>2, <4>1
    <3> QED  BY <3>1, <3>2
  <2> QED  BY <2>4, <2>5
<1>3. Unfolds(f)
  <2> HIDE DEF Unfolds
  <2> QED  BY <1>2
<1>4. f[0] = v /\ \A i \in 1 .. N : f[i] = Step(f[i - 1], i)
  <2> HIDE DEF f, Step
  <2> QED  BY <1>3, <1>0
<1> HIDE DEF f
<1> QED  BY ONLY <1>1, <1>4

\* At the root, and one name further.
LEMMA AtRoot == \A v : At(v, <<>>) = v
<1> SUFFICES ASSUME NEW v PROVE At(v, <<>>) = v
  OBVIOUS
<1>1. Len(<<>>) = 0
  BY EmptySeq
<1>2. PICK f : At(v, <<>>) = f[Len(<<>>)] /\ f[0] = v
  BY <1>1, AtUnfolds
<1> QED  BY <1>1, <1>2

LEMMA AtBelow ==
    ASSUME NEW v, NEW p \in Seq(Fields), NEW k \in Fields
    PROVE  At(v, Append(p, k)) = At(v, p).kids[k]
<1> DEFINE q == Append(p, k)
           n == Len(p)
<1>1. /\ n \in Nat /\ Len(q) = n + 1 /\ q[n + 1] = k
      /\ \A i \in 1 .. n : q[i] = p[i]
  BY LongerPath
<1>2. PICK f : /\ At(v, p) = f[Len(p)] /\ f[0] = v
               /\ \A i \in 1 .. Len(p) : f[i] = f[i - 1].kids[p[i]]
  BY <1>1, AtUnfolds
<1>3. PICK g : /\ At(v, q) = g[Len(q)] /\ g[0] = v
               /\ \A i \in 1 .. Len(q) : g[i] = g[i - 1].kids[q[i]]
  <2> HIDE DEF q
  <2>1. Len(q) \in Nat
    BY <1>1
  <2> QED  BY <2>1, AtUnfolds
<1> HIDE DEF q, n
<1>4. n \in {m \in Nat : m <= n => f[m] = g[m]}
  <2> DEFINE R == {m \in Nat : m <= n => f[m] = g[m]}
  <2>1. 0 \in R
    BY <1>2, <1>3
  <2>2. ASSUME NEW m \in Nat, m \in R PROVE m + 1 \in R
    <3> SUFFICES ASSUME m + 1 <= n PROVE f[m + 1] = g[m + 1]
      OBVIOUS
    <3>1. m + 1 \in 1 .. n /\ m + 1 \in 1 .. Len(q) /\ m + 1 - 1 = m /\ m <= n
      BY <1>1
    <3>2. f[m + 1] = f[m].kids[p[m + 1]] /\ g[m + 1] = g[m].kids[q[m + 1]]
      BY <1>2, <1>3, <3>1 DEF n
    <3>3. f[m] = g[m] /\ q[m + 1] = p[m + 1]
      BY <1>1, <2>2, <3>1
    <3> QED  BY <3>2, <3>3
  <2>3. Nat \subseteq R
    <3> HIDE DEF R
    <3> QED  BY <2>1, <2>2, SetInduction
  <2> QED  BY <1>1, <2>3
<1>5. f[n] = g[n]
  BY <1>1, <1>4
<1>6. g[n + 1] = g[n].kids[q[n + 1]]
  <2> DEFINE m == n + 1
  <2>2. m \in 1 .. Len(q) /\ m - 1 = n
    BY <1>1
  <2> HIDE DEF m
  <2>3. g[m] = g[m - 1].kids[q[m]]
    BY <1>3, <2>2
  <2>4. g[m] = g[n].kids[q[m]]
    BY <2>2, <2>3
  <2> QED  BY <2>4 DEF m
<1> QED  BY <1>1, <1>2, <1>3, <1>5, <1>6 DEF q, n

\* The paths of a value: the root, and names of what is at other paths.
LEMMA PathsOfRoot == \A v : <<>> \in PathsOf(v) /\ PathsOf(v) \subseteq Paths
<1>1. Len(<<>>) = 0 /\ 1 .. 0 = {}
  BY EmptySeq
<1> QED  BY <1>1, PathFacts DEF PathsOf

LEMMA PathsOfBelow ==
    ASSUME NEW v, NEW p \in Paths, NEW k \in Fields, Append(p, k) \in Paths
    PROVE  Append(p, k) \in PathsOf(v) <=> p \in PathsOf(v) /\ k \in DOMAIN At(v, p).kids
<1> DEFINE q == Append(p, k)
           n == Len(p)
           Goes(r, i) == r[i] \in DOMAIN At(v, SubSeq(r, 1, i - 1)).kids
<1>1. p \in Seq(Fields)
  BY PathFacts
<1>2. /\ n \in Nat /\ Len(q) = n + 1 /\ q[n + 1] = k
      /\ \A i \in 1 .. n : q[i] = p[i]
      /\ \A i \in 0 .. n : SubSeq(q, 1, i) = SubSeq(p, 1, i)
      /\ SubSeq(p, 1, n) = p
  BY <1>1, LongerPath
<1>3. /\ p \in PathsOf(v) <=> \A i \in 1 .. Len(p) : Goes(p, i)
      /\ q \in PathsOf(v) <=> \A i \in 1 .. Len(q) : Goes(q, i)
  BY DEF PathsOf
<1>4. ASSUME NEW i \in 1 .. n PROVE Goes(q, i) <=> Goes(p, i)
  <2>1. i - 1 \in 0 .. n
    BY <1>2
  <2>2. SubSeq(q, 1, i - 1) = SubSeq(p, 1, i - 1) /\ q[i] = p[i]
    BY <1>2, <2>1
  <2> HIDE DEF q
  <2> QED  BY <2>2
<1>5. Goes(q, n + 1) <=> k \in DOMAIN At(v, p).kids
  <2>1. n + 1 - 1 = n /\ n \in 0 .. n
    BY <1>2
  <2> DEFINE m == n + 1
  <2>2. SubSeq(q, 1, m - 1) = p /\ q[m] = k
    BY <1>2, <2>1
  <2> HIDE DEF q, m
  <2>3. Goes(q, m) <=> k \in DOMAIN At(v, p).kids
    BY <2>2
  <2> QED  BY <2>3 DEF m
<1> HIDE DEF Goes, q
<1>6. (\A i \in 1 .. n + 1 : Goes(q, i)) <=> (\A i \in 1 .. n : Goes(q, i)) /\ Goes(q, n + 1)
  <2> HIDE DEF n
  <2> QED  BY <1>2
<1>7. (\A i \in 1 .. n : Goes(q, i)) <=> (\A i \in 1 .. n : Goes(p, i))
  BY <1>4
<1> QED  BY <1>2, <1>3, <1>5, <1>6, <1>7 DEF q

\* f holds what the calls for the values below v return.
Follows(s, v, f) == \A p \in PathsOf(v) : f[p] = RedactInternal(s, At(v, p), p, f)

\* A call uses only what the calls for the children return.
LEMMA CallsAgree ==
    ASSUME NEW s, NEW x, NEW p, NEW f, NEW g,
           \A k \in DOMAIN x.kids : f[Append(p, k)] = g[Append(p, k)]
    PROVE  RedactInternal(s, x, p, f) = RedactInternal(s, x, p, g)
<1> DEFINE Kid(h) == [k \in DOMAIN x.kids |-> IF Masked(s, k, Append(p, k)) THEN Censor ELSE h[Append(p, k)]]
<1>1. Kid(f) = Kid(g)
  OBVIOUS
<1> QED  BY <1>1, Zenon DEF RedactInternal

\* What belongs to a value that is not nested too deep.
LEMMA ChildPath ==
    ASSUME NEW v, IsValue(v), NEW p \in PathsOf(v), NEW k \in DOMAIN At(v, p).kids
    PROVE  /\ p \in Paths /\ p \in Seq(Fields) /\ k \in Fields
           /\ Append(p, k) \in PathsOf(v) /\ At(v, Append(p, k)) = At(v, p).kids[k]
<1>1. p \in Paths /\ p \in Seq(Fields) /\ Len(p) \in Nat /\ Len(p) <= MaxNesting /\ MaxNesting \in Nat
  BY PathsOfRoot, PathFacts, LenProperties, EntryAssumption
<1>2. IsNode(At(v, p)) /\ (Len(p) = MaxNesting => At(v, p).kids = NoKids)
  BY DEF IsValue
<1>3. k \in Fields
  BY <1>2 DEF IsNode
<1>4. Len(p) # MaxNesting
  BY <1>2 DEF NoKids
<1>5. Append(p, k) \in Paths
  <2>1. Append(p, k) \in Seq(Fields) /\ Len(Append(p, k)) = Len(p) + 1
    BY <1>1, <1>3, LongerPath
  <2>2. Len(Append(p, k)) <= MaxNesting
    BY <1>1, <1>4, <2>1
  <2> QED  BY <2>1, <2>2, PathFacts
<1> QED  BY <1>1, <1>3, <1>5, PathsOfBelow, AtBelow

\* The recursion ends: the calls are about longer and longer paths.
LEMMA RedactedUnfolds ==
    ASSUME NEW s, NEW v, IsValue(v)
    PROVE  \E f : Redacted(s, v) = f[<<>>] /\ Follows(s, v, f)
<1> DEFINE P == PathsOf(v)
           Step(p, h) == RedactInternal(s, At(v, p), p, h)
           Unfolds(h) == h = [p \in P |-> Step(p, h)]
           f == CHOOSE h : Unfolds(h)
<1>0. /\ MaxNesting \in Nat /\ <<>> \in P
      /\ \A p \in P : p \in Seq(Fields) /\ Len(p) \in Nat /\ Len(p) <= MaxNesting
  BY EntryAssumption, PathsOfRoot, PathFacts, LenProperties
<1>1. Redacted(s, v) = f[<<>>]
  BY DEF Redacted
<1>2. ASSUME NEW p \in P, NEW g, NEW h,
             \A k \in Fields : Append(p, k) \in P => g[Append(p, k)] = h[Append(p, k)]
      PROVE  Step(p, g) = Step(p, h)
  <2>1. \A k \in DOMAIN At(v, p).kids : g[Append(p, k)] = h[Append(p, k)]
    BY <1>2, ChildPath
  <2> QED  BY <2>1, CallsAgree
<1> HIDE DEF P, Step
<1>3. \E h : Unfolds(h)
  <2> DEFINE Ends(n) == \E h : \A p \in P : Len(p) + n > MaxNesting => h[p] = Step(p, h)
             R == {n \in Nat : Ends(n)}
  <2>1. 0 \in R
    <3>1. \A p \in P : ~(Len(p) + 0 > MaxNesting)
      BY <1>0
    <3> QED  BY <3>1
  <2>2. ASSUME NEW n \in Nat, n \in R PROVE n + 1 \in R
    <3> SUFFICES Ends(n + 1)
      <4> HIDE DEF Ends
      <4> QED  BY <2>2
    <3>1. PICK h : \A p \in P : Len(p) + n > MaxNesting => h[p] = Step(p, h)
      BY <2>2
    <3> DEFINE g == [p \in P |-> Step(p, h)]
    <3>2. ASSUME NEW p \in P PROVE g[p] = Step(p, h)
      OBVIOUS
    <3> HIDE DEF g
    <3>3. ASSUME NEW p \in P, Len(p) + (n + 1) > MaxNesting PROVE g[p] = Step(p, g)
      <4>1. ASSUME NEW k \in Fields, Append(p, k) \in P PROVE h[Append(p, k)] = g[Append(p, k)]
        <5> DEFINE q == Append(p, k)
        <5>1. Len(q) = Len(p) + 1
          BY <1>0, LongerPath
        <5>2. q \in P
          BY <4>1
        <5> HIDE DEF q
        <5>3. Len(q) + n > MaxNesting
          BY <1>0, <3>3, <5>1
        <5>4. h[q] = Step(q, h) /\ g[q] = Step(q, h)
          BY <3>1, <3>2, <5>2, <5>3
        <5> QED  BY <5>4 DEF q
      <4>2. Step(p, h) = Step(p, g)
        BY <1>2, <4>1
      <4> QED  BY <3>2, <4>2
    <3> QED  BY <3>3
  <2>3. MaxNesting + 1 \in R
    <3> HIDE DEF R
    <3> QED  BY <2>1, <2>2, <1>0, SetInduction
  <2>4. PICK h : \A p \in P : Len(p) + (MaxNesting + 1) > MaxNesting => h[p] = Step(p, h)
    BY <2>3
  <2>5. \A p \in P : h[p] = Step(p, h)
    BY <1>0, <2>4
  <2> DEFINE g == [p \in P |-> h[p]]
  <2>6. \A p \in P : g[p] = h[p]
    OBVIOUS
  <2>7. \A p \in P : Step(p, h) = Step(p, g)
    <3> HIDE DEF g
    <3> QED  BY <1>2, <2>6
  <2>8. g = [p \in P |-> Step(p, g)]
    <3>1. \A p \in P : h[p] = Step(p, g)
      BY <2>5, <2>7
    <3>2. g = [p \in P |-> h[p]]
      OBVIOUS
    <3> HIDE DEF g
    <3> QED  BY <3>1, <3>2
  <2> QED  BY <2>8
<1>4. Unfolds(f)
  <2> HIDE DEF Unfolds
  <2> QED  BY <1>3
<1>5. \A p \in P : f[p] = Step(p, f)
  <2> HIDE DEF f
  <2> QED  BY <1>4
<1> HIDE DEF f
<1> QED  BY <1>1, <1>5 DEF Follows, P, Step

\* What a call does, case by case: x is the value at path p, under what the
\* calls below return.
TooDeep(s, p) == Len(p) > s.maxDepth
Found(s, x) == \/ x.kind = "error"
               \/ x.kind = "bearer" /\ s.denylist
               \/ x.kind = "email" /\ s.pii
               \/ x.kind = "array"
Replacement(x) == IF x.kind = "error" THEN Leaf("serialized") ELSE Leaf("text")
Copied(s, x, p) == /\ x.kind = "object" /\ NeedsRedaction(s)
                   /\ \E k \in DOMAIN x.kids : Scanned(s, k, x.kids[k], Append(p, k))
Copy(s, x, p, under) ==
    Object([k \in DOMAIN x.kids |-> IF Masked(s, k, Append(p, k)) THEN Censor ELSE under[Append(p, k)]])

LEMMA CallCases ==
    ASSUME NEW s, NEW x, NEW p, NEW f
    PROVE  LET y == RedactInternal(s, x, p, f)
           IN  /\ TooDeep(s, p) => y = Censor
               /\ ~TooDeep(s, p) /\ Found(s, x) => y = Replacement(x)
               /\ ~TooDeep(s, p) /\ Copied(s, x, p) => y = Copy(s, x, p, f)
               /\ ~TooDeep(s, p) /\ ~Found(s, x) /\ ~Copied(s, x, p) => y = x
<1> DEFINE y == RedactInternal(s, x, p, f)
           copies == /\ NeedsRedaction(s)
                     /\ \E k \in DOMAIN x.kids : Scanned(s, k, x.kids[k], Append(p, k))
           whole == Copy(s, x, p, f)
           deep == TooDeep(s, p)
           expanded == Leaf("serialized")
           text == Leaf("text")
<1>1. y = IF deep THEN Censor ELSE
          CASE x.kind = "error" -> expanded
            [] x.kind = "bearer" /\ s.denylist -> text
            [] x.kind = "email" /\ s.pii -> text
            [] x.kind = "array" -> text
            [] x.kind = "object" /\ copies -> whole
            [] OTHER -> x
  BY DEF RedactInternal, TooDeep, Copy
<1>2. Found(s, x) <=> \/ x.kind = "error"
                      \/ x.kind = "bearer" /\ s.denylist
                      \/ x.kind = "email" /\ s.pii
                      \/ x.kind = "array"
  BY DEF Found
<1>3. Copied(s, x, p) <=> x.kind = "object" /\ copies
  BY DEF Copied
<1>9. Replacement(x) = IF x.kind = "error" THEN expanded ELSE text
  BY DEF Replacement
<1> HIDE DEF y, copies, whole, deep, expanded, text
<1>4. deep => y = Censor
  BY <1>1
<1>5. ~deep /\ Found(s, x) => y = Replacement(x)
  BY <1>1, <1>2, <1>9
<1>6. ~deep /\ Copied(s, x, p) => y = whole
  BY <1>1, <1>3
<1>7. ~deep /\ ~Found(s, x) /\ ~Copied(s, x, p) => y = x
  BY <1>1, <1>2, <1>3
<1> QED  BY <1>4, <1>5, <1>6, <1>7 DEF y, whole, deep

LEMMA LeafFacts ==
    /\ Leaf("text").kind = "text" /\ Leaf("text").kids = NoKids
    /\ Censor.kind = "censor" /\ Censor.kids = NoKids
    /\ Leaf("serialized").kind = "serialized" /\ Leaf("serialized").kids = NoKids
    /\ DOMAIN NoKids = {}
    /\ IsNode(Leaf("text")) /\ IsNode(Leaf("serialized")) /\ IsNode(Censor)
BY DEF Leaf, Censor, NoKids, IsNode, Kinds, Strings

\* What a call returns: nothing that a detector finds, no Error, no object that
\* is too deep, and children with the names there were.
LEMMA CallResult ==
    ASSUME NEW s, NEW x, IsNode(x), NEW p, NEW f
    PROVE  LET y == RedactInternal(s, x, p, f)
           IN  /\ IsNode(y) /\ DOMAIN y.kids \subseteq DOMAIN x.kids
               /\ y.kind = "bearer" => ~s.denylist
               /\ y.kind = "email" => ~s.pii
               /\ y.kind # "error"
               /\ y.kind \in {"object", "serialized"} => ~TooDeep(s, p)
               /\ y.kind = "object" <=> x.kind = "object" /\ ~TooDeep(s, p)
<1> DEFINE y == RedactInternal(s, x, p, f)
           c == Copy(s, x, p, f)
<1>1. /\ TooDeep(s, p) => y = Censor
      /\ ~TooDeep(s, p) /\ Found(s, x) => y = Replacement(x)
      /\ ~TooDeep(s, p) /\ Copied(s, x, p) => y = c
      /\ ~TooDeep(s, p) /\ ~Found(s, x) /\ ~Copied(s, x, p) => y = x
  BY CallCases
<1>2. /\ Found(s, x) => x.kind # "object"
      /\ Copied(s, x, p) => x.kind = "object"
      /\ ~Found(s, x) => x.kind # "error" /\ (x.kind = "bearer" => ~s.denylist) /\ (x.kind = "email" => ~s.pii)
  BY DEF Found, Copied
<1>3. c.kind = "object" /\ DOMAIN c.kids = DOMAIN x.kids
  BY DEF Copy, Object
<1>4. IsNode(c) \/ x.kind # "object"
  <2> DEFINE g == [k \in DOMAIN x.kids |-> IF Masked(s, k, Append(p, k)) THEN Censor ELSE f[Append(p, k)]]
  <2>1. c = [kind |-> "object", kids |-> g]
    BY DEF Copy, Object
  <2>2. g = [k \in DOMAIN g |-> g[k]] /\ DOMAIN g \subseteq Fields
    BY DEF IsNode
  <2> HIDE DEF g, c
  <2> QED  BY <2>1, <2>2 DEF IsNode, Kinds
<1> HIDE DEF y, c
<1>5. CASE TooDeep(s, p)
  BY <1>1, <1>5, LeafFacts DEF y
<1>6. CASE ~TooDeep(s, p) /\ Found(s, x)
  <2>1. y = Leaf("text") \/ y = Leaf("serialized")
    BY <1>1, <1>6 DEF Replacement
  <2> QED  BY <1>2, <1>6, <2>1, LeafFacts DEF y
<1>7. CASE ~TooDeep(s, p) /\ Copied(s, x, p)
  BY <1>1, <1>2, <1>3, <1>4, <1>7 DEF y
<1>8. CASE ~TooDeep(s, p) /\ ~Found(s, x) /\ ~Copied(s, x, p)
  <2>1. y = x
    BY <1>1, <1>8
  <2> QED  BY <1>2, <1>8, <2>1 DEF y
<1> QED  BY <1>5, <1>6, <1>7, <1>8

\* A value that is handed on as it is, with the object it belongs to.
PlainLeaf(s, x) == /\ x.kind \notin {"object", "array", "error", "serialized"} /\ x.kids = NoKids
                   /\ x.kind \in Strings => ~s.pii
                   /\ x.kind = "bearer" => ~s.denylist

LEMMA ChildNotScanned ==
    ASSUME NEW s, NEW x, IsNode(x), NEW p, x.kind = "object", NeedsRedaction(s), ~Copied(s, x, p),
           NEW k \in DOMAIN x.kids, IsNode(x.kids[k])
    PROVE  ~Masked(s, k, Append(p, k)) /\ PlainLeaf(s, x.kids[k])
<1>1. ~Scanned(s, k, x.kids[k], Append(p, k))
  BY DEF Copied
<1> QED  BY <1>1 DEF Scanned, PlainLeaf, IsNode, Kinds, Strings

\* A path asks to be masked itself or through its parent.
LEMMA SecretBelow ==
    ASSUME NEW s, NEW p \in Seq(Fields), NEW k \in Fields
    PROVE  Secret(s, Append(p, k)) <=> Secret(s, p) \/ Masked(s, k, Append(p, k))
<1> DEFINE q == Append(p, k)
           n == Len(p)
           m == n + 1
           Asks(r, i) == Masked(s, r[i], SubSeq(r, 1, i))
<1>1. /\ n \in Nat /\ q \in Seq(Fields) /\ Len(q) = m /\ q[m] = k
      /\ \A i \in 1 .. n : q[i] = p[i]
      /\ \A i \in 0 .. n : SubSeq(q, 1, i) = SubSeq(p, 1, i)
  BY LongerPath
<1>2. SubSeq(q, 1, m) = q /\ DOMAIN q = 1 .. m /\ DOMAIN p = 1 .. n
  <2> HIDE DEF q
  <2>1. SubSeq(q, 1, Len(q)) = q /\ DOMAIN q = 1 .. Len(q) /\ DOMAIN p = 1 .. Len(p)
    BY <1>1, LenProperties
  <2> QED  BY <1>1, <2>1
<1>3. ASSUME NEW i \in 1 .. n PROVE Asks(q, i) <=> Asks(p, i)
  <2>1. i \in 0 .. n
    BY <1>1
  <2>2. SubSeq(q, 1, i) = SubSeq(p, 1, i) /\ q[i] = p[i]
    BY <1>1, <2>1
  <2> HIDE DEF q
  <2> QED  BY <2>2
<1>4. Asks(q, m) <=> Masked(s, k, q)
  <2> HIDE DEF q, m
  <2> QED  BY <1>1, <1>2
<1>5. (Secret(s, q) <=> \E i \in 1 .. m : Asks(q, i)) /\ (Secret(s, p) <=> \E i \in 1 .. n : Asks(p, i))
  BY <1>2 DEF Secret
<1> HIDE DEF Asks, q
<1>6. (\E i \in 1 .. m : Asks(q, i)) <=> (\E i \in 1 .. n : Asks(q, i)) \/ Asks(q, m)
  <2> HIDE DEF n
  <2> QED  BY <1>1
<1>7. (\E i \in 1 .. n : Asks(q, i)) <=> (\E i \in 1 .. n : Asks(p, i))
  BY <1>3
<1> QED  BY <1>4, <1>5, <1>6, <1>7 DEF q

LEMMA RootIsNoSecret == \A s : ~Secret(s, <<>>)
<1>1. DOMAIN <<>> = {}
  BY EmptySeq
<1> QED  BY <1>1 DEF Secret

\* What the result has at a path: what the call for that path returned, the
\* censor, or a leaf that came with its object.
Tells(s, v, f, p) ==
    LET y == At(f[<<>>], p)
    IN  /\ p \in PathsOf(v)
        /\ \/ ~Secret(s, p) /\ y = f[p]
           \/ Secret(s, p) /\ y = Censor
           \/ ~Secret(s, p) /\ y = At(v, p) /\ PlainLeaf(s, y)

LEMMA ResultTells ==
    ASSUME NEW s, NeedsRedaction(s), NEW v, IsValue(v), NEW f, Follows(s, v, f)
    PROVE  \A p \in PathsOf(f[<<>>]) : Tells(s, v, f, p)
<1> DEFINE res == f[<<>>]
           T == {p \in Paths : p \in PathsOf(res) => Tells(s, v, f, p)}
<1>1. <<>> \in T
  BY PathFacts, PathsOfRoot, AtRoot, RootIsNoSecret DEF Tells
<1>2. ASSUME NEW q \in Paths, NEW k \in Fields, q \in T, Append(q, k) \in Paths
      PROVE  Append(q, k) \in T
  <2> DEFINE p == Append(q, k)
             y == At(res, q)
             x == At(v, q)
  <2> SUFFICES ASSUME p \in PathsOf(res) PROVE Tells(s, v, f, p)
    BY <1>2
  <2>1. q \in Seq(Fields)
    BY PathFacts
  <2>2. q \in PathsOf(res) /\ k \in DOMAIN y.kids /\ At(res, p) = y.kids[k]
    BY <1>2, <2>1, PathsOfBelow, AtBelow
  <2>3. Tells(s, v, f, q)
    BY <1>2, <2>2
  <2>4. ~Secret(s, q) /\ y = f[q] /\ q \in PathsOf(v)
    BY <2>2, <2>3, LeafFacts DEF Tells, PlainLeaf
  <2>5. y = RedactInternal(s, x, q, f) /\ IsNode(x)
    BY <2>4 DEF Follows, IsValue
  <2>6. k \in DOMAIN x.kids
    <3> DEFINE z == RedactInternal(s, x, q, f)
    <3> HIDE DEF x
    <3>1. DOMAIN z.kids \subseteq DOMAIN x.kids
      BY <2>5, CallResult
    <3>2. y = z
      BY <2>5
    <3> HIDE DEF y, z
    <3> QED  BY <2>2, <3>1, <3>2
  <2>7. p \in PathsOf(v) /\ At(v, p) = x.kids[k]
    BY <2>4, <2>6, ChildPath
  <2>8. Secret(s, p) <=> Masked(s, k, p)
    BY <2>1, <2>4, SecretBelow
  <2>9. x.kind = "object" /\ ~TooDeep(s, q) /\ ~Found(s, x)
    BY <2>2, <2>5, <2>6, CallCases, LeafFacts DEF IsNode, Found
  <2> HIDE DEF p, y, x
  <2>10. CASE Copied(s, x, q)
    <3>1. y = Copy(s, x, q, f)
      BY <2>5, <2>9, <2>10, CallCases
    <3>2. y.kids[k] = IF Masked(s, k, Append(q, k)) THEN Censor ELSE f[Append(q, k)]
      BY <2>6, <3>1 DEF Copy, Object
    <3>3. At(res, p) = IF Secret(s, p) THEN Censor ELSE f[p]
      BY <2>2, <2>8, <3>2 DEF p
    <3> QED  BY <2>7, <3>3 DEF Tells
  <2>11. CASE ~Copied(s, x, q)
    <3>1. y = x
      BY <2>5, <2>9, <2>11, CallCases
    <3>2. IsNode(x.kids[k])
      BY <2>7 DEF IsValue
    <3>3. ~Masked(s, k, p) /\ PlainLeaf(s, x.kids[k])
      BY <2>5, <2>6, <2>9, <2>11, <3>2, ChildNotScanned DEF p
    <3> QED  BY <2>2, <2>7, <2>8, <3>1, <3>3 DEF Tells
  <2> QED  BY <2>10, <2>11
<1>3. Paths \subseteq T
  <2> HIDE DEF T
  <2> QED  BY <1>1, <1>2, PathInduction
<1> QED  BY <1>3, PathsOfRoot

\* Nothing that is asked to be masked, found or too deep is in the result, which
\* is a value again.
LEMMA ResultIsClean ==
    ASSUME NEW s, s.maxDepth \in Nat, NeedsRedaction(s), NEW v, IsValue(v), NEW f, Follows(s, v, f),
           NEW p \in PathsOf(f[<<>>])
    PROVE  LET y == At(f[<<>>], p)
           IN  /\ Secret(s, p) => y = Censor
               /\ y.kind = "bearer" => ~s.denylist
               /\ y.kind = "email" => ~s.pii
               /\ y.kind # "error"
               /\ y.kind \in {"object", "serialized"} => Len(p) <= s.maxDepth
               /\ IsNode(y) /\ (Len(p) = MaxNesting => y.kids = NoKids)
<1> DEFINE y == At(f[<<>>], p)
           x == At(v, p)
           z == RedactInternal(s, x, p, f)
<1>1. Tells(s, v, f, p)
  BY ResultTells
<1>2. /\ p \in PathsOf(v) /\ Len(p) \in Nat
      /\ f[p] = z /\ IsNode(x) /\ (Len(p) = MaxNesting => x.kids = NoKids)
  <2>1. p \in PathsOf(v)
    BY <1>1 DEF Tells
  <2>2. Len(p) \in Nat
    BY <2>1, PathsOfRoot, PathFacts, LenProperties
  <2> QED  BY <2>1, <2>2 DEF Follows, IsValue
<1>3. /\ IsNode(z) /\ DOMAIN z.kids \subseteq DOMAIN x.kids
      /\ z.kind = "bearer" => ~s.denylist
      /\ z.kind = "email" => ~s.pii
      /\ z.kind # "error"
      /\ z.kind \in {"object", "serialized"} => ~TooDeep(s, p)
  <2> HIDE DEF x
  <2> QED  BY <1>2, CallResult
<1>4. \/ ~Secret(s, p) /\ y = f[p]
      \/ Secret(s, p) /\ y = Censor
      \/ ~Secret(s, p) /\ y = x /\ PlainLeaf(s, y)
  BY <1>1 DEF Tells
<1> HIDE DEF x, y, z
<1>5. CASE ~Secret(s, p) /\ y = f[p]
  <2>1. y = z
    BY <1>2, <1>5
  <2>2. Len(p) = MaxNesting => y.kids = NoKids
    <3> SUFFICES ASSUME Len(p) = MaxNesting PROVE y.kids = NoKids
      OBVIOUS
    <3>1. DOMAIN z.kids = {}
      BY <1>2, <1>3, LeafFacts
    <3>2. z.kids = [k \in DOMAIN z.kids |-> z.kids[k]]
      BY <1>3 DEF IsNode
    <3>3. z.kids = [k \in {} |-> z.kids[k]]
      BY <3>1, <3>2
    <3>4. [k \in {} |-> z.kids[k]] = NoKids
      BY DEF NoKids
    <3> QED  BY <2>1, <3>3, <3>4
  <2>3. z.kind \in {"object", "serialized"} => Len(p) <= s.maxDepth
    BY <1>2, <1>3 DEF TooDeep
  <2> QED  BY <1>3, <1>5, <2>1, <2>2, <2>3 DEF y
<1>6. CASE Secret(s, p) /\ y = Censor
  BY <1>6, LeafFacts DEF y
<1>7. CASE ~Secret(s, p) /\ y = x /\ PlainLeaf(s, y)
  BY <1>2, <1>7 DEF y, PlainLeaf, Strings
<1> QED  BY <1>4, <1>5, <1>6, <1>7

\* What is neither masked nor found nor too deep is in the result.
LEMMA RestInResult ==
    ASSUME NEW s, s.maxDepth \in Nat, NeedsRedaction(s), NEW v, IsValue(v), NEW f, Follows(s, v, f)
    PROVE  \A p \in PathsOf(v) :
             ~Secret(s, p) /\ Len(p) <= s.maxDepth /\ At(v, p).kind \in PlainKinds =>
                 p \in PathsOf(f[<<>>]) /\ At(f[<<>>], p) = At(v, p)
<1> DEFINE res == f[<<>>]
           Stays(p) == /\ p \in PathsOf(res)
                       /\ \/ At(res, p) = f[p]
                          \/ At(res, p) = At(v, p) /\ At(v, p).kids = NoKids
           T == {p \in Paths : p \in PathsOf(v) /\ ~Secret(s, p) /\ Len(p) <= s.maxDepth => Stays(p)}
<1>1. <<>> \in T
  BY PathFacts, PathsOfRoot, AtRoot
<1>2. ASSUME NEW q \in Paths, NEW k \in Fields, q \in T, Append(q, k) \in Paths
      PROVE  Append(q, k) \in T
  <2> DEFINE p == Append(q, k)
             x == At(v, q)
             z == RedactInternal(s, x, q, f)
  <2> SUFFICES ASSUME p \in PathsOf(v), ~Secret(s, p), Len(p) <= s.maxDepth PROVE Stays(p)
    BY <1>2
  <2>1. q \in Seq(Fields) /\ Len(q) \in Nat
    BY PathFacts, LenProperties
  <2>2. q \in PathsOf(v) /\ k \in DOMAIN x.kids /\ At(v, p) = x.kids[k]
    BY <1>2, <2>1, PathsOfBelow, AtBelow
  <2>3. ~Secret(s, q) /\ ~Masked(s, k, p)
    BY <2>1, SecretBelow
  <2>4. Len(q) < s.maxDepth
    <3>1. Len(p) = Len(q) + 1
      BY <2>1, LongerPath
    <3> HIDE DEF p
    <3> QED  BY <2>1, <3>1
  <2>5. Stays(q)
    BY <1>2, <2>1, <2>2, <2>3, <2>4
  <2>6. f[q] = z /\ IsNode(x) /\ IsNode(At(v, p))
    BY <2>2 DEF Follows, IsValue
  <2>7. At(res, q) = z /\ x.kind = "object" /\ ~TooDeep(s, q) /\ ~Found(s, x)
    BY <2>1, <2>2, <2>4, <2>5, <2>6, LeafFacts DEF IsNode, TooDeep, Found
  <2>8. ASSUME k \in DOMAIN At(res, q).kids
        PROVE  p \in PathsOf(res) /\ At(res, p) = At(res, q).kids[k]
    BY <1>2, <2>1, <2>5, <2>8, PathsOfBelow, AtBelow
  <2>9. CASE Copied(s, x, q)
    <3>1. At(res, q) = Copy(s, x, q, f)
      BY <2>7, <2>9, CallCases
    <3>2. k \in DOMAIN At(res, q).kids /\ At(res, q).kids[k] = f[p]
      <4> DEFINE c == Copy(s, x, q, f)
      <4> HIDE DEF x
      <4>1. k \in DOMAIN c.kids /\ c.kids[k] = f[p]
        BY <2>2, <2>3 DEF Copy, Object
      <4> QED  BY <3>1, <4>1
    <3> HIDE DEF p, res
    <3> QED  BY <2>8, <3>2
  <2>10. CASE ~Copied(s, x, q)
    <3>1. At(res, q) = x
      BY <2>7, <2>10, CallCases
    <3>2. IsNode(x.kids[k])
      BY <2>2, <2>6
    <3>3. PlainLeaf(s, x.kids[k])
      <4> HIDE DEF x
      <4> QED  BY <2>2, <2>6, <2>7, <2>10, <3>2, ChildNotScanned
    <3> HIDE DEF p, res, x
    <3> QED  BY <2>2, <2>8, <3>1, <3>3 DEF PlainLeaf
  <2> QED  BY <2>9, <2>10
<1>3. Paths \subseteq T
  <2> HIDE DEF T
  <2> QED  BY <1>1, <1>2, PathInduction
<1>4. ASSUME NEW p \in PathsOf(v), ~Secret(s, p), Len(p) <= s.maxDepth, At(v, p).kind \in PlainKinds
      PROVE  p \in PathsOf(res) /\ At(res, p) = At(v, p)
  <2> DEFINE x == At(v, p)
  <2>1. Stays(p)
    BY <1>3, <1>4, PathsOfRoot
  <2>2. f[p] = RedactInternal(s, x, p, f) /\ Len(p) \in Nat
    BY PathsOfRoot, PathFacts, LenProperties DEF Follows
  <2>3. x.kind \notin Strings /\ x.kind # "object" /\ x.kind # "array" /\ x.kind # "error"
    BY <1>4, EntryAssumption
  <2>4. ~TooDeep(s, p) /\ ~Found(s, x) /\ ~Copied(s, x, p)
    BY <1>4, <2>2, <2>3 DEF TooDeep, Found, Copied, Strings
  <2>5. f[p] = x
    BY <2>2, <2>4, CallCases
  <2> QED  BY <2>1, <2>5
<1> QED  BY <1>4

\* A second redaction finds the same values in the same places.
LEMMA RedactedTwice ==
    ASSUME NEW s, s.maxDepth \in Nat, NeedsRedaction(s), NEW v, IsValue(v), NEW f, Follows(s, v, f)
    PROVE  /\ IsValue(f[<<>>])
           /\ Redacted(s, f[<<>>]) = f[<<>>]
<1> DEFINE res == f[<<>>]
<1>1. IsValue(res)
  BY ResultIsClean DEF IsValue
<1>2. PICK g : Redacted(s, res) = g[<<>>] /\ Follows(s, res, g)
  BY <1>1, RedactedUnfolds
<1> DEFINE Same(p) == p \in PathsOf(v) /\ p \in PathsOf(res) /\ ~Secret(s, p) /\ At(res, p) = f[p]
                      => g[p] = f[p]
           T == {p \in Paths : Same(p)}
<1>3. ASSUME NEW q \in Paths, \A k \in Fields : Append(q, k) \in Paths => Append(q, k) \in T
      PROVE  q \in T
  <2> SUFFICES ASSUME q \in PathsOf(v), q \in PathsOf(res), ~Secret(s, q), At(res, q) = f[q]
               PROVE  g[q] = f[q]
    OBVIOUS
  <2> DEFINE x == At(v, q)
             y == f[q]
  <2>1. /\ y = RedactInternal(s, x, q, f) /\ IsNode(x)
        /\ g[q] = RedactInternal(s, y, q, g) /\ IsNode(y)
    BY <1>1, <1>2 DEF Follows, IsValue
  <2> HIDE DEF x, y
  <2>2. CASE TooDeep(s, q)
    <3>1. y = Censor /\ g[q] = Censor
      BY <2>1, <2>2, CallCases
    <3> QED  BY <3>1 DEF y
  <2>3. CASE ~TooDeep(s, q) /\ Found(s, x)
    <3>1. y = Leaf("text") \/ y = Leaf("serialized")
      BY <2>1, <2>3, CallCases DEF Replacement
    <3>2. ~Found(s, y) /\ ~Copied(s, y, q)
      BY <3>1, LeafFacts DEF Found, Copied
    <3>3. g[q] = y
      BY <2>1, <2>3, <3>2, CallCases
    <3> QED  BY <3>3 DEF y
  <2>4. CASE ~TooDeep(s, q) /\ ~Found(s, x) /\ ~Copied(s, x, q)
    <3>1. y = x
      BY <2>1, <2>4, CallCases
    <3>2. g[q] = x
      BY <2>1, <2>4, <3>1, CallCases
    <3> QED  BY <3>1, <3>2 DEF y
  <2>5. CASE ~TooDeep(s, q) /\ Copied(s, x, q)
    <3>1. y = Copy(s, x, q, f) /\ x.kind = "object"
      BY <2>1, <2>5, CallCases DEF Copied
    <3>2. y.kind = "object" /\ DOMAIN y.kids = DOMAIN x.kids
      BY <3>1 DEF Copy, Object
    <3>3. ~Found(s, y)
      BY <3>2 DEF Found
    <3>4. CASE ~Copied(s, y, q)
      <4>1. g[q] = y
        BY <2>1, <2>5, <3>3, <3>4, CallCases
      <4> QED  BY <4>1 DEF y
    <3>5. CASE Copied(s, y, q)
      <4>1. g[q] = Copy(s, y, q, g)
        BY <2>1, <2>5, <3>5, CallCases
      <4>2. ASSUME NEW k \in DOMAIN x.kids, ~Masked(s, k, Append(q, k))
            PROVE  g[Append(q, k)] = f[Append(q, k)]
        <5> DEFINE p == Append(q, k)
        <5>1. /\ q \in Seq(Fields) /\ k \in Fields /\ p \in Paths /\ p \in PathsOf(v)
          BY <4>2, ChildPath, PathsOfRoot DEF x
        <5>2. y.kids[k] = f[p]
          BY <3>1, <4>2 DEF Copy, Object
        <5>3. p \in PathsOf(res) /\ At(res, p) = y.kids[k]
          <6>1. At(res, q) = y /\ k \in DOMAIN y.kids
            BY <3>2, <4>2 DEF y
          <6> HIDE DEF res
          <6> QED  BY <5>1, <6>1, PathsOfBelow, AtBelow
        <5>4. ~Secret(s, p)
          BY <4>2, <5>1, SecretBelow
        <5>5. Same(p)
          BY <1>3, <5>1
        <5> HIDE DEF p, res
        <5> QED  BY <5>1, <5>2, <5>3, <5>4, <5>5 DEF p
      <4> DEFINE Kids(h) == [k \in DOMAIN x.kids |-> IF Masked(s, k, Append(q, k)) THEN Censor
                                                                              ELSE h[Append(q, k)]]
      <4>3. Kids(g) = Kids(f)
        BY <4>2
      <4>4. y = Object(Kids(f)) /\ g[q] = Object(Kids(g))
        BY <3>1, <3>2, <4>1 DEF Copy
      <4> HIDE DEF Kids
      <4>5. g[q] = y
        BY <4>3, <4>4
      <4> QED  BY <4>5 DEF y
    <3> QED  BY <3>4, <3>5
  <2> QED  BY <2>2, <2>3, <2>4, <2>5
<1>4. Paths \subseteq T
  <2> HIDE DEF T
  <2> QED  BY <1>3, PathDescent
<1>5. Same(<<>>)
  BY <1>4, PathFacts
<1>6. g[<<>>] = f[<<>>]
  BY <1>5, PathsOfRoot, RootIsNoSecret, AtRoot
<1> QED  BY <1>1, <1>2, <1>6

\* The object at the root stays one.
LEMMA RootStays ==
    ASSUME NEW s, s.maxDepth \in Nat, NEW v, IsValue(v), v.kind = "object", NEW f, Follows(s, v, f)
    PROVE  f[<<>>].kind = "object" /\ f[<<>>] = Object(f[<<>>].kids)
           /\ DOMAIN f[<<>>].kids \subseteq DOMAIN v.kids
<1>1. f[<<>>] = RedactInternal(s, v, <<>>, f) /\ IsNode(v)
  BY PathsOfRoot, AtRoot DEF Follows, IsValue
<1>2. ~TooDeep(s, <<>>)
  BY EmptySeq DEF TooDeep
<1> DEFINE y == RedactInternal(s, v, <<>>, f)
<1>3. IsNode(y) /\ y.kind = "object" /\ DOMAIN y.kids \subseteq DOMAIN v.kids
  BY <1>1, <1>2, CallResult
<1> HIDE DEF y
<1>4. y = Object(y.kids)
  BY <1>3 DEF IsNode, Object
<1> QED  BY <1>1, <1>3, <1>4 DEF y

\* Contexts.  The values below a field are those of the context it came from.
LEMMA ContextIsFunction ==
    ASSUME NEW c, IsContext(c)
    PROVE  c = [k \in DOMAIN c |-> c[k]] /\ DOMAIN c \subseteq Fields
<1>1. IsNode(Object(c))
  BY PathsOfRoot, AtRoot DEF IsContext, IsValue
<1> QED  BY <1>1 DEF IsNode, Object

LEMMA FirstName ==
    ASSUME NEW v, NEW p \in PathsOf(v), p # <<>>
    PROVE  1 \in DOMAIN p /\ p[1] \in DOMAIN v.kids
<1>1. p \in Seq(Fields) /\ Len(p) \in Nat /\ Len(p) # 0
  BY PathsOfRoot, PathFacts, LenProperties, EmptySeq
<1>2. 1 \in 1 .. Len(p) /\ DOMAIN p = 1 .. Len(p)
  BY <1>1, LenProperties
<1>3. p[1] \in DOMAIN At(v, SubSeq(p, 1, 1 - 1)).kids
  BY <1>2 DEF PathsOf
<1>4. SubSeq(p, 1, 1 - 1) = <<>>
  BY <1>1
<1>5. p[1] \in DOMAIN At(v, <<>>).kids
  BY <1>3, <1>4
<1> QED  BY <1>2, <1>5, AtRoot

LEMMA SameBelow ==
    ASSUME NEW c, NEW d, NEW k \in Fields, k \in DOMAIN c, k \in DOMAIN d, c[k] = d[k]
    PROVE  \A p \in Paths : p # <<>> /\ p[1] = k =>
             /\ p \in PathsOf(Object(c)) <=> p \in PathsOf(Object(d))
             /\ At(Object(c), p) = At(Object(d), p)
<1> DEFINE v == Object(c)
           w == Object(d)
           Same(p) == /\ p \in PathsOf(v) <=> p \in PathsOf(w)
                      /\ At(v, p) = At(w, p)
           T == {p \in Paths : p # <<>> /\ p[1] = k => Same(p)}
<1>1. <<>> \in T
  BY PathFacts
<1>2. ASSUME NEW q \in Paths, NEW j \in Fields, q \in T, Append(q, j) \in Paths
      PROVE  Append(q, j) \in T
  <2> DEFINE p == Append(q, j)
  <2> SUFFICES ASSUME p[1] = k PROVE Same(p)
    BY <1>2
  <2>1. q \in Seq(Fields) /\ Len(q) \in Nat
    BY PathFacts, LenProperties
  <2>2. /\ p \in PathsOf(v) <=> q \in PathsOf(v) /\ j \in DOMAIN At(v, q).kids
        /\ p \in PathsOf(w) <=> q \in PathsOf(w) /\ j \in DOMAIN At(w, q).kids
        /\ At(v, p) = At(v, q).kids[j] /\ At(w, p) = At(w, q).kids[j]
    BY <1>2, <2>1, PathsOfBelow, AtBelow
  <2>3. CASE q = <<>>
    <3>1. j = k
      <4>1. p[Len(q) + 1] = j /\ Len(q) = 0
        BY <2>1, <2>3, LongerPath, EmptySeq
      <4> HIDE DEF p
      <4> QED  BY <4>1
    <3>2. /\ q \in PathsOf(v) /\ q \in PathsOf(w) /\ At(v, q).kids = c /\ At(w, q).kids = d
      BY <2>3, PathsOfRoot, AtRoot DEF Object
    <3> HIDE DEF p, v, w
    <3> QED  BY <2>2, <3>1, <3>2
  <2>4. CASE q # <<>>
    <3>1. p[1] = q[1]
      <4>1. 1 \in 1 .. Len(q)
        BY <2>1, <2>4, EmptySeq
      <4> QED  BY <2>1, <4>1, LongerPath
    <3>2. Same(q)
      BY <1>2, <2>4, <3>1
    <3> HIDE DEF p, v, w
    <3> QED  BY <2>2, <3>2
  <2> QED  BY <2>3, <2>4
<1>3. Paths \subseteq T
  <2> HIDE DEF T
  <2> QED  BY <1>1, <1>2, PathInduction
<1> QED  BY <1>3

\* Nothing is below a field that is no object.
LEMMA LeafBelow ==
    ASSUME NEW c, IsContext(c), NEW k \in Fields, k \in DOMAIN c, c[k].kind # "object"
    PROVE  \A p \in PathsOf(Object(c)) : p # <<>> /\ p[1] = k => At(Object(c), p) = c[k]
<1> DEFINE v == Object(c)
           T == {p \in Paths : p \in PathsOf(v) /\ p # <<>> /\ p[1] = k => At(v, p) = c[k]}
<1>1. <<>> \in T
  BY PathFacts
<1>2. ASSUME NEW q \in Paths, NEW j \in Fields, q \in T, Append(q, j) \in Paths
      PROVE  Append(q, j) \in T
  <2> DEFINE p == Append(q, j)
  <2> SUFFICES ASSUME p \in PathsOf(v), p[1] = k PROVE At(v, p) = c[k]
    BY <1>2
  <2>1. q \in Seq(Fields) /\ Len(q) \in Nat
    BY PathFacts, LenProperties
  <2>2. q \in PathsOf(v) /\ j \in DOMAIN At(v, q).kids /\ At(v, p) = At(v, q).kids[j]
    BY <1>2, <2>1, PathsOfBelow, AtBelow
  <2>3. CASE q = <<>>
    <3>1. j = k
      <4>1. p[Len(q) + 1] = j /\ Len(q) = 0
        BY <2>1, <2>3, LongerPath, EmptySeq
      <4> HIDE DEF p
      <4> QED  BY <4>1
    <3>2. At(v, q).kids = c
      BY <2>3, AtRoot DEF Object
    <3> HIDE DEF p, v
    <3> QED  BY <2>2, <3>1, <3>2
  <2>4. CASE q # <<>>
    <3>1. p[1] = q[1]
      <4>1. 1 \in 1 .. Len(q)
        BY <2>1, <2>4, EmptySeq
      <4> QED  BY <2>1, <4>1, LongerPath
    <3>2. At(v, q) = c[k]
      BY <1>2, <2>2, <2>4, <3>1
    <3>3. IsNode(At(v, q))
      BY <2>2 DEF IsContext, IsValue
    <3> HIDE DEF v
    <3>4. At(v, q).kids = NoKids
      BY <3>2, <3>3 DEF IsNode
    <3> QED  BY <2>2, <3>4, LeafFacts
  <2> QED  BY <2>3, <2>4
<1>3. Paths \subseteq T
  <2> HIDE DEF T
  <2> QED  BY <1>1, <1>2, PathInduction
<1> QED  BY <1>3, PathsOfRoot

\* A context whose fields come from others.
LEMMA MixedContext ==
    ASSUME NEW m, m = [k \in DOMAIN m |-> m[k]],
           \A k \in DOMAIN m : \E c : IsContext(c) /\ k \in DOMAIN c /\ m[k] = c[k]
    PROVE  IsContext(m)
<1>1. DOMAIN m \subseteq Fields
  BY ContextIsFunction
<1>2. MaxNesting \in Nat \ {0}
  BY EntryAssumption
<1> SUFFICES ASSUME NEW p \in PathsOf(Object(m))
             PROVE  /\ IsNode(At(Object(m), p))
                    /\ Len(p) = MaxNesting => At(Object(m), p).kids = NoKids
  BY DEF IsContext, IsValue
<1>3. CASE p = <<>>
  <2>1. At(Object(m), p) = Object(m) /\ Len(p) = 0
    BY <1>3, AtRoot, EmptySeq
  <2>2. IsNode(Object(m))
    BY <1>1 DEF IsNode, Object, Kinds
  <2> QED  BY <1>2, <2>1, <2>2
<1>4. CASE p # <<>>
  <2>1. p[1] \in DOMAIN m /\ p \in Paths
    BY <1>4, FirstName, PathsOfRoot DEF Object
  <2>2. PICK c : IsContext(c) /\ p[1] \in DOMAIN c /\ m[p[1]] = c[p[1]]
    BY <2>1
  <2>3. p \in PathsOf(Object(c)) /\ At(Object(m), p) = At(Object(c), p)
    BY <1>1, <1>4, <2>1, <2>2, SameBelow
  <2> QED  BY <2>2, <2>3 DEF IsContext, IsValue
<1> QED  BY <1>3, <1>4

\* An expanded error under every field is a context.
LEMMA ErrorsAreContext == IsContext([k \in Fields |-> Leaf("serialized")])
<1> DEFINE c == [k \in Fields |-> Leaf("serialized")]
           v == Object(c)
           T == {p \in Paths : p \in PathsOf(v) => p = <<>> \/ At(v, p) = Leaf("serialized")}
<1>1. <<>> \in T
  BY PathFacts
<1>2. ASSUME NEW q \in Paths, NEW k \in Fields, q \in T, Append(q, k) \in Paths
      PROVE  Append(q, k) \in T
  <2> SUFFICES ASSUME Append(q, k) \in PathsOf(v) PROVE At(v, Append(q, k)) = Leaf("serialized")
    BY <1>2
  <2>1. q \in PathsOf(v) /\ k \in DOMAIN At(v, q).kids /\ At(v, Append(q, k)) = At(v, q).kids[k]
    BY <1>2, PathFacts, PathsOfBelow, AtBelow
  <2>2. q = <<>>
    BY <1>2, <2>1, LeafFacts
  <2>3. At(v, q).kids = c
    BY <2>2, AtRoot DEF Object
  <2> QED  BY <2>1, <2>3
<1>3. Paths \subseteq T
  <2> HIDE DEF T
  <2> QED  BY <1>1, <1>2, PathInduction
<1>4. MaxNesting \in Nat \ {0} /\ Len(<<>>) = 0
  BY EntryAssumption, EmptySeq
<1>5. IsNode(v)
  BY DEF IsNode, Object, Kinds
<1>6. ASSUME NEW p \in PathsOf(v)
      PROVE  IsNode(At(v, p)) /\ (Len(p) = MaxNesting => At(v, p).kids = NoKids)
  <2>1. CASE p = <<>>
    <3>1. At(v, p) = v
      BY <2>1, AtRoot
    <3> HIDE DEF v
    <3> QED  BY <1>4, <1>5, <2>1, <3>1
  <2>2. CASE p # <<>>
    <3>1. At(v, p) = Leaf("serialized")
      BY <1>3, <2>2, PathsOfRoot
    <3> QED  BY <3>1, LeafFacts
  <2> QED  BY <2>1, <2>2
<1> QED  BY <1>6 DEF IsContext, IsValue

\* m has the fields of a, and those of b that a lacks.
Spreads(m, a, b) ==
    /\ m = [k \in DOMAIN m |-> m[k]] /\ DOMAIN m = DOMAIN a \cup DOMAIN b
    /\ \A k \in DOMAIN m : m[k] = IF k \in DOMAIN a THEN a[k] ELSE b[k]

LEMMA SpreadFacts == \A a, b : Spreads(Spread(a, b), a, b)
BY DEF Spread, Spreads

Gives(c, k) == c # NoContext /\ k \in DOMAIN c

\* m has the fields of a, b and c, each from the first of them that has it.
FirstOf(m, a, b, c) ==
    /\ m = [k \in DOMAIN m |-> m[k]]
    /\ \A k : k \in DOMAIN m <=> Gives(a, k) \/ Gives(b, k) \/ Gives(c, k)
    /\ \A k \in DOMAIN m : m[k] = IF Gives(a, k) THEN a[k] ELSE IF Gives(b, k) THEN b[k] ELSE c[k]

LEMMA MergeTells ==
    ASSUME NEW static, IsContext(static), static # NoContext,
           NEW lazy, lazy = NoContext \/ IsContext(lazy),
           NEW async, async = NoContext \/ IsContext(async)
    PROVE  FirstOf(MergeContext(static, lazy, async), lazy, static, async)
<1> DEFINE m == MergeContext(static, lazy, async)
           hasStatic == DOMAIN static # {}
           hasAsync == async # NoContext /\ DOMAIN async # {}
           over == Spread(static, async)
<1>1. m = IF ~hasStatic /\ lazy = NoContext THEN IF hasAsync THEN async ELSE NoKids ELSE
          CASE ~hasAsync /\ ~hasStatic -> lazy
            [] ~hasAsync /\ hasStatic -> IF lazy = NoContext THEN static ELSE Spread(lazy, static)
            [] hasAsync /\ ~hasStatic -> Spread(lazy, async)
            [] hasAsync /\ hasStatic -> IF lazy = NoContext THEN over ELSE Spread(lazy, over)
  BY DEF MergeContext
<1>2. /\ static = [k \in DOMAIN static |-> static[k]]
      /\ lazy # NoContext => lazy = [k \in DOMAIN lazy |-> lazy[k]]
      /\ async # NoContext => async = [k \in DOMAIN async |-> async[k]]
  BY ContextIsFunction
<1> HIDE DEF m
<1>3. CASE ~hasStatic /\ lazy = NoContext
  <2>1. m = IF hasAsync THEN async ELSE NoKids
    BY <1>1, <1>3
  <2>2. DOMAIN NoKids = {} /\ NoKids = [k \in DOMAIN NoKids |-> NoKids[k]]
    BY DEF NoKids
  <2> QED  BY <1>2, <1>3, <2>1, <2>2 DEF FirstOf, Gives, m
<1>4. CASE ~hasStatic /\ lazy # NoContext /\ ~hasAsync
  <2>1. m = lazy
    BY <1>1, <1>4
  <2> QED  BY <1>2, <1>4, <2>1 DEF FirstOf, Gives, m
<1>5. CASE ~hasStatic /\ lazy # NoContext /\ hasAsync
  <2>1. m = Spread(lazy, async)
    BY <1>1, <1>5
  <2>2. Spreads(m, lazy, async)
    BY <2>1, SpreadFacts
  <2> QED  BY <1>5, <2>2 DEF FirstOf, Gives, Spreads, m
<1>6. CASE hasStatic /\ lazy = NoContext /\ ~hasAsync
  <2>1. m = static
    BY <1>1, <1>6
  <2> QED  BY <1>2, <1>6, <2>1 DEF FirstOf, Gives, m
<1>7. CASE hasStatic /\ lazy # NoContext /\ ~hasAsync
  <2>1. m = Spread(lazy, static)
    BY <1>1, <1>7
  <2>2. Spreads(m, lazy, static)
    BY <2>1, SpreadFacts
  <2> QED  BY <1>7, <2>2 DEF FirstOf, Gives, Spreads, m
<1>8. Spreads(over, static, async)
  BY SpreadFacts
<1>9. CASE hasStatic /\ lazy = NoContext /\ hasAsync
  <2>1. m = over
    BY <1>1, <1>9
  <2> HIDE DEF over
  <2> QED  BY <1>8, <1>9, <2>1 DEF FirstOf, Gives, Spreads, m
<1>10. CASE hasStatic /\ lazy # NoContext /\ hasAsync
  <2> HIDE DEF over
  <2>1. m = Spread(lazy, over)
    BY <1>1, <1>10
  <2>2. Spreads(m, lazy, over)
    BY <2>1, SpreadFacts
  <2>3. \A k : k \in DOMAIN m <=> k \in DOMAIN lazy \/ k \in DOMAIN static \/ k \in DOMAIN async
    BY <1>8, <2>2 DEF Spreads
  <2>4. \A k \in DOMAIN m : m[k] = IF k \in DOMAIN lazy THEN lazy[k] ELSE
                                   IF k \in DOMAIN static THEN static[k] ELSE async[k]
    BY <1>8, <2>2 DEF Spreads
  <2> QED  BY <1>10, <2>2, <2>3, <2>4 DEF FirstOf, Gives, Spreads, m
<1> QED  BY <1>3, <1>4, <1>5, <1>6, <1>7, <1>9, <1>10

\* The context of an entry before it is redacted.
EntryContext(r) == WithMixin(MergeContext(r.static, r.lazy, r.async), r.s.mixin)

\* The value of a key once the errors under the two keys are expanded.
Expanded(c, k) == IF k \in ErrorFields /\ c[k].kind = "error" THEN Leaf("serialized") ELSE c[k]

LEMMA EntryContextTells ==
    ASSUME NEW r, IsCall(r)
    PROVE  LET m == EntryContext(r)
               b == MergeContext(r.static, r.lazy, r.async)
               t == SerializeErrorKeys(ApplySerializers(m, r.s.serializers))
           IN  /\ FirstOf(b, r.lazy, r.static, r.async) /\ IsContext(b)
               /\ m = [k \in DOMAIN m |-> m[k]]
               /\ \A k : k \in DOMAIN m <=> k \in DOMAIN b \/ Gives(r.s.mixin, k)
               /\ \A k \in DOMAIN m : m[k] = IF k \in DOMAIN b THEN b[k] ELSE r.s.mixin[k]
               /\ IsContext(t)
               /\ \A k \in DOMAIN t : k \in ErrorFields => t[k].kind # "error"
               /\ r.s.serializers = NoContext =>
                    DOMAIN t = DOMAIN m /\ \A k \in DOMAIN m : t[k] = Expanded(m, k)
<1> DEFINE b == MergeContext(r.static, r.lazy, r.async)
           x == r.s.mixin
           m == EntryContext(r)
           z == r.s.serializers
           a == ApplySerializers(m, z)
           t == SerializeErrorKeys(a)
<1>1. /\ IsContext(r.static) /\ r.static # NoContext /\ (r.lazy = NoContext \/ IsContext(r.lazy))
      /\ (r.async = NoContext \/ IsContext(r.async)) /\ (x = NoContext \/ IsContext(x))
      /\ (z = NoContext \/ IsContext(z))
  BY DEF IsCall, IsSettings
<1>2. FirstOf(b, r.lazy, r.static, r.async)
  BY <1>1, MergeTells
<1> HIDE DEF b, x, z
<1>3. IsContext(b)
  <2>1. \A k \in DOMAIN b : \E c \in {r.lazy, r.static, r.async} : Gives(c, k) /\ b[k] = c[k]
    BY <1>2 DEF FirstOf
  <2>2. \A k \in DOMAIN b : \E c : IsContext(c) /\ k \in DOMAIN c /\ b[k] = c[k]
    BY <1>1, <2>1 DEF Gives
  <2>3. b = [k \in DOMAIN b |-> b[k]]
    BY <1>2 DEF FirstOf
  <2> QED  BY <2>2, <2>3, MixedContext
<1>4. m = IF x = NoContext THEN b ELSE Spread(b, x)
  BY DEF EntryContext, WithMixin, b, x
<1> HIDE DEF m
<1>5. /\ m = [k \in DOMAIN m |-> m[k]]
      /\ \A k : k \in DOMAIN m <=> k \in DOMAIN b \/ Gives(x, k)
      /\ \A k \in DOMAIN m : m[k] = IF k \in DOMAIN b THEN b[k] ELSE x[k]
  <2>1. CASE x = NoContext
    <3>1. m = b
      BY <1>4, <2>1
    <3> QED  BY <1>2, <2>1, <3>1 DEF FirstOf, Gives
  <2>2. CASE x # NoContext
    <3>1. m = Spread(b, x)
      BY <1>4, <2>2
    <3>2. Spreads(m, b, x)
      BY <3>1, SpreadFacts
    <3> QED  BY <2>2, <3>2 DEF Gives, Spreads
  <2> QED  BY <2>1, <2>2
<1>6. \A k \in DOMAIN m : \E c : IsContext(c) /\ k \in DOMAIN c /\ m[k] = c[k]
  BY <1>1, <1>3, <1>5 DEF Gives
<1>7. IsContext(m)
  BY <1>5, <1>6, MixedContext
<1>8. z = NoContext => a = m
  BY DEF ApplySerializers
<1>9. IsContext(a)
  <2>1. CASE z = NoContext
    <3> HIDE DEF a
    <3> QED  BY <1>7, <1>8, <2>1
  <2>2. CASE z # NoContext
    <3>1. a = [k \in DOMAIN m |-> IF k \in DOMAIN z THEN z[k] ELSE m[k]]
      BY <2>2 DEF ApplySerializers
    <3> HIDE DEF a
    <3>2. a = [k \in DOMAIN a |-> a[k]]
      BY <3>1
    <3>3. \A k \in DOMAIN a : k \in DOMAIN m /\ a[k] = IF k \in DOMAIN z THEN z[k] ELSE m[k]
      BY <3>1
    <3>4. \A k \in DOMAIN a : \E c : IsContext(c) /\ k \in DOMAIN c /\ a[k] = c[k]
      BY <1>1, <1>7, <2>2, <3>3
    <3> QED  BY <3>2, <3>4, MixedContext
  <2> QED  BY <2>1, <2>2
<1> HIDE DEF a
<1>10. /\ t = [k \in DOMAIN t |-> t[k]] /\ DOMAIN t = DOMAIN a
       /\ \A k \in DOMAIN a : t[k] = Expanded(a, k)
  BY DEF SerializeErrorKeys, Expanded
<1> HIDE DEF t
<1>11. IsContext(t)
  <2> DEFINE all == [k \in Fields |-> Leaf("serialized")]
  <2>1. DOMAIN a \subseteq Fields
    BY <1>9, ContextIsFunction
  <2>2. IsContext(all) /\ DOMAIN all = Fields /\ \A k \in Fields : all[k] = Leaf("serialized")
    BY ErrorsAreContext
  <2> HIDE DEF all
  <2>3. \A k \in DOMAIN t : t[k] = Leaf("serialized") \/ t[k] = a[k]
    BY <1>10 DEF Expanded
  <2>4. \A k \in DOMAIN t : \E c : IsContext(c) /\ k \in DOMAIN c /\ t[k] = c[k]
    BY <1>9, <1>10, <2>1, <2>2, <2>3
  <2> QED  BY <1>10, <2>4, MixedContext
<1>12. \A k \in DOMAIN t : k \in ErrorFields => t[k].kind # "error"
  BY <1>10, LeafFacts DEF Expanded
<1>13. z = NoContext => DOMAIN t = DOMAIN m /\ \A k \in DOMAIN m : t[k] = Expanded(m, k)
  BY <1>8, <1>10
<1> QED  BY <1>2, <1>3, <1>5, <1>11, <1>12, <1>13 DEF b, m, x, z, t, a

-----------------------------------------------------------------------------
\* What the plans put into an entry: the message, and the context that went
\* through the redaction.
Merged(r) == MergeContext(r.static, r.lazy, r.async)
Serialized(r) == SerializeErrorKeys(ApplySerializers(EntryContext(r), r.s.serializers))

LEMMA PlanTells ==
    ASSUME NEW r, IsCall(r), EntryPlan(r) # NotBuilt
    PROVE  LET e == EntryPlan(r)
               v == r.message.value
           IN  /\ e.context = SanitizeContext(r.s, Serialized(r))
               /\ \/ e.message.value = v /\ v.kind \in Strings /\ ~NeedsRedaction(r.s)
                  \/ e.message.value = AsString(v) /\ ~NeedsRedaction(r.s)
                  \/ e.message.value = AsString(Redacted(r.s, v)) /\ NeedsRedaction(r.s)
<1> DEFINE v == r.message.value
           msg == SanitizeMessage(r.s, r.message)
           c == SanitizeContext(r.s, Serialized(r))
           b == SerializeErrorKeys(Merged(r))
           string == AsString(v)
<1>1. CASE FastPlan(r.s)
  <2>1. ~NeedsRedaction(r.s) /\ r.s.serializers = NoContext /\ r.s.mixin = NoContext
    BY <1>1 DEF FastPlan
  <2>2. Serialized(r) = b
    BY <2>1 DEF Serialized, EntryContext, ApplySerializers, WithMixin, Merged
  <2>3. c = b
    BY <2>1, <2>2 DEF SanitizeContext
  <2>4. EntryPlan(r) = [message |-> [value |-> string, long |-> FALSE], context |-> b]
    BY <1>1 DEF EntryPlan, BuildEntryFast, Merged
  <2> HIDE DEF b, c, string
  <2>5. EntryPlan(r).message.value = string /\ EntryPlan(r).context = b
    BY <2>4
  <2> QED  BY <2>1, <2>3, <2>5 DEF string, c
<1>2. CASE ~FastPlan(r.s)
  <2>1. EntryPlan(r) = BuildEntry(r) /\ ~r.s.filtered
    BY <1>2 DEF EntryPlan, BuildEntry
  <2>2. EntryPlan(r) = [message |-> msg, context |-> c]
    BY <2>1 DEF BuildEntry, Serialized, EntryContext
  <2>3. EntryPlan(r).message = msg /\ EntryPlan(r).context = c
    <3> HIDE DEF msg, c
    <3> QED  BY <2>2
  <2>4. CASE ~NeedsRedaction(r.s) /\ v.kind \in Strings
    <3>1. msg = r.message
      BY <2>4 DEF SanitizeMessage
    <3> QED  BY <2>3, <2>4, <3>1
  <2>5. CASE ~(~NeedsRedaction(r.s) /\ v.kind \in Strings)
    <3> DEFINE w == AsString(RedactValue(r.s, v))
    <3>1. msg = [value |-> w, long |-> FALSE]
      BY <2>5 DEF SanitizeMessage
    <3>2. msg.value = w
      <4> HIDE DEF msg, w
      <4> QED  BY <3>1
    <3>3. w = IF NeedsRedaction(r.s) THEN AsString(Redacted(r.s, v)) ELSE string
      BY DEF RedactValue
    <3> QED  BY <2>3, <3>2, <3>3
  <2> QED  BY <2>4, <2>5
<1> QED  BY <1>1, <1>2

\* The context of an entry is the merged one, or what the redaction makes of it.
LEMMA ContextTells ==
    ASSUME NEW r, IsCall(r), EntryPlan(r) # NotBuilt
    PROVE  LET c == EntryPlan(r).context
               t == Serialized(r)
           IN  /\ ~NeedsRedaction(r.s) => c = t
               /\ NeedsRedaction(r.s) =>
                    \E f : Follows(r.s, Object(t), f) /\ Redacted(r.s, Object(t)) = f[<<>>] /\ Object(c) = f[<<>>]
<1> DEFINE c == EntryPlan(r).context
           t == Serialized(r)
<1>1. c = SanitizeContext(r.s, t)
  BY PlanTells
<1>2. IsContext(t) /\ r.s.maxDepth \in Nat
  BY EntryContextTells DEF Serialized, IsCall, IsSettings
<1> HIDE DEF c, t
<1>3. ~NeedsRedaction(r.s) => c = t
  BY <1>1 DEF SanitizeContext
<1>4. ASSUME NeedsRedaction(r.s)
      PROVE  \E f : Follows(r.s, Object(t), f) /\ Redacted(r.s, Object(t)) = f[<<>>] /\ Object(c) = f[<<>>]
  <2>1. IsValue(Object(t)) /\ Object(t).kind = "object" /\ Object(t).kids = t
    BY <1>2 DEF IsContext, Object
  <2>2. PICK f : Redacted(r.s, Object(t)) = f[<<>>] /\ Follows(r.s, Object(t), f)
    BY <2>1, RedactedUnfolds
  <2>3. /\ f[<<>>] = Object(f[<<>>].kids) /\ DOMAIN f[<<>>].kids \subseteq DOMAIN t
    BY <1>2, <2>1, <2>2, RootStays
  <2>4. IsValue(f[<<>>])
    BY <1>2, <1>4, <2>1, <2>2, RedactedTwice
  <2>5. c = f[<<>>].kids
    <3>1. CASE DOMAIN t = {}
      <4>1. c = t
        BY <1>1, <3>1 DEF SanitizeContext
      <4>2. t = [k \in DOMAIN t |-> t[k]]
        BY <1>2, ContextIsFunction
      <4>3. IsNode(f[<<>>])
        BY <2>4, PathsOfRoot, AtRoot DEF IsValue
      <4> DEFINE d == f[<<>>].kids
      <4>4. d = [k \in DOMAIN d |-> d[k]] /\ DOMAIN d = {}
        BY <2>3, <3>1, <4>3 DEF IsNode
      <4> HIDE DEF d
      <4>5. t = d
        BY <3>1, <4>2, <4>4
      <4> QED  BY <4>1, <4>5 DEF d
    <3>2. CASE DOMAIN t # {}
      BY <1>1, <1>4, <2>2, <3>2 DEF SanitizeContext, RedactValue
    <3> QED  BY <3>1, <3>2
  <2> QED  BY <2>2, <2>3, <2>5
<1> QED  BY <1>3, <1>4 DEF c, t

LEMMA NothingToMask == \A s, p : ~NeedsRedaction(s) => ~s.denylist /\ ~s.pii /\ ~Secret(s, p)
BY DEF NeedsRedaction, Secret, Masked, PathMatches

\* The call of an entry that was built.
BuiltNow == Built /\ IsCall(buildCall) /\ builtEntry = EntryPlan(buildCall)

LEMMA NothingSecretProved == ASSUME BuiltNow PROVE NothingSecretLeft
<1> DEFINE s == buildCall.s
           t == Serialized(buildCall)
<1>1. IsCall(buildCall) /\ EntryPlan(buildCall) # NotBuilt /\ builtEntry = EntryPlan(buildCall)
  BY DEF BuiltNow, Built
<1>2. s.maxDepth \in Nat /\ IsValue(Object(t))
  BY <1>1, EntryContextTells DEF Serialized, IsCall, IsSettings, IsContext
<1> SUFFICES ASSUME NEW p \in PathsOf(After)
             PROVE  /\ Secret(s, p) => At(After, p) = Censor
                    /\ At(After, p).kind = "bearer" => ~s.denylist
                    /\ At(After, p).kind = "email" => ~s.pii
                    /\ At(After, p).kind \in {"object", "error", "serialized"} =>
                         ~NeedsRedaction(s) \/ Len(p) <= s.maxDepth
  BY DEF NothingSecretLeft
<1>3. CASE ~NeedsRedaction(s)
  BY <1>3, NothingToMask
<1>4. CASE NeedsRedaction(s)
  <2>1. PICK f : Follows(s, Object(t), f) /\ After = f[<<>>]
    BY <1>1, <1>4, ContextTells DEF After
  <2> HIDE DEF s, t
  <2> QED  BY <1>2, <1>4, <2>1, ResultIsClean
<1> QED  BY <1>3, <1>4

LEMMA ErrorsExpandedProved == ASSUME BuiltNow PROVE ErrorsExpanded
<1> DEFINE s == buildCall.s
           t == Serialized(buildCall)
<1>1. IsCall(buildCall) /\ EntryPlan(buildCall) # NotBuilt /\ builtEntry = EntryPlan(buildCall)
  BY DEF BuiltNow, Built
<1>2. /\ s.maxDepth \in Nat /\ IsValue(Object(t))
      /\ \A k \in DOMAIN t : k \in ErrorFields => t[k].kind # "error"
  BY <1>1, EntryContextTells DEF Serialized, IsCall, IsSettings, IsContext
<1> SUFFICES ASSUME NEW p \in PathsOf(After), At(After, p).kind = "error"
             PROVE  ~NeedsRedaction(s) /\ \A k \in ErrorFields : p # <<k>>
  BY DEF ErrorsExpanded
<1>3. CASE NeedsRedaction(s)
  <2>1. PICK f : Follows(s, Object(t), f) /\ After = f[<<>>]
    BY <1>1, <1>3, ContextTells DEF After
  <2> HIDE DEF s, t
  <2> QED  BY <1>2, <1>3, <2>1, ResultIsClean
<1>4. ASSUME ~NeedsRedaction(s), NEW k \in ErrorFields, p = <<k>> PROVE FALSE
  <2>1. After = Object(t)
    BY <1>1, <1>4, ContextTells DEF After
  <2>2. k \in Fields /\ <<>> \in Seq(Fields) /\ p = Append(<<>>, k) /\ p \in Paths
    BY <1>4, EntryAssumption, PathsOfRoot
  <2> HIDE DEF s, t
  <2>3. PICK v : v = After /\ v.kids = t /\ p \in PathsOf(v)
    BY <2>1 DEF Object
  <2>4. k \in DOMAIN At(v, <<>>).kids /\ At(v, p) = At(v, <<>>).kids[k]
    BY <2>2, <2>3, PathsOfBelow, AtBelow, PathFacts
  <2>5. k \in DOMAIN t /\ At(After, p) = t[k]
    BY <2>3, <2>4, AtRoot
  <2> QED  BY <1>2, <1>4, <2>5
<1> QED  BY <1>3, <1>4

LEMMA MessageProved == ASSUME BuiltNow PROVE MessageIsClean
<1> DEFINE s == buildCall.s
           v == buildCall.message.value
           w == builtEntry.message.value
<1>1. IsCall(buildCall) /\ EntryPlan(buildCall) # NotBuilt /\ builtEntry = EntryPlan(buildCall)
  BY DEF BuiltNow, Built
<1>2. \/ w = v /\ v.kind \in Strings /\ ~NeedsRedaction(s)
      \/ w = AsString(v) /\ ~NeedsRedaction(s)
      \/ w = AsString(Redacted(s, v)) /\ NeedsRedaction(s)
  BY <1>1, PlanTells
<1>3. IsValue(v)
  BY <1>1 DEF IsCall
<1>4. \A x : AsString(x).kind \in Strings /\ (AsString(x) = x \/ AsString(x).kind = "text")
  BY LeafFacts DEF AsString, Strings
<1> HIDE DEF s, v, w
<1>5. ~NeedsRedaction(s) => ~s.denylist /\ ~s.pii
  BY NothingToMask
<1>6. ASSUME NeedsRedaction(s)
      PROVE  /\ Redacted(s, v).kind = "bearer" => ~s.denylist
             /\ Redacted(s, v).kind = "email" => ~s.pii
  <2>1. PICK f : Redacted(s, v) = f[<<>>] /\ Follows(s, v, f)
    BY <1>3, RedactedUnfolds
  <2>2. f[<<>>] = RedactInternal(s, v, <<>>, f) /\ IsNode(v)
    BY <1>3, <2>1, PathsOfRoot, AtRoot DEF Follows, IsValue
  <2> QED  BY <2>1, <2>2, CallResult
<1> DEFINE y == Redacted(s, v)
<1>7. /\ w.kind \in Strings
      /\ w.kind = "bearer" => ~s.denylist
      /\ w.kind = "email" => ~s.pii
  <2>1. NeedsRedaction(s) => (y.kind = "bearer" => ~s.denylist) /\ (y.kind = "email" => ~s.pii)
    BY <1>6
  <2> HIDE DEF y
  <2> QED  BY <1>2, <1>4, <1>5, <2>1 DEF y
<1> QED  BY <1>7 DEF MessageIsClean, s, w

LEMMA RestIsKeptProved == ASSUME BuiltNow PROVE RestIsKept
<1> DEFINE s == buildCall.s
           t == Serialized(buildCall)
           b == Merged(buildCall)
           m == EntryContext(buildCall)
<1>1. IsCall(buildCall) /\ EntryPlan(buildCall) # NotBuilt /\ builtEntry = EntryPlan(buildCall)
  BY DEF BuiltNow, Built
<1> SUFFICES ASSUME s.serializers = NoContext, NEW p \in PathsOf(Before), ~Secret(s, p), Len(p) <= s.maxDepth,
                    At(Before, p).kind \in PlainKinds
             PROVE  p \in PathsOf(After) /\ At(After, p) = At(Before, p)
  BY DEF RestIsKept
<1>2. /\ IsContext(b) /\ IsContext(t) /\ DOMAIN t = DOMAIN m
      /\ \A k \in DOMAIN m : t[k] = Expanded(m, k)
      /\ \A k : k \in DOMAIN m <=> k \in DOMAIN b \/ Gives(s.mixin, k)
      /\ \A k \in DOMAIN m : m[k] = IF k \in DOMAIN b THEN b[k] ELSE s.mixin[k]
  BY <1>1, EntryContextTells DEF Serialized, Merged
<1>3. s.maxDepth \in Nat
  BY <1>1 DEF IsCall, IsSettings
<1>4. Before = Object(b)
  BY DEF Before, Merged
<1> HIDE DEF s, t, b, m
<1>5. Object(b).kind = "object" /\ Object(b).kids = b
  BY DEF Object
<1>6. p # <<>>
  BY <1>4, <1>5, AtRoot, EntryAssumption
<1>7. p \in Paths /\ p[1] \in DOMAIN b
  BY <1>4, <1>5, <1>6, PathsOfRoot, FirstName
<1> DEFINE k == p[1]
<1>8. k \in Fields /\ k \in DOMAIN t /\ b[k] = t[k]
  <2>1. k \in Fields /\ k \in DOMAIN b /\ k \in DOMAIN t /\ m[k] = b[k] /\ t[k] = Expanded(m, k)
    BY <1>2, <1>7, ContextIsFunction
  <2>2. b[k].kind # "error"
    <3> SUFFICES ASSUME b[k].kind = "error" PROVE FALSE
      OBVIOUS
    <3>1. p[1] = k
      BY DEF k
    <3>2. At(Object(b), p) = b[k]
      BY <1>2, <1>4, <1>6, <2>1, <3>1, LeafBelow
    <3> QED  BY <1>4, <3>2, EntryAssumption
  <2> QED  BY <2>1, <2>2 DEF Expanded
<1> HIDE DEF k
<1>9. p \in PathsOf(Object(t)) /\ At(Object(t), p) = At(Object(b), p)
  <2>1. k \in DOMAIN b /\ p[1] = k
    BY <1>7 DEF k
  <2> QED  BY <1>4, <1>6, <1>7, <1>8, <2>1, SameBelow
<1>10. CASE ~NeedsRedaction(s)
  <2>1. builtEntry.context = t
    BY <1>1, <1>10, ContextTells DEF s, t
  <2> QED  BY <1>4, <1>9, <2>1 DEF After
<1>11. CASE NeedsRedaction(s)
  <2>1. PICK f : Follows(s, Object(t), f) /\ After = f[<<>>]
    BY <1>1, <1>11, ContextTells DEF After, s, t
  <2>2. IsValue(Object(t))
    BY <1>2 DEF IsContext
  <2>3. At(Object(t), p).kind \in PlainKinds
    BY <1>4, <1>9
  <2> QED  BY <1>3, <1>4, <1>9, <1>11, <2>1, <2>2, <2>3, RestInResult
<1> QED  BY <1>10, <1>11

LEMMA RedactionIdempotentProved == ASSUME BuiltNow PROVE RedactionIdempotent
<1> DEFINE s == buildCall.s
           t == Serialized(buildCall)
<1>1. IsCall(buildCall) /\ EntryPlan(buildCall) # NotBuilt /\ builtEntry = EntryPlan(buildCall)
  BY DEF BuiltNow, Built
<1>2. s.maxDepth \in Nat /\ IsValue(Object(t))
  BY <1>1, EntryContextTells DEF Serialized, IsCall, IsSettings, IsContext
<1> SUFFICES ASSUME NeedsRedaction(s) PROVE RedactValue(s, After) = After
  BY DEF RedactionIdempotent
<1>3. PICK f : Follows(s, Object(t), f) /\ After = f[<<>>]
  BY <1>1, ContextTells DEF After
<1> HIDE DEF s, t
<1>4. Redacted(s, After) = After
  BY <1>2, <1>3, RedactedTwice
<1> QED  BY <1>4 DEF RedactValue

LEMMA MostSpecificProved == ASSUME BuiltNow PROVE MostSpecificWins
<1> DEFINE r == buildCall
           c == builtEntry.context
           b == Merged(r)
           m == EntryContext(r)
<1>1. IsCall(r) /\ EntryPlan(r) # NotBuilt /\ builtEntry = EntryPlan(r)
  BY DEF BuiltNow, Built
<1> SUFFICES ASSUME ~NeedsRedaction(r.s), r.s.serializers = NoContext, NEW k \in Fields
             PROVE  /\ k \in DOMAIN c <=> \E i \in DOMAIN Sources : Defines(i, k)
                    /\ \A i \in DOMAIN Sources :
                         Defines(i, k) /\ (\A j \in 1 .. i - 1 : ~Defines(j, k)) =>
                             c[k] = Expanded(Sources[i], k)
  BY DEF MostSpecificWins, Expanded
<1>2. DOMAIN c = DOMAIN m /\ \A j \in DOMAIN m : c[j] = Expanded(m, j)
  BY <1>1, ContextTells, EntryContextTells DEF Serialized
<1>3. /\ FirstOf(b, r.lazy, r.static, r.async)
      /\ k \in DOMAIN c <=> k \in DOMAIN b \/ Gives(r.s.mixin, k)
      /\ k \in DOMAIN c => m[k] = IF k \in DOMAIN b THEN b[k] ELSE r.s.mixin[k]
      /\ k \in DOMAIN c => c[k] = Expanded(m, k)
  BY <1>1, <1>2, EntryContextTells DEF Merged
<1> HIDE DEF b, c, m
<1>4. /\ k \in DOMAIN b <=> Gives(r.lazy, k) \/ Gives(r.static, k) \/ Gives(r.async, k)
      /\ k \in DOMAIN b => b[k] = IF Gives(r.lazy, k) THEN r.lazy[k]
                                  ELSE IF Gives(r.static, k) THEN r.static[k] ELSE r.async[k]
  BY <1>3 DEF FirstOf
<1>5. /\ DOMAIN Sources = 1 .. 4 /\ Sources[1] = r.lazy /\ Sources[2] = r.static
      /\ Sources[3] = r.async /\ Sources[4] = r.s.mixin
  BY DEF Sources
<1>6. /\ Defines(1, k) <=> Gives(r.lazy, k)
      /\ Defines(2, k) <=> Gives(r.static, k)
      /\ Defines(3, k) <=> Gives(r.async, k)
      /\ Defines(4, k) <=> Gives(r.s.mixin, k)
  BY <1>5 DEF Defines, Gives
<1>7. k \in DOMAIN c <=> \E i \in DOMAIN Sources : Defines(i, k)
  <2>1. (\E i \in 1 .. 4 : Defines(i, k)) <=> Defines(1, k) \/ Defines(2, k) \/ Defines(3, k) \/ Defines(4, k)
    <3>1. 1 .. 4 = {1, 2, 3, 4}
      OBVIOUS
    <3> QED  BY <3>1, Zenon
  <2> QED  BY <1>3, <1>4, <1>5, <1>6, <2>1
<1>8. ASSUME NEW i \in DOMAIN Sources, Defines(i, k), \A j \in 1 .. i - 1 : ~Defines(j, k)
      PROVE  c[k] = Expanded(Sources[i], k)
  <2>1. i = 1 \/ i = 2 \/ i = 3 \/ i = 4
    BY <1>5
  <2>2. /\ i > 1 => ~Defines(1, k)
        /\ i > 2 => ~Defines(2, k)
        /\ i > 3 => ~Defines(3, k)
    BY <1>8, <2>1
  <2>0. k \in DOMAIN c /\ (m[k] = Sources[i][k] => c[k] = Expanded(Sources[i], k))
    BY <1>3, <1>7, <1>8 DEF Expanded
  <2>3. CASE i = 1
    BY <1>3, <1>4, <1>5, <1>6, <1>8, <2>0, <2>3
  <2>4. CASE i = 2
    BY <1>3, <1>4, <1>5, <1>6, <1>8, <2>0, <2>2, <2>4
  <2>5. CASE i = 3
    BY <1>3, <1>4, <1>5, <1>6, <1>8, <2>0, <2>2, <2>5
  <2>6. CASE i = 4
    BY <1>3, <1>4, <1>5, <1>6, <1>8, <2>0, <2>2, <2>6
  <2> QED  BY <2>1, <2>3, <2>4, <2>5, <2>6
<1> QED  BY <1>7, <1>8

LEMMA PlansAgreeProved == ASSUME BuiltNow PROVE PlansAgree
<1> DEFINE r == buildCall
           slow == BuildEntry(r)
           c == SanitizeContext(r.s, Serialized(r))
           msg == SanitizeMessage(r.s, r.message)
           v == r.message.value
<1>1. IsCall(r) /\ EntryPlan(r) # NotBuilt /\ builtEntry = EntryPlan(r)
  BY DEF BuiltNow, Built
<1> SUFFICES ASSUME FastPlan(r.s)
             PROVE  /\ slow.context = builtEntry.context /\ slow.message.value = builtEntry.message.value
                    /\ slow.message.long => r.message.long /\ v.kind \in Strings
  BY DEF PlansAgree
<1>2. ~NeedsRedaction(r.s) /\ ~r.s.filtered
  BY DEF FastPlan
<1>3. slow = [message |-> msg, context |-> c]
  BY <1>2 DEF BuildEntry, Serialized, EntryContext
<1>4. slow.context = c /\ slow.message = msg
  <2> HIDE DEF slow, msg, c
  <2> QED  BY <1>3
<1>5. builtEntry.context = c
  BY <1>1, PlanTells
<1>6. builtEntry.message.value = AsString(v)
  BY <1>1 DEF EntryPlan, BuildEntryFast
<1>7. /\ msg.value = AsString(v)
      /\ msg.long => r.message.long /\ v.kind \in Strings
  <2>1. CASE v.kind \in Strings
    BY <1>2, <2>1 DEF SanitizeMessage, AsString
  <2>2. CASE v.kind \notin Strings
    <3>1. msg = [value |-> AsString(v), long |-> FALSE]
      BY <1>2, <2>2 DEF SanitizeMessage, RedactValue
    <3> DEFINE w == AsString(v)
    <3>2. msg.value = w /\ msg.long = FALSE
      <4> HIDE DEF msg, w
      <4> QED  BY <3>1 DEF w
    <3> QED  BY <3>2
  <2> QED  BY <2>1, <2>2
<1> HIDE DEF slow, msg, c
<1> QED  BY <1>4, <1>5, <1>6, <1>7

\* For all settings, contexts and messages, an entry of either plan holds what
\* was logged without what the settings ask to be masked, and redacting it again
\* changes nothing.
THEOREM EntriesAreCleanCorrect == EntrySpec => []EntriesAreClean
<1> DEFINE Inv == \/ builtEntry = NotBuilt
                  \/ IsCall(buildCall) /\ builtEntry = EntryPlan(buildCall)
<1>1. EntryInit => Inv
  BY DEF EntryInit
<1>2. Inv /\ [EntryNext]_entryVars => Inv'
  <2>1. CASE EntryNext
    BY <2>1, EntryAssumption DEF EntryNext, LogCall
  <2>2. CASE UNCHANGED entryVars
    BY <2>2 DEF entryVars
  <2> QED  BY <2>1, <2>2
<1>3. Inv => EntriesAreClean
  <2>1. CASE builtEntry = NotBuilt
    BY <2>1 DEF EntriesAreClean, NothingSecretLeft, ErrorsExpanded, MessageIsClean, RestIsKept,
                RedactionIdempotent, MostSpecificWins, PlansAgree, Built
  <2>2. CASE Built /\ IsCall(buildCall) /\ builtEntry = EntryPlan(buildCall)
    <3>1. BuiltNow
      BY <2>2 DEF BuiltNow
    <3> QED  BY <3>1, NothingSecretProved, ErrorsExpandedProved, MessageProved, RestIsKeptProved,
                RedactionIdempotentProved, MostSpecificProved, PlansAgreeProved DEF EntriesAreClean
  <2> QED  BY <2>1, <2>2 DEF Built
<1> QED  BY <1>1, <1>2, <1>3, PTL DEF EntrySpec
=============================================================================
