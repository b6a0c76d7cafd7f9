------------------------------ MODULE Profiler ------------------------------
(***************************************************************************)
(* The durations of operations: OperationProfiler of                       *)
(* src/metrics/profiler.metric.ts over its cache of labels                 *)
(* (src/brain/lru.utils.ts) and the Histogram of                           *)
(* src/metrics/histogram.metric.ts.  A quantile is a fraction; q is in     *)
(* percent.                                                                *)
(***************************************************************************)
EXTENDS Naturals, Sequences, FiniteSets, SequencesExt, FiniteSetsExt, Lists

CONSTANTS Operations, Overflow,  \* names, and PROFILE_OVERFLOW_LABEL
          MaxOperations,
          Buckets,               \* the upper bounds, in ascending order
          Durations, MaxRecords  \* bounds of the model

ASSUME ProfilerAssumption ==
    /\ IsFiniteSet(Operations) /\ Overflow \notin Operations /\ MaxOperations \in Nat \ {0}
    /\ Durations \subseteq Nat
    /\ Buckets \in Seq(Nat \ {0}) /\ Len(Buckets) > 0
    /\ \A i, j \in DOMAIN Buckets : i < j => Buckets[i] < Buckets[j]

Labels == Operations \cup {Overflow}

VARIABLES labelCache,   \* records of name and label, least recently used first
          histogram,    \* label -> bucketCounts and count
          recorded,     \* history: label -> the durations observed, in ascending order
          measured      \* history: operation -> durations recorded

profilerVars == <<labelCache, histogram, recorded, measured>>

NoSamples == [bucketCounts |-> [i \in DOMAIN Buckets |-> 0], count |-> 0]

ProfilerInit == /\ labelCache = <<>> /\ histogram = [l \in Labels |-> NoSamples]
                /\ recorded = [l \in Labels |-> <<>>] /\ measured = [o \in Operations |-> 0]

\* observe(): a duration counts in every bucket it fits in.
Observe(entry, d) ==
    [bucketCounts |-> [i \in DOMAIN Buckets |-> entry.bucketCounts[i] + (IF d <= Buckets[i] THEN 1 ELSE 0)],
     count |-> entry.count + 1]

\* The durations s, in ascending order, and d among them.
Sorted(s, d) ==
    InsertAt(s, Min({i \in 1 .. Len(s) + 1 : i = Len(s) + 1 \/ s[i] > d}), d)

\* Mutant of LabelFor: a name that was evicted gets its label back.
LabelForTracked(name) ==
    IF Len(labelCache) >= MaxOperations /\ measured[name] = 0 THEN Overflow ELSE name

\* The label of a name that is not in the cache.
LabelFor(name) == IF Len(labelCache) >= MaxOperations THEN Overflow ELSE name

SumOf(f) == LET names == SetToSeq(DOMAIN f)
            IN  Total([i \in DOMAIN names |-> f[names[i]]])

\* Where the cache has a name, and the cache without it or with room for it.
Labelled(name) == \E i \in DOMAIN labelCache : labelCache[i].name = name
LabelledAt(name) == CHOOSE i \in DOMAIN labelCache : labelCache[i].name = name
OtherLabels(name) ==
    IF Labelled(name) THEN RemoveAt(labelCache, LabelledAt(name))
    ELSE IF Len(labelCache) >= MaxOperations THEN Tail(labelCache) ELSE labelCache

\* record(): a hit makes the name the most recent one, a miss evicts the least.
RecordDuration(name, d) ==
    LET entry == IF Labelled(name) THEN labelCache[LabelledAt(name)]
                                   ELSE [name |-> name, label |-> LabelFor(name)]
    IN  /\ SumOf(measured) < MaxRecords
        /\ labelCache' = Append(OtherLabels(name), entry)
        /\ histogram' = [histogram EXCEPT ![entry.label] = Observe(@, d)]
        /\ recorded' = [recorded EXCEPT ![entry.label] = Sorted(@, d)]
        /\ measured' = [measured EXCEPT ![name] = @ + 1]

ProfilerNext == \E name \in Operations, d \in Durations : RecordDuration(name, d)

ProfilerSpec == ProfilerInit /\ [][ProfilerNext]_profilerVars

-----------------------------------------------------------------------------
(* quantileOf(), for a label with observations.                            *)

Cumulative(entry, i) == IF i = 0 THEN 0 ELSE entry.bucketCounts[i]
Bound(i) == IF i = 0 THEN 0 ELSE Buckets[i]

\* The buckets whose count reaches the rank q * count; the first is taken, and
\* without any the quantile is NaN.
Crossing(entry, q) == {i \in DOMAIN Buckets : 100 * entry.bucketCounts[i] >= q * entry.count}

\* The estimate, a fraction, interpolated in the bucket that crosses the rank.
Quantile(entry, q) ==
    LET i == Min(Crossing(entry, q))
        inBucket == entry.bucketCounts[i] - Cumulative(entry, i - 1)
    IN  IF inBucket = 0 THEN [num |-> Bound(i - 1), den |-> 1]
        ELSE [num |-> Bound(i - 1) * 100 * inBucket
                        + (Bound(i) - Bound(i - 1)) * (q * entry.count - 100 * Cumulative(entry, i - 1)),
              den |-> 100 * inBucket]

-----------------------------------------------------------------------------
(* Properties.                                                             *)

Percents == {0, 25, 50, 95, 100}
Used == {l \in Labels : histogram[l].count > 0}

\* The label map never grows past the cap and the overflow label, whatever is
\* evicted and comes back, and no duration is lost.
LabelsBounded ==
    /\ Cardinality(Used) <= MaxOperations + 1 /\ Len(labelCache) <= MaxOperations
    /\ SumOf([l \in Labels |-> histogram[l].count]) = SumOf(measured)

\* The observation of that rank among those recorded.
TrueQuantile(l, q) ==
    LET rank == (q * Len(recorded[l]) + 99) \div 100
    IN  recorded[l][IF rank = 0 THEN 1 ELSE rank]

\* A quantile estimate lies in the bucket of the true quantile, or there is none
\* because that lies above the last bucket; the minimum is never overestimated.
QuantilesAreClose ==
    \A l \in Used, q \in Percents :
        LET entry == histogram[l]
            d == TrueQuantile(l, q)
        IN  IF Crossing(entry, q) = {} THEN d > Last(Buckets)
            ELSE LET i == Min(Crossing(entry, q))
                     e == Quantile(entry, q)
                 IN  /\ Bound(i - 1) * e.den <= e.num /\ e.num <= Bound(i) * e.den
                     /\ q > 0 => d <= Bound(i) /\ (i = 1 \/ Bound(i - 1) < d)
                     /\ q = 0 => e.num <= d * e.den

\* A larger quantile has a larger estimate.
QuantilesGrow ==
    \A l \in Used : \A p, q \in Percents :
        p < q /\ Crossing(histogram[l], q) # {} =>
            LET a == Quantile(histogram[l], p)
                b == Quantile(histogram[l], q)
            IN  a.num * b.den <= b.num * a.den

\* What the profiler reports is true of what was measured.
ProfileIsTrue == LabelsBounded /\ QuantilesAreClose /\ QuantilesGrow
=============================================================================
