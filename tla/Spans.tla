-------------------------------- MODULE Spans --------------------------------
(***************************************************************************)
(* Spans and tasks: their ids, the context they inherit, the registry of   *)
(* completed ones (src/core/span.core.ts, span.api.ts, task.api.ts) and    *)
(* the callback scaffold of src/core/context.core.ts.                      *)
(*                                                                         *)
(* A callback runs in the async context of its span, and code it started   *)
(* stays in that context when the span has ended.  Ids are counters modulo *)
(* IdSpace (65536 in the code); n is the true identity of a span.  A span  *)
(* may be given its parent and its trace explicitly: those of a span of    *)
(* this process or of one of another process, whose ids (of a traceparent  *)
(* header) have another form than the ids made here.                       *)
(***************************************************************************)
EXTENDS Naturals, FiniteSets, Sequences, SequencesExt, RingBuffer, Lists

CONSTANTS IdSpace,       \* 65536
          SpanCapacity,  \* capacity of the registry
          MaxSpans,      \* bound: spans that are started
          MaxGiven       \* bound: those that are given ids, not both of one context

ASSUME SpansAssumption == {IdSpace, SpanCapacity, MaxSpans} \subseteq Nat \ {0} /\ MaxGiven \in Nat

NoId == IdSpace             \* undefined
ForeignId == IdSpace + 1    \* an id of another process
Abroad == MaxSpans + 1      \* the span, or its trace, of another process

VARIABLES spanCounter, traceCounter,
          spans,      \* sequence of the spans started; see NewSpan
          registry,   \* ring of the numbers of the completed spans
          records     \* history: how often each span was recorded

spanVars == <<spanCounter, traceCounter, spans, registry, records>>

SpansInit == /\ spanCounter = 0 /\ traceCounter = 0 /\ spans = <<>>
             /\ registry = NewRing(SpanCapacity) /\ records = <<>>

IdOf(p) == CASE p = 0 -> NoId [] p = Abroad -> ForeignId [] OTHER -> spans[p].id
TraceOf(p) == CASE p = 0 -> (traceCounter + 1) % IdSpace
                [] p = Abroad -> ForeignId
                [] OTHER -> spans[p].traceId

\* inheritSpanContext(): the parent and the trace that were given, or else those
\* of the context; 0 is nothing given, the context of no span, and a new trace.
Inherit(ctx, parent, trace) ==
    LET under == IF parent # 0 THEN parent ELSE ctx
        in == IF trace # 0 THEN trace ELSE ctx
    IN  [parent |-> under, parentId |-> IdOf(under), id |-> (spanCounter + 1) % IdSpace,
         trace |-> in, traceId |-> TraceOf(in), open |-> TRUE]

Given == {n \in DOMAIN spans : spans[n].parent # spans[n].trace \/ spans[n].parent = Abroad}

\* span() and task(), in the context of any span whose callback was started; a
\* task is given nothing.
StartSpan(ctx, parent, trace) ==
    /\ Len(spans) < MaxSpans
    /\ spans' = Append(spans, Inherit(ctx, parent, trace)) /\ records' = Append(records, 0)
    /\ spanCounter' = spanCounter + 1
    /\ traceCounter' = IF ctx = 0 /\ trace = 0 THEN traceCounter + 1 ELSE traceCounter
    /\ Cardinality(Given') <= MaxGiven
    /\ UNCHANGED registry

\* end(), done(), fail() or the end of the callback: the first one counts.
EndSpan(n) ==
    /\ spans[n].open
    /\ spans' = [spans EXCEPT ![n].open = FALSE]
    /\ registry' = RingPush(registry, n) /\ records' = [records EXCEPT ![n] = @ + 1]
    /\ UNCHANGED <<spanCounter, traceCounter>>

Givable == 0 .. Len(spans) \cup {Abroad}

SpansNext == \/ \E ctx \in 0 .. Len(spans), parent, trace \in Givable : StartSpan(ctx, parent, trace)
             \/ \E n \in DOMAIN spans : EndSpan(n)

SpansSpec == SpansInit /\ [][SpansNext]_spanVars

-----------------------------------------------------------------------------
(* treeForTrace()                                                          *)

Recorded == ToSet(RingArray(registry))
ForTrace(trace) ==
    Among(RingArray(registry), {n \in DOMAIN spans : spans[n].traceId = trace})

\* The node of an id: that of its last record; 0 when there is none.
NodeOf(trace, id) ==
    LET same == Among(ForTrace(trace), {n \in DOMAIN spans : spans[n].id = id})
    IN  IF same = <<>> THEN 0 ELSE Last(same)

\* Mutant of Roots: a span whose parent is not completed is left out.
RootsNoOrphans(trace) == {NodeOf(trace, spans[n].id) :
    n \in {m \in ToSet(ForTrace(trace)) : spans[m].parentId = NoId}}

\* A span without a parent, or whose parent is not in the registry, is a root.
Roots(trace) == {NodeOf(trace, spans[n].id) :
    n \in {m \in ToSet(ForTrace(trace)) :
             spans[m].parentId = NoId \/ NodeOf(trace, spans[m].parentId) = 0}}

Children(trace, node) == {NodeOf(trace, spans[n].id) :
    n \in {m \in ToSet(ForTrace(trace)) :
             spans[m].parentId # NoId /\ NodeOf(trace, spans[m].parentId) = node}}

WithChildren(trace, nodes) == nodes \cup UNION {Children(trace, n) : n \in nodes}

\* The nodes that a rendering of the tree reaches in at most d steps.
Reached(trace) ==
    LET within[d \in 0 .. MaxSpans] ==
            IF d = 0 THEN Roots(trace) ELSE WithChildren(trace, within[d - 1])
    IN  within[MaxSpans]

-----------------------------------------------------------------------------
(* Properties.                                                             *)

\* Ids have the width of their hex form, and a parent is started before its child.
SpansTypeOK == /\ spanCounter = Len(spans) /\ Len(records) = Len(spans)
               /\ registry.count <= SpanCapacity
               /\ \A n \in DOMAIN spans :
                    spans[n].id < IdSpace /\ spans[n].parent \in 0 .. n - 1 \cup {Abroad}

\* A span is recorded once, however often it is ended, and only when ended; the
\* registry holds the last ones that were.
RecordedOnce ==
    /\ \A n \in DOMAIN spans : records[n] = IF spans[n].open THEN 0 ELSE 1
    /\ Cardinality(Recorded) = registry.count

\* The spans in the registry and their parents were started less than IdSpace
\* spans apart, although the ids may have wrapped around since.
Mentioned == Recorded \cup {n \in DOMAIN spans : \E m \in Recorded : spans[m].parent = n}
CloseTogether == \A m, n \in Mentioned : m < n + IdSpace

\* Then the tree of a trace shows every completed span of the registry, the
\* children of open, evicted and foreign spans too.
TreeIsComplete ==
    CloseTogether => \A n \in Recorded : n \in Reached(spans[n].traceId)

\* Then spans are nested in the tree as they were in the program, or as they were
\* told to be, but for a parent in another trace.  And two traces that were begun
\* less than IdSpace spans apart have different ids.
TreeIsNesting ==
    /\ CloseTogether =>
         \A m, n \in Recorded :
           n \in Children(spans[n].traceId, m) <=>
             spans[n].parent = m /\ spans[n].traceId = spans[m].traceId
    /\ \A m, n \in DOMAIN spans :
         m < n /\ n < m + IdSpace /\ spans[m].trace = 0 /\ spans[n].trace = 0
           => spans[m].traceId # spans[n].traceId

\* The registry and the trees built from it show the spans as they were.
TreesTellSpans == SpansTypeOK /\ RecordedOnce /\ TreeIsComplete /\ TreeIsNesting
=============================================================================
