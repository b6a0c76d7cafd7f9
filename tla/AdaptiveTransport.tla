-------------------------- MODULE AdaptiveTransport --------------------------
(***************************************************************************)
(* The adaptive transport (src/writer/adaptive.writer.ts) around the repeat*)
(* transport, the way buildTransports (src/writer/factory.writer.ts) nests *)
(* them.  performance.now() is a counter; the window and the cooldown are  *)
(* looked at only when something is written, as in the code.               *)
(***************************************************************************)
EXTENDS RepeatTransport, FiniteSets, FiniteSetsExt

CONSTANTS Errors, Verbose,   \* keys of level error or fatal; of debug, info, trace
          ErrorRate, WindowMs, CooldownMs,
          MaxGroups,         \* the 500 of the constructor
          MaxBatch, MaxWritten, MaxClock   \* bounds of the model

ASSUME AdaptiveAssumption ==
    /\ Errors \subseteq Keys /\ Verbose \subseteq Keys \ Errors /\ Notice \notin Keys
    /\ MaxGroups \in Nat \ {0}
    /\ {ErrorRate, WindowMs, CooldownMs, MaxBatch, MaxWritten, MaxClock} \subseteq Nat

VARIABLES clock,
          written,        \* history: of a key, the entries written
          repeat,         \* the wrapped repeat transport
          errors,         \* this.errors: times of errors in the window
          throttled,
          cooldownStart,  \* None when null
          storm,          \* this.groups
          dropped         \* history: of a key, the entries of a storm never shown

adaptiveVars == <<clock, written, repeat, errors, throttled, cooldownStart, storm, dropped>>

AdaptiveInit ==
    /\ clock = 0 /\ written = [k \in Keys |-> 0] /\ repeat = FreshRepeat
    /\ errors = <<>> /\ throttled = FALSE /\ cooldownStart = MaxClock + 1
    /\ storm = NoGroups /\ dropped = [k \in Keys |-> 0]

-----------------------------------------------------------------------------
(* observe() and the routing of a batch.                                   *)

None == MaxClock + 1
CountOf(batch, k) == Total([i \in DOMAIN batch |-> IF batch[i] = k THEN 1 ELSE 0])

\* The errors of the window, those of this batch included.
Observed(batch) ==
    SelectSeq(errors, LAMBDA t : t + WindowMs >= clock)
      \o [i \in 1 .. Cardinality({j \in DOMAIN batch : batch[j] \in Errors}) |-> clock]

StormStarts(errs) == ~throttled /\ Len(errs) >= ErrorRate

\* The cooldown runs from the first write below the rate.
Cooling(errs) == IF Len(errs) >= ErrorRate THEN None
                 ELSE IF cooldownStart = None THEN clock ELSE cooldownStart
StormEnds(errs) ==
    throttled /\ Cooling(errs) # None /\ clock - Cooling(errs) >= CooldownMs

\* flushGroupSummaries(): groups of one entry are dropped.
Counted(groups) == Among(groups, {g \in ToSet(groups) : g.count > 1})
Summaries(gc) == [i \in DOMAIN Counted(gc.groups) |->
                    Message(Counted(gc.groups)[i].key, Counted(gc.groups)[i].count)]

\* The entries of key k that groups stand for.
Grouped(groups, k) ==
    Total([i \in DOMAIN groups |-> IF groups[i].key = k THEN groups[i].count ELSE 0])
Single(gc, k) == Grouped(Among(gc.groups, {g \in ToSet(gc.groups) : g.count <= 1}), k)

\* The batch is written as it is: no storm, or one that starts with it.
AsIs(errs) == ~throttled \/ StormEnds(errs)

Arrive(batch) ==
    /\ MapThenSumSet(LAMBDA k : written[k], Keys) + Len(batch) <= MaxWritten
    /\ written' = [k \in Keys |-> written[k] + CountOf(batch, k)]
    /\ errors' = Observed(batch)
    /\ UNCHANGED clock

Messages(batch) == [i \in DOMAIN batch |-> Message(batch[i], 1)]

\* Mutant of WriteAsIs: the groups of the storm wait for the next one.
WriteAsIsKeeps(batch) ==
    LET errs == Observed(batch)
        ends == StormEnds(errs)
        first == IF ends \/ StormStarts(errs) THEN <<Message(Notice, 1)>> ELSE <<>>
    IN  /\ Arrive(batch) /\ AsIs(errs)
        /\ repeat' = PushAll(repeat, first \o Messages(batch))
        /\ throttled' = StormStarts(errs) /\ cooldownStart' = None
        /\ UNCHANGED <<dropped, storm>>

\* write() or writeBatch() outside a storm, at its start or at its end: the
\* notice and the summaries of a storm that ends come first.
WriteAsIs(batch) ==
    LET errs == Observed(batch)
        ends == StormEnds(errs)
        first == (IF ends THEN Summaries(storm) ELSE <<>>)
                   \o (IF ends \/ StormStarts(errs) THEN <<Message(Notice, 1)>> ELSE <<>>)
    IN  /\ Arrive(batch) /\ AsIs(errs)
        /\ repeat' = PushAll(repeat, first \o Messages(batch))
        /\ throttled' = StormStarts(errs) /\ cooldownStart' = None
        /\ IF ends THEN /\ storm' = Drain(storm)
                        /\ dropped' = [k \in Keys |-> dropped[k] + Single(storm, k)]
                   ELSE UNCHANGED <<dropped, storm>>

\* groupError(): the error joins its group, or starts one, which may evict
\* another, and nobody is told.
GroupError(s, k) ==
    IF Has(s.storm.groups, k) THEN [s EXCEPT !.storm = Absorb(@, k)]
    ELSE [s EXCEPT !.storm = Start(@, k, MaxGroups),
                   !.dropped = [key \in Keys |->
                      @[key] + Grouped(Evicted(s.storm, k, MaxGroups), key)]]

\* One entry during a storm: grouped, sampled out or passed on.
Route(s, k, out) ==
    IF k \in Errors THEN GroupError(s, k)
    ELSE IF out THEN [s EXCEPT !.dropped[k] = @ + 1]
    ELSE [s EXCEPT !.repeat = PushRepeat(@, Message(k, 1))]

Routed(batch, sampledOut) ==
    LET routed[i \in 0 .. Len(batch)] ==
            IF i = 0 THEN [repeat |-> repeat, storm |-> storm, dropped |-> dropped]
            ELSE Route(routed[i - 1], batch[i], i \in sampledOut)
    IN  routed[Len(batch)]

\* write() or writeBatch() during a storm: verbose entries are kept or not at
\* random.
WriteThrottled(batch, sampledOut) ==
    LET errs == Observed(batch)
    IN  /\ Arrive(batch) /\ ~AsIs(errs)
        /\ sampledOut \subseteq {i \in DOMAIN batch : batch[i] \in Verbose}
        /\ cooldownStart' = Cooling(errs)
        /\ LET routed == Routed(batch, sampledOut)
           IN  /\ repeat' = routed.repeat /\ storm' = routed.storm
               /\ dropped' = routed.dropped
        /\ throttled' = (throttled \/ StormStarts(errs))

-----------------------------------------------------------------------------
(* flush(), close(), timers.                                               *)

\* flush() and close(): the summaries of the storm go through the repeat
\* transport, which is then drained, or drained and closed.
Drained(after) ==
    /\ repeat' = after
    /\ storm' = Drain(storm)
    /\ dropped' = [k \in Keys |-> dropped[k] + Single(storm, k)]
    /\ UNCHANGED <<clock, written, errors, throttled, cooldownStart>>

FlushAdaptive == Drained(DrainAll(PushAll(repeat, Summaries(storm))))
CloseAdaptive == Drained(CloseRepeat(PushAll(repeat, Summaries(storm))))

WindowTimer(t) ==
    /\ t \in repeat.timers
    /\ UNCHANGED <<clock, written, errors, throttled, cooldownStart, storm, dropped>>
    /\ repeat' = WindowCloses(repeat, t)

ClockTick ==
    /\ clock < MaxClock /\ clock' = clock + 1
    /\ UNCHANGED <<written, repeat, errors, throttled, cooldownStart, storm, dropped>>

Batches == UNION {[1 .. n -> Keys] : n \in 1 .. MaxBatch}

AdaptiveNext ==
    \/ \E batch \in Batches :
         WriteAsIs(batch) \/ \E out \in SUBSET DOMAIN batch : WriteThrottled(batch, out)
    \/ FlushAdaptive \/ CloseAdaptive \/ ClockTick
    \/ \E t \in repeat.timers : WindowTimer(t)

\* Window timers fire.
AdaptiveFairness == WF_adaptiveVars(\E t \in repeat.timers : WindowTimer(t))

AdaptiveSpec == AdaptiveInit /\ [][AdaptiveNext]_adaptiveVars /\ AdaptiveFairness

-----------------------------------------------------------------------------
(* Properties.                                                             *)

\* The groups of both counters are bounded.
AdaptiveTypeOK ==
    /\ clock \in 0 .. MaxClock /\ written \in [Keys -> Nat]
    /\ throttled \in BOOLEAN /\ cooldownStart \in 0 .. None
    /\ Len(repeat.gc.groups) <= MaxKeys /\ Len(storm.groups) <= MaxGroups
    /\ dropped \in [Keys -> Nat]

\* Every entry is shown, or counted by a group that will report it, or dropped
\* by a rule of the storm, or refused after close().
EveryEntryAccounted ==
    \A k \in Keys :
        written[k] = repeat.shown[k] + Unreported(repeat, k) + repeat.lost[k]
                       + Grouped(storm.groups, k) + dropped[k]

\* A window timer belongs to an open group and to no other: no group is closed
\* early by the timer of a group of the same key that is gone.
TimersMatchGroups ==
    repeat.timers = {Timer(repeat.gc.groups[i]) : i \in DOMAIN repeat.gc.groups}

\* Groups of a storm do not outlive it: they would be reported with the next.
StormGroupsInStorm == ~throttled => storm.groups = <<>>

\* Outside a storm, at its start included, nothing is dropped.
NothingDroppedOutsideStorms ==
    [][~throttled => dropped' = dropped]_adaptiveVars

\* A batch of errors that starts a storm is written as it is, so that what
\* caused the storm can be seen.
TriggerIsVisible ==
    [][~throttled /\ throttled' => storm' = storm]_adaptiveVars

Open(n) == \E i \in DOMAIN repeat.gc.groups : repeat.gc.groups[i].id = n

\* Every repeat is reported: a group of the repeat transport is closed in the end.
RepeatsReported ==
    \A n \in 1 .. MaxWritten : Open(n) ~> ~Open(n)

\* The groups and their timers tell what was not shown, and what a storm may do
\* ends with it.
GroupsConsistent ==
    /\ [](AdaptiveTypeOK /\ EveryEntryAccounted /\ TimersMatchGroups /\ StormGroupsInStorm)
    /\ NothingDroppedOutsideStorms /\ TriggerIsVisible
=============================================================================
