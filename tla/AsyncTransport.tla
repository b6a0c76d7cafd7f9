--------------------------- MODULE AsyncTransport ---------------------------
(***************************************************************************)
(* The batching transport (src/writer/buffer.writer.ts): a bounded queue   *)
(* in front of another transport, one batch dispatched at a time           *)
(* (dispatchBatch of src/lib/transport.utils.ts), a promise per entry that *)
(* is resolved when its batch is over, and a close() that drains.          *)
(*                                                                         *)
(* An action is one synchronous run: a caller's call, a microtask, a timer *)
(* callback, or the continuation of an awaited promise.                    *)
(*                                                                         *)
(* Entries are numbers in the order of the write() calls.  A flush() call  *)
(* is the number of entries offered before it and whether its continuation *)
(* is queued; calls that agree on both take the same steps and are one.    *)
(***************************************************************************)
EXTENDS Naturals, Sequences, FiniteSets, Batching

\* BatchSize is batching.batchSize, at least 1 by the constructor.
CONSTANTS MaxQueueSize,  \* batching.maxQueueSize
          HasInterval,   \* batching.flushInterval is given
          InnerBatches,  \* the wrapped transport has a writeBatch
          MaxEntries     \* bound of the model: entries offered in a behaviour

ASSUME AsyncAssumption ==
    /\ MaxQueueSize \in Nat \ {0}   \* Math.max(1, ...) in the constructor
    /\ HasInterval \in BOOLEAN
    /\ InnerBatches \in BOOLEAN
    /\ MaxEntries \in Nat

VARIABLES offered,         \* history: write() calls
          delivered,       \* history: entries the wrapped transport took, in order
          lost,            \* history: entries of failed batches it did not take
          queue,           \* this.queue
          batch,           \* the batch of runFlush; flushPromise is null iff it is <<>>
          sent,            \* entries of the batch the per-entry loop is past
          pending,         \* this.pending
          dropped,         \* this.dropped
          transportErrors, \* this.transportErrors
          scheduled,       \* this.scheduled
          microtasks,      \* flush microtasks queued by scheduleFlush
          flushes,         \* flush() calls that have not returned
          closing          \* how far close() got

history == <<offered, delivered, lost>>
counters == <<pending, dropped, transportErrors>>
schedule == <<scheduled, microtasks>>
vars == <<history, queue, batch, sent, counters, schedule, flushes, closing>>

closed == closing # "open"

Init == /\ offered = 0 /\ delivered = <<>> /\ lost = 0
        /\ queue = <<>> /\ batch = <<>> /\ sent = 0
        /\ pending = 0 /\ dropped = 0 /\ transportErrors = 0
        /\ scheduled = FALSE /\ microtasks = 0
        /\ flushes = {} /\ closing = "open"

-----------------------------------------------------------------------------
(* Starting a batch.                                                       *)

Awaiting(n) == [upTo |-> n, resumed |-> FALSE]
Resumed(n) == [upTo |-> n, resumed |-> TRUE]

\* Mutant of RunFlush: the next batch replaces the one that is running.
RunFlushUnguarded(q) ==
    /\ batch' = HeadBatch(q)
    /\ queue' = AfterBatch(q)
    /\ sent' = 0

\* flush() up to its first await: start a batch when none is running.
RunFlush(q) ==
    IF batch = <<>>
      THEN batch' = HeadBatch(q) /\ queue' = AfterBatch(q) /\ sent' = 0
      ELSE queue' = q /\ UNCHANGED <<batch, sent>>

\* flush(), called after n entries were offered: it returns when there is
\* nothing to do, and else awaits the batch that is running.
FlushCall(q, n, others) ==
    /\ RunFlush(q)
    /\ flushes' = IF batch = <<>> /\ q = <<>> THEN others
                                              ELSE others \cup {Awaiting(n)}

\* scheduleFlush: one microtask at a time, and none while a batch is running.
ScheduleFlush(q, running) ==
    IF running \/ scheduled \/ q = <<>>
      THEN UNCHANGED schedule
      ELSE scheduled' = TRUE /\ microtasks' = microtasks + 1

-----------------------------------------------------------------------------
(* Callers, timers and microtasks.                                         *)

\* write() does not take the entry: closed, or maxQueueSize entries pending.
Full == closed \/ pending >= MaxQueueSize

WriteRefused ==
    /\ offered < MaxEntries
    /\ Full
    /\ offered' = offered + 1
    /\ dropped' = dropped + 1
    /\ UNCHANGED <<delivered, lost, queue, batch, sent, pending, transportErrors,
                   schedule, flushes, closing>>

\* write() queues the entry; a full batch or a flushOn level flushes at once.
WriteQueued(urgent) ==
    /\ offered < MaxEntries
    /\ ~Full
    /\ offered' = offered + 1
    /\ pending' = pending + 1
    /\ LET q == Append(queue, offered + 1)
       IN  IF Len(q) >= BatchSize \/ urgent
             THEN FlushCall(q, offered + 1, flushes) /\ UNCHANGED schedule
             ELSE /\ queue' = q
                  /\ ScheduleFlush(q, batch # <<>>)
                  /\ UNCHANGED <<batch, sent, flushes>>
    /\ UNCHANGED <<delivered, lost, dropped, transportErrors, closing>>

\* Mutant of Microtask: the flag that one is queued stays set.
MicrotaskKeepsFlag ==
    /\ microtasks > 0
    /\ microtasks' = microtasks - 1
    /\ FlushCall(queue, offered, flushes)
    /\ UNCHANGED <<history, counters, scheduled, closing>>

\* The microtask of scheduleFlush.
Microtask ==
    /\ microtasks > 0
    /\ microtasks' = microtasks - 1
    /\ scheduled' = FALSE
    /\ FlushCall(queue, offered, flushes)
    /\ UNCHANGED <<history, counters, closing>>

\* The flush interval, stopped by finishClose.
IntervalTick ==
    /\ HasInterval /\ ~closed
    /\ FlushCall(queue, offered, flushes)
    /\ UNCHANGED <<history, counters, schedule, closing>>

\* flush() by a caller, after close() too.
Flush ==
    /\ FlushCall(queue, offered, flushes)
    /\ UNCHANGED <<history, counters, schedule, closing>>

\* Mutant of FlushResumes: flush() returns after the first batch.
FlushResumesOnce(n) ==
    /\ Resumed(n) \in flushes
    /\ flushes' = flushes \ {Resumed(n)}
    /\ UNCHANGED <<history, queue, batch, sent, counters, schedule, closing>>

\* flush() goes on after the batch it awaited: it calls itself.
FlushResumes(n) ==
    /\ Resumed(n) \in flushes
    /\ FlushCall(queue, n, flushes \ {Resumed(n)})
    /\ UNCHANGED <<history, counters, schedule, closing>>

-----------------------------------------------------------------------------
(* The wrapped transport and the end of a batch.                           *)

\* What the batch still has to hand over.
Rest == SubSeq(batch, sent + 1, Len(batch))

\* Mutant of Settle: close() is not woken.
SettleUnnoticed ==
    /\ pending' = pending - Len(batch)
    /\ batch' = <<>> /\ sent' = 0
    /\ flushes' = {Resumed(f.upTo) : f \in flushes}
    /\ UNCHANGED closing
    /\ ScheduleFlush(queue, FALSE)

\* runFlush after the drain: free the places, resolve the writes of the batch,
\* wake everyone who awaits flushPromise, and schedule what came in meanwhile.
Settle ==
    /\ pending' = pending - Len(batch)
    /\ batch' = <<>> /\ sent' = 0
    /\ flushes' = {Resumed(f.upTo) : f \in flushes}
    /\ closing' = IF closing = "waiting" THEN "resumed" ELSE closing
    /\ ScheduleFlush(queue, FALSE)

\* dispatchBatch without a writeBatch: one more entry written, not the last.
EntryWritten ==
    /\ ~InnerBatches /\ sent + 1 < Len(batch)
    /\ sent' = sent + 1
    /\ delivered' = Append(delivered, batch[sent + 1])
    /\ UNCHANGED <<offered, lost, queue, batch, counters, schedule, flushes, closing>>

\* The last entry, or the whole batch, is written.
BatchWritten ==
    /\ batch # <<>>
    /\ InnerBatches \/ sent + 1 = Len(batch)
    /\ delivered' = delivered \o Rest
    /\ Settle
    /\ UNCHANGED <<offered, lost, queue, dropped, transportErrors>>

\* Mutant of BatchFails: the failed batch goes back into the queue.
BatchFailsRequeued ==
    /\ batch # <<>>
    /\ transportErrors' = transportErrors + 1
    /\ Settle
    /\ queue' = queue \o Rest
    /\ UNCHANGED <<offered, delivered, lost, dropped>>

\* The wrapped transport throws or rejects: the rest of the batch is not tried.
BatchFails ==
    /\ batch # <<>>
    /\ transportErrors' = transportErrors + 1
    /\ lost' = lost + Len(Rest)
    /\ Settle
    /\ UNCHANGED <<offered, delivered, queue, dropped>>

-----------------------------------------------------------------------------
(* Shutdown.                                                               *)

\* Mutant of WaitForFlushes: it awaits the running batch and does not look again.
WaitForFlushesOnce ==
    \/ /\ batch # <<>> /\ closing = "open"
       /\ closing' = "waiting"
       /\ UNCHANGED <<queue, batch, sent, flushes>>
    \/ /\ batch = <<>> \/ closing # "open"
       /\ closing' = "drained"
       /\ UNCHANGED <<queue, batch, sent, flushes>>

\* waitForFlushes up to its next await.
WaitForFlushes ==
    \/ /\ batch # <<>>
       /\ closing' = "waiting"
       /\ UNCHANGED <<queue, batch, sent, flushes>>
    \/ /\ batch = <<>> /\ queue # <<>>
       /\ FlushCall(queue, offered, flushes)
       /\ closing' = "waiting"
    \/ /\ batch = <<>> /\ queue = <<>>
       /\ closing' = "drained"
       /\ UNCHANGED <<queue, batch, sent, flushes>>

\* close(), the first call: finishClose up to its first await.
Close ==
    /\ ~closed
    /\ scheduled' = FALSE
    /\ WaitForFlushes
    /\ UNCHANGED <<history, counters, microtasks>>

\* waitForFlushes goes on after the batch it awaited.
CloseResumes ==
    /\ closing = "resumed"
    /\ WaitForFlushes
    /\ UNCHANGED <<history, counters, schedule>>

\* Everything is drained: close the wrapped transport.
CloseInner ==
    /\ closing = "drained"
    /\ closing' = "closed"
    /\ UNCHANGED <<history, queue, batch, sent, counters, schedule, flushes>>

Next == \/ WriteRefused \/ \E urgent \in BOOLEAN : WriteQueued(urgent)
        \/ Microtask \/ IntervalTick \/ Flush
        \/ \E f \in flushes : FlushResumes(f.upTo)
        \/ EntryWritten \/ BatchWritten \/ BatchFails
        \/ Close \/ CloseResumes \/ CloseInner

Spec == Init /\ [][Next]_vars

\* The wrapped transport settles what it was given, one way or the other.
InnerSettles == EntryWritten \/ BatchWritten \/ BatchFails

\* Microtasks and continuations run, and the wrapped transport settles.  No
\* caller has to flush and no interval has to be set.
Fairness == /\ WF_vars(Microtask)
            /\ WF_vars(\E f \in flushes : FlushResumes(f.upTo))
            /\ WF_vars(InnerSettles)
            /\ WF_vars(CloseResumes) /\ WF_vars(CloseInner)

FairSpec == Spec /\ Fairness

-----------------------------------------------------------------------------
(* Correctness.                                                            *)

Phases == {"open", "waiting", "resumed", "drained", "closed"}

DataOK == /\ offered \in Nat /\ delivered \in Seq(Nat) /\ lost \in Nat
          /\ queue \in Seq(Nat) /\ batch \in Seq(Nat) /\ sent \in Nat
          /\ pending \in Nat /\ dropped \in Nat /\ transportErrors \in Nat
          /\ microtasks \in Nat

FlagsOK == /\ scheduled \in BOOLEAN
           /\ flushes \subseteq [upTo : Nat, resumed : BOOLEAN]
           /\ closing \in Phases

\* Every variable stays in the range the code gives it.
TypeOK == DataOK /\ FlagsOK

\* The entries taken and not settled, oldest first.
Waiting == Rest \o queue

Increasing(s) == \A i, j \in 1 .. Len(s) : i < j => s[i] < s[j]

\* The wrapped transport gets the entries in the order of the write() calls,
\* each at most once, whichever of the flush() calls took their batch.
StrictFifo == Increasing(delivered \o Waiting)

\* maxQueueSize bounds the entries taken and not settled, those of the running
\* batch included, and the counter behind stats().queued says how many they are.
QueueBounded == /\ pending = Len(batch) + Len(queue)
                /\ pending <= MaxQueueSize

\* An entry is taken by the wrapped transport, waiting, counted as dropped or
\* part of a failed batch, and in only one of these.
Accounting == offered = Len(delivered) + Len(Waiting) + dropped + lost

\* Entries of failed batches leave a trace: transportErrors tells how many
\* batches of at most batchSize entries they were in.
LossesReported == lost <= transportErrors * BatchSize

\* Nobody sleeps through a wake-up: entries in the queue have a batch running
\* or a microtask or a continuation queued that will start one, and whoever
\* awaits flushPromise awaits a batch that is running.
QueueIsWatched ==
    /\ queue # <<>> =>
          \/ batch # <<>> \/ microtasks > 0 \/ closing = "resumed"
          \/ \E f \in flushes : f.resumed
    /\ closing = "waiting" => batch # <<>>
    /\ \A f \in flushes : ~f.resumed => batch # <<>>

\* A flush call returns to its caller only when every entry offered before the
\* call is settled.
FlushSettlesAll ==
    [][\A f \in flushes :
          (\A g \in flushes' : g.upTo # f.upTo) =>
              \A i \in 1 .. Len(Waiting') : Waiting'[i] > f.upTo]_vars

\* The wrapped transport is closed only after the last batch: no microtask and
\* no flush() that is still going on can write to it afterwards.
InnerClosedLast == closing \in {"drained", "closed"} => batch = <<>> /\ queue = <<>>

\* The batching transport is a FIFO queue that loses what it counts, and what
\* the wrapped transport loses.
Abstract == INSTANCE DeliveryQueue WITH waiting <- Waiting, dropped <- dropped + lost
ImplementsQueue == Abstract!Spec

\* The promise of every write is resolved, with no further call by anybody.
WritesSettle == pending > 0 ~> pending = 0

\* close() completes whether the batches fail or not.
CloseCompletes == closed ~> closing = "closed"

\* Every entry is accounted for, those of failed batches by the errors counted,
\* and the counter that maxQueueSize bounds tells how many are not settled.
BooksKept == TypeOK /\ Accounting /\ QueueBounded /\ LossesReported

\* Nobody waits for ever: neither write() nor close().
CallsSettle == WritesSettle /\ CloseCompletes
=============================================================================
