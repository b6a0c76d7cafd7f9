------------------------- MODULE DatabaseTransport -------------------------
(***************************************************************************)
(* The self-healing database transport (src/writer/database.writer.ts):    *)
(* a FIFO buffer, one adapter write in flight, backoff between attempts,   *)
(* an adapter rebuild loop after an exhausted outage, and a close() that   *)
(* drains without ever waiting on a dying adapter.                         *)
(*                                                                         *)
(* JavaScript runs one callback at a time, so an action is one synchronous *)
(* run: a caller's write()/flush()/close(), a timer callback, the          *)
(* continuation of an awaited adapter write, factory call or close.        *)
(* Whatever happens between two of them is an interleaving of actions.     *)
(*                                                                         *)
(* Entries are numbers in the order write() let them past its level guard. *)
(***************************************************************************)
EXTENDS Naturals, Sequences, FiniteSets, Batching

\* BatchSize is settings.maxBufferSize, at least 1 by the constructor.
CONSTANTS BacklogCap,     \* RECOVERY_BACKLOG_CAP
          Retrying,       \* settings.retry is given
          RetryAttempts,  \* retry.attempts
          HasFactory,     \* settings.createAdapter is given
          ReconnectMax,   \* reconnect.maxAttempts
          MaxEntries,     \* bound of the model: entries offered in a behaviour
          MaxPending      \* bound of the model: factory calls awaited at a time

ASSUME SettingsAssumption ==
    /\ BacklogCap \in Nat \ {0}
    /\ Retrying \in BOOLEAN
    /\ RetryAttempts \in Nat \ {0}   \* Math.max(1, ...) in resolveRetry
    /\ HasFactory \in BOOLEAN
    /\ ReconnectMax \in Nat \ {0}    \* Math.max(1, ...) in the constructor
    /\ MaxEntries \in Nat
    /\ MaxPending \in Nat \ {0}

VARIABLES offered,          \* history: entries that passed the guards of write()
          delivered,        \* history: entries of acknowledged writes, in order
          buffer,           \* this.buffer
          inflight,         \* adapter writes awaited by writeNext
          dropped,          \* this.dropped
          adapterClosed,    \* history: close() was called on this.adapter
          retryAttempt,     \* this.retryAttempt
          backoff,          \* Date.now() < this.retryDueAt
          retryTimer,       \* this.retryTimer is armed
          recovering,       \* this.recovering
          reconnectAttempt, \* this.reconnectAttempt
          reconnectTimer,   \* this.reconnectTimer is armed
          rebuilding,       \* attemptReconnect calls awaiting the factory
          closing,          \* how far close() got
          closeRetryUsed,   \* this.closeRetryUsed
          retryQueued       \* the microtask of the close-time retry is queued

history == <<offered, delivered>>
queue == <<buffer, inflight>>
backoffVars == <<retryAttempt, backoff, retryTimer>>
recovery == <<recovering, reconnectAttempt, reconnectTimer, rebuilding>>
shutdown == <<closing, closeRetryUsed, retryQueued>>
vars == <<history, queue, dropped, adapterClosed, backoffVars, recovery, shutdown>>

closed == closing # "open"

Init == /\ offered = 0 /\ delivered = <<>>
        /\ buffer = <<>> /\ inflight = {} /\ dropped = 0
        /\ adapterClosed = FALSE
        /\ retryAttempt = 0 /\ backoff = FALSE /\ retryTimer = FALSE
        /\ recovering = FALSE /\ reconnectAttempt = 0
        /\ reconnectTimer = FALSE /\ rebuilding = 0
        /\ closing = "open" /\ closeRetryUsed = FALSE /\ retryQueued = FALSE

-----------------------------------------------------------------------------
(* The queue and the single write in flight.                               *)

\* Mutant of Requeue: the failed batch rejoins the queue at its tail.
RequeueAtTail(batch, buf) == buf \o batch

\* buffer.unshift(...batch): a failed batch stays at the head of the queue.
Requeue(batch, buf) == batch \o buf

\* Mutant of IdlePhase: nobody resolves the waiter.
IdlePhaseUnnotified(writes, phase) == phase

\* notifyIdle: resolve the waiter of finishClose, the only one there is.
IdlePhase(writes, phase) ==
    IF phase = "draining" /\ writes = {} THEN "drained" ELSE phase

\* The guards of pump(): a write in flight, the reconnect cooldown, the backoff.
Blocked(buf, writes, wait, cooldown) ==
    \/ writes # {}
    \/ cooldown
    \/ buf # <<>> /\ wait

\* pump(), reading the values its caller has assigned so far.
Pump(buf, writes, wait, cooldown, phase) ==
    \/ /\ Blocked(buf, writes, wait, cooldown)
       /\ buffer' = buf
       /\ inflight' = writes
       /\ closing' = phase
    \/ /\ ~Blocked(buf, writes, wait, cooldown)
       /\ buf = <<>>
       /\ buffer' = buf
       /\ inflight' = writes
       /\ closing' = IdlePhase(writes, phase)
    \/ /\ ~Blocked(buf, writes, wait, cooldown)
       /\ buf # <<>>
       /\ buffer' = AfterBatch(buf)
       /\ inflight' = writes \cup {HeadBatch(buf)}
       /\ closing' = phase

\* A pump() whose caller has changed nothing.
PumpNow == Pump(buffer, inflight, backoff, reconnectTimer, closing)

ResetRetry == /\ retryAttempt' = 0
              /\ backoff' = FALSE
              /\ retryTimer' = FALSE

-----------------------------------------------------------------------------
(* Callers and the flush interval.                                         *)

\* write() while the backlog of a recovery is at its cap: counted, not queued.
WriteRefused ==
    /\ ~closed /\ offered < MaxEntries
    /\ recovering /\ Len(buffer) >= BacklogCap
    /\ offered' = offered + 1
    /\ dropped' = dropped + 1
    /\ UNCHANGED <<delivered, queue, adapterClosed, backoffVars, recovery, shutdown>>

\* write() that queues the entry and pumps when a batch is full.
WriteQueued ==
    /\ ~closed /\ offered < MaxEntries
    /\ ~(recovering /\ Len(buffer) >= BacklogCap)
    /\ offered' = offered + 1
    /\ LET buf == Append(buffer, offered + 1)
       IN  IF Len(buf) >= BatchSize
             THEN Pump(buf, inflight, backoff, reconnectTimer, closing)
             ELSE buffer' = buf /\ UNCHANGED <<inflight, closing>>
    /\ UNCHANGED <<delivered, dropped, adapterClosed, backoffVars, recovery,
                   closeRetryUsed, retryQueued>>

\* The flush interval, stopped by finishClose.
IntervalTick ==
    /\ ~closed
    /\ PumpNow
    /\ UNCHANGED <<history, dropped, adapterClosed, backoffVars, recovery,
                   closeRetryUsed, retryQueued>>

\* flush(): a delivery pass at any time, after close() too.
Flush ==
    /\ PumpNow
    /\ UNCHANGED <<history, dropped, adapterClosed, backoffVars, recovery,
                   closeRetryUsed, retryQueued>>

-----------------------------------------------------------------------------
(* Backoff and rebuild.                                                    *)

\* Mutant of ArmRetry: the failed attempt is not counted.
ArmRetryUncounted == /\ backoff' = TRUE
                     /\ retryTimer' = TRUE
                     /\ UNCHANGED retryAttempt

\* Mutant of CapReached: one attempt too many.
CapReachedLate == retryAttempt >= RetryAttempts

\* The attempt that failed was the last one retry.attempts allows.
CapReached == retryAttempt + 1 >= RetryAttempts

\* scheduleRetry below the cap: wait for the backoff.  The timer and the clock
\* are two things: a fractional wait is truncated by setTimeout, so the timer
\* may fire while Date.now() is still short of retryDueAt.
ArmRetry == /\ retryAttempt' = retryAttempt + 1
            /\ backoff' = TRUE
            /\ retryTimer' = TRUE

RetryTimerFires ==
    /\ retryTimer
    /\ retryTimer' = FALSE
    /\ PumpNow
    /\ UNCHANGED <<history, dropped, adapterClosed, retryAttempt, backoff, recovery,
                   closeRetryUsed, retryQueued>>

\* The clock passes retryDueAt.
BackoffElapses ==
    /\ backoff
    /\ backoff' = FALSE
    /\ UNCHANGED <<history, queue, dropped, adapterClosed, retryAttempt, retryTimer,
                   recovery, shutdown>>

\* Mutant of ScheduleReconnect: the next rebuild is never scheduled.
ScheduleReconnectNot == UNCHANGED reconnectTimer

\* scheduleReconnect: (re)start the cooldown.
ScheduleReconnect == reconnectTimer' = TRUE

\* startRecovery: close the dead adapter and start the cooldown.
StartRecovery ==
    /\ recovering' = TRUE
    /\ reconnectAttempt' = 0
    /\ ScheduleReconnect
    /\ adapterClosed' = TRUE
    /\ ResetRetry
    /\ UNCHANGED rebuilding

\* failRecoveryAttempt and continueRecovery, which test the same cap: wait for
\* another rebuild, or (finishRecoveryFailure) give the whole backlog up.
FailRecoveryAttempt(backlog) ==
    \/ /\ reconnectAttempt < ReconnectMax
       /\ ScheduleReconnect
       /\ buffer' = backlog
       /\ UNCHANGED <<dropped, recovering, reconnectAttempt>>
    \/ /\ reconnectAttempt >= ReconnectMax
       /\ recovering' = FALSE
       /\ reconnectAttempt' = 0
       /\ reconnectTimer' = FALSE
       /\ buffer' = <<>>
       /\ dropped' = dropped + Len(backlog)

\* The cooldown timer calls attemptReconnect.
ReconnectTimerFires ==
    /\ reconnectTimer /\ rebuilding < MaxPending
    /\ reconnectTimer' = FALSE
    /\ IF ~closed /\ recovering
         THEN /\ reconnectAttempt' = reconnectAttempt + 1
              /\ rebuilding' = rebuilding + 1
         ELSE UNCHANGED <<reconnectAttempt, rebuilding>>
    /\ UNCHANGED <<history, queue, dropped, adapterClosed, backoffVars, recovering,
                   shutdown>>

\* The factory answers: take its adapter and probe it, unless close() came first.
FactoryOk ==
    /\ rebuilding > 0
    /\ rebuilding' = rebuilding - 1
    /\ adapterClosed' = closed
    /\ IF closed THEN UNCHANGED <<queue, closing>> ELSE PumpNow
    /\ UNCHANGED <<history, dropped, backoffVars, recovering, reconnectAttempt,
                   reconnectTimer, closeRetryUsed, retryQueued>>

\* The factory throws.
FactoryFail ==
    /\ rebuilding > 0
    /\ rebuilding' = rebuilding - 1
    /\ IF closed
         THEN UNCHANGED <<buffer, dropped, recovering, reconnectAttempt, reconnectTimer>>
         ELSE FailRecoveryAttempt(buffer)
    /\ UNCHANGED <<history, inflight, adapterClosed, backoffVars, shutdown>>

-----------------------------------------------------------------------------
(* The continuation of an awaited adapter write.                           *)

\* The adapter stored the batch: a recovery is over, and the drain goes on.
WriteOk(w) ==
    /\ w \in inflight
    /\ delivered' = delivered \o w
    /\ recovering' = FALSE
    /\ reconnectAttempt' = IF recovering THEN 0 ELSE reconnectAttempt
    /\ ResetRetry
    /\ Pump(buffer, inflight \ {w}, FALSE, reconnectTimer, closing)
    /\ UNCHANGED <<offered, dropped, adapterClosed, reconnectTimer, rebuilding,
                   closeRetryUsed, retryQueued>>

\* Mutant of SecondPassLeft: a closing transport gives up at its first failure.
SecondPassNever == FALSE

\* A closing transport has not used its one full retry pass.
SecondPassLeft == closed /\ ~closeRetryUsed

\* The first failure of a closing transport: one more pass, in a microtask.
WriteFailClosing(w) ==
    /\ SecondPassLeft
    /\ closeRetryUsed' = TRUE
    /\ retryQueued' = TRUE
    /\ buffer' = Requeue(w, buffer)
    /\ UNCHANGED <<dropped, adapterClosed, backoffVars, recovery, closing>>

\* A later failure of a closing transport: leave the rest, and let close() end.
WriteFailClosed(w) ==
    /\ closed /\ ~SecondPassLeft
    /\ buffer' = Requeue(w, buffer)
    /\ closing' = IdlePhase(inflight \ {w}, closing)
    /\ UNCHANGED <<dropped, adapterClosed, backoffVars, recovery, closeRetryUsed, retryQueued>>

\* A failure during a recovery: the outage goes on.
WriteFailRecovering(w) ==
    /\ ~closed /\ recovering /\ HasFactory
    /\ FailRecoveryAttempt(Requeue(w, buffer))
    /\ UNCHANGED <<adapterClosed, backoffVars, rebuilding, shutdown>>

\* The cap of a transport without factory drops one batch from the head.
DropHead(queued) == /\ dropped' = dropped + BatchLen(queued)
                    /\ buffer' = AfterBatch(queued)

\* scheduleRetry: back off, or at the cap rebuild the adapter, or drop a batch.
ScheduleRetry(queued) ==
    \/ /\ ~CapReached
       /\ ArmRetry
       /\ buffer' = queued
       /\ UNCHANGED <<dropped, adapterClosed, recovery>>
    \/ /\ CapReached
       /\ HasFactory
       /\ StartRecovery
       /\ buffer' = queued
       /\ UNCHANGED dropped
    \/ /\ CapReached
       /\ ~HasFactory
       /\ DropHead(queued)
       /\ ResetRetry
       /\ UNCHANGED <<adapterClosed, recovery>>

\* A failure outside a recovery: without retry the next trigger tries again.
WriteFailOpen(w) ==
    /\ ~closed /\ ~(recovering /\ HasFactory)
    /\ IF Retrying
         THEN ScheduleRetry(Requeue(w, buffer))
         ELSE /\ buffer' = Requeue(w, buffer)
              /\ UNCHANGED <<dropped, adapterClosed, backoffVars, recovery>>
    /\ UNCHANGED shutdown

\* The adapter rejected the batch: it goes back to the head of the queue.
WriteFail(w) ==
    /\ w \in inflight
    /\ inflight' = inflight \ {w}
    /\ UNCHANGED history
    /\ \/ WriteFailClosing(w)
       \/ WriteFailClosed(w)
       \/ WriteFailRecovering(w)
       \/ WriteFailOpen(w)

-----------------------------------------------------------------------------
(* Shutdown.                                                               *)

\* close(), the first call: stop every wait and start the final drain.
Close ==
    /\ ~closed
    /\ recovering' = FALSE
    /\ reconnectTimer' = FALSE
    /\ ResetRetry
    /\ closeRetryUsed' = FALSE
    /\ Pump(buffer, inflight, FALSE, FALSE, "draining")
    /\ UNCHANGED <<history, dropped, adapterClosed, reconnectAttempt, rebuilding,
                   retryQueued>>

\* The microtask queued by the first failure of a closing transport.
CloseRetry ==
    /\ retryQueued
    /\ retryQueued' = FALSE
    /\ PumpNow
    /\ UNCHANGED <<history, dropped, adapterClosed, backoffVars, recovery, closeRetryUsed>>

\* finishClose continues: the current adapter is closed.
CloseAdapter ==
    /\ closing = "drained"
    /\ closing' = "closed"
    /\ adapterClosed' = TRUE
    /\ UNCHANGED <<history, queue, dropped, backoffVars, recovery,
                   closeRetryUsed, retryQueued>>

Next == \/ WriteQueued \/ WriteRefused \/ IntervalTick \/ Flush \/ Close
        \/ \E w \in inflight : WriteOk(w) \/ WriteFail(w)
        \/ RetryTimerFires \/ BackoffElapses
        \/ ReconnectTimerFires \/ FactoryOk \/ FactoryFail
        \/ CloseRetry \/ CloseAdapter

Spec == Init /\ [][Next]_vars

\* An awaited adapter write or factory call settles one way or the other.
WriteSettles == \E w \in inflight : WriteOk(w) \/ WriteFail(w)
FactorySettles == FactoryOk \/ FactoryFail

\* Timers, microtasks and the clock go on, and awaited calls settle.
Fairness == /\ WF_vars(IntervalTick) /\ WF_vars(WriteSettles)
            /\ WF_vars(BackoffElapses) /\ WF_vars(RetryTimerFires)
            /\ WF_vars(ReconnectTimerFires) /\ WF_vars(FactorySettles)
            /\ WF_vars(CloseRetry) /\ WF_vars(CloseAdapter)

FairSpec == Spec /\ Fairness

-----------------------------------------------------------------------------
(* Correctness.                                                            *)

Phases == {"open", "draining", "drained", "closed"}

FlagsOK == /\ adapterClosed \in BOOLEAN
           /\ backoff \in BOOLEAN /\ retryTimer \in BOOLEAN
           /\ recovering \in BOOLEAN /\ reconnectTimer \in BOOLEAN
           /\ closeRetryUsed \in BOOLEAN /\ retryQueued \in BOOLEAN

DataOK == /\ offered \in Nat /\ delivered \in Seq(Nat)
          /\ buffer \in Seq(Nat) /\ inflight \in SUBSET Seq(Nat)
          /\ dropped \in Nat /\ closing \in Phases
          /\ retryAttempt \in Nat /\ reconnectAttempt \in Nat
          /\ rebuilding \in Nat

\* Every variable stays in the range the code gives it.
TypeOK == DataOK /\ FlagsOK

\* "one batch in flight at a time": no trigger starts a second adapter write.
SingleFlight == \A v, w \in inflight : v = w

\* The entries not settled yet, oldest first.
Waiting == IF inflight = {} THEN buffer
           ELSE (CHOOSE w \in inflight : TRUE) \o buffer

Increasing(s) == \A i, j \in 1 .. Len(s) : i < j => s[i] < s[j]

\* "strict FIFO order": through failures, requeueing, backoff and rebuilds the
\* acknowledged entries followed by the waiting ones are in the order they were
\* offered, and no entry is acknowledged twice or both acknowledged and waiting.
StrictFifo == Increasing(delivered \o Waiting)

\* stats() can be trusted: an entry let in is acknowledged, waiting or counted
\* as dropped, and in only one of these, in every state.
Accounting == offered = Len(delivered) + Len(Waiting) + dropped

\* The two caps: a batch is attempted again only below retry.attempts, and a
\* rebuild is only ever scheduled below reconnect.maxAttempts, also when late
\* factory answers, dead-adapter writes and new outages overlap.
TriesBounded == /\ retryAttempt < RetryAttempts
                /\ reconnectAttempt <= ReconnectMax
                /\ reconnectTimer => reconnectAttempt < ReconnectMax

\* A closing transport always has something under way that ends its drain:
\* close() cannot be left waiting for an idle notification nobody sends.
CloseNeverStrands == closing = "draining" => inflight # {} \/ retryQueued

\* close() leaves entries behind only after the drain had its second attempt.
CloseAbandonsOnlyAfterRetry ==
    closing \in {"drained", "closed"} /\ Waiting # <<>> => closeRetryUsed

\* close() ends every wait, and no late factory answer or failed write of a
\* closed transport starts one again.
CloseCancelsWaits ==
    closed => ~recovering /\ ~reconnectTimer /\ ~backoff /\ ~retryTimer

\* An outage always holds the backlog it is about: there is a write in flight or
\* an entry for the next pump to probe the adapter with, so that the recovery
\* cannot be left open with nothing to end it.
RecoveryHasBacklog == recovering => ~closed /\ Waiting # <<>>

\* No write starts during the cooldown of a rebuild or during a backoff.
WaitsRespected ==
    [][inflight' \subseteq inflight \/ (~reconnectTimer' /\ ~backoff')]_vars

\* After close() nothing is given up: what could not be written stays queued.
ClosedDropsNothing == [][closed => dropped' = dropped]_vars

\* The transport is a FIFO queue that loses only what it counts.
Abstract == INSTANCE DeliveryQueue WITH waiting <- Waiting
ImplementsQueue == Abstract!Spec

\* close() completes, however the adapter and the factory behave.
CloseCompletes == closing = "draining" ~> closing = "closed"

\* Every outage ends: by a write that succeeds, or by giving the backlog up.
RecoveryEnds == recovering ~> ~recovering

\* The transport never stays in a recovery or in a close() for ever.
RecoversAndCloses == RecoveryEnds /\ CloseCompletes

\* With a finite retry cap the buffer empties again and again until close().
QueueDrains == buffer # <<>> ~> buffer = <<>> \/ closed

-----------------------------------------------------------------------------
(* What the documentation promises and the code does not.                  *)

\* "the probe phase (rebuilt adapter draining the backlog) is allowed to write":
\* during a recovery no write starts on the adapter that was closed as dead.
RecoveryWritesOnRebuiltAdapter ==
    [][recovering' /\ ~(inflight' \subseteq inflight) => ~adapterClosed']_vars
=============================================================================
