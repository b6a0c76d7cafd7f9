---------------------- MODULE DatabaseTransport_proofs ----------------------
(***************************************************************************)
(* Proofs about DatabaseTransport, for every batch size, cap, retry and    *)
(* reconnect setting: type correctness, the invariants of the retry,       *)
(* recovery and shutdown control, and that it implements the delivery      *)
(* queue: whatever the interleaving of writes, failures, backoff, rebuilds *)
(* and shutdown, its entries behave as a FIFO queue that loses only what   *)
(* it counts.  Order and accounting follow from the queue's.               *)
(***************************************************************************)
EXTENDS DatabaseTransport, Containers_proofs

USE DEF closed, history, queue, backoffVars, recovery, shutdown, vars

-----------------------------------------------------------------------------

\* takeBatch splits a buffer: a batch that is empty only if the buffer is, and
\* the rest, with nothing lost in between.
LEMMA TakeBatch ==
    ASSUME NEW buf \in Seq(Nat)
    PROVE  /\ HeadBatch(buf) \in Seq(Nat) /\ AfterBatch(buf) \in Seq(Nat)
           /\ BatchLen(buf) \in Nat /\ BatchLen(buf) <= Len(buf)
           /\ Len(HeadBatch(buf)) = BatchLen(buf)
           /\ Len(AfterBatch(buf)) = Len(buf) - BatchLen(buf)
           /\ buf # <<>> => HeadBatch(buf) # <<>>
           /\ \A i \in 1 .. BatchLen(buf) : HeadBatch(buf)[i] = buf[i]
           /\ \A i \in 1 .. Len(AfterBatch(buf)) : AfterBatch(buf)[i] = buf[i + BatchLen(buf)]
           /\ HeadBatch(buf) \o AfterBatch(buf) = buf
<1>1. BatchLen(buf) \in 0 .. Len(buf) /\ (buf # <<>> => BatchLen(buf) > 0)
  BY BatchSizeAssumption, LenProperties, EmptySeq DEF BatchLen, Shorter
<1> DEFINE n == BatchLen(buf)
<1> HIDE DEF n
<1>2. n \in 0 .. Len(buf) /\ (buf # <<>> => n > 0) /\ Len(buf) \in Nat
  BY <1>1, LenProperties DEF n
<1> DEFINE h == SubSeq(buf, 1, n)
           t == SubSeq(buf, n + 1, Len(buf))
<1>3. /\ h \in Seq(Nat) /\ t \in Seq(Nat) /\ Len(h) = n /\ Len(t) = Len(buf) - n
      /\ \A i \in 1 .. n : h[i] = buf[i]
      /\ \A i \in 1 .. Len(buf) - n : t[i] = buf[i + n]
      /\ h \o t = buf
  BY <1>2, SplitAt
<1>4. HeadBatch(buf) = h /\ AfterBatch(buf) = t
  BY DEF HeadBatch, AfterBatch, n
<1> HIDE DEF h, t
<1>5. buf # <<>> => HeadBatch(buf) # <<>>
  BY <1>2, <1>3, <1>4
<1>6. /\ BatchLen(buf) = n /\ n \in Nat /\ n <= Len(buf) /\ Len(buf) - n = Len(t)
  BY <1>2, <1>3 DEF n
<1> QED  BY <1>3, <1>4, <1>5, <1>6

(* The queue operations.                                                   *)

\* A failed batch goes back in front of the buffer.
LEMMA RequeueType ==
    ASSUME NEW w \in Seq(Nat), NEW buf \in Seq(Nat)
    PROVE  /\ Requeue(w, buf) \in Seq(Nat)
           /\ Len(Requeue(w, buf)) = Len(w) + Len(buf)
           /\ w # <<>> => Requeue(w, buf) # <<>>
BY DEF Requeue

\* pump() keeps the types of what it changes.
LEMMA PumpType ==
    ASSUME NEW buf \in Seq(Nat), NEW writes \in SUBSET Seq(Nat), NEW wait,
           NEW cooldown, NEW phase \in Phases,
           Pump(buf, writes, wait, cooldown, phase)
    PROVE  /\ buffer' \in Seq(Nat) /\ inflight' \in SUBSET Seq(Nat)
           /\ closing' \in Phases
BY TakeBatch DEF Pump, IdlePhase, Phases

-----------------------------------------------------------------------------
(* Type correctness.                                                       *)

\* The constructor gives every field a value of its type.
LEMMA InitType == Init => TypeOK
<1>1. Init => DataOK
  BY EmptySeq DEF Init, DataOK, Phases
<1>2. Init => FlagsOK
  BY Zenon DEF Init, FlagsOK
<1> QED  BY <1>1, <1>2 DEF TypeOK

\* A failed rebuild keeps the backlog, or gives it up as a whole.
LEMMA FailRecoveryData ==
    ASSUME NEW backlog \in Seq(Nat), dropped \in Nat, reconnectAttempt \in Nat,
           FailRecoveryAttempt(backlog)
    PROVE  buffer' \in Seq(Nat) /\ dropped' \in Nat /\ reconnectAttempt' \in Nat
<1>1. buffer' = backlog \/ buffer' = <<>>
  BY Zenon DEF FailRecoveryAttempt
<1>2. buffer' \in Seq(Nat)
  BY <1>1, EmptySeq, Zenon
<1>3. dropped' \in Nat /\ reconnectAttempt' \in Nat
  BY SMT DEF FailRecoveryAttempt
<1> QED  BY <1>2, <1>3

\* A failed write keeps the types of queue and counters, whichever branch it takes.
LEMMA WriteFailData ==
    ASSUME DataOK, NEW w \in inflight, WriteFail(w)
    PROVE  DataOK'
<1> DEFINE queued == Requeue(w, buffer)
<1>1. queued \in Seq(Nat) /\ w \in Seq(Nat) /\ Len(queued) \in Nat
  BY RequeueType DEF DataOK
<1>2. /\ offered' \in Nat /\ delivered' \in Seq(Nat)
      /\ inflight' \in SUBSET Seq(Nat)
  BY DEF DataOK, WriteFail
<1>3. CASE WriteFailClosing(w)
  BY <1>1, <1>2, <1>3 DEF DataOK, WriteFailClosing
<1>4. CASE WriteFailClosed(w)
  BY <1>1, <1>2, <1>4 DEF DataOK, WriteFailClosed, IdlePhase, Phases
<1>5. CASE WriteFailRecovering(w)
  BY <1>1, <1>2, <1>5, FailRecoveryData DEF DataOK, WriteFailRecovering
<1>6. CASE WriteFailOpen(w)
  <2>1. CASE ~Retrying
    BY <1>1, <1>2, <1>6, <2>1 DEF DataOK, WriteFailOpen
  <2>2. CASE Retrying
    <3>1. ScheduleRetry(queued) /\ UNCHANGED shutdown
      BY <1>6, <2>2 DEF WriteFailOpen
    <3>2. AfterBatch(queued) \in Seq(Nat) /\ BatchLen(queued) \in Nat
      BY <1>1, TakeBatch
    <3> HIDE DEF queued
    <3>3. CASE ArmRetry /\ buffer' = queued /\ UNCHANGED <<dropped, recovery, shutdown>>
      BY <1>1, <1>2, <3>3 DEF DataOK, ArmRetry
    <3>4. CASE StartRecovery /\ buffer' = queued /\ UNCHANGED <<dropped, shutdown>>
      BY <1>1, <1>2, <3>4 DEF DataOK, StartRecovery, ResetRetry
    <3>5. CASE DropHead(queued) /\ ResetRetry /\ UNCHANGED <<recovery, shutdown>>
      BY <1>1, <1>2, <3>2, <3>5, SMTT(20) DEF DataOK, DropHead, ResetRetry
    <3> QED  BY <3>1, <3>3, <3>4, <3>5, Zenon DEF ScheduleRetry
  <2> QED  BY <2>1, <2>2
<1> QED  BY <1>3, <1>4, <1>5, <1>6 DEF WriteFail

\* Every step keeps the types of queue, counters and phase.
LEMMA NextData == DataOK /\ [Next]_vars => DataOK'
<1> SUFFICES ASSUME DataOK, [Next]_vars PROVE DataOK'
  OBVIOUS
<1>1. CASE WriteQueued
  <2> DEFINE buf == Append(buffer, offered + 1)
  <2>1. buf \in Seq(Nat) /\ offered' \in Nat
    BY <1>1 DEF DataOK, WriteQueued
  <2>2. CASE Len(buf) >= BatchSize
    <3>1. Pump(buf, inflight, backoff, reconnectTimer, closing)
      BY <1>1, <2>2 DEF WriteQueued
    <3> QED  BY <1>1, <2>1, <3>1, PumpType DEF DataOK, WriteQueued, Phases
  <2>3. CASE ~(Len(buf) >= BatchSize)
    BY <1>1, <2>1, <2>3 DEF DataOK, WriteQueued
  <2> QED  BY <2>2, <2>3
<1>2. CASE WriteRefused
  BY <1>2 DEF DataOK, WriteRefused
<1>3. CASE IntervalTick
  BY <1>3, PumpType DEF DataOK, IntervalTick, PumpNow, Phases
<1>4. CASE Flush
  BY <1>4, PumpType DEF DataOK, Flush, PumpNow, Phases
<1>5. CASE Close
  BY <1>5, PumpType DEF DataOK, Close, ResetRetry, Phases
<1>6. ASSUME NEW w \in inflight, WriteOk(w) PROVE DataOK'
  <2>1. inflight \ {w} \in SUBSET Seq(Nat) /\ delivered' \in Seq(Nat)
    BY <1>6 DEF DataOK, WriteOk
  <2> QED  BY <1>6, <2>1, PumpType DEF DataOK, WriteOk, ResetRetry, Phases
<1>7. ASSUME NEW w \in inflight, WriteFail(w) PROVE DataOK'
  BY <1>7, WriteFailData
<1>8. CASE RetryTimerFires
  BY <1>8, PumpType DEF DataOK, RetryTimerFires, PumpNow, Phases
<1>9. CASE BackoffElapses
  BY <1>9 DEF DataOK, BackoffElapses
<1>10. CASE ReconnectTimerFires
  BY <1>10 DEF DataOK, ReconnectTimerFires
<1>11. CASE FactoryOk
  <2>1. CASE closed
    BY <1>11, <2>1 DEF DataOK, FactoryOk
  <2>2. CASE ~closed
    <3>1. PumpNow
      BY <1>11, <2>2, Zenon DEF FactoryOk
    <3> QED  BY <1>11, <3>1, PumpType DEF DataOK, FactoryOk, PumpNow
  <2> QED  BY <2>1, <2>2
<1>12. CASE FactoryFail
  BY <1>12, FailRecoveryData DEF DataOK, FactoryFail
<1>13. CASE CloseRetry
  BY <1>13, PumpType DEF DataOK, CloseRetry, PumpNow, Phases
<1>14. CASE CloseAdapter
  BY <1>14 DEF DataOK, CloseAdapter, Phases
<1>15. CASE UNCHANGED vars
  BY <1>15 DEF DataOK
<1> QED
  BY <1>1, <1>2, <1>3, <1>4, <1>5, <1>6, <1>7, <1>8, <1>9, <1>10, <1>11,
     <1>12, <1>13, <1>14, <1>15 DEF Next

\* The flags are set and cleared, never computed.
LEMMA NextFlags == FlagsOK /\ [Next]_vars => FlagsOK'
<1> SUFFICES ASSUME FlagsOK, [Next]_vars PROVE FlagsOK'
  OBVIOUS
<1> USE DEF FlagsOK, ResetRetry
<1>1. CASE WriteQueued \/ WriteRefused
  BY <1>1, Zenon DEF WriteQueued, WriteRefused
<1>2. CASE IntervalTick \/ Flush
  BY <1>2, Zenon DEF IntervalTick, Flush
<1>3. CASE Close
  BY <1>3, Zenon DEF Close
<1>4. ASSUME NEW w \in inflight, WriteOk(w) PROVE FlagsOK'
  BY <1>4, Zenon DEF WriteOk
<1>5. ASSUME NEW w \in inflight, WriteFail(w) PROVE FlagsOK'
  <2>1. CASE WriteFailClosing(w)
    BY <2>1, Zenon DEF WriteFailClosing
  <2>2. CASE WriteFailClosed(w)
    BY <2>2, Zenon DEF WriteFailClosed
  <2>3. CASE WriteFailRecovering(w)
    BY <2>3, Zenon DEF WriteFailRecovering, FailRecoveryAttempt, ScheduleReconnect
  <2>4. CASE WriteFailOpen(w)
    <3>1. CASE ScheduleRetry(Requeue(w, buffer)) /\ UNCHANGED shutdown
      BY <3>1, Zenon DEF ScheduleRetry, ArmRetry, StartRecovery, ScheduleReconnect
    <3> QED  BY <2>4, <3>1, Zenon DEF WriteFailOpen
  <2> QED  BY <1>5, <2>1, <2>2, <2>3, <2>4 DEF WriteFail
<1>6. CASE RetryTimerFires \/ BackoffElapses
  BY <1>6, Zenon DEF RetryTimerFires, BackoffElapses
<1>7. CASE ReconnectTimerFires
  BY <1>7, Zenon DEF ReconnectTimerFires
<1>8. CASE FactoryOk
  <2>1. adapterClosed' \in BOOLEAN
    BY <1>8 DEF FactoryOk
  <2> QED  BY <1>8, <2>1, Zenon DEF FactoryOk
<1>9. CASE FactoryFail
  BY <1>9, Zenon DEF FactoryFail, FailRecoveryAttempt, ScheduleReconnect
<1>10. CASE CloseRetry \/ CloseAdapter
  BY <1>10, Zenon DEF CloseRetry, CloseAdapter
<1>11. CASE UNCHANGED vars
  BY <1>11, Zenon
<1> QED
  BY <1>1, <1>2, <1>3, <1>4, <1>5, <1>6, <1>7, <1>8, <1>9, <1>10, <1>11
  DEF Next

\* Every variable keeps its type, whatever the settings are.
THEOREM TypeCorrect == Spec => []TypeOK
<1>1. TypeOK /\ [Next]_vars => TypeOK'
  BY NextData, NextFlags DEF TypeOK
<1> QED  BY <1>1, InitType, PTL DEF Spec

-----------------------------------------------------------------------------
(* The control invariant: one write in flight, the caps, the outage that   *)
(* always holds a backlog, and the shutdown that always ends.              *)

\* The invariants are not inductive alone: that a failed write leaves a backlog
\* needs batches that are never empty, that close() is never stranded needs the
\* waits cancelled, and what close() leaves behind may still be in flight when a
\* late flush() picks it up.
BatchesNotEmpty == \A w \in inflight : w # <<>>
Unsettled == inflight # {} \/ buffer # <<>>
LeftAfterRetry == closing \in {"drained", "closed"} /\ Unsettled => closeRetryUsed
OutageHasBacklog == recovering => HasFactory /\ ~closed /\ Unsettled

ControlInv == /\ SingleFlight /\ BatchesNotEmpty
              /\ TriesBounded
              /\ CloseNeverStrands /\ CloseCancelsWaits /\ LeftAfterRetry
              /\ OutageHasBacklog

\* What pump() does to the control, as far as its callers rely on it.
LEMMA PumpControl ==
    ASSUME NEW buf \in Seq(Nat), NEW writes \in SUBSET Seq(Nat), NEW wait,
           NEW cooldown, NEW phase \in Phases,
           Pump(buf, writes, wait, cooldown, phase)
    PROVE  /\ (\A v, w \in writes : v = w) => SingleFlight'
           /\ (\A w \in writes : w # <<>>) => BatchesNotEmpty'
           /\ Unsettled' <=> (writes # {} \/ buf # <<>>)
           /\ \/ closing' = phase
              \/ phase = "draining" /\ closing' = "drained" /\ ~Unsettled'
           /\ inflight' \subseteq writes \/ (~wait /\ ~cooldown)
<1>1. CASE Blocked(buf, writes, wait, cooldown)
  <2>1. buffer' = buf /\ inflight' = writes /\ closing' = phase
    BY <1>1 DEF Pump
  <2> QED
    BY <1>1, <2>1
    DEF Blocked, SingleFlight, BatchesNotEmpty, Unsettled
<1>2. CASE ~Blocked(buf, writes, wait, cooldown) /\ buf = <<>>
  <2>1. buffer' = buf /\ inflight' = writes /\ closing' = IdlePhase(writes, phase)
    BY <1>2 DEF Pump
  <2> QED
    BY <1>2, <2>1
    DEF Blocked, SingleFlight, BatchesNotEmpty, Unsettled, IdlePhase
<1>3. CASE ~Blocked(buf, writes, wait, cooldown) /\ buf # <<>>
  <2>1. /\ inflight' = {HeadBatch(buf)}
        /\ closing' = phase /\ writes = {} /\ ~wait /\ ~cooldown
    BY <1>3 DEF Pump, Blocked
  <2>2. HeadBatch(buf) # <<>>
    BY <1>3, TakeBatch
  <2> QED
    BY <1>3, <2>1, <2>2 DEF SingleFlight, BatchesNotEmpty, Unsettled
<1> QED  BY <1>1, <1>2, <1>3

\* Nothing holds a pump() back but a write in flight: it starts one or ends the
\* drain.
LEMMA PumpNeverStrands ==
    ASSUME NEW buf, NEW writes, NEW wait, NEW cooldown, NEW phase,
           ~wait, ~cooldown, Pump(buf, writes, wait, cooldown, phase)
    PROVE  inflight' # {} \/ closing' # "draining"
BY DEF Pump, Blocked, IdlePhase

\* The constructor leaves an open transport that waits for nothing.
LEMMA InitControl == Init => ControlInv
<1> SUFFICES ASSUME Init PROVE ControlInv
  OBVIOUS
<1>1. TriesBounded
  BY SettingsAssumption DEF Init, TriesBounded
<1> QED
  BY <1>1
  DEF Init, ControlInv, SingleFlight, BatchesNotEmpty, CloseNeverStrands,
      CloseCancelsWaits, LeftAfterRetry, OutageHasBacklog

\* A pump() whose caller changed nothing keeps the control invariant.
LEMMA PumpNowControl ==
    ASSUME DataOK, ControlInv, PumpNow,
           UNCHANGED <<retryAttempt, backoff, recovering, reconnectAttempt,
                       reconnectTimer, closeRetryUsed>>,
           retryTimer' => retryTimer
    PROVE  ControlInv'
<1>1. Pump(buffer, inflight, backoff, reconnectTimer, closing)
  BY DEF PumpNow
<1>2. SingleFlight' /\ BatchesNotEmpty' /\ (Unsettled' <=> Unsettled)
  BY <1>1, PumpControl DEF DataOK, ControlInv, SingleFlight, BatchesNotEmpty, Unsettled
<1>3. \/ closing' = closing
      \/ closing = "draining" /\ closing' = "drained" /\ ~Unsettled'
  BY <1>1, PumpControl DEF DataOK
<1>4. TriesBounded'
  BY SMT DEF ControlInv, TriesBounded
<1>5. CloseCancelsWaits' /\ OutageHasBacklog'
  BY <1>2, <1>3 DEF ControlInv, CloseCancelsWaits, OutageHasBacklog
<1>6. LeftAfterRetry'
  BY <1>2, <1>3 DEF ControlInv, LeftAfterRetry
<1>7. CloseNeverStrands'
  <2>1. SUFFICES ASSUME closing' = "draining" PROVE inflight' # {} \/ retryQueued'
    BY DEF CloseNeverStrands
  <2>2. closing = "draining"
    BY <1>3, <2>1
  <2>3. ~backoff /\ ~reconnectTimer
    BY <2>2 DEF ControlInv, CloseCancelsWaits
  <2> QED
    BY <1>1, <2>1, <2>3, PumpNeverStrands
<1> QED  BY <1>2, <1>4, <1>5, <1>6, <1>7 DEF ControlInv

\* write() of an entry.
LEMMA WriteQueuedControl == DataOK /\ ControlInv /\ WriteQueued => ControlInv'
<1> SUFFICES ASSUME DataOK, ControlInv, WriteQueued PROVE ControlInv'
  OBVIOUS
<1> DEFINE buf == Append(buffer, offered + 1)
<1>1. /\ ~closed /\ buf \in Seq(Nat) /\ buf # <<>>
      /\ UNCHANGED <<retryAttempt, backoff, retryTimer, recovering,
                     reconnectAttempt, reconnectTimer, closeRetryUsed>>
  <2>1. buf \in Seq(Nat) /\ buf # <<>>
    BY AppendProperties DEF DataOK
  <2> QED  BY <2>1 DEF WriteQueued
<1>2. /\ SingleFlight' /\ BatchesNotEmpty' /\ Unsettled'
      /\ closing' = closing
  <2>1. CASE Len(buf) >= BatchSize
    <3>1. Pump(buf, inflight, backoff, reconnectTimer, closing)
      BY <2>1 DEF WriteQueued
    <3> HIDE DEF buf
    <3> QED
      BY <1>1, <3>1, PumpControl
      DEF DataOK, ControlInv, SingleFlight, BatchesNotEmpty
  <2>2. CASE ~(Len(buf) >= BatchSize)
    <3>1. buffer' = buf /\ UNCHANGED <<inflight, closing>>
      BY <2>2 DEF WriteQueued
    <3> HIDE DEF buf
    <3> QED
      BY <1>1, <3>1 DEF ControlInv, SingleFlight, BatchesNotEmpty, Unsettled
  <2> QED  BY <2>1, <2>2
<1> HIDE DEF buf
<1>3. TriesBounded'
  BY <1>1, SMT DEF ControlInv, TriesBounded
<1> QED
  BY <1>1, <1>2, <1>3
  DEF ControlInv, CloseNeverStrands, CloseCancelsWaits, LeftAfterRetry, OutageHasBacklog

\* The first call of close(): waits end, the drain starts or is already over.
LEMMA CloseControl == DataOK /\ ControlInv /\ Close => ControlInv'
<1> SUFFICES ASSUME DataOK, ControlInv, Close PROVE ControlInv'
  OBVIOUS
<1>1. /\ Pump(buffer, inflight, FALSE, FALSE, "draining")
      /\ ~recovering' /\ ~reconnectTimer' /\ ~backoff' /\ ~retryTimer'
      /\ retryAttempt' = 0 /\ reconnectAttempt' = reconnectAttempt
  BY DEF Close, ResetRetry
<1>2. /\ SingleFlight' /\ BatchesNotEmpty'
      /\ \/ closing' = "draining"
         \/ closing' = "drained" /\ ~Unsettled'
  BY <1>1, PumpControl
  DEF DataOK, ControlInv, SingleFlight, BatchesNotEmpty, Phases
<1>3. TriesBounded'
  BY <1>1, SettingsAssumption, SMT DEF ControlInv, TriesBounded
<1>4. inflight' # {} \/ closing' # "draining"
  BY <1>1, PumpNeverStrands
<1> QED
  BY <1>1, <1>2, <1>3, <1>4
  DEF ControlInv, CloseNeverStrands, CloseCancelsWaits, LeftAfterRetry, OutageHasBacklog

\* A write that succeeded ends the recovery and goes on draining.
LEMMA WriteOkControl ==
    ASSUME DataOK, ControlInv, NEW w \in inflight, WriteOk(w)
    PROVE  ControlInv'
<1>1. /\ Pump(buffer, inflight \ {w}, FALSE, reconnectTimer, closing)
      /\ ~recovering' /\ ~backoff' /\ ~retryTimer' /\ retryAttempt' = 0
      /\ reconnectAttempt' \in {0, reconnectAttempt}
      /\ UNCHANGED <<reconnectTimer, closeRetryUsed, retryQueued>>
      /\ recovering => reconnectAttempt' = 0
  BY DEF WriteOk, ResetRetry
<1>2. /\ SingleFlight' /\ BatchesNotEmpty'
      /\ \/ closing' = closing
         \/ closing = "draining" /\ closing' = "drained" /\ ~Unsettled'
  <2> DEFINE writes == inflight \ {w}
  <2>1. /\ buffer \in Seq(Nat) /\ writes \in SUBSET Seq(Nat) /\ closing \in Phases
        /\ \A u, v \in writes : u = v
        /\ \A v \in writes : v # <<>>
    BY DEF DataOK, ControlInv, SingleFlight, BatchesNotEmpty
  <2> HIDE DEF writes
  <2>2. Pump(buffer, writes, FALSE, reconnectTimer, closing)
    BY <1>1 DEF writes
  <2> QED  BY <2>1, <2>2, PumpControl
<1>4. ASSUME ~reconnectTimer PROVE inflight' # {} \/ closing' # "draining"
  BY <1>1, <1>4 DEF Pump, Blocked, IdlePhase
<1>5. Unsettled
  BY DEF Unsettled
<1>3. TriesBounded'
  BY <1>1, SettingsAssumption, SMT DEF DataOK, ControlInv, TriesBounded
<1> QED
  BY <1>1, <1>2, <1>3, <1>4, <1>5
  DEF ControlInv, CloseNeverStrands, CloseCancelsWaits, LeftAfterRetry, OutageHasBacklog

\* A write that failed, in each of the branches of writeNext.
LEMMA WriteFailControl ==
    ASSUME DataOK, ControlInv, NEW w \in inflight, WriteFail(w)
    PROVE  ControlInv'
<1> DEFINE queued == Requeue(w, buffer)
<1>1. /\ queued \in Seq(Nat) /\ queued # <<>>
      /\ inflight' = {} /\ SingleFlight' /\ BatchesNotEmpty'
  <2>1. queued \in Seq(Nat) /\ queued # <<>>
    BY RequeueType DEF DataOK, ControlInv, BatchesNotEmpty
  <2>2. inflight' = {}
    BY DEF WriteFail, ControlInv, SingleFlight
  <2> QED  BY <2>1, <2>2 DEF SingleFlight, BatchesNotEmpty
<1>2. CASE WriteFailClosing(w)
  BY <1>1, <1>2
  DEF WriteFailClosing, SecondPassLeft, ControlInv, TriesBounded, CloseNeverStrands,
      CloseCancelsWaits, LeftAfterRetry, OutageHasBacklog
<1>3. CASE WriteFailClosed(w)
  <2>1. closing' # "draining" /\ closed' /\ closeRetryUsed'
    BY <1>1, <1>3 DEF WriteFailClosed, SecondPassLeft, IdlePhase, WriteFail
  <2> QED
    BY <1>1, <1>3, <2>1
    DEF WriteFailClosed, ControlInv, TriesBounded, CloseNeverStrands,
        CloseCancelsWaits, LeftAfterRetry, OutageHasBacklog
<1>4. CASE WriteFailRecovering(w)
  <2>1. /\ FailRecoveryAttempt(queued) /\ ~closed /\ ~closed'
        /\ HasFactory /\ UNCHANGED retryAttempt
    BY <1>4 DEF WriteFailRecovering
  <2>2. buffer' = queued \/ ~recovering'
    BY <2>1, Zenon DEF FailRecoveryAttempt
  <2>3. TriesBounded'
    BY <2>1, SettingsAssumption, SMT
    DEF DataOK, ControlInv, TriesBounded, FailRecoveryAttempt, ScheduleReconnect
  <2> HIDE DEF queued
  <2> QED
    BY <1>1, <2>1, <2>2, <2>3
    DEF ControlInv, CloseNeverStrands, CloseCancelsWaits, LeftAfterRetry,
        OutageHasBacklog, Unsettled
<1>5. CASE WriteFailOpen(w) /\ ~Retrying
  BY <1>1, <1>5
  DEF WriteFailOpen, ControlInv, TriesBounded, CloseNeverStrands, CloseCancelsWaits,
      LeftAfterRetry, OutageHasBacklog, Unsettled
<1>6. CASE WriteFailOpen(w) /\ Retrying
  <2>1. ScheduleRetry(queued) /\ ~closed /\ ~closed' /\ ~(recovering /\ HasFactory)
    BY <1>6 DEF WriteFailOpen
  <2>2. recovering' => HasFactory /\ buffer' = queued
    BY <2>1 DEF ScheduleRetry, ControlInv, OutageHasBacklog
  <2>3. TriesBounded'
    BY <2>1, SettingsAssumption, SMT
    DEF DataOK, ControlInv, TriesBounded, ScheduleRetry, CapReached, ArmRetry,
        StartRecovery, ScheduleReconnect, ResetRetry
  <2> HIDE DEF queued
  <2> QED
    BY <1>1, <2>1, <2>2, <2>3
    DEF ControlInv, CloseNeverStrands, CloseCancelsWaits, LeftAfterRetry,
        OutageHasBacklog, Unsettled
<1> QED  BY <1>2, <1>3, <1>4, <1>5, <1>6 DEF WriteFail

\* The cooldown timer and the answers of the factory, late ones included.
LEMMA FactoryControl ==
    ASSUME DataOK, ControlInv, FactoryOk \/ FactoryFail \/ ReconnectTimerFires
    PROVE  ControlInv'
<1>1. CASE FactoryOk
  <2>1. UNCHANGED <<retryAttempt, backoff, retryTimer, recovering, reconnectAttempt,
                    reconnectTimer, closeRetryUsed, retryQueued>>
    BY <1>1 DEF FactoryOk
  <2>2. CASE closed
    BY <1>1, <2>1, <2>2
    DEF FactoryOk, ControlInv, SingleFlight, BatchesNotEmpty, TriesBounded,
        CloseNeverStrands, CloseCancelsWaits, LeftAfterRetry, OutageHasBacklog, Unsettled
  <2>3. CASE ~closed
    <3>1. PumpNow
      BY <1>1, <2>3, Zenon DEF FactoryOk
    <3> QED  BY <2>1, <2>3, <3>1, PumpNowControl
  <2> QED  BY <2>2, <2>3
<1>2. CASE FactoryFail
  <2>1. UNCHANGED <<inflight, retryAttempt, backoff, retryTimer, closing,
                    closeRetryUsed, retryQueued>>
    BY <1>2 DEF FactoryFail
  <2>2. CASE closed
    BY <1>2, <2>1, <2>2
    DEF FactoryFail, ControlInv, SingleFlight, BatchesNotEmpty, TriesBounded,
        CloseNeverStrands, CloseCancelsWaits, LeftAfterRetry, OutageHasBacklog, Unsettled
  <2>3. CASE ~closed
    <3>1. FailRecoveryAttempt(buffer)
      BY <1>2, <2>3 DEF FactoryFail
    <3>2. recovering' => recovering /\ buffer' = buffer
      BY <3>1 DEF FailRecoveryAttempt
    <3>3. TriesBounded'
      BY <2>1, <3>1, SettingsAssumption, SMT
      DEF DataOK, ControlInv, TriesBounded, FailRecoveryAttempt, ScheduleReconnect
    <3> QED
      BY <2>1, <2>3, <3>2, <3>3
      DEF ControlInv, SingleFlight, BatchesNotEmpty, CloseNeverStrands,
          CloseCancelsWaits, LeftAfterRetry, OutageHasBacklog, Unsettled
  <2> QED  BY <2>2, <2>3
<1>3. CASE ReconnectTimerFires
  <2>1. /\ UNCHANGED <<buffer, inflight, retryAttempt, backoff, retryTimer, recovering,
                       closing, closeRetryUsed, retryQueued>>
        /\ ~reconnectTimer'
    BY <1>3 DEF ReconnectTimerFires
  <2>2. reconnectAttempt < ReconnectMax /\ reconnectAttempt \in Nat
        /\ retryAttempt < RetryAttempts
    BY <1>3 DEF DataOK, ControlInv, TriesBounded, ReconnectTimerFires
  <2>3. reconnectAttempt' = reconnectAttempt \/ reconnectAttempt' = reconnectAttempt + 1
    BY <1>3, Zenon DEF ReconnectTimerFires
  <2>4. TriesBounded'
    BY <2>1, <2>2, <2>3, SettingsAssumption DEF TriesBounded
  <2> QED
    BY <2>1, <2>4
    DEF ControlInv, SingleFlight, BatchesNotEmpty, CloseNeverStrands,
        CloseCancelsWaits, LeftAfterRetry, OutageHasBacklog, Unsettled
<1> QED  BY <1>1, <1>2, <1>3

\* The second pass of a closing transport.
LEMMA CloseRetryControl == DataOK /\ ControlInv /\ CloseRetry => ControlInv'
<1> SUFFICES ASSUME DataOK, ControlInv, CloseRetry PROVE ControlInv'
  OBVIOUS
<1>1. PumpNow /\ UNCHANGED <<retryAttempt, backoff, retryTimer, recovering,
                             reconnectAttempt, reconnectTimer, closeRetryUsed>>
  BY DEF CloseRetry
<1> QED  BY <1>1, PumpNowControl

\* ControlInv is inductive: every step of the transport keeps it.
LEMMA NextControl == DataOK /\ ControlInv /\ [Next]_vars => ControlInv'
<1> SUFFICES ASSUME DataOK, ControlInv, [Next]_vars PROVE ControlInv'
  OBVIOUS
<1> USE DEF ControlInv, SingleFlight, BatchesNotEmpty, TriesBounded, CloseNeverStrands,
            CloseCancelsWaits, LeftAfterRetry, OutageHasBacklog, Unsettled
<1>1. CASE WriteRefused
  BY <1>1, SMT DEF WriteRefused
<1>2. CASE IntervalTick \/ Flush \/ RetryTimerFires
  <2>1. /\ PumpNow /\ (retryTimer' => retryTimer)
        /\ UNCHANGED <<retryAttempt, backoff, recovering, reconnectAttempt,
                       reconnectTimer, closeRetryUsed>>
    BY <1>2 DEF IntervalTick, Flush, RetryTimerFires
  <2> HIDE DEF ControlInv
  <2> QED  BY <2>1, PumpNowControl
<1>3. CASE BackoffElapses
  BY <1>3, SMT DEF BackoffElapses
<1>4. CASE CloseAdapter
  BY <1>4, SMT DEF CloseAdapter
<1>5. CASE UNCHANGED vars
  BY <1>5, SMT
<1> HIDE DEF ControlInv
<1> QED
  BY <1>1, <1>2, <1>3, <1>4, <1>5, WriteQueuedControl, CloseControl, WriteOkControl,
     WriteFailControl, FactoryControl, CloseRetryControl
  DEF Next

\* The settings' caps, the outages and the shutdown stay under control whatever
\* the adapter, the factory, the timers and the callers do, in any order.
THEOREM ControlCorrect == Spec => []ControlInv
<1>1. Init => TypeOK /\ ControlInv
  BY InitType, InitControl
<1>2. TypeOK /\ ControlInv /\ [Next]_vars => (TypeOK /\ ControlInv)'
  BY NextData, NextFlags, NextControl DEF TypeOK
<1> QED  BY <1>1, <1>2, PTL DEF Spec
\* One batch is in flight at a time, whichever callers and timers meet.
THEOREM SingleFlightCorrect == Spec => []SingleFlight
BY ControlCorrect, PTL DEF ControlInv

\* No interleaving of failures, late answers and new outages passes a cap.
THEOREM TriesBoundedCorrect == Spec => []TriesBounded
BY ControlCorrect, PTL DEF ControlInv

\* A draining transport always has something under way that ends the drain.
THEOREM CloseNeverStrandsCorrect == Spec => []CloseNeverStrands
BY ControlCorrect, PTL DEF ControlInv

\* After close() nothing waits, and no late continuation starts a wait again.
THEOREM CloseCancelsWaitsCorrect == Spec => []CloseCancelsWaits
BY ControlCorrect, PTL DEF ControlInv

\* An entry waits in the buffer or in a batch that is in flight.
LEMMA WaitingUnsettled ==
    ASSUME DataOK, ControlInv
    PROVE  Waiting # <<>> <=> Unsettled
<1>1. CASE inflight = {}
  BY <1>1 DEF Waiting, Unsettled
<1>2. CASE inflight # {}
  <2> DEFINE w == CHOOSE v \in inflight : TRUE
  <2>1. w \in inflight
    BY <1>2
  <2>2. w \in Seq(Nat) /\ w # <<>> /\ buffer \in Seq(Nat)
    BY <2>1 DEF DataOK, ControlInv, BatchesNotEmpty
  <2>3. Waiting = w \o buffer
    BY <1>2 DEF Waiting
  <2> HIDE DEF w
  <2>4. w \o buffer # <<>>
    BY <2>2
  <2> QED  BY <1>2, <2>3, <2>4 DEF Unsettled
<1> QED  BY <1>1, <1>2

\* Entries are left behind only after the drain had its second attempt, also
\* when a flush() of the closed transport still carries them.
THEOREM CloseAbandonsCorrect == Spec => []CloseAbandonsOnlyAfterRetry
<1>1. TypeOK /\ ControlInv => CloseAbandonsOnlyAfterRetry
  BY WaitingUnsettled
  DEF TypeOK, ControlInv, LeftAfterRetry, CloseAbandonsOnlyAfterRetry
<1> QED  BY <1>1, TypeCorrect, ControlCorrect, PTL

\* An open outage always holds something its next probe can write.
THEOREM RecoveryBacklogCorrect == Spec => []RecoveryHasBacklog
<1>1. TypeOK /\ ControlInv => RecoveryHasBacklog
  BY WaitingUnsettled DEF TypeOK, ControlInv, OutageHasBacklog, RecoveryHasBacklog
<1> QED  BY <1>1, TypeCorrect, ControlCorrect, PTL

-----------------------------------------------------------------------------
(* What a step may never do.                                               *)

\* No write starts while a cooldown or a backoff is running.
THEOREM WaitsRespectedCorrect == Spec => WaitsRespected
<1> DEFINE Respected == inflight' \subseteq inflight \/ (~reconnectTimer' /\ ~backoff')
<1>1. ASSUME TypeOK, [Next]_vars PROVE Respected
  <2> USE DEF TypeOK, DataOK
  <2>1. ASSUME PumpNow, UNCHANGED <<backoff, reconnectTimer>> PROVE Respected
    BY <1>1, <2>1, PumpControl DEF PumpNow
  <2>2. CASE IntervalTick \/ Flush \/ RetryTimerFires \/ CloseRetry
    BY <2>1, <2>2 DEF IntervalTick, Flush, RetryTimerFires, CloseRetry
  <2>3. CASE FactoryOk
    <3>1. UNCHANGED <<backoff, reconnectTimer>> /\ (PumpNow \/ UNCHANGED inflight)
      BY <2>3, Zenon DEF FactoryOk
    <3> QED  BY <2>1, <3>1
  <2>4. CASE WriteQueued
    <3> DEFINE buf == Append(buffer, offered + 1)
    <3>1. /\ UNCHANGED <<backoff, reconnectTimer>>
          /\ \/ Pump(buf, inflight, backoff, reconnectTimer, closing)
             \/ UNCHANGED inflight
      BY <2>4, Zenon DEF WriteQueued
    <3>2. buf \in Seq(Nat)
      BY <1>1
    <3> HIDE DEF buf
    <3> QED  BY <1>1, <3>1, <3>2, PumpControl
  <2>5. CASE Close
    BY <2>5 DEF Close, ResetRetry
  <2>6. ASSUME NEW w \in inflight, WriteOk(w) PROVE Respected
    <3> DEFINE writes == inflight \ {w}
    <3>1. /\ Pump(buffer, writes, FALSE, reconnectTimer, closing)
          /\ ~backoff' /\ reconnectTimer' = reconnectTimer
      BY <2>6 DEF WriteOk, ResetRetry
    <3>2. writes \in SUBSET Seq(Nat) /\ writes \subseteq inflight
      BY <1>1
    <3> HIDE DEF writes
    <3> QED  BY <1>1, <3>1, <3>2, PumpControl
  <2>7. ASSUME NEW w \in inflight, WriteFail(w) PROVE Respected
    BY <2>7 DEF WriteFail
  <2>8. CASE UNCHANGED inflight
    BY <2>8
  <2> QED
    BY <1>1, <2>2, <2>3, <2>4, <2>5, <2>6, <2>7, <2>8
    DEF Next, WriteRefused, BackoffElapses, ReconnectTimerFires, FactoryFail, CloseAdapter
<1> QED  BY <1>1, TypeCorrect, PTL DEF Spec, WaitsRespected

\* A closed transport gives nothing up.
THEOREM ClosedDropsNothingCorrect == Spec => ClosedDropsNothing
<1>1. ASSUME closed, [Next]_vars PROVE dropped' = dropped
  <2>1. ASSUME NEW w \in inflight, WriteFail(w) PROVE dropped' = dropped
    BY <1>1, <2>1
    DEF WriteFail, WriteFailClosing, WriteFailClosed, WriteFailRecovering, WriteFailOpen
  <2>2. CASE FactoryFail
    BY <1>1, <2>2, Zenon DEF FactoryFail
  <2> QED
    BY <1>1, <2>1, <2>2
    DEF Next, WriteQueued, WriteRefused, IntervalTick, Flush, Close, WriteOk,
        RetryTimerFires, BackoffElapses, ReconnectTimerFires, FactoryOk, CloseRetry,
        CloseAdapter
<1> QED  BY <1>1, PTL DEF Spec, ClosedDropsNothing

-----------------------------------------------------------------------------
(* The entries: what the transport's state means to the delivery queue.    *)

Queue == INSTANCE DeliveryQueue_proofs WITH waiting <- Waiting

\* With nothing in flight the buffer is all that waits.
LEMMA WaitingIdle == inflight = {} => Waiting = buffer
BY DEF Waiting

\* The one batch in flight is ahead of the buffer.
LEMMA WaitingBusy ==
    ASSUME SingleFlight, NEW w \in inflight
    PROVE  Waiting = w \o buffer /\ inflight \ {w} = {}
BY DEF SingleFlight, Waiting

\* The unsettled entries are a sequence of numbers.
LEMMA WaitingType == DataOK /\ SingleFlight => Waiting \in Seq(Nat)
<1> SUFFICES ASSUME DataOK, SingleFlight PROVE Waiting \in Seq(Nat)
  OBVIOUS
<1>1. CASE inflight = {}
  BY <1>1, WaitingIdle DEF DataOK
<1>2. CASE inflight # {}
  <2>1. PICK w \in inflight : TRUE
    BY <1>2
  <2>2. w \in Seq(Nat) /\ buffer \in Seq(Nat)
    BY DEF DataOK
  <2> QED  BY <2>1, <2>2, WaitingBusy, ConcatProperties
<1> QED  BY <1>1, <1>2

\* pump() moves entries from the buffer into flight, and the queue as a whole
\* stays as it was.
LEMMA PumpWaiting ==
    ASSUME NEW buf \in Seq(Nat), NEW wait, NEW cooldown, NEW phase, NEW writes,
           \A v, w \in writes : v = w,
           Pump(buf, writes, wait, cooldown, phase)
    PROVE  /\ writes = {} => Waiting' = buf
           /\ \A w \in writes : Waiting' = w \o buf
<1>1. CASE Blocked(buf, writes, wait, cooldown) \/ buf = <<>>
  <2>1. buffer' = buf /\ inflight' = writes
    BY <1>1 DEF Pump
  <2> QED  BY <2>1 DEF Waiting
<1>2. CASE ~Blocked(buf, writes, wait, cooldown) /\ buf # <<>>
  <2>1. /\ writes = {}
        /\ inflight' = {HeadBatch(buf)} /\ buffer' = AfterBatch(buf)
    BY <1>2 DEF Pump, Blocked
  <2>2. Waiting' = HeadBatch(buf) \o AfterBatch(buf)
    BY <2>1 DEF Waiting
  <2> QED  BY <2>1, <2>2, TakeBatch
<1> QED  BY <1>1, <1>2

\* pump() called by a timer, flush() or a microtask leaves the waiting entries as they are.
LEMMA PumpNowWaiting ==
    ASSUME DataOK, SingleFlight, PumpNow
    PROVE  Waiting' = Waiting
<1>1. Pump(buffer, inflight, backoff, reconnectTimer, closing)
  BY DEF PumpNow
<1>2. /\ inflight = {} => Waiting' = buffer
      /\ \A w \in inflight : Waiting' = w \o buffer
  BY <1>1, PumpWaiting DEF DataOK, SingleFlight
<1> QED  BY <1>2, WaitingIdle, WaitingBusy

\* Giving a whole buffer up, from behind the batch in flight on.
LEMMA GiveUpTail ==
    ASSUME NEW a \in Seq(Nat), NEW b \in Seq(Nat), b # <<>>,
           Waiting = a \o b, Waiting' = a, dropped' = dropped + Len(b),
           UNCHANGED history
    PROVE  Queue!Next
<1>1. /\ Len(a \o b) = Len(a) + Len(b) /\ a \o b \in Seq(Nat)
      /\ Len(a) \in Nat /\ Len(b) \in Nat /\ Len(b) > 0
  BY ConcatProperties, CutNothing
<1> DEFINE i == Len(a) + 1
           j == Len(a \o b)
<1>2. i \in 1 .. Len(Waiting) /\ j \in i .. Len(Waiting)
  BY <1>1
<1>3. j + 1 - i = Len(b)
  BY <1>1
<1>4. SubSeq(Waiting, 1, Len(a)) \o SubSeq(Waiting, Len(a \o b) + 1, Len(a \o b)) = a
  BY <1>1, CutConcat, CutNothing
<1>5. Queue!GiveUp(i, j)
  <2>1. i - 1 = Len(a) /\ Len(Waiting) = j
    BY <1>1
  <2> HIDE DEF i, j
  <2>2. Waiting' = SubSeq(Waiting, 1, i - 1) \o SubSeq(Waiting, j + 1, Len(Waiting))
    BY <1>4, <2>1 DEF j
  <2>3. dropped' = dropped + (j + 1 - i)
    BY <1>3
  <2> QED  BY <2>2, <2>3 DEF Queue!GiveUp, history
<1> QED  BY <1>2, <1>5 DEF Queue!Next

-----------------------------------------------------------------------------
(* Every step of the transport is a step of the queue, or none.            *)

QueueStep == [Queue!Next]_Queue!qvars
QueueStutter == UNCHANGED <<offered, delivered, dropped>> /\ Waiting' = Waiting

\* A step that changes nothing the queue shows is a stutter of the queue.
LEMMA Stutter == QueueStutter => QueueStep
BY DEF QueueStutter, QueueStep, Queue!qvars

USE DEF closed, history, queue, backoffVars, recovery, shutdown, vars

\* Triggers of pump(), timers and the close of the adapter move no entry in or
\* out of the queue.
LEMMA TriggerStep ==
    ASSUME DataOK, SingleFlight,
           \/ IntervalTick \/ Flush \/ RetryTimerFires \/ CloseRetry \/ Close
           \/ FactoryOk \/ BackoffElapses \/ ReconnectTimerFires \/ CloseAdapter
           \/ UNCHANGED vars
    PROVE  QueueStutter
<1>1. CASE IntervalTick \/ Flush \/ RetryTimerFires \/ CloseRetry
  <2>1. PumpNow /\ UNCHANGED <<offered, delivered, dropped>>
    BY <1>1 DEF IntervalTick, Flush, RetryTimerFires, CloseRetry
  <2> QED  BY <2>1, PumpNowWaiting DEF QueueStutter
<1>2. CASE Close
  <2>1. Pump(buffer, inflight, FALSE, FALSE, "draining")
        /\ UNCHANGED <<offered, delivered, dropped>>
    BY <1>2 DEF Close
  <2>2. /\ inflight = {} => Waiting' = buffer
        /\ \A w \in inflight : Waiting' = w \o buffer
    BY <2>1, PumpWaiting DEF DataOK, SingleFlight
  <2> QED  BY <2>1, <2>2, WaitingIdle, WaitingBusy DEF QueueStutter
<1>3. CASE FactoryOk
  <2>1. UNCHANGED <<offered, delivered, dropped>>
        /\ (PumpNow \/ UNCHANGED <<buffer, inflight>>)
    BY <1>3, Zenon DEF FactoryOk
  <2>2. CASE UNCHANGED <<buffer, inflight>>
    BY <2>1, <2>2 DEF QueueStutter, Waiting
  <2> QED  BY <2>1, <2>2, PumpNowWaiting DEF QueueStutter
<1>4. CASE BackoffElapses \/ ReconnectTimerFires \/ CloseAdapter \/ UNCHANGED vars
  <2>1. UNCHANGED <<offered, delivered, dropped, buffer, inflight>>
    BY <1>4 DEF BackoffElapses, ReconnectTimerFires, CloseAdapter
  <2> QED  BY <2>1 DEF QueueStutter, Waiting
<1> QED  BY <1>1, <1>2, <1>3, <1>4

\* write() accepts the next entry at the tail of what waits, or refuses it.
LEMMA WriteStep ==
    ASSUME DataOK, SingleFlight, WriteQueued \/ WriteRefused
    PROVE  QueueStep
<1>1. CASE WriteRefused
  <2>1. /\ offered' = offered + 1 /\ dropped' = dropped + 1
        /\ UNCHANGED <<delivered, buffer, inflight>>
    BY <1>1 DEF WriteRefused
  <2>2. Waiting' = Waiting
    BY <2>1 DEF Waiting
  <2> QED  BY <2>1, <2>2 DEF QueueStep, Queue!Next, Queue!Refuse
<1>2. CASE WriteQueued
  <2> DEFINE buf == Append(buffer, offered + 1)
  <2>1. /\ buf \in Seq(Nat) /\ buffer \in Seq(Nat)
        /\ offered + 1 \in Nat
    BY DEF DataOK
  <2>2. /\ offered' = offered + 1 /\ UNCHANGED <<delivered, dropped>>
        /\ \/ Pump(buf, inflight, backoff, reconnectTimer, closing)
           \/ buffer' = buf /\ inflight' = inflight
    BY <1>2, Zenon DEF WriteQueued
  <2> HIDE DEF buf
  <2>3. /\ inflight = {} => Waiting' = buf
        /\ \A w \in inflight : Waiting' = w \o buf
    <3>1. CASE Pump(buf, inflight, backoff, reconnectTimer, closing)
      BY <2>1, <3>1, PumpWaiting DEF SingleFlight
    <3>2. CASE buffer' = buf /\ inflight' = inflight
      BY <3>2 DEF Waiting, SingleFlight
    <3> QED  BY <2>2, <3>1, <3>2
  <2>4. Waiting' = Append(Waiting, offered + 1)
    <3>1. CASE inflight = {}
      BY <2>3, <3>1, WaitingIdle DEF buf
    <3>2. CASE inflight # {}
      <4>1. PICK w \in inflight : TRUE
        BY <3>2
      <4>2. w \in Seq(Nat) /\ Waiting = w \o buffer /\ Waiting' = w \o buf
        BY <2>3, <4>1, WaitingBusy DEF DataOK
      <4>3. w \o buf = Append(w \o buffer, offered + 1)
        BY <2>1, <4>2, AppendToConcat DEF buf
      <4> QED  BY <4>2, <4>3
    <3> QED  BY <3>1, <3>2
  <2> QED  BY <2>2, <2>4 DEF QueueStep, Queue!Next, Queue!Accept
<1> QED  BY <1>1, <1>2

\* An acknowledged batch is the head of the queue, delivered.
LEMMA WriteOkStep ==
    ASSUME DataOK, SingleFlight, BatchesNotEmpty, NEW w \in inflight, WriteOk(w)
    PROVE  QueueStep
<1>1. w \in Seq(Nat) /\ w # <<>> /\ buffer \in Seq(Nat)
  BY DEF DataOK, BatchesNotEmpty
<1>2. inflight \ {w} = {} /\ Waiting = w \o buffer
  BY WaitingBusy
<1>3. delivered' = delivered \o w /\ UNCHANGED <<offered, dropped>>
      /\ Pump(buffer, {}, FALSE, reconnectTimer, closing)
  BY <1>2 DEF WriteOk
<1>4. Waiting' = buffer
  BY <1>1, <1>3, PumpWaiting
<1> DEFINE n == Len(w)
<1>5. n \in 1 .. Len(Waiting)
  BY <1>1, <1>2, ConcatProperties, CutNothing
<1>6. SubSeq(Waiting, 1, n) = w /\ SubSeq(Waiting, n + 1, Len(Waiting)) = buffer
  BY <1>1, <1>2, CutConcat
<1> HIDE DEF n
<1>7. Queue!Deliver(n)
  BY <1>3, <1>4, <1>6 DEF Queue!Deliver
<1> QED  BY <1>5, <1>7 DEF QueueStep, Queue!Next

\* A failed rebuild keeps the queue, or gives the buffered backlog up.
LEMMA FailRecoveryWaiting ==
    ASSUME NEW backlog, FailRecoveryAttempt(backlog)
    PROVE  \/ buffer' = backlog /\ dropped' = dropped
           \/ buffer' = <<>> /\ dropped' = dropped + Len(backlog)
BY Zenon DEF FailRecoveryAttempt

\* A failed write leaves the batch in the queue, or gives a batch or the whole
\* queue up.
LEMMA WriteFailStep ==
    ASSUME DataOK, SingleFlight, BatchesNotEmpty, NEW w \in inflight, WriteFail(w)
    PROVE  QueueStep
<1> DEFINE queued == Requeue(w, buffer)
<1>1. /\ w \in Seq(Nat) /\ w # <<>> /\ buffer \in Seq(Nat) /\ dropped \in Nat
      /\ queued \in Seq(Nat) /\ queued # <<>>
  BY RequeueType DEF DataOK, BatchesNotEmpty
<1>2. Waiting = queued
  BY WaitingBusy DEF Requeue
<1>3. UNCHANGED history /\ inflight' = {}
  BY WaitingBusy DEF WriteFail
<1>4. Waiting' = buffer'
  BY <1>3 DEF Waiting
<1>5. CASE WriteFailClosing(w) \/ WriteFailClosed(w) \/ (WriteFailOpen(w) /\ ~Retrying)
  <2>1. buffer' = queued /\ dropped' = dropped
    BY <1>5 DEF WriteFailClosing, WriteFailClosed, WriteFailOpen
  <2> QED  BY <1>2, <1>3, <1>4, <2>1, Stutter DEF QueueStutter
<1> HIDE DEF queued
<1>6. CASE WriteFailRecovering(w)
  <2>1. FailRecoveryAttempt(queued)
    BY <1>6 DEF WriteFailRecovering, queued
  <2>2. CASE buffer' = queued /\ dropped' = dropped
    BY <1>2, <1>3, <1>4, <2>2, Stutter DEF QueueStutter
  <2>3. CASE buffer' = <<>> /\ dropped' = dropped + Len(queued)
    <3>1. <<>> \in Seq(Nat) /\ queued = <<>> \o queued
      BY <1>1, CutNothing
    <3> QED  BY <1>1, <1>2, <1>3, <1>4, <2>3, <3>1, GiveUpTail DEF QueueStep
  <2> QED  BY <2>1, <2>2, <2>3, FailRecoveryWaiting
<1>7. CASE WriteFailOpen(w) /\ Retrying
  <2>1. ScheduleRetry(queued)
    BY <1>7 DEF WriteFailOpen, queued
  <2>2. CASE buffer' = queued /\ dropped' = dropped
    BY <1>2, <1>3, <1>4, <2>2, Stutter DEF QueueStutter
  <2>3. CASE DropHead(queued)
    <3> DEFINE n == BatchLen(queued)
    <3>1. n \in 1 .. Len(queued)
      <4>1. n \in Nat /\ n <= Len(queued) /\ Len(HeadBatch(queued)) = n
            /\ HeadBatch(queued) # <<>> /\ HeadBatch(queued) \in Seq(Nat)
        BY <1>1, TakeBatch
      <4>2. n > 0
        BY <4>1, CutNothing
      <4> QED  BY <1>1, <4>1, <4>2, CutNothing
    <3>2. /\ buffer' = SubSeq(queued, n + 1, Len(queued))
          /\ dropped' = dropped + n
      BY <2>3 DEF DropHead, AfterBatch
    <3> HIDE DEF n
    <3>3. SubSeq(queued, n + 1, Len(queued)) \in Seq(Nat)
      BY <1>1, <3>1
    <3>4. Waiting' = SubSeq(Waiting, 1, 1 - 1) \o SubSeq(Waiting, n + 1, Len(Waiting))
      <4> DEFINE left == SubSeq(queued, n + 1, Len(queued))
      <4>1. SubSeq(queued, 1, 0) = <<>>
        BY <1>1, CutNothing
      <4>2. left \in Seq(Nat) /\ Waiting' = left
        BY <1>4, <3>2, <3>3
      <4> HIDE DEF left
      <4>3. Waiting' = SubSeq(queued, 1, 0) \o left
        BY <4>1, <4>2, CutNothing
      <4>4. 1 - 1 = 0
        OBVIOUS
      <4> QED  BY <1>2, <4>3, <4>4 DEF left
    <3>5. dropped' = dropped + (n + 1 - 1)
      BY <3>1, <3>2
    <3>6. Queue!GiveUp(1, n)
      BY <1>3, <3>4, <3>5 DEF Queue!GiveUp
    <3>7. 1 \in 1 .. Len(Waiting) /\ n \in 1 .. Len(Waiting)
      BY <1>1, <1>2, <3>1, CutNothing
    <3> QED  BY <3>6, <3>7 DEF QueueStep, Queue!Next
  <2> QED  BY <2>1, <2>2, <2>3, Zenon DEF ScheduleRetry
<1> QED  BY <1>5, <1>6, <1>7, Zenon DEF WriteFail

\* A failed factory call changes the queue only by giving the buffer up behind
\* the batch that is still in flight.
LEMMA FactoryFailStep ==
    ASSUME DataOK, SingleFlight, FactoryFail
    PROVE  QueueStep
<1>1. buffer \in Seq(Nat) /\ dropped \in Nat
      /\ UNCHANGED <<offered, delivered, inflight>>
  BY DEF DataOK, FactoryFail
<1>2. CASE buffer' = buffer /\ dropped' = dropped
  BY <1>1, <1>2, Stutter DEF QueueStutter, Waiting
<1>3. CASE buffer' = <<>> /\ dropped' = dropped + Len(buffer)
  <2>1. CASE buffer = <<>>
    <3>1. buffer' = buffer /\ dropped' = dropped
      BY <1>1, <1>3, <2>1, CutNothing
    <3> QED  BY <1>2, <3>1
  <2>2. CASE buffer # <<>> /\ inflight = {}
    <3>1. /\ Waiting = <<>> \o buffer /\ Waiting' = <<>> /\ <<>> \in Seq(Nat)
      BY <1>1, <1>3, <2>2, CutNothing DEF Waiting
    <3> QED  BY <1>1, <1>3, <2>2, <3>1, GiveUpTail DEF QueueStep
  <2>3. CASE buffer # <<>> /\ inflight # {}
    <3>1. PICK w \in inflight : TRUE
      BY <2>3
    <3>2. w \in Seq(Nat) /\ Waiting = w \o buffer
      BY WaitingBusy DEF DataOK
    <3>3. Waiting' = w \o <<>>
      BY <1>1, <1>3, <3>1 DEF Waiting, SingleFlight
    <3>4. Waiting' = w
      BY <3>2, <3>3, CutNothing
    <3> QED  BY <1>1, <1>3, <2>3, <3>2, <3>4, GiveUpTail DEF QueueStep
  <2> QED  BY <2>1, <2>2, <2>3
<1>4. \/ buffer' = buffer /\ dropped' = dropped
      \/ buffer' = <<>> /\ dropped' = dropped + Len(buffer)
  BY FailRecoveryWaiting, Zenon DEF FactoryFail
<1> QED  BY <1>2, <1>3, <1>4

\* Every step of the transport is a step of the queue or a stutter.
LEMMA NextStep ==
    ASSUME DataOK, SingleFlight, BatchesNotEmpty, [Next]_vars
    PROVE  QueueStep
<1>1. CASE WriteQueued \/ WriteRefused
  BY <1>1, WriteStep
<1>2. CASE \E w \in inflight : WriteOk(w) \/ WriteFail(w)
  BY <1>2, WriteOkStep, WriteFailStep
<1>3. CASE FactoryFail
  BY <1>3, FactoryFailStep
<1> QED  BY <1>1, <1>2, <1>3, TriggerStep, Stutter DEF Next

-----------------------------------------------------------------------------
(* The refinement, and what the transport inherits.                        *)

\* The database transport is a delivery queue, for every setting.
THEOREM QueueImplemented == Spec => ImplementsQueue
<1>1. Init => Abstract!Init
  BY WaitingIdle DEF Init, Abstract!Init
<1>2. TypeOK /\ ControlInv /\ [Next]_vars => [Abstract!Next]_Abstract!qvars
  <2> SUFFICES ASSUME TypeOK, ControlInv, [Next]_vars
               PROVE  [Abstract!Next]_Abstract!qvars
    OBVIOUS
  <2>1. QueueStep
    BY NextStep DEF TypeOK, ControlInv
  <2> QED
    BY <2>1 DEF QueueStep, Queue!Next, Queue!Accept, Queue!Refuse, Queue!Deliver,
         Queue!GiveUp, Queue!qvars, Abstract!Next, Abstract!Accept, Abstract!Refuse,
         Abstract!Deliver, Abstract!GiveUp, Abstract!qvars
<1> QED
  BY <1>1, <1>2, TypeCorrect, ControlCorrect, PTL DEF Spec, ImplementsQueue, Abstract!Spec

\* What is proved of the abstract queue holds of the transport.
LEMMA QueueInvariant == Spec => []Queue!QueueInv
<1>1. Init => Queue!Init
  BY WaitingIdle DEF Init, Queue!Init
<1>2. TypeOK /\ ControlInv /\ [Next]_vars => [Queue!Next]_Queue!qvars
  BY NextStep DEF TypeOK, ControlInv, QueueStep
<1>3. Spec => Queue!Spec
  BY <1>1, <1>2, TypeCorrect, ControlCorrect, PTL DEF Spec, Queue!Spec
<1>4. Queue!Spec => []Queue!QueueInv
  BY Queue!QueueCorrect
<1> QED  BY <1>3, <1>4, PTL

\* Strict FIFO order survives failures, requeueing, backoff and rebuilds.
THEOREM FifoCorrect == Spec => []StrictFifo
<1>1. Queue!QueueInv => StrictFifo
  BY DEF Queue!QueueInv, Queue!InOrder, Queue!Increasing, StrictFifo, Increasing
<1> QED  BY <1>1, QueueInvariant, PTL

\* Every entry write() let in is acknowledged, waiting or counted as dropped.
THEOREM AccountingCorrect == Spec => []Accounting
<1>1. Queue!QueueInv => Accounting
  BY DEF Queue!QueueInv, Queue!Counted, Accounting
<1> QED  BY <1>1, QueueInvariant, PTL
=============================================================================
