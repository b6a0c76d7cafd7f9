----------------------- MODULE AsyncTransport_proofs -----------------------
(***************************************************************************)
(* Proofs about AsyncTransport, for every batch size, queue limit and kind *)
(* of wrapped transport: the bound of the queue, the wake-ups, the order   *)
(* of shutdown, and that it implements the delivery queue.                 *)
(***************************************************************************)
EXTENDS AsyncTransport, Containers_proofs

USE DEF history, counters, schedule, vars, closed

Queue == INSTANCE DeliveryQueue_proofs
             WITH waiting <- Waiting, dropped <- dropped + lost

-----------------------------------------------------------------------------

\* takeBatch splits a buffer: a batch that is empty only if the buffer is, and
\* the rest, with nothing lost in between.
LEMMA TakeBatch ==
    ASSUME NEW buf \in Seq(Nat)
    PROVE  /\ HeadBatch(buf) \in Seq(Nat) /\ AfterBatch(buf) \in Seq(Nat)
           /\ BatchLen(buf) \in Nat /\ BatchLen(buf) <= Len(buf)
           /\ Len(HeadBatch(buf)) = BatchLen(buf)
           /\ Len(AfterBatch(buf)) = Len(buf) - BatchLen(buf)
           /\ buf # <<>> => HeadBatch(buf) # <<>>
           /\ \A i \in 1 .. BatchLen(buf) : HeadBatch(buf)[i] = buf[i]
           /\ \A i \in 1 .. Len(AfterBatch(buf)) : AfterBatch(buf)[i] = buf[i + BatchLen(buf)]
           /\ HeadBatch(buf) \o AfterBatch(buf) = buf
<1>1. BatchLen(buf) \in 0 .. Len(buf) /\ (buf # <<>> => BatchLen(buf) > 0)
  BY BatchSizeAssumption, LenProperties, EmptySeq DEF BatchLen, Shorter
<1> DEFINE n == BatchLen(buf)
<1> HIDE DEF n
<1>2. n \in 0 .. Len(buf) /\ (buf # <<>> => n > 0) /\ Len(buf) \in Nat
  BY <1>1, LenProperties DEF n
<1> DEFINE h == SubSeq(buf, 1, n)
           t == SubSeq(buf, n + 1, Len(buf))
<1>3. /\ h \in Seq(Nat) /\ t \in Seq(Nat) /\ Len(h) = n /\ Len(t) = Len(buf) - n
      /\ \A i \in 1 .. n : h[i] = buf[i]
      /\ \A i \in 1 .. Len(buf) - n : t[i] = buf[i + n]
      /\ h \o t = buf
  BY <1>2, SplitAt
<1>4. HeadBatch(buf) = h /\ AfterBatch(buf) = t
  BY DEF HeadBatch, AfterBatch, n
<1> HIDE DEF h, t
<1>5. buf # <<>> => HeadBatch(buf) # <<>>
  BY <1>2, <1>3, <1>4
<1>6. /\ BatchLen(buf) = n /\ n \in Nat /\ n <= Len(buf) /\ Len(buf) - n = Len(t)
  BY <1>2, <1>3 DEF n
<1> QED  BY <1>3, <1>4, <1>5, <1>6

(* The inductive invariant.                                                *)

\* A batch that runs has something left to send; a microtask that is scheduled
\* is queued.
BatchRuns == IF batch = <<>> THEN sent = 0 ELSE sent < Len(batch)
ScheduledIsQueued == scheduled => microtasks > 0

AsyncInv == /\ DataOK /\ closing \in Phases
            /\ BatchRuns /\ ScheduledIsQueued
            /\ QueueBounded /\ QueueIsWatched /\ InnerClosedLast

\* flush() moves entries from the queue into a batch, and awaits one exactly
\* when there is anything to settle.
LEMMA FlushCallControl ==
    ASSUME NEW q \in Seq(Nat), NEW n, NEW others, DataOK, BatchRuns,
           FlushCall(q, n, others)
    PROVE  /\ queue' \in Seq(Nat) /\ batch' \in Seq(Nat) /\ sent' \in Nat
           /\ BatchRuns'
           /\ Len(batch') + Len(queue') = Len(batch) + Len(q)
           /\ batch # <<>> \/ q # <<>> =>
                 batch' # <<>> /\ flushes' = others \cup {Awaiting(n)}
           /\ batch = <<>> /\ q = <<>> =>
                 batch' = <<>> /\ queue' = <<>> /\ flushes' = others
<1>1. /\ batch \in Seq(Nat) /\ Len(batch) \in Nat /\ Len(q) \in Nat
      /\ (batch = <<>> => Len(batch) = 0) /\ sent \in Nat
  BY CutNothing DEF DataOK
<1>2. CASE batch # <<>>
  <2>1. queue' = q /\ batch' = batch /\ sent' = sent
        /\ flushes' = others \cup {Awaiting(n)}
    BY <1>2 DEF FlushCall, RunFlush
  <2> QED  BY <1>1, <1>2, <2>1 DEF BatchRuns
<1>3. CASE batch = <<>> /\ q # <<>>
  <2>1. /\ queue' = AfterBatch(q) /\ batch' = HeadBatch(q) /\ sent' = 0
        /\ flushes' = others \cup {Awaiting(n)}
    BY <1>3 DEF FlushCall, RunFlush
  <2>2. /\ HeadBatch(q) \in Seq(Nat) /\ AfterBatch(q) \in Seq(Nat)
        /\ HeadBatch(q) # <<>> /\ Len(HeadBatch(q)) + Len(AfterBatch(q)) = Len(q)
        /\ Len(HeadBatch(q)) > 0
    BY <1>1, <1>3, TakeBatch, CutNothing
  <2> QED  BY <1>1, <1>3, <2>1, <2>2 DEF BatchRuns
<1>4. CASE batch = <<>> /\ q = <<>>
  <2>1. /\ queue' = AfterBatch(q) /\ batch' = HeadBatch(q) /\ sent' = 0
        /\ flushes' = others
    BY <1>4 DEF FlushCall, RunFlush
  <2>2. /\ HeadBatch(q) \in Seq(Nat) /\ AfterBatch(q) \in Seq(Nat)
        /\ HeadBatch(q) = <<>> /\ AfterBatch(q) = <<>>
    <3>1. /\ HeadBatch(q) \in Seq(Nat) /\ AfterBatch(q) \in Seq(Nat)
          /\ BatchLen(q) \in Nat /\ BatchLen(q) <= Len(q)
          /\ Len(HeadBatch(q)) = BatchLen(q)
          /\ Len(AfterBatch(q)) = Len(q) - BatchLen(q)
      BY TakeBatch
    <3>2. Len(q) = 0
      BY <1>4, EmptySeq
    <3>3. Len(HeadBatch(q)) = 0 /\ Len(AfterBatch(q)) = 0
      BY <3>1, <3>2
    <3> QED  BY <3>1, <3>3, EmptySeq
  <2> QED  BY <1>1, <1>4, <2>1, <2>2 DEF BatchRuns
<1> QED  BY <1>2, <1>3, <1>4

\* A flush() of whoever calls it: the invariant holds whatever was being waited
\* for, once its caller is not counted on any more.
LEMMA FlushKeeps ==
    ASSUME NEW q \in Seq(Nat), NEW n, NEW others, AsyncInv,
           FlushCall(q, n, others),
           others \subseteq flushes, pending' = Len(batch) + Len(q),
           pending' <= MaxQueueSize, closing' = closing \/ closing' = "waiting",
           closing' = "waiting" => batch # <<>> \/ q # <<>>,
           closing \in {"drained", "closed"} => q = <<>>
    PROVE  /\ BatchRuns' /\ QueueBounded' /\ QueueIsWatched' /\ InnerClosedLast'
           /\ queue' \in Seq(Nat) /\ batch' \in Seq(Nat) /\ sent' \in Nat
<1>1. /\ queue' \in Seq(Nat) /\ batch' \in Seq(Nat) /\ sent' \in Nat
      /\ BatchRuns'
      /\ Len(batch') + Len(queue') = Len(batch) + Len(q)
      /\ batch # <<>> \/ q # <<>> =>
            batch' # <<>> /\ flushes' = others \cup {Awaiting(n)}
      /\ batch = <<>> /\ q = <<>> =>
            batch' = <<>> /\ queue' = <<>> /\ flushes' = others
  BY FlushCallControl DEF AsyncInv
<1>2. QueueBounded'
  BY <1>1 DEF QueueBounded
<1>3. QueueIsWatched'
  <2>1. CASE batch # <<>> \/ q # <<>>
    BY <1>1, <2>1 DEF QueueIsWatched
  <2>2. CASE batch = <<>> /\ q = <<>>
    BY <1>1, <2>2 DEF AsyncInv, QueueIsWatched
  <2> QED  BY <2>1, <2>2
<1>4. InnerClosedLast'
  BY <1>1 DEF AsyncInv, InnerClosedLast
<1> QED  BY <1>1, <1>2, <1>3, <1>4

\* What is left of a batch is a sequence of entries.
LEMMA RestType ==
    ASSUME batch \in Seq(Nat), sent \in Nat
    PROVE  Rest \in Seq(Nat) /\ Len(Rest) \in Nat
<1>1. \A i \in 1 .. Len(batch) : batch[i] \in Nat
  BY ElementOfSeq
<1>2. \A i \in sent + 1 .. Len(batch) : batch[i] \in Nat
  BY <1>1
<1>3. Rest \in Seq(Nat)
  BY <1>2, SubSeqProperties, LenProperties DEF Rest
<1> QED  BY <1>3, LenProperties

\* The end of a batch frees its places, wakes whoever awaits it, and leaves a
\* microtask for what is still queued.
LEMMA SettleKeeps ==
    ASSUME AsyncInv, batch # <<>>, Settle, UNCHANGED queue
    PROVE  /\ pending' \in Nat /\ batch' = <<>> /\ sent' = 0 /\ microtasks' \in Nat
           /\ ScheduledIsQueued' /\ BatchRuns' /\ closing' \in Phases
           /\ QueueBounded' /\ QueueIsWatched' /\ InnerClosedLast'
<1>1. /\ batch' = <<>> /\ sent' = 0 /\ queue' = queue
      /\ pending' = pending - Len(batch)
      /\ closing' = IF closing = "waiting" THEN "resumed" ELSE closing
      /\ flushes' = {Resumed(f.upTo) : f \in flushes}
      /\ ScheduleFlush(queue, FALSE)
  BY DEF Settle
<1>2. /\ Len(batch) \in Nat /\ Len(queue) \in Nat /\ Len(<<>>) = 0
      /\ pending = Len(batch) + Len(queue) /\ pending <= MaxQueueSize
      /\ microtasks \in Nat /\ ScheduledIsQueued
  BY LenProperties, EmptySeq DEF AsyncInv, DataOK, QueueBounded
<1>3. /\ pending' = Len(queue) /\ pending' <= MaxQueueSize /\ pending' \in Nat
  BY <1>1, <1>2, AsyncAssumption
<1>4. /\ microtasks' \in Nat /\ ScheduledIsQueued'
      /\ queue # <<>> => microtasks' > 0
  BY <1>1, <1>2 DEF ScheduleFlush, ScheduledIsQueued
<1>5. /\ closing' \in Phases /\ closing' # "waiting"
      /\ closing' \notin {"drained", "closed"}
  BY <1>1 DEF AsyncInv, Phases, InnerClosedLast
<1>6. QueueBounded'
  BY <1>1, <1>2, <1>3 DEF QueueBounded
<1>7. QueueIsWatched'
  <2>1. \A f \in flushes' : f.resumed
    BY <1>1 DEF Resumed
  <2> QED  BY <1>1, <1>4, <1>5, <2>1 DEF QueueIsWatched
<1> QED  BY <1>1, <1>3, <1>4, <1>5, <1>6, <1>7 DEF BatchRuns, InnerClosedLast

\* The constructor leaves an empty, open transport that nobody waits for.
LEMMA InitAsync == Init => AsyncInv
<1> SUFFICES ASSUME Init PROVE AsyncInv
  OBVIOUS
<1>1. <<>> \in Seq(Nat) /\ Len(<<>>) = 0
  BY EmptySeq
<1> QED
  BY <1>1, AsyncAssumption
  DEF Init, AsyncInv, DataOK, Phases, BatchRuns, ScheduledIsQueued, QueueBounded,
      QueueIsWatched, InnerClosedLast

\* write(), taken or refused, keeps the bound and leaves a wake-up for the entry.
LEMMA WriteAsync ==
    ASSUME AsyncInv, WriteRefused \/ \E urgent \in BOOLEAN : WriteQueued(urgent)
    PROVE  AsyncInv'
<1>1. CASE WriteRefused
  BY <1>1
  DEF WriteRefused, AsyncInv, DataOK, BatchRuns, ScheduledIsQueued, QueueBounded,
      QueueIsWatched, InnerClosedLast
<1>2. ASSUME NEW urgent \in BOOLEAN, WriteQueued(urgent) PROVE AsyncInv'
  <2> DEFINE q == Append(queue, offered + 1)
  <2>1. /\ q \in Seq(Nat) /\ Len(q) = Len(queue) + 1 /\ q # <<>>
        /\ Len(queue) \in Nat /\ Len(batch) \in Nat
    <3>1. queue \in Seq(Nat) /\ batch \in Seq(Nat) /\ offered + 1 \in Nat
      BY DEF AsyncInv, DataOK
    <3>2. PICK n \in Nat : n = offered + 1
      BY <3>1
    <3>3. /\ Append(queue, n) \in Seq(Nat) /\ Append(queue, n) # <<>>
          /\ Len(Append(queue, n)) = Len(queue) + 1
      BY <3>1, AppendProperties, SMTT(20)
    <3>4. Len(queue) \in Nat /\ Len(batch) \in Nat
      BY <3>1, LenProperties
    <3> QED  BY <3>2, <3>3, <3>4
  <2>2. /\ pending' = Len(batch) + Len(q) /\ pending' <= MaxQueueSize
        /\ pending' \in Nat /\ offered' \in Nat
    BY <1>2, <2>1, AsyncAssumption DEF WriteQueued, Full, AsyncInv, DataOK, QueueBounded
  <2>3. /\ closing = "open" /\ closing' = "open"
        /\ UNCHANGED <<delivered, lost, dropped, transportErrors>>
    BY <1>2 DEF WriteQueued, Full
  <2>4. CASE FlushCall(q, offered + 1, flushes) /\ UNCHANGED schedule
    <3> HIDE DEF q
    <3>1. /\ BatchRuns' /\ QueueBounded' /\ QueueIsWatched' /\ InnerClosedLast'
          /\ queue' \in Seq(Nat) /\ batch' \in Seq(Nat) /\ sent' \in Nat
      BY <2>1, <2>2, <2>3, <2>4, FlushKeeps
    <3> QED
      BY <2>2, <2>3, <2>4, <3>1 DEF AsyncInv, DataOK, ScheduledIsQueued
  <2>5. CASE /\ queue' = q /\ ScheduleFlush(q, batch # <<>>)
             /\ UNCHANGED <<batch, sent, flushes>>
    <3> HIDE DEF q
    <3>1. /\ microtasks' \in Nat /\ ScheduledIsQueued'
          /\ batch # <<>> \/ microtasks' > 0
      BY <2>1, <2>5 DEF ScheduleFlush, AsyncInv, DataOK, ScheduledIsQueued
    <3>2. QueueIsWatched' /\ InnerClosedLast'
      BY <2>3, <2>5, <3>1 DEF AsyncInv, QueueIsWatched, InnerClosedLast
    <3>3. QueueBounded'
      BY <2>2, <2>5 DEF QueueBounded
    <3> QED
      BY <2>1, <2>2, <2>3, <2>5, <3>1, <3>2, <3>3 DEF AsyncInv, DataOK, BatchRuns
  <2> QED  BY <1>2, <2>4, <2>5, Zenon DEF WriteQueued
<1> QED  BY <1>1, <1>2

\* A flush by a microtask, the interval, a caller or its own continuation.
LEMMA FlushAsync ==
    ASSUME AsyncInv,
           \/ Microtask \/ IntervalTick \/ Flush
           \/ \E f \in flushes : FlushResumes(f.upTo)
    PROVE  AsyncInv'
<1>1. ASSUME NEW n, NEW others, others \subseteq flushes,
             FlushCall(queue, n, others), UNCHANGED <<history, counters, closing>>,
             microtasks' \in Nat, ScheduledIsQueued'
      PROVE  AsyncInv'
  <2>1. /\ queue \in Seq(Nat) /\ pending' = Len(batch) + Len(queue)
        /\ pending' <= MaxQueueSize
        /\ closing = "waiting" => batch # <<>>
        /\ closing \in {"drained", "closed"} => queue = <<>>
    BY <1>1 DEF AsyncInv, DataOK, QueueBounded, QueueIsWatched, InnerClosedLast
  <2>2. /\ BatchRuns' /\ QueueBounded' /\ QueueIsWatched' /\ InnerClosedLast'
        /\ queue' \in Seq(Nat) /\ batch' \in Seq(Nat) /\ sent' \in Nat
    BY <1>1, <2>1, FlushKeeps
  <2> QED  BY <1>1, <2>2 DEF AsyncInv, DataOK
<1>2. CASE Microtask
  <2>1. microtasks' \in Nat /\ ScheduledIsQueued'
    BY <1>2 DEF Microtask, AsyncInv, DataOK, ScheduledIsQueued
  <2> QED  BY <1>1, <1>2, <2>1 DEF Microtask
<1>3. CASE IntervalTick \/ Flush
  <2>1. microtasks' \in Nat /\ ScheduledIsQueued'
    BY <1>3 DEF IntervalTick, Flush, AsyncInv, DataOK, ScheduledIsQueued
  <2> QED  BY <1>1, <1>3, <2>1 DEF IntervalTick, Flush
<1>4. ASSUME NEW f \in flushes, FlushResumes(f.upTo) PROVE AsyncInv'
  <2>1. microtasks' \in Nat /\ ScheduledIsQueued'
    BY <1>4 DEF FlushResumes, AsyncInv, DataOK, ScheduledIsQueued
  <2>2. flushes \ {Resumed(f.upTo)} \subseteq flushes
    OBVIOUS
  <2> QED  BY <1>1, <1>4, <2>1, <2>2 DEF FlushResumes
<1> QED  BY <1>2, <1>3, <1>4

\* The wrapped transport settles an entry or the batch: what waits is rescheduled.
LEMMA BatchAsync ==
    ASSUME AsyncInv, EntryWritten \/ BatchWritten \/ BatchFails
    PROVE  AsyncInv'
<1>1. /\ delivered \in Seq(Nat) /\ lost \in Nat /\ transportErrors \in Nat
      /\ sent \in Nat /\ batch \in Seq(Nat) /\ Len(batch) \in Nat
  BY LenProperties DEF AsyncInv, DataOK
<1>2. CASE EntryWritten
  <2>1. sent + 1 \in 1 .. Len(batch) /\ sent + 1 < Len(batch)
    BY <1>1, <1>2 DEF EntryWritten
  <2>2. batch[sent + 1] \in Nat
    BY <1>1, <2>1, ElementOfSeq
  <2>3. delivered' \in Seq(Nat) /\ sent' = sent + 1
    BY <1>1, <1>2, <2>2, AppendProperties DEF EntryWritten
  <2>4. BatchRuns' /\ UNCHANGED <<offered, lost, queue, batch, counters, schedule,
                                  flushes, closing>>
    BY <1>1, <1>2, <2>1, <2>3, EmptySeq DEF EntryWritten, BatchRuns
  <2> QED
    BY <1>1, <2>3, <2>4
    DEF AsyncInv, DataOK, ScheduledIsQueued, QueueBounded, QueueIsWatched,
        InnerClosedLast
<1>3. CASE BatchWritten \/ BatchFails
  <2>1. batch # <<>> /\ Settle /\ UNCHANGED <<queue, offered, dropped>>
    BY <1>3 DEF BatchWritten, BatchFails
  <2>2. /\ pending' \in Nat /\ batch' = <<>> /\ sent' = 0 /\ microtasks' \in Nat
        /\ ScheduledIsQueued' /\ BatchRuns' /\ closing' \in Phases
        /\ QueueBounded' /\ QueueIsWatched' /\ InnerClosedLast'
    BY <2>1, SettleKeeps
  <2>3. Rest \in Seq(Nat) /\ Len(Rest) \in Nat
    BY <1>1, RestType
  <2>4. delivered' \in Seq(Nat) /\ lost' \in Nat /\ transportErrors' \in Nat
    <3>1. CASE delivered' = delivered \o Rest /\ UNCHANGED <<lost, transportErrors>>
      BY <1>1, <2>3, <3>1, ConcatProperties
    <3>2. CASE /\ lost' = lost + Len(Rest) /\ transportErrors' = transportErrors + 1
               /\ UNCHANGED delivered
      BY <1>1, <2>3, <3>2
    <3> QED  BY <1>3, <3>1, <3>2 DEF BatchWritten, BatchFails
  <2>5. <<>> \in Seq(Nat)
    BY EmptySeq
  <2> QED  BY <2>1, <2>2, <2>4, <2>5 DEF AsyncInv, DataOK
<1> QED  BY <1>2, <1>3

\* The steps of close() see every batch, also those others started.
LEMMA CloseAsync ==
    ASSUME AsyncInv, Close \/ CloseResumes \/ CloseInner
    PROVE  AsyncInv'
<1>1. CASE CloseInner
  BY <1>1
  DEF CloseInner, AsyncInv, DataOK, Phases, BatchRuns, ScheduledIsQueued, QueueBounded,
      QueueIsWatched, InnerClosedLast
<1>2. CASE Close \/ CloseResumes
  <2>1. /\ WaitForFlushes /\ UNCHANGED <<history, counters, microtasks>>
        /\ ScheduledIsQueued' /\ closing \in {"open", "resumed"}
    BY <1>2 DEF Close, CloseResumes, AsyncInv, ScheduledIsQueued
  <2>2. CASE /\ batch # <<>> /\ closing' = "waiting"
             /\ UNCHANGED <<queue, batch, sent, flushes>>
    BY <2>1, <2>2
    DEF AsyncInv, DataOK, Phases, BatchRuns, QueueBounded, QueueIsWatched, InnerClosedLast
  <2>3. CASE /\ batch = <<>> /\ queue # <<>>
             /\ FlushCall(queue, offered, flushes) /\ closing' = "waiting"
    <3>1. /\ queue \in Seq(Nat) /\ pending' = Len(batch) + Len(queue)
          /\ pending' <= MaxQueueSize /\ closing \notin {"drained", "closed"}
      BY <2>1 DEF AsyncInv, DataOK, QueueBounded
    <3>2. /\ BatchRuns' /\ QueueBounded' /\ QueueIsWatched' /\ InnerClosedLast'
          /\ queue' \in Seq(Nat) /\ batch' \in Seq(Nat) /\ sent' \in Nat
      BY <2>3, <3>1, FlushKeeps
    <3> QED  BY <2>1, <2>3, <3>2 DEF AsyncInv, DataOK, Phases
  <2>4. CASE /\ batch = <<>> /\ queue = <<>> /\ closing' = "drained"
             /\ UNCHANGED <<queue, batch, sent, flushes>>
    BY <2>1, <2>4
    DEF AsyncInv, DataOK, Phases, BatchRuns, QueueBounded, QueueIsWatched, InnerClosedLast
  <2> QED  BY <2>1, <2>2, <2>3, <2>4, Zenon DEF WaitForFlushes
<1> QED  BY <1>1, <1>2

\* AsyncInv is inductive: every step of the transport keeps it.
LEMMA NextAsync == AsyncInv /\ [Next]_vars => AsyncInv'
<1> SUFFICES ASSUME AsyncInv, [Next]_vars PROVE AsyncInv'
  OBVIOUS
<1>1. CASE UNCHANGED vars
  BY <1>1
  DEF AsyncInv, DataOK, BatchRuns, ScheduledIsQueued, QueueBounded, QueueIsWatched,
      InnerClosedLast
<1> QED
  BY <1>1, WriteAsync, FlushAsync, BatchAsync, CloseAsync DEF Next

\* The queue, the wake-ups and the shutdown of the batching transport stay in
\* step, whatever its callers, microtasks and wrapped transport do.
THEOREM AsyncCorrect == Spec => []AsyncInv
BY InitAsync, NextAsync, PTL DEF Spec

\* maxQueueSize bounds what is taken and not settled, and stats() says how much.
THEOREM QueueBoundedCorrect == Spec => []QueueBounded
BY AsyncCorrect, PTL DEF AsyncInv

\* No entry, no flush() and no close() waits for a wake-up that nobody sends.
THEOREM QueueIsWatchedCorrect == Spec => []QueueIsWatched
BY AsyncCorrect, PTL DEF AsyncInv

\* The wrapped transport is closed after the last batch.
THEOREM InnerClosedLastCorrect == Spec => []InnerClosedLast
BY AsyncCorrect, PTL DEF AsyncInv

-----------------------------------------------------------------------------
(* Steps of the queue.                                                     *)

\* A sequence whose length is one is its first element.
LEMMA OneElement ==
    ASSUME NEW t \in Seq(Nat), Len(t) = 1
    PROVE  t = <<t[1]>>
<1>0. 1 \in 1 .. Len(t)
  OBVIOUS
<1>1. t[1] \in Nat
  BY <1>0, ElementOfSeq
<1>2. PICK e \in Nat : e = t[1]
  BY <1>1
<1>3. <<e>> \in Seq(Nat) /\ Len(<<e>>) = 1 /\ <<e>>[1] = e
  OBVIOUS
<1>4. PICK u \in Seq(Nat) : u = <<e>>
  BY <1>3
<1>5. Len(u) = 1 /\ u[1] = t[1]
  BY <1>2, <1>3, <1>4
<1>6. t = u
  BY <1>5, SeqEqual
<1> QED  BY <1>2, <1>4, <1>6

\* A piece of a sequence is its first element and the piece behind it.
LEMMA OneAndRest ==
    ASSUME NEW s \in Seq(Nat), NEW m \in Nat, m < Len(s)
    PROVE  /\ SubSeq(s, m + 1, Len(s)) = <<s[m + 1]>> \o SubSeq(s, (m + 1) + 1, Len(s))
           /\ SubSeq(s, (m + 1) + 1, Len(s)) \in Seq(Nat)
           /\ s[m + 1] \in Nat
<1>1. m + 1 \in 1 .. Len(s) /\ Len(s) \in Nat
  BY LenProperties
<1>2. s[m + 1] \in Nat
  BY <1>1, ElementOfSeq
<1>3. SubSeq(s, (m + 1) + 1, Len(s)) \in Seq(Nat)
  <2>1. \A i \in 1 .. Len(s) : s[i] \in Nat
    BY ElementOfSeq
  <2>2. PICK k \in Nat : k = (m + 1) + 1
    OBVIOUS
  <2>3. \A i \in k .. Len(s) : s[i] \in Nat
    BY <1>1, <2>1, <2>2
  <2>4. SubSeq(s, k, Len(s)) \in Seq(Nat)
    BY <1>1, <2>3, SubSeqProperties
  <2> QED  BY <2>2, <2>4
<1>4. SubSeq(s, m + 1, m + 1) = <<s[m + 1]>>
  <2>1. PICK k \in 1 .. Len(s) : k = m + 1
    BY <1>1
  <2>2. \A i \in 1 .. Len(s) : s[i] \in Nat
    BY ElementOfSeq
  <2>3. /\ SubSeq(s, k, k) \in Seq(Nat) /\ Len(SubSeq(s, k, k)) = 1
        /\ SubSeq(s, k, k)[1] = s[k]
    BY <1>1, <2>2, SubSeqProperties
  <2>4. PICK t \in Seq(Nat) : t = SubSeq(s, k, k)
    BY <2>3
  <2>5. t = <<t[1]>>
    BY <2>3, <2>4, OneElement
  <2> QED  BY <2>1, <2>3, <2>4, <2>5
<1>5. /\ m + 1 \in 1 .. Len(s) + 1 /\ m + 1 \in (m + 1) - 1 .. Len(s)
      /\ Len(s) \in m + 1 .. Len(s)
  BY <1>1
<1>6. SubSeq(s, m + 1, m + 1) \o SubSeq(s, (m + 1) + 1, Len(s))
        = SubSeq(s, m + 1, Len(s))
  BY <1>5, ConcatAdjacentSubSeq
<1> QED  BY <1>2, <1>3, <1>4, <1>6

\* What is acknowledged from the head of the queue is delivered.
LEMMA DeliverHead ==
    ASSUME NEW a \in Seq(Nat), NEW b \in Seq(Nat), a # <<>>,
           Waiting = a \o b, Waiting' = b, delivered' = delivered \o a,
           UNCHANGED <<offered, dropped, lost>>
    PROVE  Queue!Next
<1> DEFINE n == Len(a)
<1>1. n \in 1 .. Len(Waiting)
  BY ConcatProperties, CutNothing
<1>2. SubSeq(Waiting, 1, n) = a /\ SubSeq(Waiting, n + 1, Len(Waiting)) = b
  BY CutConcat
<1> HIDE DEF n
<1>3. Queue!Deliver(n)
  BY <1>2 DEF Queue!Deliver
<1> QED  BY <1>1, <1>3 DEF Queue!Next

\* What is lost from the head of the queue is given up.
LEMMA GiveUpHead ==
    ASSUME NEW a \in Seq(Nat), NEW b \in Seq(Nat), a # <<>>,
           Waiting = a \o b, Waiting' = b, lost' = lost + Len(a),
           dropped \in Nat, lost \in Nat,
           UNCHANGED <<offered, delivered, dropped>>
    PROVE  Queue!Next
<1> DEFINE n == Len(a)
<1>1. /\ n \in 1 .. Len(Waiting) /\ 1 \in 1 .. Len(Waiting) /\ n \in Nat
      /\ a \o b \in Seq(Nat)
  BY ConcatProperties, CutNothing
<1>2. SubSeq(Waiting, n + 1, Len(Waiting)) = b
  BY CutConcat
<1> HIDE DEF n
<1>3. SubSeq(Waiting, 1, 1 - 1) = <<>>
  <2>1. 1 - 1 = 0
    OBVIOUS
  <2> QED  BY <1>1, <2>1, CutNothing
<1>4. SubSeq(Waiting, 1, 1 - 1) \o SubSeq(Waiting, n + 1, Len(Waiting)) = b
  BY <1>2, <1>3, CutNothing
<1>5. dropped' + lost' = (dropped + lost) + (n + 1 - 1)
  BY <1>1 DEF n
<1>6. Queue!GiveUp(1, n)
  BY <1>4, <1>5 DEF Queue!GiveUp
<1> QED  BY <1>1, <1>6 DEF Queue!Next

-----------------------------------------------------------------------------
(* The batching transport implements the delivery queue.                   *)

QueueStep == [Queue!Next]_Queue!qvars
QueueStutter ==
    UNCHANGED <<offered, delivered, dropped, lost>> /\ Waiting' = Waiting

\* A step that changes nothing the queue shows is a stutter of the queue.
LEMMA Stutter == QueueStutter => QueueStep
BY DEF QueueStutter, QueueStep, Queue!qvars

\* No batch, nothing left of it.
LEMMA RestEmpty == batch = <<>> /\ sent = 0 => Rest = <<>>
<1> SUFFICES ASSUME batch = <<>>, sent = 0 PROVE Rest = <<>>
  OBVIOUS
<1>1. Rest = SubSeq(<<>>, 1, 0)
  BY EmptySeq DEF Rest
<1> QED  BY <1>1, EmptySeq, CutNothing

\* flush() moves entries, and the queue as a whole stays as it was.
LEMMA FlushCallWaiting ==
    ASSUME NEW q \in Seq(Nat), NEW n, NEW others, DataOK, BatchRuns,
           FlushCall(q, n, others)
    PROVE  Waiting' = Rest \o q
<1>1. CASE batch # <<>>
  <2>1. queue' = q /\ batch' = batch /\ sent' = sent
    BY <1>1 DEF FlushCall, RunFlush
  <2> QED  BY <2>1 DEF Waiting, Rest
<1>2. CASE batch = <<>>
  <2>1. queue' = AfterBatch(q) /\ batch' = HeadBatch(q) /\ sent' = 0
    BY <1>2 DEF FlushCall, RunFlush
  <2>2. HeadBatch(q) \in Seq(Nat)
    BY TakeBatch
  <2>3. Rest' = HeadBatch(q)
    BY <2>1, <2>2, SubSeqFull DEF Rest
  <2>4. Waiting' = q
    BY <2>1, <2>3, TakeBatch DEF Waiting
  <2>5. Rest = <<>>
    BY <1>2, RestEmpty DEF BatchRuns
  <2> QED  BY <2>4, <2>5, CutNothing
<1> QED  BY <1>1, <1>2

\* Taking a batch moves entries inside the queue: the abstract queue stutters.
LEMMA FlushStep ==
    ASSUME NEW n, NEW others, AsyncInv, FlushCall(queue, n, others),
           UNCHANGED <<history, counters>>
    PROVE  QueueStutter
<1>1. Waiting' = Rest \o queue
  BY FlushCallWaiting DEF AsyncInv, DataOK
<1> QED  BY <1>1 DEF QueueStutter, Waiting

\* So do all the triggers that call flush().
LEMMA TriggerStep ==
    ASSUME AsyncInv,
           \/ Microtask \/ IntervalTick \/ Flush
           \/ \E f \in flushes : FlushResumes(f.upTo)
           \/ Close \/ CloseResumes \/ CloseInner \/ UNCHANGED vars
    PROVE  QueueStutter
<1>1. CASE Microtask \/ IntervalTick \/ Flush
  BY <1>1, FlushStep DEF Microtask, IntervalTick, Flush
<1>2. ASSUME NEW f \in flushes, FlushResumes(f.upTo) PROVE QueueStutter
  BY <1>2, FlushStep DEF FlushResumes
<1>3. CASE Close \/ CloseResumes
  <2>1. WaitForFlushes /\ UNCHANGED <<history, counters>>
    BY <1>3 DEF Close, CloseResumes
  <2>2. CASE UNCHANGED <<queue, batch, sent, flushes>>
    BY <2>1, <2>2 DEF QueueStutter, Waiting, Rest
  <2>3. CASE FlushCall(queue, offered, flushes)
    BY <2>1, <2>3, FlushStep
  <2> QED  BY <2>1, <2>2, <2>3, Zenon DEF WaitForFlushes
<1>4. CASE CloseInner \/ UNCHANGED vars
  <2>1. UNCHANGED <<history, counters, queue, batch, sent>>
    BY <1>4 DEF CloseInner
  <2> QED  BY <2>1 DEF QueueStutter, Waiting, Rest
<1> QED  BY <1>1, <1>2, <1>3, <1>4

\* write() is Accept or Refuse of the queue.
LEMMA WriteStep ==
    ASSUME AsyncInv, WriteRefused \/ \E urgent \in BOOLEAN : WriteQueued(urgent)
    PROVE  QueueStep
<1>1. CASE WriteRefused
  <2>1. /\ offered' = offered + 1 /\ dropped' = dropped + 1
        /\ UNCHANGED <<delivered, lost, queue, batch, sent>>
    BY <1>1 DEF WriteRefused
  <2>2. Waiting' = Waiting
    BY <2>1 DEF Waiting, Rest
  <2>3. dropped' + lost' = (dropped + lost) + 1
    BY <2>1 DEF AsyncInv, DataOK
  <2>4. Queue!Refuse
    BY <2>1, <2>2, <2>3 DEF Queue!Refuse
  <2> QED  BY <2>4 DEF QueueStep, Queue!Next
<1>2. ASSUME NEW urgent \in BOOLEAN, WriteQueued(urgent) PROVE QueueStep
  <2>1. queue \in Seq(Nat) /\ Rest \in Seq(Nat)
    BY RestType DEF AsyncInv, DataOK
  <2>2. PICK n \in Nat : n = offered + 1
    BY DEF AsyncInv, DataOK
  <2> DEFINE q == Append(queue, n)
  <2>3. /\ offered' = n /\ UNCHANGED <<delivered, lost, dropped>>
        /\ \/ FlushCall(q, n, flushes)
           \/ queue' = q /\ UNCHANGED <<batch, sent>>
    BY <1>2, <2>2, Zenon DEF WriteQueued
  <2>4. q \in Seq(Nat)
    BY <2>1, AppendProperties
  <2> HIDE DEF q
  <2>5. Waiting' = Rest \o q
    <3>1. CASE FlushCall(q, n, flushes)
      BY <2>4, <3>1, FlushCallWaiting DEF AsyncInv
    <3>2. CASE queue' = q /\ UNCHANGED <<batch, sent>>
      BY <3>2 DEF Waiting, Rest
    <3> QED  BY <2>3, <3>1, <3>2
  <2>6. Waiting' = Append(Waiting, n)
    BY <2>1, <2>5, AppendToConcat DEF Waiting, q
  <2>7. Queue!Accept
    BY <2>2, <2>3, <2>6 DEF Queue!Accept
  <2> QED  BY <2>7 DEF QueueStep, Queue!Next
<1> QED  BY <1>1, <1>2

\* What the wrapped transport takes is delivered from the head, and what it loses is given up at the head.
LEMMA BatchStep ==
    ASSUME AsyncInv, EntryWritten \/ BatchWritten \/ BatchFails
    PROVE  QueueStep
<1>1. /\ batch \in Seq(Nat) /\ queue \in Seq(Nat) /\ sent \in Nat
      /\ Rest \in Seq(Nat) /\ Len(batch) \in Nat
      /\ delivered \in Seq(Nat) /\ dropped \in Nat /\ lost \in Nat
  BY RestType, LenProperties DEF AsyncInv, DataOK
<1>2. CASE EntryWritten
  <2>1. /\ sent + 1 < Len(batch) /\ sent' = sent + 1
        /\ delivered' = Append(delivered, batch[sent + 1])
        /\ UNCHANGED <<offered, lost, dropped, queue, batch>>
    BY <1>2 DEF EntryWritten
  <2>2. Rest' = SubSeq(batch, (sent + 1) + 1, Len(batch))
    BY <2>1 DEF Rest
  <2>3. /\ Rest = <<batch[sent + 1]>> \o Rest' /\ Rest' \in Seq(Nat)
        /\ batch[sent + 1] \in Nat
    BY <1>1, <2>1, <2>2, OneAndRest DEF Rest
  <2>4. PICK e \in Nat : e = batch[sent + 1]
    BY <2>3
  <2>5. <<e>> \in Seq(Nat) /\ Len(<<e>>) = 1
    OBVIOUS
  <2>6. Waiting = <<e>> \o Waiting' /\ Waiting' \in Seq(Nat)
    <3>1. Waiting = (<<e>> \o Rest') \o queue /\ Waiting' = Rest' \o queue
      BY <2>1, <2>3, <2>4 DEF Waiting
    <3>2. PICK r \in Seq(Nat), a \in Seq(Nat) : r = Rest' /\ a = <<e>>
      BY <2>3, <2>5
    <3>3. (a \o r) \o queue = a \o (r \o queue)
      <4>1. PICK c \in Seq(Nat) : c = queue
        BY <1>1
      <4>2. (a \o r) \o c = a \o (r \o c)
        BY ConcatAssociative, SMTT(20)
      <4> QED  BY <4>1, <4>2
    <3>4. r \o queue \in Seq(Nat)
      BY <1>1, ConcatProperties
    <3> QED  BY <3>1, <3>2, <3>3, <3>4
  <2>7. delivered' = delivered \o <<e>>
    BY <1>1, <2>1, <2>4, AppendIsConcat
  <2>8. Queue!Next
    BY <1>1, <2>1, <2>5, <2>6, <2>7, DeliverHead
  <2> QED  BY <2>8 DEF QueueStep
<1>3. ASSUME BatchWritten \/ BatchFails
      PROVE  /\ Rest # <<>> /\ Waiting = Rest \o queue /\ Waiting' = queue
             /\ queue' = queue /\ UNCHANGED <<offered, dropped>>
  <2>1. /\ batch # <<>> /\ batch' = <<>> /\ sent' = 0
        /\ UNCHANGED <<queue, offered, dropped>>
    BY <1>3 DEF BatchWritten, BatchFails, Settle
  <2>2. sent < Len(batch)
    BY <2>1 DEF AsyncInv, BatchRuns
  <2>3. Rest # <<>>
    <3>1. Rest = <<batch[sent + 1]>> \o SubSeq(batch, (sent + 1) + 1, Len(batch))
          /\ SubSeq(batch, (sent + 1) + 1, Len(batch)) \in Seq(Nat)
          /\ batch[sent + 1] \in Nat
      BY <1>1, <2>2, OneAndRest DEF Rest
    <3>2. PICK e \in Nat, r \in Seq(Nat) : Rest = <<e>> \o r
      BY <3>1
    <3>3. <<e>> \o r # <<>>
      OBVIOUS
    <3> QED  BY <3>2, <3>3
  <2>4. Rest' = <<>>
    BY <2>1, EmptySeq, CutNothing DEF Rest
  <2>5. Waiting' = queue
    BY <1>1, <2>1, <2>4, CutNothing DEF Waiting
  <2> QED  BY <2>1, <2>3, <2>5 DEF Waiting
<1>4. CASE BatchWritten
  <2>1. delivered' = delivered \o Rest /\ lost' = lost
    BY <1>4 DEF BatchWritten
  <2>2. Queue!Next
    BY <1>1, <1>3, <1>4, <2>1, DeliverHead
  <2> QED  BY <2>2 DEF QueueStep
<1>5. CASE BatchFails
  <2>1. lost' = lost + Len(Rest) /\ delivered' = delivered
    BY <1>5 DEF BatchFails
  <2>2. Queue!Next
    BY <1>1, <1>3, <1>5, <2>1, GiveUpHead
  <2> QED  BY <2>2 DEF QueueStep
<1> QED  BY <1>2, <1>4, <1>5

\* Every step of the transport is a step of the queue or a stutter.
LEMMA NextStep == AsyncInv /\ [Next]_vars => QueueStep
BY TriggerStep, WriteStep, BatchStep, Stutter DEF Next

\* The transport starts as the empty queue.
LEMMA QueueInit == Init => Queue!Init
<1> SUFFICES ASSUME Init PROVE Queue!Init
  OBVIOUS
<1>1. Rest = <<>> /\ queue = <<>>
  BY RestEmpty DEF Init
<1>2. Waiting = <<>>
  BY <1>1, EmptySeq, CutNothing DEF Waiting
<1> QED  BY <1>2 DEF Init, Queue!Init

\* The batching transport is a delivery queue, for every setting.
THEOREM QueueImplemented == Spec => ImplementsQueue
<1>1. Init => Abstract!Init
  BY QueueInit DEF Queue!Init, Abstract!Init
<1>2. AsyncInv /\ [Next]_vars => [Abstract!Next]_Abstract!qvars
  <2> SUFFICES ASSUME AsyncInv, [Next]_vars PROVE [Abstract!Next]_Abstract!qvars
    OBVIOUS
  <2>1. QueueStep
    BY NextStep
  <2> QED
    BY <2>1 DEF QueueStep, Queue!Next, Queue!Accept, Queue!Refuse, Queue!Deliver,
         Queue!GiveUp, Queue!qvars, Abstract!Next, Abstract!Accept, Abstract!Refuse,
         Abstract!Deliver, Abstract!GiveUp, Abstract!qvars
<1> QED  BY <1>1, <1>2, AsyncCorrect, PTL DEF Spec, ImplementsQueue, Abstract!Spec

\* What is proved of the abstract queue holds of the transport.
LEMMA QueueInvariant == Spec => []Queue!QueueInv
<1>1. AsyncInv /\ [Next]_vars => [Queue!Next]_Queue!qvars
  BY NextStep DEF QueueStep
<1>2. Spec => Queue!Spec
  BY <1>1, QueueInit, AsyncCorrect, PTL DEF Spec, Queue!Spec
<1>3. Queue!Spec => []Queue!QueueInv
  BY Queue!QueueCorrect
<1> QED  BY <1>2, <1>3, PTL

\* The wrapped transport gets the entries in order, each at most once.
THEOREM FifoCorrect == Spec => []StrictFifo
<1>1. Queue!QueueInv => StrictFifo
  BY DEF Queue!QueueInv, Queue!InOrder, Queue!Increasing, StrictFifo, Increasing
<1> QED  BY <1>1, QueueInvariant, PTL

\* Every entry is delivered, waiting, dropped or in a failed batch.
THEOREM AccountingCorrect == Spec => []Accounting
<1>1. AsyncInv /\ Queue!QueueInv => Accounting
  <2> SUFFICES ASSUME AsyncInv, Queue!QueueInv PROVE Accounting
    OBVIOUS
  <2>1. offered = Len(delivered) + Len(Waiting) + (dropped + lost)
    BY DEF Queue!QueueInv, Queue!Counted
  <2>2. /\ Len(delivered) \in Nat /\ Len(Waiting) \in Nat
        /\ dropped \in Nat /\ lost \in Nat
    BY LenProperties DEF Queue!QueueInv, Queue!TypeOK, AsyncInv, DataOK
  <2> QED  BY <2>1, <2>2 DEF Accounting
<1> QED  BY <1>1, AsyncCorrect, QueueInvariant, PTL

-----------------------------------------------------------------------------
(* The books: types, the size of a batch and the losses it can cause.      *)

FlushesOK == flushes \subseteq [upTo : Nat, resumed : BOOLEAN]
BatchShort == Len(batch) <= BatchSize
BooksInv == scheduled \in BOOLEAN /\ FlushesOK /\ BatchShort /\ LossesReported

\* A batch that flush() starts has at most batchSize entries.
LEMMA FlushCallBooks ==
    ASSUME BooksInv, NEW q \in Seq(Nat), NEW n \in Nat, NEW others, others \subseteq flushes,
           FlushCall(q, n, others)
    PROVE  FlushesOK' /\ BatchShort'
<1>1. Awaiting(n) \in [upTo : Nat, resumed : BOOLEAN]
  BY DEF Awaiting
<1>2. flushes' = others \/ flushes' = others \cup {Awaiting(n)}
  BY DEF FlushCall
<1>3. FlushesOK'
  BY <1>1, <1>2, Zenon DEF BooksInv, FlushesOK
<1>4. BatchShort'
  <2>1. /\ Len(HeadBatch(q)) = BatchLen(q) /\ BatchLen(q) <= BatchSize
    <3>1. Len(q) \in Nat /\ Len(HeadBatch(q)) = BatchLen(q)
      BY TakeBatch, LenProperties
    <3> QED  BY <3>1, BatchSizeAssumption DEF BatchLen, Shorter
  <2>2. batch' = HeadBatch(q) \/ batch' = batch
    BY DEF FlushCall, RunFlush
  <2> QED  BY <2>1, <2>2 DEF BooksInv, BatchShort
<1> QED  BY <1>3, <1>4

\* A failed batch loses no more than one more error stands for.
LEMMA BatchFailsBooks ==
    ASSUME AsyncInv, BooksInv, BatchFails
    PROVE  LossesReported'
<1>1. /\ batch \in Seq(Nat) /\ sent \in Nat /\ Len(batch) \in Nat /\ Len(batch) <= BatchSize
      /\ BatchSize \in Nat /\ lost \in Nat /\ transportErrors \in Nat
      /\ lost <= transportErrors * BatchSize /\ sent < Len(batch)
  BY LenProperties, BatchSizeAssumption
  DEF AsyncInv, DataOK, BooksInv, BatchShort, LossesReported, BatchRuns, BatchFails
<1>2. Len(Rest) \in Nat /\ Len(Rest) <= Len(batch)
  <2>1. \A i \in 1 .. Len(batch) : batch[i] \in Nat
    BY <1>1, ElementOfSeq
  <2>2. PICK k \in Nat : k = sent + 1
    BY <1>1
  <2>3. \A i \in k .. Len(batch) : batch[i] \in Nat
    BY <1>1, <2>1, <2>2
  <2>4. Len(SubSeq(batch, k, Len(batch))) = IF k <= Len(batch) THEN Len(batch) - k + 1 ELSE 0
    BY <1>1, <2>3, SubSeqProperties
  <2>5. PICK m : m = Len(SubSeq(batch, k, Len(batch)))
    OBVIOUS
  <2>6. m \in Nat /\ m <= Len(batch)
    BY <1>1, <2>2, <2>4, <2>5
  <2> QED  BY <2>2, <2>5, <2>6 DEF Rest
<1>3. lost' = lost + Len(Rest) /\ transportErrors' = transportErrors + 1
  BY DEF BatchFails
<1>4. PICK m \in Nat, b \in Nat, e \in Nat :
        m = Len(Rest) /\ b = BatchSize /\ e = transportErrors
  BY <1>1, <1>2
<1>5. m <= b /\ lost <= e * b /\ e * b \in Nat /\ (e + 1) * b = e * b + b
  BY <1>1, <1>2, <1>4
<1>6. lost + m <= (e + 1) * b
  <2>1. PICK c \in Nat : c = e * b
    BY <1>5
  <2>2. lost + m <= c + b
    BY <1>1, <1>5, <2>1
  <2> QED  BY <1>5, <2>1, <2>2
<1> QED  BY <1>3, <1>4, <1>6 DEF LossesReported

\* Every step keeps the books.
LEMMA NextBooks == AsyncInv /\ BooksInv /\ [Next]_vars => BooksInv'
<1> SUFFICES ASSUME AsyncInv, BooksInv, [Next]_vars PROVE BooksInv'
  OBVIOUS
<1>1. /\ queue \in Seq(Nat) /\ offered \in Nat /\ offered + 1 \in Nat
      /\ Append(queue, offered + 1) \in Seq(Nat)
  <2>1. queue \in Seq(Nat) /\ offered \in Nat /\ offered + 1 \in Nat
    BY DEF AsyncInv, DataOK
  <2>2. PICK n \in Nat : n = offered + 1
    BY <2>1
  <2> QED  BY <2>1, <2>2, AppendProperties
<1>2. ASSUME FlushesOK', BatchShort', scheduled' \in BOOLEAN, UNCHANGED <<lost, transportErrors>>
      PROVE  BooksInv'
  BY <1>2, Zenon DEF BooksInv, LossesReported
<1>3. ASSUME UNCHANGED <<batch, flushes>>
      PROVE  FlushesOK' /\ BatchShort'
  BY <1>3 DEF BooksInv, FlushesOK, BatchShort
<1>4. ASSUME NEW q, NEW running, ScheduleFlush(q, running) PROVE scheduled' \in BOOLEAN
  BY <1>4, Zenon DEF ScheduleFlush, BooksInv
<1>5. CASE WriteRefused \/ EntryWritten \/ CloseInner \/ UNCHANGED vars
  <2>1. UNCHANGED <<batch, flushes, scheduled, lost, transportErrors>>
    BY <1>5 DEF WriteRefused, EntryWritten, CloseInner
  <2>2. scheduled' \in BOOLEAN
    BY <2>1, Zenon DEF BooksInv
  <2> QED  BY <1>2, <1>3, <2>1, <2>2
<1>6. ASSUME NEW urgent \in BOOLEAN, WriteQueued(urgent) PROVE BooksInv'
  <2> DEFINE q == Append(queue, offered + 1)
  <2>1. UNCHANGED <<lost, transportErrors>>
    BY <1>6 DEF WriteQueued
  <2>2. CASE FlushCall(q, offered + 1, flushes) /\ UNCHANGED schedule
    <3>1. scheduled' \in BOOLEAN
      BY <2>2, Zenon DEF BooksInv
    <3>2. q \in Seq(Nat)
      BY <1>1
    <3> HIDE DEF q
    <3>3. FlushesOK' /\ BatchShort'
      BY <1>1, <2>2, <3>2, FlushCallBooks
    <3> QED  BY <1>2, <2>1, <3>1, <3>3
  <2>3. CASE ScheduleFlush(q, batch # <<>>) /\ UNCHANGED <<batch, flushes>>
    BY <1>2, <1>3, <1>4, <2>1, <2>3
  <2> QED  BY <1>6, <2>2, <2>3, Zenon DEF WriteQueued
<1>7. ASSUME NEW n \in Nat, NEW others, others \subseteq flushes, FlushCall(queue, n, others),
             scheduled' \in BOOLEAN, UNCHANGED <<lost, transportErrors>>
      PROVE  BooksInv'
  BY <1>1, <1>2, <1>7, FlushCallBooks
<1>8. CASE Microtask \/ IntervalTick \/ Flush
  <2>1. FlushCall(queue, offered, flushes) /\ UNCHANGED <<lost, transportErrors>>
    BY <1>8 DEF Microtask, IntervalTick, Flush
  <2>2. scheduled' \in BOOLEAN
    BY <1>8, Zenon DEF Microtask, IntervalTick, Flush, BooksInv
  <2> QED  BY <1>1, <1>7, <2>1, <2>2
<1>9. ASSUME NEW f \in flushes, FlushResumes(f.upTo) PROVE BooksInv'
  <2>1. f.upTo \in Nat
    BY DEF BooksInv, FlushesOK
  <2>2. /\ FlushCall(queue, f.upTo, flushes \ {Resumed(f.upTo)})
        /\ UNCHANGED <<lost, transportErrors, scheduled>>
    BY <1>9 DEF FlushResumes
  <2>3. scheduled' \in BOOLEAN
    BY <2>2, Zenon DEF BooksInv
  <2>4. flushes \ {Resumed(f.upTo)} \subseteq flushes
    OBVIOUS
  <2> QED  BY <1>7, <2>1, <2>2, <2>3, <2>4
<1>10. CASE BatchWritten \/ BatchFails
  <2>1. Settle
    BY <1>10 DEF BatchWritten, BatchFails
  <2>2. scheduled' \in BOOLEAN
    BY <1>4, <2>1 DEF Settle
  <2>3. FlushesOK'
    <3>1. flushes' = {Resumed(f.upTo) : f \in flushes}
      BY <2>1 DEF Settle
    <3>2. \A f \in flushes : Resumed(f.upTo) \in [upTo : Nat, resumed : BOOLEAN]
      BY DEF BooksInv, FlushesOK, Resumed
    <3> QED  BY <3>1, <3>2 DEF FlushesOK
  <2>4. BatchShort'
    <3>1. batch' = <<>> /\ Len(<<>>) = 0
      BY <2>1, EmptySeq DEF Settle
    <3> QED  BY <3>1, BatchSizeAssumption DEF BatchShort
  <2>5. LossesReported'
    <3>1. CASE BatchWritten
      BY <3>1 DEF BatchWritten, BooksInv, LossesReported
    <3> QED  BY <1>10, <3>1, BatchFailsBooks
  <2> QED  BY <2>2, <2>3, <2>4, <2>5, Zenon DEF BooksInv
<1>11. CASE Close \/ CloseResumes
  <2>1. WaitForFlushes /\ UNCHANGED <<lost, transportErrors>>
    BY <1>11 DEF Close, CloseResumes
  <2>2. scheduled' \in BOOLEAN
    BY <1>11, Zenon DEF Close, CloseResumes, BooksInv
  <2>3. CASE UNCHANGED <<queue, batch, sent, flushes>>
    BY <1>2, <1>3, <2>1, <2>2, <2>3
  <2>4. CASE FlushCall(queue, offered, flushes)
    BY <1>1, <1>7, <2>1, <2>2, <2>4
  <2> QED  BY <2>1, <2>3, <2>4, Zenon DEF WaitForFlushes
<1> QED  BY <1>5, <1>6, <1>8, <1>9, <1>10, <1>11 DEF Next

\* Types, the accounting of entries, the bound of the queue and the report of
\* losses hold for every batch size, queue limit and kind of wrapped transport.
THEOREM BooksKeptCorrect == Spec => []BooksKept
<1>1. Init => BooksInv
  <2> SUFFICES ASSUME Init PROVE BooksInv
    OBVIOUS
  <2>1. scheduled \in BOOLEAN /\ FlushesOK
    BY DEF Init, FlushesOK
  <2>2. BatchShort
    <3>1. batch = <<>> /\ Len(<<>>) = 0
      BY EmptySeq DEF Init
    <3> QED  BY <3>1, BatchSizeAssumption DEF BatchShort
  <2>3. LossesReported
    <3>1. lost = 0 /\ transportErrors = 0 /\ 0 * BatchSize = 0
      BY BatchSizeAssumption DEF Init
    <3> QED  BY <3>1 DEF LossesReported
  <2> QED  BY <2>1, <2>2, <2>3, Zenon DEF BooksInv
<1>2. Spec => []BooksInv
  BY <1>1, NextBooks, AsyncCorrect, PTL DEF Spec
<1>3. AsyncInv /\ BooksInv /\ Accounting => BooksKept
  BY Zenon DEF AsyncInv, BooksInv, FlushesOK, BooksKept, TypeOK, FlagsOK
<1> QED  BY <1>2, <1>3, AsyncCorrect, AccountingCorrect, PTL

-----------------------------------------------------------------------------
(* What a flush() call waits for.                                          *)

\* The call f is still awaiting, under the same number, or nothing it was
\* called for is left.
CallGoesOn(f) == \E g \in flushes' : g.upTo = f.upTo
NothingBefore(f) == \A i \in 1 .. Len(Waiting') : Waiting'[i] > f.upTo

\* flush() keeps the other calls, and goes on itself unless the transport is
\* empty.
LEMMA FlushCallGoesOn ==
    ASSUME AsyncInv, NEW q \in Seq(Nat), NEW n, NEW others, FlushCall(q, n, others)
    PROVE  /\ others \subseteq flushes'
           /\ Awaiting(n) \in flushes' \/ Waiting' = <<>>
<1>1. flushes' = others \/ flushes' = others \cup {Awaiting(n)}
  BY DEF FlushCall
<1>2. CASE batch = <<>> /\ q = <<>>
  <2>1. DataOK /\ BatchRuns /\ sent = 0
    BY <1>2 DEF AsyncInv, BatchRuns
  <2>2. Waiting' = Rest \o q
    BY <2>1, FlushCallWaiting
  <2>3. Rest = <<>>
    BY <1>2, <2>1, RestEmpty
  <2>4. Waiting' = <<>>
    BY <1>2, <2>2, <2>3, CutNothing
  <2> QED  BY <1>1, <2>4
<1>3. CASE ~(batch = <<>> /\ q = <<>>)
  <2>1. flushes' = others \cup {Awaiting(n)}
    BY <1>3 DEF FlushCall
  <2> QED  BY <2>1
<1> QED  BY <1>2, <1>3

\* A step loses no flush() call but one that finds nothing left.
LEMMA StepSettlesAll ==
    ASSUME AsyncInv, [Next]_vars, NEW f \in flushes
    PROVE  CallGoesOn(f) \/ NothingBefore(f)
<1>0. queue \in Seq(Nat)
  BY DEF AsyncInv, DataOK
<1>1. CASE flushes \subseteq flushes'
  BY <1>1 DEF CallGoesOn
<1>2. ASSUME NEW q \in Seq(Nat), NEW n, FlushCall(q, n, flushes)
      PROVE  CallGoesOn(f)
  BY <1>2, FlushCallGoesOn DEF CallGoesOn
<1>3. CASE UNCHANGED vars \/ WriteRefused \/ EntryWritten \/ CloseInner
  BY <1>1, <1>3 DEF WriteRefused, EntryWritten, CloseInner
<1>4. ASSUME NEW urgent \in BOOLEAN, WriteQueued(urgent)
      PROVE  CallGoesOn(f)
  <2>1. Append(queue, offered + 1) \in Seq(Nat)
    BY <1>0, AppendProperties DEF AsyncInv, DataOK
  <2>2. FlushCall(Append(queue, offered + 1), offered + 1, flushes) \/ UNCHANGED flushes
    BY <1>4, Zenon DEF WriteQueued
  <2>3. CASE FlushCall(Append(queue, offered + 1), offered + 1, flushes)
    BY ONLY <1>2, <2>1, <2>3
  <2>4. CASE UNCHANGED flushes
    BY <2>4 DEF CallGoesOn
  <2> QED  BY <2>2, <2>3, <2>4
<1>5. CASE Microtask \/ IntervalTick \/ Flush
  <2>1. FlushCall(queue, offered, flushes)
    BY <1>5 DEF Microtask, IntervalTick, Flush
  <2> QED  BY <1>0, <1>2, <2>1
<1>6. ASSUME NEW h \in flushes, FlushResumes(h.upTo)
      PROVE  CallGoesOn(f) \/ NothingBefore(f)
  <2> DEFINE n == h.upTo
             others == flushes \ {Resumed(n)}
  <2>1. FlushCall(queue, n, others)
    BY <1>6 DEF FlushResumes
  <2>2. others \subseteq flushes' /\ (Awaiting(n) \in flushes' \/ Waiting' = <<>>)
    BY <1>0, <2>1, FlushCallGoesOn
  <2>3. CASE f \in others
    BY <2>2, <2>3 DEF CallGoesOn
  <2>4. CASE f \notin others /\ Awaiting(n) \in flushes'
    <3>1. f = Resumed(n)
      BY <2>4
    <3>2. f.upTo = Awaiting(n).upTo
      BY <3>1 DEF Resumed, Awaiting
    <3> QED  BY <2>4, <3>2 DEF CallGoesOn
  <2>5. CASE Waiting' = <<>>
    <3>1. 1 .. Len(Waiting') = {}
      BY <2>5, EmptySeq
    <3> QED  BY <3>1 DEF NothingBefore
  <2> QED  BY <2>2, <2>3, <2>4, <2>5
<1>7. CASE BatchWritten \/ BatchFails
  <2>1. flushes' = {Resumed(g.upTo) : g \in flushes}
    BY <1>7 DEF BatchWritten, BatchFails, Settle
  <2>2. Resumed(f.upTo) \in flushes' /\ Resumed(f.upTo).upTo = f.upTo
    BY <2>1 DEF Resumed
  <2> QED  BY <2>2 DEF CallGoesOn
<1>8. CASE Close \/ CloseResumes
  <2>1. WaitForFlushes
    BY <1>8 DEF Close, CloseResumes
  <2>2. FlushCall(queue, offered, flushes) \/ UNCHANGED flushes
    BY <2>1, Zenon DEF WaitForFlushes
  <2>3. CASE FlushCall(queue, offered, flushes)
    BY ONLY <1>0, <1>2, <2>3
  <2>4. CASE UNCHANGED flushes
    BY <2>4 DEF CallGoesOn
  <2> QED  BY <2>2, <2>3, <2>4
<1> QED  BY <1>3, <1>4, <1>5, <1>6, <1>7, <1>8 DEF Next

\* A flush() call of whoever makes it, the timer and the microtask included,
\* returns only when every entry offered before it is settled, whatever else
\* starts batches in between.
THEOREM FlushSettlesAllCorrect == Spec => FlushSettlesAll
<1>1. AsyncInv /\ [Next]_vars =>
        [\A f \in flushes :
            (\A g \in flushes' : g.upTo # f.upTo) =>
                \A i \in 1 .. Len(Waiting') : Waiting'[i] > f.upTo]_vars
  <2> SUFFICES ASSUME AsyncInv, [Next]_vars, NEW f \in flushes,
                      \A g \in flushes' : g.upTo # f.upTo
               PROVE  \A i \in 1 .. Len(Waiting') : Waiting'[i] > f.upTo
    OBVIOUS
  <2>1. CallGoesOn(f) \/ NothingBefore(f)
    BY StepSettlesAll
  <2> QED  BY <2>1 DEF CallGoesOn, NothingBefore
<1> QED  BY <1>1, AsyncCorrect, PTL DEF Spec, FlushSettlesAll
=============================================================================
