------------------------ MODULE ThreadTransport_proofs ------------------------
(***************************************************************************)
(* Proofs about ThreadTransport: threads come one after the other, entries *)
(* are handed on once and in order, and close() is clean, however many     *)
(* threads are started, entries written and calls made.                    *)
(*                                                                         *)
(* The danger for the threads is a late event of an ended one: taken for a *)
(* crash of its successor it would let a third start beside the second.    *)
(* ThreadInv says why there is none: the events of a thread that still     *)
(* count as a crash are in the queue of this.worker, and they are the last *)
(* messages that thread ever sends.  For the entries, EntriesInv adds that *)
(* the writes that wait are the last ones and all wait for the gate or for *)
(* the thread started last, that "ready" is the first message of a thread, *)
(* and where each of the other entries is.                                 *)
(***************************************************************************)
EXTENDS ThreadTransport, Containers_proofs, FiniteSetTheorems

Has(s, kind) == \E i \in 1 .. Len(s) : s[i].kind = kind
NoEvents(s) == ~Has(s, "error") /\ ~Has(s, "exit")

\* An exit event is the last message of a thread, an error event the one before.
EventsLast(s) ==
    \A i \in 1 .. Len(s) : /\ s[i].kind = "exit" => i = Len(s)
                           /\ s[i].kind = "error" => i = Len(s) - 1

\* A thread that was not started has sent nothing.
Outboxes ==
    /\ DOMAIN outbox = Workers
    /\ \A w \in Workers : /\ outbox[w] \in Seq(ToSet(outbox[w])) /\ EventsLast(outbox[w])
                          /\ w > spawned => outbox[w] = <<>>

Numbers == /\ spawned \in 0 .. MaxSpawns /\ worker \in {0, spawned}
           /\ alive \in [Workers -> BOOLEAN]
           /\ DOMAIN settled = Workers

\* Only the thread started last runs; the last of all does not fail.
Alive == /\ \A w \in Workers : alive[w] => w = spawned
         /\ ~closed /\ spawned # 0 /\ worker = 0 => ~alive[spawned]
         /\ ~closed /\ spawned = MaxSpawns => alive[spawned]

\* The events under way.
Events ==
    \A w \in Workers :
        /\ alive[w] => NoEvents(outbox[w])
        /\ ~closed /\ Has(outbox[w], "error") => worker = w
        /\ ~closed /\ Has(outbox[w], "exit") /\ settled[w] = "pending" => worker = w

Gate == restarting => worker = 0 /\ ~closed

ThreadInv == Numbers /\ Outboxes /\ Alive /\ Events /\ Gate

-----------------------------------------------------------------------------
(* Queues of messages.                                                     *)

\* A sequence over any set is one over its own elements.
LEMMA OwnElements ==
    ASSUME NEW S, NEW s \in Seq(S)
    PROVE  s \in Seq(ToSet(s))
<1> DEFINE T == ToSet(s)
<1>1. Len(s) \in Nat /\ DOMAIN s = 1 .. Len(s) BY LenProperties
<1>2. \A i \in 1 .. Len(s) : s[i] \in T BY <1>1 DEF ToSet
<1> HIDE DEF T
<1>3. s = [i \in 1 .. Len(s) |-> s[i]] BY <1>1, LenProperties
<1>4. [i \in 1 .. Len(s) |-> s[i]] \in Seq(T) BY <1>1, <1>2, IsASeq
<1> QED BY <1>3, <1>4 DEF T

\* What is left of a queue when its head is taken.
LEMMA TailShape ==
    ASSUME NEW s, s \in Seq(ToSet(s)), s # <<>>
    PROVE  /\ Tail(s) \in Seq(ToSet(Tail(s))) /\ Head(s) = s[1]
           /\ Len(s) \in Nat \ {0} /\ Len(Tail(s)) = Len(s) - 1
           /\ \A i \in 1 .. Len(s) - 1 : Tail(s)[i] = s[i + 1]
<1>1. Tail(s) \in Seq(ToSet(s)) BY HeadTailProperties
<1>2. Tail(s) \in Seq(ToSet(Tail(s))) BY <1>1, OwnElements
<1>3. Len(s) \in Nat \ {0} BY LenProperties, EmptySeq
<1>4. Len(Tail(s)) = Len(s) - 1 /\ \A i \in 1 .. Len(Tail(s)) : Tail(s)[i] = s[i + 1] BY HeadTailProperties
<1>5. Head(s) = s[1] BY HeadTailProperties
<1> QED BY <1>2, <1>3, <1>4, <1>5

\* Receiving a message keeps the shape of a queue, and nothing follows an exit event.
LEMMA ReceiveShape ==
    ASSUME NEW s, s \in Seq(ToSet(s)), s # <<>>, EventsLast(s)
    PROVE  /\ Tail(s) \in Seq(ToSet(Tail(s))) /\ EventsLast(Tail(s))
           /\ \A kind \in {"error", "exit"} : Has(Tail(s), kind) => Has(s, kind)
           /\ Head(s).kind = "error" => Has(s, "error") /\ ~Has(Tail(s), "error")
           /\ Head(s).kind = "exit" => Has(s, "exit") /\ NoEvents(Tail(s))
<1> DEFINE t == Tail(s)
           n == Len(s)
<1>1. /\ t \in Seq(ToSet(t)) /\ Head(s) = s[1] /\ n \in Nat \ {0}
      /\ Len(t) = n - 1 /\ \A i \in 1 .. n - 1 : t[i] = s[i + 1] BY TailShape
<1>2. \A i \in 1 .. n : /\ s[i].kind = "exit" => i = n
                        /\ s[i].kind = "error" => i = n - 1 BY DEF EventsLast
<1> HIDE DEF t, n
<1>3. EventsLast(t)
  <2> SUFFICES ASSUME NEW i \in 1 .. n - 1
               PROVE  /\ t[i].kind = "exit" => i = n - 1
                      /\ t[i].kind = "error" => i = n - 2
      BY <1>1 DEF EventsLast
  <2>1. t[i] = s[i + 1] /\ i + 1 \in 1 .. n BY <1>1
  <2> QED BY <2>1, <1>2, <1>1
<1>4. ASSUME NEW kind, Has(t, kind) PROVE Has(s, kind)
  <2>1. PICK i \in 1 .. n - 1 : t[i].kind = kind BY <1>1, <1>4 DEF Has
  <2>2. i + 1 \in 1 .. n /\ s[i + 1].kind = kind BY <1>1, <2>1
  <2> QED BY <2>2 DEF Has, n
<1>5. ASSUME Head(s).kind = "error" PROVE Has(s, "error") /\ ~Has(t, "error")
  <2>1. 1 \in 1 .. n /\ s[1].kind = "error" BY <1>1, <1>5
  <2>2. n = 2 BY <2>1, <1>2, <1>1
  <2>3. \A i \in 1 .. n - 1 : t[i].kind # "error"
    <3> TAKE i \in 1 .. n - 1
    <3>1. i + 1 = 2 /\ t[i] = s[i + 1] BY <2>2, <1>1
    <3>2. s[2].kind # "error" BY <1>2, <2>2
    <3> QED BY <3>1, <3>2
  <2> QED BY <2>1, <2>3, <1>1 DEF Has, n
<1>6. ASSUME Head(s).kind = "exit" PROVE Has(s, "exit") /\ NoEvents(t)
  <2>1. 1 \in 1 .. n /\ s[1].kind = "exit" BY <1>1, <1>6
  <2>2. n = 1 BY <2>1, <1>2, <1>1
  <2> QED BY <2>1, <2>2, <1>1 DEF Has, NoEvents, n
<1> QED BY <1>1, <1>3, <1>4, <1>5, <1>6 DEF t

\* Messages put behind a queue.
LEMMA SendShape ==
    ASSUME NEW s, s \in Seq(ToSet(s)), NEW S, NEW ms \in Seq(S)
    PROVE  /\ s \o ms \in Seq(ToSet(s \o ms)) /\ Len(s) \in Nat /\ Len(ms) \in Nat
           /\ Len(s \o ms) = Len(s) + Len(ms)
           /\ \A i \in 1 .. Len(s) : (s \o ms)[i] = s[i]
           /\ \A i \in 1 .. Len(ms) : (s \o ms)[Len(s) + i] = ms[i]
<1> DEFINE T == ToSet(s) \cup S
<1> HIDE DEF T
<1>1. s \in Seq(T) /\ ms \in Seq(T)
  <2>1. ToSet(s) \subseteq T /\ S \subseteq T BY DEF T
  <2> QED BY <2>1, SeqMonotonic
<1>2. s \o ms \in Seq(T) BY <1>1, ConcatProperties
<1>3. s \o ms \in Seq(ToSet(s \o ms)) BY <1>2, OwnElements
<1>4. Len(s) \in Nat /\ Len(ms) \in Nat BY <1>1, LenProperties
<1>5. /\ Len(s \o ms) = Len(s) + Len(ms)
      /\ \A i \in 1 .. Len(s) + Len(ms) : (s \o ms)[i] = IF i <= Len(s) THEN s[i] ELSE ms[i - Len(s)]
    BY <1>1, ConcatProperties
<1>6. ASSUME NEW i \in 1 .. Len(s) PROVE (s \o ms)[i] = s[i]
  <2>1. i \in 1 .. Len(s) + Len(ms) /\ i <= Len(s) BY <1>4
  <2> QED BY <2>1, <1>5
<1>7. ASSUME NEW i \in 1 .. Len(ms) PROVE (s \o ms)[Len(s) + i] = ms[i]
  <2> DEFINE k == Len(s) + i
  <2>1. k \in 1 .. Len(s) + Len(ms) /\ ~(k <= Len(s)) /\ k - Len(s) = i BY <1>4
  <2> QED BY <2>1, <1>5
<1> QED BY <1>3, <1>4, <1>5, <1>6, <1>7

\* Messages that are no events put behind a queue without events.
LEMMA SendQuiet ==
    ASSUME NEW s, s \in Seq(ToSet(s)), NoEvents(s),
           NEW m, m.kind # "error", m.kind # "exit"
    PROVE  /\ s \o <<m>> \in Seq(ToSet(s \o <<m>>))
           /\ EventsLast(s \o <<m>>) /\ NoEvents(s \o <<m>>)
<1> DEFINE ms == <<m>>
           t == s \o ms
<1>1. ms \in Seq({m}) /\ Len(ms) = 1 /\ ms[1] = m OBVIOUS
<1>2. /\ t \in Seq(ToSet(t)) /\ Len(s) \in Nat /\ Len(t) = Len(s) + 1
      /\ \A i \in 1 .. Len(s) : t[i] = s[i]
      /\ \A i \in 1 .. 1 : t[Len(s) + i] = ms[i]
  <2> HIDE DEF ms
  <2>1. /\ t \in Seq(ToSet(t)) /\ Len(s) \in Nat /\ Len(t) = Len(s) + Len(ms)
        /\ \A i \in 1 .. Len(s) : t[i] = s[i]
        /\ \A i \in 1 .. Len(ms) : t[Len(s) + i] = ms[i]
    <3>1. PICK S : ms \in Seq(S) BY <1>1
    <3> QED BY <3>1, SendShape
  <2> QED BY <1>1, <2>1
<1>3. t[Len(s) + 1] = m BY <1>1, <1>2
<1> HIDE DEF t, ms
<1>4. ASSUME NEW i \in 1 .. Len(t) PROVE t[i].kind # "error" /\ t[i].kind # "exit"
  <2>1. CASE i \in 1 .. Len(s)
    <3>1. s[i].kind # "error" /\ s[i].kind # "exit" BY <2>1 DEF NoEvents, Has
    <3>2. t[i] = s[i] BY <1>2, <2>1
    <3> QED BY <3>1, <3>2
  <2>2. CASE i = Len(s) + 1 BY <2>2, <1>3
  <2> QED BY <2>1, <2>2, <1>2
<1> QED BY <1>2, <1>4 DEF t, ms, EventsLast, NoEvents, Has

\* The events of a thread that ends put behind a queue without events.
LEMMA SendEvents ==
    ASSUME NEW s, s \in Seq(ToSet(s)), NoEvents(s),
           NEW S, NEW ms \in Seq(S), EventsLast(ms)
    PROVE  s \o ms \in Seq(ToSet(s \o ms)) /\ EventsLast(s \o ms)
<1> DEFINE t == s \o ms
<1>1. /\ t \in Seq(ToSet(t)) /\ Len(s) \in Nat /\ Len(ms) \in Nat
      /\ Len(t) = Len(s) + Len(ms)
      /\ \A i \in 1 .. Len(s) : t[i] = s[i]
      /\ \A i \in 1 .. Len(ms) : t[Len(s) + i] = ms[i] BY SendShape
<1> DEFINE a == Len(s)
           b == Len(ms)
           c == Len(t)
<1>0. a \in Nat /\ b \in Nat /\ c = a + b BY <1>1
<1> HIDE DEF t, a, b, c
<1>2. ASSUME NEW i \in 1 .. c
      PROVE  /\ t[i].kind = "exit" => i = c
             /\ t[i].kind = "error" => i = c - 1
  <2>1. CASE i \in 1 .. a
    <3>1. s[i].kind # "error" /\ s[i].kind # "exit" BY <2>1 DEF NoEvents, Has, a
    <3>2. t[i] = s[i] BY <1>1, <2>1 DEF a
    <3> QED BY <3>1, <3>2
  <2>2. CASE i \notin 1 .. a
    <3>1. PICK k \in 1 .. b : i = a + k
      <4>1. i - a \in 1 .. b /\ i = a + (i - a) BY <2>2, <1>0
      <4> QED BY <4>1
    <3>2. t[i] = ms[k] BY <1>1, <3>1 DEF a, b
    <3>3. /\ ms[k].kind = "exit" => k = b
          /\ ms[k].kind = "error" => k = b - 1 BY DEF EventsLast, b
    <3>4. /\ k = b => i = c
          /\ k = b - 1 => i = c - 1 BY <1>0, <3>1
    <3> QED BY <3>2, <3>3, <3>4
  <2> QED BY <2>1, <2>2
<1>3. EventsLast(t) BY <1>2 DEF EventsLast, c
<1> QED BY <1>1, <1>3 DEF t

-----------------------------------------------------------------------------
(* The effect of one message more or less on the queues of all threads.     *)

\* The main thread takes the head of the queue of one thread.
LEMMA ReceiveQueues ==
    ASSUME ThreadInv, NEW w \in Workers, NEW kind, Receive(w, kind)
    PROVE  /\ Outboxes'
           /\ \A v \in Workers : \A k \in {"error", "exit"} : Has(outbox'[v], k) => Has(outbox[v], k)
           /\ kind = "error" => Has(outbox[w], "error") /\ ~Has(outbox'[w], "error")
           /\ kind = "exit" => Has(outbox[w], "exit") /\ NoEvents(outbox'[w])
<1> DEFINE s == outbox[w]
<1>1. /\ DOMAIN outbox = Workers /\ outbox' = [outbox EXCEPT ![w] = Tail(s)]
      /\ s # <<>> /\ Head(s).kind = kind /\ spawned' = spawned
      /\ s \in Seq(ToSet(s)) /\ EventsLast(s)
    BY DEF ThreadInv, Outboxes, Receive
<1>2. /\ DOMAIN outbox' = Workers /\ outbox'[w] = Tail(s)
      /\ \A v \in Workers \ {w} : outbox'[v] = outbox[v] BY <1>1
<1>3. /\ Tail(s) \in Seq(ToSet(Tail(s))) /\ EventsLast(Tail(s))
      /\ \A k \in {"error", "exit"} : Has(Tail(s), k) => Has(s, k)
      /\ kind = "error" => Has(s, "error") /\ ~Has(Tail(s), "error")
      /\ kind = "exit" => Has(s, "exit") /\ NoEvents(Tail(s))
  <2> HIDE DEF s
  <2> QED BY <1>1, ReceiveShape
<1>4. \A v \in Workers : /\ outbox'[v] \in Seq(ToSet(outbox'[v])) /\ EventsLast(outbox'[v])
                         /\ v > spawned => outbox'[v] = <<>>
  <2> SUFFICES ASSUME NEW v \in Workers
               PROVE  /\ outbox'[v] \in Seq(ToSet(outbox'[v])) /\ EventsLast(outbox'[v])
                      /\ v > spawned => outbox'[v] = <<>>
      OBVIOUS
  <2>1. CASE v = w
    <3>1. ~(w > spawned) BY <1>1 DEF ThreadInv, Outboxes
    <3> QED BY <2>1, <3>1, <1>2, <1>3
  <2>2. CASE v # w BY <2>2, <1>2 DEF ThreadInv, Outboxes
  <2> QED BY <2>1, <2>2
<1>5. Outboxes' BY <1>1, <1>2, <1>4 DEF Outboxes
<1>6. ASSUME NEW v \in Workers, NEW k \in {"error", "exit"}, Has(outbox'[v], k)
      PROVE  Has(outbox[v], k)
  <2>1. CASE v = w BY <2>1, <1>6, <1>2, <1>3
  <2>2. CASE v # w BY <2>2, <1>6, <1>2
  <2> QED BY <2>1, <2>2
<1> QED BY <1>2, <1>3, <1>5, <1>6

\* A running thread puts messages behind its queue.
LEMMA SendQueues ==
    ASSUME ThreadInv, NEW w \in Workers, alive[w], NEW ms, Send(w, ms), spawned' = spawned,
           outbox[w] \o ms \in Seq(ToSet(outbox[w] \o ms)), EventsLast(outbox[w] \o ms)
    PROVE  /\ Outboxes' /\ outbox'[w] = outbox[w] \o ms
           /\ \A v \in Workers \ {w} : outbox'[v] = outbox[v]
<1>1. /\ DOMAIN outbox = Workers /\ w = spawned /\ spawned \in Nat
      /\ outbox' = [outbox EXCEPT ![w] = outbox[w] \o ms]
    BY DEF ThreadInv, Outboxes, Alive, Numbers, Send
<1>2. /\ DOMAIN outbox' = Workers /\ outbox'[w] = outbox[w] \o ms
      /\ \A v \in Workers \ {w} : outbox'[v] = outbox[v] BY <1>1
<1>3. \A v \in Workers : /\ outbox'[v] \in Seq(ToSet(outbox'[v])) /\ EventsLast(outbox'[v])
                         /\ v > spawned' => outbox'[v] = <<>>
  <2> SUFFICES ASSUME NEW v \in Workers
               PROVE  /\ outbox'[v] \in Seq(ToSet(outbox'[v])) /\ EventsLast(outbox'[v])
                      /\ v > spawned' => outbox'[v] = <<>>
      OBVIOUS
  <2>1. CASE v = w
    <3>1. ~(w > spawned') BY <1>1
    <3> QED BY <2>1, <3>1, <1>2
  <2>2. CASE v # w BY <2>2, <1>2 DEF ThreadInv, Outboxes
  <2> QED BY <2>1, <2>2
<1> QED BY <1>2, <1>3 DEF Outboxes

-----------------------------------------------------------------------------
(* Every step keeps the invariant.                                         *)

LEMMA InitInv == Init => ThreadInv
<1> SUFFICES ASSUME Init PROVE ThreadInv OBVIOUS
<1> USE ThreadAssumption DEF Init
<1>1. Numbers BY DEF Numbers, Workers
<1>2. \A w \in Workers : outbox[w] = <<>> /\ ~alive[w] OBVIOUS
<1>3. /\ <<>> \in Seq(ToSet(<<>>)) /\ EventsLast(<<>>)
      /\ \A kind : ~Has(<<>>, kind)
  <2>1. <<>> \in Seq({}) /\ Len(<<>>) = 0 OBVIOUS
  <2>2. <<>> \in Seq(ToSet(<<>>)) BY <2>1, OwnElements
  <2>3. \A i \in 1 .. Len(<<>>) : FALSE BY <2>1
  <2> QED BY <2>2, <2>3 DEF EventsLast, Has
<1>4. Outboxes BY <1>2, <1>3 DEF Outboxes
<1>5. Alive BY <1>2 DEF Alive
<1>6. Events BY <1>2, <1>3 DEF Events, NoEvents
<1>7. Gate BY DEF Gate
<1> QED BY <1>1, <1>4, <1>5, <1>6, <1>7 DEF ThreadInv

\* Steps of the main thread and of the threads that change no queue of events,
\* start no thread and end none.
LEMMA QuietStep ==
    ASSUME ThreadInv,
           UNCHANGED <<worker, spawned, alive, outbox, settled>>,
           restarting' => restarting, closed' => closed \/ ~restarting, closed => closed'
    PROVE  ThreadInv'
<1>1. Numbers' BY DEF ThreadInv, Numbers
<1>2. Outboxes' BY DEF ThreadInv, Outboxes
<1>3. Alive' BY DEF ThreadInv, Alive
<1>4. Events' BY DEF ThreadInv, Events
<1>5. Gate' BY DEF ThreadInv, Gate
<1> QED BY <1>1, <1>2, <1>3, <1>4, <1>5 DEF ThreadInv

\* A thread is started only when there is none.
LEMMA SpawnStep ==
    ASSUME ThreadInv, ThreadAssumption, SpawnWorker, ~closed, worker = 0,
           UNCHANGED <<closing, outbox, settled>>, ~restarting'
    PROVE  ThreadInv'
<1>1. /\ spawned \in 0 .. MaxSpawns /\ MaxSpawns \in Nat \ {0} /\ DOMAIN settled = Workers
      /\ alive \in [Workers -> BOOLEAN] /\ Workers = 1 .. MaxSpawns
    BY DEF ThreadInv, Numbers, ThreadAssumption, Workers
<1>2. spawned # MaxSpawns BY <1>1 DEF ThreadInv, Alive
<1>3. \A w \in Workers : ~alive[w]
  <2> SUFFICES ASSUME NEW w \in Workers, alive[w] PROVE FALSE OBVIOUS
  <2>1. w = spawned /\ spawned # 0 BY <1>1 DEF ThreadInv, Alive
  <2> QED BY <2>1 DEF ThreadInv, Alive
<1>4. spawned + 1 \in Workers /\ spawned + 1 \in 0 .. MaxSpawns BY <1>1, <1>2
<1>5. /\ alive' \in [Workers -> BOOLEAN] /\ alive'[spawned + 1]
      /\ \A w \in Workers : alive'[w] => w = spawned + 1
    BY <1>1, <1>3, <1>4 DEF SpawnWorker
<1>6. spawned' = spawned + 1 /\ worker' = spawned + 1 BY DEF SpawnWorker
<1>7. Numbers' BY <1>1, <1>4, <1>5, <1>6 DEF Numbers
<1>8. Outboxes'
  <2>1. \A w \in Workers : w > spawned + 1 => w > spawned BY <1>1
  <2> QED BY <2>1, <1>6 DEF ThreadInv, Outboxes
<1>9. Alive'
  <2>1. worker' # 0 BY <1>1, <1>6
  <2> QED BY <1>5, <1>6, <2>1 DEF Alive
<1>10. Events'
  <2>1. outbox[spawned + 1] = <<>>
    <3>1. spawned + 1 > spawned BY <1>1
    <3> QED BY <3>1, <1>4 DEF ThreadInv, Outboxes
  <2>2. NoEvents(<<>>)
    <3>1. \A i \in 1 .. Len(<<>>) : FALSE OBVIOUS
    <3> QED BY <3>1 DEF NoEvents, Has
  <2>3. \A w \in Workers : /\ alive'[w] => NoEvents(outbox[w])
                           /\ ~Has(outbox[w], "error")
                           /\ ~(Has(outbox[w], "exit") /\ settled[w] = "pending")
    <3> SUFFICES ASSUME NEW w \in Workers
                 PROVE  /\ alive'[w] => NoEvents(outbox[w])
                        /\ ~Has(outbox[w], "error")
                        /\ ~(Has(outbox[w], "exit") /\ settled[w] = "pending")
        OBVIOUS
    <3>1. w # worker BY <1>1
    <3>2. ~Has(outbox[w], "error") /\ ~(Has(outbox[w], "exit") /\ settled[w] = "pending")
        BY <3>1 DEF ThreadInv, Events
    <3>3. alive'[w] => NoEvents(outbox[w]) BY <1>5, <2>1, <2>2
    <3> QED BY <3>2, <3>3
  <2> QED BY <2>3 DEF Events
<1>11. Gate' BY DEF Gate
<1> QED BY <1>7, <1>8, <1>9, <1>10, <1>11 DEF ThreadInv

LEMMA EnsureStep ==
    ASSUME ThreadInv, ThreadAssumption, EnsureWorker,
           UNCHANGED <<closing, outbox, settled>>, ~restarting'
    PROVE  ThreadInv'
<1>1. CASE closed \/ worker # 0 \/ spawn # 0
  <2>1. UNCHANGED <<worker, spawned, alive>> BY <1>1 DEF EnsureWorker
  <2> QED BY <2>1, QuietStep DEF closed
<1>2. CASE ~(closed \/ worker # 0 \/ spawn # 0) BY <1>2, SpawnStep DEF EnsureWorker
<1> QED BY <1>1, <1>2

LEMMA WriteStep == ASSUME ThreadInv, ThreadAssumption, Write PROVE ThreadInv'
<1>1. UNCHANGED <<closing, outbox, settled, restarting>> BY DEF Write, calls
<1>2. CASE UNCHANGED <<worker, spawned, alive>> BY <1>1, <1>2, QuietStep DEF closed
<1>3. CASE ~restarting /\ EnsureWorker BY <1>1, <1>3, EnsureStep
<1> QED BY <1>2, <1>3 DEF Write

LEMMA RestartStep == ASSUME ThreadInv, ThreadAssumption, RestartTimer PROVE ThreadInv'
<1>1. /\ EnsureWorker /\ restarting' = FALSE
      /\ UNCHANGED <<closing, outbox, settled>> BY DEF RestartTimer, calls
<1> QED BY <1>1, EnsureStep

\* flush() and close() of the transport.
LEMMA CallStep == ASSUME ThreadInv, Flush \/ Close PROVE ThreadInv'
<1>1. /\ UNCHANGED <<worker, spawned, alive, outbox, settled, restarting>>
      /\ ~closed /\ worker # 0 BY DEF Flush, Close, SendAndWait, thread
<1>2. ~restarting BY <1>1 DEF ThreadInv, Gate
<1> QED BY <1>1, <1>2, QuietStep

\* A thread sends an answer, or nothing.
LEMMA AnswerStep ==
    ASSUME ThreadInv, NEW w \in Workers, alive[w],
           UNCHANGED <<worker, spawned, alive, settled, restarting, closing>>,
           NEW m, m.kind # "error", m.kind # "exit", Send(w, <<m>>)
    PROVE  ThreadInv'
<1>1. outbox[w] \in Seq(ToSet(outbox[w])) /\ NoEvents(outbox[w]) BY DEF ThreadInv, Outboxes, Events
<1> DEFINE s == outbox[w]
<1>2. s \o <<m>> \in Seq(ToSet(s \o <<m>>)) /\ EventsLast(s \o <<m>>) /\ NoEvents(s \o <<m>>)
  <2> HIDE DEF s
  <2> QED BY <1>1, SendQuiet DEF s
<1>3. /\ Outboxes' /\ outbox'[w] = s \o <<m>>
      /\ \A v \in Workers \ {w} : outbox'[v] = outbox[v]
    BY <1>2, SendQueues
<1>4. NoEvents(outbox'[w]) BY <1>2, <1>3
<1>5. Events'
  <2> SUFFICES ASSUME NEW v \in Workers
               PROVE  /\ alive[v] => NoEvents(outbox'[v])
                      /\ ~closed /\ Has(outbox'[v], "error") => worker = v
                      /\ ~closed /\ Has(outbox'[v], "exit") /\ settled[v] = "pending" => worker = v
      BY DEF Events, closed
  <2>1. CASE v = w BY <2>1, <1>4 DEF NoEvents
  <2>2. CASE v # w
    <3>1. outbox'[v] = outbox[v] BY <2>2, <1>3
    <3> QED BY <3>1 DEF ThreadInv, Events
  <2> QED BY <2>1, <2>2
<1>6. Numbers' /\ Alive' /\ Gate' BY DEF ThreadInv, Numbers, Alive, Gate, closed
<1> QED BY <1>3, <1>5, <1>6 DEF ThreadInv

\* What a running thread does.
LEMMA RunStep == ASSUME ThreadInv, NEW w \in Workers, Run(w) PROVE ThreadInv'
<1> DEFINE quiet == UNCHANGED <<worker, spawned, alive, settled, restarting, closing>>
<1>1. CASE Handle(w)
  <2>1. alive[w] /\ quiet BY <1>1 DEF Handle, mainThread, calls
  <2>2. CASE UNCHANGED outbox BY <2>1, <2>2, QuietStep DEF closed
  <2>3. CASE Send(w, <<ToWorker("ready", 0)>>)
    <3>1. ToWorker("ready", 0).kind # "error" /\ ToWorker("ready", 0).kind # "exit" BY DEF ToWorker
    <3> QED BY <2>1, <2>3, <3>1, AnswerStep
  <2> QED BY <1>1, <2>2, <2>3 DEF Handle
<1>2. ASSUME NEW job \in jobs[w], FinishFlush(w, job) \/ FinishClose(w, job) PROVE ThreadInv'
  <2>1. alive[w] /\ quiet BY <1>2 DEF FinishFlush, FinishClose, mainThread, calls
  <2>2. CASE UNCHANGED outbox BY <2>1, <2>2, QuietStep DEF closed
  <2>3. CASE Send(w, <<ToWorker("acked", job.n)>>)
    <3>1. ToWorker("acked", job.n).kind # "error" /\ ToWorker("acked", job.n).kind # "exit" BY DEF ToWorker
    <3> QED BY <2>1, <2>3, <3>1, AnswerStep
  <2> QED BY <1>2, <2>2, <2>3 DEF FinishFlush, FinishClose
<1> QED BY <1>1, <1>2 DEF Run

\* A thread that ends is this.worker, as long as the transport is open.
LEMMA DiesStep ==
    ASSUME ThreadInv, NEW w \in Workers, NEW S, NEW ms \in Seq(S), EventsLast(ms), Dies(w, ms)
    PROVE  ThreadInv'
<1>1. /\ alive[w] /\ spawned < MaxSpawns /\ alive' = [alive EXCEPT ![w] = FALSE] /\ Send(w, ms)
      /\ UNCHANGED <<worker, spawned, settled, restarting, closing>>
    BY DEF Dies, mainThread, calls
<1>2. /\ w = spawned /\ spawned \in 0 .. MaxSpawns /\ spawned # 0
      /\ alive \in [Workers -> BOOLEAN] /\ worker \in {0, spawned}
    BY <1>1 DEF ThreadInv, Alive, Numbers, Workers
<1>3. ~closed => worker = w BY <1>1, <1>2 DEF ThreadInv, Alive
<1>4. outbox[w] \in Seq(ToSet(outbox[w])) /\ NoEvents(outbox[w])
    BY <1>1 DEF ThreadInv, Outboxes, Events
<1> DEFINE s == outbox[w]
<1>5. s \o ms \in Seq(ToSet(s \o ms)) /\ EventsLast(s \o ms)
  <2> HIDE DEF s
  <2> QED BY <1>4, SendEvents DEF s
<1>6. /\ Outboxes' /\ outbox'[w] = s \o ms
      /\ \A v \in Workers \ {w} : outbox'[v] = outbox[v]
    BY <1>1, <1>5, SendQueues
<1>7. /\ alive' \in [Workers -> BOOLEAN] /\ ~alive'[w]
      /\ \A v \in Workers : alive'[v] => alive[v] BY <1>1, <1>2
<1>8. Numbers' BY <1>1, <1>7 DEF ThreadInv, Numbers
<1>9. Alive'
  <2>1. \A v \in Workers : alive'[v] => v = spawned BY <1>7 DEF ThreadInv, Alive
  <2>2. spawned # MaxSpawns /\ ~alive'[spawned] BY <1>1, <1>2, <1>7
  <2> QED BY <2>1, <2>2, <1>1 DEF Alive
<1>10. Events'
  <2> SUFFICES ASSUME NEW v \in Workers
               PROVE  /\ alive'[v] => NoEvents(outbox'[v])
                      /\ ~closed /\ Has(outbox'[v], "error") => worker = v
                      /\ ~closed /\ Has(outbox'[v], "exit") /\ settled[v] = "pending" => worker = v
      BY <1>1 DEF Events, closed
  <2>1. CASE v = w BY <2>1, <1>3, <1>7
  <2>2. CASE v # w
    <3>1. outbox'[v] = outbox[v] /\ (alive'[v] => alive[v]) BY <2>2, <1>6, <1>7
    <3> QED BY <3>1 DEF ThreadInv, Events
  <2> QED BY <2>1, <2>2
<1>11. Gate' BY <1>1 DEF ThreadInv, Gate, closed
<1> QED BY <1>6, <1>8, <1>9, <1>10, <1>11 DEF ThreadInv

LEMMA CrashStep == ASSUME ThreadInv, NEW w \in Workers, Crash(w) PROVE ThreadInv'
<1> DEFINE ms == <<ToWorker("error", 0), ToWorker("exit", 0)>>
<1>1. /\ ms \in Seq({ToWorker("error", 0), ToWorker("exit", 0)})
      /\ Len(ms) = 2 /\ ms[1] = ToWorker("error", 0) /\ ms[2] = ToWorker("exit", 0) OBVIOUS
<1>2. EventsLast(ms)
  <2> HIDE DEF ms
  <2> QED BY <1>1 DEF EventsLast, ToWorker
<1> QED BY <1>1, <1>2, DiesStep DEF Crash

LEMMA ExitStep == ASSUME ThreadInv, NEW w \in Workers, Exit(w) PROVE ThreadInv'
<1> DEFINE ms == <<ToWorker("exit", 0)>>
<1>1. ms \in Seq({ToWorker("exit", 0)}) /\ Len(ms) = 1 /\ ms[1] = ToWorker("exit", 0) OBVIOUS
<1>2. EventsLast(ms)
  <2> HIDE DEF ms
  <2> QED BY <1>1 DEF EventsLast, ToWorker
<1> QED BY <1>1, <1>2, DiesStep DEF Exit

\* A message that is not taken for a crash.
LEMMA HarmlessStep ==
    ASSUME ThreadInv, NEW w \in Workers, NEW kind, Receive(w, kind),
           UNCHANGED <<worker, alive, restarting>>, DOMAIN settled' = Workers,
           \A v \in Workers : settled'[v] = "pending" => settled[v] = "pending"
    PROVE  ThreadInv'
<1>1. UNCHANGED <<spawned, closing>> BY DEF Receive
<1>2. Outboxes' /\ \A v \in Workers : \A k \in {"error", "exit"} : Has(outbox'[v], k) => Has(outbox[v], k)
    BY ReceiveQueues
<1>3. Events'
  <2> SUFFICES ASSUME NEW v \in Workers
               PROVE  /\ alive[v] => NoEvents(outbox'[v])
                      /\ ~closed /\ Has(outbox'[v], "error") => worker = v
                      /\ ~closed /\ Has(outbox'[v], "exit") /\ settled'[v] = "pending" => worker = v
      BY <1>1 DEF Events, closed
  <2> QED BY <1>2 DEF ThreadInv, Events, NoEvents
<1>4. Numbers' /\ Alive' /\ Gate' BY <1>1 DEF ThreadInv, Numbers, Alive, Gate, closed
<1> QED BY <1>2, <1>3, <1>4 DEF ThreadInv

\* A message taken for a crash comes from the thread that was started last, and
\* no thread sends a second one.
LEMMA CrashEventStep ==
    ASSUME ThreadInv, NEW w \in Workers, NEW kind, Receive(w, kind), ~closed, worker = w,
           ~Has(outbox'[w], "error"), ~(Has(outbox'[w], "exit") /\ settled'[w] = "pending"),
           Has(outbox[w], "error") \/ Has(outbox[w], "exit"),
           OnWorkerCrash, UNCHANGED alive, DOMAIN settled' = Workers,
           \A v \in Workers \ {w} : settled'[v] = settled[v]
    PROVE  ThreadInv' /\ ~alive'[worker]
<1>1. /\ UNCHANGED <<spawned, closing>> /\ w # 0
      /\ spawned \in 0 .. MaxSpawns /\ worker \in {0, spawned} /\ alive \in [Workers -> BOOLEAN]
    BY DEF Receive, ThreadInv, Numbers, Workers
<1>2. w = spawned /\ ~restarting BY <1>1 DEF ThreadInv, Gate
<1>3. worker' = 0 /\ ~closed' BY <1>1, <1>2 DEF OnWorkerCrash, closed
<1>4. ~alive[w] BY DEF ThreadInv, Events, NoEvents
<1>5. Outboxes' /\ \A v \in Workers : \A k \in {"error", "exit"} : Has(outbox'[v], k) => Has(outbox[v], k)
    BY ReceiveQueues
<1>6. Numbers' BY <1>1, <1>3 DEF ThreadInv, Numbers
<1>7. Alive' BY <1>1, <1>2, <1>4 DEF ThreadInv, Alive
<1>8. Events'
  <2> SUFFICES ASSUME NEW v \in Workers
               PROVE  /\ alive[v] => NoEvents(outbox'[v])
                      /\ ~Has(outbox'[v], "error")
                      /\ ~(Has(outbox'[v], "exit") /\ settled'[v] = "pending")
      BY DEF Events
  <2>1. CASE v = w BY <2>1, <1>4
  <2>2. CASE v # w BY <2>2, <1>5 DEF ThreadInv, Events, NoEvents
  <2> QED BY <2>1, <2>2
<1>9. Gate' BY <1>3 DEF Gate
<1> QED BY <1>4, <1>5, <1>6, <1>7, <1>8, <1>9 DEF ThreadInv

LEMMA ReadyStep == ASSUME ThreadInv, NEW w \in Workers, ReceiveReady(w) PROVE ThreadInv'
<1>1. DOMAIN settled = Workers BY DEF ThreadInv, Numbers
<1>2. /\ Receive(w, "ready") /\ settled' = [settled EXCEPT ![w] = "ready"]
      /\ UNCHANGED <<worker, restarting, alive>> BY DEF ReceiveReady
<1> QED BY <1>1, <1>2, HarmlessStep

LEMMA AckStep == ASSUME ThreadInv, NEW w \in Workers, ReceiveAck(w) PROVE ThreadInv'
<1>1. Receive(w, "acked") /\ UNCHANGED <<settled, restarting>> BY DEF ReceiveAck
<1>2. DOMAIN settled = Workers BY DEF ThreadInv, Numbers
<1>3. CASE UNCHANGED <<worker, alive>> BY <1>1, <1>2, <1>3, HarmlessStep
<1>4. CASE closed /\ worker' = 0 /\ alive' = [alive EXCEPT ![worker] = FALSE]
  <2>1. /\ UNCHANGED <<spawned, closing>> /\ closed' /\ alive \in [Workers -> BOOLEAN]
      BY <1>1, <1>4 DEF Receive, closed, ThreadInv, Numbers
  <2>2. /\ alive' \in [Workers -> BOOLEAN]
        /\ \A v \in Workers : alive'[v] => alive[v] BY <1>4, <2>1
  <2>3. /\ Outboxes'
        /\ \A v \in Workers : \A k \in {"error", "exit"} : Has(outbox'[v], k) => Has(outbox[v], k)
      BY <1>1, ReceiveQueues
  <2>4. Numbers' BY <1>2, <1>1, <1>4, <2>1, <2>2 DEF ThreadInv, Numbers
  <2>5. Alive' BY <2>1, <2>2 DEF ThreadInv, Alive
  <2>6. Events' BY <2>1, <2>2, <2>3 DEF ThreadInv, Events, NoEvents
  <2>7. Gate' BY <1>1, <1>4 DEF ThreadInv, Gate
  <2> QED BY <2>3, <2>4, <2>5, <2>6, <2>7 DEF ThreadInv
<1> QED BY <1>3, <1>4 DEF ReceiveAck

LEMMA ErrorStep ==
    ASSUME ThreadInv, NEW w \in Workers, ReceiveError(w)
    PROVE  ThreadInv' /\ (worker' # worker => ~alive'[worker])
<1>1. /\ Receive(w, "error") /\ OnWorkerCrash /\ UNCHANGED alive
      /\ settled' = [settled EXCEPT ![w] = IF @ = "pending" THEN "failed" ELSE @] BY DEF ReceiveError
<1>2. /\ DOMAIN settled' = Workers /\ settled'[w] # "pending"
      /\ \A v \in Workers \ {w} : settled'[v] = settled[v] BY <1>1 DEF ThreadInv, Numbers
<1>3. Has(outbox[w], "error") /\ ~Has(outbox'[w], "error") BY <1>1, ReceiveQueues
<1>4. CASE closed
  <2>1. UNCHANGED <<worker, restarting>> BY <1>1, <1>4 DEF OnWorkerCrash
  <2>2. \A v \in Workers : settled'[v] = "pending" => settled[v] = "pending" BY <1>2
  <2> QED BY <2>1, <2>2, <1>1, <1>2, HarmlessStep
<1>5. CASE ~closed
  <2>1. worker = w BY <1>3, <1>5 DEF ThreadInv, Events
  <2> QED BY <2>1, <1>1, <1>2, <1>3, <1>5, CrashEventStep
<1> QED BY <1>4, <1>5

LEMMA ExitEventStep ==
    ASSUME ThreadInv, NEW w \in Workers, ReceiveExit(w)
    PROVE  ThreadInv' /\ (worker' # worker => ~alive'[worker])
<1>1. Receive(w, "exit") /\ UNCHANGED <<settled, alive>> /\ DOMAIN settled = Workers
    BY DEF ReceiveExit, ThreadInv, Numbers
<1>2. Has(outbox[w], "exit") /\ NoEvents(outbox'[w]) BY <1>1, ReceiveQueues
<1>3. CASE UNCHANGED <<worker, restarting>> BY <1>1, <1>3, HarmlessStep
<1>4. CASE settled[w] = "pending" /\ OnWorkerCrash /\ ~closed
  <2>1. worker = w BY <1>2, <1>4 DEF ThreadInv, Events
  <2> QED BY <2>1, <1>1, <1>2, <1>4, CrashEventStep DEF NoEvents
<1>5. CASE OnWorkerCrash /\ closed BY <1>3, <1>5 DEF OnWorkerCrash
<1> QED BY <1>3, <1>4, <1>5 DEF ReceiveExit

LEMMA NextInv == ThreadInv /\ ThreadAssumption /\ [Next]_vars => ThreadInv'
<1> SUFFICES ASSUME ThreadInv, ThreadAssumption, [Next]_vars PROVE ThreadInv' OBVIOUS
<1>1. CASE UNCHANGED vars
  <2>1. UNCHANGED <<worker, spawned, alive, outbox, settled, restarting, closing>>
      BY <1>1 DEF vars, calls, thread
  <2> QED BY <2>1, QuietStep DEF closed
<1>2. ASSUME NEW w \in Workers, Deliver(w) PROVE ThreadInv'
    BY <1>2, ReadyStep, AckStep, ErrorStep, ExitEventStep DEF Deliver
<1> QED BY <1>1, <1>2, WriteStep, CallStep, RestartStep, RunStep, CrashStep, ExitStep DEF Next

-----------------------------------------------------------------------------
(* What a user of the transport may rely on.                               *)

\* A step that changes this.worker from a thread leaves that thread ended.
LEMMA OnlyDead ==
    ASSUME ThreadInv, ThreadAssumption, [Next]_vars, worker # 0, worker' # worker
    PROVE  ~alive'[worker]
<1>1. ASSUME EnsureWorker PROVE FALSE BY <1>1 DEF EnsureWorker
<1>2. ~UNCHANGED vars BY DEF vars
<1>3. ~Write /\ ~RestartTimer BY <1>1 DEF Write, RestartTimer
<1>4. ~Flush /\ ~Close BY DEF Flush, Close, SendAndWait
<1>5. ASSUME NEW w \in Workers, Run(w) \/ Crash(w) \/ Exit(w) PROVE FALSE
    BY <1>5 DEF Run, Handle, FinishFlush, FinishClose, Crash, Exit, Dies, mainThread
<1>6. ASSUME NEW w \in Workers, Deliver(w) PROVE ~alive'[worker]
  <2>1. ~ReceiveReady(w) BY DEF ReceiveReady
  <2>2. CASE ReceiveAck(w)
    <3>1. alive' = [alive EXCEPT ![worker] = FALSE] BY <2>2 DEF ReceiveAck
    <3>2. alive \in [Workers -> BOOLEAN] /\ worker \in Workers
        BY ThreadAssumption DEF ThreadInv, Numbers, Workers
    <3> QED BY <3>1, <3>2
  <2> QED BY <1>6, <2>1, <2>2, ErrorStep, ExitEventStep DEF Deliver
<1> QED BY <1>2, <1>3, <1>4, <1>5, <1>6 DEF Next

\* Every state that can be reached has the invariant.
LEMMA InvariantHolds == Spec => []ThreadInv
<1>1. Init => ThreadInv BY InitInv
<1>2. ThreadInv /\ [Next]_vars => ThreadInv' BY NextInv, ThreadAssumption
<1> QED BY <1>1, <1>2, PTL DEF Spec

\* However often threads fail, exit and are restarted, at most one of them runs
\* the transports, and this.worker lets go of a thread only when it has ended
\* (onWorkerCrash(), the settled flag, ensureWorker()).
THEOREM OneAfterTheOtherCorrect == Spec => OneAfterTheOther
<1>1. ThreadInv => OneWorker
  <2> SUFFICES ASSUME ThreadInv, NEW v \in Workers, NEW w \in Workers, alive[v], alive[w] PROVE v = w
      BY DEF OneWorker
  <2> QED BY DEF ThreadInv, Alive
<1>2. ThreadInv /\ [Next]_vars => [worker # 0 /\ worker' # worker => ~alive'[worker]]_vars
    BY OnlyDead, ThreadAssumption
<1> QED BY <1>1, <1>2, InvariantHolds, PTL DEF Spec, OneAfterTheOther, OnlyDeadWorkersReplaced

\* While a restart is pending there is no worker and close() has not been called:
\* a close() made then returns at once and leaves the timer armed.
THEOREM GateMeansNoWorkerAlways == Spec => []GateMeansNoWorker
<1>1. ThreadInv => GateMeansNoWorker BY DEF ThreadInv, Gate, GateMeansNoWorker
<1> QED BY <1>1, InvariantHolds, PTL

-----------------------------------------------------------------------------
(* Filters of sequences.                                                   *)

\* A filter that no element passes leaves nothing, one that every element passes
\* leaves all; what is left of a sequence of rising entries has rising entries.
LEMMA AmongShape ==
    ASSUME NEW T, NEW s \in Seq(T), NEW S
    PROVE  LET r == Among(s, S)
           IN  /\ r \in Seq(T)
               /\ \A x : x \in ToSet(r) <=> x \in ToSet(s) /\ x \in S
               /\ (\A i, j \in 1 .. Len(s) : i < j => s[i].entry < s[j].entry)
                    => \A i, j \in 1 .. Len(r) : i < j => r[i].entry < r[j].entry
               /\ (\A x \in ToSet(s) : x \in S) => r = s
               /\ (\A x \in ToSet(s) : x \notin S) => r = <<>>
<1> DEFINE r == Among(s, S)
<1>1. /\ r \in Seq(T)
      /\ \A x : x \in ToSet(r) <=> x \in ToSet(s) /\ x \in S
      /\ (\A x \in ToSet(s) : x \in S) => r = s
      /\ (\A x \in ToSet(s) : x \notin S) => r = <<>>
  BY AmongElements
<1>2. PICK p \in [1 .. Len(r) -> 1 .. Len(s)] :
        /\ \A i, j \in 1 .. Len(r) : i < j => p[i] < p[j]
        /\ \A i \in 1 .. Len(r) : r[i] = s[p[i]]
  BY AmongPlaces, SMTT(20)
<1>3. ASSUME \A i, j \in 1 .. Len(s) : i < j => s[i].entry < s[j].entry
      PROVE  \A i, j \in 1 .. Len(r) : i < j => r[i].entry < r[j].entry
  BY <1>2, <1>3
<1> QED  BY <1>1, <1>3

-----------------------------------------------------------------------------
(* The writes that wait, and what is under way.                            *)

\* The entries that are no longer in a write that waits.
Gone == offered - Len(waiting)

WaiterOK(x, gate, thr, last, state) ==
    /\ \/ x.on = "gate" /\ x.w = 0 /\ gate
       \/ x.on \in {"ready", "spawn"} /\ last # 0 /\ x.w = last /\ state[last] = "pending"
    /\ x.on = "spawn" /\ x.entry # 1 => thr = 0

\* The writes that wait are the last ones: none is overtaken.  They wait for the
\* gate or for the thread started last, and unless that thread was lost, for
\* this.spawn only the very first.
WaitersLast ==
    /\ offered \in Nat /\ waiting \in Seq(ToSet(waiting)) /\ Len(waiting) <= offered
    /\ \A i \in 1 .. Len(waiting) : /\ waiting[i].entry = Gone + i
                                    /\ WaiterOK(waiting[i], restarting, worker, spawned, settled)

\* this.spawn is the thread started last until that thread settles, and a thread
\* runs only as this.worker.
SpawnState ==
    /\ settled \in [Workers -> {"pending", "ready", "failed"}]
    /\ spawn = IF spawned # 0 /\ settled[spawned] = "pending" THEN spawned ELSE 0
    /\ \A w \in Workers : /\ w > spawned => settled[w] = "pending"
                          /\ alive[w] => worker = w
    /\ ~closed /\ worker # 0 => settled[worker] # "failed"
    /\ ~closed /\ ~restarting /\ worker = 0 /\ spawn = 0 => offered = 0

\* What is under way to and from thread w: it says that it is ready first of all,
\* once it has seen its first message.
ReadyOK(w, in, out, js, runs, last, thr) ==
    /\ in \in Seq(ToSet(in))
    /\ w > last => in = <<>> /\ js = {}
    /\ \A i \in 1 .. Len(in) : in[i].kind = "init" => i = 1 /\ (runs => out = <<>> /\ js = {})
    /\ \A i \in 1 .. Len(out) : out[i].kind = "ready" => i = 1 /\ thr = w

\* Calls are numbered, and what belongs to close() is under way to or from the
\* thread started last, whose transport is closed before it is acknowledged.
CallOK(w, in, out, js, tr, last, n, c) ==
    /\ \A i \in 1 .. Len(in) : in[i].kind \in {"flush", "close"} =>
          in[i].n \in 1 .. n /\ (in[i].n = c => in[i].kind = "close" /\ w = last)
    /\ \A job \in js : /\ job.n \in 1 .. n
                       /\ job.n = c => job.kind # "flush" /\ w = last
                       /\ job.kind = "ending" => tr = "closed"
    /\ \A i \in 1 .. Len(out) : out[i].kind = "acked" =>
          out[i].n \in 1 .. n /\ (out[i].n = c => tr = "closed" /\ w = last)

Messages ==
    /\ DOMAIN inbox = Workers /\ DOMAIN jobs = Workers /\ DOMAIN transport = Workers
    /\ seq \in Nat /\ closing \in 0 .. seq
    /\ \A w \in Workers :
          /\ ReadyOK(w, inbox[w], outbox[w], jobs[w], alive[w], spawned, worker)
          /\ CallOK(w, inbox[w], outbox[w], jobs[w], transport[w], spawned, seq, closing)

\* The numbers of the threads.
LEMMA ThreadNumbers ==
    ASSUME ThreadInv, ThreadAssumption
    PROVE  /\ MaxSpawns \in Nat \ {0} /\ Workers = 1 .. MaxSpawns
           /\ spawned \in Nat /\ spawned <= MaxSpawns /\ worker \in {0, spawned}
           /\ spawned # 0 => spawned \in Workers
BY DEF ThreadInv, Numbers, ThreadAssumption, Workers

\* Only the gate opens and closes for writes that wait; while it is open and
\* this.worker is ready, none waits.
LEMMA NobodyWaits ==
    ASSUME ThreadInv, ThreadAssumption, WaitersLast, ~restarting,
           spawned = 0 \/ settled[spawned] # "pending"
    PROVE  waiting = <<>>
<1>1. waiting \in Seq(ToSet(waiting)) /\ Len(waiting) \in Nat BY LenProperties DEF WaitersLast
<1>2. \A i \in 1 .. Len(waiting) : FALSE BY DEF WaitersLast, WaiterOK
<1>3. Len(waiting) = 0
  <2> SUFFICES ASSUME Len(waiting) # 0 PROVE FALSE OBVIOUS
  <2>1. 1 \in 1 .. Len(waiting) BY <1>1
  <2> QED BY <2>1, <1>2
<1> QED BY <1>1, <1>3, EmptySeq

\* A write that joins the writes that wait is the last of them.
LEMMA AppendWaiter ==
    ASSUME WaitersLast, NEW x, x.entry = offered + 1, waiting' = Append(waiting, x),
           offered' = offered + 1, WaiterOK(x, restarting', worker', spawned', settled'),
           \A i \in 1 .. Len(waiting) :
               WaiterOK(waiting[i], restarting', worker', spawned', settled')
    PROVE  WaitersLast'
<1> DEFINE n == Len(waiting)
<1>1. waiting \in Seq(ToSet(waiting) \cup {x}) /\ n \in Nat /\ offered \in Nat /\ n <= offered
  <2>1. waiting \in Seq(ToSet(waiting)) /\ offered \in Nat /\ n <= offered BY DEF WaitersLast
  <2>2. waiting \in Seq(ToSet(waiting) \cup {x}) BY <2>1, SeqMonotonic
  <2> QED BY <2>1, <2>2, LenProperties
<1>2. /\ waiting' \in Seq(ToSet(waiting) \cup {x}) /\ Len(waiting') = n + 1
      /\ \A i \in 1 .. n : waiting'[i] = waiting[i]
      /\ waiting'[n + 1] = x
  BY <1>1, AppendProperties
<1>3. waiting' \in Seq(ToSet(waiting')) BY <1>2, OwnElements
<1>4. offered' \in Nat /\ Len(waiting') <= offered' /\ offered' - Len(waiting') = offered - n
  BY <1>1, <1>2
<1>5. ASSUME NEW i \in 1 .. Len(waiting')
      PROVE  /\ waiting'[i].entry = (offered' - Len(waiting')) + i
             /\ WaiterOK(waiting'[i], restarting', worker', spawned', settled')
  <2>1. CASE i \in 1 .. n
    <3>1. waiting[i].entry = (offered - n) + i BY <2>1 DEF WaitersLast, Gone
    <3> QED BY <2>1, <3>1, <1>2, <1>4
  <2>2. CASE i = n + 1
    <3>1. (offered - n) + (n + 1) = offered + 1 BY <1>1
    <3> QED BY <2>2, <3>1, <1>2, <1>4
  <2> QED BY <2>1, <2>2, <1>1, <1>2
<1> QED BY <1>3, <1>4, <1>5 DEF WaitersLast, Gone

\* What write() does.
LEMMA WriteCases ==
    ASSUME ThreadInv, ThreadAssumption, WaitersLast, SpawnState, Write
    PROVE  /\ offered' = offered + 1 /\ ~closed
           /\ UNCHANGED <<rejected, settled, restarting, restartAttempts, calls, outbox,
                          transport, jobs, taken, ignored>>
           /\ \/ /\ ~restarting /\ worker # 0 /\ waiting = <<>> /\ waiting' = waiting
                 /\ Post(worker, <<ToWorker("entry", offered + 1)>>)
                 /\ UNCHANGED <<worker, spawn, spawned, alive>>
              \/ /\ UNCHANGED <<worker, spawn, spawned, alive, inbox>>
                 /\ restarting \/ worker # 0 \/ spawn # 0
                 /\ \E x : /\ x.entry = offered + 1 /\ waiting' = Append(waiting, x)
                           /\ WaiterOK(x, restarting, worker, spawned, settled)
              \/ /\ SpawnWorker /\ offered = 0 /\ worker = 0 /\ ~restarting /\ waiting = <<>>
                 /\ spawned + 1 \in Workers /\ settled[spawned + 1] = "pending"
                 /\ \E x : /\ x.entry = offered + 1 /\ waiting' = Append(waiting, x)
                           /\ WaiterOK(x, restarting, spawned + 1, spawned + 1, settled)
<1> DEFINE e == offered + 1
           it == Awaits(e)
<1>0. /\ offered' = e /\ ~closed
      /\ UNCHANGED <<rejected, settled, restarting, restartAttempts, calls, outbox,
                     transport, jobs, taken, ignored>>
  BY DEF Write
<1>1. IF it.on = "none"
        THEN /\ Post(worker, <<ToWorker("entry", e)>>)
             /\ UNCHANGED <<waiting, worker, spawn, spawned, alive>>
        ELSE /\ waiting' = Append(waiting, it)
             /\ IF restarting THEN UNCHANGED <<worker, spawn, spawned, alive, inbox>>
                              ELSE EnsureWorker
  BY DEF Write
<1>2. /\ MaxSpawns \in Nat \ {0} /\ Workers = 1 .. MaxSpawns /\ spawned \in Nat
      /\ spawned <= MaxSpawns /\ worker \in {0, spawned} /\ (spawned # 0 => spawned \in Workers)
  BY ThreadNumbers
<1>3. \A x, on, w : /\ Waiter(x, on, w).entry = x /\ Waiter(x, on, w).on = on
                    /\ Waiter(x, on, w).w = w BY DEF Waiter
<1>4. CASE restarting
  <2>1. it = Waiter(e, "gate", 0) BY <1>4 DEF Awaits
  <2> HIDE DEF it
  <2>2. /\ waiting' = Append(waiting, it) /\ UNCHANGED <<worker, spawn, spawned, alive, inbox>>
        /\ it.entry = e /\ it.on = "gate" /\ it.w = 0
    BY <1>1, <1>3, <1>4, <2>1
  <2>3. WaiterOK(it, restarting, worker, spawned, settled) BY <2>2, <1>4 DEF WaiterOK
  <2> QED BY <2>2, <2>3, <1>0, <1>4
<1>5. CASE ~restarting /\ worker # 0
  <2>1. it = Waiter(e, IF settled[worker] = "ready" THEN "none" ELSE "ready", worker)
    BY <1>5 DEF Awaits
  <2> HIDE DEF it
  <2>2. worker = spawned /\ spawned # 0 BY <1>2, <1>5
  <2>3. CASE settled[worker] = "ready"
    <3>1. it.on = "none" BY <2>1, <2>3, <1>3
    <3>2. waiting = <<>> BY <2>2, <2>3, <1>5, NobodyWaits
    <3> QED BY <3>1, <3>2, <1>0, <1>1, <1>5
  <2>4. CASE settled[worker] # "ready"
    <3>1. it.entry = e /\ it.on = "ready" /\ it.w = spawned BY <2>1, <2>2, <2>4, <1>3
    <3>2. settled[spawned] = "pending" BY <2>2, <2>4, <1>0, <1>2 DEF SpawnState
    <3>3. /\ waiting' = Append(waiting, it) /\ UNCHANGED <<worker, spawn, spawned, alive, inbox>>
      BY <3>1, <1>1, <1>5 DEF EnsureWorker
    <3>4. WaiterOK(it, restarting, worker, spawned, settled) BY <3>1, <3>2, <2>2 DEF WaiterOK
    <3> QED BY <3>1, <3>3, <3>4, <1>0, <1>5
  <2> QED BY <2>3, <2>4
<1>6. CASE ~restarting /\ worker = 0 /\ spawn # 0
  <2>1. it = Waiter(e, "spawn", spawn) BY <1>6 DEF Awaits
  <2> HIDE DEF it
  <2>2. spawn = spawned /\ spawned # 0 /\ settled[spawned] = "pending" BY <1>6 DEF SpawnState
  <2>3. it.entry = e /\ it.on = "spawn" /\ it.w = spawned BY <2>1, <2>2, <1>3
  <2>4. waiting' = Append(waiting, it) /\ UNCHANGED <<worker, spawn, spawned, alive, inbox>>
    BY <2>3, <1>1, <1>6 DEF EnsureWorker
  <2>5. WaiterOK(it, restarting, worker, spawned, settled) BY <2>2, <2>3, <1>6 DEF WaiterOK
  <2> QED BY <2>3, <2>4, <2>5, <1>0, <1>6
<1>7. CASE ~restarting /\ worker = 0 /\ spawn = 0
  <2>1. it = Waiter(e, "spawn", spawned + 1) BY <1>7 DEF Awaits
  <2> HIDE DEF it
  <2>2. it.entry = e /\ it.on = "spawn" /\ it.w = spawned + 1 BY <2>1, <1>3
  <2>3. waiting' = Append(waiting, it) /\ SpawnWorker BY <2>2, <1>0, <1>1, <1>7 DEF EnsureWorker
  <2>4. offered = 0 /\ e = 1 BY <1>0, <1>7 DEF SpawnState
  <2>5. waiting = <<>>
    <3>1. waiting \in Seq(ToSet(waiting)) /\ Len(waiting) <= 0 BY <2>4 DEF WaitersLast
    <3>2. Len(waiting) = 0 BY <3>1, LenProperties
    <3> QED BY <3>1, <3>2, EmptySeq
  <2>6. spawned # MaxSpawns BY <1>0, <1>2, <1>7 DEF ThreadInv, Alive
  <2>7. spawned + 1 \in Workers /\ settled[spawned + 1] = "pending"
    <3>1. spawned + 1 \in Workers /\ spawned + 1 > spawned BY <1>2, <2>6
    <3> QED BY <3>1 DEF SpawnState
  <2>8. WaiterOK(it, restarting, spawned + 1, spawned + 1, settled)
    <3>1. spawned + 1 # 0 BY <1>2
    <3> QED BY <3>1, <2>2, <2>4, <2>7 DEF WaiterOK
  <2> QED BY <2>2, <2>3, <2>4, <2>5, <2>7, <2>8, <1>0, <1>7
<1> QED BY <1>4, <1>5, <1>6, <1>7

-----------------------------------------------------------------------------
(* The main thread, step by step.                                          *)

\* Steps that leave the main thread as it is, but for a thread that ends and a
\* call of close().
LEMMA MainQuiet ==
    ASSUME WaitersLast, SpawnState, closed => closed',
           UNCHANGED <<offered, waiting, worker, spawn, spawned, settled, restarting>>,
           \A w \in Workers : alive'[w] => alive[w]
    PROVE  WaitersLast' /\ SpawnState'
<1>1. WaitersLast' BY DEF WaitersLast, Gone
<1>2. SpawnState' BY DEF SpawnState
<1> QED BY <1>1, <1>2

\* A thread is started when nothing waits for one.
LEMMA SpawnStarts ==
    ASSUME ThreadInv, ThreadAssumption, SpawnState, SpawnWorker, UNCHANGED <<settled, closing>>,
           spawned + 1 \in Workers, settled[spawned + 1] = "pending", worker = 0
    PROVE  SpawnState'
<1>1. /\ spawned' = spawned + 1 /\ worker' = spawned + 1 /\ spawn' = spawned + 1
      /\ spawned \in Nat /\ alive' = [alive EXCEPT ![spawned + 1] = TRUE]
      /\ alive \in [Workers -> BOOLEAN] /\ Workers = 1 .. MaxSpawns
  BY ThreadNumbers DEF SpawnWorker, ThreadInv, Numbers
<1>2. \A w \in Workers : w # 0 BY <1>1
<1>3. \A w \in Workers : /\ w > spawned' => settled[w] = "pending"
                         /\ alive'[w] => worker' = w
  <2> TAKE w \in Workers
  <2>1. w > spawned + 1 => w > spawned BY <1>1
  <2>2. w # spawned + 1 => alive'[w] = alive[w] BY <1>1
  <2>3. ~alive[w] BY <1>2 DEF SpawnState
  <2> QED BY <2>1, <2>2, <2>3, <1>1 DEF SpawnState
<1>4. spawned + 1 # 0 BY <1>1
<1> QED BY <1>1, <1>3, <1>4 DEF SpawnState

\* write(): the entry is posted, or its write waits behind all others.
LEMMA WriteMain ==
    ASSUME ThreadInv, ThreadAssumption, WaitersLast, SpawnState, Write
    PROVE  WaitersLast' /\ SpawnState'
<1>1. /\ offered' = offered + 1 /\ ~closed /\ offered \in Nat
      /\ UNCHANGED <<settled, restarting, closing>>
  BY WriteCases DEF calls, WaitersLast
<1>2. CASE /\ ~restarting /\ worker # 0 /\ waiting = <<>> /\ waiting' = waiting
           /\ UNCHANGED <<worker, spawn, spawned, alive>>
  <2>1. Len(<<>>) = 0 /\ <<>> \in Seq(ToSet(<<>>)) BY <1>2 DEF WaitersLast
  <2>2. \A i \in 1 .. Len(<<>>) : FALSE BY <2>1
  <2>3. WaitersLast' BY <1>1, <1>2, <2>1, <2>2 DEF WaitersLast
  <2>4. SpawnState' BY <1>1, <1>2 DEF SpawnState, closed
  <2> QED BY <2>3, <2>4
<1>3. CASE /\ UNCHANGED <<worker, spawn, spawned, alive>>
           /\ restarting \/ worker # 0 \/ spawn # 0
           /\ \E x : /\ x.entry = offered + 1 /\ waiting' = Append(waiting, x)
                     /\ WaiterOK(x, restarting, worker, spawned, settled)
  <2>1. \A i \in 1 .. Len(waiting) : WaiterOK(waiting[i], restarting', worker', spawned', settled')
    BY <1>1, <1>3 DEF WaitersLast
  <2>2. PICK x : /\ x.entry = offered + 1 /\ waiting' = Append(waiting, x)
                 /\ WaiterOK(x, restarting', worker', spawned', settled') BY <1>1, <1>3
  <2>3. WaitersLast' BY <1>1, <2>1, <2>2, AppendWaiter
  <2>4. SpawnState' BY <1>1, <1>3 DEF SpawnState, closed
  <2> QED BY <2>3, <2>4
<1>4. CASE /\ SpawnWorker /\ offered = 0 /\ worker = 0 /\ ~restarting /\ waiting = <<>>
           /\ spawned + 1 \in Workers /\ settled[spawned + 1] = "pending"
           /\ \E x : /\ x.entry = offered + 1 /\ waiting' = Append(waiting, x)
                     /\ WaiterOK(x, restarting, spawned + 1, spawned + 1, settled)
  <2>1. SpawnState' BY <1>1, <1>4, SpawnStarts
  <2>2. spawned' = spawned + 1 /\ worker' = spawned + 1 BY <1>4 DEF SpawnWorker
  <2>3. PICK x : /\ x.entry = offered + 1 /\ waiting' = Append(waiting, x)
                 /\ WaiterOK(x, restarting', worker', spawned', settled') BY <1>1, <1>4, <2>2
  <2>4. \A i \in 1 .. Len(waiting) : FALSE BY <1>4
  <2>5. WaitersLast' BY <1>1, <2>3, <2>4, AppendWaiter
  <2> QED BY <2>1, <2>5
<1> QED BY <1>2, <1>3, <1>4, WriteCases

\* The timer lets the writes at the gate go on to a thread: a new one, or the one
\* this.spawn was left behind by.
LEMMA RestartMain ==
    ASSUME ThreadInv, ThreadAssumption, WaitersLast, SpawnState, RestartTimer
    PROVE  WaitersLast' /\ SpawnState'
<1>1. /\ restarting /\ restarting' = FALSE /\ EnsureWorker
      /\ UNCHANGED <<offered, settled, closing>>
      /\ waiting' = [i \in DOMAIN waiting |->
                       IF waiting[i].on # "gate" THEN waiting[i]
                       ELSE Waiter(waiting[i].entry,
                                   IF spawn # 0 THEN "spawn" ELSE "ready", spawn')]
  BY DEF RestartTimer, calls
<1>2. /\ MaxSpawns \in Nat \ {0} /\ Workers = 1 .. MaxSpawns /\ spawned \in Nat
      /\ spawned <= MaxSpawns /\ worker \in {0, spawned} /\ (spawned # 0 => spawned \in Workers)
  BY ThreadNumbers
<1>3. worker = 0 /\ ~closed BY <1>1 DEF ThreadInv, Gate
<1>4. /\ waiting \in Seq(ToSet(waiting)) /\ offered \in Nat /\ Len(waiting) <= offered
      /\ Len(waiting) \in Nat /\ DOMAIN waiting = 1 .. Len(waiting)
  BY LenProperties DEF WaitersLast
<1> DEFINE n == Len(waiting)
           to(i) == IF waiting[i].on # "gate" THEN waiting[i]
                    ELSE Waiter(waiting[i].entry,
                                IF spawn # 0 THEN "spawn" ELSE "ready", spawn')
<1>5. /\ waiting' = [i \in 1 .. n |-> to(i)] BY <1>1, <1>4
<1>6. waiting' \in Seq(ToSet(waiting')) /\ Len(waiting') = n /\ \A i \in 1 .. n : waiting'[i] = to(i)
  <2> HIDE DEF to, n
  <2> DEFINE T == {to(i) : i \in 1 .. n}
  <2>1. n \in Nat BY <1>4 DEF n
  <2>2. \A i \in 1 .. n : to(i) \in T OBVIOUS
  <2> HIDE DEF T
  <2>3. waiting' \in Seq(T) BY <2>1, <2>2, <1>5, IsASeq
  <2>4. waiting' \in Seq(ToSet(waiting')) BY <2>3, OwnElements
  <2>5. DOMAIN waiting' = 1 .. n /\ \A i \in 1 .. n : waiting'[i] = to(i) BY <1>5
  <2>6. Len(waiting') = n BY <2>1, <2>3, <2>5, LenProperties
  <2> QED BY <2>4, <2>5, <2>6
<1>7. CASE spawn # 0
  <2>1. spawn = spawned /\ spawned # 0 /\ settled[spawned] = "pending" BY <1>7 DEF SpawnState
  <2>2. UNCHANGED <<spawned, worker, spawn, alive>> BY <1>1, <1>7 DEF EnsureWorker
  <2>3. SpawnState' BY <2>1, <2>2, <1>1, <1>7 DEF SpawnState, closed
  <2>4. ASSUME NEW i \in 1 .. n
        PROVE  /\ to(i).entry = (offered - n) + i
               /\ WaiterOK(to(i), restarting', worker', spawned', settled')
    <3>1. /\ waiting[i].entry = (offered - n) + i
          /\ WaiterOK(waiting[i], restarting, worker, spawned, settled) BY DEF WaitersLast, Gone
    <3>2. CASE waiting[i].on # "gate" BY <3>1, <3>2, <2>2, <1>1, <1>3 DEF WaiterOK
    <3>3. CASE waiting[i].on = "gate"
      <4>1. to(i) = Waiter(waiting[i].entry, "spawn", spawned) BY <3>3, <2>1, <2>2, <1>7
      <4>2. /\ to(i).entry = waiting[i].entry /\ to(i).on = "spawn" /\ to(i).w = spawned
        BY <4>1 DEF Waiter
      <4> HIDE DEF to
      <4> QED BY <4>2, <3>1, <2>1, <2>2, <1>1, <1>3 DEF WaiterOK
    <3> QED BY <3>2, <3>3
  <2> HIDE DEF to
  <2>5. WaitersLast' BY <1>1, <1>4, <1>6, <2>4 DEF WaitersLast, Gone
  <2> QED BY <2>3, <2>5
<1>8. CASE spawn = 0
  <2>1. SpawnWorker BY <1>1, <1>3, <1>8 DEF EnsureWorker
  <2>2. spawned # MaxSpawns BY <1>2, <1>3 DEF ThreadInv, Alive
  <2>3. spawned + 1 \in Workers /\ settled[spawned + 1] = "pending"
    <3>1. spawned + 1 \in Workers /\ spawned + 1 > spawned BY <1>2, <2>2
    <3> QED BY <3>1 DEF SpawnState
  <2>4. SpawnState' BY <2>1, <2>3, <1>1, <1>3, SpawnStarts
  <2>5. spawned' = spawned + 1 /\ worker' = spawned + 1 /\ spawn' = spawned + 1 BY <2>1 DEF SpawnWorker
  <2>6. ASSUME NEW i \in 1 .. n
        PROVE  /\ to(i).entry = (offered - n) + i
               /\ WaiterOK(to(i), restarting', worker', spawned', settled')
    <3>1. /\ waiting[i].entry = (offered - n) + i
          /\ WaiterOK(waiting[i], restarting, worker, spawned, settled) BY DEF WaitersLast, Gone
    <3>2. waiting[i].on = "gate"
      <4>1. ~(spawned # 0 /\ settled[spawned] = "pending") BY <1>8 DEF SpawnState
      <4> QED BY <4>1, <3>1 DEF WaiterOK
    <3>3. to(i) = Waiter(waiting[i].entry, "ready", spawned + 1) BY <3>2, <2>5, <1>8
    <3>4. /\ to(i).entry = waiting[i].entry /\ to(i).on = "ready" /\ to(i).w = spawned + 1
      BY <3>3 DEF Waiter
    <3>5. spawned + 1 # 0 BY <1>2
    <3> HIDE DEF to
    <3> QED BY <3>1, <3>4, <3>5, <2>3, <2>5, <1>1 DEF WaiterOK
  <2> HIDE DEF to
  <2>7. WaitersLast' BY <1>1, <1>4, <1>6, <2>6 DEF WaitersLast, Gone
  <2> QED BY <2>4, <2>7
<1> QED BY <1>7, <1>8

\* When a thread settles, the writes that wait for it leave; nobody else waits.
LEMMA AllLeave ==
    ASSUME ThreadInv, ThreadAssumption, WaitersLast, ~restarting, NEW w \in Workers, LeaveWaiting(w)
    PROVE  /\ w = spawned => waiting' = <<>>
           /\ w # spawned => waiting' = waiting
<1> DEFINE S == {x \in ToSet(waiting) : x.w # w}
<1>1. waiting' = Among(waiting, S) BY DEF LeaveWaiting
<1>2. waiting \in Seq(ToSet(waiting)) BY DEF WaitersLast
<1>3. \A x \in ToSet(waiting) : x.w = spawned
  <2> TAKE x \in ToSet(waiting)
  <2>1. PICK i \in 1 .. Len(waiting) : x = waiting[i] BY <1>2, LenProperties DEF ToSet
  <2> QED BY <2>1 DEF WaitersLast, WaiterOK
<1>4. /\ (\A x \in ToSet(waiting) : x \in S) => Among(waiting, S) = waiting
      /\ (\A x \in ToSet(waiting) : x \notin S) => Among(waiting, S) = <<>>
  <2> HIDE DEF S
  <2> QED BY <1>2, AmongShape
<1> QED BY <1>1, <1>3, <1>4

\* While nobody waits, the writes are in order.
LEMMA EmptyWaiting ==
    ASSUME offered' \in Nat, waiting' = <<>>
    PROVE  WaitersLast'
<1>1. <<>> \in Seq({}) /\ Len(<<>>) = 0 OBVIOUS
<1>2. <<>> \in Seq(ToSet(<<>>)) BY <1>1, OwnElements
<1>3. \A i \in 1 .. Len(<<>>) : FALSE BY <1>1
<1> QED BY <1>1, <1>2, <1>3 DEF WaitersLast

\* "ready": nobody waits any more.
LEMMA ReadyMain ==
    ASSUME ThreadInv, ThreadAssumption, WaitersLast, SpawnState, Messages,
           NEW w \in Workers, ReceiveReady(w)
    PROVE  /\ WaitersLast' /\ SpawnState'
           /\ worker = w /\ w = spawned /\ ~restarting /\ waiting' = <<>>
<1>1. /\ Receive(w, "ready") /\ settled' = [settled EXCEPT ![w] = "ready"]
      /\ LeaveWaiting(w) /\ SpawnSettles(w) /\ UNCHANGED <<worker, restarting, alive>>
      /\ UNCHANGED <<offered, spawned, closing>>
  BY DEF ReceiveReady, Receive
<1>2. /\ outbox[w] \in Seq(ToSet(outbox[w])) /\ outbox[w] # <<>> /\ Head(outbox[w]).kind = "ready"
  BY <1>1 DEF Receive, ThreadInv, Outboxes
<1>3. worker = w
  <2>1. Head(outbox[w]) = outbox[w][1] /\ Len(outbox[w]) \in Nat \ {0} BY <1>2, TailShape
  <2>2. 1 \in 1 .. Len(outbox[w]) BY <2>1
  <2> QED BY <2>1, <2>2, <1>2 DEF Messages, ReadyOK
<1>4. /\ MaxSpawns \in Nat \ {0} /\ Workers = 1 .. MaxSpawns /\ spawned \in Nat
      /\ spawned <= MaxSpawns /\ worker \in {0, spawned} /\ (spawned # 0 => spawned \in Workers)
  BY ThreadNumbers
<1>5. w = spawned /\ w # 0 BY <1>3, <1>4
<1>6. ~restarting BY <1>3, <1>5 DEF ThreadInv, Gate
<1>7. waiting' = <<>> BY <1>1, <1>5, <1>6, AllLeave
<1>8. WaitersLast' BY <1>1, <1>7, EmptyWaiting DEF WaitersLast
<1>9. SpawnState'
  <2>1. /\ settled' \in [Workers -> {"pending", "ready", "failed"}] /\ settled'[w] = "ready"
        /\ \A v \in Workers \ {w} : settled'[v] = settled[v] BY <1>1 DEF SpawnState
  <2>2. spawn' = 0
    <3>1. spawn \in {0, w} BY <1>5 DEF SpawnState
    <3> QED BY <3>1, <1>1 DEF SpawnSettles
  <2>3. \A v \in Workers : v > spawned => v # w BY <1>4, <1>5
  <2>4. worker' # 0 /\ worker' = w BY <1>1, <1>3, <1>5
  <2>5. spawn' = IF spawned' # 0 /\ settled'[spawned'] = "pending" THEN spawned' ELSE 0
    BY <2>1, <2>2, <1>1, <1>5
  <2>6. \A v \in Workers : /\ v > spawned' => settled'[v] = "pending"
                           /\ alive'[v] => worker' = v
    BY <2>1, <2>3, <1>1 DEF SpawnState
  <2> QED BY <2>1, <2>4, <2>5, <2>6 DEF SpawnState
<1> QED BY <1>3, <1>5, <1>6, <1>7, <1>8, <1>9

\* An answer: close() lets go of its thread.
LEMMA AckMain ==
    ASSUME ThreadInv, ThreadAssumption, WaitersLast, SpawnState,
           NEW w \in Workers, ReceiveAck(w)
    PROVE  WaitersLast' /\ SpawnState'
<1>1. UNCHANGED <<offered, spawned, closing, waiting, spawn, settled, restarting>>
  BY DEF ReceiveAck, Receive
<1>2. CASE UNCHANGED <<alive, worker>> BY <1>1, <1>2, MainQuiet DEF closed
<1>3. CASE closed /\ worker # 0 /\ alive' = [alive EXCEPT ![worker] = FALSE] /\ worker' = 0
  <2>1. alive \in [Workers -> BOOLEAN] /\ worker \in Workers
    BY <1>3, ThreadNumbers DEF ThreadInv, Numbers
  <2>2. \A v \in Workers : ~alive'[v]
    <3> TAKE v \in Workers
    <3>1. CASE v = worker BY <3>1, <2>1, <1>3
    <3>2. CASE v # worker
      <4>1. alive'[v] = alive[v] BY <3>2, <2>1, <1>3
      <4> QED BY <4>1, <3>2 DEF SpawnState
    <3> QED BY <3>1, <3>2
  <2>3. closed' BY <1>1, <1>3 DEF closed
  <2>4. SpawnState' BY <2>2, <2>3, <1>1, <1>3 DEF SpawnState
  <2>5. WaitersLast' BY <1>1, <1>3 DEF WaitersLast, WaiterOK, Gone
  <2> QED BY <2>4, <2>5
<1> QED BY <1>2, <1>3 DEF ReceiveAck

\* A thread lost while the transport is open.
LEMMA CrashMain ==
    ASSUME ThreadInv, ThreadAssumption, SpawnState, ~closed, ~restarting,
           worker' = 0, restarting', UNCHANGED <<offered, spawned, closing, alive>>,
           worker # 0 => ~alive'[worker],
           settled' \in [Workers -> {"pending", "ready", "failed"}],
           spawn' = IF spawned # 0 /\ settled'[spawned] = "pending" THEN spawned ELSE 0,
           \A v \in Workers : v > spawned => settled'[v] = settled[v]
    PROVE  SpawnState'
<1>1. \A v \in Workers : ~alive'[v]
  <2> SUFFICES ASSUME NEW v \in Workers, alive[v] PROVE FALSE OBVIOUS
  <2>1. worker = v BY DEF SpawnState
  <2>2. v # 0 BY ThreadNumbers
  <2> QED BY <2>1, <2>2
<1> QED BY <1>1 DEF SpawnState

\* The error event: those that wait for the thread leave.
LEMMA ErrorMain ==
    ASSUME ThreadInv, ThreadAssumption, WaitersLast, SpawnState,
           NEW w \in Workers, ReceiveError(w)
    PROVE  /\ WaitersLast' /\ SpawnState'
           /\ IF w = spawned THEN waiting' = <<>> ELSE waiting' = waiting
<1>1. /\ Receive(w, "error") /\ LeaveWaiting(w) /\ SpawnSettles(w) /\ OnWorkerCrash /\ UNCHANGED alive
      /\ settled' = [settled EXCEPT ![w] = IF @ = "pending" THEN "failed" ELSE @]
      /\ UNCHANGED <<offered, spawned, closing>>
  BY DEF ReceiveError, Receive
<1>2. /\ MaxSpawns \in Nat \ {0} /\ Workers = 1 .. MaxSpawns /\ spawned \in Nat
      /\ spawned <= MaxSpawns /\ worker \in {0, spawned} /\ (spawned # 0 => spawned \in Workers)
  BY ThreadNumbers
<1>3. Has(outbox[w], "error") BY <1>1, ReceiveQueues
<1>4. ~closed => worker = w /\ w # 0 BY <1>2, <1>3 DEF ThreadInv, Events
<1>5. ~restarting BY <1>4 DEF ThreadInv, Gate
<1>6. IF w = spawned THEN waiting' = <<>> ELSE waiting' = waiting BY <1>1, <1>5, AllLeave
<1>7. /\ settled' \in [Workers -> {"pending", "ready", "failed"}] /\ settled'[w] # "pending"
      /\ \A v \in Workers \ {w} : settled'[v] = settled[v] BY <1>1 DEF SpawnState
<1>8. spawn' = IF spawned # 0 /\ settled'[spawned] = "pending" THEN spawned ELSE 0
  <2>1. CASE w = spawned
    <3>1. spawn \in {0, w} BY <2>1 DEF SpawnState
    <3> QED BY <3>1, <2>1, <1>1, <1>7 DEF SpawnSettles
  <2>2. CASE w # spawned
    <3>1. spawned # 0 => settled'[spawned] = settled[spawned] BY <2>2, <1>2, <1>7
    <3>2. spawn # w BY <2>2, <1>2 DEF SpawnState
    <3> QED BY <3>1, <3>2, <1>1 DEF SpawnSettles, SpawnState
  <2> QED BY <2>1, <2>2
<1>9. \A v \in Workers : v > spawned => settled'[v] = "pending"
  <2> SUFFICES ASSUME NEW v \in Workers, v > spawned PROVE settled'[v] = "pending" OBVIOUS
  <2>1. v # w
    <3>1. outbox[w] # <<>> BY <1>1 DEF Receive
    <3> QED BY <3>1 DEF ThreadInv, Outboxes
  <2> QED BY <2>1, <1>7 DEF SpawnState
<1>10. CASE closed
  <2>1. UNCHANGED <<worker, restarting>> /\ closed' BY <1>10, <1>1 DEF OnWorkerCrash, closed
  <2>2. SpawnState' BY <2>1, <1>1, <1>7, <1>8, <1>9 DEF SpawnState
  <2>3. WaitersLast'
    <3>1. CASE w = spawned BY <3>1, <1>1, <1>6, EmptyWaiting DEF WaitersLast
    <3>2. CASE w # spawned
      <4>1. spawned # 0 => settled'[spawned] = settled[spawned] BY <3>2, <1>2, <1>7
      <4> QED BY <4>1, <3>2, <2>1, <1>1, <1>6 DEF WaitersLast, WaiterOK, Gone
    <3> QED BY <3>1, <3>2
  <2> QED BY <2>2, <2>3, <1>6
<1>11. CASE ~closed
  <2>1. worker = w /\ w = spawned BY <1>2, <1>4, <1>11
  <2>2. worker' = 0 /\ restarting' BY <1>1, <1>5, <1>11 DEF OnWorkerCrash
  <2>3. worker' # worker => ~alive'[worker] BY ErrorStep
  <2>4. \A v \in Workers : v > spawned => settled'[v] = settled[v] BY <1>9 DEF SpawnState
  <2>5. SpawnState' BY <2>2, <2>3, <2>4, <1>1, <1>5, <1>7, <1>8, <1>11, CrashMain
  <2>6. WaitersLast' BY <2>1, <1>1, <1>6, EmptyWaiting DEF WaitersLast
  <2> QED BY <2>5, <2>6, <1>6
<1> QED BY <1>10, <1>11

\* The exit event: the thread is lost if it never settled.
LEMMA ExitMain ==
    ASSUME ThreadInv, ThreadAssumption, WaitersLast, SpawnState,
           NEW w \in Workers, ReceiveExit(w)
    PROVE  WaitersLast' /\ SpawnState'
<1>1. UNCHANGED <<offered, spawned, closing, waiting, spawn, settled, alive>>
  BY DEF ReceiveExit, Receive
<1>2. CASE UNCHANGED <<worker, restarting>> BY <1>1, <1>2, MainQuiet DEF closed
<1>3. CASE ~closed /\ ~restarting /\ worker' = 0 /\ restarting' = TRUE
  <2>1. worker' # worker => ~alive'[worker] BY ExitEventStep
  <2>2. SpawnState' BY <2>1, <1>1, <1>3, CrashMain DEF SpawnState
  <2>3. WaitersLast' BY <1>1, <1>3 DEF WaitersLast, WaiterOK, Gone
  <2> QED BY <2>2, <2>3
<1> QED BY <1>2, <1>3 DEF ReceiveExit, OnWorkerCrash

\* Steps of the threads, flush() and close().
LEMMA OthersMain ==
    ASSUME ThreadInv, ThreadAssumption, WaitersLast, SpawnState,
           \/ Flush \/ Close \/ UNCHANGED vars
           \/ \E w \in Workers : Run(w) \/ Crash(w) \/ Exit(w)
    PROVE  WaitersLast' /\ SpawnState'
<1>1. CASE Flush \/ Close
  <2>1. /\ UNCHANGED <<offered, waiting, worker, spawn, spawned, settled, restarting, alive>>
        /\ ~closed
    BY <1>1 DEF Flush, Close, SendAndWait, thread
  <2> QED BY <2>1, MainQuiet
<1>2. CASE UNCHANGED vars BY <1>2, MainQuiet DEF vars, closed, calls, thread
<1>3. ASSUME NEW w \in Workers, Run(w) \/ Crash(w) \/ Exit(w)
      PROVE  WaitersLast' /\ SpawnState'
  <2>1. /\ UNCHANGED <<offered, waiting, worker, spawn, spawned, settled, restarting, closing>>
    BY <1>3 DEF Run, Handle, FinishFlush, FinishClose, Crash, Exit, Dies, mainThread, calls
  <2>2. \A v \in Workers : alive'[v] => alive[v]
    <3>1. alive' = alive \/ alive' = [alive EXCEPT ![w] = FALSE]
      BY <1>3 DEF Run, Handle, FinishFlush, FinishClose, Crash, Exit, Dies
    <3>2. alive \in [Workers -> BOOLEAN] BY DEF ThreadInv, Numbers
    <3> QED BY <3>1, <3>2
  <2> QED BY <2>1, <2>2, MainQuiet DEF closed
<1> QED BY <1>1, <1>2, <1>3

-----------------------------------------------------------------------------
(* One thread and its messages.                                            *)

\* Messages of the main thread.
LEMMA PostOK ==
    ASSUME NEW w, NEW in, NEW out, NEW js, NEW tr, NEW runs, NEW last, NEW thr, NEW n, NEW c,
           ReadyOK(w, in, out, js, runs, last, thr), CallOK(w, in, out, js, tr, last, n, c),
           ~(w > last), NEW S, NEW ms \in Seq(S),
           \A k \in 1 .. Len(ms) :
              /\ ms[k].kind # "init"
              /\ ms[k].kind \in {"flush", "close"} =>
                   ms[k].n \in 1 .. n /\ (ms[k].n = c => ms[k].kind = "close" /\ w = last)
    PROVE  /\ ReadyOK(w, in \o ms, out, js, runs, last, thr)
           /\ CallOK(w, in \o ms, out, js, tr, last, n, c)
<1> DEFINE t == in \o ms
<1>1. in \in Seq(ToSet(in)) BY DEF ReadyOK
<1>2. /\ t \in Seq(ToSet(t)) /\ Len(in) \in Nat /\ Len(ms) \in Nat /\ Len(t) = Len(in) + Len(ms)
      /\ \A i \in 1 .. Len(in) : t[i] = in[i]
      /\ \A i \in 1 .. Len(ms) : t[Len(in) + i] = ms[i]
  BY <1>1, SendShape
<1> DEFINE a == Len(in)
           b == Len(ms)
<1> HIDE DEF t, a, b
<1>3. ASSUME NEW i \in 1 .. Len(t)
      PROVE  (i \in 1 .. a /\ t[i] = in[i]) \/ \E k \in 1 .. b : t[i] = ms[k]
  <2>1. CASE i \in 1 .. a BY <2>1, <1>2 DEF a
  <2>2. CASE i \notin 1 .. a
    <3>1. i - a \in 1 .. b /\ i = a + (i - a) BY <2>2, <1>2 DEF a, b
    <3> QED BY <3>1, <1>2 DEF a, b
  <2> QED BY <2>1, <2>2
<1>4. ReadyOK(w, t, out, js, runs, last, thr)
  <2>1. ASSUME NEW i \in 1 .. Len(t), t[i].kind = "init"
        PROVE  i = 1 /\ (runs => out = <<>> /\ js = {})
    <3>1. i \in 1 .. a /\ t[i] = in[i] BY <2>1, <1>3 DEF b
    <3> QED BY <3>1, <2>1 DEF ReadyOK, a
  <2> QED BY <2>1, <1>2 DEF ReadyOK
<1>5. CallOK(w, t, out, js, tr, last, n, c)
  <2>1. ASSUME NEW i \in 1 .. Len(t), t[i].kind \in {"flush", "close"}
        PROVE  t[i].n \in 1 .. n /\ (t[i].n = c => t[i].kind = "close" /\ w = last)
    <3>1. CASE i \in 1 .. a /\ t[i] = in[i] BY <3>1, <2>1 DEF CallOK, a
    <3>2. CASE \E k \in 1 .. b : t[i] = ms[k] BY <3>2, <2>1 DEF b
    <3> QED BY <3>1, <3>2, <1>3
  <2> QED BY <2>1 DEF CallOK
<1> QED BY <1>4, <1>5 DEF t

\* The main thread takes the oldest message of the thread.
LEMMA TakenOK ==
    ASSUME NEW w, NEW in, NEW out, NEW js, NEW tr, NEW runs, NEW last, NEW thr, NEW n, NEW c,
           ReadyOK(w, in, out, js, runs, last, thr), CallOK(w, in, out, js, tr, last, n, c),
           out \in Seq(ToSet(out)), out # <<>>,
           NEW still, still => runs, NEW thr2
    PROVE  /\ ReadyOK(w, in, Tail(out), js, still, last, thr2)
           /\ CallOK(w, in, Tail(out), js, tr, last, n, c)
<1> DEFINE t == Tail(out)
<1>1. /\ Len(out) \in Nat \ {0} /\ Len(t) = Len(out) - 1
      /\ \A i \in 1 .. Len(out) - 1 : t[i] = out[i + 1]
  BY TailShape
<1> HIDE DEF t
<1>2. \A i \in 1 .. Len(t) : t[i] = out[i + 1] /\ i + 1 \in 1 .. Len(out) /\ i + 1 # 1 BY <1>1
<1>3. ReadyOK(w, in, t, js, still, last, thr2)
  <2>1. \A i \in 1 .. Len(t) : t[i].kind # "ready" BY <1>2 DEF ReadyOK
  <2> QED BY <2>1 DEF ReadyOK
<1>4. CallOK(w, in, t, js, tr, last, n, c) BY <1>2 DEF CallOK
<1> QED BY <1>3, <1>4 DEF t

\* The thread begins its oldest message.
LEMMA HandledOK ==
    ASSUME NEW w, NEW in, NEW out, NEW js, NEW tr, NEW runs, NEW last, NEW thr, NEW n, NEW c,
           ReadyOK(w, in, out, js, runs, last, thr), CallOK(w, in, out, js, tr, last, n, c),
           in # <<>>, runs, thr = w, NEW out2, NEW js2, NEW tr2,
           \/ Head(in).kind = "init" /\ out2 = out \o <<ToWorker("ready", 0)>> /\ js2 = js
           \/ Head(in).kind = "entry" /\ out2 = out /\ js2 = js /\ tr2 = tr
           \/ /\ Head(in).kind \in {"flush", "close"} /\ out2 = out /\ tr2 = tr
              /\ js2 = js \cup {ToWorker(Head(in).kind, Head(in).n)}
    PROVE  /\ ReadyOK(w, Tail(in), out2, js2, runs, last, thr)
           /\ CallOK(w, Tail(in), out2, js2, tr2, last, n, c)
<1> DEFINE t == Tail(in)
<1>1. /\ t \in Seq(ToSet(t)) /\ Head(in) = in[1]
      /\ Len(in) \in Nat \ {0} /\ Len(t) = Len(in) - 1
      /\ \A i \in 1 .. Len(in) - 1 : t[i] = in[i + 1]
  BY TailShape DEF ReadyOK
<1> HIDE DEF t
<1>2. \A i \in 1 .. Len(t) : t[i] = in[i + 1] /\ i + 1 \in 1 .. Len(in) /\ i + 1 # 1 BY <1>1
<1>3. \A i \in 1 .. Len(t) : t[i].kind # "init" BY <1>2 DEF ReadyOK
<1>4. ~(w > last) BY DEF ReadyOK
<1>5. 1 \in 1 .. Len(in) BY <1>1
<1>6. \A i \in 1 .. Len(t) : t[i].kind \in {"flush", "close"} =>
          t[i].n \in 1 .. n /\ (t[i].n = c => t[i].kind = "close" /\ w = last)
  BY <1>2 DEF CallOK
<1>7. CASE Head(in).kind = "init" /\ out2 = out \o <<ToWorker("ready", 0)>> /\ js2 = js
  <2>1. out = <<>> /\ js = {} BY <1>1, <1>5, <1>7 DEF ReadyOK
  <2>2. out2 = <<ToWorker("ready", 0)>> BY <1>7, <2>1
  <2>3. Len(out2) = 1 /\ out2[1] = ToWorker("ready", 0) BY <2>2
  <2>4. ReadyOK(w, t, out2, js2, runs, last, thr) BY <1>1, <1>3, <1>4, <2>3 DEF ReadyOK
  <2>5. \A i \in 1 .. Len(out2) : out2[i].kind # "acked" BY <2>3 DEF ToWorker
  <2>6. CallOK(w, t, out2, js2, tr2, last, n, c) BY <1>6, <1>7, <2>1, <2>5 DEF CallOK
  <2> QED BY <2>4, <2>6 DEF t
<1>8. CASE Head(in).kind = "entry" /\ out2 = out /\ js2 = js /\ tr2 = tr
  <2>1. ReadyOK(w, t, out2, js2, runs, last, thr) BY <1>1, <1>3, <1>4, <1>8 DEF ReadyOK
  <2>2. CallOK(w, t, out2, js2, tr2, last, n, c) BY <1>6, <1>8 DEF CallOK
  <2> QED BY <2>1, <2>2 DEF t
<1>9. CASE /\ Head(in).kind \in {"flush", "close"} /\ out2 = out /\ tr2 = tr
           /\ js2 = js \cup {ToWorker(Head(in).kind, Head(in).n)}
  <2> DEFINE job == ToWorker(Head(in).kind, Head(in).n)
  <2>1. ReadyOK(w, t, out2, js2, runs, last, thr) BY <1>1, <1>3, <1>4, <1>9 DEF ReadyOK
  <2>2. job.kind = Head(in).kind /\ job.n = Head(in).n BY DEF ToWorker
  <2>3. /\ job.n \in 1 .. n /\ (job.n = c => job.kind # "flush" /\ w = last)
        /\ job.kind # "ending"
    <3>1. in[1].kind \in {"flush", "close"} BY <1>1, <1>9
    <3>2. in[1].n \in 1 .. n /\ (in[1].n = c => in[1].kind = "close" /\ w = last)
      BY <3>1, <1>5 DEF CallOK
    <3> QED BY <3>1, <3>2, <2>2, <1>1
  <2>4. js2 = js \cup {job} BY <1>9
  <2> HIDE DEF job
  <2>5. CallOK(w, t, out2, js2, tr2, last, n, c) BY <1>6, <1>9, <2>3, <2>4 DEF CallOK
  <2> QED BY <2>1, <2>5 DEF t
<1> QED BY <1>7, <1>8, <1>9

\* The thread is done with the flush of a job, or with the close of one.
LEMMA AnsweredOK ==
    ASSUME NEW w, NEW in, NEW out, NEW js, NEW tr, NEW runs, NEW last, NEW thr, NEW n, NEW c,
           ReadyOK(w, in, out, js, runs, last, thr), CallOK(w, in, out, js, tr, last, n, c),
           runs, out \in Seq(ToSet(out)), NEW job \in js, NEW out2, NEW js2, NEW tr2,
           \/ /\ job.kind \in {"flush", "ending"} /\ js2 = js \ {job} /\ tr2 = tr
              /\ out2 = out \o <<ToWorker("acked", job.n)>>
           \/ /\ job.kind = "close" /\ js2 = (js \ {job}) \cup {ToWorker("ending", job.n)}
              /\ tr2 = "closed" /\ out2 = out
    PROVE  /\ ReadyOK(w, in, out2, js2, runs, last, thr)
           /\ CallOK(w, in, out2, js2, tr2, last, n, c)
<1>1. \A i \in 1 .. Len(in) : in[i].kind # "init" BY DEF ReadyOK
<1>2. ~(w > last) BY DEF ReadyOK
<1>3. /\ job.n \in 1 .. n /\ (job.n = c => job.kind # "flush" /\ w = last)
      /\ job.kind = "ending" => tr = "closed" BY DEF CallOK
<1>4. CASE /\ job.kind \in {"flush", "ending"} /\ js2 = js \ {job} /\ tr2 = tr
           /\ out2 = out \o <<ToWorker("acked", job.n)>>
  <2> DEFINE m == ToWorker("acked", job.n)
             ms == <<m>>
  <2>1. ms \in Seq({m}) /\ Len(ms) = 1 /\ ms[1] = m OBVIOUS
  <2>2. m.kind = "acked" /\ m.n = job.n BY DEF ToWorker
  <2>3. out2 = out \o ms BY <1>4
  <2> HIDE DEF m, ms
  <2>4. /\ Len(out) \in Nat /\ Len(out2) = Len(out) + 1
        /\ \A i \in 1 .. Len(out) : out2[i] = out[i]
        /\ out2[Len(out) + 1] = m
    BY <2>1, <2>3, SendShape, SMTT(20)
  <2>5. \A i \in 1 .. Len(out2) : (i \in 1 .. Len(out) /\ out2[i] = out[i]) \/ out2[i] = m BY <2>4
  <2>6. ReadyOK(w, in, out2, js2, runs, last, thr)
    <3>1. \A i \in 1 .. Len(out2) : out2[i].kind = "ready" => i = 1 /\ thr = w
      BY <2>2, <2>5 DEF ReadyOK
    <3> QED BY <3>1, <1>1, <1>2 DEF ReadyOK
  <2>7. CallOK(w, in, out2, js2, tr2, last, n, c)
    <3>1. \A i \in 1 .. Len(out2) : out2[i].kind = "acked" =>
              out2[i].n \in 1 .. n /\ (out2[i].n = c => tr2 = "closed" /\ w = last)
      BY <2>2, <2>5, <1>3, <1>4 DEF CallOK
    <3> QED BY <3>1, <1>4 DEF CallOK
  <2> QED BY <2>6, <2>7
<1>5. CASE /\ job.kind = "close" /\ js2 = (js \ {job}) \cup {ToWorker("ending", job.n)}
           /\ tr2 = "closed" /\ out2 = out
  <2> DEFINE m == ToWorker("ending", job.n)
  <2>1. m.kind = "ending" /\ m.n = job.n BY DEF ToWorker
  <2>2. js2 = (js \ {job}) \cup {m} BY <1>5
  <2> HIDE DEF m
  <2>3. ReadyOK(w, in, out2, js2, runs, last, thr) BY <1>1, <1>2, <1>5 DEF ReadyOK
  <2>4. CallOK(w, in, out2, js2, tr2, last, n, c) BY <2>1, <2>2, <1>3, <1>5 DEF CallOK
  <2> QED BY <2>3, <2>4
<1> QED BY <1>4, <1>5

\* The thread ends.
LEMMA EndedOK ==
    ASSUME NEW w, NEW in, NEW out, NEW js, NEW tr, NEW runs, NEW last, NEW thr, NEW n, NEW c,
           ReadyOK(w, in, out, js, runs, last, thr), CallOK(w, in, out, js, tr, last, n, c),
           out \in Seq(ToSet(out)), NEW S, NEW ms \in Seq(S),
           \A k \in 1 .. Len(ms) : ms[k].kind \in {"error", "exit"}
    PROVE  /\ ReadyOK(w, in, out \o ms, js, FALSE, last, thr)
           /\ CallOK(w, in, out \o ms, js, tr, last, n, c)
<1> DEFINE t == out \o ms
<1>1. /\ Len(out) \in Nat /\ Len(ms) \in Nat /\ Len(t) = Len(out) + Len(ms)
      /\ \A i \in 1 .. Len(out) : t[i] = out[i]
      /\ \A i \in 1 .. Len(ms) : t[Len(out) + i] = ms[i]
  BY SendShape
<1> DEFINE a == Len(out)
           b == Len(ms)
<1> HIDE DEF t, a, b
<1>2. ASSUME NEW i \in 1 .. Len(t)
      PROVE  (i \in 1 .. a /\ t[i] = out[i]) \/ t[i].kind \in {"error", "exit"}
  <2>1. CASE i \in 1 .. a BY <2>1, <1>1 DEF a
  <2>2. CASE i \notin 1 .. a
    <3>1. i - a \in 1 .. b /\ i = a + (i - a) BY <2>2, <1>1 DEF a, b
    <3> QED BY <3>1, <1>1 DEF a, b
  <2> QED BY <2>1, <2>2
<1>3. ReadyOK(w, in, t, js, FALSE, last, thr) BY <1>2 DEF ReadyOK, a
<1>4. CallOK(w, in, t, js, tr, last, n, c) BY <1>2 DEF CallOK, a
<1> QED BY <1>3, <1>4 DEF t

-----------------------------------------------------------------------------
(* What is under way, step by step.                                        *)

\* A step of one thread, or with it.
LEMMA OneThread ==
    ASSUME ThreadAssumption, Messages, NEW w \in Workers,
           UNCHANGED <<spawned, seq, closing>>,
           DOMAIN inbox' = Workers, DOMAIN jobs' = Workers, DOMAIN transport' = Workers,
           worker' = worker \/ worker \in {0, w},
           \A v \in Workers \ {w} :
              /\ inbox'[v] = inbox[v] /\ outbox'[v] = outbox[v] /\ jobs'[v] = jobs[v]
              /\ transport'[v] = transport[v] /\ (alive'[v] => alive[v]),
           ReadyOK(w, inbox'[w], outbox'[w], jobs'[w], alive'[w], spawned, worker'),
           CallOK(w, inbox'[w], outbox'[w], jobs'[w], transport'[w], spawned, seq, closing)
    PROVE  Messages'
<1>1. ASSUME NEW v \in Workers
      PROVE  /\ ReadyOK(v, inbox'[v], outbox'[v], jobs'[v], alive'[v], spawned, worker')
             /\ CallOK(v, inbox'[v], outbox'[v], jobs'[v], transport'[v], spawned, seq, closing)
  <2>1. CASE v = w BY <2>1
  <2>2. CASE v # w
    <3>1. /\ ReadyOK(v, inbox[v], outbox[v], jobs[v], alive[v], spawned, worker)
          /\ CallOK(v, inbox[v], outbox[v], jobs[v], transport[v], spawned, seq, closing) BY DEF Messages
    <3>2. v # 0 BY DEF Workers, ThreadAssumption
    <3>3. ReadyOK(v, inbox[v], outbox[v], jobs[v], alive'[v], spawned, worker')
      BY <2>2, <3>1, <3>2 DEF ReadyOK
    <3> QED BY <3>1, <3>3, <2>2
  <2> QED BY <2>1, <2>2
<1> QED BY <1>1 DEF Messages

\* Messages for this.worker.
LEMMA PostMessages ==
    ASSUME ThreadInv, ThreadAssumption, Messages, worker # 0, NEW S, NEW ms \in Seq(S), Post(worker, ms),
           \A k \in 1 .. Len(ms) : ms[k].kind = "entry",
           UNCHANGED <<worker, spawned, seq, closing, outbox, jobs, transport, alive>>
    PROVE  Messages'
<1>1. worker = spawned /\ worker \in Workers /\ spawned \in Nat BY ThreadNumbers
<1> DEFINE w == worker
<1>2. /\ DOMAIN inbox = Workers /\ inbox' = [inbox EXCEPT ![w] = inbox[w] \o ms] BY DEF Messages, Post
<1>3. /\ DOMAIN inbox' = Workers /\ inbox'[w] = inbox[w] \o ms
      /\ \A v \in Workers \ {w} : inbox'[v] = inbox[v] BY <1>1, <1>2
<1>4. /\ ReadyOK(w, inbox[w], outbox[w], jobs[w], alive[w], spawned, worker)
      /\ CallOK(w, inbox[w], outbox[w], jobs[w], transport[w], spawned, seq, closing)
  BY <1>1 DEF Messages
<1>5. /\ ReadyOK(w, inbox[w] \o ms, outbox[w], jobs[w], alive[w], spawned, worker)
      /\ CallOK(w, inbox[w] \o ms, outbox[w], jobs[w], transport[w], spawned, seq, closing)
  <2>1. ~(w > spawned) BY <1>1
  <2> QED BY <1>4, <2>1, PostOK
<1>6. DOMAIN jobs' = Workers /\ DOMAIN transport' = Workers BY DEF Messages
<1> QED BY <1>1, <1>3, <1>5, <1>6, OneThread

\* The first message of a thread.
LEMMA SpawnMessages ==
    ASSUME ThreadInv, ThreadAssumption, Messages, SpawnWorker, worker = 0, ~closed,
           spawned + 1 \in Workers, UNCHANGED <<seq, closing, outbox, jobs, transport>>
    PROVE  Messages'
<1> DEFINE u == spawned + 1
           m == ToWorker("init", 0)
<1>1. /\ spawned' = u /\ worker' = u /\ spawned \in Nat
      /\ inbox' = [inbox EXCEPT ![u] = inbox[u] \o <<m>>]
      /\ alive' = [alive EXCEPT ![u] = TRUE]
  BY ThreadNumbers DEF SpawnWorker, Post
<1>2. /\ DOMAIN inbox = Workers /\ u \in Workers /\ u > spawned /\ u # 0
      /\ alive \in [Workers -> BOOLEAN] BY <1>1 DEF Messages, ThreadInv, Numbers
<1>3. /\ DOMAIN inbox' = Workers /\ inbox'[u] = inbox[u] \o <<m>>
      /\ \A v \in Workers \ {u} : inbox'[v] = inbox[v] /\ alive'[v] = alive[v] BY <1>1, <1>2
<1>4. /\ outbox[u] = <<>> /\ inbox[u] = <<>> /\ jobs[u] = {}
  BY <1>2 DEF ThreadInv, Outboxes, Messages, ReadyOK
<1>5. inbox'[u] = <<m>> BY <1>3, <1>4
<1>6. /\ ReadyOK(u, inbox'[u], outbox[u], jobs[u], alive'[u], u, u)
      /\ CallOK(u, inbox'[u], outbox[u], jobs[u], transport[u], u, seq, closing)
  <2> HIDE DEF u
  <2>1. <<m>> \in Seq({m}) /\ Len(<<m>>) = 1 /\ <<m>>[1] = m /\ Len(<<>>) = 0 OBVIOUS
  <2>2. <<m>> \in Seq(ToSet(<<m>>)) BY <2>1, OwnElements
  <2>3. m.kind = "init" BY DEF ToWorker
  <2>4. ~(u > u) BY <1>1 DEF u
  <2> HIDE DEF m
  <2>5. \A i \in 1 .. Len(<<m>>) : i = 1 /\ <<m>>[i].kind = "init" BY <2>1, <2>3
  <2>6. \A i \in 1 .. Len(<<>>) : FALSE BY <2>1
  <2>7. ReadyOK(u, <<m>>, <<>>, {}, alive'[u], u, u) BY <2>2, <2>4, <2>5, <2>6 DEF ReadyOK
  <2>8. CallOK(u, <<m>>, <<>>, {}, transport[u], u, seq, closing) BY <2>5, <2>6 DEF CallOK
  <2> QED BY <2>7, <2>8, <1>4, <1>5
<1>7. ASSUME NEW v \in Workers
      PROVE  /\ ReadyOK(v, inbox'[v], outbox[v], jobs[v], alive'[v], u, u)
             /\ CallOK(v, inbox'[v], outbox[v], jobs[v], transport[v], u, seq, closing)
  <2>1. CASE v = u BY <2>1, <1>6
  <2>2. CASE v # u
    <3>1. /\ ReadyOK(v, inbox[v], outbox[v], jobs[v], alive[v], spawned, 0)
          /\ CallOK(v, inbox[v], outbox[v], jobs[v], transport[v], spawned, seq, 0) BY DEF Messages, closed
    <3>2. v \in Nat /\ v # 0 BY ThreadNumbers
    <3>3. v > u => v > spawned BY <1>1, <3>2
    <3>4. ReadyOK(v, inbox[v], outbox[v], jobs[v], alive[v], u, u) BY <3>1, <3>2, <3>3 DEF ReadyOK
    <3>5. CallOK(v, inbox[v], outbox[v], jobs[v], transport[v], u, seq, 0)
      <4>1. \A i \in 1 .. seq : i # 0 OBVIOUS
      <4> QED BY <3>1, <4>1 DEF CallOK
    <3> QED BY <2>2, <3>4, <3>5, <1>3 DEF closed
  <2> QED BY <2>1, <2>2
<1> HIDE DEF u
<1> QED BY <1>1, <1>3, <1>7 DEF Messages

\* write(): an entry, or the first message of a thread.
LEMMA WriteMessages ==
    ASSUME ThreadInv, ThreadAssumption, WaitersLast, SpawnState, Messages, Write
    PROVE  Messages'
<1>1. ~closed /\ UNCHANGED <<seq, closing, outbox, jobs, transport>> BY WriteCases DEF calls
<1>2. CASE /\ worker # 0 /\ Post(worker, <<ToWorker("entry", offered + 1)>>)
           /\ UNCHANGED <<worker, spawned, alive>>
  <2> DEFINE m == ToWorker("entry", offered + 1)
             ms == <<m>>
  <2>1. ms \in Seq({m}) /\ Len(ms) = 1 /\ ms[1] = m /\ m.kind = "entry" BY DEF ToWorker
  <2> HIDE DEF m
  <2>2. \A k \in 1 .. Len(ms) : ms[k].kind = "entry" BY <2>1
  <2>3. Post(worker, ms) BY <1>2 DEF m
  <2> HIDE DEF ms
  <2> QED BY <2>1, <2>2, <2>3, <1>1, <1>2, PostMessages
<1>3. CASE UNCHANGED <<worker, spawned, alive, inbox>> BY <1>1, <1>3 DEF Messages
<1>4. CASE SpawnWorker /\ worker = 0 /\ spawned + 1 \in Workers BY <1>1, <1>4, SpawnMessages
<1> QED BY <1>2, <1>3, <1>4, WriteCases

\* The restart timer: the first message of a thread, or none.
LEMMA RestartMessages ==
    ASSUME ThreadInv, ThreadAssumption, SpawnState, Messages, RestartTimer
    PROVE  Messages'
<1>1. /\ EnsureWorker /\ restarting /\ UNCHANGED <<seq, closing, outbox, jobs, transport>>
  BY DEF RestartTimer, calls
<1>2. worker = 0 /\ ~closed BY <1>1 DEF ThreadInv, Gate
<1>3. CASE UNCHANGED <<worker, spawned, alive, inbox>> BY <1>1, <1>3 DEF Messages
<1>4. CASE SpawnWorker
  <2>1. spawned # MaxSpawns BY <1>2, ThreadNumbers DEF ThreadInv, Alive
  <2>2. spawned + 1 \in Workers BY <2>1, ThreadNumbers
  <2> QED BY <2>2, <1>1, <1>2, <1>4, SpawnMessages
<1> QED BY <1>1, <1>3, <1>4 DEF EnsureWorker

\* One more call.
LEMMA CallLater ==
    ASSUME NEW w, NEW in, NEW out, NEW js, NEW tr, NEW last, NEW n \in Nat, NEW c,
           CallOK(w, in, out, js, tr, last, n, c), NEW d, d \in {c, n + 1}
    PROVE  CallOK(w, in, out, js, tr, last, n + 1, d)
<1>1. \A i \in 1 .. n : i \in 1 .. n + 1 /\ i # n + 1 OBVIOUS
<1> QED BY <1>1 DEF CallOK

\* flush() and close(): a call with the next number.
LEMMA CallMessages ==
    ASSUME ThreadInv, ThreadAssumption, Messages, Flush \/ Close
    PROVE  Messages'
<1> DEFINE w == worker
           s == seq + 1
<1>1. PICK kind \in {"flush", "close"} :
        /\ worker # 0 /\ ~closed /\ seq' = s /\ Post(worker, <<ToWorker(kind, s)>>)
        /\ UNCHANGED <<worker, spawned, outbox, jobs, transport, alive>>
        /\ closing' = IF kind = "close" THEN s ELSE closing
  <2>1. CASE Flush
    <3>1. SendAndWait("flush") /\ closing' = closing BY <2>1 DEF Flush
    <3> QED BY <3>1 DEF SendAndWait, thread
  <2>2. CASE Close
    <3>1. SendAndWait("close") /\ closing' = s BY <2>2 DEF Close
    <3> QED BY <3>1 DEF SendAndWait, thread
  <2> QED BY <2>1, <2>2
<1>2. worker = spawned /\ worker \in Workers /\ spawned \in Nat /\ seq \in Nat /\ s \in 1 .. s
      /\ closing = 0 /\ s # 0
  BY <1>1, ThreadNumbers DEF Messages, closed
<1> DEFINE m == ToWorker(kind, s)
           ms == <<m>>
<1>3. /\ DOMAIN inbox' = Workers /\ inbox'[w] = inbox[w] \o ms
      /\ \A v \in Workers \ {w} : inbox'[v] = inbox[v]
  <2>1. DOMAIN inbox = Workers /\ inbox' = [inbox EXCEPT ![w] = inbox[w] \o ms]
    BY <1>1 DEF Messages, Post
  <2> QED BY <2>1, <1>2
<1>4. ms \in Seq({m}) /\ Len(ms) = 1 /\ ms[1] = m /\ m.kind = kind /\ m.n = s BY DEF ToWorker
<1>5. ASSUME NEW v \in Workers
      PROVE  /\ ReadyOK(v, inbox[v], outbox[v], jobs[v], alive[v], spawned, worker)
             /\ CallOK(v, inbox[v], outbox[v], jobs[v], transport[v], spawned, s, closing')
  <2>1. CallOK(v, inbox[v], outbox[v], jobs[v], transport[v], spawned, seq, closing) BY DEF Messages
  <2>2. closing' \in {closing, s} BY <1>1
  <2> QED BY <2>1, <2>2, <1>2, CallLater DEF Messages
<1> HIDE DEF m, ms, s
<1>6. /\ ReadyOK(w, inbox[w] \o ms, outbox[w], jobs[w], alive[w], spawned, worker)
      /\ CallOK(w, inbox[w] \o ms, outbox[w], jobs[w], transport[w], spawned, s, closing')
  <2>1. ~(w > spawned) BY <1>2
  <2>2. \A k \in 1 .. Len(ms) :
              /\ ms[k].kind # "init"
              /\ ms[k].kind \in {"flush", "close"} =>
                   ms[k].n \in 1 .. s /\ (ms[k].n = closing' => ms[k].kind = "close" /\ w = spawned)
    <3> TAKE k \in 1 .. Len(ms)
    <3>1. ms[k] = m BY <1>4
    <3> QED BY <3>1, <1>1, <1>2, <1>4
  <2> QED BY <2>1, <2>2, <1>2, <1>4, <1>5, PostOK
<1>7. \A v \in Workers :
        /\ ReadyOK(v, inbox'[v], outbox[v], jobs[v], alive[v], spawned, worker)
        /\ CallOK(v, inbox'[v], outbox[v], jobs[v], transport[v], spawned, s, closing')
  <2> TAKE v \in Workers
  <2>1. CASE v = w BY <2>1, <1>3, <1>6
  <2>2. CASE v # w BY <2>2, <1>3, <1>5
  <2> QED BY <2>1, <2>2
<1>8. closing' \in 0 .. s /\ s \in Nat BY <1>1, <1>2 DEF s
<1> QED BY <1>1, <1>3, <1>7, <1>8 DEF Messages

\* The main thread takes a message; it may let go of the thread it is from.
LEMMA TakeMessages ==
    ASSUME ThreadInv, ThreadAssumption, Messages, NEW w \in Workers, NEW kind, Receive(w, kind),
           worker' = worker \/ worker = w, \A v \in Workers : alive'[v] => alive[v],
           UNCHANGED inbox
    PROVE  Messages'
<1>1. /\ outbox[w] # <<>> /\ outbox' = [outbox EXCEPT ![w] = Tail(outbox[w])]
      /\ UNCHANGED <<spawned, seq, closing, jobs, transport>>
  BY DEF Receive
<1>2. /\ DOMAIN outbox = Workers /\ outbox[w] \in Seq(ToSet(outbox[w])) BY DEF ThreadInv, Outboxes
<1>3. outbox'[w] = Tail(outbox[w]) /\ \A v \in Workers \ {w} : outbox'[v] = outbox[v] BY <1>1, <1>2
<1>4. /\ ReadyOK(w, inbox[w], outbox[w], jobs[w], alive[w], spawned, worker)
      /\ CallOK(w, inbox[w], outbox[w], jobs[w], transport[w], spawned, seq, closing) BY DEF Messages
<1>5. alive'[w] => alive[w] OBVIOUS
<1>6. /\ ReadyOK(w, inbox[w], Tail(outbox[w]), jobs[w], alive'[w], spawned, worker')
      /\ CallOK(w, inbox[w], Tail(outbox[w]), jobs[w], transport[w], spawned, seq, closing)
  <2> DEFINE still == alive'[w]
             thr2 == worker'
  <2>1. still => alive[w] BY <1>5
  <2> HIDE DEF still, thr2
  <2>2. /\ ReadyOK(w, inbox[w], Tail(outbox[w]), jobs[w], still, spawned, thr2)
        /\ CallOK(w, inbox[w], Tail(outbox[w]), jobs[w], transport[w], spawned, seq, closing)
    BY <2>1, <1>1, <1>2, <1>4, TakenOK
  <2> QED BY <2>2 DEF still, thr2
<1>7. DOMAIN inbox' = Workers /\ DOMAIN jobs' = Workers /\ DOMAIN transport' = Workers
  BY <1>1 DEF Messages
<1> QED BY <1>1, <1>3, <1>6, <1>7, OneThread

\* The messages that ReceiveReady(w) posts carry entries.
LEMMA EntryMessagesShape ==
    ASSUME NEW T, NEW ws \in Seq(T)
    PROVE  /\ EntryMessages(ws) \in Seq({ToWorker("entry", x.entry) : x \in T})
           /\ Len(EntryMessages(ws)) = Len(ws)
           /\ \A i \in 1 .. Len(ws) : /\ EntryMessages(ws)[i].kind = "entry"
                                      /\ EntryMessages(ws)[i].n = ws[i].entry
                                      /\ EntryMessages(ws)[i] = ToWorker("entry", ws[i].entry)
<1> DEFINE n == Len(ws)
           U == {ToWorker("entry", x.entry) : x \in T}
           m(i) == ToWorker("entry", ws[i].entry)
<1>1. n \in Nat /\ DOMAIN ws = 1 .. n /\ \A i \in 1 .. n : ws[i] \in T BY LenProperties, ElementOfSeq
<1>2. EntryMessages(ws) = [i \in 1 .. n |-> m(i)] BY <1>1 DEF EntryMessages
<1>3. \A i \in 1 .. n : m(i) \in U BY <1>1
<1>4. \A i \in 1 .. n : /\ m(i).kind = "entry" /\ m(i).n = ws[i].entry
                        /\ m(i) = ToWorker("entry", ws[i].entry) BY DEF ToWorker
<1> HIDE DEF n, U, m
<1>5. EntryMessages(ws) \in Seq(U) BY <1>1, <1>2, <1>3, IsASeq
<1>6. Len(EntryMessages(ws)) = n /\ \A i \in 1 .. n : EntryMessages(ws)[i] = m(i)
  BY <1>1, <1>2, <1>5, LenProperties
<1> QED BY <1>4, <1>5, <1>6 DEF n, U

\* Handed over in order, but for the very first entry.
Before(a, b) == a # b /\ (a < b \/ b = 1)

\* What ReceiveReady(w) posts: the entries of all writes that wait, in order.
LEMMA ReadyBatch ==
    ASSUME ThreadInv, ThreadAssumption, WaitersLast, ~restarting, worker # 0,
           NEW w \in Workers, worker = w
    PROVE  LET ms == EntryMessages(WaitersOf(w, "ready") \o WaitersOf(w, "spawn"))
           IN  /\ \E S : ms \in Seq(S)
               /\ \A k \in 1 .. Len(ms) : /\ ms[k].kind = "entry" /\ ms[k].n \in Gone + 1 .. offered
                                          /\ ms[k] = ToWorker("entry", ms[k].n)
               /\ \A e \in Gone + 1 .. offered : \E k \in 1 .. Len(ms) : ms[k].n = e
               /\ \A i, j \in 1 .. Len(ms) : i < j => Before(ms[i].n, ms[j].n)
<1> DEFINE T == ToSet(waiting)
           SR == {x \in T : x.w = w /\ x.on = "ready"}
           SS == {x \in T : x.w = w /\ x.on = "spawn"}
           A == WaitersOf(w, "ready")
           B == WaitersOf(w, "spawn")
           ws == A \o B
           n == Len(waiting)
<1>1. /\ waiting \in Seq(T) /\ n \in Nat /\ DOMAIN waiting = 1 .. n /\ offered \in Nat /\ n <= offered
      /\ \A i \in 1 .. n : waiting[i].entry = (offered - n) + i
      /\ \A x \in T : \E i \in 1 .. n : x = waiting[i]
      /\ \A i \in 1 .. n : waiting[i] \in T
  BY LenProperties DEF WaitersLast, Gone, ToSet
<1>2. A = Among(waiting, SR) /\ B = Among(waiting, SS) BY DEF WaitersOf
<1>3. ASSUME NEW x \in T
      PROVE  x.w = w /\ x.on \in {"ready", "spawn"} /\ (x.on = "spawn" => x.entry = 1)
  <2>1. PICK i \in 1 .. n : x = waiting[i] BY <1>1
  <2>2. WaiterOK(x, restarting, worker, spawned, settled) BY <2>1 DEF WaitersLast
  <2>3. spawned = w BY ThreadNumbers
  <2> QED BY <2>2, <2>3 DEF WaiterOK
<1>4. \A i, j \in 1 .. n : i < j => waiting[i].entry < waiting[j].entry
  <2> TAKE i, j \in 1 .. n
  <2> QED BY <1>1
<1>5. ASSUME NEW x \in T PROVE x.entry \in Gone + 1 .. offered
  <2>1. PICK i \in 1 .. n : x = waiting[i] BY <1>1
  <2> QED BY <2>1, <1>1 DEF Gone
<1>6. ASSUME NEW x \in T, NEW y \in T, x.entry = y.entry PROVE x = y
  <2>1. PICK i \in 1 .. n : x = waiting[i] BY <1>1
  <2>2. PICK j \in 1 .. n : y = waiting[j] BY <1>1
  <2>3. i = j BY <2>1, <2>2, <1>6, <1>1
  <2> QED BY <2>1, <2>2, <2>3
<1>7. ASSUME NEW e \in Gone + 1 .. offered PROVE \E x \in T : x.entry = e
  <2>1. e - (offered - n) \in 1 .. n /\ (offered - n) + (e - (offered - n)) = e BY <1>1 DEF Gone
  <2>2. PICK i \in 1 .. n : i = e - (offered - n) BY <2>1
  <2>3. waiting[i] \in T /\ waiting[i].entry = e BY <2>1, <2>2, <1>1
  <2> QED BY <2>3
<1> HIDE DEF T, n
<1>8. /\ A \in Seq(T) /\ (\A x : x \in ToSet(A) <=> x \in T /\ x \in SR)
      /\ \A i, j \in 1 .. Len(A) : i < j => A[i].entry < A[j].entry
  <2> HIDE DEF SR, A
  <2> QED BY <1>1, <1>2, <1>4, AmongShape DEF n, T
<1>9. /\ B \in Seq(T) /\ (\A x : x \in ToSet(B) <=> x \in T /\ x \in SS)
      /\ \A i, j \in 1 .. Len(B) : i < j => B[i].entry < B[j].entry
  <2> HIDE DEF SS, B
  <2> QED BY <1>1, <1>2, <1>4, AmongShape DEF n, T
<1> HIDE DEF A, B
<1> DEFINE a == Len(A)
           b == Len(B)
           N == Len(ws)
<1>10. /\ a \in Nat /\ DOMAIN A = 1 .. a /\ b \in Nat /\ DOMAIN B = 1 .. b BY <1>8, <1>9, LenProperties
<1>11. /\ ws \in Seq(T) /\ N = a + b
       /\ \A i \in 1 .. a + b : ws[i] = IF i <= a THEN A[i] ELSE B[i - a]
  BY <1>8, <1>9, ConcatProperties
<1> HIDE DEF ws
<1>12. \A i \in 1 .. a : A[i] \in T /\ A[i] \in SR /\ A[i] \in ToSet(A)
  <2> TAKE i \in 1 .. a
  <2>1. A[i] \in ToSet(A) BY <1>10 DEF ToSet
  <2> QED BY <2>1, <1>8
<1>13. \A i \in 1 .. b : B[i] \in T /\ B[i] \in SS /\ B[i].entry = 1
  <2> TAKE i \in 1 .. b
  <2>1. B[i] \in ToSet(B) BY <1>10 DEF ToSet
  <2>2. B[i] \in T /\ B[i] \in SS BY <2>1, <1>9
  <2> QED BY <2>2, <1>3
<1>14. \A i \in 1 .. N : (i \in 1 .. a /\ ws[i] = A[i]) \/ \E k \in 1 .. b : k = i - a /\ ws[i] = B[k]
  <2> HIDE DEF a, b, N
  <2> TAKE i \in 1 .. N
  <2>1. CASE i <= a BY <2>1, <1>10, <1>11
  <2>2. CASE ~(i <= a)
    <3>1. i - a \in 1 .. b BY <2>2, <1>10, <1>11
    <3> QED BY <3>1, <2>2, <1>11
  <2> QED BY <2>1, <2>2
<1>15. \A e \in Gone + 1 .. offered : \E k \in 1 .. N : ws[k].entry = e
  <2> TAKE e \in Gone + 1 .. offered
  <2>1. PICK x \in T : x.entry = e BY <1>7
  <2>2. CASE x.on = "ready"
    <3>1. x \in ToSet(A) BY <2>2, <1>3, <1>8
    <3>2. PICK i \in 1 .. a : x = A[i] BY <3>1, <1>10 DEF ToSet
    <3>3. i \in 1 .. a + b /\ i <= a BY <1>10
    <3> QED BY <3>2, <3>3, <2>1, <1>11
  <2>3. CASE x.on = "spawn"
    <3>1. x \in ToSet(B) BY <2>3, <1>3, <1>9
    <3>2. PICK i \in 1 .. b : x = B[i] BY <3>1, <1>10 DEF ToSet
    <3>3. PICK k \in 1 .. a + b : k = a + i BY <1>10
    <3>4. ~(k <= a) /\ k - a = i BY <3>3, <1>10
    <3> QED BY <3>2, <3>3, <3>4, <2>1, <1>11
  <2> QED BY <2>2, <2>3, <1>3
<1>16. \A i, j \in 1 .. N : i < j => Before(ws[i].entry, ws[j].entry)
  <2> SUFFICES ASSUME NEW i \in 1 .. N, NEW j \in 1 .. N, i < j PROVE Before(ws[i].entry, ws[j].entry)
    OBVIOUS
  <2>1. CASE j \in 1 .. a /\ ws[j] = A[j]
    <3>1. i \in 1 .. a BY <2>1, <1>10, <1>11
    <3>2. ws[i] = A[i] BY <3>1, <1>14
    <3>3. A[i].entry < A[j].entry BY <3>1, <2>1, <1>8
    <3>4. A[i].entry \in Int /\ A[j].entry \in Int BY <3>1, <2>1, <1>12, <1>5, <1>1, SMTT(20) DEF Gone, n
    <3> QED BY <3>2, <3>3, <3>4, <2>1 DEF Before
  <2>2. ASSUME NEW k \in 1 .. b, k = j - a, ws[j] = B[k] PROVE Before(ws[i].entry, ws[j].entry)
    <3>1. B[k].entry = 1 /\ B[k] \in T /\ B[k].on = "spawn" BY <1>13
    <3>2. CASE i \in 1 .. a /\ ws[i] = A[i]
      <4>1. A[i] \in T /\ A[i].on = "ready" BY <3>2, <1>12
      <4>2. A[i].entry # 1 BY <4>1, <3>1, <1>6
      <4> QED BY <4>2, <3>1, <3>2, <2>2 DEF Before
    <3>3. ASSUME NEW l \in 1 .. b, l = i - a, ws[i] = B[l] PROVE FALSE
      <4>1. l < k BY <3>3, <2>2, <1>10, <1>11
      <4>2. B[l].entry < B[k].entry BY <4>1, <1>9
      <4> QED BY <4>2, <1>13
    <3> QED BY <3>2, <3>3, <1>14
  <2> QED BY <2>1, <2>2, <1>14
<1>17. \A k \in 1 .. N : ws[k].entry \in Gone + 1 .. offered
  <2> TAKE k \in 1 .. N
  <2>1. ws[k] \in T BY <1>12, <1>13, <1>14
  <2> QED BY <2>1, <1>5
<1> DEFINE ms == EntryMessages(ws)
           U == {ToWorker("entry", x.entry) : x \in T}
<1>18. /\ ms \in Seq(U) /\ Len(ms) = N
       /\ \A i \in 1 .. N : /\ ms[i].kind = "entry" /\ ms[i].n = ws[i].entry
                            /\ ms[i] = ToWorker("entry", ws[i].entry)
  <2> HIDE DEF U
  <2> QED BY <1>11, EntryMessagesShape DEF U
<1> HIDE DEF ms, U, N
<1>19. ms = EntryMessages(WaitersOf(w, "ready") \o WaitersOf(w, "spawn")) BY DEF ms, ws, A, B
<1> QED BY <1>15, <1>16, <1>17, <1>18, <1>19

\* "ready": the thread has begun, and is sent the entries that wait.
LEMMA ReadyMessages ==
    ASSUME ThreadInv, ThreadAssumption, WaitersLast, SpawnState, Messages,
           NEW w \in Workers, ReceiveReady(w)
    PROVE  Messages'
<1> DEFINE ms == EntryMessages(WaitersOf(w, "ready") \o WaitersOf(w, "spawn"))
           t == Tail(outbox[w])
<1>1. worker = w /\ w = spawned /\ ~restarting /\ w # 0 BY ReadyMain, ThreadNumbers
<1>2. /\ Receive(w, "ready") /\ Post(w, ms) /\ UNCHANGED <<worker, alive>>
      /\ outbox[w] # <<>> /\ outbox' = [outbox EXCEPT ![w] = t]
      /\ UNCHANGED <<spawned, seq, closing, jobs, transport>>
  BY <1>1 DEF ReceiveReady, Receive
<1>3. /\ DOMAIN outbox = Workers /\ DOMAIN inbox = Workers /\ outbox[w] \in Seq(ToSet(outbox[w]))
      /\ inbox' = [inbox EXCEPT ![w] = inbox[w] \o ms]
  BY <1>2 DEF ThreadInv, Outboxes, Messages, Post
<1>4. /\ DOMAIN inbox' = Workers /\ outbox'[w] = t /\ inbox'[w] = inbox[w] \o ms
      /\ \A v \in Workers \ {w} : outbox'[v] = outbox[v] /\ inbox'[v] = inbox[v]
  BY <1>2, <1>3
<1>5. (\E S : ms \in Seq(S)) /\ \A k \in 1 .. Len(ms) : ms[k].kind = "entry"
  BY <1>1, ReadyBatch
<1> HIDE DEF ms, t
<1>6. /\ ReadyOK(w, inbox[w], outbox[w], jobs[w], alive[w], spawned, worker)
      /\ CallOK(w, inbox[w], outbox[w], jobs[w], transport[w], spawned, seq, closing) BY DEF Messages
<1>7. /\ ReadyOK(w, inbox[w], t, jobs[w], alive[w], spawned, worker)
      /\ CallOK(w, inbox[w], t, jobs[w], transport[w], spawned, seq, closing)
  BY <1>2, <1>3, <1>6, TakenOK DEF t
<1>8. /\ ReadyOK(w, inbox[w] \o ms, t, jobs[w], alive[w], spawned, worker)
      /\ CallOK(w, inbox[w] \o ms, t, jobs[w], transport[w], spawned, seq, closing)
  <2>1. PICK S : ms \in Seq(S) BY <1>5
  <2>2. ~(w > spawned) BY <1>1, ThreadNumbers
  <2> QED BY <2>1, <2>2, <1>5, <1>7, PostOK
<1>9. DOMAIN jobs' = Workers /\ DOMAIN transport' = Workers BY <1>2 DEF Messages
<1> QED BY <1>2, <1>4, <1>8, <1>9, OneThread

\* Messages of a thread that end it, or not.
LEMMA ReceiveMessages ==
    ASSUME ThreadInv, ThreadAssumption, WaitersLast, SpawnState, Messages,
           NEW w \in Workers, ReceiveAck(w) \/ ReceiveError(w) \/ ReceiveExit(w)
    PROVE  Messages'
<1>1. CASE ReceiveAck(w)
  <2>1. Receive(w, "acked") /\ UNCHANGED inbox BY <1>1 DEF ReceiveAck
  <2>2. CASE UNCHANGED <<alive, worker>> BY <2>1, <2>2, TakeMessages
  <2>3. CASE /\ closed /\ Head(outbox[w]).n = closing /\ worker # 0
             /\ alive' = [alive EXCEPT ![worker] = FALSE]
    <3>1. /\ outbox[w] \in Seq(ToSet(outbox[w])) /\ outbox[w] # <<>> /\ Head(outbox[w]).kind = "acked"
      BY <2>1 DEF Receive, ThreadInv, Outboxes
    <3>2. Head(outbox[w]) = outbox[w][1] /\ 1 \in 1 .. Len(outbox[w]) BY <3>1, TailShape
    <3>3. CallOK(w, inbox[w], outbox[w], jobs[w], transport[w], spawned, seq, closing) BY DEF Messages
    <3>4. w = spawned BY <3>1, <3>2, <3>3, <2>3 DEF CallOK
    <3>5. worker = w BY <3>4, <2>3, ThreadNumbers
    <3>6. \A v \in Workers : alive'[v] => alive[v]
      <4>1. alive \in [Workers -> BOOLEAN] BY DEF ThreadInv, Numbers
      <4> QED BY <4>1, <2>3
    <3> QED BY <2>1, <3>5, <3>6, TakeMessages
  <2> QED BY <1>1, <2>2, <2>3 DEF ReceiveAck
<1>2. CASE ReceiveError(w)
  <2>1. Receive(w, "error") /\ OnWorkerCrash /\ UNCHANGED <<inbox, alive>> BY <1>2 DEF ReceiveError
  <2>2. Has(outbox[w], "error") BY <2>1, ReceiveQueues
  <2>3. worker' = worker \/ worker = w BY <2>1, <2>2 DEF OnWorkerCrash, ThreadInv, Events
  <2> QED BY <2>1, <2>3, TakeMessages
<1>3. CASE ReceiveExit(w)
  <2>1. Receive(w, "exit") /\ UNCHANGED <<inbox, alive>> BY <1>3 DEF ReceiveExit
  <2>2. Has(outbox[w], "exit") BY <2>1, ReceiveQueues
  <2>3. worker' = worker \/ worker = w
    BY <1>3, <2>2 DEF ReceiveExit, OnWorkerCrash, ThreadInv, Events
  <2> QED BY <2>1, <2>3, TakeMessages
<1> QED BY <1>1, <1>2, <1>3

\* Steps of a running thread.
LEMMA RunMessages ==
    ASSUME ThreadInv, ThreadAssumption, SpawnState, Messages, NEW w \in Workers, Run(w)
    PROVE  Messages'
<1>1. /\ alive[w] /\ UNCHANGED <<worker, spawned, seq, closing, alive>>
  BY DEF Run, Handle, FinishFlush, FinishClose, mainThread, calls
<1>2. /\ DOMAIN outbox = Workers /\ DOMAIN inbox = Workers /\ DOMAIN jobs = Workers
      /\ DOMAIN transport = Workers /\ worker = w /\ outbox[w] \in Seq(ToSet(outbox[w]))
  BY <1>1 DEF ThreadInv, Outboxes, Messages, SpawnState
<1>3. /\ ReadyOK(w, inbox[w], outbox[w], jobs[w], alive[w], spawned, worker)
      /\ CallOK(w, inbox[w], outbox[w], jobs[w], transport[w], spawned, seq, closing) BY DEF Messages
<1>4. CASE Handle(w)
  <2> DEFINE msg == Head(inbox[w])
  <2>1. /\ inbox[w] # <<>> /\ inbox' = [inbox EXCEPT ![w] = Tail(inbox[w])]
        /\ \/ /\ msg.kind = "init" /\ transport' = [transport EXCEPT ![w] = "open"]
              /\ Send(w, <<ToWorker("ready", 0)>>) /\ UNCHANGED jobs
           \/ msg.kind = "entry" /\ UNCHANGED <<transport, jobs, outbox>>
           \/ /\ msg.kind \in {"flush", "close"}
              /\ jobs' = [jobs EXCEPT ![w] = jobs[w] \cup {ToWorker(msg.kind, msg.n)}]
              /\ UNCHANGED <<transport, outbox>>
    BY <1>4 DEF Handle
  <2> HIDE DEF msg
  <2>2. /\ DOMAIN inbox' = Workers /\ DOMAIN jobs' = Workers /\ DOMAIN transport' = Workers
        /\ inbox'[w] = Tail(inbox[w])
        /\ \A v \in Workers \ {w} : /\ inbox'[v] = inbox[v] /\ outbox'[v] = outbox[v]
                                    /\ jobs'[v] = jobs[v] /\ transport'[v] = transport[v]
        /\ \/ msg.kind = "init" /\ outbox'[w] = outbox[w] \o <<ToWorker("ready", 0)>> /\ jobs'[w] = jobs[w]
           \/ msg.kind = "entry" /\ outbox'[w] = outbox[w] /\ jobs'[w] = jobs[w] /\ transport'[w] = transport[w]
           \/ /\ msg.kind \in {"flush", "close"} /\ outbox'[w] = outbox[w] /\ transport'[w] = transport[w]
              /\ jobs'[w] = jobs[w] \cup {ToWorker(msg.kind, msg.n)}
    BY <2>1, <1>2 DEF Send
  <2>3. /\ ReadyOK(w, Tail(inbox[w]), outbox'[w], jobs'[w], alive[w], spawned, worker)
        /\ CallOK(w, Tail(inbox[w]), outbox'[w], jobs'[w], transport'[w], spawned, seq, closing)
    <3> DEFINE out2 == outbox'[w]
               js2 == jobs'[w]
               tr2 == transport'[w]
    <3>1. \/ msg.kind = "init" /\ out2 = outbox[w] \o <<ToWorker("ready", 0)>> /\ js2 = jobs[w]
          \/ msg.kind = "entry" /\ out2 = outbox[w] /\ js2 = jobs[w] /\ tr2 = transport[w]
          \/ /\ msg.kind \in {"flush", "close"} /\ out2 = outbox[w] /\ tr2 = transport[w]
             /\ js2 = jobs[w] \cup {ToWorker(msg.kind, msg.n)}
      BY <2>2
    <3> DEFINE in == inbox[w]
               out == outbox[w]
               js == jobs[w]
               tr == transport[w]
               runs == alive[w]
    <3> HIDE DEF out2, js2, tr2
    <3>2. /\ ReadyOK(w, in, out, js, runs, spawned, worker)
          /\ CallOK(w, in, out, js, tr, spawned, seq, closing)
          /\ in # <<>> /\ runs /\ worker = w
      BY <2>1, <1>1, <1>2, <1>3
    <3>3. \/ Head(in).kind = "init" /\ out2 = out \o <<ToWorker("ready", 0)>> /\ js2 = js
          \/ Head(in).kind = "entry" /\ out2 = out /\ js2 = js /\ tr2 = tr
          \/ /\ Head(in).kind \in {"flush", "close"} /\ out2 = out /\ tr2 = tr
             /\ js2 = js \cup {ToWorker(Head(in).kind, Head(in).n)}
      BY <3>1 DEF msg
    <3> HIDE DEF in, out, js, tr, runs
    <3>4. /\ ReadyOK(w, Tail(in), out2, js2, runs, spawned, worker)
          /\ CallOK(w, Tail(in), out2, js2, tr2, spawned, seq, closing)
      BY <3>2, <3>3, HandledOK
    <3> QED BY <3>4 DEF out2, js2, tr2, in, runs
  <2> QED BY <2>2, <2>3, <1>1, OneThread
<1>5. ASSUME NEW job \in jobs[w], FinishFlush(w, job) \/ FinishClose(w, job) PROVE Messages'
  <2>1. /\ UNCHANGED inbox
        /\ \/ /\ job.kind \in {"flush", "ending"} /\ jobs' = [jobs EXCEPT ![w] = jobs[w] \ {job}]
              /\ Send(w, <<ToWorker("acked", job.n)>>) /\ UNCHANGED transport
           \/ /\ job.kind = "close"
              /\ jobs' = [jobs EXCEPT ![w] = (jobs[w] \ {job}) \cup {ToWorker("ending", job.n)}]
              /\ transport' = [transport EXCEPT ![w] = "closed"] /\ UNCHANGED outbox
    BY <1>5 DEF FinishFlush, FinishClose
  <2>2. /\ DOMAIN inbox' = Workers /\ DOMAIN jobs' = Workers /\ DOMAIN transport' = Workers
        /\ inbox'[w] = inbox[w]
        /\ \A v \in Workers \ {w} : /\ inbox'[v] = inbox[v] /\ outbox'[v] = outbox[v]
                                    /\ jobs'[v] = jobs[v] /\ transport'[v] = transport[v]
        /\ \/ /\ job.kind \in {"flush", "ending"} /\ jobs'[w] = jobs[w] \ {job}
              /\ transport'[w] = transport[w]
              /\ outbox'[w] = outbox[w] \o <<ToWorker("acked", job.n)>>
           \/ /\ job.kind = "close" /\ jobs'[w] = (jobs[w] \ {job}) \cup {ToWorker("ending", job.n)}
              /\ transport'[w] = "closed" /\ outbox'[w] = outbox[w]
    BY <2>1, <1>2 DEF Send
  <2>3. /\ ReadyOK(w, inbox[w], outbox'[w], jobs'[w], alive[w], spawned, worker)
        /\ CallOK(w, inbox[w], outbox'[w], jobs'[w], transport'[w], spawned, seq, closing)
    <3> DEFINE out2 == outbox'[w]
               js2 == jobs'[w]
               tr2 == transport'[w]
    <3>1. \/ /\ job.kind \in {"flush", "ending"} /\ js2 = jobs[w] \ {job} /\ tr2 = transport[w]
             /\ out2 = outbox[w] \o <<ToWorker("acked", job.n)>>
          \/ /\ job.kind = "close" /\ js2 = (jobs[w] \ {job}) \cup {ToWorker("ending", job.n)}
             /\ tr2 = "closed" /\ out2 = outbox[w]
      BY <2>2
    <3> HIDE DEF out2, js2, tr2
    <3>2. /\ ReadyOK(w, inbox[w], out2, js2, alive[w], spawned, worker)
          /\ CallOK(w, inbox[w], out2, js2, tr2, spawned, seq, closing)
      BY <3>1, <1>1, <1>2, <1>3, AnsweredOK
    <3> QED BY <3>2 DEF out2, js2, tr2
  <2> QED BY <2>2, <2>3, <1>1, OneThread
<1> QED BY <1>4, <1>5 DEF Run

\* A thread that ends sends its last messages.
LEMMA DiesMessages ==
    ASSUME ThreadInv, ThreadAssumption, Messages, NEW w \in Workers, NEW S, NEW ms \in Seq(S),
           \A k \in 1 .. Len(ms) : ms[k].kind \in {"error", "exit"}, Dies(w, ms)
    PROVE  Messages'
<1>1. /\ alive' = [alive EXCEPT ![w] = FALSE] /\ outbox' = [outbox EXCEPT ![w] = outbox[w] \o ms]
      /\ UNCHANGED <<worker, spawned, seq, closing, inbox, jobs, transport>>
  BY DEF Dies, Send, mainThread, calls
<1>2. /\ DOMAIN outbox = Workers /\ alive \in [Workers -> BOOLEAN] /\ outbox[w] \in Seq(ToSet(outbox[w]))
  BY DEF ThreadInv, Outboxes, Numbers
<1>3. /\ outbox'[w] = outbox[w] \o ms /\ alive'[w] = FALSE
      /\ \A v \in Workers \ {w} : outbox'[v] = outbox[v] /\ alive'[v] = alive[v] BY <1>1, <1>2
<1>4. /\ ReadyOK(w, inbox[w], outbox[w], jobs[w], alive[w], spawned, worker)
      /\ CallOK(w, inbox[w], outbox[w], jobs[w], transport[w], spawned, seq, closing) BY DEF Messages
<1>5. /\ ReadyOK(w, inbox[w], outbox[w] \o ms, jobs[w], FALSE, spawned, worker)
      /\ CallOK(w, inbox[w], outbox[w] \o ms, jobs[w], transport[w], spawned, seq, closing)
  BY <1>2, <1>4, EndedOK
<1>6. DOMAIN inbox' = Workers /\ DOMAIN jobs' = Workers /\ DOMAIN transport' = Workers
  BY <1>1 DEF Messages
<1> QED BY <1>1, <1>3, <1>5, <1>6, OneThread

\* A thread ends with an error, or without one.
LEMMA EndMessages ==
    ASSUME ThreadInv, ThreadAssumption, Messages, NEW w \in Workers, Crash(w) \/ Exit(w)
    PROVE  Messages'
<1>1. CASE Crash(w)
  <2> DEFINE ms == <<ToWorker("error", 0), ToWorker("exit", 0)>>
  <2>1. /\ ms \in Seq({ToWorker("error", 0), ToWorker("exit", 0)})
        /\ Len(ms) = 2 /\ ms[1].kind = "error" /\ ms[2].kind = "exit" BY DEF ToWorker
  <2>2. Dies(w, ms) BY <1>1 DEF Crash
  <2> HIDE DEF ms
  <2>3. \A k \in 1 .. Len(ms) : ms[k].kind \in {"error", "exit"} BY <2>1
  <2> QED BY <2>1, <2>2, <2>3, DiesMessages
<1>2. CASE Exit(w)
  <2> DEFINE ms == <<ToWorker("exit", 0)>>
  <2>1. ms \in Seq({ToWorker("exit", 0)}) /\ Len(ms) = 1 /\ ms[1].kind = "exit" BY DEF ToWorker
  <2>2. Dies(w, ms) BY <1>2 DEF Exit
  <2> HIDE DEF ms
  <2>3. \A k \in 1 .. Len(ms) : ms[k].kind \in {"error", "exit"} BY <2>1
  <2> QED BY <2>1, <2>2, <2>3, DiesMessages
<1> QED BY <1>1, <1>2

-----------------------------------------------------------------------------
(* The entries.                                                            *)

\* The entries on the way in a queue of messages.
Carried(s) == {s[i].n : i \in {j \in 1 .. Len(s) : s[j].kind = "entry"}}
InOrder(s) ==
    \A i, j \in 1 .. Len(s) : i < j /\ s[i].kind = "entry" /\ s[j].kind = "entry" => Before(s[i].n, s[j].n)
Written(s) == \A i \in 1 .. Len(s) : s[i].kind = "entry" => s[i] = ToWorker("entry", s[i].n)

\* In order, in what was handed over, in each queue, and from one to the other.
Handed ==
    /\ taken \in Seq(Nat) /\ \A i, j \in 1 .. Len(taken) : i < j => Before(taken[i], taken[j])
    /\ \A w \in Workers : /\ InOrder(inbox[w]) /\ Written(inbox[w])
                          /\ alive[w] => \A a \in ToSet(taken), b \in Carried(inbox[w]) : Before(a, b)

\* An entry that does not wait is in exactly one place.
Placed ==
    /\ ToSet(taken) \cup rejected \cup ignored \subseteq 1 .. Gone
    /\ \A w \in Workers : /\ Carried(inbox[w]) \subseteq 1 .. Gone
                          /\ Carried(inbox[w]) \cap (ToSet(taken) \cup rejected \cup ignored) = {}
    /\ \A v, w \in Workers : v # w => Carried(inbox[v]) \cap Carried(inbox[w]) = {}
    /\ ToSet(taken) \cap rejected = {} /\ ToSet(taken) \cap ignored = {} /\ rejected \cap ignored = {}
    /\ \A e \in 1 .. Gone : \/ e \in ToSet(taken) \cup rejected \cup ignored
                            \/ \E w \in Workers : e \in Carried(inbox[w])

\* Messages put behind a queue.
LEMMA AppendCarried ==
    ASSUME NEW s, s \in Seq(ToSet(s)), NEW S, NEW ms \in Seq(S)
    PROVE  /\ Carried(s \o ms) = Carried(s) \cup Carried(ms)
           /\ Written(s) /\ Written(ms) => Written(s \o ms)
           /\ InOrder(s) /\ InOrder(ms) /\ (\A a \in Carried(s), b \in Carried(ms) : Before(a, b))
                => InOrder(s \o ms)
<1> DEFINE t == s \o ms
           a == Len(s)
           b == Len(ms)
<1>1. /\ a \in Nat /\ b \in Nat /\ Len(t) = a + b
      /\ \A i \in 1 .. a : t[i] = s[i]
      /\ \A i \in 1 .. b : t[a + i] = ms[i]
  BY SendShape
<1> HIDE DEF t, a, b
<1>2. \A i \in 1 .. Len(t) : (i \in 1 .. a /\ t[i] = s[i]) \/ \E k \in 1 .. b : i = a + k /\ t[i] = ms[k]
  <2> TAKE i \in 1 .. Len(t)
  <2>1. CASE i \in 1 .. a BY <2>1, <1>1
  <2>2. CASE i \notin 1 .. a
    <3>1. i - a \in 1 .. b /\ i = a + (i - a) BY <2>2, <1>1
    <3> QED BY <3>1, <1>1
  <2> QED BY <2>1, <2>2
<1>3. /\ \A i \in 1 .. a : i \in 1 .. Len(t)
      /\ \A k \in 1 .. b : a + k \in 1 .. Len(t) BY <1>1
<1>4. Carried(t) = Carried(s) \cup Carried(ms)
  <2>1. ASSUME NEW e \in Carried(t) PROVE e \in Carried(s) \cup Carried(ms)
    <3>1. PICK i \in 1 .. Len(t) : t[i].kind = "entry" /\ e = t[i].n BY <2>1 DEF Carried
    <3>2. CASE i \in 1 .. a /\ t[i] = s[i] BY <3>1, <3>2 DEF Carried, a
    <3>3. ASSUME NEW k \in 1 .. b, t[i] = ms[k] PROVE e \in Carried(ms) BY <3>1, <3>3 DEF Carried, b
    <3> QED BY <3>2, <3>3, <1>2
  <2>2. ASSUME NEW e \in Carried(s) PROVE e \in Carried(t)
    <3>1. PICK i \in 1 .. a : s[i].kind = "entry" /\ e = s[i].n BY <2>2 DEF Carried, a
    <3>2. i \in 1 .. Len(t) /\ t[i].kind = "entry" /\ e = t[i].n BY <3>1, <1>1, <1>3
    <3> QED BY <3>2 DEF Carried
  <2>3. ASSUME NEW e \in Carried(ms) PROVE e \in Carried(t)
    <3>1. PICK k \in 1 .. b : ms[k].kind = "entry" /\ e = ms[k].n BY <2>3 DEF Carried, b
    <3>2. a + k \in 1 .. Len(t) /\ t[a + k].kind = "entry" /\ e = t[a + k].n BY <3>1, <1>1, <1>3
    <3> QED BY <3>2 DEF Carried
  <2> QED BY <2>1, <2>2, <2>3
<1>5. ASSUME Written(s), Written(ms) PROVE Written(t)
  <2> SUFFICES ASSUME NEW i \in 1 .. Len(t), t[i].kind = "entry" PROVE t[i] = ToWorker("entry", t[i].n)
    BY DEF Written
  <2>1. CASE i \in 1 .. a /\ t[i] = s[i]
    <3>1. s[i] = ToWorker("entry", s[i].n) BY <2>1, <1>5 DEF Written, a
    <3> QED BY <3>1, <2>1
  <2>2. ASSUME NEW k \in 1 .. b, t[i] = ms[k] PROVE t[i] = ToWorker("entry", t[i].n)
    <3>1. ms[k] = ToWorker("entry", ms[k].n) BY <2>2, <1>5 DEF Written, b
    <3> QED BY <3>1, <2>2
  <2> QED BY <2>1, <2>2, <1>2
<1>6. ASSUME InOrder(s), InOrder(ms), \A x \in Carried(s), y \in Carried(ms) : Before(x, y)
      PROVE  InOrder(t)
  <2> SUFFICES ASSUME NEW i \in 1 .. Len(t), NEW j \in 1 .. Len(t), i < j,
                      t[i].kind = "entry", t[j].kind = "entry"
               PROVE  Before(t[i].n, t[j].n)
    BY DEF InOrder
  <2>1. CASE i \in 1 .. a /\ t[i] = s[i] /\ j \in 1 .. a /\ t[j] = s[j]
    BY <2>1, <1>6 DEF InOrder, a
  <2>2. ASSUME i \in 1 .. a, t[i] = s[i], NEW k \in 1 .. b, t[j] = ms[k] PROVE Before(t[i].n, t[j].n)
    <3>1. t[i].n \in Carried(s) BY <2>2 DEF Carried, a
    <3>2. t[j].n \in Carried(ms) BY <2>2 DEF Carried, b
    <3> QED BY <3>1, <3>2, <1>6
  <2>3. ASSUME NEW k \in 1 .. b, i = a + k, t[i] = ms[k], NEW l \in 1 .. b, j = a + l, t[j] = ms[l]
        PROVE  Before(t[i].n, t[j].n)
    <3>1. k < l BY <2>3, <1>1
    <3> QED BY <3>1, <2>3, <1>6 DEF InOrder, b
  <2>4. ASSUME NEW k \in 1 .. b, i = a + k, j \in 1 .. a PROVE FALSE BY <2>4, <1>1
  <2> QED BY <2>1, <2>2, <2>3, <2>4, <1>2
<1> QED BY <1>4, <1>5, <1>6 DEF t

\* Messages that carry no entry.
LEMMA NoneCarried ==
    ASSUME NEW ms, \A k \in 1 .. Len(ms) : ms[k].kind # "entry"
    PROVE  Carried(ms) = {} /\ Written(ms) /\ InOrder(ms)
BY DEF Carried, Written, InOrder

\* The oldest message of a queue is taken.
LEMMA TailCarried ==
    ASSUME NEW s, s \in Seq(ToSet(s)), s # <<>>, InOrder(s), Written(s)
    PROVE  /\ InOrder(Tail(s)) /\ Written(Tail(s))
           /\ Head(s).kind # "entry" => Carried(Tail(s)) = Carried(s)
           /\ Head(s).kind = "entry" =>
                /\ Carried(s) = {Head(s).n} \cup Carried(Tail(s))
                /\ \A b \in Carried(Tail(s)) : Before(Head(s).n, b)
<1> DEFINE t == Tail(s)
           n == Len(s)
<1>1. /\ Head(s) = s[1] /\ n \in Nat \ {0} /\ Len(t) = n - 1
      /\ \A i \in 1 .. n - 1 : t[i] = s[i + 1]
  BY TailShape
<1> HIDE DEF t, n
<1>2. \A i \in 1 .. Len(t) : t[i] = s[i + 1] /\ i + 1 \in 1 .. n /\ 1 < i + 1 BY <1>1
<1>3. \A i \in 1 .. n : i = 1 \/ \E k \in 1 .. Len(t) : i = k + 1 /\ t[k] = s[i]
  <2> TAKE i \in 1 .. n
  <2>1. CASE i # 1
    <3>1. i - 1 \in 1 .. n - 1 /\ i = (i - 1) + 1 BY <2>1, <1>1
    <3>2. PICK k \in 1 .. n - 1 : k = i - 1 BY <3>1
    <3> QED BY <3>1, <3>2, <1>1
  <2> QED BY <2>1
<1>4. 1 \in 1 .. n BY <1>1
<1>5. InOrder(t)
  <2> SUFFICES ASSUME NEW i \in 1 .. Len(t), NEW j \in 1 .. Len(t), i < j,
                      t[i].kind = "entry", t[j].kind = "entry"
               PROVE  Before(t[i].n, t[j].n)
    BY DEF InOrder
  <2>1. i + 1 < j + 1 /\ i + 1 \in 1 .. n /\ j + 1 \in 1 .. n /\ t[i] = s[i + 1] /\ t[j] = s[j + 1]
    BY <1>1, <1>2
  <2> QED BY <2>1 DEF InOrder, n
<1>6. Written(t) BY <1>2 DEF Written, n
<1>7. \A e : e \in Carried(t) => e \in Carried(s)
  <2> SUFFICES ASSUME NEW e \in Carried(t) PROVE e \in Carried(s) OBVIOUS
  <2>1. PICK i \in 1 .. Len(t) : t[i].kind = "entry" /\ e = t[i].n BY DEF Carried
  <2>2. i + 1 \in 1 .. n /\ s[i + 1].kind = "entry" /\ e = s[i + 1].n BY <2>1, <1>2
  <2> QED BY <2>2 DEF Carried, n
<1>8. \A e \in Carried(s) : e \in Carried(t) \/ (Head(s).kind = "entry" /\ e = Head(s).n)
  <2> TAKE e \in Carried(s)
  <2>1. PICK i \in 1 .. n : s[i].kind = "entry" /\ e = s[i].n BY DEF Carried, n
  <2>2. CASE i = 1 BY <2>1, <2>2, <1>1
  <2>3. ASSUME NEW k \in 1 .. Len(t), t[k] = s[i] PROVE e \in Carried(t) BY <2>1, <2>3 DEF Carried
  <2> QED BY <2>2, <2>3, <1>3
<1>9. ASSUME Head(s).kind = "entry"
      PROVE  Head(s).n \in Carried(s) /\ \A b \in Carried(t) : Before(Head(s).n, b)
  <2>1. Head(s).n \in Carried(s) BY <1>1, <1>4, <1>9 DEF Carried, n
  <2>2. ASSUME NEW b \in Carried(t) PROVE Before(Head(s).n, b)
    <3>1. PICK i \in 1 .. Len(t) : t[i].kind = "entry" /\ b = t[i].n BY DEF Carried
    <3>2. s[i + 1].kind = "entry" /\ b = s[i + 1].n /\ i + 1 \in 1 .. n /\ 1 < i + 1 BY <3>1, <1>2
    <3> QED BY <3>2, <1>1, <1>4, <1>9 DEF InOrder, n
  <2> QED BY <2>1, <2>2
<1> QED BY <1>5, <1>6, <1>7, <1>8, <1>9 DEF t

-----------------------------------------------------------------------------
(* The five things that happen to entries.                                 *)

\* Nothing.
LEMMA EntriesStay ==
    ASSUME Handed, Placed, Gone' = Gone, UNCHANGED <<rejected, taken, ignored>>,
           \A w \in Workers : /\ Carried(inbox'[w]) = Carried(inbox[w])
                              /\ InOrder(inbox'[w]) /\ Written(inbox'[w])
                              /\ alive'[w] => alive[w] \/ Carried(inbox[w]) = {}
    PROVE  Handed' /\ Placed'
<1>1. Handed' BY DEF Handed
<1>2. Gone' = Gone OBVIOUS
<1>3. Placed'
  <2>1. \A w \in Workers : Carried(inbox'[w]) = Carried(inbox[w]) OBVIOUS
  <2>2. \A e \in 1 .. Gone : \/ e \in ToSet(taken) \cup rejected \cup ignored
                             \/ \E w \in Workers : e \in Carried(inbox'[w])
    BY <2>1 DEF Placed
  <2>3. \A v, w \in Workers : v # w => Carried(inbox'[v]) \cap Carried(inbox'[w]) = {} BY <2>1 DEF Placed
  <2>4. \A w \in Workers : /\ Carried(inbox'[w]) \subseteq 1 .. Gone
                           /\ Carried(inbox'[w]) \cap (ToSet(taken) \cup rejected \cup ignored) = {}
    BY <2>1 DEF Placed
  <2>5. /\ ToSet(taken) \cup rejected \cup ignored \subseteq 1 .. Gone
        /\ ToSet(taken) \cap rejected = {} /\ ToSet(taken) \cap ignored = {} /\ rejected \cap ignored = {}
    BY DEF Placed
  <2> QED BY <1>2, <2>2, <2>3, <2>4, <2>5 DEF Placed
<1> QED BY <1>1, <1>3

\* The next ones are posted to a thread.
LEMMA EntriesPosted ==
    ASSUME Handed, Placed, Messages, NEW w \in Workers, NEW S, NEW ms \in Seq(S), Post(w, ms),
           offered \in Nat, Gone \in Nat, Gone' \in Nat, Gone <= Gone',
           InOrder(ms), Written(ms), \A e : e \in Carried(ms) <=> e \in Gone + 1 .. Gone',
           UNCHANGED <<rejected, taken, ignored, alive>>
    PROVE  Handed' /\ Placed'
<1> DEFINE g == Gone
           h == Gone'
<1>1. inbox[w] \in Seq(ToSet(inbox[w])) /\ inbox' = [inbox EXCEPT ![w] = inbox[w] \o ms] /\ DOMAIN inbox = Workers
  BY DEF Messages, ReadyOK, Post
<1>2. inbox'[w] = inbox[w] \o ms /\ \A v \in Workers \ {w} : inbox'[v] = inbox[v] BY <1>1
<1>3. ASSUME NEW a \in 1 .. g, NEW b \in Carried(ms) PROVE Before(a, b)
  <2>1. b \in g + 1 .. h OBVIOUS
  <2> HIDE DEF g, h
  <2>2. g \in Nat /\ h \in Nat BY DEF g, h
  <2> QED BY <2>1, <2>2 DEF Before
<1>4. /\ Carried(inbox'[w]) = Carried(inbox[w]) \cup Carried(ms)
      /\ Written(inbox'[w]) /\ InOrder(inbox'[w])
  <2>1. Written(inbox[w]) /\ InOrder(inbox[w]) /\ Carried(inbox[w]) \subseteq 1 .. g BY DEF Handed, Placed
  <2>2. \A a \in Carried(inbox[w]), b \in Carried(ms) : Before(a, b) BY <2>1, <1>3
  <2> QED BY <1>1, <1>2, <2>1, <2>2, AppendCarried
<1>5. Handed'
  <2>1. \A a \in ToSet(taken), b \in Carried(ms) : Before(a, b) BY <1>3 DEF Placed
  <2>2. ASSUME NEW v \in Workers
        PROVE  /\ InOrder(inbox'[v]) /\ Written(inbox'[v])
               /\ alive[v] => \A a \in ToSet(taken), b \in Carried(inbox'[v]) : Before(a, b)
    <3>1. CASE v = w BY <3>1, <2>1, <1>4 DEF Handed
    <3>2. CASE v # w BY <3>2, <1>2 DEF Handed
    <3> QED BY <3>1, <3>2
  <2> QED BY <2>2 DEF Handed
<1>6. Placed'
  <2> DEFINE C(v) == Carried(inbox[v])
             D(v) == Carried(inbox'[v])
             N == Carried(ms)
             X == ToSet(taken) \cup rejected \cup ignored
  <2>1. /\ X \subseteq 1 .. g
        /\ \A v \in Workers : C(v) \subseteq 1 .. g /\ C(v) \cap X = {}
        /\ \A u, v \in Workers : u # v => C(u) \cap C(v) = {}
        /\ \A e \in 1 .. g : e \in X \/ \E v \in Workers : e \in C(v)
    BY DEF Placed
  <2>2. D(w) = C(w) \cup N /\ \A v \in Workers \ {w} : D(v) = C(v) BY <1>2, <1>4
  <2>3. /\ \A e \in N : e \in 1 .. h /\ e \notin 1 .. g
        /\ \A e \in 1 .. h : e \in 1 .. g \/ e \in N
        /\ \A e \in 1 .. g : e \in 1 .. h
    <3>1. \A e : e \in N <=> e \in g + 1 .. h OBVIOUS
    <3>2. g \in Nat /\ h \in Nat /\ g <= h OBVIOUS
    <3> HIDE DEF g, h, N
    <3> QED BY <3>1, <3>2
  <2> HIDE DEF C, D, N, X, g, h
  <2>4. X \subseteq 1 .. h BY <2>1, <2>3
  <2>5. \A v \in Workers : D(v) \subseteq 1 .. h /\ D(v) \cap X = {}
    <3> TAKE v \in Workers
    <3>1. CASE v = w BY <3>1, <2>1, <2>2, <2>3
    <3>2. CASE v # w BY <3>2, <2>1, <2>2, <2>3
    <3> QED BY <3>1, <3>2
  <2>6. \A u, v \in Workers : u # v => D(u) \cap D(v) = {}
    <3> SUFFICES ASSUME NEW u \in Workers, NEW v \in Workers, u # v, NEW e, e \in D(u), e \in D(v)
                 PROVE  FALSE
      OBVIOUS
    <3>1. e \in C(u) \/ (u = w /\ e \in N) BY <2>2
    <3>2. e \in C(v) \/ (v = w /\ e \in N) BY <2>2
    <3> QED BY <3>1, <3>2, <2>1, <2>3
  <2>7. \A e \in 1 .. h : e \in X \/ \E v \in Workers : e \in D(v)
    <3> TAKE e \in 1 .. h
    <3>1. CASE e \in N BY <3>1, <2>2
    <3>2. CASE e \in 1 .. g BY <3>2, <2>1, <2>2
    <3> QED BY <3>1, <3>2, <2>3
  <2>8. ToSet(taken) \cap rejected = {} /\ ToSet(taken) \cap ignored = {} /\ rejected \cap ignored = {}
    BY DEF Placed
  <2> QED BY <2>4, <2>5, <2>6, <2>7, <2>8 DEF Placed, X, D, h
<1> QED BY <1>5, <1>6

\* The next ones are rejected.
LEMMA EntriesRejected ==
    ASSUME Handed, Placed, UNCHANGED <<inbox, taken, ignored, alive>>,
           Gone \in Nat, Gone' \in Nat, Gone <= Gone',
           \A e : e \in rejected' <=> e \in rejected \/ e \in Gone + 1 .. Gone'
    PROVE  Handed' /\ Placed'
<1>1. Handed' BY DEF Handed
<1> DEFINE g == Gone
           h == Gone'
           C(v) == Carried(inbox[v])
           A == ToSet(taken)
<1>2. /\ A \cup rejected \cup ignored \subseteq 1 .. g
      /\ \A v \in Workers : C(v) \subseteq 1 .. g /\ C(v) \cap (A \cup rejected \cup ignored) = {}
      /\ \A u, v \in Workers : u # v => C(u) \cap C(v) = {}
      /\ A \cap rejected = {} /\ A \cap ignored = {} /\ rejected \cap ignored = {}
      /\ \A e \in 1 .. g : e \in A \cup rejected \cup ignored \/ \E v \in Workers : e \in C(v)
  BY DEF Placed
<1>3. /\ \A e : e \in rejected' <=> e \in rejected \/ (e \in 1 .. h /\ e \notin 1 .. g)
      /\ \A e \in 1 .. g : e \in 1 .. h
  <2>1. \A e : e \in rejected' <=> e \in rejected \/ e \in g + 1 .. h OBVIOUS
  <2>2. g \in Nat /\ h \in Nat /\ g <= h OBVIOUS
  <2> HIDE DEF g, h
  <2>3. \A e : e \in g + 1 .. h <=> e \in 1 .. h /\ e \notin 1 .. g BY <2>2
  <2>4. \A e \in 1 .. g : e \in 1 .. h BY <2>2
  <2> QED BY <2>1, <2>3, <2>4
<1>4. A' = A /\ \A v \in Workers : C(v)' = C(v) OBVIOUS
<1> HIDE DEF C, A, g, h
<1>5. A \cup rejected' \cup ignored \subseteq 1 .. h BY <1>2, <1>3
<1>6. \A v \in Workers : C(v) \subseteq 1 .. h /\ C(v) \cap (A \cup rejected' \cup ignored) = {}
  <2> TAKE v \in Workers
  <2>1. C(v) \subseteq 1 .. g /\ C(v) \cap (A \cup rejected \cup ignored) = {} BY <1>2
  <2> QED BY <2>1, <1>3
<1>7. A \cap rejected' = {} /\ A \cap ignored = {} /\ rejected' \cap ignored = {} BY <1>2, <1>3
<1>8. \A e \in 1 .. h : e \in A \cup rejected' \cup ignored \/ \E v \in Workers : e \in C(v)
  <2> TAKE e \in 1 .. h
  <2>1. CASE e \in 1 .. g BY <2>1, <1>2, <1>3
  <2>2. CASE e \notin 1 .. g BY <2>2, <1>3
  <2> QED BY <2>1, <2>2
<1>9. Placed' BY <1>2, <1>5, <1>6, <1>7, <1>8 DEF Placed, C, A, h
<1> QED BY <1>1, <1>9

\* The oldest message of a running thread carries one: its transport takes it or not.
LEMMA EntryLeaves ==
    ASSUME ThreadInv, Handed, Placed, Messages, NEW w \in Workers, alive[w], inbox[w] # <<>>,
           inbox' = [inbox EXCEPT ![w] = Tail(inbox[w])], Head(inbox[w]).kind = "entry",
           UNCHANGED <<offered, waiting, rejected, alive>>,
           \/ taken' = Append(taken, Head(inbox[w]).n) /\ UNCHANGED ignored
           \/ ignored' = ignored \cup {Head(inbox[w]).n} /\ UNCHANGED taken
    PROVE  Handed' /\ Placed'
<1> DEFINE e == Head(inbox[w]).n
           C(v) == Carried(inbox[v])
           D(v) == Carried(inbox'[v])
           A == ToSet(taken)
           X == A \cup rejected \cup ignored
<1>1. /\ inbox[w] \in Seq(ToSet(inbox[w])) /\ DOMAIN inbox = Workers BY DEF Messages, ReadyOK
<1>2. inbox'[w] = Tail(inbox[w]) /\ \A v \in Workers \ {w} : inbox'[v] = inbox[v] BY <1>1
<1>3. /\ InOrder(inbox'[w]) /\ Written(inbox'[w]) /\ C(w) = {e} \cup D(w)
      /\ \A b \in D(w) : Before(e, b)
  BY <1>1, <1>2, TailCarried DEF Handed
<1>4. \A v \in Workers \ {w} : D(v) = C(v) BY <1>2
<1>5. /\ X \subseteq 1 .. Gone
      /\ \A v \in Workers : C(v) \subseteq 1 .. Gone /\ C(v) \cap X = {}
      /\ \A u, v \in Workers : u # v => C(u) \cap C(v) = {}
      /\ A \cap rejected = {} /\ A \cap ignored = {} /\ rejected \cap ignored = {}
      /\ \A x \in 1 .. Gone : x \in X \/ \E v \in Workers : x \in C(v)
      /\ Gone' = Gone
  BY DEF Placed, Gone
<1>6. e \notin D(w) BY <1>3 DEF Before
<1>7. taken \in Seq(Nat) /\ e \in 1 .. Gone
  <2>1. e \in C(w) BY <1>3
  <2> QED BY <2>1, <1>5 DEF Handed
<1>8. A' = IF taken' = taken THEN A ELSE A \cup {e}
  <2>1. CASE taken' = taken BY <2>1
  <2>2. CASE taken' # taken
    <3>1. taken' = Append(taken, e) BY <2>2
    <3> HIDE DEF e
    <3>2. e \in Nat BY <1>7
    <3>3. /\ Len(taken') = Len(taken) + 1 /\ (\A i \in 1 .. Len(taken) : taken'[i] = taken[i])
          /\ taken'[Len(taken) + 1] = e /\ taken' \in Seq(Nat)
      BY <3>1, <3>2, <1>7, AppendProperties
    <3>4. /\ DOMAIN taken = 1 .. Len(taken) /\ DOMAIN taken' = 1 .. Len(taken') /\ Len(taken) \in Nat
      BY <3>3, <1>7, LenProperties
    <3>5. \A i : i \in DOMAIN taken' <=> i \in DOMAIN taken \/ i = Len(taken) + 1 BY <3>3, <3>4
    <3>6. ToSet(taken') = ToSet(taken) \cup {e}
      <4>1. \A x : x \in ToSet(taken') <=> x \in ToSet(taken) \/ x = e BY <3>3, <3>4, <3>5 DEF ToSet
      <4> QED BY <4>1
    <3> QED BY <3>6, <2>2
  <2> QED BY <2>1, <2>2
<1>9. X' = X \cup {e}
  <2>1. CASE UNCHANGED ignored /\ taken' # taken BY <2>1, <1>8
  <2>2. CASE UNCHANGED taken
    <3>1. e \in ignored'
      <4>1. CASE ignored' = ignored \cup {Head(inbox[w]).n} BY <4>1
      <4>2. CASE taken' = Append(taken, Head(inbox[w]).n) /\ UNCHANGED ignored
        <5>1. Len(taken') = Len(taken) + 1 /\ Len(taken) \in Nat
          <6> HIDE DEF e
          <6>1. taken' = Append(taken, e) /\ e \in Nat BY <4>2, <1>7 DEF e
          <6> QED BY <6>1, <1>7, AppendProperties, LenProperties
        <5> QED BY <5>1, <2>2
      <4> QED BY <4>1, <4>2
    <3>2. ignored' \subseteq ignored \cup {e} OBVIOUS
    <3> QED BY <2>2, <3>1, <3>2, <1>8
  <2>3. UNCHANGED ignored \/ UNCHANGED taken OBVIOUS
  <2> QED BY <2>1, <2>2, <2>3
<1>10. ASSUME NEW a \in A PROVE Before(a, e)
  <2>1. e \in C(w) BY <1>3
  <2> QED BY <2>1 DEF Handed
<1>11. Handed'
  <2>1. taken' \in Seq(Nat) /\ \A i, j \in 1 .. Len(taken') : i < j => Before(taken'[i], taken'[j])
    <3>1. CASE taken' = taken BY <3>1 DEF Handed
    <3>2. CASE taken' # taken
      <4>1. taken' = Append(taken, e) BY <3>2
      <4> HIDE DEF e, A
      <4>2. e \in Nat BY <1>7
      <4>3. /\ Len(taken') = Len(taken) + 1 /\ (\A i \in 1 .. Len(taken) : taken'[i] = taken[i])
            /\ taken'[Len(taken) + 1] = e /\ taken' \in Seq(Nat)
            /\ Len(taken) \in Nat /\ DOMAIN taken = 1 .. Len(taken)
        BY <4>1, <4>2, <1>7, AppendProperties, LenProperties
      <4>4. ASSUME NEW i \in 1 .. Len(taken'), NEW j \in 1 .. Len(taken'), i < j
            PROVE  Before(taken'[i], taken'[j])
        <5>1. i \in 1 .. Len(taken) BY <4>3, <4>4
        <5>2. CASE j \in 1 .. Len(taken) BY <5>1, <5>2, <4>3, <4>4 DEF Handed
        <5>3. CASE j = Len(taken) + 1
          <6>1. taken[i] \in A BY <5>1, <4>3 DEF A, ToSet
          <6> QED BY <6>1, <5>1, <5>3, <4>3, <1>10
        <5> QED BY <5>2, <5>3, <4>3
      <4> QED BY <4>3, <4>4
    <3> QED BY <3>1, <3>2
  <2>2. ASSUME NEW v \in Workers
        PROVE  /\ InOrder(inbox'[v]) /\ Written(inbox'[v])
               /\ alive[v] => \A a \in A', b \in D(v) : Before(a, b)
    <3>1. CASE v = w
      <4>1. \A a \in A, b \in D(w) : Before(a, b) BY <1>3 DEF Handed
      <4>2. \A a \in A' : a \in A \/ a = e BY <1>8
      <4> HIDE DEF A, D, e
      <4> QED BY <3>1, <4>1, <4>2, <1>3
    <3>2. CASE v # w
      <4>1. ~alive[v] BY <3>2 DEF ThreadInv, Alive
      <4> QED BY <4>1, <3>2, <1>2 DEF Handed
    <3> QED BY <3>1, <3>2
  <2> QED BY <2>1, <2>2 DEF Handed
<1>12. Placed'
  <2>1. e \notin X /\ e \in C(w)
    <3>1. e \in C(w) BY <1>3
    <3> HIDE DEF e, C, X
    <3> QED BY <3>1, <1>5
  <2>2. A' \cap rejected = {} /\ A' \cap ignored' = {} /\ rejected \cap ignored' = {}
    <3>1. e \notin A /\ e \notin rejected /\ e \notin ignored BY <2>1
    <3>2. ignored' = ignored \/ A' = A
      <4>1. ignored' = ignored \/ taken' = taken OBVIOUS
      <4> QED BY <4>1, <1>8
    <3>3. A' \subseteq A \cup {e} /\ ignored' \subseteq ignored \cup {e} BY <1>8
    <3> HIDE DEF A, e
    <3> QED BY <3>1, <3>2, <3>3, <1>5
  <2> DEFINE Y == X'
  <2>3. Y = X \cup {e} BY <1>9
  <2>4. /\ C(w) = {e} \cup D(w) /\ (\A v \in Workers \ {w} : D(v) = C(v)) /\ e \notin D(w)
    BY <1>3, <1>4, <1>6
  <2>5. Y = A' \cup rejected \cup ignored' OBVIOUS
  <2> HIDE DEF C, D, X, Y, e, A
  <2>6. Y \subseteq 1 .. Gone BY <2>3, <1>5, <1>7
  <2>7. \A v \in Workers : D(v) \subseteq 1 .. Gone /\ D(v) \cap Y = {}
    <3> TAKE v \in Workers
    <3>1. CASE v = w BY <3>1, <2>3, <2>4, <1>5
    <3>2. CASE v # w
      <4>1. e \notin C(v) BY <3>2, <2>1, <1>5
      <4> QED BY <4>1, <3>2, <2>3, <2>4, <1>5
    <3> QED BY <3>1, <3>2
  <2>8. \A u, v \in Workers : u # v => D(u) \cap D(v) = {}
    <3>1. \A v \in Workers : D(v) \subseteq C(v) BY <2>4
    <3> QED BY <3>1, <1>5
  <2>9. \A x \in 1 .. Gone : x \in Y \/ \E v \in Workers : x \in D(v)
    <3> TAKE x \in 1 .. Gone
    <3>1. CASE x \in X BY <3>1, <2>3
    <3>2. ASSUME NEW v \in Workers, x \in C(v) PROVE x \in Y \/ \E u \in Workers : x \in D(u)
      <4>1. CASE v = w BY <4>1, <3>2, <2>3, <2>4
      <4>2. CASE v # w BY <4>2, <3>2, <2>4
      <4> QED BY <4>1, <4>2
    <3> QED BY <3>1, <3>2, <1>5
  <2> QED BY <2>2, <2>5, <2>6, <2>7, <2>8, <2>9, <1>5 DEF Placed, A, D
<1> QED BY <1>11, <1>12

-----------------------------------------------------------------------------
(* What becomes of the entries, step by step.                              *)

\* At first there is nothing to wait, to carry or to hand over.
LEMMA InitEntries ==
    ASSUME Init, ThreadAssumption
    PROVE  WaitersLast /\ SpawnState /\ Messages /\ Handed /\ Placed
<1>1. <<>> \in Seq(Nat) /\ Len(<<>>) = 0 /\ ToSet(<<>>) = {} BY DEF ToSet
<1>2. <<>> \in Seq(ToSet(<<>>)) BY <1>1, OwnElements
<1>3. \A i \in 1 .. Len(<<>>) : FALSE BY <1>1
<1>4. Carried(<<>>) = {} /\ Written(<<>>) /\ InOrder(<<>>) BY <1>3, NoneCarried
<1>5. Gone = 0
  <2>1. offered = 0 /\ waiting = <<>> BY DEF Init
  <2>2. Gone = 0 - 0 BY <2>1, <1>1 DEF Gone
  <2> QED BY <2>2
<1>6. WaitersLast BY <1>1, <1>2, <1>3 DEF Init, WaitersLast
<1>7. SpawnState BY DEF Init, SpawnState
<1>8. Messages
  <2>1. ASSUME NEW w \in Workers
        PROVE  /\ ReadyOK(w, <<>>, <<>>, {}, FALSE, 0, 0)
               /\ CallOK(w, <<>>, <<>>, {}, "none", 0, 0, 0)
    BY <1>2, <1>3 DEF ReadyOK, CallOK
  <2>2. /\ DOMAIN inbox = Workers /\ DOMAIN jobs = Workers /\ DOMAIN transport = Workers
        /\ seq = 0 /\ closing = 0 /\ spawned = 0 /\ worker = 0
        /\ \A w \in Workers : /\ inbox[w] = <<>> /\ outbox[w] = <<>> /\ jobs[w] = {}
                              /\ alive[w] = FALSE /\ transport[w] = "none"
    BY DEF Init
  <2>3. seq \in Nat /\ closing \in 0 .. seq BY <2>2
  <2> QED BY <2>1, <2>2, <2>3 DEF Messages
<1>9. Handed BY <1>1, <1>3, <1>4 DEF Init, Handed
<1>10. Placed
  <2>1. \A e \in 1 .. 0 : FALSE OBVIOUS
  <2> QED BY <2>1, <1>1, <1>4, <1>5 DEF Init, Placed
<1> QED BY <1>6, <1>7, <1>8, <1>9, <1>10

\* How many entries do not wait.
LEMMA GoneNumber ==
    ASSUME WaitersLast
    PROVE  Gone \in Nat /\ Gone <= offered /\ (waiting = <<>> => Gone = offered)
<1>1. /\ waiting \in Seq(ToSet(waiting)) /\ Len(waiting) \in Nat /\ offered \in Nat
      /\ Len(waiting) <= offered BY LenProperties DEF WaitersLast
<1>2. waiting = <<>> => Len(waiting) = 0 OBVIOUS
<1> QED BY <1>1, <1>2 DEF Gone

\* Messages that carry none.
LEMMA QuietPost ==
    ASSUME Handed, Messages, NEW u \in Workers, NEW S, NEW ms \in Seq(S), Post(u, ms),
           \A k \in 1 .. Len(ms) : ms[k].kind # "entry"
    PROVE  \A w \in Workers : /\ Carried(inbox'[w]) = Carried(inbox[w])
                              /\ InOrder(inbox'[w]) /\ Written(inbox'[w])
<1>1. /\ inbox[u] \in Seq(ToSet(inbox[u])) /\ inbox' = [inbox EXCEPT ![u] = inbox[u] \o ms]
      /\ DOMAIN inbox = Workers
  BY DEF Messages, ReadyOK, Post
<1>2. inbox'[u] = inbox[u] \o ms /\ \A v \in Workers \ {u} : inbox'[v] = inbox[v] BY <1>1
<1>3. Carried(ms) = {} /\ Written(ms) /\ InOrder(ms) BY NoneCarried
<1>4. InOrder(inbox[u]) /\ Written(inbox[u]) BY DEF Handed
<1>5. /\ Carried(inbox[u] \o ms) = Carried(inbox[u])
      /\ InOrder(inbox[u] \o ms) /\ Written(inbox[u] \o ms)
  <2>1. \A a \in Carried(inbox[u]), b \in Carried(ms) : Before(a, b) BY <1>3
  <2>2. /\ Carried(inbox[u] \o ms) = Carried(inbox[u]) \cup Carried(ms)
        /\ InOrder(inbox[u] \o ms) /\ Written(inbox[u] \o ms)
    BY <2>1, <1>1, <1>3, <1>4, AppendCarried
  <2> QED BY <2>2, <1>3
<1> TAKE w \in Workers
<1>6. CASE w = u BY <1>6, <1>2, <1>5
<1>7. CASE w # u BY <1>7, <1>2 DEF Handed
<1> QED BY <1>6, <1>7

\* A new thread.
LEMMA SpawnEntries ==
    ASSUME ThreadInv, ThreadAssumption, Messages, Handed, Placed, SpawnWorker,
           spawned + 1 \in Workers, Gone' = Gone, UNCHANGED <<rejected, taken, ignored>>
    PROVE  Handed' /\ Placed'
<1> DEFINE u == spawned + 1
           ms == <<ToWorker("init", 0)>>
<1>1. Post(u, ms) /\ alive' = [alive EXCEPT ![u] = TRUE] /\ u \in Workers /\ spawned \in Nat
  BY ThreadNumbers DEF SpawnWorker
<1>2. /\ ms \in Seq({ToWorker("init", 0)}) /\ Len(ms) = 1 /\ ms[1].kind = "init" BY DEF ToWorker
<1> HIDE DEF ms
<1>3. \A k \in 1 .. Len(ms) : ms[k].kind # "entry" BY <1>2
<1>4. Carried(inbox[u]) = {}
  <2>1. u > spawned BY <1>1
  <2>2. inbox[u] = <<>> BY <1>1, <2>1 DEF Messages, ReadyOK
  <2> QED BY <2>2, NoneCarried
<1>5. \A w \in Workers : alive'[w] => alive[w] \/ Carried(inbox[w]) = {}
  <2> TAKE w \in Workers
  <2>1. CASE w = u BY <2>1, <1>4
  <2>2. CASE w # u
    <3>1. alive'[w] = alive[w] BY <2>2, <1>1 DEF ThreadInv, Numbers
    <3> QED BY <3>1
  <2> QED BY <2>1, <2>2
<1> HIDE DEF u
<1>6. \A w \in Workers : /\ Carried(inbox'[w]) = Carried(inbox[w])
                         /\ InOrder(inbox'[w]) /\ Written(inbox'[w])
  BY <1>1, <1>2, <1>3, QuietPost
<1> QED BY <1>5, <1>6, EntriesStay

\* write(): an entry that does not wait is posted behind all others.
LEMMA WriteEntries ==
    ASSUME ThreadInv, ThreadAssumption, WaitersLast, SpawnState, Messages, Handed, Placed, Write
    PROVE  Handed' /\ Placed'
<1>1. /\ offered' = offered + 1 /\ offered \in Nat
      /\ UNCHANGED <<rejected, taken, ignored>>
  BY WriteCases DEF WaitersLast
<1>2. WaitersLast' BY WriteMain
<1>3. Gone \in Nat /\ (waiting = <<>> => Gone = offered) BY GoneNumber
<1>4. ASSUME NEW x, waiting' = Append(waiting, x) PROVE Gone' = Gone
  <2>1. waiting \in Seq(ToSet(waiting) \cup {x}) /\ Len(waiting) \in Nat
    <3>1. waiting \in Seq(ToSet(waiting)) BY DEF WaitersLast
    <3> QED BY <3>1, SeqMonotonic, LenProperties
  <2>2. Len(Append(waiting, x)) = Len(waiting) + 1 BY <2>1, AppendProperties
  <2> QED BY <2>1, <2>2, <1>1, <1>4 DEF Gone
<1>5. CASE /\ worker # 0 /\ waiting = <<>> /\ waiting' = waiting
           /\ Post(worker, <<ToWorker("entry", offered + 1)>>) /\ UNCHANGED alive
  <2> DEFINE e == offered + 1
             m == ToWorker("entry", e)
             ms == <<m>>
  <2>1. worker \in Workers BY <1>5, ThreadNumbers
  <2>2. ms \in Seq({m}) /\ Len(ms) = 1 /\ ms[1] = m /\ m.kind = "entry" /\ m.n = e /\ m = ToWorker("entry", m.n)
    BY DEF ToWorker
  <2>3. Post(worker, ms) BY <1>5
  <2>4. Gone' = e /\ Gone = offered BY <1>1, <1>3, <1>5 DEF Gone
  <2> HIDE DEF m, ms
  <2>5. Carried(ms) = {e}
    <3>1. \A x : x \in Carried(ms) <=> x = e BY <2>2 DEF Carried
    <3> QED BY <3>1
  <2>6. InOrder(ms) /\ Written(ms)
    <3>1. \A i \in 1 .. Len(ms) : i = 1 /\ ms[i] = ToWorker("entry", ms[i].n) BY <2>2
    <3>2. Written(ms) BY <3>1 DEF Written
    <3>3. \A i, j \in 1 .. Len(ms) : ~(i < j) BY <2>2
    <3> QED BY <3>2, <3>3 DEF InOrder
  <2>7. \A x : x \in Carried(ms) <=> x \in Gone + 1 .. Gone'
    <3> HIDE DEF e
    <3>1. \A x : x \in e .. e <=> x = e BY <1>1 DEF e
    <3>2. Gone + 1 = e BY <2>4 DEF e
    <3> QED BY <2>4, <2>5, <3>1, <3>2
  <2>8. Gone \in Nat /\ Gone' \in Nat /\ Gone <= Gone' BY <2>4, <1>1
  <2> QED BY <2>1, <2>2, <2>3, <2>6, <2>7, <2>8, <1>1, <1>5, EntriesPosted
<1>6. CASE UNCHANGED <<alive, inbox>> /\ \E x : waiting' = Append(waiting, x)
  <2>1. Gone' = Gone BY <1>4, <1>6
  <2>2. \A w \in Workers : /\ Carried(inbox'[w]) = Carried(inbox[w])
                           /\ InOrder(inbox'[w]) /\ Written(inbox'[w])
                           /\ alive'[w] => alive[w] \/ Carried(inbox[w]) = {}
    BY <1>6 DEF Handed
  <2> QED BY <2>1, <2>2, <1>1, EntriesStay
<1>7. CASE SpawnWorker /\ spawned + 1 \in Workers /\ \E x : waiting' = Append(waiting, x)
  <2>1. Gone' = Gone BY <1>4, <1>7
  <2> QED BY <2>1, <1>1, <1>7, SpawnEntries
<1> QED BY <1>5, <1>6, <1>7, WriteCases

\* The restart timer: the writes at the gate wait on.
LEMMA RestartEntries ==
    ASSUME ThreadInv, ThreadAssumption, WaitersLast, SpawnState, Messages, Handed, Placed, RestartTimer
    PROVE  Handed' /\ Placed'
<1>1. EnsureWorker /\ restarting /\ UNCHANGED <<offered, rejected, taken, ignored>>
  BY DEF RestartTimer
<1>2. worker = 0 /\ ~closed BY <1>1 DEF ThreadInv, Gate
<1>3. Gone' = Gone
  <2>1. /\ waiting \in Seq(ToSet(waiting)) /\ waiting' \in Seq(ToSet(waiting'))
    BY RestartMain DEF WaitersLast
  <2>2. DOMAIN waiting' = DOMAIN waiting BY DEF RestartTimer
  <2>3. Len(waiting') = Len(waiting)
    <3>1. /\ Len(waiting) \in Nat /\ DOMAIN waiting = 1 .. Len(waiting)
          /\ Len(waiting') \in Nat /\ DOMAIN waiting' = 1 .. Len(waiting')
      BY <2>1, LenProperties
    <3>2. 1 .. Len(waiting) = 1 .. Len(waiting') BY <3>1, <2>2
    <3> DEFINE a == Len(waiting)
               b == Len(waiting')
    <3>3. a \in Nat /\ b \in Nat /\ 1 .. a = 1 .. b BY <3>1, <3>2
    <3> HIDE DEF a, b
    <3>4. a = b
      <4>1. CASE a < b
        <5>1. b \in 1 .. b /\ b \notin 1 .. a BY <3>3, <4>1
        <5> QED BY <5>1, <3>3
      <4>2. CASE b < a
        <5>1. a \in 1 .. a /\ a \notin 1 .. b BY <3>3, <4>2
        <5> QED BY <5>1, <3>3
      <4> QED BY <4>1, <4>2, <3>3
    <3> QED BY <3>4 DEF a, b
  <2> QED BY <2>3, <1>1 DEF Gone
<1>4. CASE UNCHANGED <<alive, inbox>>
  <2>1. \A w \in Workers : /\ Carried(inbox'[w]) = Carried(inbox[w])
                           /\ InOrder(inbox'[w]) /\ Written(inbox'[w])
                           /\ alive'[w] => alive[w] \/ Carried(inbox[w]) = {}
    BY <1>4 DEF Handed
  <2> QED BY <2>1, <1>1, <1>3, EntriesStay
<1>5. CASE SpawnWorker
  <2>1. spawned # MaxSpawns BY <1>2, ThreadNumbers DEF ThreadInv, Alive
  <2>2. spawned + 1 \in Workers BY <2>1, ThreadNumbers
  <2> QED BY <2>2, <1>1, <1>3, <1>5, SpawnEntries
<1> QED BY <1>1, <1>4, <1>5 DEF EnsureWorker

\* flush() and close() post no entry.
LEMMA CallEntries ==
    ASSUME ThreadInv, ThreadAssumption, Messages, Handed, Placed, Flush \/ Close
    PROVE  Handed' /\ Placed'
<1>1. PICK kind \in {"flush", "close"} :
        /\ worker # 0 /\ Post(worker, <<ToWorker(kind, seq + 1)>>)
        /\ UNCHANGED <<offered, waiting, rejected, taken, ignored, alive>>
  BY DEF Flush, Close, SendAndWait, thread
<1>2. worker \in Workers /\ Gone' = Gone BY <1>1, ThreadNumbers DEF Gone
<1> DEFINE ms == <<ToWorker(kind, seq + 1)>>
<1>3. ms \in Seq({ToWorker(kind, seq + 1)}) /\ Len(ms) = 1 /\ ms[1].kind = kind BY DEF ToWorker
<1>4. Post(worker, ms) BY <1>1
<1> HIDE DEF ms
<1>5. \A k \in 1 .. Len(ms) : ms[k].kind # "entry" BY <1>3
<1>6. \A w \in Workers : /\ Carried(inbox'[w]) = Carried(inbox[w])
                         /\ InOrder(inbox'[w]) /\ Written(inbox'[w])
                         /\ alive'[w] => alive[w] \/ Carried(inbox[w]) = {}
  BY <1>1, <1>2, <1>3, <1>4, <1>5, QuietPost
<1> QED BY <1>1, <1>2, <1>6, EntriesStay

\* "ready": the entries of all writes that wait are posted, in order.
LEMMA ReadyEntries ==
    ASSUME ThreadInv, ThreadAssumption, WaitersLast, SpawnState, Messages, Handed, Placed,
           NEW w \in Workers, ReceiveReady(w)
    PROVE  Handed' /\ Placed'
<1> DEFINE ms == EntryMessages(WaitersOf(w, "ready") \o WaitersOf(w, "spawn"))
<1>1. worker = w /\ ~restarting /\ w # 0 /\ waiting' = <<>> /\ WaitersLast'
  BY ReadyMain, ThreadNumbers
<1>2. /\ Post(w, ms) /\ UNCHANGED <<rejected, alive, offered, taken, ignored>>
  BY <1>1 DEF ReceiveReady, Receive
<1>3. /\ \E S : ms \in Seq(S)
      /\ \A k \in 1 .. Len(ms) : /\ ms[k].kind = "entry" /\ ms[k].n \in Gone + 1 .. offered
                                 /\ ms[k] = ToWorker("entry", ms[k].n)
      /\ \A e \in Gone + 1 .. offered : \E k \in 1 .. Len(ms) : ms[k].n = e
      /\ \A i, j \in 1 .. Len(ms) : i < j => Before(ms[i].n, ms[j].n)
  BY <1>1, ReadyBatch
<1> HIDE DEF ms
<1>4. Gone \in Nat /\ Gone <= offered /\ Gone' = offered /\ offered \in Nat
  <2>1. Len(<<>>) = 0 OBVIOUS
  <2>2. offered \in Nat BY DEF WaitersLast
  <2> QED BY <2>1, <2>2, <1>1, <1>2, GoneNumber DEF Gone
<1>5. InOrder(ms) /\ Written(ms) BY <1>3 DEF InOrder, Written
<1>6. \A e : e \in Carried(ms) <=> e \in Gone + 1 .. Gone'
  <2>1. \A e : e \in Carried(ms) <=> \E k \in 1 .. Len(ms) : ms[k].n = e BY <1>3 DEF Carried
  <2>2. \A e : (\E k \in 1 .. Len(ms) : ms[k].n = e) <=> e \in Gone + 1 .. offered BY <1>3
  <2> QED BY <2>1, <2>2, <1>4
<1>7. PICK S : ms \in Seq(S) BY <1>3
<1>8. Gone' \in Nat /\ Gone <= Gone' BY <1>4
<1> QED BY <1>2, <1>4, <1>5, <1>6, <1>7, <1>8, EntriesPosted

\* The error event: the writes that wait for the thread reject; those of a thread
\* that was replaced are gone already.
LEMMA ErrorEntries ==
    ASSUME ThreadInv, ThreadAssumption, WaitersLast, SpawnState, Messages, Handed, Placed,
           NEW w \in Workers, ReceiveError(w)
    PROVE  Handed' /\ Placed'
<1> DEFINE Lost == {x.entry : x \in {y \in ToSet(waiting) : y.w = w}}
           n == Len(waiting)
<1>1. /\ Receive(w, "error") /\ OnWorkerCrash
      /\ rejected' = rejected \cup Lost
      /\ UNCHANGED <<offered, inbox, taken, ignored, alive>>
  BY DEF ReceiveError, Receive
<1>2. WaitersLast' /\ IF w = spawned THEN waiting' = <<>> ELSE waiting' = waiting BY ErrorMain
<1>3. ~restarting
  <2>1. Has(outbox[w], "error") BY <1>1, ReceiveQueues
  <2>2. w # 0 BY DEF ThreadAssumption, Workers
  <2> QED BY <2>1, <2>2 DEF ThreadInv, Events, Gate
<1>4. /\ waiting \in Seq(ToSet(waiting)) /\ n \in Nat /\ DOMAIN waiting = 1 .. n
      /\ offered \in Nat /\ n <= offered
      /\ \A i \in 1 .. n : waiting[i].entry = (offered - n) + i
      /\ Gone = offered - n
  BY LenProperties DEF WaitersLast, Gone
<1>5. \A i \in 1 .. n : waiting[i].w = spawned
  <2> TAKE i \in 1 .. n
  <2>1. WaiterOK(waiting[i], restarting, worker, spawned, settled) BY DEF WaitersLast
  <2> QED BY <2>1, <1>3 DEF WaiterOK
<1>6. \A e : e \in Lost <=> w = spawned /\ \E i \in 1 .. n : e = waiting[i].entry
  BY <1>4, <1>5 DEF ToSet
<1>7. Gone \in Nat /\ Gone' \in Nat /\ Gone <= Gone' /\ Gone' = IF w = spawned THEN offered ELSE Gone
  <2>1. Len(<<>>) = 0 OBVIOUS
  <2>2. CASE w = spawned
    <3>1. Gone' = offered - 0 BY <2>1, <2>2, <1>1, <1>2 DEF Gone
    <3> QED BY <3>1, <2>2, <1>4
  <2>3. CASE w # spawned
    <3>1. Gone' = Gone BY <2>3, <1>1, <1>2 DEF Gone
    <3> QED BY <3>1, <2>3, <1>4
  <2> QED BY <2>2, <2>3
<1> HIDE DEF Lost, n
<1>8. \A e : e \in Lost <=> e \in Gone + 1 .. Gone'
  <2>1. CASE w = spawned
    <3>1. \A e : (\E i \in 1 .. n : e = waiting[i].entry) <=> e \in Gone + 1 .. offered
      <4>1. \A i \in 1 .. n : waiting[i].entry \in Gone + 1 .. offered BY <1>4
      <4>2. ASSUME NEW e \in Gone + 1 .. offered PROVE \E i \in 1 .. n : e = waiting[i].entry
        <5>1. e - (offered - n) \in 1 .. n /\ e = (offered - n) + (e - (offered - n)) BY <1>4
        <5> QED BY <5>1, <1>4
      <4> QED BY <4>1, <4>2
    <3>2. Gone' = offered BY <2>1, <1>7
    <3> QED BY <2>1, <3>1, <3>2, <1>6
  <2>2. CASE w # spawned
    <3>1. \A e : e \notin Gone + 1 .. Gone'
      <4>1. Gone' = Gone /\ Gone \in Nat BY <2>2, <1>7
      <4>2. \A e : e \notin Gone + 1 .. Gone BY <4>1
      <4> QED BY <4>1, <4>2
    <3> QED BY <2>2, <3>1, <1>6
  <2> QED BY <2>1, <2>2
<1> QED BY <1>1, <1>7, <1>8, EntriesRejected

\* Answers and exit events leave the entries where they are; close() may end the thread.
LEMMA AnswerEntries ==
    ASSUME ThreadInv, ThreadAssumption, Messages, Handed, Placed,
           NEW w \in Workers, ReceiveAck(w) \/ ReceiveExit(w)
    PROVE  Handed' /\ Placed'
<1>1. UNCHANGED <<offered, waiting, rejected, taken, ignored, inbox>>
  BY DEF ReceiveAck, ReceiveExit, Receive
<1>2. \A v \in Workers : alive'[v] => alive[v]
  <2>1. alive' = alive \/ alive' = [alive EXCEPT ![worker] = FALSE] BY DEF ReceiveAck, ReceiveExit
  <2>2. alive \in [Workers -> BOOLEAN] BY DEF ThreadInv, Numbers
  <2> QED BY <2>1, <2>2
<1>3. Gone' = Gone BY <1>1 DEF Gone
<1>4. \A v \in Workers : /\ Carried(inbox'[v]) = Carried(inbox[v])
                         /\ InOrder(inbox'[v]) /\ Written(inbox'[v])
                         /\ alive'[v] => alive[v] \/ Carried(inbox[v]) = {}
  BY <1>1, <1>2 DEF Handed
<1> QED BY <1>1, <1>3, <1>4, EntriesStay

\* A running thread takes a message, or ends what it has begun.
LEMMA RunEntries ==
    ASSUME ThreadInv, ThreadAssumption, Messages, Handed, Placed, NEW w \in Workers, Run(w)
    PROVE  Handed' /\ Placed'
<1>1. alive[w] /\ UNCHANGED <<offered, waiting, rejected, alive>>
  BY DEF Run, Handle, FinishFlush, FinishClose, mainThread
<1>2. Gone' = Gone BY <1>1 DEF Gone
<1>3. DOMAIN inbox = Workers /\ inbox[w] \in Seq(ToSet(inbox[w])) BY DEF Messages, ReadyOK
<1>4. ASSUME NEW job, FinishFlush(w, job) \/ FinishClose(w, job) PROVE Handed' /\ Placed'
  <2>1. UNCHANGED <<inbox, taken, ignored>> BY <1>4 DEF FinishFlush, FinishClose
  <2>2. \A v \in Workers : /\ Carried(inbox'[v]) = Carried(inbox[v])
                           /\ InOrder(inbox'[v]) /\ Written(inbox'[v])
                           /\ alive'[v] => alive[v] \/ Carried(inbox[v]) = {}
    BY <2>1, <1>1 DEF Handed
  <2> QED BY <2>1, <2>2, <1>1, <1>2, EntriesStay
<1>5. CASE Handle(w)
  <2>1. inbox[w] # <<>> /\ inbox' = [inbox EXCEPT ![w] = Tail(inbox[w])] BY <1>5 DEF Handle
  <2>2. CASE Head(inbox[w]).kind = "entry"
    <3>1. \/ taken' = Append(taken, Head(inbox[w]).n) /\ UNCHANGED ignored
          \/ ignored' = ignored \cup {Head(inbox[w]).n} /\ UNCHANGED taken
      BY <2>2, <1>5 DEF Handle
    <3> QED BY <2>1, <2>2, <3>1, <1>1, EntryLeaves
  <2>3. CASE Head(inbox[w]).kind # "entry"
    <3>1. UNCHANGED <<taken, ignored>> BY <2>3, <1>5 DEF Handle
    <3>2. inbox'[w] = Tail(inbox[w]) /\ \A v \in Workers \ {w} : inbox'[v] = inbox[v] BY <2>1, <1>3
    <3>3. /\ Carried(Tail(inbox[w])) = Carried(inbox[w])
          /\ InOrder(Tail(inbox[w])) /\ Written(Tail(inbox[w]))
      BY <2>1, <2>3, <1>3, TailCarried DEF Handed
    <3>4. \A v \in Workers : /\ Carried(inbox'[v]) = Carried(inbox[v])
                             /\ InOrder(inbox'[v]) /\ Written(inbox'[v])
                             /\ alive'[v] => alive[v] \/ Carried(inbox[v]) = {}
      <4> TAKE v \in Workers
      <4>1. CASE v = w BY <4>1, <3>2, <3>3, <1>1
      <4>2. CASE v # w BY <4>2, <3>2, <1>1 DEF Handed
      <4> QED BY <4>1, <4>2
    <3> QED BY <3>1, <3>4, <1>1, <1>2, EntriesStay
  <2> QED BY <2>2, <2>3
<1> QED BY <1>4, <1>5 DEF Run

\* A thread that ends leaves its queue as it is: what is on the way stays there.
LEMMA EndEntries ==
    ASSUME ThreadInv, ThreadAssumption, Handed, Placed, NEW w \in Workers, Crash(w) \/ Exit(w)
    PROVE  Handed' /\ Placed'
<1>1. /\ UNCHANGED <<offered, waiting, rejected, taken, ignored, inbox>>
      /\ alive' = [alive EXCEPT ![w] = FALSE]
  BY DEF Crash, Exit, Dies, mainThread
<1>2. \A v \in Workers : alive'[v] => alive[v]
  <2>1. alive \in [Workers -> BOOLEAN] BY DEF ThreadInv, Numbers
  <2> QED BY <2>1, <1>1
<1>3. Gone' = Gone BY <1>1 DEF Gone
<1>4. \A v \in Workers : /\ Carried(inbox'[v]) = Carried(inbox[v])
                         /\ InOrder(inbox'[v]) /\ Written(inbox'[v])
                         /\ alive'[v] => alive[v] \/ Carried(inbox[v]) = {}
  BY <1>1, <1>2 DEF Handed
<1> QED BY <1>1, <1>3, <1>4, EntriesStay

\* What holds of the entries in every state.
EntriesInv == ThreadInv /\ WaitersLast /\ SpawnState /\ Messages /\ Handed /\ Placed

\* Every step keeps it.
LEMMA NextEntries == EntriesInv /\ ThreadAssumption /\ [Next]_vars => EntriesInv'
<1> SUFFICES ASSUME EntriesInv, ThreadAssumption, [Next]_vars PROVE EntriesInv' OBVIOUS
<1>1. ThreadInv /\ WaitersLast /\ SpawnState /\ Messages /\ Handed /\ Placed BY DEF EntriesInv
<1>2. ThreadInv' BY <1>1, NextInv
<1>3. WaitersLast' /\ SpawnState'
  <2>1. ASSUME NEW w \in Workers, Deliver(w) PROVE WaitersLast' /\ SpawnState'
    BY <2>1, <1>1, ReadyMain, AckMain, ErrorMain, ExitMain DEF Deliver
  <2> QED BY <2>1, <1>1, WriteMain, RestartMain, OthersMain DEF Next
<1>4. Messages'
  <2>1. ASSUME NEW w \in Workers, Deliver(w) PROVE Messages'
    BY <2>1, <1>1, ReadyMessages, ReceiveMessages DEF Deliver
  <2>2. ASSUME UNCHANGED vars PROVE Messages'
    <3>1. UNCHANGED <<inbox, outbox, jobs, transport, alive, worker, spawned, seq, closing>>
      BY <2>2 DEF vars, calls, thread
    <3> QED BY <3>1, <1>1 DEF Messages
  <2> QED BY <2>1, <2>2, <1>1, WriteMessages, RestartMessages, CallMessages, RunMessages,
             EndMessages DEF Next
<1>5. Handed' /\ Placed'
  <2>1. ASSUME NEW w \in Workers, Deliver(w) PROVE Handed' /\ Placed'
    BY <2>1, <1>1, ReadyEntries, AnswerEntries, ErrorEntries DEF Deliver
  <2>2. ASSUME UNCHANGED vars PROVE Handed' /\ Placed'
    <3>1. UNCHANGED <<offered, waiting, rejected, taken, ignored, inbox, alive>>
      BY <2>2 DEF vars, thread
    <3> QED BY <3>1, <1>1 DEF Handed, Placed, Gone
  <2> QED BY <2>1, <2>2, <1>1, WriteEntries, RestartEntries, CallEntries, RunEntries,
             EndEntries DEF Next
<1> QED BY <1>2, <1>3, <1>4, <1>5 DEF EntriesInv

\* So it holds in every state that can be reached.
LEMMA EntriesHold == Spec => []EntriesInv
<1>1. Init => EntriesInv BY InitInv, InitEntries, ThreadAssumption DEF EntriesInv
<1>2. EntriesInv /\ [Next]_vars => EntriesInv' BY NextEntries, ThreadAssumption
<1> QED BY <1>1, <1>2, PTL DEF Spec

-----------------------------------------------------------------------------
(* Counting the places of an entry.                                        *)

\* A set whose elements are all one has one; one without elements none.
LEMMA OneOrNone ==
    ASSUME NEW S
    PROVE  /\ \A x : S = {x} => Cardinality(S) = 1
           /\ (\A x : x \notin S) => Cardinality(S) = 0
<1>1. ASSUME \A x : x \notin S PROVE Cardinality(S) = 0
  <2>1. S = {} BY <1>1
  <2> QED BY <2>1, FS_EmptySet
<1> QED BY <1>1, FS_Singleton

\* The writes that wait for their turn with an entry.
LEMMA WaitPlaces ==
    ASSUME WaitersLast, NEW e \in 1 .. offered
    PROVE  Cardinality({i \in DOMAIN waiting : waiting[i].entry = e}) = IF e \in 1 .. Gone THEN 0 ELSE 1
<1> DEFINE n == Len(waiting)
           S == {i \in DOMAIN waiting : waiting[i].entry = e}
<1>1. /\ n \in Nat /\ DOMAIN waiting = 1 .. n /\ offered \in Nat /\ n <= offered /\ Gone = offered - n
      /\ \A i \in 1 .. n : waiting[i].entry = (offered - n) + i
  BY LenProperties DEF WaitersLast, Gone
<1> HIDE DEF n
<1>2. CASE e \in 1 .. Gone
  <2>1. \A i \in 1 .. n : waiting[i].entry # e BY <1>1, <1>2
  <2>2. \A x : x \notin S BY <2>1, <1>1
  <2> HIDE DEF S
  <2>3. Cardinality(S) = 0 BY <2>2, OneOrNone
  <2> QED BY <2>3, <1>2 DEF S
<1>3. CASE e \notin 1 .. Gone
  <2> DEFINE k == e - Gone
  <2>1. k \in 1 .. n /\ \A i \in 1 .. n : (offered - n) + i = e <=> i = k BY <1>1, <1>3
  <2>2. S = {k} BY <2>1, <1>1
  <2> HIDE DEF S, k
  <2>3. Cardinality(S) = 1 BY <2>2, OneOrNone
  <2> QED BY <2>3, <1>3 DEF S
<1> QED BY <1>2, <1>3

\* The messages that carry it.
LEMMA CarriedPlaces ==
    ASSUME Messages, Handed, Placed, NEW e
    PROVE  Cardinality({x \in UNION {{w} \X DOMAIN inbox[w] : w \in Workers} :
                          inbox[x[1]][x[2]] = ToWorker("entry", e)})
             = IF \E w \in Workers : e \in Carried(inbox[w]) THEN 1 ELSE 0
<1> DEFINE S == {x \in UNION {{w} \X DOMAIN inbox[w] : w \in Workers} :
                   inbox[x[1]][x[2]] = ToWorker("entry", e)}
<1>1. \A w \in Workers : DOMAIN inbox[w] = 1 .. Len(inbox[w]) /\ Len(inbox[w]) \in Nat
  BY LenProperties DEF Messages, ReadyOK
<1>2. ToWorker("entry", e).kind = "entry" /\ ToWorker("entry", e).n = e BY DEF ToWorker
<1>3. \A w \in Workers : \A i \in 1 .. Len(inbox[w]) :
        inbox[w][i] = ToWorker("entry", e) <=> inbox[w][i].kind = "entry" /\ inbox[w][i].n = e
  BY <1>2 DEF Handed, Written
<1>4. \A x : x \in S <=> \E w \in Workers : \E i \in 1 .. Len(inbox[w]) :
                            x = <<w, i>> /\ inbox[w][i].kind = "entry" /\ inbox[w][i].n = e
  <2>1. \A x : x \in S <=> \E w \in Workers : \E i \in 1 .. Len(inbox[w]) :
                              x = <<w, i>> /\ inbox[w][i] = ToWorker("entry", e)
    BY <1>1
  <2> HIDE DEF S
  <2> QED BY <2>1, <1>3
<1> HIDE DEF S
<1>5. CASE \E w \in Workers : e \in Carried(inbox[w])
  <2>1. PICK w \in Workers : e \in Carried(inbox[w]) BY <1>5
  <2>2. PICK i \in 1 .. Len(inbox[w]) : inbox[w][i].kind = "entry" /\ inbox[w][i].n = e
    BY <2>1 DEF Carried
  <2>3. ASSUME NEW x \in S PROVE x = <<w, i>>
    <3>1. PICK v \in Workers : \E j \in 1 .. Len(inbox[v]) :
                   x = <<v, j>> /\ inbox[v][j].kind = "entry" /\ inbox[v][j].n = e BY <1>4
    <3>2. PICK j \in 1 .. Len(inbox[v]) : x = <<v, j>> /\ inbox[v][j].kind = "entry" /\ inbox[v][j].n = e
      BY <3>1
    <3>3. e \in Carried(inbox[v]) BY <3>2 DEF Carried
    <3>4. v = w BY <3>3, <2>1 DEF Placed
    <3>5. ~(i < j) /\ ~(j < i) BY <3>2, <3>4, <2>2 DEF Handed, InOrder, Before
    <3>6. i = j BY <3>4, <3>5, <1>1
    <3> QED BY <3>2, <3>4, <3>6
  <2>4. <<w, i>> \in S BY <2>2, <1>4
  <2>5. S = {<<w, i>>} BY <2>3, <2>4
  <2>6. Cardinality(S) = 1 BY <2>5, OneOrNone
  <2> QED BY <2>6, <1>5 DEF S
<1>6. CASE ~\E w \in Workers : e \in Carried(inbox[w])
  <2>1. \A x : x \notin S BY <1>4, <1>6 DEF Carried
  <2>2. Cardinality(S) = 0 BY <2>1, OneOrNone
  <2> QED BY <2>2, <1>6 DEF S
<1> QED BY <1>5, <1>6

\* Its place in what the transport was handed.
LEMMA TakenPlaces ==
    ASSUME Handed, NEW e
    PROVE  Cardinality({i \in DOMAIN taken : taken[i] = e}) = IF e \in ToSet(taken) THEN 1 ELSE 0
<1> DEFINE S == {i \in DOMAIN taken : taken[i] = e}
<1>1. DOMAIN taken = 1 .. Len(taken) /\ Len(taken) \in Nat BY LenProperties DEF Handed
<1>2. CASE e \in ToSet(taken)
  <2>1. PICK i \in DOMAIN taken : taken[i] = e BY <1>2 DEF ToSet
  <2>2. ASSUME NEW j \in S PROVE j = i
    <3>1. ~(i < j) /\ ~(j < i) BY <2>1, <1>1 DEF Handed, Before
    <3> QED BY <3>1, <2>1, <1>1
  <2>3. S = {i} BY <2>1, <2>2
  <2> HIDE DEF S
  <2>4. Cardinality(S) = 1 BY <2>3, OneOrNone
  <2> QED BY <2>4, <1>2 DEF S
<1>3. CASE e \notin ToSet(taken)
  <2>1. \A x : x \notin S BY <1>3 DEF ToSet
  <2> HIDE DEF S
  <2>2. Cardinality(S) = 0 BY <2>1, OneOrNone
  <2> QED BY <2>2, <1>3 DEF S
<1> QED BY <1>2, <1>3

\* However many threads fail, entries are neither lost in the transport nor
\* handed over twice or out of order, but for the very first: a write() waits
\* (ensureWorker()), rejects, or posts its entry after all earlier ones.
THEOREM EntriesHandedOnCorrect == Spec => []EntriesHandedOn
<1>1. EntriesInv => EveryEntryOnce
  <2> SUFFICES ASSUME EntriesInv, NEW e \in 1 .. offered PROVE Places(e) = 1 BY DEF EveryEntryOnce
  <2> USE DEF EntriesInv
  <2> DEFINE w == IF e \in 1 .. Gone THEN 0 ELSE 1
             c == IF \E v \in Workers : e \in Carried(inbox[v]) THEN 1 ELSE 0
             t == IF e \in ToSet(taken) THEN 1 ELSE 0
             r == IF e \in rejected THEN 1 ELSE 0
             i == IF e \in ignored THEN 1 ELSE 0
  <2>1. Places(e) = w + c + t + r + i BY WaitPlaces, CarriedPlaces, TakenPlaces DEF Places
  <2>2. w + c + t + r + i = 1
    <3>1. CASE e \notin 1 .. Gone
      <4>1. w = 1 /\ c = 0 /\ t = 0 /\ r = 0 /\ i = 0 BY <3>1 DEF Placed
      <4> HIDE DEF w, c, t, r, i
      <4> QED BY <4>1
    <3>2. CASE \E v \in Workers : e \in Carried(inbox[v])
      <4>1. w = 0 /\ c = 1 /\ t = 0 /\ r = 0 /\ i = 0 BY <3>2 DEF Placed
      <4> HIDE DEF w, c, t, r, i
      <4> QED BY <4>1
    <3>3. CASE e \in ToSet(taken)
      <4>1. w = 0 /\ c = 0 /\ t = 1 /\ r = 0 /\ i = 0 BY <3>3 DEF Placed
      <4> HIDE DEF w, c, t, r, i
      <4> QED BY <4>1
    <3>4. CASE e \in rejected
      <4>1. w = 0 /\ c = 0 /\ t = 0 /\ r = 1 /\ i = 0 BY <3>4 DEF Placed
      <4> HIDE DEF w, c, t, r, i
      <4> QED BY <4>1
    <3>5. CASE e \in ignored
      <4>1. w = 0 /\ c = 0 /\ t = 0 /\ r = 0 /\ i = 1 BY <3>5 DEF Placed
      <4> HIDE DEF w, c, t, r, i
      <4> QED BY <4>1
    <3> QED BY <3>1, <3>2, <3>3, <3>4, <3>5 DEF Placed
  <2> QED BY <2>1, <2>2
<1>2. EntriesInv => OnlyFirstOvertaken
  <2> SUFFICES ASSUME EntriesInv, NEW i \in DOMAIN taken, NEW j \in DOMAIN taken, i < j,
                      taken[i] > taken[j]
               PROVE  taken[j] = 1
    BY DEF OnlyFirstOvertaken
  <2>1. /\ taken \in Seq(Nat) /\ DOMAIN taken = 1 .. Len(taken)
        /\ \A k, l \in 1 .. Len(taken) : k < l => Before(taken[k], taken[l])
    BY LenProperties DEF EntriesInv, Handed
  <2>2. taken[i] \in Nat /\ taken[j] \in Nat BY <2>1, ElementOfSeq
  <2> QED BY <2>1, <2>2 DEF Before
<1> QED BY <1>1, <1>2, EntriesHold, PTL DEF EntriesHandedOn

-----------------------------------------------------------------------------
(* What close() and the backoff rely on.                                   *)

\* Only an answer to close() lets go of a thread that close() has been called for,
\* and then the transports of that thread are closed.
LEMMA CloseStep ==
    ASSUME EntriesInv, ThreadAssumption, [Next]_vars, closed, NEW w \in Workers, worker = w, worker' = 0
    PROVE  transport[w] = "closed"
<1> USE DEF EntriesInv
<1>1. w # 0 /\ w = spawned BY ThreadNumbers
<1>2. ~UNCHANGED worker BY <1>1
<1>3. ~Write /\ ~Flush /\ ~Close /\ ~RestartTimer /\ ~UNCHANGED vars
  <2>1. ~UNCHANGED vars BY <1>2 DEF vars
  <2>2. ~Write /\ ~Flush /\ ~Close BY DEF Write, Flush, Close, SendAndWait
  <2>3. ~RestartTimer BY <1>2 DEF RestartTimer, EnsureWorker
  <2> QED BY <2>1, <2>2, <2>3
<1>4. \A v \in Workers : ~Run(v) /\ ~Crash(v) /\ ~Exit(v)
  BY <1>2 DEF Run, Handle, FinishFlush, FinishClose, Crash, Exit, Dies, mainThread
<1>5. PICK v \in Workers : Deliver(v) BY <1>3, <1>4 DEF Next
<1>6. ~ReceiveReady(v) /\ ~ReceiveError(v) /\ ~ReceiveExit(v)
  BY <1>2 DEF ReceiveReady, ReceiveError, ReceiveExit, OnWorkerCrash
<1>7. ReceiveAck(v) BY <1>5, <1>6 DEF Deliver
<1>8. Receive(v, "acked") /\ Head(outbox[v]).n = closing BY <1>2, <1>7 DEF ReceiveAck
<1>9. outbox[v] # <<>> /\ Head(outbox[v]).kind = "acked" /\ outbox[v] \in Seq(ToSet(outbox[v]))
  BY <1>8 DEF Receive, ThreadInv, Outboxes
<1>10. Head(outbox[v]) = outbox[v][1] /\ 1 \in 1 .. Len(outbox[v]) BY <1>9, TailShape
<1>11. CallOK(v, inbox[v], outbox[v], jobs[v], transport[v], spawned, seq, closing) BY DEF Messages
<1>12. transport[v] = "closed" /\ v = spawned BY <1>8, <1>9, <1>10, <1>11 DEF CallOK
<1> QED BY <1>1, <1>12

\* close() terminates a thread only after the transports of that thread have closed,
\* also when entries, flushes and crashes of earlier threads are still under way
\* (closeWorkerBacked(), the "close" case of handle()).
THEOREM CloseIsCleanCorrect == Spec => CloseIsClean
<1>1. EntriesInv /\ [Next]_vars =>
        [\A w \in Workers : closed /\ worker = w /\ worker' = 0 => transport[w] = "closed"]_vars
  BY CloseStep, ThreadAssumption
<1> QED BY <1>1, EntriesHold, PTL DEF Spec, CloseIsClean

\* The threads lost since one was last ready.
LostSince(last, thr, state) ==
    {w \in 1 .. last : w # thr /\ \A v \in w + 1 .. last : state[v] # "ready"}
Attempts ==
    /\ restartAttempts \in Nat
    /\ ~closed => restartAttempts = Cardinality(LostSince(spawned, worker, settled))

\* Steps that lose no thread and make none ready.
LEMMA NoneLost ==
    ASSUME Attempts, closed => closed', UNCHANGED <<restartAttempts, spawned, worker, settled>>
    PROVE  Attempts'
BY DEF Attempts

\* A new thread is not lost, and not ready.
LEMMA SpawnAttempts ==
    ASSUME ThreadInv, ThreadAssumption, SpawnState, Attempts, SpawnWorker, worker = 0,
           spawned + 1 \in Workers, UNCHANGED <<restartAttempts, settled, closing>>
    PROVE  Attempts'
<1> DEFINE n == spawned
           S == LostSince(n, 0, settled)
           T == LostSince(n + 1, n + 1, settled)
<1>1. n \in Nat /\ worker' = n + 1 /\ spawned' = n + 1 /\ settled[n + 1] # "ready"
  <2>1. n \in Nat /\ n + 1 > n /\ n + 1 \in Workers BY ThreadNumbers
  <2> QED BY <2>1 DEF SpawnWorker, SpawnState
<1>2. S = T
  <2> HIDE DEF n
  <2>1. ASSUME NEW w \in 1 .. n
        PROVE  (\A v \in w + 1 .. n : settled[v] # "ready") <=> (\A v \in w + 1 .. n + 1 : settled[v] # "ready")
    <3>1. \A v : v \in w + 1 .. n + 1 <=> v \in w + 1 .. n \/ v = n + 1 BY <1>1
    <3> QED BY <3>1, <1>1
  <2>2. /\ \A w : w \in 1 .. n + 1 /\ w # n + 1 <=> w \in 1 .. n
        /\ \A w \in 1 .. n : w # 0
    BY <1>1
  <2> QED BY <2>1, <2>2 DEF LostSince
<1>3. closed' = closed BY DEF closed
<1> HIDE DEF S, T, n
<1>4. Attempts' <=> /\ restartAttempts \in Nat
                    /\ ~closed => restartAttempts = Cardinality(T)
  BY <1>1, <1>3 DEF Attempts, T
<1>5. restartAttempts \in Nat /\ (~closed => restartAttempts = Cardinality(S))
  BY DEF Attempts, S, n
<1> QED BY <1>2, <1>4, <1>5

\* A crash of this.worker is one thread more.
LEMMA CrashAttempts ==
    ASSUME ThreadInv, ThreadAssumption, Attempts, ~closed, worker # 0, worker' = 0,
           restartAttempts' = restartAttempts + 1, UNCHANGED <<spawned, closing>>,
           \A v \in Workers : settled'[v] = "ready" <=> settled[v] = "ready"
    PROVE  Attempts'
<1> DEFINE n == spawned
           S == LostSince(n, n, settled)
           state == settled'
           T == LostSince(n, 0, state)
<1>1. n \in Nat /\ n # 0 /\ worker = n /\ n <= MaxSpawns /\ Workers = 1 .. MaxSpawns BY ThreadNumbers
<1>2. \A v \in 1 .. n : state[v] = "ready" <=> settled[v] = "ready"
  <2>1. \A v \in 1 .. n : v \in Workers BY <1>1
  <2> QED BY <2>1
<1> HIDE DEF n, state
<1>3. T = S \cup {n} /\ n \notin S
  <2>1. ASSUME NEW w \in 1 .. n
        PROVE  (\A v \in w + 1 .. n : settled[v] # "ready") <=> (\A v \in w + 1 .. n : state[v] # "ready")
    <3>1. \A v \in w + 1 .. n : v \in 1 .. n BY <1>1
    <3> QED BY <3>1, <1>2
  <2>2. n \in 1 .. n /\ \A v \in n + 1 .. n : FALSE BY <1>1
  <2>3. \A w \in 1 .. n : w # 0 BY <1>1
  <2> QED BY <2>1, <2>2, <2>3 DEF LostSince
<1>4. IsFiniteSet(S)
  <2>1. S \subseteq 1 .. n /\ IsFiniteSet(1 .. n) BY <1>1, FS_Interval DEF LostSince
  <2> HIDE DEF S
  <2> QED BY <2>1, FS_Subset
<1> HIDE DEF S, T
<1>5. Cardinality(T) = Cardinality(S) + 1 BY <1>3, <1>4, FS_AddElement
<1>6. restartAttempts = Cardinality(S) /\ restartAttempts \in Nat BY <1>1 DEF Attempts, S, n
<1>7. restartAttempts' = Cardinality(T) BY <1>5, <1>6
<1>8. restartAttempts' \in Nat BY <1>6
<1> QED BY <1>7, <1>8 DEF Attempts, T, n, state

\* Once this.worker is ready none counts.
LEMMA ReadyAttempts ==
    ASSUME EntriesInv, ThreadAssumption, NEW w \in Workers, ReceiveReady(w)
    PROVE  Attempts'
<1>1. worker = w /\ w = spawned BY ReadyMain DEF EntriesInv
<1>2. /\ restartAttempts' = 0 /\ UNCHANGED <<spawned, worker>>
      /\ settled' = [settled EXCEPT ![w] = "ready"]
  BY DEF ReceiveReady, Receive
<1>3. settled'[w] = "ready" BY <1>2 DEF EntriesInv, SpawnState
<1> DEFINE n == spawned
           state == settled'
<1>4. n \in Nat /\ state[n] = "ready" BY <1>1, <1>3, ThreadNumbers DEF EntriesInv
<1> HIDE DEF n, state
<1>5. LostSince(n, n, state) = {}
  <2>1. ASSUME NEW v \in 1 .. n, v # n PROVE n \in v + 1 .. n BY <1>4, <2>1
  <2> QED BY <2>1, <1>4 DEF LostSince
<1>6. LostSince(spawned', worker', settled') = {} BY <1>1, <1>2, <1>5 DEF n, state
<1>7. Cardinality(LostSince(spawned', worker', settled')) = 0 BY <1>6, FS_EmptySet
<1> QED BY <1>2, <1>7 DEF Attempts

\* Every step keeps the count.
LEMMA NextAttempts == EntriesInv /\ Attempts /\ ThreadAssumption /\ [Next]_vars => Attempts'
<1> SUFFICES ASSUME EntriesInv, Attempts, ThreadAssumption, [Next]_vars PROVE Attempts' OBVIOUS
<1> USE DEF EntriesInv
<1>1. CASE Write
  <2>1. UNCHANGED <<restartAttempts, settled, closing>> BY <1>1, WriteCases DEF calls
  <2>2. closed' = closed BY <2>1 DEF closed
  <2>3. CASE UNCHANGED <<worker, spawned>> BY <2>1, <2>2, <2>3, NoneLost
  <2>4. CASE SpawnWorker /\ worker = 0 /\ spawned + 1 \in Workers BY <2>1, <2>4, SpawnAttempts
  <2> QED BY <2>3, <2>4, <1>1, WriteCases
<1>2. CASE RestartTimer
  <2>1. UNCHANGED <<restartAttempts, settled, closing>> /\ EnsureWorker /\ restarting
    BY <1>2 DEF RestartTimer, calls
  <2>2. closed' = closed /\ worker = 0 /\ ~closed BY <2>1 DEF closed, ThreadInv, Gate
  <2>3. CASE UNCHANGED <<worker, spawned>> BY <2>1, <2>2, <2>3, NoneLost
  <2>4. CASE SpawnWorker
    <3>1. spawned # MaxSpawns BY <2>2, ThreadNumbers DEF ThreadInv, Alive
    <3>2. spawned + 1 \in Workers BY <3>1, ThreadNumbers
    <3> QED BY <3>2, <2>1, <2>2, <2>4, SpawnAttempts
  <2> QED BY <2>1, <2>3, <2>4 DEF EnsureWorker
<1>3. CASE Flush \/ Close \/ UNCHANGED vars
  <2>1. UNCHANGED <<restartAttempts, spawned, worker, settled>>
    BY <1>3 DEF Flush, Close, SendAndWait, vars
  <2>2. closed => closed' BY <1>3 DEF Flush, Close, SendAndWait, closed, vars, calls
  <2> QED BY <2>1, <2>2, NoneLost
<1>4. ASSUME NEW w \in Workers, Run(w) \/ Crash(w) \/ Exit(w) PROVE Attempts'
  <2>1. UNCHANGED <<restartAttempts, spawned, worker, settled, closing>>
    BY <1>4 DEF Run, Handle, FinishFlush, FinishClose, Crash, Exit, Dies, mainThread, calls
  <2> QED BY <2>1, NoneLost DEF closed
<1>5. ASSUME NEW w \in Workers, ReceiveAck(w) PROVE Attempts'
  <2>1. UNCHANGED <<restartAttempts, spawned, settled, closing>> /\ (closed \/ worker' = worker)
    BY <1>5 DEF ReceiveAck, Receive
  <2>2. closed' = closed BY <2>1 DEF closed
  <2> QED BY <2>1, <2>2 DEF Attempts
<1>6. ASSUME NEW w \in Workers, ReceiveError(w) \/ ReceiveExit(w) PROVE Attempts'
  <2>1. /\ UNCHANGED <<spawned, closing>>
        /\ settled' = settled \/ settled' = [settled EXCEPT ![w] = IF @ = "pending" THEN "failed" ELSE @]
        /\ OnWorkerCrash \/ UNCHANGED <<worker, restarting, restartAttempts>>
    BY <1>6 DEF ReceiveError, ReceiveExit, Receive
  <2>2. \A v \in Workers : settled'[v] = "ready" <=> settled[v] = "ready"
    <3>1. settled \in [Workers -> {"pending", "ready", "failed"}] BY DEF SpawnState
    <3> QED BY <3>1, <2>1
  <2>3. closed' = closed BY <2>1 DEF closed
  <2>4. CASE UNCHANGED <<worker, restartAttempts>>
    <3> DEFINE state == settled'
    <3>1. \A v \in 1 .. spawned : state[v] = "ready" <=> settled[v] = "ready"
      <4>1. \A v \in 1 .. spawned : v \in Workers BY ThreadNumbers
      <4> QED BY <4>1, <2>2
    <3> HIDE DEF state
    <3>2. LostSince(spawned, worker, state) = LostSince(spawned, worker, settled)
      <4>1. ASSUME NEW v \in 1 .. spawned
            PROVE  (\A u \in v + 1 .. spawned : settled[u] # "ready")
                     <=> (\A u \in v + 1 .. spawned : state[u] # "ready")
        <5>1. \A u \in v + 1 .. spawned : u \in 1 .. spawned BY ThreadNumbers
        <5> QED BY <5>1, <3>1
      <4> QED BY <4>1 DEF LostSince
    <3> QED BY <3>2, <2>1, <2>3, <2>4 DEF Attempts, state
  <2>5. CASE ~closed /\ ~restarting /\ worker' = 0 /\ restartAttempts' = restartAttempts + 1
    <3>1. worker # 0
      <4>1. Has(outbox[w], "error") \/ (Has(outbox[w], "exit") /\ (settled[w] = "pending" \/ UNCHANGED restartAttempts))
        BY <1>6, ReceiveQueues DEF ReceiveError, ReceiveExit
      <4>2. restartAttempts' # restartAttempts BY <2>5 DEF Attempts
      <4>3. worker = w BY <4>1, <4>2, <2>5 DEF ThreadInv, Events
      <4>4. w # 0 BY DEF ThreadAssumption, Workers
      <4> QED BY <4>3, <4>4
    <3> QED BY <3>1, <2>1, <2>2, <2>5, CrashAttempts
  <2> QED BY <2>1, <2>4, <2>5 DEF OnWorkerCrash
<1>7. ASSUME NEW w \in Workers, Deliver(w) PROVE Attempts'
  BY <1>7, <1>5, <1>6, ReadyAttempts DEF Deliver
<1> QED BY <1>1, <1>2, <1>3, <1>4, <1>7 DEF Next

\* So the count is right in every state that can be reached.
LEMMA AttemptsHold == Spec => []Attempts
<1>1. Init => Attempts
  <2> SUFFICES ASSUME Init PROVE Attempts OBVIOUS
  <2>1. restartAttempts = 0 /\ spawned = 0 BY DEF Init
  <2>2. LostSince(spawned, worker, settled) = {} BY <2>1 DEF LostSince
  <2>3. Cardinality(LostSince(spawned, worker, settled)) = 0 BY <2>2, FS_EmptySet
  <2> QED BY <2>1, <2>3 DEF Attempts
<1>2. EntriesInv /\ Attempts /\ [Next]_vars => Attempts' BY NextAttempts, ThreadAssumption
<1> QED BY <1>1, <1>2, EntriesHold, PTL DEF Spec

\* The backoff before a restart is of the threads lost since one was last ready:
\* an exit event after an error event does not count the same thread twice
\* (onWorkerCrash(), restartAttempts).
THEOREM AttemptsCorrect == Spec => []AttemptsSinceReady
<1>1. Attempts => AttemptsSinceReady BY DEF Attempts, AttemptsSinceReady, LostSince
<1> QED BY <1>1, AttemptsHold, PTL

-----------------------------------------------------------------------------
(* Types.                                                                  *)

\* What the other parts of the invariant leave open.
Kinds ==
    /\ offered \in 0 .. MaxEntries /\ restarting \in BOOLEAN /\ seq \in 0 .. MaxCalls
    /\ acks \subseteq [id : 1 .. MaxCalls, w : Workers]
    /\ transport \in [Workers -> {"none", "open", "closed"}]

\* Every step keeps them.
LEMMA NextKinds == EntriesInv /\ Kinds /\ ThreadAssumption /\ [Next]_vars => Kinds'
<1> SUFFICES ASSUME EntriesInv, Kinds, ThreadAssumption, [Next]_vars PROVE Kinds' OBVIOUS
<1>1. CASE Write
  <2>1. /\ offered < MaxEntries /\ offered' = offered + 1
        /\ UNCHANGED <<restarting, acks, seq, closing, transport>>
    BY <1>1 DEF Write, calls
  <2> QED BY <2>1 DEF Kinds, ThreadAssumption
<1>2. CASE Flush \/ Close
  <2>1. /\ seq < MaxCalls /\ seq' = seq + 1 /\ worker # 0
        /\ acks' = acks \cup {[id |-> seq + 1, w |-> worker]}
        /\ UNCHANGED <<offered, restarting, transport>>
    BY <1>2 DEF Flush, Close, SendAndWait, thread
  <2>2. worker \in Workers BY <2>1, ThreadNumbers DEF EntriesInv
  <2>3. seq + 1 \in 1 .. MaxCalls /\ seq' \in 0 .. MaxCalls BY <2>1 DEF Kinds, ThreadAssumption
  <2> QED BY <2>1, <2>2, <2>3 DEF Kinds
<1>3. CASE RestartTimer BY <1>3 DEF RestartTimer, calls, Kinds
<1>4. CASE UNCHANGED vars BY <1>4 DEF vars, calls, thread, Kinds
<1>5. ASSUME NEW w \in Workers, Deliver(w) PROVE Kinds'
  <2>1. /\ UNCHANGED <<offered, seq, transport>> /\ acks' \subseteq acks
        /\ restarting' \in {restarting, TRUE}
    BY <1>5 DEF Deliver, ReceiveReady, ReceiveAck, ReceiveError, ReceiveExit, Receive, OnWorkerCrash
  <2> QED BY <2>1 DEF Kinds
<1>6. ASSUME NEW w \in Workers, Run(w) \/ Crash(w) \/ Exit(w) PROVE Kinds'
  <2>1. /\ UNCHANGED <<offered, seq, acks, restarting>>
        /\ \/ UNCHANGED transport
           \/ transport' = [transport EXCEPT ![w] = "open"]
           \/ transport' = [transport EXCEPT ![w] = "closed"]
    BY <1>6 DEF Run, Handle, FinishFlush, FinishClose, Crash, Exit, Dies, mainThread, calls
  <2> QED BY <2>1 DEF Kinds
<1> QED BY <1>1, <1>2, <1>3, <1>4, <1>5, <1>6 DEF Next

\* Rejected writes are numbers of writes, and a thread waited for has been started.
LEMMA TypesFollow ==
    ASSUME EntriesInv, Kinds, restartAttempts \in Nat, ThreadAssumption
    PROVE  TypeOK
<1> USE DEF EntriesInv
<1>1. /\ MaxSpawns \in Nat \ {0} /\ Workers = 1 .. MaxSpawns /\ spawned \in 0 .. MaxSpawns
      /\ worker \in {0, spawned}
  BY ThreadNumbers DEF ThreadInv, Numbers
<1>2. offered \in 0 .. MaxEntries /\ MaxEntries \in Nat /\ Gone \in Nat /\ Gone <= offered
  BY GoneNumber DEF Kinds, ThreadAssumption
<1>3. rejected \subseteq 0 .. MaxEntries
  <2>1. \A e \in 1 .. Gone : e \in 0 .. MaxEntries BY <1>2
  <2> QED BY <2>1 DEF Placed
<1>4. ASSUME NEW x \in ToSet(waiting)
      PROVE  /\ x.entry \in 1 .. MaxEntries /\ x.w \in 0 .. MaxSpawns
             /\ x.on \in {"gate", "ready", "spawn"}
  <2>1. /\ waiting \in Seq(ToSet(waiting)) /\ DOMAIN waiting = 1 .. Len(waiting) /\ Len(waiting) \in Nat
        /\ Gone = offered - Len(waiting)
    BY LenProperties DEF WaitersLast, Gone
  <2>2. PICK i \in 1 .. Len(waiting) : x = waiting[i] BY <2>1 DEF ToSet
  <2>3. /\ x.entry = Gone + i /\ WaiterOK(x, restarting, worker, spawned, settled)
    BY <2>2 DEF WaitersLast
  <2>4. Gone + i \in 1 .. MaxEntries BY <2>1, <1>2
  <2>5. x.w = 0 \/ x.w = spawned BY <2>3 DEF WaiterOK
  <2>6. x.on \in {"gate", "ready", "spawn"} BY <2>3 DEF WaiterOK
  <2> QED BY <2>3, <2>4, <2>5, <2>6, <1>1
<1>5. spawn \in 0 .. MaxSpawns BY <1>1 DEF SpawnState
<1>6. closing \in 0 .. MaxCalls
  <2>1. closing \in 0 .. seq /\ seq \in 0 .. MaxCalls BY DEF Messages, Kinds
  <2> QED BY <2>1
<1> QED BY <1>1, <1>2, <1>3, <1>4, <1>5, <1>6 DEF TypeOK, Kinds, SpawnState, ThreadInv, Numbers

\* The variables keep their types, and this.worker is null or the thread started
\* last: no late event brings an older one back.
THEOREM ThreadTypes == Spec => []TypeOK
<1>1. Init => Kinds
  <2> SUFFICES ASSUME Init PROVE Kinds OBVIOUS
  <2>1. /\ offered = 0 /\ restarting = FALSE /\ seq = 0 /\ acks = {}
        /\ transport = [w \in Workers |-> "none"] BY DEF Init
  <2>2. 0 \in 0 .. MaxEntries /\ 0 \in 0 .. MaxCalls BY ThreadAssumption DEF ThreadAssumption
  <2>3. transport \in [Workers -> {"none", "open", "closed"}] BY <2>1
  <2>4. {} \subseteq [id : 1 .. MaxCalls, w : Workers] OBVIOUS
  <2> QED BY <2>1, <2>2, <2>3, <2>4 DEF Kinds
<1>2. EntriesInv /\ Kinds /\ [Next]_vars => Kinds' BY NextKinds, ThreadAssumption
<1>3. EntriesInv /\ Kinds /\ Attempts => TypeOK BY TypesFollow, ThreadAssumption DEF Attempts
<1> QED BY <1>1, <1>2, <1>3, EntriesHold, AttemptsHold, PTL DEF Spec
=============================================================================
