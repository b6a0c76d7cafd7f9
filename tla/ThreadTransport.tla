--------------------------- MODULE ThreadTransport ---------------------------
(***************************************************************************)
(* The worker thread transport: src/worker/thread.transport.ts on the main *)
(* thread, src/worker/worker.transport.ts in the thread it starts, and the *)
(* two message queues between them.                                        *)
(*                                                                         *)
(* An action of the main thread is one event with the microtasks it queues:*)
(* the continuations of awaited promises run before the next event.  The   *)
(* threads it has started are 1..spawned, the entries are numbers in the   *)
(* order of the write() calls.  A thread may fail (an error event, then an *)
(* exit event) or exit (an exit event only) at any moment.                 *)
(***************************************************************************)
EXTENDS Naturals, Sequences, FiniteSets, SequencesExt, Lists

CONSTANTS MaxSpawns,   \* bound: threads started; the last one never fails
          MaxEntries,  \* bound: write() calls
          MaxCalls     \* bound: flush() and close() calls

ASSUME ThreadAssumption ==
    /\ MaxSpawns \in Nat \ {0} /\ MaxEntries \in Nat /\ MaxCalls \in Nat

Workers == 1 .. MaxSpawns

VARIABLES offered, rejected,  \* history: write() calls, those that rejected
          waiting,            \* writes inside ensureWorker, oldest first
          worker,             \* this.worker, 0 when null
          spawn,              \* the thread this.spawn waits for, 0 when null
          spawned,            \* threads started
          settled,            \* of a thread: "pending", "ready" or "failed"
          restarting,         \* this.restarting is a gate, its timer is armed
          restartAttempts,
          acks,               \* this.acks: round trips that wait
          seq,
          closing,            \* id of close()'s round trip, 0 while not closed
          alive, inbox, outbox,  \* of a thread: running, messages to and from it
          transport,          \* of a thread: "none", "open" or "closed"
          jobs,               \* of a thread: flush and close messages under way
          taken, ignored      \* history: entries its transport took or did not

calls == <<acks, seq, closing>>
thread == <<alive, transport, jobs, taken, ignored>>
vars == <<offered, rejected, waiting, worker, spawn, spawned, settled, restarting,
          restartAttempts, calls, inbox, outbox, thread>>

closed == closing # 0
ToWorker(kind, n) == [kind |-> kind, n |-> n]
Waiter(e, on, w) == [entry |-> e, on |-> on, w |-> w]

Init ==
    /\ offered = 0 /\ rejected = {} /\ waiting = <<>>
    /\ worker = 0 /\ spawn = 0 /\ spawned = 0 /\ settled = [w \in Workers |-> "pending"]
    /\ restarting = FALSE /\ restartAttempts = 0
    /\ acks = {} /\ seq = 0 /\ closing = 0
    /\ alive = [w \in Workers |-> FALSE] /\ transport = [w \in Workers |-> "none"]
    /\ inbox = [w \in Workers |-> <<>>] /\ outbox = [w \in Workers |-> <<>>]
    /\ jobs = [w \in Workers |-> {}] /\ taken = <<>> /\ ignored = {}

-----------------------------------------------------------------------------
(* The main thread.                                                        *)

Post(w, messages) == inbox' = [inbox EXCEPT ![w] = @ \o messages]

\* spawnWorker() up to its await.
SpawnWorker ==
    /\ spawned' = spawned + 1 /\ worker' = spawned + 1 /\ spawn' = spawned + 1
    /\ alive' = [alive EXCEPT ![spawned + 1] = TRUE]
    /\ Post(spawned + 1, <<ToWorker("init", 0)>>)

\* ensureWorker() past its gate: start a thread unless one is there or awaited.
EnsureWorker ==
    IF closed \/ worker # 0 \/ spawn # 0
      THEN UNCHANGED <<spawned, worker, spawn, alive, inbox>>
      ELSE SpawnWorker

\* Mutant of Awaits: the write does not wait for the thread to be ready.
AwaitsNoReady(e) ==
    CASE restarting -> Waiter(e, "gate", 0)
      [] ~restarting /\ worker # 0 -> Waiter(e, "none", worker)
      [] OTHER -> Waiter(e, "spawn", spawned + 1)

\* What a write() that calls ensureWorker() now waits for.
Awaits(e) ==
    CASE restarting -> Waiter(e, "gate", 0)
      [] ~restarting /\ worker # 0 ->
             Waiter(e, IF settled[worker] = "ready" THEN "none" ELSE "ready", worker)
      [] ~restarting /\ worker = 0 /\ spawn # 0 -> Waiter(e, "spawn", spawn)
      [] OTHER -> Waiter(e, "spawn", spawned + 1)

Write ==
    /\ offered < MaxEntries /\ ~closed
    /\ offered' = offered + 1
    /\ LET it == Awaits(offered + 1)
       IN  IF it.on = "none"
             THEN /\ Post(worker, <<ToWorker("entry", offered + 1)>>)
                  /\ UNCHANGED <<waiting, worker, spawn, spawned, alive>>
             ELSE /\ waiting' = Append(waiting, it)
                  /\ IF restarting THEN UNCHANGED <<worker, spawn, spawned, alive, inbox>>
                                   ELSE EnsureWorker
    /\ UNCHANGED <<rejected, settled, restarting, restartAttempts, calls, outbox,
                   transport, jobs, taken, ignored>>

\* sendAndWait(), called only when there is a worker.
SendAndWait(kind) ==
    /\ seq < MaxCalls /\ ~closed /\ worker # 0
    /\ seq' = seq + 1
    /\ acks' = acks \cup {[id |-> seq + 1, w |-> worker]}
    /\ Post(worker, <<ToWorker(kind, seq + 1)>>)
    /\ UNCHANGED <<offered, rejected, waiting, worker, spawn, spawned, settled,
                   restarting, restartAttempts, outbox, thread>>

Flush == SendAndWait("flush") /\ UNCHANGED closing
Close == SendAndWait("close") /\ closing' = seq + 1

OnWorkerCrash ==
    IF closed \/ restarting
      THEN UNCHANGED <<worker, restarting, restartAttempts>>
      ELSE worker' = 0 /\ restarting' = TRUE /\ restartAttempts' = restartAttempts + 1

\* Mutant of RestartTimer: the next write is left to respawn.
RestartTimerLazy ==
    /\ restarting
    /\ restarting' = FALSE
    /\ UNCHANGED <<offered, rejected, waiting, worker, spawn, spawned, settled,
                   restartAttempts, calls, inbox, outbox, thread>>

\* The restart timer opens the gate and respawns; the writes at the gate go on
\* to wait for the new thread, or for this.spawn if it was left behind.
RestartTimer ==
    /\ restarting
    /\ restarting' = FALSE
    /\ EnsureWorker
    /\ waiting' = [i \in DOMAIN waiting |->
                     IF waiting[i].on # "gate" THEN waiting[i]
                     ELSE Waiter(waiting[i].entry,
                                 IF spawn # 0 THEN "spawn" ELSE "ready", spawn')]
    /\ UNCHANGED <<offered, rejected, settled, restartAttempts, calls, outbox,
                   transport, jobs, taken, ignored>>

\* A message of thread w is at the head of its queue to the main thread.
Receive(w, kind) ==
    /\ outbox[w] # <<>> /\ Head(outbox[w]).kind = kind
    /\ outbox' = [outbox EXCEPT ![w] = Tail(@)]
    /\ UNCHANGED <<offered, spawned, seq, closing, transport, jobs, taken, ignored>>

WaitersOf(w, on) == Among(waiting, {x \in ToSet(waiting) : x.w = w /\ x.on = on})
LeaveWaiting(w) == waiting' = Among(waiting, {x \in ToSet(waiting) : x.w # w})
SpawnSettles(w) == spawn' = IF spawn = w THEN 0 ELSE spawn
EntryMessages(ws) == [i \in DOMAIN ws |-> ToWorker("entry", ws[i].entry)]

\* "ready": the writes that wait post their entries.  The one that started the
\* thread waits for this.spawn, which settles a microtask later than this.ready.
ReceiveReady(w) ==
    /\ Receive(w, "ready")
    /\ settled' = [settled EXCEPT ![w] = "ready"] /\ restartAttempts' = 0
    /\ LeaveWaiting(w) /\ SpawnSettles(w)
    /\ IF worker = 0 THEN UNCHANGED inbox
       ELSE Post(worker, EntryMessages(WaitersOf(w, "ready") \o WaitersOf(w, "spawn")))
    /\ UNCHANGED <<rejected, worker, restarting, acks, alive>>

\* "acked": the round trip returns; close() terminates the thread.
ReceiveAck(w) ==
    /\ Receive(w, "acked")
    /\ LET id == Head(outbox[w]).n
       IN  /\ acks' = {a \in acks : a.id # id}
           /\ IF closed /\ id = closing /\ worker # 0
                THEN alive' = [alive EXCEPT ![worker] = FALSE] /\ worker' = 0
                ELSE UNCHANGED <<alive, worker>>
    /\ UNCHANGED <<rejected, waiting, spawn, settled, restarting, restartAttempts, inbox>>

\* Mutant of ReceiveError: the thread does not count as settled afterwards.
ReceiveErrorUnsettled(w) ==
    /\ Receive(w, "error")
    /\ SpawnSettles(w) /\ LeaveWaiting(w)
    /\ rejected' = rejected \cup {x.entry : x \in {y \in ToSet(waiting) : y.w = w}}
    /\ OnWorkerCrash
    /\ UNCHANGED <<settled, acks, alive, inbox>>

\* The error event: the writes that wait for this thread reject.
ReceiveError(w) ==
    /\ Receive(w, "error")
    /\ settled' = [settled EXCEPT ![w] = IF @ = "pending" THEN "failed" ELSE @]
    /\ SpawnSettles(w) /\ LeaveWaiting(w)
    /\ rejected' = rejected \cup {x.entry : x \in {y \in ToSet(waiting) : y.w = w}}
    /\ OnWorkerCrash
    /\ UNCHANGED <<acks, alive, inbox>>

\* The exit event is a crash only of a thread that never answered; the promises
\* that wait for it are left unsettled.
ReceiveExit(w) ==
    /\ Receive(w, "exit")
    /\ IF settled[w] = "pending" THEN OnWorkerCrash
                                 ELSE UNCHANGED <<worker, restarting, restartAttempts>>
    /\ UNCHANGED <<rejected, waiting, spawn, settled, acks, alive, inbox>>

-----------------------------------------------------------------------------
(* The worker thread.                                                      *)

mainThread == <<offered, rejected, waiting, worker, spawn, spawned, settled, restarting,
                restartAttempts, calls>>
Send(w, messages) == outbox' = [outbox EXCEPT ![w] = @ \o messages]

\* handle() up to its first await: messages are begun in order.
Handle(w) ==
    /\ alive[w] /\ inbox[w] # <<>>
    /\ inbox' = [inbox EXCEPT ![w] = Tail(@)]
    /\ LET msg == Head(inbox[w]) IN
       \/ /\ msg.kind = "init"
          /\ transport' = [transport EXCEPT ![w] = "open"]
          /\ Send(w, <<ToWorker("ready", 0)>>)
          /\ UNCHANGED <<jobs, taken, ignored>>
       \/ /\ msg.kind = "entry"
          /\ IF transport[w] = "open"
               THEN taken' = Append(taken, msg.n) /\ UNCHANGED ignored
               ELSE ignored' = ignored \cup {msg.n} /\ UNCHANGED taken
          /\ UNCHANGED <<transport, jobs, outbox>>
       \/ /\ msg.kind \in {"flush", "close"}
          /\ jobs' = [jobs EXCEPT ![w] = @ \cup {ToWorker(msg.kind, msg.n)}]
          /\ UNCHANGED <<transport, outbox, taken, ignored>>
    /\ UNCHANGED <<mainThread, alive>>

\* transport.flush() is over: acknowledge a flush, go on to close() in a close.
FinishFlush(w, job) ==
    /\ alive[w] /\ job \in jobs[w]
    /\ \/ /\ job.kind = "flush"
          /\ jobs' = [jobs EXCEPT ![w] = @ \ {job}]
          /\ Send(w, <<ToWorker("acked", job.n)>>)
          /\ UNCHANGED transport
       \/ /\ job.kind = "close"
          /\ jobs' = [jobs EXCEPT ![w] = (@ \ {job}) \cup {ToWorker("ending", job.n)}]
          /\ transport' = [transport EXCEPT ![w] = "closed"]
          /\ UNCHANGED outbox
    /\ UNCHANGED <<mainThread, alive, inbox, taken, ignored>>

\* Mutant of FinishClose: a close is not acknowledged.
FinishCloseSilent(w, job) ==
    /\ alive[w] /\ job \in jobs[w] /\ job.kind = "ending"
    /\ jobs' = [jobs EXCEPT ![w] = @ \ {job}]
    /\ UNCHANGED <<mainThread, alive, inbox, outbox, transport, taken, ignored>>

\* transport.close() is over.
FinishClose(w, job) ==
    /\ alive[w] /\ job \in jobs[w] /\ job.kind = "ending"
    /\ jobs' = [jobs EXCEPT ![w] = @ \ {job}]
    /\ Send(w, <<ToWorker("acked", job.n)>>)
    /\ UNCHANGED <<mainThread, alive, inbox, transport, taken, ignored>>

\* The thread ends: with an error event and an exit event, or an exit event only.
Dies(w, events) ==
    /\ alive[w] /\ spawned < MaxSpawns
    /\ alive' = [alive EXCEPT ![w] = FALSE]
    /\ Send(w, events)
    /\ UNCHANGED <<mainThread, inbox, transport, jobs, taken, ignored>>
Crash(w) == Dies(w, <<ToWorker("error", 0), ToWorker("exit", 0)>>)
Exit(w) == Dies(w, <<ToWorker("exit", 0)>>)

Deliver(w) == ReceiveReady(w) \/ ReceiveAck(w) \/ ReceiveError(w) \/ ReceiveExit(w)
Run(w) == Handle(w) \/ \E job \in jobs[w] : FinishFlush(w, job) \/ FinishClose(w, job)

Next == \/ Write \/ Flush \/ Close \/ RestartTimer
        \/ \E w \in Workers : Deliver(w) \/ Run(w) \/ Crash(w) \/ Exit(w)

\* Events are delivered, a running thread runs, its transports finish what they
\* are asked, the restart timer fires.
Spec == /\ Init /\ [][Next]_vars
        /\ WF_vars(RestartTimer)
        /\ \A w \in Workers : WF_vars(Deliver(w)) /\ WF_vars(Run(w))

-----------------------------------------------------------------------------
(* Properties.                                                             *)

\* Every variable keeps its type, and this.worker is the thread started last.
TypeOK ==
    /\ offered \in 0 .. MaxEntries /\ rejected \subseteq 0 .. MaxEntries
    /\ \A x \in ToSet(waiting) : /\ x.entry \in 1 .. MaxEntries /\ x.w \in 0 .. MaxSpawns
                                 /\ x.on \in {"gate", "ready", "spawn"}
    /\ worker \in {0, spawned} /\ spawn \in 0 .. MaxSpawns /\ spawned \in 0 .. MaxSpawns
    /\ settled \in [Workers -> {"pending", "ready", "failed"}]
    /\ restarting \in BOOLEAN /\ restartAttempts \in Nat
    /\ acks \subseteq [id : 1 .. MaxCalls, w : Workers]
    /\ seq \in 0 .. MaxCalls /\ closing \in 0 .. MaxCalls
    /\ alive \in [Workers -> BOOLEAN] /\ transport \in [Workers -> {"none", "open", "closed"}]

\* At most one thread runs the transports: two would write the same files.
OneWorker == \A v, w \in Workers : alive[v] /\ alive[w] => v = w

\* The transport lets go of a thread only when that thread has ended: a late
\* event of an old thread never takes down its successor (the settled flag).
OnlyDeadWorkersReplaced ==
    [][worker # 0 /\ worker' # worker => ~alive'[worker]]_vars

\* A thread is replaced by one, and only after it has ended.
OneAfterTheOther == []OneWorker /\ OnlyDeadWorkersReplaced

\* Every entry is in one place: in a write that waits or rejected, on its way to
\* a thread (for ever, if that has ended), or handed to its transport once.
Places(e) ==
    Cardinality({i \in DOMAIN waiting : waiting[i].entry = e})
    + Cardinality({x \in UNION {{w} \X DOMAIN inbox[w] : w \in Workers} :
                     inbox[x[1]][x[2]] = ToWorker("entry", e)})
    + Cardinality({i \in DOMAIN taken : taken[i] = e})
    + (IF e \in rejected THEN 1 ELSE 0) + (IF e \in ignored THEN 1 ELSE 0)
EveryEntryOnce == \A e \in 1 .. offered : Places(e) = 1

\* While a restart is pending there is no worker and the transport is open: a
\* close() or flush() then returns at once, and the timer starts a thread later.
GateMeansNoWorker == restarting => worker = 0 /\ ~closed

\* Entries reach the transports in the order of the writes, across threads too;
\* only the very first, which waits for this.spawn, may be overtaken.
OnlyFirstOvertaken ==
    \A i, j \in DOMAIN taken : i < j /\ taken[i] > taken[j] => taken[j] = 1

\* Neither lost in the transport nor out of order.
EntriesHandedOn == EveryEntryOnce /\ OnlyFirstOvertaken

\* The backoff counts the threads lost since one was last ready.
AttemptsSinceReady ==
    ~closed => restartAttempts =
        Cardinality({w \in 1 .. spawned :
                       w # worker /\ \A v \in w + 1 .. spawned : settled[v] # "ready"})

\* close() terminates a thread only after its transports are closed.
CloseIsClean ==
    [][\A w \in Workers : closed /\ worker = w /\ worker' = 0 => transport[w] = "closed"]_vars

\* this.spawn is left behind: every later write waits for it, and no thread is
\* ever started again.
Wedged == spawn # 0 /\ worker # spawn

\* The exit event of a thread that had not answered yet, nor failed, was handled.
ExitedEarly(w) ==
    ~alive[w] /\ settled[w] = "pending" /\ outbox[w] = <<>> /\ w \in 1 .. spawned

\* Nothing else leaves this.spawn behind: after an error event there is always a
\* way back, however the events of the threads follow each other.
OnlyEarlyExitWedges == Wedged => ~closed /\ ExitedEarly(spawn)

\* An outage in which this.spawn was not left behind ends with a new thread.
OutageEnds == (restarting /\ ~Wedged) ~> worker # 0

\* A flush() or close() returns unless the thread it waits for has ended.
CallsReturn ==
    \A id \in 1 .. MaxCalls, w \in Workers :
        [id |-> id, w |-> w] \in acks ~> ([id |-> id, w |-> w] \notin acks \/ ~alive[w])

\* What the transport knows of an outage while it lasts, that it ends, and which
\* one does not.
OutagesHandled ==
    /\ [](TypeOK /\ GateMeansNoWorker /\ AttemptsSinceReady /\ OnlyEarlyExitWedges)
    /\ OutageEnds

\* Round trips return, and close() lets the transports of the thread close first.
CallsEnd == CallsReturn /\ CloseIsClean

-----------------------------------------------------------------------------
(* What the documentation promises and the code does not.                  *)

\* "A crashed or exited worker is rebuilt automatically": every outage ends with
\* a new thread, also that of a thread that exits before it was ready.
OutageAlwaysEnds == restarting ~> worker # 0
=============================================================================
