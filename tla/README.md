# A verification project for hp_logger

hp_logger is a logging library for Bun and Node: a `Logger` builds entries and
hands them to a stack of *transports* (console, files, a database, a worker
thread), most of which buffer, batch, retry, group or rotate. What is hard in it
is seldom one function but the order in which callbacks arrive: a write that
fails while the next entries queue up, a rebuild that answers after `close()`, a
flush that joins a running one, a late event of a worker that was replaced.
This directory holds TLA+ models of those parts, TLC runs over small instances,
and TLAPS proofs for every instance.

Paths below are relative to the repository root; line numbers are in PROJECT.json.

## 1. Inventory

| Component | State | Operations | Correct when |
|---|---|---|---|
| Database transport `src/writer/database.writer.ts` | FIFO buffer, write in flight, retry counter, deadline and timer, recovery flag, rebuild counter and timer, close phase | write, interval, flush, continuation of a write, backoff, rebuild, close | one write at a time; strict FIFO through failures; every entry accounted for; caps respected; close and outages end |
| Batching transport `src/writer/buffer.writer.ts`, `dispatchBatch` | bounded queue, running batch, pending count, microtask flag, close phase | write, microtask, interval, flush, end of batch, close | FIFO, bounded, no lost wake-up, flush and close wait for what they promise |
| File transports `src/writer/{base,file,sizeBased}.writer.ts` | line buffer, stream, running flush, segments on disk | write, interval, flush, stream error, rotate, close | lines in order on disk, no line lost without a failed write, nobody waits for a dead stream |
| Daily files `src/writer/dateBased.writer.ts` | map of paths shared by the process | pick a path in a flush | one file a day, unless two transports list the directory at once (a finding); files of an earlier process are kept |
| Fan-out, lazy database, level gate `src/writer/{group,lazyDatabase,leveled,factory}.writer.ts` | inner transport, load under way | writeBatch, flush, close over siblings | no sibling misses an entry for another; loaded once; close comes after the entries |
| Repeat, adaptive `src/writer/{repeat,adaptive}.writer.ts`, `src/brain/group.utils.ts` | groups in an LRU, window timers; error window, throttled flag, groups of the storm | write, timer, eviction, flush, close | every entry is written, counted in one summary, or dropped by a rule of the storm |
| Worker thread `src/worker/*.ts` | worker, ready promise, restart gate and timer, acknowledgements; both message queues | write, flush, close, events, restart | one worker at a time; entries in order and once; an outage ends, unless the worker exited before it was ready (a finding) |
| Watcher `src/watch/index.watch.ts`, `src/api/watch.api.ts` | up/down/unknown, failures, timer, stopped, handles | probe, outcome, stop, rebind | edges alternate; nothing starts after stop; every running watcher can be reached |
| Resolvers and pipeline `src/resolvers`, `src/core/pipeline.core.ts` | lookups in flight, TTL cache | resolve, deadline, late answer, write | one lookup per key; late answers reach nobody; every entry is delivered |
| Entry building, redaction `src/core/{entry,context}.core.ts`, `src/redact` | none | build, merge, redact | nothing secret left outside of Errors, nothing else lost, both builders agree |
| Logger `src/api/logger.api.ts` | settings, transport, pause buffer, black box | log calls, settings, pause, resume, flush, dump, close, crash handlers | no entry forgotten across pause, settings and close |
| Process-wide state of the logger | global transports with level wrappers, once and throttle keys | add, remove, clear, dispatch; once, throttle | each entry reaches what was registered when it was logged; limits hold while a key is remembered |
| Settings `src/lib/settings.utils.ts` | resolved settings of a tree of loggers | resolve, merge, settings(), module(), child() | merging is overlaying; what the write path caches agrees |
| Spans and tasks `src/core/span.core.ts`, `src/api/{span,task}.api.ts` | counters, ring of completed spans | start, end, tree | the forest shows the nesting of the program |
| Metrics `src/metrics` | histograms by label, label cache | record, quantile | labels bounded, quantiles in the right bucket |
| Log server `src/http/log.server.ts` | ring of entries with ids | push, poll | no entry repeated or hidden |
| Console, sqlite, formatting, plugins, helpers | none or output only | | pure functions and I/O |

**How they interact.** `buildTransports` (`src/writer/factory.writer.ts`) nests the
transports: batching around adaptive around repeat around the fan-out over console,
file and database. A wrapper calls `write`, `writeBatch`, `flush` and `close` of what
it wraps; nobody calls back upwards, except that the database transport writes
notices to its siblings. Everything runs on one JavaScript thread, so the
interleaving is that of *callbacks*: callers, microtasks, timers and the
continuations of awaited promises. Only the worker thread is really concurrent.

**What is hard**: the hazards in PROJECT.json, each at its line. They are the
source of the properties below. Two have no property yet: a flush of the batching
transport does not flush what it wraps, which needs the stack of two transports in
one module, and the gzip step of a rotation.

## 2. Plan

Done: the delivery queue with the three buffering transports that implement it, the
worker thread, resolvers, grouping, the logger, and the machines of the rest of the
process (section 3). What is left, in this order:

1. `AsyncTransport` composed with a `FileTransport`: what a `flush()` of the whole
   stack promises, where `AsyncTransport.flush()` does not flush the file.
2. The gzip step of the size rotation, with the names of the archives.
3. A specification of *grouping* (a counter that conserves what it is given) that
   `RepeatTransport` and `AdaptiveTransport` both implement.

## 3. Modules

| Module | What it is |
|---|---|
| `Lists` | `Array.filter` and the sum of a list, as recursive functions |
| `Batching` | `splice(0, batchSize)`: batch and rest |
| `DeliveryQueue` | what a buffering transport promises: a FIFO queue that loses only what it counts |
| `DatabaseTransport`, `AsyncTransport`, `FileTransport` | the three buffering transports; each implements `DeliveryQueue` |
| `ThreadTransport` | the worker thread transport, both sides |
| `Resolvers` | lookups and the asynchronous path of an entry |
| `GroupCounter`, `RepeatTransport`, `AdaptiveTransport` | duplicate counting, repeat suppression over it, storms around that |
| `RingBuffer` | the circular buffer behind the black box, the span registry and the log server |
| `Logger` | one logger, its entries and its calls |
| `EntryBuilder` | building, merging and redacting an entry |
| `Settings` | settings of a tree of loggers |
| `GlobalTransports`, `KeyLimits`, `Watch` | registration of transports, once() and throttle(), watchers |
| `FanOut`, `DailyFiles` | siblings with the lazy database; paths of daily files |
| `Spans`, `Profiler`, `LogServer` | spans and their trees, durations and quantiles, polled entries |
| `MCDatabase` | the database transport with and without a factory, in one run |
| `MCTimers`, `MCWriters`, `MCProcess` | machines that share no state, one at a time in one run: batching transport and watchers; file transport and grouping; the nine of the rest of the process |
| `*_proofs` | lemmas, invariants and refinements, for the module they are named after (`Process_proofs`: daily files, log server, `once()` and `throttle()`, fan-out, registry of global transports, settings, spans, watchers, profiler; `Entries_proofs`: resolvers, logger, the grouping transports, entry building; `Containers_proofs`: induction, recursive functions, sequences, filters, sums and the ring buffer, shared by the others) |

The configurations give the constants values only; the modules are run as they
stand, so what TLC checks is what the proofs are about. A definition called
"Mutant of X" is a bug one could write in X. No specification uses it.

### Buffering transports

An action is one synchronous run of JavaScript.

*DatabaseTransport.* `write()` is `WriteRefused` (the backlog cap of a recovery) or
`WriteQueued`; `flush()`, the interval and the timers are `Flush`, `IntervalTick`,
`RetryTimerFires`, `ReconnectTimerFires`; the continuation of `writeNext` is
`WriteOk(w)` or `WriteFail(w)`, the latter with the four ways out the code has; the
continuation of `attemptReconnect` is `FactoryOk` or `FactoryFail`; `close()` is
`Close`, its microtask `CloseRetry`, its end `CloseAdapter`. `inflight` is the *set*
of batches being written: that there is at most one is a property, not the type.
`BackoffElapses` is the clock, apart from the timer since `setTimeout` truncates a
fractional wait. `rebuilding` counts factory calls not answered: a failed write to
the dead adapter during the first call arms a second one. Left out: notices,
`transportErrors`, the length of waits.

*AsyncTransport.* `queue` and `batch` are the two places of an entry; `sent` is how
far the per-entry loop of `dispatchBatch` got. A `flush()` call that awaits is a
record in `flushes`: how many entries had been offered, and whether its continuation
is queued. Calls that agree in both take the same steps, so a set is enough.
`Settle` is the tail of `runFlush`; `WaitForFlushes` is the loop of `close()`.

*FileTransport.* `running` is the run behind `flushPromise`. A call of `flush()`,
`rotate()` or `close()` is a process whose `pc` says what it awaits. `streams` holds
every stream that is not finished, not only `this.stream`: `closeStream()` can null a
newer one, which then stays open with a chunk on it. A stream remembers the place its
file moved to: a rename does not detach it. Sizes are counted in lines. Left out:
gzip, the outcome of fsync, files left by an earlier process.

### ThreadTransport

Main thread and workers are separate processes with one message queue in each
direction; error and exit events are messages too, behind what the worker had sent.
`waiting` are the writes inside `ensureWorker()`, each with what it waits for: the
restart gate, `this.ready` of a worker, or `this.spawn`. They differ in when they go
on, which is what `OnlyFirstOvertaken` is about. The worker handles messages
concurrently (`jobs`): it begins them in order, and a flush does not wait for the
entries before it. `Crash` posts an error and an exit event, `Exit` only the latter,
at any moment. The last of `MaxSpawns` workers does not fail: it is a bound, and
outages still follow each other before it.

### Entries on their way

*Resolvers.* Time is `now`; a call that is no longer `live` timed out and may still
answer. `KeyOf` maps every plain object to one cache key, as `String(value)` does.
The deadline is fair, the answer is not.

*Logger.* `flow` is where the entries are. `settings()` makes a new generation of
transport and resolver set; `requests` are `flush()` and `close()` calls with what
they found under way (`Accepted`) and, once the lookups are over (`Idle`), the transport
they called and what that had then. `Crash` is the handler of uncaught errors: it
logs, dumps and flushes without awaiting; a filter may drop its entry, a level may gate
it. A transport delivers an entry whenever it likes (`TransportDelivers`), and its
`flush()` and `close()` may end, resolved or rejected, with entries undelivered
(`Return`, `DumpEnds`): a batching transport does not flush what it wraps, a file
transport joins a running flush. So `CallsDeliver` is what the *logger* adds: it gives
its transport everything the call found, after the lookups, and nothing is left if the
transport delivers what it was given. Left out: log calls from within the replay of
`resume()`, which is one step here, and closures for message or context that throw.

*RepeatTransport, AdaptiveTransport.* The repeat transport never awaits between
reading and changing its groups, so its operations are functions of its state, and
the adaptive transport applies them. A message stands for `times` entries: a summary
that is summarised again is counted in full.

*EntryBuilder.* A value is a tree whose leaves have a kind (a string with a secret
the pattern finds, one with an e-mail address, a number, an array, an Error, the object
`serializeError()` makes of one). A serializer yields any value, before redaction. `RedactInternal`
follows `redactInternal` branch by branch, with the short cut that hands on an object
none of whose children needs a copy; the recursion of the code is a recursive function
over the paths of the value (`Redacted`). The calls are a constant: settings, message and
the contexts that are merged; `MCProcess` gives the ones of the run.

### The rest of the process

*Settings* keeps what each logger caches (`NewLogger`, `ApplyHot`) beside the patches
that were given, laid over each other: `MergeIsOverlay` compares forty lines of
`mergeSettings` with `ResolveSettings` of the overlay; the fields that choose the builder
of entries are modelled one by one. *FanOut* calls every child
before anything is awaited, as `map()` under `Promise.all` does. *Watch* counts probes
under way and timers whose handle is lost; a wait is drawn from those the jitter allows,
and a hook or `isUp()` of the user may throw, which ends the chain of its probe. *DailyFiles* splits a flush at its awaits.
*Spans* has ids modulo `IdSpace`, a callback may go on in a context that ended, and a
span may be given its parent or its trace: one of this process or a foreign one.
*LogServer* has one client, whose answers may be lost, and restarts of the server.
*KeyLimits* has a clock that may be set back. *GlobalTransports* dispatches to a
snapshot while transports change the list.

## 4. Runs

| Run | Shows |
|---|---|
| `database` | `TriesBounded`, `CloseNeverStrands`, `CloseAbandonsOnlyAfterRetry`, the queue; with overlapping rebuilds outages end and close completes, and the buffer empties again and again through backoff and drops |
| `timers` | the batching queue, its books, no lost wake-up; flush, close and write settle; and the watchers |
| `writers` | files: order on disk, the queue; buffers drain, full files rotate, calls return. Grouping conserves entries; storms; every group is reported |
| `thread` | entries once and in order, one worker after the other, outages end, calls return |
| `resolvers` | shared lookups, deadlines, freshness, `waitForIdle()`, delivery |
| `logger` | every entry in one place, in order; flush, close and dump see what they should |
| `process` | nine machines, one at a time: an initial state chooses which one runs |
| `database_dead_write`, `file_close`, `settings_profile`, `thread_exit`, `daily_race` | expected violations, see below |

Many properties are conjunctions of named parts that belong together, each with a
comment of its own:

* `BooksKept` = `TypeOK`, `Accounting`, `QueueBounded`, `LossesReported`;
  `CallsSettle` = `WritesSettle`, `CloseCompletes` (batching).
* `RecoversAndCloses` = `RecoveryEnds`, `CloseCompletes` (database).
* `FilesConsistent` = `TypeOK`, `DiskIsRecent`, `WaitersHaveStream`;
  `NothingPilesUp` = `BufferDrains`, `FullFileRotates`.
* `EntriesHandedOn` = `EveryEntryOnce`, `OnlyFirstOvertaken`; `OneAfterTheOther` =
  `OneWorker`, `OnlyDeadWorkersReplaced`; `OutagesHandled` = `TypeOK`,
  `GateMeansNoWorker`, `AttemptsSinceReady`, `OnlyEarlyExitWedges`, `OutageEnds`; `CallsEnd` = `CallsReturn`,
  `CloseIsClean` (thread).
* `LookupsConsistent` = `TypeOK`, `OneLookupPerKey`, `WaitsAreRegistered`, `NoLateAnswers`.
* `GroupsConsistent` = `AdaptiveTypeOK`, `EveryEntryAccounted`, `TimersMatchGroups`,
  `StormGroupsInStorm`, `NothingDroppedOutsideStorms`, `TriggerIsVisible`.
* `EntriesConsistent` = `LoggerTypeOK`, `EveryEntryOnce`, `OrderKept`, `RecorderKeepsLast` (logger).
* `WatchersConsistent` (watchers), and of `process`: `RegistryConsistent`, `LimitsKept`, `TreesTellSpans`,
  `PollsBringAll`, `DaysConsistent`, `SiblingsConsistent`, `SettingsConsistent`,
  `ProfileIsTrue`, `EntriesAreClean`: the parts are at the end of each module.

**Bounds.** Batches of 2 with 4 or 5 entries give full and short batches, a requeued
batch with entries behind it, and a queue longer than a batch. A cap of 2 gives a
first, a middle and a last attempt. `BacklogCap` 2 is reached while a batch is in
flight, `MaxQueueSize` 3 with a batch running and entries queued. Four lines, buffers
of 2, files of 2 and two segments give a full buffer, a full file, a segment renamed
over, and a stream whose file was. Three workers give two replacements: a late event
of the first meets the second and the third. Caches and groups of one or two keys over
three evict. The ring of the logger holds 2 of 3 entries, its pause buffer 1 of them; four log and
other calls (`MaxEvents`) are a crash, its dump and flush and one more call between them.
Ids of three values over four spans wrap around, with a registry of two, and two spans
are given ids that are not those of one context. An interval of 3, a cap of 4 and a jitter
of 25% give waits that shrink and waits above the cap. Four entries in batches of two
start a storm, fill its groups and evict one. Clocks of two or three steps pass every
window. Values nested twice, with `redactDepth` 1 or 2, have an object at the limit and one
below it. `MaxEntries`, `MaxPending`, `MaxSpawns`, `MaxCalls` and the other constants
commented as bounds belong to the models; the others are settings of the code.

**Fairness.** Timers fire, microtasks and continuations run, the clock goes on: the
event loop sees to it. Awaited adapter, factory and inner writes settle one way or the
other, never a promised success: every liveness property of the database and batching
transports holds though all of them fail for ever. A running worker thread runs and
its messages are delivered; nothing makes it live. A lookup has a deadline, which is
fair; its answer is not. The timers of a watcher fire, and nothing is assumed of the
outcome of a probe. `write()`, `flush()` and `close()` are never fair; nobody has to call
them. The flush interval is fair for the
database and file transports, which always have one, and not for the batching
transport. The file system answers every open, write and close, with success or an
error. An adapter whose promise never settles is outside the assumption, and would
block the transport for good: the code has no deadline for it.

Where two machines share a run, the one at rest has nothing under way, so that its
fairness asks for nothing; `MCWriters` says so of the file interval, which is never at rest.

**Deadlock** is checked where a call stays possible for ever (`Flush` of the database,
batching and file transports). In the other modules the bounded calls run out, and
the run says so.

**Where the code and what is said of it disagree** (one run each, expected to be violated):

* `database_dead_write`: while the factory is awaited any trigger writes to the adapter
  that was closed as dead.
* `file_close`: `close()` joins a running flush, be it one that found the buffer empty,
  and leaves the lines buffered since unwritten.
* `settings_profile`: profiling switched on a second time registers its histogram a
  second time; `settings()` throws with the new settings half applied.
* `thread_exit`: the exit event of a worker that was not ready yet is a crash for the
  transport, but nothing settles the `ready` promise that `this.spawn` awaits. The restart
  finds `this.spawn`, awaits it too, and so does every later write: the outage never ends.
  `OutageEnds` is the claim without this case, and `OnlyEarlyExitWedges` says it is the only one.
* `daily_race`: two transports that look at the map before either has listed the directory
  write to two files, if the second lists after the first has created its own.
  `OneFileUnlessRaced` is what remains true, and bounds the damage.

Other disagreements met while modelling, which the models contain but no run singles
out: the database transport drops entries that were never attempted with a short failed
batch at the cap, can give a backlog up while the last restart is under way, and does
not close a rebuilt adapter that is replaced; a flush during a file rotation can hand
its chunk to the stream that is being ended, and two calls that joined one write both
rotate; a worker that exits after it was ready is not a crash for the transport, which
goes on posting to it, though the comment at `src/worker/thread.transport.ts:32`
speaks of any exit; `buildEntryFast()` cuts a long string message that `buildEntry()`
without redaction does not, though its comment says the two agree; `Logger.rotate()`
reaches no file when the transport came from the factory, whose fan-out has no
`rotate()`. And:

* An Error is expanded and handed on unscanned: a token in its message or stack is
  written (`src/redact/index.redact.ts:238-241`, `src/core/entry.core.ts:20-27,176`),
  though `README.md:17` guarantees that logged secrets never reach disk and
  `llms.txt:172` that redaction runs before every transport. `NothingSecretLeft` excepts
  the inside of an Error. The comment at `src/core/entry.core.ts:15-18` holds of the keys
  `error` and `reason`: without redaction an Error under another key stays one
  (`ErrorsExpanded`).
* The jitter is added after the cap, so a wait may exceed `maxMs` by its share and be
  shorter than the one before, though `src/types/watch.d.ts:8-13` calls `maxMs` the upper
  bound of a single wait (the next key says the share is added and subtracted).
* `runProbe()` rejects when `isUp()` or a hook throws, and the chain of probes ends:
  `src/watch/index.watch.ts:195` says it never rejects.
* `settings()` changes one logger, and those made from it later, though
  `src/api/logger.api.ts:229` says it overrides the settings of all descendants: a child
  that exists keeps its own. `SettingsConsistent` is about each logger's own patches.
* Span and trace ids are four hex digits of a counter
  (`src/core/span.core.ts:4` calls them collision-free): after 65536 spans they come
  again. A registry of 200 spans has no two of one id, but a long-lived parent or a trace
  may share its id with a younger one; `TreesTellSpans` holds while the spans the registry
  mentions were started closer together than that.
* `flush()` may return with entries undelivered: the transport may reject, which is
  swallowed, a batching transport does not flush what it wraps, and a file transport joins a
  running flush (`src/api/logger.api.ts:586` says: deliver buffered entries). `close()`
  and `dump()` reject instead.
* Calls to a worker thread that died wait for an acknowledgement for ever; `CallsReturn` of
  `ThreadTransport` excepts them. What one occurrence of an error in a storm comes to (it is
  never written) and entries of different contexts that overtake each other are allowed by
  the code, and by the properties.

## 5. Proofs

The only assumptions are those on the constants: batch size, caps and limits are
positive (the constructors' `Math.max(1, ...)`), the switches are Booleans.

**DeliveryQueue.** `QueueInv`: order and accounting, strengthened by *no number in the
queue is ahead of the count*, without which the next entry could not be shown to be
larger than all before it.

**DatabaseTransport.** `TypeCorrect`, then `ControlInv`, the conjunction of the control
properties: they need each other. `CloseNeverStrands` rests on *one write in flight* and
on *a closed transport has no backoff, recovery or cooldown*, `RecoveryHasBacklog` on
where a failed batch goes, `TriesBounded` on the cooldown being armed below the cap only.
Each of the safety properties is a corollary or an action property of it. `SingleFlight`,
`WaitsRespected`, `CloseCancelsWaits` and `ClosedDropsNothing` are proved and in no run.

**Refinement.** `Spec => ImplementsQueue` for the three buffering transports and every
value of the constants. `waiting` is mapped to the batch in flight followed by the
buffer: then taking a batch and putting it back are stutters, a success delivers a
prefix, a drop gives up a stretch. `StrictFifo` and `Accounting` follow from the queue's
invariant through the mapping. For the batching transport the queue's `dropped` is what
the code drops plus what failed batches lose.

**AsyncTransport.** `AsyncInv`: types, `pending` as the sum of both places, and the
wake-up invariant `QueueIsWatched`, which is inductive only together with
`InnerClosedLast` and the phase of close. `BooksKept` adds `BooksInv`: a running batch is
never longer than `batchSize`, so one more counted error covers what a batch can lose.
`FlushSettlesAll` follows without more: a step loses no flush() call but one that finds
the transport empty, and a call that starts a batch goes on under its own number.

**FileTransport.** `LinesInv`: outside a running write the run holds no lines, so
`TargetKnown` overwrites nothing. With it every step of streams, files and rotations is a
stutter of the queue, and the chunk leaves as its head.

What is on disk is a second invariant, `FilesInv`, from which `FilesConsistent`
follows: a write in flight goes to the stream in use or to one that was let go with no
other in its place (`OpenStreams`); a call that waits for a stream is a waiter of exactly one
(`OneStreamEach`), so that none waits for a stream that is gone; files newer than that of the stream in use are
empty, and the lines of the files, read from the oldest, are cuts of what was delivered
that follow each other without a gap (`DiskInv`). A shift forgets the oldest cut only.

**ThreadTransport.** `OneAfterTheOther`. The danger is a late event of a thread that has
been replaced: taken for a crash, it would let a third thread start beside the second.
`ThreadInv` says why there is none. An event that still counts as a crash (an error, or
an exit of a thread that never settled) is in the queue of `this.worker` (`Events`); an
error is followed by its exit only, and an exit by nothing (`EventsLast`), so that one
crash is counted once: after the error the thread is settled, which is what the flag is
for. `Alive` and `Gate` close the argument: only the last thread runs, and a restart is
pending only while there is none. `AttemptsSinceReady` counts the threads lost since one
was ready and rests on the same facts.

The entries need three more parts. `WaitersLast` and `SpawnState`: the writes that wait
are the last ones made, apart from the very first, and they wait for the gate or for the
thread started last. `Messages`: "ready" is the first message of a thread, answers carry
numbers that were asked for, and the answer to `close()` follows the close of the
transports, which is what `CloseIsClean` comes to. `Handed` and `Placed`: entries are
ascending in what was taken, in each queue, and across them, and an entry that does not
wait is in one place. Together they give `EntriesHandedOn`: a write that goes on when
its thread is ready finds nothing younger before it.

**DailyFiles.** `DaysConsistent`. Once a path is shared for a day nobody starts to list
the directory (`SharedIsFirst`), so the transports that are still to pick and the files
claimed are together at most the transports (`OnePickEach`): each adds one file at most.
`OldOnlyWrapped`: a path over a file of an earlier process is index 1, and the last index
of the day is taken.

**LogServer.** `PollsBringAll`. The ring holds the newest entries of this life under
consecutive ids (`RingIsTheEnd`), and the cursor covers what the client has of it
(`CursorCovers`). It uses `PushAppends` of `Containers_proofs`: `push()` followed by
`toArray()` is `Append`, less the oldest element of a full ring.

**KeyLimits.** `LimitsKept`. A least-recently-used cache keeps the order of use: behind a
key there are only keys used since (`InOrderOfUse`), so a key is pushed out by
`CacheSize` others that were. The clock may be set back, which the spacing survives.

**FanOut.** `SiblingsConsistent`. `FanInv` says of each child which calls it was given,
and that it holds exactly their entries that pass its level, in order (`ChildOK`). For
the database these are the calls that no longer wait for the load; behind a call that
waits all later ones do (`EnsureQueue`), or its entries would be overtaken. A flush is
the exception: it never waits, and carries nothing.

**GlobalTransports.** `RegistryConsistent`. A transport is regular until it is added
twice or cleared while it has a level. For a regular one the map of wrappers tells what
the list holds (`MapTellsList`): nothing, the bare transport, or its one wrapper, and no
wrapper is in two places. So `removeTransport()` finds what is there, and an insertion or
a removal moves the others by one place at most. A dispatch works on a snapshot: what was
handed the entry is the part of it already passed, without those whose level is higher.

**Settings.** `MergeResolves` says of any two patches that merging the second into what
the first resolved to is resolving the second laid over the first: by cases for the
blocks that read several keys, of which `box` and `task` are themselves laid over each
other. `SettingsConsistent` follows by `SettingsInv`: the patches have their form
(`IsPatch`), the settings of a logger are what its patches resolve to, and `HotOK` relates
what it caches to them. A `settings()` that threw left the transport behind; it takes a
profiler that was switched on, off and on again, hence three patches. The fast builder
is in use only while `FastSuffices`, which names each setting it ignores.

**Spans.** `TreesTellSpans`. The number of a span gives its id (`SpanOK`), so that ids
of spans less than `IdSpace` apart differ, and the numbers of traces, with which
`Numbered` labels the spans, do not run ahead of them. A foreign id is none of these. The registry holds ended spans,
each in one place (`RegistryOK`); `PushAppends` tells what a push does to it. A recorded
span is then the node of its id, and by induction over its number the rendering reaches
it in at most that many steps: its parent has a smaller one, or is no longer there and
the span is a root.

**Watch.** `WatchersSafe`: all of the watcher's properties but `KeepsProbing`, which is
liveness. `WatcherOK` counts the probes and timers of one watcher against the calls that
made them, with timers whose handle was lost among them, and relates the flag, the
last edge logged and the wait, which is one of those the jitter allows for the failures
counted now (`WaitTellsFailures`); `WatcherStep` is what a step may do to a watcher, so that
the action properties come from the same lemmas as the invariant. `RunningReachable` is
inductive once handles, the declared watchers and the one of the settings are known to
have been started.

**Profiler.** `ProfileIsTrue`. While the cache has room, every label in use is that of a
name in it; once it is full, it stays so and only the overflow label is new
(`ProfilerInv`): that bounds the labels although names are evicted and come back. The
counts of the buckets are cuts of the sorted durations (`CountsTell`), hence a rank
crosses where the true quantile lies; the rest is arithmetic of fractions, that the
interpolation stays in its bucket (`CloseToTrue`) and grows with the rank
(`EstimatesGrow`). No duration is lost because one label and one name grow by one
(`SumRaised`).

**Resolvers.** One invariant, `ResolverInv`, for `LookupsConsistent`,
`SameContextInOrder`, `ServedFresh` and `IdleMeansDelivered`. A live call is the one
registered for its key (`CallsAreRegistered`); what is cached is the answer of a call
that is over, and it has expired whenever its key is being looked up
(`CacheTellsAnswers`). Hence a later entry of the same context needs at least the lookups
an earlier one still waits for (`WaitingInOrder`): it cannot find its values cached nor
look them up again, and neither overtakes. `IdleCovers` says the same of a
`waitForIdle()` call and the entries before it. That a context has at most one plain
object is used here: two would share a cache key and one call.

**Logger.** One invariant, `LoggerInv`, for `EntriesConsistent`, `CallsDeliver` and
`CrashIsRecorded`. Its first half, `PlacesInv`, says where an entry is: `OnePlace` of
the pipeline, and that the pause buffer, what it refused and the pipeline have nothing
in common and together hold the numbers up to `logged`. `EveryEntryOnce` counts four
sets, of which exactly one is then a singleton. `OrderKept` needs more than the order of
`direct`: the pause buffer is ascending, everything in it is younger than what was
handed over, and it is empty while the logger is not paused, or `resume()` would be
overtaken. `Accepted` of a call is the other half (`RequestOK`): an entry the call found is
shown, gone, in a transport, lost to a closed one, or in a lookup the call awaits; once
the call has gone on to its transport, what that holds of it was given before. `RecordKeeps` uses `PushAppends`
for the black box. `resume()` writes a list, so `WriteAllKeeps` is an induction over it,
with what one entry does (`WriteKeeps`) as its step.

**Entry building.** `EntriesAreClean`, for any settings, message and contexts. The
invariant is only that the entry is `EntryPlan` of its call: the argument is about a
function. A predicate that holds at the empty path, and at a path whenever at its
parent, holds at all of them (`PathInduction`), and one that holds at a path whenever at
every child, too (`PathDescent`): the first tells what the result has at a path, the
second that the recursion is defined (`RedactedUnfolds`). `ResultTells` is the
strengthening: at each path of the result there is what the call for that path returned,
the censor, or a leaf with nothing to find that came with its object as it was. No secret
survives the short cut because an object whose children are all such leaves, with names
that are not masked, is the only one handed on (`ChildNotScanned`). A second redaction
finds nothing, since what it meets is either the censor or such a result
(`RedactedTwice`). Errors become leaves that are final (`LeafBelow`, `ErrorsAreContext`). A merged context is a value because each of its fields is one of a
context (`MixedContext`), which is why what was logged reaches the entry at its old
path (`SameBelow`).

**Grouping.** `AdaptiveInv`, for `GroupsConsistent`: of every key, the entries written
are `Account` (shown, or counted by a group of the repeat transport, or refused) plus
those of the groups of the storm plus those dropped. An operation moves weight from one
to another, so the lemmas say what it does to a *sum over a list*: the sum of what is
appended, of the part filtered out and of the part kept (`Containers_proofs`). A filter
and a count address a group by its key, which is sound because no key has two groups
(`KeysOnce`, part of `CounterOK`), and a timer by key and number, which are new with
each group. A message stands for several entries when a storm's summary is repeated, and
an induction over the batch carries the account through it, in and outside a storm.

**Induction.** The provers take no predicate as a parameter, so induction over the
naturals is stated once for a *set* (`SetInduction`), and a set comprehension stands for
the predicate. `Iterated` shows with it that a recursive function whose step is itself a
function exists and obeys its equation. That reaches the recursive *functions* of the
models (the filter `Among`, the largest index, the length of a queue, the levels of a
tree, a doubled interval, the sum of a list, a batch handed on entry by entry, the
redaction of a value), not RECURSIVE operators nor `SelectSeq` and `FoldLeft`, which take
an operator.

The proofs changed the models in six ways: guards of a CASE that overlapped, where TLC
takes the first and the logic any (`FanOut`, `EntryBuilder`, `Settings`), are exclusive
now; filters that are reasoned about, and the power of two in the backoff of a watcher,
and the handing on of a list of entries (`resume()`, a batch, the summaries of a storm),
are recursive functions; the sums of the profiler are totals of lists, where a fold took
an operator; the redaction, too, is a recursive function now, and its calls are a constant
of which only their types are assumed; the constants for undefined and false are assumed to be none of
the objects they are told from (`Settings`); and `OthersStay` of the
registry, which was false of a process with a single transport, asks now whether every
transport was removed, where it asked whether one was.

**Only model-checked**: liveness and fairness, which are beyond the prover.

## 6. Not modelled

* **Console, sqlite adapter, formatting**: output. The adapter is the environment of
  `DatabaseTransport`; rendering has no property that is not a comparison of strings.
* **Framework plugins, the capture transport of the tests**: adapters without state.
* **Helpers**: `withRetry` is a loop over one awaited call; memo, registry helper and
  traceparent parsing are short, sequential and covered by unit tests.
* **Parts of modelled components**: gzip of rotated files; counters, gauges and the text
  of the metrics; call sites, colours and the process snapshot of a fatal entry;
  log calls that only build one entry in another shape (`box()`, `table()`); wrappers
  that only forward a call. The note of each component in PROJECT.json says which.
* **Steps that are coarser than the code**: `renameSync` and `statSync` do not throw in
  `FileTransport.Shift` (`src/writer/sizeBased.writer.ts:50,65,68`; the rotation would
  reject to its caller), and a daily file always opens (`DailyFiles.WriteChunk`; a stream that
  fails is `FileTransport`'s). A storm groups by the key of the repeat transport, where the
  code's storm key is coarser (`src/writer/adaptive.writer.ts:18`), so that entries with
  one message and different errors are two groups here and one there. A lookup whose resolver
  throws leaves `inFlight` at once, a few microtasks earlier than in the code
  (`src/resolvers/index.resolver.ts:146-147,173-175`), in which a second entry could join
  it. The console of the fan-out never rejects, and the database writes it no notices.
  A global transport that was added twice, or cleared while it had a level, is excepted by
  the registry's properties, which say nothing of its wrappers then.
