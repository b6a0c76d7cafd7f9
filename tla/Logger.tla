-------------------------------- MODULE Logger --------------------------------
(***************************************************************************)
(* One logger (src/api/logger.api.ts): the way of an entry from the call   *)
(* through pause(), the resolvers, the black box (src/brain/ring.utils.ts) *)
(* and the sampler to the transport (src/core/pipeline.core.ts), and what  *)
(* settings(), flush(), dump(), close() and the crash handlers do to the   *)
(* entries that are under way.                                             *)
(*                                                                         *)
(* settings() builds a new transport and a new resolver set: generation gen*)
(* of both is in use.  A transport may deliver an entry at any moment, and *)
(* its flush() and close() may end, resolved or rejected, before they have *)
(* delivered all they should: the properties say what the logger adds to   *)
(* the promise of its transport, not that the transport keeps it.          *)
(***************************************************************************)
EXTENDS Naturals, Sequences, FiniteSets, SequencesExt, RingBuffer

CONSTANTS PauseCap,    \* Logger.PAUSE_CAP
          RingSize,    \* settings.blackbox.size
          MaxGen, MaxLogCalls,
          MaxEvents    \* with MaxGen and MaxLogCalls a bound of the model: log calls and other calls

ASSUME LoggerAssumption ==
    {RingSize, MaxGen} \subseteq Nat \ {0} /\ {PauseCap, MaxLogCalls, MaxEvents} \subseteq Nat

Gens == 1 .. MaxGen
\* Entries the builder makes or drops (a filter, a context that throws), without
\* a resolvable field, with a lookup, or with one whose resolver throws.
EntryShapes == {[level |-> "info", plan |-> "builds", hop |-> "none"],
                [level |-> "error", plan |-> "builds", hop |-> "none"],
                [level |-> "info", plan |-> "builds", hop |-> "lookup"],
                [level |-> "info", plan |-> "builds", hop |-> "throws"],
                [level |-> "info", plan |-> "drops", hop |-> "none"]}

VARIABLES logged,       \* history: log calls that pass the level gate
          flow,         \* where the entries are; see NoEntries
          enabled, gen,
          paused, pauseBuffer, pauseDropped,
          closedGens,   \* transports that are closed
          requests,     \* flush() and close() calls that have not returned
          dumps,        \* dump() calls that are writing the file
          issued        \* history: flush(), close(), dump() calls and crashes

settingsVars == <<enabled, gen>>
pauseVars == <<paused, pauseBuffer, pauseDropped>>
loggerVars == <<logged, flow, settingsVars, pauseVars, closedGens, requests, dumps, issued>>

-----------------------------------------------------------------------------
(* The pipeline.                                                           *)

Off == [NewRing(RingSize) EXCEPT !.count = RingSize + 1]   \* no black box

NoEntries == [resolving |-> {},  \* entries in their asynchronous hop
              ring |-> NewRing(RingSize),
              latest |-> <<>>,   \* history: the last entries built with the ring on
              direct |-> <<>>,   \* history: entries without a hop given to a transport
              buffered |-> [g \in Gens |-> {}],
              shown |-> {},      \* history: entries the transports delivered
              gone |-> {},       \* history: disabled, dropped by the builder, sampled out
              lost |-> {}]       \* history: given to a closed transport

Record(fl, e) ==
    IF fl.ring = Off THEN fl
    ELSE [fl EXCEPT !.ring = RingPush(@, e.n),
                    !.latest = Append(IF Len(@) < RingSize THEN @ ELSE Tail(@), e.n)]

Dispatch(fl, e) ==
    LET handed == [fl EXCEPT !.direct = IF e.hop = "none" THEN Append(@, e.n) ELSE @]
    IN  IF gen \in closedGens THEN [handed EXCEPT !.lost = @ \cup {e.n}]
                              ELSE [handed EXCEPT !.buffered[gen] = @ \cup {e.n}]

\* deliver(): the black box, the sampler, the transport in use now.
Deliver(fl, e, out) ==
    IF e.plan = "drops" THEN [fl EXCEPT !.gone = @ \cup {e.n}]
    ELSE IF e.n \in out THEN [Record(fl, e) EXCEPT !.gone = @ \cup {e.n}]
    ELSE Dispatch(Record(fl, e), e)

\* writeEntry()
WriteEntry(fl, e, out) ==
    IF ~enabled THEN [fl EXCEPT !.gone = @ \cup {e.n}]
    ELSE IF e.hop = "none" THEN Deliver(fl, e, out)
    ELSE [fl EXCEPT !.resolving = @ \cup {[entry |-> e, gen |-> gen]}]

\* The entries es are written one after the other.
WriteAll(fl, es, out) ==
    LET written[i \in 0 .. Len(es)] ==
            IF i = 0 THEN fl ELSE WriteEntry(written[i - 1], es[i], out)
    IN  written[Len(es)]

\* The sampler may drop any of these entries, but no error.
SampledOut(es) == SUBSET {e.n : e \in {x \in es : x.level # "error"}}

\* The bound on log calls and other calls together.
Within(events) == logged + issued + events <= MaxEvents

LoggerInit ==
    /\ logged = 0 /\ flow = NoEntries
    /\ enabled = TRUE /\ gen = 1
    /\ paused = FALSE /\ pauseBuffer = <<>> /\ pauseDropped = {}
    /\ closedGens = {} /\ requests = {} /\ dumps = {} /\ issued = 0

-----------------------------------------------------------------------------
(* Logging.                                                                *)

\* write() of the logger.
LogWrite(e, out) ==
    IF ~paused THEN flow' = WriteEntry(flow, e, out) /\ UNCHANGED pauseVars
    ELSE IF Len(pauseBuffer) >= PauseCap
      THEN pauseDropped' = pauseDropped \cup {e.n} /\ UNCHANGED <<flow, paused, pauseBuffer>>
      ELSE pauseBuffer' = Append(pauseBuffer, e) /\ UNCHANGED <<flow, paused, pauseDropped>>

Numbered(shape) == [n |-> logged + 1, level |-> shape.level, plan |-> shape.plan,
                    hop |-> shape.hop]

Log(shape) ==
    /\ Within(1) /\ logged < MaxLogCalls /\ logged' = logged + 1
    /\ \E out \in SampledOut({Numbered(shape)}) : LogWrite(Numbered(shape), out)
    /\ UNCHANGED <<settingsVars, closedGens, requests, dumps, issued>>

\* The lookups of an entry are over: it goes to the transport of this moment.
Resolved(r) ==
    /\ r \in flow.resolving
    /\ \E out \in SampledOut({r.entry}) :
         flow' = Deliver([flow EXCEPT !.resolving = @ \ {r}], r.entry, out)
    /\ UNCHANGED <<logged, settingsVars, pauseVars, closedGens, requests, dumps, issued>>

Pause == /\ ~paused /\ paused' = TRUE
         /\ UNCHANGED <<logged, flow, settingsVars, pauseBuffer, pauseDropped, closedGens,
                        requests, dumps, issued>>

\* Mutant of Resume: the buffer is not emptied.
ResumeKeeps ==
    /\ paused /\ paused' = FALSE
    /\ \E out \in SampledOut(ToSet(pauseBuffer)) :
         flow' = WriteAll(flow, pauseBuffer, out)
    /\ UNCHANGED <<logged, settingsVars, pauseBuffer, pauseDropped, closedGens, requests,
                   dumps, issued>>

Resume ==
    /\ paused /\ paused' = FALSE /\ pauseBuffer' = <<>>
    /\ \E out \in SampledOut(ToSet(pauseBuffer)) :
         flow' = WriteAll(flow, pauseBuffer, out)
    /\ UNCHANGED <<logged, settingsVars, pauseDropped, closedGens, requests, dumps, issued>>

\* settings(): a new transport, nothing is done to the one it replaces; the
\* black box is kept, started or dropped.
Settings(on, blackbox) ==
    /\ gen < MaxGen /\ gen' = gen + 1 /\ enabled' = on
    /\ flow' = [flow EXCEPT
         !.ring = IF ~blackbox THEN Off ELSE IF @ = Off THEN NewRing(RingSize) ELSE @,
         !.latest = IF ~blackbox THEN <<>> ELSE @]
    /\ UNCHANGED <<logged, pauseVars, closedGens, requests, dumps, issued>>

-----------------------------------------------------------------------------
(* Transports, flush, close, dump, crash.                                  *)

Shows(fl, g) == [fl EXCEPT !.shown = @ \cup fl.buffered[g], !.buffered[g] = {}]

\* A transport delivers what it has, on its own or because it is flushed.
TransportDelivers(g) ==
    /\ flow.buffered[g] # {} /\ flow' = Shows(flow, g)
    /\ UNCHANGED <<logged, settingsVars, pauseVars, closedGens, requests, dumps, issued>>

\* The entries a call has to see through: handed over or in the current lookups.
Accepted(fl) == (UNION {fl.buffered[g] : g \in Gens})
                  \cup {r.entry.n : r \in {x \in fl.resolving : x.gen = gen}}

\* Mutant of Request: the lookups under way are not waited for.
RequestNoWait(kind, fl) ==
    [kind |-> kind, on |-> {}, fails |-> FALSE, upTo |-> Accepted(fl), to |-> 0, given |-> {}]

\* flush() or close() up to the await of waitForIdle(), which rejects when one
\* of the lookups it awaits does.
Request(kind, fl) ==
    LET mine == {r \in fl.resolving : r.gen = gen}
    IN  [kind |-> kind, on |-> {r.entry.n : r \in mine},
         fails |-> \E r \in mine : r.entry.hop = "throws", upTo |-> Accepted(fl),
         to |-> 0, given |-> {}]

Call(kind) ==
    /\ Within(1) /\ issued' = issued + 1
    /\ requests' = requests \cup {Request(kind, flow)}
    /\ UNCHANGED <<logged, flow, settingsVars, pauseVars, closedGens, dumps>>

\* waitForIdle() is over: flush() or close() of the transport of this moment is
\* called, with q.given to deliver.
Idle(q) ==
    /\ q \in requests /\ q.to = 0 /\ ~q.fails
    /\ q.on \cap {r.entry.n : r \in flow.resolving} = {}
    /\ requests' = (requests \ {q}) \cup {[q EXCEPT !.to = gen, !.given = flow.buffered[gen]]}
    /\ closedGens' = IF q.kind = "close" THEN closedGens \cup {gen} ELSE closedGens
    /\ UNCHANGED <<logged, flow, settingsVars, pauseVars, dumps, issued>>

\* The end of flush() or close(): waitForIdle() has rejected, or the transport
\* has answered, whatever it delivered; flush() keeps a rejection to itself.
Return(q) ==
    /\ q \in requests /\ (q.fails \/ q.to # 0)
    /\ requests' = requests \ {q}
    /\ UNCHANGED <<logged, flow, settingsVars, pauseVars, closedGens, dumps, issued>>

Snapshot(ring) == IF ring = Off \/ ring.count = 0 THEN {}
                  ELSE {[entries |-> ToSet(RingArray(ring)), crash |-> FALSE]}

\* dump(): the snapshot is taken at the call.
Dump ==
    /\ Within(1) /\ issued' = issued + 1
    /\ Snapshot(flow.ring) # {}
    /\ dumps' = dumps \cup Snapshot(flow.ring)
    /\ UNCHANGED <<logged, flow, settingsVars, pauseVars, closedGens, requests>>

\* The entry of an uncaught error, which a filter may drop.
CrashShapes == {[level |-> "error", plan |-> p, hop |-> h] :
                  p \in {"builds", "drops"}, h \in {"none", "lookup"}}

\* The post-mortem: dump() and, when that is over, flush().
PostMortem(ring) ==
    /\ Within(1) /\ issued' = issued + 1
    /\ dumps' = dumps \cup {[s EXCEPT !.crash = TRUE] : s \in Snapshot(ring)}
    /\ requests' = IF Snapshot(ring) # {} THEN requests
                   ELSE requests \cup {Request("flush", flow')}
    /\ UNCHANGED <<settingsVars, closedGens>>

\* Mutant of Crash: the snapshot is taken before the crash is logged.
CrashDumpsFirst(shape) ==
    /\ Within(2) /\ logged < MaxLogCalls /\ logged' = logged + 1
    /\ LogWrite(Numbered(shape), {}) /\ PostMortem(flow.ring)

\* An uncaught error is logged first.
Crash(shape) ==
    /\ Within(2) /\ logged < MaxLogCalls /\ logged' = logged + 1
    /\ LogWrite(Numbered(shape), {}) /\ PostMortem(flow'.ring)

\* An uncaught error while the level of the logger lets no error through.
CrashGated == UNCHANGED <<logged, flow, pauseVars>> /\ PostMortem(flow.ring)

\* The file could not be written, or it is and the flush() of the transport that
\* follows has answered; the crash handler swallows both and flushes next.
DumpEnds(d) ==
    /\ d \in dumps /\ dumps' = dumps \ {d}
    /\ requests' = IF d.crash THEN requests \cup {Request("flush", flow)} ELSE requests
    /\ UNCHANGED <<logged, flow, settingsVars, pauseVars, closedGens, issued>>

LoggerNext ==
    \/ \E shape \in EntryShapes : Log(shape)
    \/ \E r \in flow.resolving : Resolved(r)
    \/ Pause \/ Resume
    \/ \E on, blackbox \in BOOLEAN : Settings(on, blackbox)
    \/ Call("flush") \/ Call("close") \/ Dump
    \/ \E g \in Gens : TransportDelivers(g)
    \/ \E q \in requests : Idle(q) \/ Return(q)
    \/ \E shape \in CrashShapes : Crash(shape)
    \/ CrashGated
    \/ \E d \in dumps : DumpEnds(d)

LoggerSpec == LoggerInit /\ [][LoggerNext]_loggerVars

-----------------------------------------------------------------------------
(* Properties.                                                             *)

\* The buffer of pause() is bounded.
LoggerTypeOK ==
    /\ logged \in 0 .. MaxLogCalls /\ gen \in Gens /\ closedGens \subseteq Gens
    /\ enabled \in BOOLEAN /\ paused \in BOOLEAN
    /\ Len(pauseBuffer) <= PauseCap
    /\ flow.shown \subseteq 1 .. logged /\ flow.gone \subseteq 1 .. logged

\* Every entry is in exactly one place: held by pause(), in its lookups, in a
\* transport, shown, or given up by a rule the logger states.
EveryEntryOnce ==
    \A n \in 1 .. logged :
        Cardinality({i \in DOMAIN pauseBuffer : pauseBuffer[i].n = n})
        + Cardinality({r \in flow.resolving : r.entry.n = n})
        + Cardinality({g \in Gens : n \in flow.buffered[g]})
        + Cardinality({i \in 1 .. 4 :
                         n \in <<flow.shown, flow.gone, flow.lost, pauseDropped>>[i]}) = 1

\* Entries without a lookup reach the transports in the order they were logged,
\* across pause() and resume() and across settings().
OrderKept == \A i, j \in DOMAIN flow.direct : i < j => flow.direct[i] < flow.direct[j]

\* While the black box is on it holds the last entries built, those that the
\* sampler dropped included, oldest first.
RecorderKeepsLast == flow.ring # Off => RingArray(flow.ring) = flow.latest

\* A flush() or close() gives its transport everything it found handed over or
\* in its lookups: when it ends and the transport has delivered all it was given
\* before it was called, nothing the call found is left, but for entries in a
\* transport that settings() replaced or that went to one already closed.
CallsDeliver ==
    [][\A q \in requests \ requests' :
         q.to # 0 /\ q.given \subseteq flow.shown =>
             q.upTo \subseteq flow.shown \cup flow.gone \cup flow.lost
                  \cup UNION {flow.buffered[g] : g \in Gens \ {q.to}}]_loggerVars

\* The black box file of a crash holds the entry of the crash, unless the level,
\* a filter, pause(), enabled = false or a lookup has kept it out of the black box.
CrashIsRecorded ==
    [][\A d \in dumps' \ dumps : d.crash /\ ~paused /\ enabled /\ logged' # logged =>
         \/ logged' \in d.entries \cup flow'.gone
         \/ \E r \in flow'.resolving : r.entry.n = logged']_loggerVars

\* No entry is lost, doubled or overtaken without a rule that says so, and the
\* black box holds the last ones.
EntriesConsistent == LoggerTypeOK /\ EveryEntryOnce /\ OrderKept /\ RecorderKeepsLast
=============================================================================
