--------------------------- MODULE FileTransport ---------------------------
(***************************************************************************)
(* The file transports: the line buffer and the self-healing stream of     *)
(* src/writer/base.writer.ts, and the numbered segments of                 *)
(* src/writer/sizeBased.writer.ts when Rotates holds.                      *)
(*                                                                         *)
(* Any number of flush(), rotate() and close() calls can be awaited at     *)
(* once.  Each is a process with a program counter; the flush they share   *)
(* (this.flushPromise) is described by `running`.  An action is one        *)
(* synchronous run of the program, or an answer of the file system.        *)
(*                                                                         *)
(* Lines are numbers in the order they were pushed, and sizes are counted  *)
(* in lines.  Place 0 is the active file, place i is segment i, and a file *)
(* that was renamed over but is still open is at Unlinked.                 *)
(***************************************************************************)
EXTENDS Naturals, Sequences, FiniteSets

CONSTANTS MaxBufferSize,   \* options.maxBufferSize
          Rotates,         \* a SizeBasedFileTransport, not a FileTransport
          MaxLines,        \* options.maxBytes
          MaxFiles,        \* options.maxFiles
          ForcedRotation,  \* the application calls rotate() itself
          Callers,         \* bound of the model: the application's flush() and
                           \* rotate() calls awaited at a time
          Ticker,          \* the flush() call of the interval
          Closer,          \* the call of close()
          MaxEntries       \* bound of the model: lines pushed in a behaviour

ASSUME FileAssumption ==
    /\ MaxBufferSize \in Nat
    /\ Rotates \in BOOLEAN /\ ForcedRotation \in BOOLEAN
    /\ MaxLines \in Nat \ {0} /\ MaxFiles \in Nat \ {0}   \* Math.max(1, ...)
    /\ Ticker \notin Callers /\ Closer \notin Callers \cup {Ticker}
    /\ MaxEntries \in Nat

VARIABLES offered,    \* history: lines pushed to the buffer
          delivered,  \* history: lines of the chunks the stream took, in order
          lost,       \* history: lines of the chunks the stream refused
          toClose,    \* history: lines pushed before close() was called
          buffer,     \* this.buffer
          running,    \* how far the run behind this.flushPromise got
          chunk,      \* `data` of that run
          target,     \* `stream` of that run
          current,    \* this.stream; NoStream is null
          streams,    \* the streams that are not finished, by number
          disk,       \* the files that exist, by place
          pc          \* where each call is

history == <<offered, delivered, lost, toClose>>
flushRun == <<running, chunk, target>>
files == <<current, streams, disk>>
vars == <<history, buffer, flushRun, files, pc>>

Calls == Callers \cup {Ticker, Closer}
NoStream == 0
Unlinked == MaxFiles + 1
closing == pc[Closer] # "idle"

Init == /\ offered = 0 /\ delivered = <<>> /\ lost = 0 /\ toClose = 0
        /\ buffer = <<>>
        /\ running = "no" /\ chunk = <<>> /\ target = NoStream
        /\ current = NoStream
        /\ streams = [s \in {} |-> NoStream] /\ disk = [p \in {} |-> <<>>]
        /\ pc = [c \in Calls |-> "idle"]

\* The calls of the set S move on to `at`.
Moved(S, at) == [c \in Calls |-> IF c \in S THEN at ELSE pc[c]]
Without(f, x) == [y \in DOMAIN f \ {x} |-> f[y]]

-----------------------------------------------------------------------------
(* Callers.                                                                *)

\* Mutant of FlushBy: a run writes full buffers only.
FlushByFull(c, buf) ==
    /\ pc[c] = "idle"
    /\ pc' = Moved({c}, "flush")
    /\ running' = IF running # "no" THEN running
                  ELSE IF Len(buf) < MaxBufferSize THEN "done" ELSE "target"

\* flush() called by c when the buffer holds buf: start a run, or join it.
FlushBy(c, buf) ==
    /\ pc[c] = "idle"
    /\ pc' = Moved({c}, "flush")
    /\ running' = IF running # "no" THEN running
                  ELSE IF buf = <<>> THEN "done" ELSE "target"

\* The line is rendered and joins the buffer.
Push == /\ offered < MaxEntries
        /\ offered' = offered + 1
        /\ buffer' = Append(buffer, offered + 1)
        /\ UNCHANGED <<delivered, lost, toClose, chunk, target, files>>

\* write(), and the last entry of writeBatch(): every such push at or beyond
\* maxBufferSize calls flush().
Write == /\ Push
         /\ IF Len(buffer) + 1 >= MaxBufferSize
              THEN \E c \in Callers : FlushBy(c, buffer')
              ELSE UNCHANGED <<running, pc>>

\* An entry of writeBatch() that is not the last: the limit is not looked at yet.
BatchEntry == Push /\ UNCHANGED <<running, pc>>

\* flush() called by the application.
Flush(c) == /\ FlushBy(c, buffer)
            /\ UNCHANGED <<history, buffer, chunk, target, files>>

\* The flush interval, which close() stops.
IntervalTick == ~closing /\ Flush(Ticker)

\* stream.end() and finished() by the calls of S; they wait at `at`, or have
\* reached `next` when there is no stream.
CloseStream(S, at, next) ==
    IF current = NoStream
      THEN pc' = Moved(S, next) /\ UNCHANGED streams
      ELSE /\ pc' = Moved(S, at)
           /\ streams' = [streams EXCEPT ![current].waiters = @ \cup S]

\* rotate() called by the application.
Rotate(c) == /\ Rotates /\ ForcedRotation
             /\ pc[c] = "idle"
             /\ CloseStream({c}, "end", "shift")
             /\ UNCHANGED <<history, buffer, flushRun, current, disk>>

\* close() stops the interval and flushes.
Close == /\ FlushBy(Closer, buffer)
         /\ toClose' = offered
         /\ UNCHANGED <<offered, delivered, lost, buffer, chunk, target, files>>

-----------------------------------------------------------------------------
(* The run the flush calls share.                                          *)

Ended(s) == streams[s].waiters # {}

\* Only numbers in use tell streams apart: a new one takes the first free one.
NewStream == CHOOSE s \in 1 .. MaxEntries + 1 :
                /\ s \notin DOMAIN streams
                /\ \A t \in 1 .. s - 1 : t \in DOMAIN streams

\* Mutant of Taken: the buffer is not cleared.
TakenNot(buf) == buf

\* this.buffer = []
Taken(buf) == <<>>

\* The path is known: open a stream unless there is one, and hand it the
\* buffer as one chunk.  A stream that was ended refuses it.
TargetKnown ==
    /\ running = "target"
    /\ LET s == IF current = NoStream THEN NewStream ELSE current
       IN  /\ current' = s /\ target' = s
           /\ running' = IF s \in DOMAIN streams /\ Ended(s) THEN "refused" ELSE "writing"
           /\ streams' = IF s \in DOMAIN streams THEN streams
                         ELSE [t \in DOMAIN streams \cup {s} |->
                                 IF t = s THEN [opened |-> FALSE, place |-> 0, waiters |-> {}]
                                          ELSE streams[t]]
    /\ chunk' = buffer
    /\ buffer' = Taken(buffer)
    /\ UNCHANGED <<history, disk, pc>>

\* Mutant of FileOpened: flags "w" truncates the file there is.
FileTruncated(d) == [p \in DOMAIN d \cup {0} |-> IF p = 0 THEN <<>> ELSE d[p]]

\* createWriteStream(filepath, { flags: "a" }): the file is created if need be.
FileOpened(d) == [p \in DOMAIN d \cup {0} |-> IF p \in DOMAIN d THEN d[p] ELSE <<>>]

StreamOpens(s) ==
    /\ ~streams[s].opened
    /\ streams' = [streams EXCEPT ![s].opened = TRUE]
    /\ disk' = FileOpened(disk)
    /\ UNCHANGED <<history, buffer, flushRun, current, pc>>

\* The write callback: the chunk is at the end of the stream's file, which no
\* path leads to if a rotation replaced it.
ChunkWritten ==
    /\ running = "writing" /\ streams[target].opened
    /\ running' = "done" /\ chunk' = <<>>
    /\ delivered' = delivered \o chunk
    /\ LET p == streams[target].place
       IN  disk' = IF p \in DOMAIN disk THEN [disk EXCEPT ![p] = @ \o chunk] ELSE disk
    /\ UNCHANGED <<offered, lost, toClose, buffer, target, current, streams, pc>>

\* finished(stream) rejects: rotations end with it, and so does close().
Rejected(S) == [c \in Calls |-> IF c \notin S THEN pc[c]
                                ELSE IF c = Closer THEN "failed" ELSE "idle"]

\* Mutant of StreamDies: nobody hears of it.
StreamDiesUnheard(s) == /\ current' = IF current = s THEN NoStream ELSE current
                        /\ streams' = Without(streams, s)
                        /\ UNCHANGED pc

\* An error event: the stream is destroyed and whoever awaits its end fails.
StreamDies(s) == /\ current' = IF current = s THEN NoStream ELSE current
                 /\ streams' = Without(streams, s)
                 /\ pc' = Rejected(streams[s].waiters)

\* The write callback reports an error.  Opening or writing failed: the stream
\* dies.  It had been ended: the stream dies, or ends as it was about to.
ChunkFails ==
    /\ running \in {"writing", "refused"}
    /\ running' = "done" /\ chunk' = <<>>
    /\ lost' = lost + Len(chunk)
    /\ \/ StreamDies(target)
       \/ /\ running = "refused"
          /\ current' = IF current = target THEN NoStream ELSE current
          /\ UNCHANGED <<streams, pc>>
    /\ UNCHANGED <<offered, delivered, toClose, buffer, target, disk>>

-----------------------------------------------------------------------------
(* Behind the flush: rotation, and the end of close().                     *)

\* The calls a flush was all there was to, and the close() that goes on.
Returned(S) == [c \in Calls |-> IF c \notin S THEN pc[c]
                                ELSE IF c = Closer THEN "last" ELSE "idle"]

\* statSync(this.filepath).size >= this.maxBytes
TooBig(d) == Rotates /\ 0 \in DOMAIN d /\ Len(d[0]) >= MaxLines

\* flushPromise settles and is reset; the calls that awaited it go on in
\* adjacent microtasks and see the same file.
RunReturns ==
    LET S == {c \in Calls : pc[c] = "flush"}
    IN  /\ running = "done"
        /\ running' = "no" /\ target' = NoStream
        /\ IF TooBig(disk) THEN CloseStream(S, "end", "shift")
                           ELSE pc' = Returned(S) /\ UNCHANGED streams
        /\ UNCHANGED <<history, buffer, chunk, current, disk>>

Settled(s) == ~(running \in {"writing", "refused"} /\ target = s)

\* finished(stream) resolves: every call that awaited it sets this.stream to
\* null, whatever it holds by now.
StreamEnds(s) ==
    /\ Ended(s) /\ Settled(s) /\ streams[s].opened
    /\ current' = NoStream
    /\ streams' = Without(streams, s)
    /\ pc' = [c \in Calls |-> IF c \notin streams[s].waiters THEN pc[c]
                              ELSE IF pc[c] = "end" THEN "shift" ELSE "closed"]
    /\ UNCHANGED <<history, buffer, flushRun, disk>>

\* Closing the file descriptor fails.
EndFails(s) == /\ Ended(s) /\ Settled(s)
               /\ StreamDies(s)
               /\ UNCHANGED <<history, buffer, flushRun, disk>>

\* The renames, last segment first: a file moves to the next place, over the
\* last segment if need be; the last segment stays when nothing follows it.
Shifted(d) ==
    [p \in {q \in 1 .. MaxFiles : q - 1 \in DOMAIN d} \cup ({MaxFiles} \cap DOMAIN d) |->
        IF p - 1 \in DOMAIN d THEN d[p - 1] ELSE d[p]]

\* Where the file at place p is after the renames.
PlaceShifted(p) == IF p < MaxFiles THEN p + 1
                   ELSE IF MaxFiles - 1 \in DOMAIN disk THEN Unlinked ELSE p

\* rotate() behind closeStream().
Shift(c) ==
    /\ pc[c] = "shift"
    /\ disk' = Shifted(disk)
    /\ streams' = [s \in DOMAIN streams |->
                     IF streams[s].opened
                       THEN [streams[s] EXCEPT !.place = PlaceShifted(@)]
                       ELSE streams[s]]
    /\ pc' = Returned({c})
    /\ UNCHANGED <<history, buffer, flushRun, current>>

\* close() behind its flush() and its fsync: the stream is ended.
CloseLast == /\ pc[Closer] = "last"
             /\ CloseStream({Closer}, "lastEnd", "closed")
             /\ UNCHANGED <<history, buffer, flushRun, current, disk>>

-----------------------------------------------------------------------------
StreamStep(s) == StreamOpens(s) \/ StreamEnds(s) \/ EndFails(s)

Next == \/ Write \/ BatchEntry
        \/ Close
        \/ \E c \in Callers : Flush(c) \/ Rotate(c)
        \/ IntervalTick
        \/ \E c \in Calls : Shift(c)
        \/ TargetKnown \/ ChunkWritten \/ ChunkFails \/ RunReturns
        \/ \E s \in DOMAIN streams : StreamStep(s)
        \/ CloseLast

Spec == Init /\ [][Next]_vars

\* The event loop runs every continuation and the file system answers every call.
WorkGoesOn == /\ WF_vars(TargetKnown) /\ WF_vars(ChunkWritten \/ ChunkFails)
              /\ WF_vars(RunReturns) /\ WF_vars(CloseLast)
              /\ \A s \in 1 .. MaxEntries + 1 :
                   WF_vars(s \in DOMAIN streams /\ StreamStep(s))
              /\ \A c \in Calls : WF_vars(Shift(c))

\* The interval goes on ticking until close().
Fairness == WorkGoesOn /\ WF_vars(IntervalTick)

FairSpec == Spec /\ Fairness

-----------------------------------------------------------------------------
(* Properties.                                                             *)

\* Every variable keeps its type.
TypeOK ==
    /\ offered \in Nat /\ lost \in Nat /\ toClose \in Nat
    /\ delivered \in Seq(Nat) /\ buffer \in Seq(Nat) /\ chunk \in Seq(Nat)
    /\ running \in {"no", "target", "writing", "refused", "done"}
    /\ target \in Nat /\ current \in Nat
    /\ DOMAIN streams \subseteq Nat \ {NoStream}
    /\ \A s \in DOMAIN streams :
         streams[s] \in [opened : BOOLEAN, place : 0 .. Unlinked, waiters : SUBSET Calls]
    /\ DOMAIN disk \subseteq 0 .. MaxFiles
    /\ \A p \in DOMAIN disk : disk[p] \in Seq(Nat)
    /\ pc \in [Calls -> {"idle", "flush", "end", "shift", "last", "lastEnd",
                         "closed", "failed"}]

Lines(p) == IF p \in DOMAIN disk THEN disk[p] ELSE <<>>

\* What a reader finds from the oldest segment to the file at place p.
LinesFrom[p \in 0 .. MaxFiles] ==
    IF p = MaxFiles THEN Lines(p) ELSE LinesFrom[p + 1] \o Lines(p)

\* What a reader finds from the oldest segment to the active file.
DiskLines == LinesFrom[0]

\* However flushes, stream errors, overlapping rotations and writes to a renamed
\* file interleave, what is on disk is the most recent part of what was written,
\* each line once and in order: no line of the middle disappears with an older
\* file kept, and no file is truncated.
DiskIsRecent == \E n \in 1 .. Len(delivered) + 1 :
                   DiskLines = SubSeq(delivered, n, Len(delivered))

\* A call that waits for the end of a stream waits for one that exists, and for
\* one only: no rotation or close() is left waiting for a stream that was replaced.
WaitersHaveStream ==
    \A c \in Calls :
        Cardinality({s \in DOMAIN streams : c \in streams[s].waiters})
            = (IF pc[c] \in {"end", "lastEnd"} THEN 1 ELSE 0)

\* The transport is a delivery queue: lines are written in the order they were
\* pushed, at most once, and the lost ones are those of failed chunks.
Abstract == INSTANCE DeliveryQueue WITH waiting <- chunk \o buffer, dropped <- lost

ImplementsQueue == Abstract!Spec

\* Buffered lines leave the buffer, with the interval alone if need be.
BufferDrains == []<>(buffer = <<>> \/ closing)

\* A full active file is rotated, although rotations may fail or meet an ended
\* stream.
FullFileRotates == Rotates => []<>(closing \/ Len(Lines(0)) < MaxLines)

\* Every flush() and rotate() returns, and so does close().
CallsReturn == /\ \A c \in Callers \cup {Ticker} : pc[c] # "idle" ~> pc[c] = "idle"
               /\ closing ~> pc[Closer] \in {"closed", "failed"}

\* "when close() drains the transport, so buffered entries survive"
\* (types/transport.d.ts:95): a successful close() leaves nothing unwritten that
\* was pushed before it.
CloseDrains == pc[Closer] = "closed" => \A i \in 1 .. Len(buffer) : buffer[i] > toClose

\* The disk, the streams and the calls that wait for them fit together.
FilesConsistent == TypeOK /\ DiskIsRecent /\ WaitersHaveStream

\* Neither the buffer nor the active file grows without end.
NothingPilesUp == BufferDrains /\ FullFileRotates
=============================================================================
