---------------------- MODULE FileTransport_proofs ----------------------
(***************************************************************************)
(* Proofs about FileTransport, for every buffer, file and segment limit    *)
(* and any number of concurrent calls: whatever happens to streams, files  *)
(* and rotations, the lines pass from the buffer to the stream as through  *)
(* the delivery queue.                                                     *)
(***************************************************************************)
EXTENDS FileTransport, Containers_proofs, FiniteSetTheorems

USE DEF history, flushRun, files, vars

Queue == INSTANCE DeliveryQueue_proofs WITH waiting <- chunk \o buffer, dropped <- lost

-----------------------------------------------------------------------------
(* The inductive invariant.                                                *)

LinesOK == /\ offered \in Nat /\ lost \in Nat
           /\ delivered \in Seq(Nat) /\ buffer \in Seq(Nat) /\ chunk \in Seq(Nat)

\* Between two chunks the run holds no lines: what TargetKnown overwrites has
\* been settled.
ChunkSettled == running \notin {"writing", "refused"} => chunk = <<>>

LinesInv == LinesOK /\ ChunkSettled

\* The lines a step of a call or of the file system leaves alone.
LinesKept == UNCHANGED <<offered, delivered, lost, buffer, chunk>>

\* A flush() starts a run or joins one, and moves no line.
LEMMA FlushByKeeps ==
    ASSUME NEW c, NEW buf, ChunkSettled, FlushBy(c, buf), chunk' = chunk
    PROVE  ChunkSettled'
BY DEF FlushBy, ChunkSettled

\* The steps that move no line.
LEMMA QuietStep ==
    ASSUME LinesInv,
           \/ Close \/ IntervalTick \/ RunReturns \/ CloseLast
           \/ \E c \in Callers : Flush(c) \/ Rotate(c)
           \/ \E c \in Calls : Shift(c)
           \/ \E s \in DOMAIN streams : StreamStep(s)
           \/ UNCHANGED vars
    PROVE  LinesKept /\ LinesInv'
<1>1. LinesKept /\ ChunkSettled'
  <2>1. CASE Close
    BY <2>1, FlushByKeeps DEF Close, LinesKept, LinesInv
  <2>2. CASE IntervalTick \/ \E c \in Callers : Flush(c)
    BY <2>2, FlushByKeeps DEF IntervalTick, Flush, LinesKept, LinesInv
  <2>3. CASE RunReturns
    BY <2>3 DEF RunReturns, LinesKept, LinesInv, ChunkSettled
  <2>4. CASE CloseLast \/ (\E c \in Callers : Rotate(c)) \/ (\E c \in Calls : Shift(c))
    BY <2>4 DEF CloseLast, Rotate, Shift, LinesKept, LinesInv, ChunkSettled
  <2>5. CASE \E s \in DOMAIN streams : StreamStep(s)
    BY <2>5
    DEF StreamStep, StreamOpens, StreamEnds, EndFails, LinesKept, LinesInv, ChunkSettled
  <2>6. CASE UNCHANGED vars
    BY <2>6 DEF LinesKept, LinesInv, ChunkSettled
  <2> QED  BY <2>1, <2>2, <2>3, <2>4, <2>5, <2>6
<1> QED  BY <1>1 DEF LinesKept, LinesInv, LinesOK

\* The buffer becomes the chunk as a whole.
LEMMA TargetKnownLines ==
    ASSUME LinesInv, TargetKnown
    PROVE  /\ LinesInv' /\ UNCHANGED <<offered, delivered, lost>>
           /\ chunk = <<>> /\ chunk' = buffer /\ buffer' = <<>>
<1>1. /\ UNCHANGED <<offered, delivered, lost>> /\ chunk = <<>>
      /\ chunk' = buffer /\ buffer' = <<>> /\ running' \in {"writing", "refused"}
  BY DEF TargetKnown, Taken, LinesInv, ChunkSettled
<1>2. <<>> \in Seq(Nat)
  BY EmptySeq
<1> QED  BY <1>1, <1>2 DEF LinesInv, LinesOK, ChunkSettled

\* The line that is pushed has the next number.
LEMMA WriteLines ==
    ASSUME LinesInv, Write \/ BatchEntry
    PROVE  /\ LinesInv' /\ UNCHANGED <<delivered, lost, chunk>>
           /\ offered' = offered + 1 /\ buffer' = Append(buffer, offered + 1)
<1>1. /\ UNCHANGED <<delivered, lost, chunk>>
      /\ offered' = offered + 1 /\ buffer' = Append(buffer, offered + 1)
  BY DEF Write, BatchEntry, Push
<1>2. buffer' \in Seq(Nat) /\ offered' \in Nat
  <2>1. PICK n \in Nat : n = offered + 1
    BY DEF LinesInv, LinesOK
  <2>2. Append(buffer, n) \in Seq(Nat)
    BY AppendProperties DEF LinesInv, LinesOK
  <2> QED  BY <1>1, <2>1, <2>2
<1>3. ChunkSettled'
  <2>1. (\E c \in Callers : FlushBy(c, buffer')) \/ running' = running
    BY DEF Write, BatchEntry
  <2> QED  BY <1>1, <2>1, FlushByKeeps DEF LinesInv, ChunkSettled
<1> QED  BY <1>1, <1>2, <1>3 DEF LinesInv, LinesOK

\* The chunk is written or lost as a whole.
LEMMA ChunkLines ==
    ASSUME LinesInv, ChunkWritten \/ ChunkFails
    PROVE  /\ LinesInv' /\ UNCHANGED <<offered, buffer>> /\ chunk' = <<>>
           /\ \/ delivered' = delivered \o chunk /\ lost' = lost
              \/ delivered' = delivered /\ lost' = lost + Len(chunk)
<1>1. /\ UNCHANGED <<offered, buffer>> /\ chunk' = <<>> /\ running' = "done"
      /\ \/ delivered' = delivered \o chunk /\ lost' = lost
         \/ delivered' = delivered /\ lost' = lost + Len(chunk)
  BY DEF ChunkWritten, ChunkFails
<1>2. /\ delivered \o chunk \in Seq(Nat) /\ Len(chunk) \in Nat /\ <<>> \in Seq(Nat)
  BY ConcatProperties, LenProperties, EmptySeq DEF LinesInv, LinesOK
<1>3. delivered' \in Seq(Nat) /\ lost' \in Nat
  <2>1. CASE delivered' = delivered \o chunk /\ lost' = lost
    BY <1>2, <2>1, Zenon DEF LinesInv, LinesOK
  <2>2. CASE delivered' = delivered /\ lost' = lost + Len(chunk)
    BY <1>2, <2>2 DEF LinesInv, LinesOK
  <2> QED  BY <1>1, <2>1, <2>2
<1> QED  BY <1>1, <1>2, <1>3 DEF LinesInv, LinesOK, ChunkSettled

\* The constructor holds no lines.
LEMMA InitLines == Init => LinesInv
BY EmptySeq DEF Init, LinesInv, LinesOK, ChunkSettled

\* Nothing but a running write holds lines outside the buffer.
THEOREM LinesCorrect == Spec => []LinesInv
<1>1. LinesInv /\ [Next]_vars => LinesInv'
  BY QuietStep, TargetKnownLines, WriteLines, ChunkLines DEF Next
<1> QED  BY <1>1, InitLines, PTL DEF Spec

-----------------------------------------------------------------------------
(* The delivery queue.                                                     *)

\* Taking the first of two parts off a sequence leaves the second.
LEMMA Cut ==
    ASSUME NEW a \in Seq(Nat), NEW b \in Seq(Nat)
    PROVE  /\ SubSeq(a \o b, 1, Len(a)) = a
           /\ SubSeq(a \o b, Len(a) + 1, Len(a \o b)) = b
           /\ a # <<>> => Len(a) \in 1 .. Len(a \o b)
           /\ <<>> \o b = b
<1>1. /\ a \o b \in Seq(Nat) /\ Len(a \o b) = Len(a) + Len(b)
      /\ Len(a) \in Nat /\ Len(b) \in Nat
  BY ConcatProperties, LenProperties
<1>2. SubSeq(a \o b, 1, Len(a)) = a
  OBVIOUS
<1>3. SubSeq(a \o b, Len(a) + 1, Len(a \o b)) = b
  OBVIOUS
<1>4. a # <<>> => Len(a) # 0
  BY EmptySeq
<1>5. <<>> \o b = b
  BY ConcatEmptySeq
<1> QED  BY <1>1, <1>2, <1>3, <1>4, <1>5

\* A step of the transport is a step of the queue, or none.
QueueStep == [Queue!Next]_Queue!qvars

\* A pushed line joins the tail, behind the chunk that is being written.
LEMMA WriteStep == LinesInv /\ (Write \/ BatchEntry) => Queue!Accept
<1> SUFFICES ASSUME LinesInv, Write \/ BatchEntry PROVE Queue!Accept
  OBVIOUS
<1>1. /\ UNCHANGED <<delivered, lost, chunk>>
      /\ offered' = offered + 1 /\ buffer' = Append(buffer, offered + 1)
  BY WriteLines
<1>2. chunk \o Append(buffer, offered + 1) = Append(chunk \o buffer, offered + 1)
  <2>1. PICK n \in Nat : n = offered + 1
    BY DEF LinesInv, LinesOK
  <2>2. /\ chunk \in Seq(Nat) /\ buffer \in Seq(Nat) /\ <<n>> \in Seq(Nat)
        /\ chunk \o buffer \in Seq(Nat)
    BY ConcatProperties DEF LinesInv, LinesOK
  <2>3. Append(buffer, n) = buffer \o <<n>>
    BY <2>2, AppendIsConcat
  <2>4. Append(chunk \o buffer, n) = (chunk \o buffer) \o <<n>>
    BY <2>2, AppendIsConcat
  <2>5. (chunk \o buffer) \o <<n>> = chunk \o (buffer \o <<n>>)
    BY <2>2, Queue!ConcatAssoc
  <2> QED  BY <2>1, <2>3, <2>4, <2>5
<1>3. chunk' \o buffer' = Append(chunk \o buffer, offered + 1)
  BY <1>1, <1>2
<1> QED  BY <1>1, <1>3 DEF Queue!Accept

\* The chunk is the head of the queue: it is delivered, or given up, as a whole.
LEMMA ChunkStep == LinesInv /\ (ChunkWritten \/ ChunkFails) => QueueStep
<1> SUFFICES ASSUME LinesInv, ChunkWritten \/ ChunkFails PROVE QueueStep
  OBVIOUS
<1> DEFINE w == chunk \o buffer
           n == Len(chunk)
<1>1. /\ UNCHANGED <<offered, buffer>> /\ chunk' = <<>>
      /\ \/ delivered' = delivered \o chunk /\ lost' = lost
         \/ delivered' = delivered /\ lost' = lost + n
  BY ChunkLines
<1>2. /\ chunk \in Seq(Nat) /\ buffer \in Seq(Nat) /\ delivered \in Seq(Nat)
      /\ lost \in Nat
  BY DEF LinesInv, LinesOK
<1>3. /\ SubSeq(w, 1, n) = chunk /\ SubSeq(w, n + 1, Len(w)) = buffer
      /\ chunk # <<>> => n \in 1 .. Len(w)
      /\ chunk' \o buffer' = buffer
  BY <1>1, <1>2, Cut
<1>4. CASE chunk = <<>>
  <2>1. n = 0 /\ delivered \o chunk = delivered /\ w = buffer
    BY <1>2, <1>4, EmptySeq, ConcatEmptySeq
  <2>2. UNCHANGED <<offered, delivered, lost>> /\ chunk' \o buffer' = w
    BY <1>1, <1>2, <1>3, <2>1
  <2> QED  BY <2>2 DEF QueueStep, Queue!qvars
<1>5. CASE chunk # <<>> /\ delivered' = delivered \o chunk /\ lost' = lost
  <2>1. Queue!Deliver(n)
    BY <1>1, <1>3, <1>5 DEF Queue!Deliver
  <2> QED  BY <1>3, <1>5, <2>1 DEF QueueStep, Queue!Next
<1>6. CASE chunk # <<>> /\ delivered' = delivered /\ lost' = lost + n
  <2>1. /\ 1 \in 1 .. Len(w) /\ n \in 1 .. Len(w) /\ n \in Nat
        /\ lost' = lost + (n + 1 - 1)
    BY <1>2, <1>3, <1>6, LenProperties
  <2>2. SubSeq(w, 1, 1 - 1) = <<>>
    BY SubSeqEmpty
  <2>3. chunk' \o buffer' = SubSeq(w, 1, 1 - 1) \o SubSeq(w, n + 1, Len(w))
    BY <1>2, <1>3, <2>2, ConcatEmptySeq
  <2>4. Queue!GiveUp(1, n)
    BY <1>1, <1>6, <2>1, <2>3 DEF Queue!GiveUp
  <2> QED  BY <2>1, <2>4 DEF QueueStep, Queue!Next
<1> QED  BY <1>1, <1>4, <1>5, <1>6

\* Every other step leaves the queue as it is.
LEMMA NextStep == LinesInv /\ [Next]_vars => QueueStep
<1> SUFFICES ASSUME LinesInv, [Next]_vars PROVE QueueStep
  OBVIOUS
<1>1. CASE Write \/ BatchEntry
  BY <1>1, WriteStep DEF QueueStep, Queue!Next
<1>2. CASE ChunkWritten \/ ChunkFails
  BY <1>2, ChunkStep
<1>3. CASE TargetKnown
  <2>1. /\ UNCHANGED <<offered, delivered, lost>>
        /\ chunk = <<>> /\ chunk' = buffer /\ buffer' = <<>>
        /\ buffer \in Seq(Nat)
    BY <1>3, TargetKnownLines DEF LinesInv, LinesOK
  <2>2. chunk' \o buffer' = chunk \o buffer
    BY <2>1, ConcatEmptySeq
  <2> QED  BY <2>1, <2>2 DEF QueueStep, Queue!qvars
<1>4. CASE LinesKept
  BY <1>4 DEF LinesKept, QueueStep, Queue!qvars
<1> QED  BY <1>1, <1>2, <1>3, <1>4, QuietStep DEF Next

\* At the start nothing waits.
LEMMA QueueInit == Init => Queue!Init
BY EmptySeq, ConcatEmptySeq DEF Init, Queue!Init

\* Whatever streams, files and rotations do, the file transport is a delivery
\* queue: each pushed line is written once and in order, waits, or is lost with
\* a chunk whose failure was reported.
THEOREM QueueImplemented == Spec => ImplementsQueue
<1>1. Init => Abstract!Init
  BY QueueInit DEF Abstract!Init, Queue!Init
<1>2. LinesInv /\ [Next]_vars => [Abstract!Next]_Abstract!qvars
  BY NextStep
  DEF QueueStep, Queue!Next, Queue!Accept, Queue!Refuse, Queue!Deliver,
      Queue!GiveUp, Queue!qvars, Abstract!Next, Abstract!Accept, Abstract!Refuse,
      Abstract!Deliver, Abstract!GiveUp, Abstract!qvars
<1> QED
  BY <1>1, <1>2, LinesCorrect, PTL DEF Spec, ImplementsQueue, Abstract!Spec

\* What is proved of the abstract queue holds of the lines: in order, none twice,
\* and every one accounted for.
THEOREM LinesInOrder == Spec => []Queue!QueueInv
<1>1. LinesInv /\ [Next]_vars => [Queue!Next]_Queue!qvars
  BY NextStep DEF QueueStep
<1>2. Spec => Queue!Spec
  BY <1>1, QueueInit, LinesCorrect, PTL DEF Spec, Queue!Spec
<1>3. Queue!Spec => []Queue!QueueInv
  BY Queue!QueueCorrect
<1> QED  BY <1>2, <1>3, PTL

-----------------------------------------------------------------------------
(* The lines of the files.                                                 *)

\* The lines on disk are consecutive parts of what was delivered, newest first:
\* place p holds those behind line cut[p + 1], up to line cut[p].
CutsOf(cut) ==
    /\ cut \in [0 .. MaxFiles + 1 -> 0 .. Len(delivered)] /\ cut[0] = Len(delivered)
    /\ \A p \in 0 .. MaxFiles : /\ cut[p + 1] <= cut[p]
                                /\ Lines(p) = SubSeq(delivered, cut[p + 1] + 1, cut[p])

\* Two adjacent parts of a sequence.
LEMMA AdjacentParts ==
    ASSUME NEW s \in Seq(Nat), NEW i \in 0 .. Len(s), NEW j \in 0 .. Len(s), NEW k \in 0 .. Len(s),
           i <= j, j <= k
    PROVE  SubSeq(s, i + 1, j) \o SubSeq(s, j + 1, k) = SubSeq(s, i + 1, k)
OBVIOUS

\* The lines of all files are an unbroken end of what was delivered.
LEMMA LinesFromCuts ==
    ASSUME delivered \in Seq(Nat), MaxFiles \in Nat, NEW cut, CutsOf(cut)
    PROVE  DiskLines = SubSeq(delivered, cut[MaxFiles + 1] + 1, Len(delivered))
<1> DEFINE f == [p \in 0 .. MaxFiles |-> SubSeq(delivered, cut[MaxFiles + 1] + 1, cut[p])]
           Unfolds(g) == g = [p \in 0 .. MaxFiles |->
                                IF p = MaxFiles THEN Lines(p) ELSE g[p + 1] \o Lines(p)]
<1>0. Len(delivered) \in Nat /\ \A p \in 0 .. MaxFiles + 1 : cut[p] \in 0 .. Len(delivered)
  BY LenProperties DEF CutsOf
<1>1. \A p \in 0 .. MaxFiles : cut[MaxFiles + 1] <= cut[p]
  <2> DEFINE R == {i \in Nat : i <= MaxFiles => cut[MaxFiles + 1] <= cut[MaxFiles - i]}
  <2>1. 0 \in R
    BY DEF CutsOf
  <2>2. \A i \in Nat : i \in R => i + 1 \in R
    <3> SUFFICES ASSUME NEW i \in Nat, i + 1 <= MaxFiles, cut[MaxFiles + 1] <= cut[MaxFiles - i]
                 PROVE  cut[MaxFiles + 1] <= cut[MaxFiles - (i + 1)]
      OBVIOUS
    <3>1. PICK p \in 0 .. MaxFiles : p = MaxFiles - (i + 1)
      OBVIOUS
    <3>2. p + 1 = MaxFiles - i /\ cut[p + 1] <= cut[p]
      BY <3>1 DEF CutsOf
    <3>3. cut[p] \in Nat /\ cut[p + 1] \in Nat /\ cut[MaxFiles + 1] \in Nat
      BY <1>0, <3>1
    <3> QED  BY <3>1, <3>2, <3>3
  <2>3. Nat \subseteq R
    <3> HIDE DEF R
    <3> QED  BY <2>1, <2>2, SetInduction
  <2>4. \A p \in 0 .. MaxFiles : MaxFiles - p \in Nat /\ MaxFiles - p <= MaxFiles /\ MaxFiles - (MaxFiles - p) = p
    OBVIOUS
  <2> QED  BY <2>3, <2>4
<1>2. Unfolds(f)
  <2>1. ASSUME NEW p \in 0 .. MaxFiles
        PROVE  f[p] = IF p = MaxFiles THEN Lines(p) ELSE f[p + 1] \o Lines(p)
    <3>1. CASE p = MaxFiles
      BY <3>1 DEF CutsOf
    <3>2. CASE p # MaxFiles
      <4>1. p + 1 \in 0 .. MaxFiles
        BY <3>2
      <4>2. f[p + 1] = SubSeq(delivered, cut[MaxFiles + 1] + 1, cut[p + 1])
        BY <4>1
      <4>3. Lines(p) = SubSeq(delivered, cut[p + 1] + 1, cut[p]) /\ cut[p + 1] <= cut[p]
        BY DEF CutsOf
      <4>4. SubSeq(delivered, cut[MaxFiles + 1] + 1, cut[p + 1]) \o SubSeq(delivered, cut[p + 1] + 1, cut[p])
              = SubSeq(delivered, cut[MaxFiles + 1] + 1, cut[p])
        <5>1. /\ cut[MaxFiles + 1] \in 0 .. Len(delivered) /\ cut[p + 1] \in 0 .. Len(delivered)
              /\ cut[p] \in 0 .. Len(delivered) /\ cut[MaxFiles + 1] <= cut[p + 1]
          BY <1>0, <1>1, <4>1
        <5> QED  BY <4>3, <5>1, AdjacentParts
      <4> QED  BY <3>2, <4>2, <4>3, <4>4
    <3> QED  BY <3>1, <3>2
  <2> HIDE DEF CutsOf
  <2> QED  BY <2>1
<1>3. Unfolds(LinesFrom)
  <2>1. LinesFrom = CHOOSE g : Unfolds(g)
    BY DEF LinesFrom
  <2> HIDE DEF f, Unfolds
  <2> QED  BY <1>2, <2>1
<1>4. LinesFrom[0] = f[0]
  <2> DEFINE R == {i \in Nat : i <= MaxFiles => LinesFrom[MaxFiles - i] = f[MaxFiles - i]}
  <2>0. ASSUME NEW p \in 0 .. MaxFiles
        PROVE  /\ f[p] = IF p = MaxFiles THEN Lines(p) ELSE f[p + 1] \o Lines(p)
               /\ LinesFrom[p] = IF p = MaxFiles THEN Lines(p) ELSE LinesFrom[p + 1] \o Lines(p)
    <3> HIDE DEF f
    <3> QED  BY <1>2, <1>3
  <2> HIDE DEF f
  <2>1. 0 \in R
    BY <2>0
  <2>2. \A i \in Nat : i \in R => i + 1 \in R
    <3> SUFFICES ASSUME NEW i \in Nat, i + 1 <= MaxFiles, LinesFrom[MaxFiles - i] = f[MaxFiles - i]
                 PROVE  LinesFrom[MaxFiles - (i + 1)] = f[MaxFiles - (i + 1)]
      OBVIOUS
    <3>1. PICK p \in 0 .. MaxFiles : p = MaxFiles - (i + 1)
      OBVIOUS
    <3>2. p + 1 = MaxFiles - i /\ p # MaxFiles
      BY <3>1
    <3> QED  BY <2>0, <3>1, <3>2
  <2>3. MaxFiles \in R
    <3> HIDE DEF R
    <3> QED  BY <2>1, <2>2, SetInduction
  <2> QED  BY <2>3
<1>5. f[0] = SubSeq(delivered, cut[MaxFiles + 1] + 1, Len(delivered))
  <2>1. 0 \in 0 .. MaxFiles /\ cut[0] = Len(delivered)
    BY DEF CutsOf
  <2> QED  BY <2>1
<1> QED  BY <1>4, <1>5 DEF DiskLines

-----------------------------------------------------------------------------
(* The streams, the disk and the calls: the inductive invariant.           *)

Stream == [opened : BOOLEAN, place : 0 .. Unlinked, waiters : SUBSET Calls]
CallTypes ==
    /\ toClose \in Nat /\ target \in Nat /\ current \in Nat
    /\ running \in {"no", "target", "writing", "refused", "done"}
    /\ pc \in [Calls -> {"idle", "flush", "end", "shift", "last", "lastEnd",
                         "closed", "failed"}]
StreamTypes ==
    /\ DOMAIN streams \subseteq Nat \ {NoStream}
    /\ \A s \in DOMAIN streams : streams[s] \in Stream
DiskTypes ==
    /\ DOMAIN disk \subseteq 0 .. MaxFiles
    /\ \A p \in DOMAIN disk : disk[p] \in Seq(Nat)

\* Every stream was opened for a chunk of its own, so that a number is left for
\* the next one.
StreamsCounted ==
    /\ IsFiniteSet(DOMAIN streams) /\ offered <= MaxEntries
    /\ Cardinality(DOMAIN streams) + Len(buffer) <= offered
    /\ running = "target" => buffer # <<>>

\* The stream of a write that is not answered yet is there, and no other one has
\* become the current one.
InFlight == running \in {"writing", "refused"}
OpenStreams ==
    /\ current # NoStream => current \in DOMAIN streams
    /\ InFlight => target \in DOMAIN streams /\ current \in {NoStream, target}

\* A call waits for the end of one stream or of none.
Waiting(c) == pc[c] \in {"end", "lastEnd"}
OneStreamEach ==
    /\ \A s \in DOMAIN streams : \A c \in streams[s].waiters : Waiting(c)
    /\ \A c \in Calls : Waiting(c) => \E s \in DOMAIN streams : c \in streams[s].waiters
    /\ \A s, t \in DOMAIN streams : \A c \in streams[s].waiters : c \in streams[t].waiters => s = t

\* An open stream writes to a file that exists, unless it was renamed over.
PlacesExist ==
    \A s \in DOMAIN streams :
        IF streams[s].opened THEN streams[s].place \in DOMAIN disk \cup {Unlinked}
                             ELSE streams[s].place = 0

\* Files newer than that of the stream in use are empty: what it appends is
\* behind everything that is on disk.
InUse(s) == s = current \/ (InFlight /\ s = target)
NewerAreEmpty ==
    \A s \in DOMAIN streams :
        streams[s].opened /\ InUse(s) => \A q \in 0 .. MaxFiles : q < streams[s].place => Lines(q) = <<>>

DiskIsCut == \E cut : CutsOf(cut)

DiskInv == PlacesExist /\ NewerAreEmpty /\ DiskIsCut
FilesTypes == CallTypes /\ StreamTypes /\ DiskTypes
FilesInv == LinesInv /\ FilesTypes /\ StreamsCounted /\ OpenStreams /\ OneStreamEach /\ DiskInv

-----------------------------------------------------------------------------
(* What keeps a part of it.                                                *)

\* No more streams were opened than entries were written when none is opened.
LEMMA CountKept ==
    ASSUME FilesInv, UNCHANGED <<offered, buffer>>, DOMAIN streams' \subseteq DOMAIN streams,
           running' = "target" => running = "target" \/ buffer # <<>>
    PROVE  StreamsCounted'
<1>1. /\ IsFiniteSet(DOMAIN streams') /\ Cardinality(DOMAIN streams') <= Cardinality(DOMAIN streams)
      /\ Cardinality(DOMAIN streams') \in Nat /\ Cardinality(DOMAIN streams) \in Nat
  BY FS_Subset, FS_CardinalityType DEF FilesInv, StreamsCounted
<1>2. Len(buffer) \in Nat /\ offered \in Nat
  BY LenProperties DEF FilesInv, LinesInv, LinesOK
<1> QED  BY <1>1, <1>2 DEF FilesInv, StreamsCounted

\* The disk is as it was, and the streams in use write where they did.
LEMMA DiskKept ==
    ASSUME FilesInv, UNCHANGED <<delivered, disk>>,
           \A s \in DOMAIN streams' :
             \/ /\ s \in DOMAIN streams /\ (InUse(s)' => InUse(s))
                /\ streams'[s].opened = streams[s].opened /\ streams'[s].place = streams[s].place
             \/ ~streams'[s].opened /\ streams'[s].place = 0
    PROVE  DiskInv'
<1>1. Lines(0)' = Lines(0) /\ \A q : Lines(q)' = Lines(q)
  BY DEF Lines
<1>2. PlacesExist'
  BY DEF FilesInv, DiskInv, PlacesExist
<1>3. NewerAreEmpty'
  BY <1>1 DEF FilesInv, DiskInv, NewerAreEmpty
<1>4. DiskIsCut'
  BY <1>1 DEF FilesInv, DiskInv, DiskIsCut, CutsOf
<1> QED  BY <1>2, <1>3, <1>4 DEF DiskInv

\* The streams keep those who wait for them.
LEMMA WaitersKept ==
    ASSUME FilesInv, DOMAIN streams \subseteq DOMAIN streams',
           \A s \in DOMAIN streams' : streams'[s].waiters = IF s \in DOMAIN streams THEN streams[s].waiters ELSE {},
           \A c \in Calls : Waiting(c)' <=> Waiting(c)
    PROVE  OneStreamEach'
<1>1. \A s \in DOMAIN streams : streams[s].waiters \subseteq Calls
  BY DEF FilesInv, FilesTypes, StreamTypes, Stream
<1>2. \A s \in DOMAIN streams' : \A c \in streams'[s].waiters :
         s \in DOMAIN streams /\ c \in streams[s].waiters /\ c \in Calls
  BY <1>1
<1>3. \A s \in DOMAIN streams' : \A c \in streams'[s].waiters : Waiting(c)'
  BY <1>2 DEF FilesInv, OneStreamEach
<1>4. \A c \in Calls : Waiting(c)' => \E s \in DOMAIN streams' : c \in streams'[s].waiters
  BY DEF FilesInv, OneStreamEach
<1>5. \A s, t \in DOMAIN streams' : \A c \in streams'[s].waiters : c \in streams'[t].waiters => s = t
  BY <1>2 DEF FilesInv, OneStreamEach
<1> QED  BY <1>3, <1>4, <1>5 DEF OneStreamEach

\* A stream ends or dies, and nobody waits for it any longer.
LEMMA WaitersRelieved ==
    ASSUME FilesInv, NEW s \in DOMAIN streams, streams' = Without(streams, s),
           \A c \in Calls : IF c \in streams[s].waiters THEN ~Waiting(c)' ELSE pc'[c] = pc[c]
    PROVE  OneStreamEach'
<1>1. DOMAIN streams' = DOMAIN streams \ {s} /\ \A t \in DOMAIN streams' : streams'[t] = streams[t]
  BY DEF Without
<1>2. \A t \in DOMAIN streams : streams[t].waiters \subseteq Calls
  BY DEF FilesInv, FilesTypes, StreamTypes, Stream
<1>3. \A t \in DOMAIN streams' : \A c \in streams'[t].waiters :
         t \in DOMAIN streams /\ c \in streams[t].waiters /\ c \in Calls /\ c \notin streams[s].waiters
  BY <1>1, <1>2 DEF FilesInv, OneStreamEach
<1>4. \A t \in DOMAIN streams' : \A c \in streams'[t].waiters : Waiting(c)'
  BY <1>3 DEF FilesInv, OneStreamEach, Waiting
<1>5. ASSUME NEW c \in Calls, Waiting(c)' PROVE \E t \in DOMAIN streams' : c \in streams'[t].waiters
  <2>1. c \notin streams[s].waiters /\ Waiting(c)
    BY <1>5 DEF Waiting
  <2>2. PICK t \in DOMAIN streams : c \in streams[t].waiters
    BY <2>1 DEF FilesInv, OneStreamEach
  <2> QED  BY <1>1, <2>1, <2>2
<1>6. \A t, u \in DOMAIN streams' : \A c \in streams'[t].waiters : c \in streams'[u].waiters => t = u
  BY <1>3 DEF FilesInv, OneStreamEach
<1> QED  BY <1>4, <1>5, <1>6 DEF OneStreamEach

\* The fields of a stream with one of them changed.
LEMMA SetOpened ==
    ASSUME NEW r \in Stream
    PROVE  /\ [r EXCEPT !.opened = TRUE] \in Stream
           /\ [r EXCEPT !.opened = TRUE].opened /\ [r EXCEPT !.opened = TRUE].place = r.place
           /\ [r EXCEPT !.opened = TRUE].waiters = r.waiters
BY DEF Stream

\* A stream whose file is renamed or removed is otherwise the same.
LEMMA SetPlace ==
    ASSUME NEW r \in Stream, NEW p \in 0 .. Unlinked
    PROVE  /\ [r EXCEPT !.place = p] \in Stream
           /\ [r EXCEPT !.place = p].opened = r.opened /\ [r EXCEPT !.place = p].place = p
           /\ [r EXCEPT !.place = p].waiters = r.waiters
BY DEF Stream

\* A stream that other calls wait for is otherwise the same.
LEMMA SetWaiters ==
    ASSUME NEW r \in Stream, NEW w \in SUBSET Calls
    PROVE  /\ [r EXCEPT !.waiters = w] \in Stream
           /\ [r EXCEPT !.waiters = w].opened = r.opened /\ [r EXCEPT !.waiters = w].place = r.place
           /\ [r EXCEPT !.waiters = w].waiters = w
BY DEF Stream

\* The calls of S, which wait for nothing, end the stream and wait for it, or go on.
LEMMA StreamClosed ==
    ASSUME FilesInv, NEW S \in SUBSET Calls, \A c \in S : ~Waiting(c),
           NEW at \in {"end", "lastEnd"}, NEW next \in {"shift", "closed"},
           CloseStream(S, at, next), UNCHANGED <<delivered, disk, current, toClose>>,
           running' = running \/ (running' = "no" /\ ~InFlight),
           target' = target \/ (target' = NoStream /\ ~InFlight)
    PROVE  /\ FilesTypes' /\ OpenStreams' /\ OneStreamEach' /\ DiskInv'
           /\ DOMAIN streams' = DOMAIN streams
<1> USE DEF FilesInv, FilesTypes
<1>0. InFlight' => InFlight /\ target' = target
  BY DEF InFlight, FilesInv
<1>1. CASE current = NoStream
  <2>1. pc' = Moved(S, next) /\ streams' = streams
    BY <1>1 DEF CloseStream
  <2>2. /\ pc' \in [Calls -> {"idle", "flush", "end", "shift", "last", "lastEnd", "closed", "failed"}]
        /\ \A c \in Calls : Waiting(c)' <=> Waiting(c)
    BY <2>1 DEF Moved, Waiting, CallTypes
  <2>3. FilesTypes'
    BY <2>1, <2>2 DEF CallTypes, StreamTypes, DiskTypes, NoStream
  <2>4. OneStreamEach'
    BY <2>1, <2>2, WaitersKept
  <2>5. OpenStreams'
    BY <1>0, <2>1 DEF OpenStreams
  <2>6. DiskInv'
    BY <1>0, <2>1, DiskKept DEF InUse
  <2> QED  BY <2>1, <2>3, <2>4, <2>5, <2>6
<1>2. CASE current # NoStream
  <2> DEFINE w == streams[current].waiters \cup S
  <2>1. /\ current \in DOMAIN streams /\ pc' = Moved(S, at)
        /\ streams' = [streams EXCEPT ![current].waiters = @ \cup S]
    BY <1>2 DEF CloseStream, OpenStreams
  <2>2. streams[current] \in Stream /\ w \in SUBSET Calls
    BY <2>1 DEF StreamTypes, Stream
  <2>3. /\ DOMAIN streams' = DOMAIN streams
        /\ streams'[current] = [streams[current] EXCEPT !.waiters = w]
        /\ \A s \in DOMAIN streams : s # current => streams'[s] = streams[s]
    BY <2>1
  <2> HIDE DEF w
  <2>4. /\ streams'[current] \in Stream /\ streams'[current].opened = streams[current].opened
        /\ streams'[current].place = streams[current].place /\ streams'[current].waiters = w
    BY <2>2, <2>3, SetWaiters
  <2>5. /\ pc' \in [Calls -> {"idle", "flush", "end", "shift", "last", "lastEnd", "closed", "failed"}]
        /\ \A c \in Calls : Waiting(c)' <=> (c \in S \/ Waiting(c))
    BY <2>1 DEF Moved, Waiting, CallTypes
  <2>6. FilesTypes'
    <3>1. CallTypes' /\ DiskTypes'
      BY <2>5 DEF CallTypes, DiskTypes, NoStream
    <3>2. StreamTypes'
      BY <2>3, <2>4 DEF StreamTypes
    <3> QED  BY <3>1, <3>2
  <2>7. OneStreamEach'
    <3>1. \A s \in DOMAIN streams : streams[s].waiters \subseteq Calls
      BY DEF StreamTypes, Stream
    <3>2. \A s \in DOMAIN streams' : streams'[s].waiters =
             IF s = current THEN streams[s].waiters \cup S ELSE streams[s].waiters
      BY <2>3, <2>4 DEF w
    <3>3. ASSUME NEW s \in DOMAIN streams', NEW c \in streams'[s].waiters PROVE Waiting(c)'
      <4>1. c \in Calls /\ (c \in S \/ c \in streams[s].waiters)
        BY <2>3, <3>1, <3>2
      <4> QED  BY <2>3, <2>5, <4>1 DEF OneStreamEach
    <3>4. ASSUME NEW c \in Calls, Waiting(c)' PROVE \E s \in DOMAIN streams' : c \in streams'[s].waiters
      <4>1. CASE c \in S
        BY <2>1, <2>3, <3>2, <4>1
      <4>2. CASE Waiting(c)
        BY <2>3, <3>2, <4>2 DEF OneStreamEach
      <4> QED  BY <2>5, <3>4, <4>1, <4>2
    <3>5. ASSUME NEW s \in DOMAIN streams', NEW t \in DOMAIN streams', NEW c \in streams'[s].waiters,
                 c \in streams'[t].waiters
          PROVE  s = t
      <4>1. CASE c \in S
        <5>1. \A u \in DOMAIN streams : c \notin streams[u].waiters
          BY <4>1 DEF OneStreamEach
        <5> QED  BY <2>3, <3>2, <3>5, <5>1
      <4>2. CASE c \notin S
        BY <2>3, <3>2, <3>5, <4>2 DEF OneStreamEach
      <4> QED  BY <4>1, <4>2
    <3> QED  BY <3>3, <3>4, <3>5 DEF OneStreamEach
  <2>8. OpenStreams'
    BY <1>0, <2>3 DEF OpenStreams
  <2>9. DiskInv'
    <3>1. \A s \in DOMAIN streams' :
            /\ s \in DOMAIN streams /\ (InUse(s)' => InUse(s))
            /\ streams'[s].opened = streams[s].opened /\ streams'[s].place = streams[s].place
      BY <1>0, <2>3, <2>4 DEF InUse
    <3> QED  BY <3>1, DiskKept
  <2> QED  BY <2>3, <2>6, <2>7, <2>8, <2>9
<1> QED  BY <1>1, <1>2

-----------------------------------------------------------------------------
(* The steps.                                                              *)

\* The constructor: no stream, and no file is known.
LEMMA FilesInit == Init => FilesInv
<1> SUFFICES ASSUME Init PROVE FilesInv
  OBVIOUS
<1> USE DEF Init
<1>1. DOMAIN streams = {} /\ DOMAIN disk = {}
  OBVIOUS
<1>2. LinesInv
  BY InitLines
<1>3. FilesTypes
  BY <1>1 DEF FilesTypes, CallTypes, StreamTypes, DiskTypes, NoStream
<1>4. StreamsCounted
  BY <1>1, FS_EmptySet, FileAssumption DEF StreamsCounted
<1>5. OpenStreams /\ OneStreamEach
  BY <1>1 DEF OpenStreams, OneStreamEach, InFlight, Waiting
<1>6. PlacesExist /\ NewerAreEmpty
  BY <1>1 DEF PlacesExist, NewerAreEmpty
<1>7. CutsOf([p \in 0 .. MaxFiles + 1 |-> 0])
  <2>1. SubSeq(delivered, 1, 0) = <<>> /\ Len(delivered) = 0 /\ MaxFiles \in Nat
    BY FileAssumption
  <2> QED  BY <1>1, <2>1 DEF CutsOf, Lines
<1> QED  BY <1>2, <1>3, <1>4, <1>5, <1>6, <1>7 DEF FilesInv, DiskInv, DiskIsCut

\* A flush() begins a run or joins one.
LEMMA FlushByFiles ==
    ASSUME FilesInv, UNCHANGED files, UNCHANGED <<delivered, target>>, toClose' \in Nat,
           (\E c \in Calls : \E buf : FlushBy(c, buf)) \/ UNCHANGED <<running, pc>>
    PROVE  FilesTypes' /\ OpenStreams' /\ OneStreamEach' /\ DiskInv'
<1>1. /\ running' \in {"no", "target", "writing", "refused", "done"}
      /\ InFlight' => InFlight
      /\ pc' \in [Calls -> {"idle", "flush", "end", "shift", "last", "lastEnd", "closed", "failed"}]
      /\ \A c \in Calls : Waiting(c)' <=> Waiting(c)
  <2>1. CASE UNCHANGED <<running, pc>>
    BY <2>1 DEF FilesInv, FilesTypes, CallTypes, InFlight, Waiting
  <2>2. CASE \E c \in Calls : \E buf : FlushBy(c, buf)
    BY <2>2 DEF FilesInv, FilesTypes, CallTypes, InFlight, Waiting, FlushBy, Moved
  <2> QED  BY <2>1, <2>2
<1>2. FilesTypes'
  BY <1>1 DEF FilesInv, FilesTypes, CallTypes, StreamTypes, DiskTypes
<1>3. OpenStreams'
  BY <1>1 DEF FilesInv, OpenStreams
<1>4. OneStreamEach'
  BY <1>1, WaitersKept DEF FilesInv
<1>5. DiskInv'
  BY <1>1, DiskKept DEF InUse
<1> QED  BY <1>2, <1>3, <1>4, <1>5

\* push() does not touch the files.
LEMMA PushFiles ==
    ASSUME FilesInv, Write \/ BatchEntry
    PROVE  FilesInv'
<1>1. /\ LinesInv' /\ offered' = offered + 1 /\ buffer' = Append(buffer, offered + 1)
      /\ UNCHANGED delivered
  BY WriteLines DEF FilesInv
<1>2. /\ offered < MaxEntries /\ UNCHANGED files /\ UNCHANGED <<target, toClose>>
      /\ (\E c \in Calls : \E buf : FlushBy(c, buf)) \/ UNCHANGED <<running, pc>>
  BY DEF Write, BatchEntry, Push, Calls
<1>3. FilesTypes' /\ OpenStreams' /\ OneStreamEach' /\ DiskInv'
  BY <1>1, <1>2, FlushByFiles DEF FilesInv, FilesTypes, CallTypes
<1>4. StreamsCounted'
  <2>1. Len(buffer') = Len(buffer) + 1 /\ Len(buffer) \in Nat /\ buffer' # <<>>
    BY <1>1, AppendProperties, LenProperties, SMTT(20) DEF FilesInv, LinesInv, LinesOK
  <2>2. Cardinality(DOMAIN streams) \in Nat /\ offered \in Nat /\ MaxEntries \in Nat
    BY FS_CardinalityType, FileAssumption DEF FilesInv, StreamsCounted, LinesInv, LinesOK
  <2> QED  BY <1>1, <1>2, <2>1, <2>2 DEF FilesInv, StreamsCounted
<1> QED  BY <1>1, <1>3, <1>4 DEF FilesInv

\* flush(), close() and the interval start a flush and touch no file.
LEMMA FlushFiles ==
    ASSUME FilesInv, Close \/ IntervalTick \/ \E c \in Callers : Flush(c)
    PROVE  FilesInv'
<1>1. LinesInv'
  BY QuietStep DEF FilesInv
<1>2. /\ UNCHANGED <<offered, delivered, buffer, target>> /\ UNCHANGED files
      /\ toClose' \in {toClose, offered}
      /\ \E c \in Calls : FlushBy(c, buffer)
  BY DEF Close, IntervalTick, Flush, Calls
<1>3. toClose' \in Nat
  BY <1>2 DEF FilesInv, FilesTypes, CallTypes, LinesInv, LinesOK
<1>4. FilesTypes' /\ OpenStreams' /\ OneStreamEach' /\ DiskInv'
  BY <1>2, <1>3, FlushByFiles
<1>5. StreamsCounted'
  <2>1. running' = "target" => running = "target" \/ buffer # <<>>
    BY <1>2 DEF FlushBy
  <2> QED  BY <1>2, <2>1, CountKept
<1> QED  BY <1>1, <1>4, <1>5 DEF FilesInv

\* rotate(), the end of close(), and the calls behind a run: the stream is ended,
\* or the calls go on.
LEMMA CloseStreamFiles ==
    ASSUME FilesInv, CloseLast \/ RunReturns \/ \E c \in Callers : Rotate(c)
    PROVE  FilesInv'
<1>1. LinesInv'
  BY QuietStep DEF FilesInv
<1>2. /\ UNCHANGED <<offered, delivered, buffer, disk, current, toClose>>
      /\ running' = running \/ (running' = "no" /\ ~InFlight)
      /\ target' = target \/ (target' = NoStream /\ ~InFlight)
  BY DEF CloseLast, RunReturns, Rotate, InFlight
<1>3. CASE \E S \in SUBSET Calls :
             /\ \A c \in S : ~Waiting(c)
             /\ CloseStream(S, "end", "shift") \/ CloseStream(S, "lastEnd", "closed")
  <2>1. /\ FilesTypes' /\ OpenStreams' /\ OneStreamEach' /\ DiskInv'
        /\ DOMAIN streams' = DOMAIN streams
    BY <1>2, <1>3, StreamClosed
  <2>2. StreamsCounted'
    BY <1>2, <2>1, CountKept
  <2> QED  BY <1>1, <2>1, <2>2 DEF FilesInv
<1>4. CASE RunReturns /\ ~TooBig(disk)
  <2>1. /\ UNCHANGED <<streams, current, disk>> /\ running' = "no" /\ target' = NoStream
        /\ pc' = Returned({c \in Calls : pc[c] = "flush"})
    BY <1>4 DEF RunReturns
  <2>2. /\ pc' \in [Calls -> {"idle", "flush", "end", "shift", "last", "lastEnd", "closed", "failed"}]
        /\ \A c \in Calls : Waiting(c)' <=> Waiting(c)
    BY <2>1 DEF Returned, Waiting, FilesInv, FilesTypes, CallTypes
  <2>3. FilesTypes'
    BY <1>2, <2>1, <2>2 DEF FilesInv, FilesTypes, CallTypes, StreamTypes, DiskTypes, NoStream
  <2>4. ~InFlight'
    BY <2>1 DEF InFlight
  <2>5. OpenStreams'
    BY <2>1, <2>4 DEF FilesInv, OpenStreams
  <2>6. OneStreamEach'
    BY <2>1, <2>2, WaitersKept
  <2>7. DiskInv'
    BY <1>2, <2>1, <2>4, DiskKept DEF InUse
  <2>8. StreamsCounted'
    BY <1>2, <2>1, CountKept
  <2> QED  BY <1>1, <2>3, <2>5, <2>6, <2>7, <2>8 DEF FilesInv
<1>5. CASE RunReturns /\ TooBig(disk)
  <2> DEFINE S == {c \in Calls : pc[c] = "flush"}
  <2>1. S \in SUBSET Calls /\ \A c \in S : ~Waiting(c)
    BY DEF Waiting
  <2>2. CloseStream(S, "end", "shift")
    BY <1>5 DEF RunReturns
  <2> QED  BY <1>3, <2>1, <2>2
<1>6. CASE CloseLast
  <2>1. {Closer} \in SUBSET Calls /\ \A c \in {Closer} : ~Waiting(c)
    BY <1>6 DEF CloseLast, Waiting, Calls
  <2> QED  BY <1>3, <1>6, <2>1 DEF CloseLast
<1>7. ASSUME NEW c \in Callers, Rotate(c) PROVE FilesInv'
  <2>1. {c} \in SUBSET Calls /\ \A d \in {c} : ~Waiting(d)
    BY <1>7 DEF Rotate, Waiting, Calls
  <2> QED  BY <1>3, <1>7, <2>1 DEF Rotate
<1> QED  BY <1>4, <1>5, <1>6, <1>7

\* A number is left for a new stream.
LEMMA NumberLeft ==
    ASSUME FilesInv, buffer # <<>>
    PROVE  NewStream \in Nat \ {NoStream} /\ NewStream \notin DOMAIN streams
<1> DEFINE Numbers == 1 .. MaxEntries + 1
           Free == {i \in 0 .. MaxEntries : MaxEntries + 1 - i \notin DOMAIN streams}
<1>1. /\ IsFiniteSet(DOMAIN streams) /\ Cardinality(DOMAIN streams) \in Nat
      /\ Cardinality(DOMAIN streams) <= MaxEntries /\ MaxEntries \in Nat
  <2>1. Len(buffer) \in Nat /\ offered \in Nat
    BY LenProperties DEF FilesInv, LinesInv, LinesOK
  <2> QED  BY <2>1, FS_CardinalityType, FileAssumption DEF FilesInv, StreamsCounted
<1>2. ~ (Numbers \subseteq DOMAIN streams)
  <2>1. IsFiniteSet(Numbers) /\ Cardinality(Numbers) = MaxEntries + 1
    BY <1>1, FS_Interval
  <2>2. Numbers \subseteq DOMAIN streams => Cardinality(Numbers) <= Cardinality(DOMAIN streams)
    BY <1>1, FS_Subset
  <2> QED  BY <1>1, <2>1, <2>2
<1>3. Free # {}
  <2>1. PICK s \in Numbers : s \notin DOMAIN streams
    BY <1>2
  <2>2. MaxEntries + 1 - s \in 0 .. MaxEntries /\ MaxEntries + 1 - (MaxEntries + 1 - s) = s
    BY <1>1, <2>1
  <2> QED  BY <2>1, <2>2
<1>4. PICK m \in Free : \A k \in Free : k <= m
  <2>1. Free \in SUBSET (0 .. MaxEntries)
    OBVIOUS
  <2> HIDE DEF Free
  <2> QED  BY <1>1, <1>3, <2>1, LargestExists
<1> DEFINE s == MaxEntries + 1 - m
<1>5. s \in 1 .. MaxEntries + 1 /\ s \notin DOMAIN streams
  BY <1>1, <1>4
<1>6. ASSUME NEW t \in 1 .. s - 1 PROVE t \in DOMAIN streams
  <2>1. MaxEntries + 1 - t \in 0 .. MaxEntries /\ MaxEntries + 1 - (MaxEntries + 1 - t) = t
    BY <1>1, <1>5
  <2>2. ~ (MaxEntries + 1 - t <= m)
    BY <1>1, <1>4, <1>5
  <2> QED  BY <1>4, <2>1, <2>2
<1>7. NewStream \in 1 .. MaxEntries + 1 /\ NewStream \notin DOMAIN streams
  <2> HIDE DEF s
  <2> QED  BY <1>5, <1>6 DEF NewStream
<1> QED  BY <1>1, <1>7 DEF NoStream

\* The chunk has its stream: the current one, or one that is opened now.
LEMMA TargetKnownFiles ==
    ASSUME FilesInv, TargetKnown
    PROVE  FilesInv'
<1> DEFINE s == IF current = NoStream THEN NewStream ELSE current
           fresh == [opened |-> FALSE, place |-> 0, waiters |-> {}]
<1>1. /\ LinesInv' /\ UNCHANGED <<offered, delivered>> /\ buffer' = <<>> /\ buffer # <<>>
  BY TargetKnownLines DEF FilesInv, TargetKnown, StreamsCounted
<1>2. /\ UNCHANGED <<toClose, disk, pc>> /\ current' = s /\ target' = s
      /\ running' \in {"writing", "refused"}
  BY DEF TargetKnown
<1>3. CASE current # NoStream
  <2>1. s = current /\ s \in DOMAIN streams /\ streams' = streams
    BY <1>3 DEF TargetKnown, FilesInv, OpenStreams
  <2>2. FilesTypes'
    BY <1>2, <2>1 DEF FilesInv, FilesTypes, CallTypes, StreamTypes, DiskTypes
  <2>3. StreamsCounted'
    <3>1. Len(buffer) \in Nat /\ Len(<<>>) = 0 /\ offered \in Nat /\ Cardinality(DOMAIN streams) \in Nat
      BY LenProperties, FS_CardinalityType DEF FilesInv, StreamsCounted, LinesInv, LinesOK
    <3> QED  BY <1>1, <1>2, <2>1, <3>1 DEF FilesInv, StreamsCounted
  <2>4. OpenStreams'
    BY <1>2, <2>1 DEF OpenStreams
  <2>5. OneStreamEach'
    BY <1>2, <2>1, WaitersKept DEF Waiting
  <2>6. DiskInv'
    <3>1. \A t : InUse(t)' => InUse(t)
      BY <1>2, <2>1 DEF InUse
    <3> QED  BY <1>1, <1>2, <2>1, <3>1, DiskKept
  <2> QED  BY <1>1, <2>2, <2>3, <2>4, <2>5, <2>6 DEF FilesInv
<1>4. CASE current = NoStream
  <2>1. s = NewStream /\ s \in Nat \ {NoStream} /\ s \notin DOMAIN streams
    BY <1>1, <1>4, NumberLeft
  <2>2. streams' = [t \in DOMAIN streams \cup {s} |-> IF t = s THEN fresh ELSE streams[t]]
    BY <2>1 DEF TargetKnown
  <2> HIDE DEF s
  <2>3. /\ DOMAIN streams' = DOMAIN streams \cup {s}
        /\ \A t \in DOMAIN streams' : streams'[t] = IF t = s THEN fresh ELSE streams[t]
    BY <2>2
  <2>4. fresh \in Stream
    BY FileAssumption DEF Stream, Unlinked
  <2>5. FilesTypes'
    BY <1>2, <2>1, <2>3, <2>4 DEF FilesInv, FilesTypes, CallTypes, StreamTypes, DiskTypes
  <2>6. StreamsCounted'
    <3>1. Len(buffer) \in Nat /\ Len(buffer) # 0 /\ Len(<<>>) = 0 /\ offered \in Nat
      BY <1>1, LenProperties, EmptySeq DEF FilesInv, LinesInv, LinesOK
    <3>2. /\ IsFiniteSet(DOMAIN streams) /\ IsFiniteSet(DOMAIN streams \cup {s})
          /\ Cardinality(DOMAIN streams \cup {s}) = Cardinality(DOMAIN streams) + 1
          /\ Cardinality(DOMAIN streams) \in Nat
      BY <2>1, FS_AddElement, FS_CardinalityType DEF FilesInv, StreamsCounted
    <3> QED  BY <1>1, <1>2, <2>3, <3>1, <3>2 DEF FilesInv, StreamsCounted
  <2>7. OpenStreams'
    BY <1>2, <2>3 DEF OpenStreams
  <2>8. OneStreamEach'
    <3>1. \A t \in DOMAIN streams' : streams'[t].waiters = IF t \in DOMAIN streams THEN streams[t].waiters ELSE {}
      BY <2>1, <2>3
    <3> QED  BY <1>2, <2>3, <3>1, WaitersKept DEF Waiting
  <2>9. DiskInv'
    <3>1. \A t \in DOMAIN streams' : InUse(t)' => t = s
      BY <1>2 DEF InUse
    <3>2. \A t \in DOMAIN streams' :
            \/ /\ t \in DOMAIN streams /\ (InUse(t)' => InUse(t))
               /\ streams'[t].opened = streams[t].opened /\ streams'[t].place = streams[t].place
            \/ ~streams'[t].opened /\ streams'[t].place = 0
      BY <2>1, <2>3, <3>1
    <3> QED  BY <1>1, <1>2, <3>2, DiskKept
  <2> QED  BY <1>1, <2>5, <2>6, <2>7, <2>8, <2>9 DEF FilesInv
<1> QED  BY <1>3, <1>4

\* A stream opens its file, which is created if it is missing.
LEMMA StreamOpensFiles ==
    ASSUME FilesInv, NEW s \in DOMAIN streams, StreamOpens(s)
    PROVE  FilesInv'
<1>1. LinesInv'
  BY QuietStep DEF FilesInv, StreamStep
<1>2. /\ ~streams[s].opened /\ streams' = [streams EXCEPT ![s].opened = TRUE]
      /\ disk' = FileOpened(disk) /\ UNCHANGED <<history, buffer, flushRun, current, pc>>
  BY DEF StreamOpens
<1>3. /\ DOMAIN streams' = DOMAIN streams
      /\ \A t \in DOMAIN streams : t # s => streams'[t] = streams[t]
      /\ streams'[s] = [streams[s] EXCEPT !.opened = TRUE]
  BY <1>2
<1>4. /\ streams'[s] \in Stream /\ streams'[s].opened /\ streams'[s].place = 0
      /\ streams'[s].waiters = streams[s].waiters
  BY <1>2, <1>3, SetOpened
  DEF FilesInv, FilesTypes, StreamTypes, DiskInv, PlacesExist
<1>5. /\ DOMAIN disk' = DOMAIN disk \cup {0} /\ \A p : Lines(p)' = Lines(p)
      /\ \A p \in DOMAIN disk' : disk'[p] = Lines(p)
  BY <1>2 DEF FileOpened, Lines
<1>6. FilesTypes'
  <2>1. CallTypes'
    BY <1>2 DEF FilesInv, FilesTypes, CallTypes
  <2>2. StreamTypes'
    BY <1>3, <1>4 DEF FilesInv, FilesTypes, StreamTypes
  <2>3. DiskTypes'
    <3>1. \A p : Lines(p) \in Seq(Nat)
      BY EmptySeq DEF FilesInv, FilesTypes, DiskTypes, Lines
    <3> QED  BY <1>5, <3>1, FileAssumption DEF FilesInv, FilesTypes, DiskTypes
  <2> QED  BY <2>1, <2>2, <2>3 DEF FilesTypes
<1>7. StreamsCounted'
  BY <1>2, <1>3, CountKept
<1>8. OpenStreams'
  BY <1>2, <1>3 DEF FilesInv, OpenStreams, InFlight
<1>9. OneStreamEach'
  <2>1. \A t \in DOMAIN streams' : streams'[t].waiters = IF t \in DOMAIN streams THEN streams[t].waiters ELSE {}
    BY <1>3, <1>4
  <2> QED  BY <1>2, <1>3, <2>1, WaitersKept DEF Waiting
<1>10. DiskInv'
  <2>1. PlacesExist'
    <3>1. ASSUME NEW t \in DOMAIN streams, t # s
          PROVE  IF streams'[t].opened THEN streams'[t].place \in DOMAIN disk' \cup {Unlinked}
                                       ELSE streams'[t].place = 0
      <4>1. IF streams[t].opened THEN streams[t].place \in DOMAIN disk \cup {Unlinked}
                                 ELSE streams[t].place = 0
        BY DEF FilesInv, DiskInv, PlacesExist
      <4> QED  BY <1>3, <1>5, <3>1, <4>1
    <3>2. streams'[s].place \in DOMAIN disk' \cup {Unlinked}
      BY <1>4, <1>5
    <3> QED  BY <1>3, <1>4, <3>1, <3>2 DEF PlacesExist
  <2>2. NewerAreEmpty'
    <3>1. \A t : InUse(t)' <=> InUse(t)
      BY <1>2 DEF InUse, InFlight
    <3>2. \A q \in 0 .. MaxFiles : ~ (q < 0)
      BY FileAssumption
    <3> QED  BY <1>3, <1>4, <1>5, <3>1, <3>2 DEF FilesInv, DiskInv, NewerAreEmpty
  <2>3. DiskIsCut'
    BY <1>2, <1>5 DEF FilesInv, DiskInv, DiskIsCut, CutsOf
  <2> QED  BY <2>1, <2>2, <2>3 DEF DiskInv
<1> QED  BY <1>1, <1>6, <1>7, <1>8, <1>9, <1>10 DEF FilesInv

\* A stream is gone, and those who waited for it go on, or fail.
LEMMA StreamGone ==
    ASSUME FilesInv, LinesInv', NEW s \in DOMAIN streams, streams' = Without(streams, s),
           InFlight' => InFlight /\ target # s,
           running' # "target" \/ running' = running, UNCHANGED <<offered, delivered, buffer, toClose, disk>>,
           running' \in {"no", "target", "writing", "refused", "done"}, target' = target,
           current' = NoStream \/ (current' = current /\ current # s),
           pc' \in [Calls -> {"idle", "flush", "end", "shift", "last", "lastEnd", "closed", "failed"}],
           \A c \in Calls : IF c \in streams[s].waiters THEN ~Waiting(c)' ELSE pc'[c] = pc[c]
    PROVE  FilesInv'
<1>1. DOMAIN streams' = DOMAIN streams \ {s} /\ \A t \in DOMAIN streams' : streams'[t] = streams[t]
  BY DEF Without
<1>2. FilesTypes'
  BY <1>1 DEF FilesInv, FilesTypes, CallTypes, StreamTypes, DiskTypes, NoStream
<1>3. StreamsCounted'
  BY <1>1, CountKept
<1>4. OpenStreams'
  BY <1>1 DEF FilesInv, OpenStreams
<1>5. OneStreamEach'
  BY WaitersRelieved
<1>6. DiskInv'
  <2>1. \A t \in DOMAIN streams' : t # NoStream
    BY <1>2 DEF FilesTypes, StreamTypes
  <2>2. \A t \in DOMAIN streams' : InUse(t)' => InUse(t)
    BY <2>1 DEF InUse
  <2> QED  BY <1>1, <2>2, DiskKept
<1> QED  BY <1>2, <1>3, <1>4, <1>5, <1>6 DEF FilesInv

\* A stream ends, and the calls that wait for it go on.
LEMMA StreamEndsFiles ==
    ASSUME FilesInv, NEW s \in DOMAIN streams, StreamEnds(s) \/ EndFails(s)
    PROVE  FilesInv'
<1>1. LinesInv'
  BY QuietStep DEF FilesInv, StreamStep
<1>2. pc \in [Calls -> {"idle", "flush", "end", "shift", "last", "lastEnd", "closed", "failed"}]
  BY DEF FilesInv, FilesTypes, CallTypes
<1>3. CASE StreamEnds(s)
  BY <1>1, <1>2, <1>3, StreamGone DEF StreamEnds, Settled, InFlight, Waiting, FilesInv, FilesTypes, CallTypes
<1>4. CASE EndFails(s)
  BY <1>1, <1>2, <1>4, StreamGone
  DEF EndFails, StreamDies, Rejected, Settled, InFlight, Waiting, FilesInv, FilesTypes, CallTypes
<1> QED  BY <1>3, <1>4

\* A refused chunk does not reach the file.
LEMMA ChunkFailsFiles ==
    ASSUME FilesInv, ChunkFails
    PROVE  FilesInv'
<1>1. /\ LinesInv' /\ UNCHANGED <<offered, buffer>>
  BY ChunkLines DEF FilesInv
<1>2. /\ UNCHANGED <<delivered, toClose, target, disk>> /\ running' = "done" /\ InFlight /\ ~InFlight'
  BY DEF ChunkFails, InFlight
<1>3. target \in DOMAIN streams
  BY <1>2 DEF FilesInv, OpenStreams
<1>4. CASE StreamDies(target)
  BY <1>1, <1>2, <1>3, <1>4, StreamGone
  DEF StreamDies, Rejected, Waiting, FilesInv, FilesTypes, CallTypes
<1>5. CASE UNCHANGED <<streams, pc>> /\ current' = IF current = target THEN NoStream ELSE current
  <2>1. FilesTypes'
    BY <1>2, <1>5 DEF FilesInv, FilesTypes, CallTypes, StreamTypes, DiskTypes, NoStream
  <2>2. StreamsCounted'
    BY <1>1, <1>2, <1>5, CountKept
  <2>3. OpenStreams'
    BY <1>2, <1>5 DEF FilesInv, OpenStreams
  <2>4. OneStreamEach'
    BY <1>5, WaitersKept DEF Waiting
  <2>5. DiskInv'
    <3>1. \A t \in DOMAIN streams' : t # NoStream
      BY <2>1 DEF FilesTypes, StreamTypes
    <3>2. \A t \in DOMAIN streams' : InUse(t)' => InUse(t)
      BY <1>2, <1>5, <3>1 DEF InUse
    <3> QED  BY <1>2, <1>5, <3>2, DiskKept
  <2> QED  BY <1>1, <2>1, <2>2, <2>3, <2>4, <2>5 DEF FilesInv
<1> QED  BY <1>4, <1>5 DEF ChunkFails

\* Files that are empty cut nothing off.
LEMMA EmptyNewer ==
    ASSUME delivered \in Seq(Nat), MaxFiles \in Nat, NEW cut, CutsOf(cut), NEW p \in 0 .. MaxFiles + 1,
           \A q \in 0 .. MaxFiles : q < p => Lines(q) = <<>>
    PROVE  \A q \in 0 .. p : cut[q] = Len(delivered)
<1> DEFINE R == {i \in Nat : i <= p => cut[i] = Len(delivered)}
<1>1. 0 \in R
  BY DEF CutsOf
<1>2. ASSUME NEW i \in Nat, i \in R PROVE i + 1 \in R
  <2> SUFFICES ASSUME i + 1 <= p PROVE cut[i + 1] = Len(delivered)
    OBVIOUS
  <2>1. /\ i \in 0 .. MaxFiles /\ i < p /\ cut[i] = Len(delivered)
    BY <1>2
  <2>2. /\ cut[i + 1] <= cut[i] /\ <<>> = SubSeq(delivered, cut[i + 1] + 1, cut[i])
        /\ cut[i + 1] \in 0 .. Len(delivered) /\ Len(delivered) \in Nat
    <3>1. /\ cut[i + 1] <= cut[i] /\ Lines(i) = SubSeq(delivered, cut[i + 1] + 1, cut[i])
      BY <2>1 DEF CutsOf
    <3>2. i + 1 \in 0 .. MaxFiles + 1 /\ Lines(i) = <<>>
      BY <2>1
    <3> QED  BY <3>1, <3>2, LenProperties DEF CutsOf
  <2>3. Len(SubSeq(delivered, cut[i + 1] + 1, cut[i])) = cut[i] - cut[i + 1]
    BY <2>1, <2>2
  <2>4. cut[i] - cut[i + 1] = 0
    BY <2>2, <2>3
  <2>5. cut[i] \in Nat /\ cut[i + 1] \in Nat
    BY <2>1, <2>2
  <2> QED  BY <2>1, <2>4, <2>5
<1>3. Nat \subseteq R
  <2> HIDE DEF R
  <2> QED  BY <1>1, <1>2, SetInduction
<1> QED  BY <1>3

\* What is appended to the newest file with lines in it, or to none.
LEMMA PartLength ==
    ASSUME NEW s \in Seq(Nat), NEW i \in 0 .. Len(s), NEW j \in 0 .. Len(s), i <= j
    PROVE  Len(SubSeq(s, i + 1, j)) = j - i
OBVIOUS

\* A part of a sequence is a part of a longer one.
LEMMA PartBefore ==
    ASSUME NEW s \in Seq(Nat), NEW t \in Seq(Nat), NEW i \in 0 .. Len(s), NEW j \in 0 .. Len(s)
    PROVE  SubSeq(s \o t, i + 1, j) = SubSeq(s, i + 1, j)
OBVIOUS

\* The end of a longer sequence is the end of the first part, and the rest.
LEMMA PartAndRest ==
    ASSUME NEW s \in Seq(Nat), NEW t \in Seq(Nat), NEW i \in 0 .. Len(s)
    PROVE  SubSeq(s \o t, i + 1, Len(s) + Len(t)) = SubSeq(s, i + 1, Len(s)) \o t
<1> DEFINE a == SubSeq(s, 1, i)
           b == SubSeq(s, i + 1, Len(s))
<1>1. a \in Seq(Nat) /\ b \in Seq(Nat) /\ Len(a) = i /\ s = a \o b
  <2>1. Len(s) \in Nat /\ 0 \in 0 .. Len(s) /\ Len(s) \in 0 .. Len(s)
    BY LenProperties
  <2>2. SubSeq(s, 1, i) \o SubSeq(s, i + 1, Len(s)) = SubSeq(s, 1, Len(s))
    <3>1. 1 \in 1 .. Len(s) + 1 /\ i \in 1 - 1 .. Len(s) /\ Len(s) \in i .. Len(s)
      BY <2>1
    <3> QED  BY <3>1, ConcatAdjacentSubSeq
  <2>3. SubSeq(s, 1, Len(s)) = s
    BY SubSeqFull
  <2>4. s = a \o b
    BY <2>2, <2>3
  <2>5. a \in Seq(Nat) /\ b \in Seq(Nat) /\ Len(a) = i
    OBVIOUS
  <2> QED  BY <2>4, <2>5
<1> HIDE DEF a, b
<1>2. /\ b \o t \in Seq(Nat) /\ s \o t = a \o (b \o t)
      /\ Len(s \o t) = Len(s) + Len(t)
  <2>1. b \o t \in Seq(Nat) /\ Len(s \o t) = Len(s) + Len(t)
    BY <1>1, ConcatProperties
  <2>2. (a \o b) \o t = a \o (b \o t)
    BY <1>1, Queue!ConcatAssoc
  <2> QED  BY <1>1, <2>1, <2>2
<1>3. SubSeq(a \o (b \o t), Len(a) + 1, Len(a \o (b \o t))) = b \o t
  BY <1>1, <1>2, Cut
<1>4. SubSeq(s \o t, i + 1, Len(s) + Len(t)) = b \o t
  BY <1>1, <1>2, <1>3
<1> QED  BY <1>4 DEF b

\* A chunk that is written stands behind the lines of the newest file.
LEMMA ChunkWrittenCuts ==
    ASSUME FilesInv, ChunkWritten
    PROVE  DiskIsCut'
<1>0. PICK p, D, n, m : /\ p = streams[target].place /\ D = delivered
                       /\ n = Len(delivered) /\ m = Len(chunk)
  OBVIOUS
<1>1. /\ target \in DOMAIN streams /\ streams[target].opened
      /\ delivered' = D \o chunk
      /\ disk' = IF p \in DOMAIN disk THEN [disk EXCEPT ![p] = @ \o chunk] ELSE disk
      /\ InUse(target)
  BY <1>0 DEF ChunkWritten, FilesInv, OpenStreams, InUse, InFlight
<1>2. /\ p \in 0 .. MaxFiles + 1 /\ p \in DOMAIN disk \cup {MaxFiles + 1}
      /\ DOMAIN disk \subseteq 0 .. MaxFiles /\ MaxFiles \in Nat \ {0}
      /\ \A q \in 0 .. MaxFiles : q < p => Lines(q) = <<>>
  BY <1>0, <1>1, FileAssumption
  DEF FilesInv, FilesTypes, StreamTypes, Stream, DiskTypes, DiskInv, PlacesExist, NewerAreEmpty, Unlinked
<1>3. PICK cut : CutsOf(cut)
  BY DEF FilesInv, DiskInv, DiskIsCut
<1>4. /\ D \in Seq(Nat) /\ chunk \in Seq(Nat) /\ D \o chunk \in Seq(Nat)
      /\ n \in Nat /\ m \in Nat /\ Len(D \o chunk) = n + m
  BY <1>0, ConcatProperties, LenProperties DEF FilesInv, LinesInv, LinesOK
<1>5. \A q \in 0 .. p : cut[q] = n
  BY <1>0, <1>2, <1>3, <1>4, EmptyNewer
<1>6. \A q \in 0 .. MaxFiles + 1 : cut[q] \in 0 .. n
  BY <1>0, <1>3 DEF CutsOf
<1>7. \A q \in 0 .. MaxFiles : /\ cut[q + 1] <= cut[q]
                               /\ Lines(q) = SubSeq(D, cut[q + 1] + 1, cut[q])
  BY <1>0, <1>3 DEF CutsOf
<1>8. /\ \A q \in 0 .. MaxFiles : q # p => Lines(q)' = Lines(q)
      /\ p \in 0 .. MaxFiles => Lines(p)' = Lines(p) \o chunk
  <2>1. CASE p \in DOMAIN disk
    <3>1. /\ DOMAIN disk' = DOMAIN disk /\ disk'[p] = disk[p] \o chunk
          /\ \A q \in DOMAIN disk : q # p => disk'[q] = disk[q]
      BY <1>1, <2>1
    <3> QED  BY <2>1, <3>1 DEF Lines
  <2>2. CASE p = MaxFiles + 1
    <3>1. disk' = disk /\ p \notin 0 .. MaxFiles
      BY <1>1, <1>2, <2>2
    <3> QED  BY <3>1 DEF Lines
  <2> QED  BY <1>2, <2>1, <2>2
<1> DEFINE new == [q \in 0 .. MaxFiles + 1 |-> IF q <= p THEN n + m ELSE cut[q]]
<1>9. new \in [0 .. MaxFiles + 1 -> 0 .. n + m] /\ new[0] = n + m
  <2>1. \A q \in 0 .. MaxFiles + 1 : new[q] \in 0 .. n + m
    BY <1>2, <1>4, <1>6
  <2> QED  BY <1>2, <2>1
<1>10. ASSUME NEW q \in 0 .. MaxFiles
       PROVE  /\ new[q + 1] <= new[q]
              /\ Lines(q)' = SubSeq(D \o chunk, new[q + 1] + 1, new[q])
  <2>0. q + 1 \in 0 .. MaxFiles + 1 /\ q \in 0 .. MaxFiles + 1 /\ cut[q] \in 0 .. n /\ cut[q + 1] \in 0 .. n
    BY <1>2, <1>6
  <2>1. CASE q < p
    <3>1. new[q] = n + m /\ new[q + 1] = n + m
      BY <1>2, <2>0, <2>1
    <3>2. Lines(q)' = <<>>
      BY <1>2, <1>8, <2>1
    <3>3. SubSeq(D \o chunk, n + m + 1, n + m) = <<>>
      BY <1>4, SubSeqEmpty
    <3>4. new[q + 1] <= new[q]
      BY <1>4, <3>1
    <3>5. Lines(q)' = SubSeq(D \o chunk, new[q + 1] + 1, new[q])
      BY <3>1, <3>2, <3>3, Zenon
    <3> QED  BY <3>4, <3>5
  <2>2. CASE q = p
    <3>1. new[q] = n + m /\ new[q + 1] = cut[q + 1] /\ cut[q] = n
      BY <1>2, <1>5, <2>0, <2>2
    <3>2. Lines(q)' = SubSeq(D, cut[q + 1] + 1, n) \o chunk
      <4>1. Lines(q) = SubSeq(D, cut[q + 1] + 1, cut[q])
        BY <1>7
      <4>2. Lines(q)' = Lines(q) \o chunk
        BY <1>8, <2>2
      <4> QED  BY <3>1, <4>1, <4>2
    <3>3. SubSeq(D, cut[q + 1] + 1, n) \o chunk = SubSeq(D \o chunk, cut[q + 1] + 1, n + m)
      BY <1>0, <1>4, <2>0, PartAndRest
    <3>4. new[q + 1] <= new[q]
      BY <1>4, <2>0, <3>1
    <3>5. Lines(q)' = SubSeq(D \o chunk, new[q + 1] + 1, new[q])
      BY <3>1, <3>2, <3>3, Zenon
    <3> QED  BY <3>4, <3>5
  <2>3. CASE q > p
    <3>1. new[q] = cut[q] /\ new[q + 1] = cut[q + 1]
      BY <1>2, <2>0, <2>3
    <3>2. Lines(q)' = SubSeq(D, cut[q + 1] + 1, cut[q]) /\ cut[q + 1] <= cut[q]
      BY <1>2, <1>7, <1>8, <2>3
    <3>3. SubSeq(D, cut[q + 1] + 1, cut[q]) = SubSeq(D \o chunk, cut[q + 1] + 1, cut[q])
      BY <1>0, <1>4, <2>0, PartBefore
    <3>4. Lines(q)' = SubSeq(D \o chunk, new[q + 1] + 1, new[q])
      BY <3>1, <3>2, <3>3, Zenon
    <3>5. new[q + 1] <= new[q]
      BY <3>1, <3>2, Zenon
    <3> QED  BY <3>4, <3>5, Zenon
  <2>4. q < p \/ q = p \/ q > p
    BY <1>2
  <2> QED  BY <2>1, <2>2, <2>3, <2>4, Zenon
<1> HIDE DEF new
<1>11. CutsOf(new)'
  <2>1. Len(delivered') = n + m /\ delivered' = D \o chunk
    BY <1>0, <1>1, <1>4
  <2> QED  BY <1>9, <1>10, <2>1 DEF CutsOf, new
<1> QED  BY <1>11 DEF DiskIsCut

\* A chunk is written to the file of its stream.
LEMMA ChunkWrittenFiles ==
    ASSUME FilesInv, ChunkWritten
    PROVE  FilesInv'
<1> DEFINE p == streams[target].place
<1>1. /\ LinesInv' /\ UNCHANGED <<offered, buffer>>
  BY ChunkLines DEF FilesInv
<1>2. /\ UNCHANGED <<toClose, target, current, streams, pc>> /\ running' = "done" /\ ~InFlight'
      /\ disk' = IF p \in DOMAIN disk THEN [disk EXCEPT ![p] = @ \o chunk] ELSE disk
  BY DEF ChunkWritten, InFlight
<1>3. DOMAIN disk' = DOMAIN disk /\ \A q \in DOMAIN disk : q # p => disk'[q] = disk[q]
  BY <1>2
<1>4. p \in DOMAIN disk => disk'[p] = disk[p] \o chunk
  BY <1>2
<1> HIDE DEF p
<1>5. DiskTypes'
  <2>1. p \in DOMAIN disk => disk[p] \o chunk \in Seq(Nat)
    BY ConcatProperties DEF FilesInv, FilesTypes, DiskTypes, LinesInv, LinesOK
  <2>2. \A q \in DOMAIN disk : disk'[q] \in Seq(Nat)
    BY <1>3, <1>4, <2>1 DEF FilesInv, FilesTypes, DiskTypes
  <2> QED  BY <1>3, <2>2 DEF FilesInv, FilesTypes, DiskTypes
<1>6. FilesTypes'
  BY <1>2, <1>5 DEF FilesInv, FilesTypes, CallTypes, StreamTypes
<1>7. StreamsCounted'
  BY <1>1, <1>2, CountKept
<1>8. OpenStreams'
  BY <1>2 DEF FilesInv, OpenStreams
<1>9. OneStreamEach'
  BY <1>2, WaitersKept DEF Waiting
<1>10. PlacesExist'
  BY <1>2, <1>3 DEF FilesInv, DiskInv, PlacesExist
<1>11. NewerAreEmpty'
  <2> SUFFICES ASSUME NEW s \in DOMAIN streams, streams[s].opened, InUse(s)',
                      NEW q \in 0 .. MaxFiles, q < streams[s].place
               PROVE  Lines(q)' = <<>>
    BY <1>2 DEF NewerAreEmpty
  <2>1. s = current /\ InUse(s)
    BY <1>2 DEF InUse
  <2>2. s = target
    <3>1. InFlight
      BY DEF ChunkWritten, InFlight
    <3>2. s # NoStream
      BY DEF FilesInv, FilesTypes, StreamTypes
    <3> QED  BY <2>1, <3>1, <3>2 DEF FilesInv, OpenStreams
  <2>3. q # p
    <3>1. p \in 0 .. Unlinked /\ Unlinked \in Nat
      BY <2>2, FileAssumption DEF FilesInv, FilesTypes, StreamTypes, Stream, Unlinked, p
    <3> QED  BY <2>2, <3>1 DEF p
  <2>4. Lines(q)' = Lines(q)
    BY <1>3, <2>3 DEF Lines
  <2> QED  BY <2>1, <2>4 DEF FilesInv, DiskInv, NewerAreEmpty
<1>12. DiskIsCut'
  BY ChunkWrittenCuts
<1> QED  BY <1>1, <1>6, <1>7, <1>8, <1>9, <1>10, <1>11, <1>12 DEF FilesInv, DiskInv

\* What the renames leave at each place.
LEMMA ShiftedLines ==
    ASSUME FilesInv, NEW c \in Calls, Shift(c)
    PROVE  /\ DiskTypes' /\ Lines(0)' = <<>>
           /\ \A q \in 1 .. MaxFiles :
                Lines(q)' = IF q = MaxFiles /\ MaxFiles - 1 \notin DOMAIN disk
                            THEN Lines(q) ELSE Lines(q - 1)
           /\ \A q \in 0 .. MaxFiles - 1 : q \in DOMAIN disk => q + 1 \in DOMAIN disk'
           /\ MaxFiles \in DOMAIN disk => MaxFiles \in DOMAIN disk'
<1> DEFINE P == {q \in 1 .. MaxFiles : q - 1 \in DOMAIN disk} \cup ({MaxFiles} \cap DOMAIN disk)
<1>1. disk' = [p \in P |-> IF p - 1 \in DOMAIN disk THEN disk[p - 1] ELSE disk[p]]
  BY DEF Shift, Shifted
<1>2. /\ DOMAIN disk \subseteq 0 .. MaxFiles /\ MaxFiles \in Nat \ {0}
      /\ \A p \in DOMAIN disk : disk[p] \in Seq(Nat)
  BY FileAssumption DEF FilesInv, FilesTypes, DiskTypes
<1>3. \A p : p \in P <=> \/ p \in 1 .. MaxFiles /\ p - 1 \in DOMAIN disk
                         \/ p = MaxFiles /\ MaxFiles \in DOMAIN disk
  OBVIOUS
<1> HIDE DEF P
<1>4. DOMAIN disk' = P /\ \A p \in P : disk'[p] = IF p - 1 \in DOMAIN disk THEN disk[p - 1] ELSE disk[p]
  BY <1>1
<1>5. \A p \in P : p \in 1 .. MaxFiles /\ (p - 1 \notin DOMAIN disk => p = MaxFiles /\ p \in DOMAIN disk)
  BY <1>2, <1>3
<1>6. DiskTypes'
  <2>1. \A p \in P : disk'[p] \in Seq(Nat)
    BY <1>2, <1>4, <1>5
  <2>2. P \subseteq 0 .. MaxFiles
    BY <1>2, <1>5
  <2> QED  BY <1>4, <2>1, <2>2 DEF DiskTypes
<1>7. Lines(0)' = <<>>
  BY <1>2, <1>4, <1>5 DEF Lines
<1>8. ASSUME NEW q \in 1 .. MaxFiles
      PROVE  Lines(q)' = IF q = MaxFiles /\ MaxFiles - 1 \notin DOMAIN disk THEN Lines(q) ELSE Lines(q - 1)
  <2>1. CASE q - 1 \in DOMAIN disk
    BY <1>3, <1>4, <2>1 DEF Lines
  <2>2. CASE q - 1 \notin DOMAIN disk /\ q = MaxFiles
    BY <1>3, <1>4, <2>2 DEF Lines
  <2>3. CASE q - 1 \notin DOMAIN disk /\ q # MaxFiles
    <3>1. q \notin P
      BY <1>5, <2>3
    <3> QED  BY <1>4, <2>3, <3>1 DEF Lines
  <2> QED  BY <2>1, <2>2, <2>3
<1>9. ASSUME NEW q \in 0 .. MaxFiles - 1, q \in DOMAIN disk PROVE q + 1 \in DOMAIN disk'
  <2>1. q + 1 \in 1 .. MaxFiles /\ (q + 1) - 1 = q
    BY <1>2
  <2> QED  BY <1>3, <1>4, <1>9, <2>1
<1>10. MaxFiles \in DOMAIN disk => MaxFiles \in DOMAIN disk'
  BY <1>3, <1>4
<1> QED  BY <1>6, <1>7, <1>8, <1>9, <1>10

\* The renames drop the oldest file at most.
LEMMA ShiftCuts ==
    ASSUME FilesInv, NEW c \in Calls, Shift(c)
    PROVE  DiskIsCut'
<1> DEFINE M == MaxFiles
<1>1. PICK cut : CutsOf(cut)
  BY DEF FilesInv, DiskInv, DiskIsCut
<1>2. PICK n : n = Len(delivered)
  OBVIOUS
<1>3. /\ delivered \in Seq(Nat) /\ n \in Nat /\ M \in Nat \ {0} /\ delivered' = delivered
      /\ \A q \in 0 .. M + 1 : cut[q] \in 0 .. n
      /\ cut[0] = n
      /\ \A q \in 0 .. M : cut[q + 1] <= cut[q] /\ Lines(q) = SubSeq(delivered, cut[q + 1] + 1, cut[q])
  BY <1>1, <1>2, LenProperties, FileAssumption DEF FilesInv, LinesInv, LinesOK, CutsOf, Shift
<1>4. PICK kept : kept = (M - 1 \notin DOMAIN disk)
  OBVIOUS
<1>5. /\ Lines(0)' = <<>>
      /\ \A q \in 1 .. M : Lines(q)' = IF q = M /\ kept THEN Lines(q) ELSE Lines(q - 1)
  BY <1>4, ShiftedLines
<1> DEFINE new == [q \in 0 .. M + 1 |-> IF q = 0 THEN n ELSE IF q = M + 1 /\ kept THEN cut[q] ELSE cut[q - 1]]
<1>6. new \in [0 .. M + 1 -> 0 .. n] /\ new[0] = n
  <2>1. ASSUME NEW q \in 0 .. M + 1 PROVE new[q] \in 0 .. n
    <3>1. q # 0 => q - 1 \in 0 .. M + 1
      BY <1>3
    <3> QED  BY <1>3, <3>1
  <2>2. 0 \in 0 .. M + 1
    BY <1>3
  <2> QED  BY <2>1, <2>2
<1>7. ASSUME NEW q \in 0 .. M
      PROVE  new[q + 1] <= new[q] /\ Lines(q)' = SubSeq(delivered, new[q + 1] + 1, new[q])
  <2>0. q + 1 \in 0 .. M + 1 /\ q \in 0 .. M + 1 /\ (q + 1) - 1 = q /\ q + 1 # 0
    BY <1>3
  <2>1. CASE q = 0
    <3>0. M + 1 # 1
      BY <1>3
    <3>1. new[q] = n /\ new[q + 1] = n
      BY <1>3, <2>0, <2>1, <3>0
    <3>2. SubSeq(delivered, n + 1, n) = <<>>
      BY <1>3, SubSeqEmpty
    <3>3. Lines(q)' = SubSeq(delivered, new[q + 1] + 1, new[q])
      BY <1>5, <2>1, <3>1, <3>2, Zenon
    <3>4. new[q + 1] <= new[q]
      BY <1>3, <3>1
    <3> QED  BY <3>3, <3>4
  <2>2. CASE q # 0 /\ ~ (q = M /\ kept)
    <3>1. /\ q - 1 \in 0 .. M /\ (q - 1) + 1 = q /\ q \in 1 .. M
      BY <1>3, <2>2
    <3>2. new[q] = cut[q - 1] /\ new[q + 1] = cut[q]
      BY <1>3, <2>0, <2>2
    <3>3. Lines(q)' = Lines(q - 1)
      BY <1>5, <2>2, <3>1
    <3>4. cut[q] <= cut[q - 1] /\ Lines(q - 1) = SubSeq(delivered, cut[q] + 1, cut[q - 1])
      BY <1>3, <3>1
    <3>5. Lines(q)' = SubSeq(delivered, new[q + 1] + 1, new[q])
      BY <3>2, <3>3, <3>4, Zenon
    <3>6. new[q + 1] <= new[q]
      BY <3>2, <3>4, Zenon
    <3> QED  BY <3>5, <3>6
  <2>3. CASE q # 0 /\ q = M /\ kept
    <3>1. /\ q - 1 \in 0 .. M /\ (q - 1) + 1 = q /\ q \in 1 .. M
      BY <1>3, <2>3
    <3>2. new[q] = cut[q - 1] /\ new[q + 1] = cut[q + 1]
      <4>1. q # M + 1
        BY <1>3, <2>3
      <4> QED  BY <2>0, <2>3, <4>1
    <3>3. Lines(q - 1) = <<>>
      BY <1>4, <2>3 DEF Lines
    <3>4. cut[q] <= cut[q - 1] /\ Lines(q - 1) = SubSeq(delivered, cut[q] + 1, cut[q - 1])
      BY <1>3, <3>1
    <3>5. cut[q] \in 0 .. n /\ cut[q - 1] \in 0 .. n /\ cut[q + 1] \in 0 .. n
      BY <1>3, <2>0, <3>1
    <3>6. cut[q - 1] = cut[q]
      <4>1. Len(SubSeq(delivered, cut[q] + 1, cut[q - 1])) = cut[q - 1] - cut[q]
        BY <1>2, <1>3, <3>4, <3>5, PartLength
      <4>2. Len(SubSeq(delivered, cut[q] + 1, cut[q - 1])) = 0
        <5>1. SubSeq(delivered, cut[q] + 1, cut[q - 1]) = <<>>
          BY <3>3, <3>4, Zenon
        <5>2. Len(<<>>) = 0
          OBVIOUS
        <5> QED  BY <5>1, <5>2, Zenon
      <4> QED  BY <3>5, <4>1, <4>2
    <3>7. Lines(q)' = Lines(q) /\ cut[q + 1] <= cut[q] /\ Lines(q) = SubSeq(delivered, cut[q + 1] + 1, cut[q])
      BY <1>3, <1>5, <2>3, <3>1
    <3>8. Lines(q)' = SubSeq(delivered, new[q + 1] + 1, new[q])
      BY <3>2, <3>6, <3>7, Zenon
    <3>9. new[q + 1] <= new[q]
      BY <3>2, <3>6, <3>7, Zenon
    <3> QED  BY <3>8, <3>9
  <2> QED  BY <2>1, <2>2, <2>3
<1> HIDE DEF new
<1>8. CutsOf(new)'
  <2>1. Len(delivered') = n /\ delivered' = delivered
    BY <1>2, <1>3
  <2> QED  BY <1>6, <1>7, <2>1 DEF CutsOf, new
<1> QED  BY <1>8 DEF DiskIsCut

\* The renames of a rotation keep the lines of the files in order.
LEMMA ShiftFiles ==
    ASSUME FilesInv, NEW c \in Calls, Shift(c)
    PROVE  FilesInv'
<1> DEFINE M == MaxFiles
<1>1. LinesInv'
  BY QuietStep DEF FilesInv
<1>2. /\ UNCHANGED <<history, buffer, flushRun, current>> /\ pc[c] = "shift" /\ pc' = Returned({c})
      /\ streams' = [s \in DOMAIN streams |-> IF streams[s].opened
                                              THEN [streams[s] EXCEPT !.place = PlaceShifted(@)]
                                              ELSE streams[s]]
  BY DEF Shift
<1>3. M \in Nat \ {0} /\ DOMAIN disk \subseteq 0 .. M /\ Unlinked = M + 1
  BY FileAssumption DEF FilesInv, FilesTypes, DiskTypes, Unlinked
<1>4. DiskTypes'
  BY ShiftedLines
<1>5. ASSUME NEW s \in DOMAIN streams
      PROVE  /\ streams'[s] \in Stream /\ streams'[s].opened = streams[s].opened
             /\ streams'[s].waiters = streams[s].waiters
             /\ streams'[s].place = IF streams[s].opened THEN PlaceShifted(streams[s].place)
                                                         ELSE streams[s].place
  <2>1. streams[s] \in Stream /\ streams[s].place \in 0 .. Unlinked
    BY DEF FilesInv, FilesTypes, StreamTypes, Stream
  <2>2. PlaceShifted(streams[s].place) \in 0 .. Unlinked
    BY <1>3, <2>1 DEF PlaceShifted
  <2>3. CASE streams[s].opened
    <3>1. streams'[s] = [streams[s] EXCEPT !.place = PlaceShifted(streams[s].place)]
      BY <1>2, <2>3
    <3>2. PICK p \in 0 .. Unlinked : p = PlaceShifted(streams[s].place)
      BY <2>2
    <3>3. /\ streams'[s] \in Stream /\ streams'[s].opened = streams[s].opened
          /\ streams'[s].waiters = streams[s].waiters /\ streams'[s].place = p
      BY <2>1, <3>1, <3>2, SetPlace
    <3> QED  BY <2>3, <3>2, <3>3
  <2>4. CASE ~streams[s].opened
    BY <1>2, <2>1, <2>4
  <2> QED  BY <2>3, <2>4
<1>6. DOMAIN streams' = DOMAIN streams
  BY <1>2
<1>7. /\ pc' \in [Calls -> {"idle", "flush", "end", "shift", "last", "lastEnd", "closed", "failed"}]
      /\ \A d \in Calls : Waiting(d)' <=> Waiting(d)
  BY <1>2 DEF Returned, Waiting, FilesInv, FilesTypes, CallTypes
<1>8. FilesTypes'
  <2>1. CallTypes'
    BY <1>2, <1>7 DEF FilesInv, FilesTypes, CallTypes
  <2>2. StreamTypes'
    BY <1>5, <1>6 DEF FilesInv, FilesTypes, StreamTypes
  <2> QED  BY <1>4, <2>1, <2>2 DEF FilesTypes
<1>9. StreamsCounted'
  BY <1>2, <1>6, CountKept
<1>10. OpenStreams'
  BY <1>2, <1>6 DEF FilesInv, OpenStreams, InFlight
<1>11. OneStreamEach'
  BY <1>5, <1>6, <1>7, WaitersKept
<1>12. PlacesExist'
  <2> SUFFICES ASSUME NEW s \in DOMAIN streams
               PROVE  IF streams'[s].opened THEN streams'[s].place \in DOMAIN disk' \cup {Unlinked}
                                            ELSE streams'[s].place = 0
    BY <1>6 DEF PlacesExist
  <2>1. IF streams[s].opened THEN streams[s].place \in DOMAIN disk \cup {Unlinked}
                             ELSE streams[s].place = 0
    BY DEF FilesInv, DiskInv, PlacesExist
  <2>2. CASE ~streams[s].opened
    BY <1>5, <2>1, <2>2
  <2>3. CASE streams[s].opened
    <3>1. PICK p \in 0 .. M + 1 : p = streams[s].place /\ p \in DOMAIN disk \cup {M + 1}
      BY <1>3, <2>1, <2>3
    <3>2. streams'[s].opened /\ streams'[s].place = PlaceShifted(p)
      BY <1>5, <2>3, <3>1
    <3>3. /\ \A q \in 0 .. M - 1 : q \in DOMAIN disk => q + 1 \in DOMAIN disk'
          /\ M \in DOMAIN disk => M \in DOMAIN disk'
      BY ShiftedLines
    <3>4. PlaceShifted(p) \in DOMAIN disk' \cup {M + 1}
      <4>1. CASE p < M
        <5>1. p \in DOMAIN disk /\ p \in 0 .. M - 1
          BY <1>3, <3>1, <4>1
        <5> QED  BY <3>3, <4>1, <5>1 DEF PlaceShifted
      <4>2. CASE p = M
        BY <1>3, <3>1, <3>3, <4>2 DEF PlaceShifted
      <4>3. CASE p = M + 1
        BY <1>3, <4>3 DEF PlaceShifted
      <4> QED  BY <1>3, <3>1, <4>1, <4>2, <4>3
    <3> QED  BY <1>3, <3>2, <3>4
  <2> QED  BY <2>2, <2>3
<1>13. NewerAreEmpty'
  <2> SUFFICES ASSUME NEW s \in DOMAIN streams, streams[s].opened, InUse(s),
                      NEW q \in 0 .. M, q < streams'[s].place
               PROVE  Lines(q)' = <<>>
    <3>1. \A s \in DOMAIN streams : (InUse(s)' <=> InUse(s)) /\ streams'[s].opened = streams[s].opened
      BY <1>2, <1>5 DEF InUse, InFlight
    <3> QED  BY <1>6, <3>1 DEF NewerAreEmpty
  <2>1. PICK p \in 0 .. M + 1 : p = streams[s].place
    BY <1>3 DEF FilesInv, FilesTypes, StreamTypes, Stream
  <2>2. \A r \in 0 .. M : r < p => Lines(r) = <<>>
    BY <2>1 DEF FilesInv, DiskInv, NewerAreEmpty
  <2>3. q < PlaceShifted(p)
    BY <1>5, <2>1
  <2>4. /\ Lines(0)' = <<>>
        /\ \A r \in 1 .. M : Lines(r)' = IF r = M /\ M - 1 \notin DOMAIN disk THEN Lines(r) ELSE Lines(r - 1)
    BY ShiftedLines
  <2>5. CASE q = 0
    BY <2>4, <2>5
  <2>6. CASE q # 0 /\ ~ (q = M /\ M - 1 \notin DOMAIN disk)
    <3>1. q \in 1 .. M /\ q - 1 \in 0 .. M /\ q - 1 < p
      BY <1>3, <2>1, <2>3, <2>6 DEF PlaceShifted
    <3> QED  BY <2>2, <2>4, <2>6, <3>1
  <2>7. CASE q # 0 /\ q = M /\ M - 1 \notin DOMAIN disk
    <3>1. q \in 1 .. M /\ q < p
      BY <1>3, <2>1, <2>3, <2>7 DEF PlaceShifted
    <3> QED  BY <2>2, <2>4, <2>7, <3>1
  <2> QED  BY <2>5, <2>6, <2>7
<1>14. DiskIsCut'
  BY ShiftCuts
<1> QED  BY <1>1, <1>8, <1>9, <1>10, <1>11, <1>12, <1>13, <1>14 DEF FilesInv, DiskInv

\* Every step keeps the files consistent.
LEMMA FilesStep == FilesInv /\ [Next]_vars => FilesInv'
<1> SUFFICES ASSUME FilesInv, [Next]_vars PROVE FilesInv'
  OBVIOUS
<1>1. CASE Write \/ BatchEntry
  BY <1>1, PushFiles
<1>2. CASE Close \/ IntervalTick \/ \E c \in Callers : Flush(c)
  BY <1>2, FlushFiles
<1>3. CASE CloseLast \/ RunReturns \/ \E c \in Callers : Rotate(c)
  BY <1>3, CloseStreamFiles
<1>4. CASE TargetKnown
  BY <1>4, TargetKnownFiles
<1>5. CASE ChunkWritten
  BY <1>5, ChunkWrittenFiles
<1>6. CASE ChunkFails
  BY <1>6, ChunkFailsFiles
<1>7. ASSUME NEW s \in DOMAIN streams, StreamStep(s) PROVE FilesInv'
  BY <1>7, StreamOpensFiles, StreamEndsFiles DEF StreamStep
<1>8. ASSUME NEW c \in Calls, Shift(c) PROVE FilesInv'
  BY <1>8, ShiftFiles
<1>9. CASE UNCHANGED vars
  BY <1>9 DEF FilesInv, LinesInv, LinesOK, ChunkSettled, FilesTypes, CallTypes, StreamTypes, DiskTypes,
              StreamsCounted, OpenStreams, OneStreamEach, Waiting, InFlight, DiskInv, PlacesExist,
              NewerAreEmpty, InUse, DiskIsCut, CutsOf, Lines
<1> QED  BY <1>1, <1>2, <1>3, <1>4, <1>5, <1>6, <1>7, <1>8, <1>9 DEF Next

\* The property that is checked follows from the invariant.
LEMMA FilesInvGivesResult == FilesInv => FilesConsistent
<1> SUFFICES ASSUME FilesInv PROVE FilesConsistent
  OBVIOUS
<1>1. TypeOK
  BY DEF FilesInv, LinesInv, LinesOK, FilesTypes, CallTypes, StreamTypes, DiskTypes, Stream, TypeOK
<1>2. DiskIsRecent
  <2>1. PICK cut : CutsOf(cut)
    BY DEF FilesInv, DiskInv, DiskIsCut
  <2>2. delivered \in Seq(Nat) /\ MaxFiles \in Nat /\ Len(delivered) \in Nat
    BY FileAssumption, LenProperties DEF FilesInv, LinesInv, LinesOK
  <2>3. cut[MaxFiles + 1] \in 0 .. Len(delivered)
    BY <2>1, <2>2 DEF CutsOf
  <2>4. DiskLines = SubSeq(delivered, cut[MaxFiles + 1] + 1, Len(delivered))
    BY <2>1, <2>2, LinesFromCuts
  <2>5. cut[MaxFiles + 1] + 1 \in 1 .. Len(delivered) + 1
    BY <2>2, <2>3
  <2> QED  BY <2>4, <2>5 DEF DiskIsRecent
<1>3. WaitersHaveStream
  <2> SUFFICES ASSUME NEW c \in Calls
               PROVE  Cardinality({s \in DOMAIN streams : c \in streams[s].waiters})
                         = (IF Waiting(c) THEN 1 ELSE 0)
    BY DEF WaitersHaveStream, Waiting
  <2> DEFINE Own == {s \in DOMAIN streams : c \in streams[s].waiters}
  <2>1. CASE Waiting(c)
    <3>1. PICK s \in DOMAIN streams : c \in streams[s].waiters
      BY <2>1 DEF FilesInv, OneStreamEach
    <3>2. Own = {s}
      BY <3>1 DEF FilesInv, OneStreamEach
    <3> QED  BY <2>1, <3>2, FS_Singleton
  <2>2. CASE ~Waiting(c)
    <3>1. Own = {}
      BY <2>2 DEF FilesInv, OneStreamEach
    <3> QED  BY <2>2, <3>1, FS_EmptySet
  <2> QED  BY <2>1, <2>2
<1> QED  BY <1>1, <1>2, <1>3 DEF FilesConsistent

\* However flushes, stream errors and overlapping rotations interleave, the files
\* hold the most recent lines, each once and in order, and every call that waits
\* waits for one stream that exists: for every limit and any number of calls.
THEOREM FilesCorrect == Spec => []FilesConsistent
<1>1. Spec => []FilesInv
  BY FilesInit, FilesStep, PTL DEF Spec
<1> QED  BY <1>1, FilesInvGivesResult, PTL
=============================================================================
