------------------------------ MODULE DailyFiles ------------------------------
(***************************************************************************)
(* The daily file transports of one process (src/writer/dateBased.writer.ts*)
(* in a flush() of src/writer/base.writer.ts) and the map of file paths    *)
(* they share.  A path is a day and an index.  The directory is read       *)
(* between two looks at the map, so several transports may pick a path.    *)
(***************************************************************************)
EXTENDS Naturals, FiniteSets

CONSTANTS Writers,         \* transports with the same baseDir and namePrefix
          MaxFilesPerDay,
          MaxDay, MaxFlushes, MaxRestarts   \* bounds of the model

ASSUME DailyAssumption ==
    /\ IsFiniteSet(Writers) /\ {MaxFilesPerDay, MaxDay} \subseteq Nat \ {0}
    /\ {MaxFlushes, MaxRestarts} \subseteq Nat

NoPath == [day |-> 0, index |-> 0]
Days == 1 .. MaxDay

VARIABLES sharedFilepaths,   \* day -> index, 0 when there is no path yet
          writer,            \* transport -> where its flush() is
          today,
          disk,              \* paths of the files that exist
          created,           \* history: paths this process has created
          raced,             \* history: days whose path was picked twice
          flushes, restarts  \* history

dailyVars == <<sharedFilepaths, writer, today, disk, created, raced, flushes, restarts>>

Idle == [pc |-> "idle", day |-> 0, next |-> 0, current |-> NoPath]

DailyInit ==
    /\ sharedFilepaths = [d \in Days |-> 0] /\ writer = [w \in Writers |-> Idle]
    /\ today = 1 /\ disk = {} /\ created = {} /\ raced = {}
    /\ flushes = 0 /\ restarts = 0

\* targetFilepath() up to its first await: the path of the day, or a listing.
StartFlush(w) ==
    /\ writer[w].pc = "idle" /\ flushes < MaxFlushes /\ flushes' = flushes + 1
    /\ writer' = [writer EXCEPT ![w] =
         IF sharedFilepaths[today] = 0 THEN [@ EXCEPT !.pc = "list", !.day = today]
         ELSE [@ EXCEPT !.pc = "write", !.day = today,
                        !.current = [day |-> today, index |-> sharedFilepaths[today]]]]
    /\ UNCHANGED <<sharedFilepaths, today, disk, created, raced, restarts>>

\* The index after the largest one, from 1 again above the cap.
NextIndex(indices) ==
    LET next == IF indices = {} THEN 1
                ELSE 1 + CHOOSE n \in indices : \A k \in indices : k <= n
    IN  IF next > MaxFilesPerDay THEN 1 ELSE next

\* getNextFilepath(): the directory is made and read, or one of both fails and
\* flush() rejects with the buffer untouched.
ListDirectory(w) ==
    /\ writer[w].pc = "list"
    /\ \/ writer' = [writer EXCEPT ![w].pc = "listed",
                       ![w].next = NextIndex({f.index : f \in {g \in disk : g.day = writer[w].day}})]
       \/ writer' = [writer EXCEPT ![w].pc = "idle"]
    /\ UNCHANGED <<sharedFilepaths, today, disk, created, raced, flushes, restarts>>

\* Mutant of PickPath: the path is not shared.
PickPathAlone(w) ==
    /\ writer[w].pc = "listed"
    /\ writer' = [writer EXCEPT ![w].pc = "write",
                    ![w].current = [day |-> writer[w].day, index |-> writer[w].next]]
    /\ UNCHANGED <<sharedFilepaths, today, disk, created, raced, flushes, restarts>>

\* The listing has arrived: its path becomes the shared one, whatever the map
\* says by now.
PickPath(w) ==
    /\ writer[w].pc = "listed"
    /\ sharedFilepaths' = [sharedFilepaths EXCEPT ![writer[w].day] = writer[w].next]
    /\ writer' = [writer EXCEPT ![w].pc = "write",
                    ![w].current = [day |-> writer[w].day, index |-> writer[w].next]]
    /\ raced' = IF sharedFilepaths[writer[w].day] = 0 THEN raced ELSE raced \cup {writer[w].day}
    /\ UNCHANGED <<today, disk, created, flushes, restarts>>

\* The stream of another path is closed, that of the path opened and written to.
\* A file that cannot be opened is FileTransport's.
WriteChunk(w) ==
    /\ writer[w].pc = "write"
    /\ writer' = [writer EXCEPT ![w].pc = "idle"]
    /\ created' = IF writer[w].current \in disk THEN created ELSE created \cup {writer[w].current}
    /\ disk' = disk \cup {writer[w].current}
    /\ UNCHANGED <<sharedFilepaths, today, raced, flushes, restarts>>

Midnight == /\ today < MaxDay /\ today' = today + 1
            /\ UNCHANGED <<sharedFilepaths, writer, disk, created, raced, flushes, restarts>>

\* The process dies and is started again: only the files remain.
Restart ==
    /\ restarts < MaxRestarts /\ restarts' = restarts + 1
    /\ sharedFilepaths' = [d \in Days |-> 0] /\ writer' = [w \in Writers |-> Idle]
    /\ created' = {} /\ raced' = {}
    /\ UNCHANGED <<today, disk, flushes>>

DailyNext ==
    \/ \E w \in Writers : StartFlush(w) \/ ListDirectory(w) \/ PickPath(w) \/ WriteChunk(w)
    \/ Midnight \/ Restart

DailySpec == DailyInit /\ [][DailyNext]_dailyVars

-----------------------------------------------------------------------------
(* Properties.                                                             *)

FilesOf(d) == {f \in created : f.day = d}

\* Every path has an index the transport may use.
DailyTypeOK ==
    /\ sharedFilepaths \in [Days -> 0 .. MaxFilesPerDay]
    /\ disk \subseteq [day : Days, index : 1 .. MaxFilesPerDay] /\ created \subseteq disk

\* All transports of the process share one file a day, unless two of them were
\* listing the directory at the same time; then each adds at most one file.  The
\* day that is excepted is what OneFilePerDay below is about.
OneFileUnlessRaced ==
    \A d \in Days : /\ d \notin raced => Cardinality(FilesOf(d)) <= 1
                    /\ Cardinality(FilesOf(d)) <= Cardinality(Writers)

\* A process appends to a file of an earlier process only when the indices of
\* the day are used up and start again at 1.
OldFilesKept ==
    \A w \in Writers :
        writer[w].pc = "write" /\ writer[w].current \in disk \ created =>
            /\ writer[w].current.index = 1
            /\ [writer[w].current EXCEPT !.index = MaxFilesPerDay] \in disk

\* A day has the files it should, in a running process and after a restart.
DaysConsistent == DailyTypeOK /\ OneFileUnlessRaced /\ OldFilesKept

-----------------------------------------------------------------------------
(* What the documentation promises and the code does not.                  *)

\* "One file per day shared by all transport instances with the same baseDir."
OneFilePerDay == \A d \in Days : Cardinality(FilesOf(d)) <= 1
=============================================================================
