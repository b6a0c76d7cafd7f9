--------------------------- MODULE Process_proofs ---------------------------
(***************************************************************************)
(* Proofs about the machines of a process that share no state, each for    *)
(* every value of its constants: the daily files (DailyFiles), the log     *)
(* server (LogServer), once() and throttle() (KeyLimits), the fan-out to   *)
(* transports side by side with the database loaded late (FanOut), the     *)
(* transports of every logger (GlobalTransports), the settings of a tree   *)
(* of loggers (Settings), spans (Spans), watchers (Watch) and the          *)
(* durations of operations (Profiler).                                     *)
(***************************************************************************)
EXTENDS DailyFiles, LogServer, KeyLimits, FanOut, GlobalTransports, Settings, Spans, Watch,
        Profiler, Containers_proofs, FiniteSetTheorems

USE DEF dailyVars, serverVars, limitVars, fanVars, globalVars

-----------------------------------------------------------------------------
(* The daily files.                                                        *)

DailyPaths == [day : Days, index : 1 .. MaxFilesPerDay]

Flushing == [pc : {"idle", "list", "listed", "write"}, day : 0 .. MaxDay,
             next : 0 .. MaxFilesPerDay,
             current : [day : 0 .. MaxDay, index : 0 .. MaxFilesPerDay]]

\* What a flush() knows when it has come so far.
FlushingOK(x) ==
    /\ x.pc \in {"list", "listed"} => x.day \in Days
    /\ x.pc = "listed" => x.next # 0
    /\ x.pc = "write" => x.current \in DailyPaths

DailyTypes ==
    /\ DailyTypeOK /\ today \in Days /\ raced \subseteq Days
    /\ writer \in [Writers -> Flushing] /\ \A w \in Writers : FlushingOK(writer[w])

\* The file f is, or will be, created by this process: its path is the shared
\* one, is being written to, or was.
Claimed(f) ==
    \/ f \in created
    \/ \E w \in Writers : writer[w].pc = "write" /\ writer[w].current = f
    \/ sharedFilepaths[f.day] = f.index

\* The transports that may still pick a path for day d.
Pending(d) == {w \in Writers : writer[w].pc \in {"list", "listed"} /\ writer[w].day = d}

\* Without a shared path there is no file, and without a race no other.
SharedIsFirst ==
    \A f \in DailyPaths : Claimed(f) =>
        /\ sharedFilepaths[f.day] # 0
        /\ f.day \notin raced => f.index = sharedFilepaths[f.day]

\* Each transport adds at most one file to a day: once one has picked, nobody
\* starts to list.
Picks(d) == \E P : /\ IsFiniteSet(P)
                   /\ \A f \in DailyPaths : f.day = d /\ Claimed(f) => f \in P
                   /\ Cardinality(P) + Cardinality(Pending(d)) <= Cardinality(Writers)
OnePickEach == \A d \in Days : Picks(d)

Listed(f) == \E w \in Writers :
    writer[w].pc = "listed" /\ f.day = writer[w].day /\ f.index = writer[w].next

\* A path picked over a file of an earlier process is the first of the day again.
OldOnlyWrapped ==
    \A f \in DailyPaths : f \in disk \ created /\ (Claimed(f) \/ Listed(f)) =>
        f.index = 1 /\ [day |-> f.day, index |-> MaxFilesPerDay] \in disk

DailyInv == DailyTypes /\ SharedIsFirst /\ OnePickEach /\ OldOnlyWrapped

\* The index of the next path is one the transport may use; only above the cap
\* it is one that may be taken.
LEMMA NextIndexProperties ==
    ASSUME NEW indices \in SUBSET (1 .. MaxFilesPerDay)
    PROVE  /\ NextIndex(indices) \in 1 .. MaxFilesPerDay
           /\ NextIndex(indices) \in indices => NextIndex(indices) = 1 /\ MaxFilesPerDay \in indices
<1>1. CASE indices = {}
  BY <1>1, DailyAssumption DEF NextIndex
<1>2. CASE indices # {}
  <2> DEFINE m == CHOOSE n \in indices : \A k \in indices : k <= n
  <2>1. \E n \in indices : \A k \in indices : k <= n
    <3>1. MaxFilesPerDay \in Nat /\ indices \in SUBSET (0 .. MaxFilesPerDay)
      BY DailyAssumption
    <3> QED  BY <1>2, <3>1, LargestExists, Zenon
  <2>2. m \in indices /\ \A k \in indices : k <= m
    BY <2>1
  <2> DEFINE next == IF indices = {} THEN 1 ELSE 1 + m
  <2>3. NextIndex(indices) = IF next > MaxFilesPerDay THEN 1 ELSE next
    BY DEF NextIndex
  <2>4. next = 1 + m
    BY <1>2
  <2> HIDE DEF m, next
  <2> QED  BY <2>2, <2>3, <2>4, DailyAssumption
<1> QED  BY <1>1, <1>2

\* One step of one flush() moves no other.
LEMMA WriterStep ==
    ASSUME DailyTypes, NEW w \in Writers, NEW x \in Flushing, FlushingOK(x),
           writer' = [writer EXCEPT ![w] = x]
    PROVE  /\ writer' \in [Writers -> Flushing] /\ \A v \in Writers : FlushingOK(writer'[v])
           /\ writer'[w] = x /\ \A v \in Writers \ {w} : writer'[v] = writer[v]
BY DEF DailyTypes

\* The transports are finitely many.
LEMMA PendingFinite ==
    /\ Cardinality(Writers) \in Nat
    /\ \A d : /\ IsFiniteSet(Pending(d)) /\ Cardinality(Pending(d)) \in Nat
              /\ Cardinality(Pending(d)) <= Cardinality(Writers)
<1>1. Cardinality(Writers) \in Nat
  BY FS_CardinalityType, DailyAssumption
<1>2. ASSUME NEW d
      PROVE  /\ IsFiniteSet(Pending(d)) /\ Cardinality(Pending(d)) \in Nat
             /\ Cardinality(Pending(d)) <= Cardinality(Writers)
  <2>1. Pending(d) \in SUBSET Writers
    BY DEF Pending
  <2> QED  BY <2>1, FS_Subset, FS_CardinalityType, DailyAssumption
<1> QED  BY <1>1, <1>2

\* A day without files leaves every transport its pick.
LEMMA NoneClaimed ==
    ASSUME NEW d, \A f \in DailyPaths : f.day = d => ~Claimed(f)
    PROVE  Picks(d)
<1>1. /\ IsFiniteSet({}) /\ \A f \in DailyPaths : f.day = d /\ Claimed(f) => f \in {}
  BY FS_EmptySet
<1>2. Cardinality({}) + Cardinality(Pending(d)) <= Cardinality(Writers)
  BY FS_EmptySet, PendingFinite
<1> QED  BY <1>1, <1>2 DEF Picks

\* Fewer claims and fewer listings need no more transports.
LEMMA PicksKept ==
    ASSUME NEW d, Picks(d), Pending(d)' \subseteq Pending(d),
           \A f \in DailyPaths : f.day = d /\ Claimed(f)' => Claimed(f)
    PROVE  Picks(d)'
<1>1. PICK P : /\ IsFiniteSet(P) /\ \A f \in DailyPaths : f.day = d /\ Claimed(f) => f \in P
               /\ Cardinality(P) + Cardinality(Pending(d)) <= Cardinality(Writers)
  BY DEF Picks
<1>2. /\ Cardinality(Pending(d)') \in Nat /\ Cardinality(P) \in Nat
      /\ Cardinality(Pending(d)') <= Cardinality(Pending(d))
  BY <1>1, PendingFinite, FS_Subset, FS_CardinalityType
<1>3. Cardinality(P) + Cardinality(Pending(d)') <= Cardinality(Writers)
  BY <1>1, <1>2, PendingFinite
<1> QED  BY <1>1, <1>3 DEF Picks, DailyPaths, Days

\* At the start nothing is buffered, listed or written.
LEMMA DailyInitInv == DailyInit => DailyInv
<1> SUFFICES ASSUME DailyInit PROVE DailyInv
  OBVIOUS
<1>1. DailyTypes
  BY DailyAssumption
  DEF DailyInit, DailyTypes, DailyTypeOK, Days, Idle, NoPath, Flushing, FlushingOK, DailyPaths
<1>2. \A f \in DailyPaths : ~Claimed(f) /\ f \notin disk
  BY DailyAssumption DEF DailyInit, Claimed, DailyPaths, Days, Idle
<1>4. OnePickEach
  BY <1>2, NoneClaimed DEF OnePickEach
<1> QED  BY <1>1, <1>2, <1>4 DEF DailyInv, SharedIsFirst, OldOnlyWrapped

\* flush(): it takes the chunk, and lists the directory if it never did.
LEMMA StartFlushInv ==
    ASSUME DailyInv, NEW w \in Writers, StartFlush(w)
    PROVE  DailyInv'
<1> DEFINE d == today
           s == sharedFilepaths[today]
           x == IF s = 0 THEN [writer[w] EXCEPT !.pc = "list", !.day = d]
                ELSE [writer[w] EXCEPT !.pc = "write", !.day = d,
                                       !.current = [day |-> d, index |-> s]]
<1>1. /\ d \in Days /\ s \in 0 .. MaxFilesPerDay /\ d \in 0 .. MaxDay
      /\ writer[w] \in Flushing /\ writer[w].pc = "idle"
  BY DailyAssumption DEF DailyInv, DailyTypes, DailyTypeOK, StartFlush, Days
<1>2. x \in Flushing /\ FlushingOK(x)
  <2>1. CASE s = 0
    BY <1>1, <2>1 DEF Flushing, FlushingOK
  <2>2. CASE s # 0
    <3>1. [day |-> d, index |-> s] \in DailyPaths
      BY <1>1, <2>2, DailyAssumption DEF DailyPaths
    <3> QED  BY <1>1, <2>2, <3>1 DEF Flushing, FlushingOK
  <2> QED  BY <2>1, <2>2
<1>3. writer' = [writer EXCEPT ![w] = x]
  BY DEF StartFlush
<1>4. UNCHANGED <<sharedFilepaths, today, disk, created, raced>>
  BY DEF StartFlush
<1>5. /\ writer' \in [Writers -> Flushing] /\ \A v \in Writers : FlushingOK(writer'[v])
      /\ writer'[w] = x /\ \A v \in Writers \ {w} : writer'[v] = writer[v]
  <2> HIDE DEF x
  <2> QED  BY <1>2, <1>3, WriterStep DEF DailyInv
<1>6. DailyTypes'
  BY <1>4, <1>5 DEF DailyInv, DailyTypes, DailyTypeOK, Days
<1>7. x.pc # "listed" /\ (x.pc = "write" => s # 0 /\ x.current = [day |-> d, index |-> s])
      /\ (x.pc = "list" => s = 0 /\ x.day = d)
  BY <1>1 DEF Flushing
<1>8. \A f \in DailyPaths : (Claimed(f)' => Claimed(f)) /\ (Listed(f)' => Listed(f))
  <2> HIDE DEF x
  <2> SUFFICES ASSUME NEW f \in DailyPaths
               PROVE  (Claimed(f)' => Claimed(f)) /\ (Listed(f)' => Listed(f))
    OBVIOUS
  <2>1. ASSUME Listed(f)' PROVE Listed(f)
    BY <2>1, <1>5, <1>7 DEF Listed
  <2>2. ASSUME NEW v \in Writers, writer'[v].pc = "write", writer'[v].current = f
        PROVE  Claimed(f)
    BY <2>2, <1>5, <1>7 DEF Claimed
  <2> QED  BY <2>1, <2>2, <1>4 DEF Claimed
<1>9. ASSUME NEW e \in Days PROVE Picks(e)'
  <2>1. CASE s # 0 \/ e # d
    <3>1. ~(writer'[w].pc \in {"list", "listed"} /\ writer'[w].day = e)
      <4> HIDE DEF x
      <4> QED  BY <2>1, <1>5, <1>7
    <3>2. Pending(e)' \subseteq Pending(e)
      BY <3>1, <1>5 DEF Pending
    <3> QED  BY <1>8, <3>2, PicksKept DEF DailyInv, OnePickEach
  <2>2. CASE s = 0 /\ e = d
    <3>1. \A f \in DailyPaths : f.day = e => ~Claimed(f)'
      BY <2>2, <1>8 DEF DailyInv, SharedIsFirst
    <3>2. IsFiniteSet({}) /\ \A f \in DailyPaths : f.day = e /\ Claimed(f)' => f \in {}
      BY <3>1, FS_EmptySet
    <3>3. Cardinality({}) + Cardinality(Pending(e)') <= Cardinality(Writers)
      <4>1. Pending(e)' \in SUBSET Writers
        BY DEF Pending
      <4> QED  BY <4>1, FS_EmptySet, FS_Subset, FS_CardinalityType, DailyAssumption
    <3> QED  BY <3>2, <3>3 DEF Picks, DailyPaths, Days
  <2> QED  BY <2>1, <2>2
<1> QED  BY <1>4, <1>6, <1>8, <1>9
    DEF DailyInv, SharedIsFirst, OnePickEach, OldOnlyWrapped, DailyPaths, Days

\* The newest file of the day and its size are taken from the directory.
LEMMA ListDirectoryInv ==
    ASSUME DailyInv, NEW w \in Writers, ListDirectory(w)
    PROVE  DailyInv'
<1> DEFINE n == NextIndex({f.index : f \in {g \in disk : g.day = writer[w].day}})
           x == [writer[w] EXCEPT !.pc = "listed", !.next = n]
           y == [writer[w] EXCEPT !.pc = "idle"]
<1>1. /\ writer[w] \in Flushing /\ writer[w].pc = "list" /\ writer[w].day \in Days
      /\ disk \subseteq DailyPaths
  BY DEF DailyInv, DailyTypes, DailyTypeOK, ListDirectory, FlushingOK, DailyPaths
<1>2. /\ n \in 1 .. MaxFilesPerDay
      /\ [day |-> writer[w].day, index |-> n] \in disk =>
           n = 1 /\ [day |-> writer[w].day, index |-> MaxFilesPerDay] \in disk
  <2> DEFINE indices == {f.index : f \in {g \in disk : g.day = writer[w].day}}
  <2>1. indices \in SUBSET (1 .. MaxFilesPerDay)
    BY <1>1 DEF DailyPaths
  <2>2. \A i : i \in indices <=> [day |-> writer[w].day, index |-> i] \in disk
    BY <1>1 DEF DailyPaths
  <2> HIDE DEF indices
  <2>3. /\ NextIndex(indices) \in 1 .. MaxFilesPerDay
        /\ NextIndex(indices) \in indices => NextIndex(indices) = 1 /\ MaxFilesPerDay \in indices
    BY <2>1, NextIndexProperties
  <2>4. n = NextIndex(indices)
    BY DEF indices
  <2> QED  BY <2>2, <2>3, <2>4
<1> HIDE DEF n
<1>3. x \in Flushing /\ FlushingOK(x) /\ y \in Flushing /\ FlushingOK(y)
  <2>1. n \in 0 .. MaxFilesPerDay /\ n # 0
    BY <1>2
  <2>2. x \in Flushing /\ y \in Flushing
    BY <1>1, <2>1 DEF Flushing
  <2> QED  BY <1>1, <2>1, <2>2 DEF Flushing, FlushingOK
<1>4. \E z \in {x, y} : writer' = [writer EXCEPT ![w] = z]
  <2>1. CASE writer' = [writer EXCEPT ![w].pc = "listed", ![w].next = n]
    BY <2>1, <1>1 DEF DailyInv, DailyTypes, Flushing
  <2>2. CASE writer' = [writer EXCEPT ![w].pc = "idle"]
    BY <2>2
  <2> QED  BY <2>1, <2>2 DEF ListDirectory, n
<1>5. PICK z \in {x, y} : writer' = [writer EXCEPT ![w] = z]
  BY <1>4
<1>6. z.pc # "write" /\ z.pc # "list" /\ z.day = writer[w].day
      /\ (z.pc = "listed" => z.next = n)
  BY <1>1, <1>5 DEF Flushing
<1>7. /\ writer' \in [Writers -> Flushing] /\ \A v \in Writers : FlushingOK(writer'[v])
      /\ writer'[w] = z /\ \A v \in Writers \ {w} : writer'[v] = writer[v]
  <2>1. z \in Flushing /\ FlushingOK(z)
    BY <1>3, <1>5
  <2> QED  BY <1>5, <2>1, WriterStep DEF DailyInv
<1>8. UNCHANGED <<sharedFilepaths, today, disk, created, raced>>
  BY DEF ListDirectory
<1>9. DailyTypes'
  BY <1>7, <1>8 DEF DailyInv, DailyTypes, DailyTypeOK, Days
<1>10. ASSUME NEW f \in DailyPaths
       PROVE  /\ Claimed(f)' => Claimed(f)
              /\ f \in disk /\ Listed(f)' =>
                   Listed(f) \/ (f.index = 1 /\ [day |-> f.day, index |-> MaxFilesPerDay] \in disk)
  <2>1. ASSUME Claimed(f)' PROVE Claimed(f)
    BY <2>1, <1>6, <1>7, <1>8 DEF Claimed
  <2>2. ASSUME f \in disk, NEW v \in Writers, writer'[v].pc = "listed",
               f.day = writer'[v].day, f.index = writer'[v].next
        PROVE  Listed(f) \/ (f.index = 1 /\ [day |-> f.day, index |-> MaxFilesPerDay] \in disk)
    <3>1. CASE v # w
      BY <2>2, <3>1, <1>7 DEF Listed
    <3>2. CASE v = w
      <4>1. f = [day |-> writer[w].day, index |-> n]
        BY <2>2, <3>2, <1>6, <1>7 DEF DailyPaths
      <4> QED  BY <2>2, <4>1, <1>2
    <3> QED  BY <3>1, <3>2
  <2> QED  BY <2>1, <2>2, <1>8 DEF Listed
<1>11. OnePickEach'
  <2>1. ASSUME NEW e \in Days PROVE Pending(e)' \subseteq Pending(e)
    BY <1>1, <1>6, <1>7 DEF Pending
  <2>2. ASSUME NEW e \in Days PROVE Picks(e)'
    BY <2>1, <1>10, PicksKept DEF DailyInv, OnePickEach
  <2> QED  BY <2>2 DEF OnePickEach, Days
<1>12. OldOnlyWrapped'
  BY <1>8, <1>10 DEF DailyInv, OldOnlyWrapped, DailyPaths, Days
<1> QED  BY <1>8, <1>9, <1>10, <1>11, <1>12 DEF DailyInv, SharedIsFirst, DailyPaths, Days

\* currentPath(): a day begins at 1, a full file is followed by the next.
LEMMA PickPathInv ==
    ASSUME DailyInv, NEW w \in Writers, PickPath(w)
    PROVE  DailyInv'
<1> DEFINE d == writer[w].day
           n == writer[w].next
           p == [day |-> d, index |-> n]
           x == [writer[w] EXCEPT !.pc = "write", !.current = p]
<1>1. /\ writer[w] \in Flushing /\ writer[w].pc = "listed" /\ d \in Days
      /\ n \in 1 .. MaxFilesPerDay /\ p \in DailyPaths
      /\ sharedFilepaths \in [Days -> 0 .. MaxFilesPerDay]
  BY DailyAssumption
  DEF DailyInv, DailyTypes, DailyTypeOK, PickPath, FlushingOK, Flushing, DailyPaths
<1>2. x \in Flushing /\ FlushingOK(x) /\ x.pc = "write" /\ x.current = p
  BY <1>1 DEF Flushing, FlushingOK, DailyPaths, Days
<1>3. writer' = [writer EXCEPT ![w] = x]
  BY <1>1 DEF PickPath, DailyInv, DailyTypes, Flushing
<1>4. /\ UNCHANGED <<today, disk, created>>
      /\ sharedFilepaths' = [sharedFilepaths EXCEPT ![d] = n]
      /\ raced' = IF sharedFilepaths[d] = 0 THEN raced ELSE raced \cup {d}
  BY DEF PickPath
<1>5. /\ writer' \in [Writers -> Flushing] /\ \A v \in Writers : FlushingOK(writer'[v])
      /\ writer'[w] = x /\ \A v \in Writers \ {w} : writer'[v] = writer[v]
  <2> HIDE DEF x
  <2> QED  BY <1>2, <1>3, WriterStep DEF DailyInv
<1> HIDE DEF x
<1>6. DailyTypes'
  <2>1. sharedFilepaths' \in [Days -> 0 .. MaxFilesPerDay]
    BY <1>1, <1>4
  <2> QED  BY <2>1, <1>1, <1>4, <1>5 DEF DailyInv, DailyTypes, DailyTypeOK, Days
<1>7. ASSUME NEW f \in DailyPaths
      PROVE  (Claimed(f)' => Claimed(f) \/ f = p) /\ (Listed(f)' => Listed(f))
  <2>1. CASE sharedFilepaths'[f.day] = f.index
    <3>1. CASE f.day = d
      <4>1. f.index = n
        BY <2>1, <3>1, <1>1, <1>4 DEF DailyPaths
      <4> QED  BY <3>1, <4>1, <1>2, <1>5 DEF DailyPaths, Listed
    <3>2. CASE f.day # d
      <4>1. sharedFilepaths[f.day] = f.index
        BY <2>1, <3>2, <1>1, <1>4 DEF DailyPaths
      <4> QED  BY <4>1, <1>2, <1>5 DEF Claimed, Listed
    <3> QED  BY <3>1, <3>2
  <2>2. CASE sharedFilepaths'[f.day] # f.index
    BY <2>2, <1>2, <1>4, <1>5 DEF Claimed, Listed
  <2> QED  BY <2>1, <2>2
<1>8. SharedIsFirst'
  <2> SUFFICES ASSUME NEW f \in DailyPaths, Claimed(f)'
               PROVE  /\ sharedFilepaths'[f.day] # 0
                      /\ f.day \notin raced' => f.index = sharedFilepaths'[f.day]
    BY DEF SharedIsFirst, DailyPaths, Days
  <2>1. CASE f = p
    BY <2>1, <1>1, <1>4
  <2>2. CASE f # p /\ f.day # d
    BY <2>2, <1>1, <1>4, <1>7 DEF DailyInv, SharedIsFirst, DailyPaths
  <2>3. CASE f # p /\ f.day = d
    BY <2>3, <1>1, <1>4, <1>7 DEF DailyInv, SharedIsFirst
  <2> QED  BY <2>1, <2>2, <2>3
<1>9. ASSUME NEW e \in Days PROVE Picks(e)'
  <2>1. CASE e # d
    <3>1. Pending(e)' \subseteq Pending(e)
      BY <1>2, <1>5 DEF Pending
    <3>2. \A f \in DailyPaths : f.day = e /\ Claimed(f)' => Claimed(f)
      BY <2>1, <1>7
    <3> QED  BY <3>1, <3>2, PicksKept DEF DailyInv, OnePickEach
  <2>2. CASE e = d
    <3>1. PICK P : /\ IsFiniteSet(P) /\ \A f \in DailyPaths : f.day = e /\ Claimed(f) => f \in P
                   /\ Cardinality(P) + Cardinality(Pending(e)) <= Cardinality(Writers)
      BY DEF DailyInv, OnePickEach, Picks
    <3>2. /\ IsFiniteSet(P \cup {p}) /\ Cardinality(P \cup {p}) \in Nat /\ Cardinality(P) \in Nat
          /\ Cardinality(P \cup {p}) <= Cardinality(P) + 1
      <4> HIDE DEF p
      <4>1. IsFiniteSet(P) /\ Cardinality(P) \in Nat
        BY <3>1, FS_CardinalityType
      <4>2. /\ IsFiniteSet(P \cup {p})
            /\ Cardinality(P \cup {p}) = IF p \in P THEN Cardinality(P) ELSE Cardinality(P) + 1
        BY <4>1, FS_AddElement, Zenon
      <4> QED  BY <4>1, <4>2
    <3>3. w \in Pending(e) /\ Pending(e)' \subseteq Pending(e) \ {w}
      BY <2>2, <1>1, <1>2, <1>5 DEF Pending
    <3>4. /\ Cardinality(Pending(e)') \in Nat
          /\ Cardinality(Pending(e)') <= Cardinality(Pending(e)) - 1
      BY <3>3, PendingFinite, FS_RemoveElement, FS_Subset, FS_CardinalityType
    <3>5. Cardinality(P \cup {p}) + Cardinality(Pending(e)') <= Cardinality(Writers)
      BY <3>1, <3>2, <3>4, PendingFinite
    <3>6. \A f \in DailyPaths : f.day = e /\ Claimed(f)' => f \in P \cup {p}
      BY <3>1, <1>7
    <3> QED  BY <3>2, <3>5, <3>6 DEF Picks, DailyPaths, Days
  <2> QED  BY <2>1, <2>2
<1>10. OldOnlyWrapped'
  <2>1. Listed(p) /\ p.day = d
    BY <1>1 DEF Listed
  <2> QED  BY <2>1, <1>4, <1>7 DEF DailyInv, OldOnlyWrapped, DailyPaths, Days
<1> QED  BY <1>6, <1>8, <1>9, <1>10 DEF DailyInv, OnePickEach, Days

\* The chunk is appended, or put back in front of the buffer.
LEMMA WriteChunkInv ==
    ASSUME DailyInv, NEW w \in Writers, WriteChunk(w)
    PROVE  DailyInv'
<1> DEFINE p == writer[w].current
           x == [writer[w] EXCEPT !.pc = "idle"]
<1>1. /\ writer[w] \in Flushing /\ writer[w].pc = "write" /\ p \in DailyPaths /\ Claimed(p)
      /\ disk \subseteq DailyPaths /\ created \subseteq disk
  BY DEF DailyInv, DailyTypes, DailyTypeOK, WriteChunk, FlushingOK, Claimed, DailyPaths
<1>2. x \in Flushing /\ FlushingOK(x) /\ x.pc = "idle"
  BY <1>1 DEF Flushing, FlushingOK
<1>3. /\ writer' = [writer EXCEPT ![w] = x]
      /\ UNCHANGED <<sharedFilepaths, today, raced>>
      /\ disk' = disk \cup {p} /\ created' = IF p \in disk THEN created ELSE created \cup {p}
  BY DEF WriteChunk
<1>4. /\ writer' \in [Writers -> Flushing] /\ \A v \in Writers : FlushingOK(writer'[v])
      /\ writer'[w] = x /\ \A v \in Writers \ {w} : writer'[v] = writer[v]
  <2> HIDE DEF x
  <2> QED  BY <1>2, <1>3, WriterStep DEF DailyInv
<1> HIDE DEF x
<1>5. DailyTypes'
  BY <1>1, <1>3, <1>4 DEF DailyInv, DailyTypes, DailyTypeOK, DailyPaths, Days
<1>6. ASSUME NEW f \in DailyPaths
      PROVE  (Claimed(f)' => Claimed(f)) /\ (Listed(f)' => Listed(f))
  BY <1>1, <1>2, <1>3, <1>4 DEF Claimed, Listed
<1>7. disk' \ created' \subseteq disk \ created
  BY <1>1, <1>3
<1>8. ASSUME NEW e \in Days PROVE Picks(e)'
  <2>1. Pending(e)' \subseteq Pending(e)
    BY <1>2, <1>4 DEF Pending
  <2> QED  BY <2>1, <1>6, PicksKept DEF DailyInv, OnePickEach
<1>9. OldOnlyWrapped'
  BY <1>3, <1>6, <1>7 DEF DailyInv, OldOnlyWrapped, DailyPaths, Days
<1> QED  BY <1>3, <1>5, <1>6, <1>8, <1>9
    DEF DailyInv, SharedIsFirst, OnePickEach, DailyPaths, Days

\* After a restart nothing of the day is known.
LEMMA RestartInv == ASSUME DailyInv, Restart PROVE DailyInv'
<1>1. DailyTypes'
  BY DailyAssumption
  DEF DailyInv, Restart, DailyTypes, DailyTypeOK, Days, Idle, NoPath, Flushing, FlushingOK,
      DailyPaths
<1>2. \A f \in DailyPaths : ~Claimed(f)' /\ ~Listed(f)'
  BY DailyAssumption DEF Restart, Claimed, Listed, DailyPaths, Days, Idle
<1>3. ASSUME NEW d \in Days PROVE Picks(d)'
  <2>1. IsFiniteSet({}) /\ \A f \in DailyPaths : f.day = d /\ Claimed(f)' => f \in {}
    BY <1>2, FS_EmptySet
  <2>2. Pending(d)' = {}
    BY DEF Pending, Restart, Idle
  <2>3. Cardinality({}) + Cardinality(Pending(d)') <= Cardinality(Writers)
    BY <2>2, FS_EmptySet, PendingFinite
  <2> QED  BY <2>1, <2>3 DEF Picks, DailyPaths, Days
<1> QED  BY <1>1, <1>2, <1>3
    DEF DailyInv, SharedIsFirst, OnePickEach, OldOnlyWrapped, DailyPaths, Days

\* The day changes, and nothing else.
LEMMA DayStep ==
    ASSUME DailyInv, Midnight \/ UNCHANGED dailyVars
    PROVE  DailyInv'
<1>1. /\ UNCHANGED <<sharedFilepaths, writer, disk, created, raced>> /\ today' \in Days
  BY DailyAssumption DEF Midnight, DailyInv, DailyTypes, Days
<1>2. DailyTypes'
  BY <1>1 DEF DailyInv, DailyTypes, DailyTypeOK, Days
<1>3. \A f : (Claimed(f)' <=> Claimed(f)) /\ (Listed(f)' <=> Listed(f))
  BY <1>1 DEF Claimed, Listed
<1>4. \A d : Pending(d)' = Pending(d)
  BY <1>1 DEF Pending
<1> QED  BY <1>1, <1>2, <1>3, <1>4
    DEF DailyInv, SharedIsFirst, OnePickEach, Picks, OldOnlyWrapped, DailyPaths, Days

\* What the invariant says of the files.
LEMMA DailyInvSays == DailyInv => DaysConsistent
<1> SUFFICES ASSUME DailyInv PROVE DaysConsistent
  OBVIOUS
<1>1. DailyTypeOK /\ created \subseteq DailyPaths
  BY DEF DailyInv, DailyTypes, DailyTypeOK, DailyPaths
<1>2. OneFileUnlessRaced
  <2> SUFFICES ASSUME NEW d \in Days
               PROVE  /\ d \notin raced => Cardinality(FilesOf(d)) <= 1
                      /\ Cardinality(FilesOf(d)) <= Cardinality(Writers)
    BY DEF OneFileUnlessRaced
  <2>1. \A f \in FilesOf(d) : f \in DailyPaths /\ f.day = d /\ Claimed(f)
    BY <1>1 DEF FilesOf, Claimed
  <2>2. PICK P : /\ IsFiniteSet(P) /\ \A f \in DailyPaths : f.day = d /\ Claimed(f) => f \in P
                 /\ Cardinality(P) + Cardinality(Pending(d)) <= Cardinality(Writers)
    BY DEF DailyInv, OnePickEach, Picks
  <2>3. Cardinality(FilesOf(d)) <= Cardinality(Writers)
    <3>1. FilesOf(d) \in SUBSET P
      BY <2>1, <2>2
    <3>2. /\ Cardinality(FilesOf(d)) \in Nat /\ Cardinality(P) \in Nat
          /\ Cardinality(FilesOf(d)) <= Cardinality(P)
      BY <2>2, <3>1, FS_Subset, FS_CardinalityType
    <3> QED  BY <2>2, <3>2, PendingFinite
  <2>4. ASSUME d \notin raced PROVE Cardinality(FilesOf(d)) <= 1
    <3> DEFINE p == [day |-> d, index |-> sharedFilepaths[d]]
    <3>1. ASSUME NEW f \in FilesOf(d) PROVE f = p
      BY <2>1, <2>4 DEF DailyInv, SharedIsFirst, DailyPaths
    <3>2. FilesOf(d) \in SUBSET {p}
      BY <3>1
    <3> HIDE DEF p
    <3>3. IsFiniteSet({p}) /\ Cardinality({p}) = 1
      BY FS_Singleton
    <3> QED  BY <3>2, <3>3, FS_Subset
  <2> QED  BY <2>3, <2>4
<1>3. OldFilesKept
  <2> SUFFICES ASSUME NEW w \in Writers, writer[w].pc = "write",
                      writer[w].current \in disk \ created
               PROVE  /\ writer[w].current.index = 1
                      /\ [writer[w].current EXCEPT !.index = MaxFilesPerDay] \in disk
    BY DEF OldFilesKept
  <2> DEFINE f == writer[w].current
  <2>1. f \in DailyPaths /\ Claimed(f)
    BY DEF DailyInv, DailyTypes, FlushingOK, Claimed
  <2>2. f.index = 1 /\ [day |-> f.day, index |-> MaxFilesPerDay] \in disk
    BY <2>1 DEF DailyInv, OldOnlyWrapped
  <2>3. [f EXCEPT !.index = MaxFilesPerDay] = [day |-> f.day, index |-> MaxFilesPerDay]
    <3> HIDE DEF f
    <3> QED  BY <2>1 DEF DailyPaths
  <2> QED  BY <2>2, <2>3
<1> QED  BY <1>1, <1>2, <1>3 DEF DaysConsistent

\* For any number of transports, any cap and any number of days, flushes and
\* restarts: one file a day unless transports raced for it, at most one each if
\* they did, and no file of an earlier process touched before the indices are up.
THEOREM DaysConsistentCorrect == DailySpec => []DaysConsistent
<1>1. DailyInv /\ [DailyNext]_dailyVars => DailyInv'
  BY StartFlushInv, ListDirectoryInv, PickPathInv, WriteChunkInv, RestartInv, DayStep DEF DailyNext
<1> QED  BY <1>1, DailyInitInv, DailyInvSays, PTL DEF DailySpec

-----------------------------------------------------------------------------
(* The log server.                                                         *)

\* The entries the server stores, and what the slots of its ring hold.
ServerEntries == [id : Nat, n : Nat]
SlotValues == ServerEntries \cup {0}

\* The entries that toArray() gives, oldest first.
Kept == RingArray(entries)

\* The entries written before this life of the server.
Before == logged - (nextId - 1)

\* Every variable of the server and its client holds a value of its kind.
ServerTypes ==
    /\ nextId \in Nat \ {0} /\ logged \in 0 .. MaxLogged /\ nextId - 1 <= logged
    /\ entries \in Rings(ServerCapacity, SlotValues)
    /\ cursor \in Nat /\ life \in Nat \ {0} /\ issuedIn \in 1 .. life
    /\ received \in [1 .. MaxLogged -> 0 .. 1]

\* The ring holds the newest entries of this life, with consecutive ids.
RingIsTheEnd ==
    /\ Len(Kept) <= nextId - 1 /\ (Len(Kept) = 0 => nextId = 1)
    /\ \A i \in 1 .. Len(Kept) : /\ Kept[i].id = (nextId - 1) - (Len(Kept) - i)
                                 /\ Kept[i].n = logged - (Len(Kept) - i)

\* What the client has of this life was sent with a cursor that covers it.
CursorCovers ==
    /\ issuedIn = life => cursor <= nextId - 1
    /\ \A n \in 1 .. MaxLogged :
           received[n] = 1 => /\ n <= logged
                              /\ n > Before => issuedIn = life /\ n - Before <= cursor

ServerInv == ServerTypes /\ RingIsTheEnd /\ CursorCovers /\ NoEntryMissed

\* The capacity of the ring is positive.
LEMMA ServerConstants == ServerCapacity \in Nat \ {0} /\ MaxLogged \in Nat \ {0}
BY ServerAssumption

\* The elements of a sequence, by place.
LEMMA ElementsByPlace ==
    ASSUME NEW S, NEW s \in Seq(S)
    PROVE  \A e : e \in ToSet(s) <=> \E i \in 1 .. Len(s) : e = s[i]
BY DEF ToSet

\* What the ring keeps are entries.
LEMMA KeptElements ==
    ASSUME ServerTypes
    PROVE  /\ Kept \in Seq(SlotValues) /\ Len(Kept) \in 0 .. ServerCapacity
           /\ Len(Kept) = entries.count
           /\ \A e : e \in ToSet(Kept) <=> \E i \in 1 .. Len(Kept) : e = Kept[i]
<1>1. /\ Kept \in Seq(SlotValues) /\ Len(Kept) = entries.count /\ entries.count \in 0 .. ServerCapacity
  BY ServerConstants, ArrayElements DEF ServerTypes, Kept
<1> QED  BY <1>1, ElementsByPlace

\* The server starts with an empty ring and the highest id 0.
LEMMA ServerInitInv == ServerInit => ServerInv
<1> SUFFICES ASSUME ServerInit PROVE ServerInv
  OBVIOUS
<1>1. entries \in Rings(ServerCapacity, SlotValues) /\ Kept = <<>>
  BY ServerConstants, EmptyRing DEF ServerInit, SlotValues, Kept
<1>2. ServerTypes
  BY <1>1, ServerConstants DEF ServerInit, ServerTypes
<1>3. RingIsTheEnd
  BY <1>1 DEF ServerInit, RingIsTheEnd
<1>4. CursorCovers
  BY DEF ServerInit, CursorCovers
<1>5. NoEntryMissed
  BY <1>1 DEF NoEntryMissed, ToSet, Kept
<1> QED  BY <1>2, <1>3, <1>4, <1>5 DEF ServerInv

\* POST /logs: the entry gets the next id and the oldest may be dropped.
LEMMA PushEntryInv ==
    ASSUME ServerInv, PushEntry
    PROVE  ServerInv'
<1> DEFINE e == [id |-> nextId, n |-> logged + 1]
<1>1. /\ nextId \in Nat \ {0} /\ logged \in 0 .. MaxLogged /\ nextId - 1 <= logged
      /\ entries \in Rings(ServerCapacity, SlotValues) /\ logged < MaxLogged
      /\ cursor \in Nat /\ life \in Nat \ {0} /\ issuedIn \in 1 .. life
      /\ received \in [1 .. MaxLogged -> 0 .. 1] /\ MaxLogged \in Nat
  BY ServerConstants DEF ServerInv, ServerTypes, PushEntry
<1>2. /\ logged' = logged + 1 /\ nextId' = nextId + 1 /\ entries' = RingPush(entries, e)
      /\ UNCHANGED <<cursor, issuedIn, life, received, skipped>>
  BY DEF PushEntry
<1>3. e \in SlotValues /\ e \in ServerEntries
  BY <1>1 DEF SlotValues, ServerEntries
<1>4. /\ entries' \in Rings(ServerCapacity, SlotValues) /\ Kept' \in Seq(SlotValues)
      /\ Len(Kept') = IF Len(Kept) < ServerCapacity THEN Len(Kept) + 1 ELSE ServerCapacity
      /\ Kept'[Len(Kept')] = e
      /\ \A i \in 1 .. Len(Kept') - 1 : Kept'[i] = IF Len(Kept) < ServerCapacity THEN Kept[i] ELSE Kept[i + 1]
  <2> HIDE DEF e
  <2>1. Kept = RingArray(entries) /\ Kept' = RingArray(RingPush(entries, e))
    BY <1>2 DEF Kept
  <2>2. entries' = RingPush(entries, e)
    BY <1>2
  <2>3. /\ RingPush(entries, e) \in Rings(ServerCapacity, SlotValues)
        /\ RingArray(RingPush(entries, e)) \in Seq(SlotValues)
        /\ Slides(RingArray(entries), RingArray(RingPush(entries, e)), e, ServerCapacity)
    <3>1. ServerCapacity \in Nat \ {0} /\ entries \in Rings(ServerCapacity, SlotValues) /\ e \in SlotValues
      BY <1>1, <1>3, ServerConstants
    <3> QED  BY <3>1, PushAppends
  <2> QED  BY <2>1, <2>2, <2>3 DEF Slides
<1>5. ServerTypes'
  <2> HIDE DEF e
  <2> QED  BY <1>1, <1>2, <1>4 DEF ServerTypes
<1>6. /\ Len(Kept) \in 0 .. ServerCapacity /\ ServerCapacity \in Nat \ {0} /\ Len(Kept) <= nextId - 1
      /\ \A i \in 1 .. Len(Kept) : /\ Kept[i].id = (nextId - 1) - (Len(Kept) - i)
                                   /\ Kept[i].n = logged - (Len(Kept) - i)
  BY ServerConstants, KeptElements DEF ServerInv, RingIsTheEnd
<1>7. RingIsTheEnd'
  <2>1. /\ Len(Kept') <= nextId' - 1 /\ Len(Kept') # 0 /\ Len(Kept') \in Nat
    BY <1>1, <1>2, <1>4, <1>6
  <2>2. ASSUME NEW i \in 1 .. Len(Kept')
        PROVE  /\ Kept'[i].id = (nextId' - 1) - (Len(Kept') - i)
               /\ Kept'[i].n = logged' - (Len(Kept') - i)
    <3>1. CASE i = Len(Kept')
      <4>1. (nextId' - 1) - (Len(Kept') - i) = nextId /\ logged' - (Len(Kept') - i) = logged + 1
        BY <1>1, <1>2, <2>1, <3>1
      <4> QED  BY <1>4, <3>1, <4>1
    <3>2. CASE i # Len(Kept') /\ Len(Kept) < ServerCapacity
      <4>1. i \in 1 .. Len(Kept') - 1 /\ i \in 1 .. Len(Kept)
        BY <1>4, <1>6, <2>1, <3>2
      <4>2. Kept'[i] = Kept[i]
        BY <1>4, <3>2, <4>1
      <4>3. /\ (nextId' - 1) - (Len(Kept') - i) = (nextId - 1) - (Len(Kept) - i)
            /\ logged' - (Len(Kept') - i) = logged - (Len(Kept) - i)
        BY <1>1, <1>2, <1>4, <1>6, <3>2, SMTT(20)
      <4> QED  BY <1>6, <4>1, <4>2, <4>3
    <3>3. CASE i # Len(Kept') /\ ~ (Len(Kept) < ServerCapacity)
      <4>1. i \in 1 .. Len(Kept') - 1 /\ i + 1 \in 1 .. Len(Kept)
        BY <1>4, <1>6, <2>1, <3>3
      <4>2. Kept'[i] = Kept[i + 1]
        BY <1>4, <3>3, <4>1
      <4>3. /\ (nextId' - 1) - (Len(Kept') - i) = (nextId - 1) - (Len(Kept) - (i + 1))
            /\ logged' - (Len(Kept') - i) = logged - (Len(Kept) - (i + 1))
        <5>1. Len(Kept) = ServerCapacity /\ Len(Kept') = ServerCapacity /\ i \in Nat
          BY <1>4, <1>6, <2>1, <3>3
        <5> QED  BY <1>1, <1>2, <1>6, <5>1
      <4> QED  BY <1>6, <4>1, <4>2, <4>3
    <3> QED  BY <3>1, <3>2, <3>3
  <2> QED  BY <2>1, <2>2 DEF RingIsTheEnd
<1>8. CursorCovers'
  <2>1. Before' = Before
    BY <1>1, <1>2 DEF Before
  <2>2. /\ issuedIn = life => cursor <= nextId - 1
        /\ \A n \in 1 .. MaxLogged :
             received[n] = 1 => n <= logged /\ (n > Before => issuedIn = life /\ n - Before <= cursor)
    BY DEF ServerInv, CursorCovers
  <2>3. \A n \in 1 .. MaxLogged : n <= logged => n <= logged'
    BY <1>1, <1>2
  <2>4. issuedIn' = life' => cursor' <= nextId' - 1
    BY <1>1, <1>2, <2>2
  <2>5. ASSUME NEW n \in 1 .. MaxLogged, received'[n] = 1
        PROVE  n <= logged' /\ (n > Before' => issuedIn' = life' /\ n - Before' <= cursor')
    BY <1>2, <2>1, <2>2, <2>3, <2>5
  <2> QED  BY <2>4, <2>5 DEF CursorCovers
<1>9. NoEntryMissed'
  <2> SUFFICES ASSUME NEW f \in ToSet(Kept'), issuedIn' = life', f.id <= cursor'
               PROVE  received'[f.n] = 1 \/ f.n \in skipped'
    BY DEF NoEntryMissed, Kept
  <2>1. PICK i \in 1 .. Len(Kept') : f = Kept'[i]
    BY <1>4, ElementsByPlace
  <2>2. CASE i = Len(Kept')
    <3>1. f.id = nextId
      BY <1>4, <2>1, <2>2
    <3>2. cursor <= nextId - 1
      BY <1>2 DEF ServerInv, CursorCovers
    <3> QED  BY <1>1, <1>2, <3>1, <3>2
  <2>3. CASE i # Len(Kept')
    <3>1. Len(Kept') \in Nat
      BY <1>4, <1>6
    <3>2. i \in 1 .. Len(Kept') - 1
      BY <2>3, <3>1
    <3>3. \E j \in 1 .. Len(Kept) : f = Kept[j]
      <4>1. CASE Len(Kept) < ServerCapacity
        BY <1>4, <1>6, <2>1, <3>2, <4>1
      <4>2. CASE ~ (Len(Kept) < ServerCapacity)
        <5>1. i + 1 \in 1 .. Len(Kept)
          BY <1>4, <1>6, <3>2, <4>2
        <5> QED  BY <1>4, <2>1, <3>2, <4>2, <5>1
      <4> QED  BY <4>1, <4>2
    <3>4. f \in ToSet(Kept)
      BY <3>3, KeptElements DEF ServerInv
    <3> QED  BY <1>2, <3>4 DEF ServerInv, NoEntryMissed, Kept
  <2> QED  BY <2>2, <2>3
<1> QED  BY <1>5, <1>7, <1>8, <1>9 DEF ServerInv

\* GET /logs: the client collects what is newer than what it has seen.
LEMMA PollInv ==
    ASSUME ServerInv, Poll
    PROVE  ServerInv'
<1> DEFINE sent == {x.n : x \in {y \in ToSet(Kept) : cursor = 0 \/ y.id > cursor}}
<1>1. /\ nextId \in Nat \ {0} /\ logged \in 0 .. MaxLogged /\ nextId - 1 <= logged
      /\ cursor \in Nat /\ life \in Nat \ {0} /\ issuedIn \in 1 .. life
      /\ received \in [1 .. MaxLogged -> 0 .. 1] /\ MaxLogged \in Nat
  BY ServerConstants DEF ServerInv, ServerTypes
<1>2. /\ Kept \in Seq(SlotValues) /\ Len(Kept) \in Nat
      /\ \A e : e \in ToSet(Kept) <=> \E i \in 1 .. Len(Kept) : e = Kept[i]
  BY KeptElements DEF ServerInv
<1>3. /\ Len(Kept) <= nextId - 1 /\ (Len(Kept) = 0 => nextId = 1)
      /\ \A i \in 1 .. Len(Kept) : /\ Kept[i].id = (nextId - 1) - (Len(Kept) - i)
                                   /\ Kept[i].n = logged - (Len(Kept) - i)
  BY DEF ServerInv, RingIsTheEnd
<1>4. /\ received' = [n \in DOMAIN received |-> IF n \in sent THEN received[n] + 1 ELSE received[n]]
      /\ skipped' = IF issuedIn = life THEN skipped ELSE skipped \cup (InRing \ sent)
      /\ cursor' = (IF Kept = <<>> THEN 0 ELSE Last(Kept).id)
      /\ issuedIn' = life /\ UNCHANGED <<nextId, entries, logged, life>>
  BY DEF Poll, Collect, Kept
<1>5. cursor' = nextId - 1
  <2>1. CASE Kept = <<>>
    BY <1>1, <1>3, <1>4, <2>1
  <2>2. CASE Kept # <<>>
    <3>1. Len(Kept) \in 1 .. Len(Kept)
      BY <1>2, <2>2, EmptySeq
    <3>2. Kept[Len(Kept)].id = (nextId - 1) - (Len(Kept) - Len(Kept))
      BY <1>3, <3>1
    <3> QED  BY <1>1, <1>2, <1>4, <2>2, <3>2 DEF Last
  <2> QED  BY <2>1, <2>2
<1>6. Kept' = Kept
  BY <1>4 DEF Kept
<1>7. ASSUME NEW n \in sent
      PROVE  n \in 1 .. MaxLogged /\ n > Before /\ n <= logged /\ received[n] = 0
  <2>1. PICK i \in 1 .. Len(Kept) : n = Kept[i].n /\ (cursor = 0 \/ Kept[i].id > cursor)
    BY <1>2
  <2>2. /\ n = logged - (Len(Kept) - i) /\ i \in Nat
        /\ Kept[i].id = (nextId - 1) - (Len(Kept) - i)
    BY <1>3, <2>1
  <2>3. /\ n \in 1 .. MaxLogged /\ n > Before /\ n <= logged
        /\ n - Before = Kept[i].id /\ n - Before > 0
    BY <1>1, <1>2, <1>3, <2>1, <2>2, SMTT(20) DEF Before
  <2>4. received[n] # 1
    BY <1>1, <2>1, <2>3, SMTT(20) DEF ServerInv, CursorCovers, Before
  <2> QED  BY <1>1, <2>3, <2>4
<1>8. \A n \in 1 .. MaxLogged : received'[n] = IF n \in sent THEN 1 ELSE received[n]
  <2> HIDE DEF sent
  <2> QED  BY <1>1, <1>4, <1>7
<1>9. ServerTypes'
  <2> HIDE DEF sent
  <2>1. received' \in [1 .. MaxLogged -> 0 .. 1]
    BY <1>1, <1>4, <1>8
  <2> QED  BY <1>1, <1>4, <1>5, <2>1 DEF ServerTypes, ServerInv
<1>10. RingIsTheEnd'
  BY <1>4, <1>6 DEF ServerInv, RingIsTheEnd
<1>11. CursorCovers'
  <2> HIDE DEF sent
  <2>1. Before' = Before /\ Before = logged - (nextId - 1)
    BY <1>4 DEF Before
  <2>2. ASSUME NEW n \in 1 .. MaxLogged, received'[n] = 1
        PROVE  n <= logged /\ n - Before <= cursor'
    <3>1. n <= logged
      BY <1>7, <1>8, <2>2 DEF ServerInv, CursorCovers
    <3> QED  BY <1>1, <1>5, <2>1, <3>1
  <2>3. \A n \in 1 .. MaxLogged :
           received'[n] = 1 => n <= logged' /\ (n > Before' => issuedIn' = life' /\ n - Before' <= cursor')
    BY <1>4, <2>1, <2>2
  <2> QED  BY <1>1, <1>4, <1>5, <2>3 DEF CursorCovers
<1>12. NoEntryMissed'
  <2> SUFFICES ASSUME NEW f \in ToSet(Kept) PROVE received'[f.n] = 1 \/ f.n \in skipped'
    BY <1>6 DEF NoEntryMissed, Kept
  <2>1. PICK i \in 1 .. Len(Kept) : f = Kept[i]
    BY <1>2
  <2>2. f.n \in 1 .. MaxLogged
    <3>1. f.n = logged - (Len(Kept) - i) /\ i \in Nat
      BY <1>3, <2>1
    <3> QED  BY <1>1, <1>2, <1>3, <2>1, <3>1
  <2>3. CASE f.n \in sent
    BY <1>8, <2>2, <2>3
  <2>4. CASE f.n \notin sent
    <3>1. cursor # 0 /\ ~ (f.id > cursor)
      BY <2>4
    <3>2. f.id \in Nat
      <4>1. f.id = (nextId - 1) - (Len(Kept) - i) /\ i \in Nat
        BY <1>3, <2>1
      <4> QED  BY <1>1, <1>2, <1>3, <2>1, <4>1
    <3>3. CASE issuedIn = life
      BY <1>1, <1>4, <1>8, <2>2, <2>4, <3>1, <3>2, <3>3 DEF ServerInv, NoEntryMissed, Kept
    <3>4. CASE issuedIn # life
      <4>1. f.n \in InRing
        BY DEF InRing, Kept
      <4> QED  BY <1>4, <2>4, <3>4, <4>1
    <3> QED  BY <3>3, <3>4
  <2> QED  BY <2>3, <2>4
<1> QED  BY <1>9, <1>10, <1>11, <1>12 DEF ServerInv

\* A restarted server knows neither entries nor ids.
LEMMA ServerRestartInv ==
    ASSUME ServerInv, ServerRestart
    PROVE  ServerInv'
<1>1. /\ nextId' = 1 /\ life' = life + 1 /\ entries' = NewRing(ServerCapacity)
      /\ UNCHANGED <<logged, cursor, issuedIn, received, skipped>>
  BY DEF ServerRestart
<1>2. entries' \in Rings(ServerCapacity, SlotValues) /\ Kept' = <<>>
  BY <1>1, ServerConstants, EmptyRing DEF SlotValues, Kept
<1>3. /\ logged \in 0 .. MaxLogged /\ life \in Nat \ {0} /\ issuedIn \in 1 .. life
      /\ cursor \in Nat /\ received \in [1 .. MaxLogged -> 0 .. 1] /\ MaxLogged \in Nat
  BY ServerConstants DEF ServerInv, ServerTypes
<1>4. ServerTypes'
  BY <1>1, <1>2, <1>3 DEF ServerTypes
<1>5. RingIsTheEnd'
  BY <1>1, <1>2 DEF RingIsTheEnd
<1>6. CursorCovers'
  <2>1. Before' = logged /\ issuedIn' # life'
    BY <1>1, <1>3 DEF Before
  <2>2. \A n \in 1 .. MaxLogged : received'[n] = 1 => n <= logged /\ ~ (n > logged)
    BY <1>1, <1>3 DEF ServerInv, CursorCovers
  <2> QED  BY <1>1, <2>1, <2>2 DEF CursorCovers
<1>7. NoEntryMissed'
  BY <1>2 DEF NoEntryMissed, ToSet, Kept
<1> QED  BY <1>4, <1>5, <1>6, <1>7 DEF ServerInv

\* The inductive invariant is strong enough.
LEMMA ServerInvGivesResult == ServerInv => PollsBringAll
<1> SUFFICES ASSUME ServerInv PROVE PollsBringAll
  OBVIOUS
<1>1. /\ nextId \in Nat \ {0} /\ logged \in 0 .. MaxLogged /\ MaxLogged \in Nat
      /\ received \in [1 .. MaxLogged -> 0 .. 1]
  BY ServerConstants DEF ServerInv, ServerTypes
<1>2. /\ Len(Kept) \in 0 .. ServerCapacity /\ Len(Kept) = entries.count /\ ServerCapacity \in Nat
      /\ \A e : e \in ToSet(Kept) <=> \E i \in 1 .. Len(Kept) : e = Kept[i]
  BY ServerConstants, KeptElements DEF ServerInv
<1>3. ASSUME NEW e \in ToSet(Kept) PROVE e.id \in 1 .. nextId - 1
  <2>1. PICK i \in 1 .. Len(Kept) : e = Kept[i]
    BY <1>2
  <2>2. e.id = (nextId - 1) - (Len(Kept) - i) /\ Len(Kept) <= nextId - 1
    BY <2>1 DEF ServerInv, RingIsTheEnd
  <2> QED  BY <1>1, <1>2, <2>1, <2>2
<1>4. ServerTypeOK
  BY <1>1, <1>2, <1>3 DEF ServerTypeOK, Kept
<1>5. NoEntryTwice
  BY <1>1 DEF NoEntryTwice
<1> QED  BY <1>4, <1>5 DEF ServerInv, PollsBringAll

\* Polling brings every entry of the ring once, for every capacity and number of
\* entries, with answers lost and the server restarted at any time.
THEOREM PollsBringAllCorrect == ServerSpec => []PollsBringAll
<1>1. ServerInit => ServerInv
  BY ServerInitInv
<1>2. ServerInv /\ [ServerNext]_serverVars => ServerInv'
  <2> SUFFICES ASSUME ServerInv, [ServerNext]_serverVars PROVE ServerInv'
    OBVIOUS
  <2>1. CASE PushEntry
    BY <2>1, PushEntryInv
  <2>2. CASE Poll
    BY <2>2, PollInv
  <2>3. CASE ServerRestart
    BY <2>3, ServerRestartInv
  <2>4. CASE UNCHANGED serverVars
    BY <2>4 DEF ServerInv, ServerTypes, RingIsTheEnd, CursorCovers, NoEntryMissed, Kept, Before
  <2> QED  BY <2>1, <2>2, <2>3, <2>4 DEF ServerNext
<1> QED  BY <1>1, <1>2, ServerInvGivesResult, PTL DEF ServerSpec

-----------------------------------------------------------------------------
(* once() and throttle().  A cache forgets a key only behind CacheSize     *)
(* others: every key behind it was used since, and so was the one that     *)
(* pushes it out.                                                          *)

\* The keys of a cache stand in the order in which they were last used: behind a
\* key there are only keys used since.
InOrderOfUse(keys, since) ==
    \A i, j \in DOMAIN keys : i < j => keys[j] \in since[keys[i]]

\* A cache of these keys, and what was used since each of them was.
Cache(keys, since) ==
    /\ keys \in Seq(LimitKeys) /\ Len(keys) <= CacheSize
    /\ \A i, j \in DOMAIN keys : keys[i] = keys[j] => i = j
    /\ DOMAIN since = LimitKeys /\ \A k \in LimitKeys : IsFiniteSet(since[k])
    /\ InOrderOfUse(keys, since)

\* A key that was used is in the cache, or CacheSize others were used since.
Forgets(keys, since, used) ==
    \A k \in LimitKeys \cap used : k \notin ToSet(keys) => Cardinality(since[k]) >= CacheSize

\* What a cache holds when key k is used: places holds the keys that stay, in
\* their order, and k is behind them.
UsedLast(keys, k, places, after) ==
    /\ after \in Seq(LimitKeys) /\ Len(after) = Len(places) + 1
    /\ after[Len(after)] = k
    /\ places \in Seq(DOMAIN keys)
    /\ \A i, j \in DOMAIN places : i < j => places[i] < places[j]
    /\ \A i \in DOMAIN places : after[i] = keys[places[i]] /\ keys[places[i]] # k

\* The indexes of a sequence.
LEMMA SequenceDomain ==
    ASSUME NEW S, NEW s \in Seq(S)
    PROVE  Len(s) \in Nat /\ DOMAIN s = 1 .. Len(s)
BY LenProperties

\* A number is added to a set that does not grow without bound.
LEMMA OthersFinite ==
    ASSUME NEW since, DOMAIN since = LimitKeys, \A k \in LimitKeys : IsFiniteSet(since[k]),
           NEW k \in LimitKeys
    PROVE  /\ DOMAIN Others(since, k) = LimitKeys
           /\ \A j \in LimitKeys : IsFiniteSet(Others(since, k)[j])
           /\ \A j \in LimitKeys \ {k} : Others(since, k)[j] = since[j] \cup {k}
<1>1. \A j \in LimitKeys : IsFiniteSet(since[j] \cup {k}) BY FS_AddElement
<1> QED BY <1>1, FS_EmptySet DEF Others

\* The cache stays in order of use when a key is used.
LEMMA UsedCache ==
    ASSUME LimitsAssumption, NEW keys, NEW since, Cache(keys, since), NEW k \in LimitKeys,
           NEW places, NEW after, UsedLast(keys, k, places, after), Len(after) <= CacheSize
    PROVE  Cache(after, Others(since, k))
<1> DEFINE n == Len(places)
           m == n + 1
           now == Others(since, k)
<1>1. /\ n \in Nat /\ DOMAIN places = 1 .. n /\ DOMAIN after = 1 .. m /\ Len(after) = m
      /\ after \in Seq(LimitKeys) /\ after[m] = k
  BY SequenceDomain DEF UsedLast
<1>2. \A i \in 1 .. n : /\ places[i] \in DOMAIN keys
                        /\ after[i] = keys[places[i]] /\ after[i] # k
  BY <1>1, ElementOfSeq DEF UsedLast
<1>3. \A i, j \in 1 .. n : i < j => places[i] < places[j] BY <1>1 DEF UsedLast
<1>4. /\ DOMAIN now = LimitKeys /\ \A j \in LimitKeys : IsFiniteSet(now[j])
      /\ \A j \in LimitKeys \ {k} : now[j] = since[j] \cup {k}
  BY OthersFinite DEF Cache
<1>5. keys \in Seq(LimitKeys) /\ Len(keys) \in Nat /\ DOMAIN keys = 1 .. Len(keys)
  BY SequenceDomain DEF Cache
<1>6. \A i, j \in DOMAIN keys : (keys[i] = keys[j] => i = j) /\ (i < j => keys[j] \in since[keys[i]])
  BY DEF Cache, InOrderOfUse
<1>7. \A i \in 1 .. n : after[i] \in LimitKeys \ {k} BY <1>2, <1>1, ElementOfSeq
<1> HIDE DEF n, m, now
<1>m. m = n + 1 BY DEF m
<1>8. ASSUME NEW i \in 1 .. m, NEW j \in 1 .. m, after[i] = after[j] PROVE i = j
  <2>1. CASE i = m BY <2>1, <1>1, <1>2, <1>8, <1>m
  <2>2. CASE j = m BY <2>2, <1>1, <1>2, <1>8, <1>m
  <2>3. CASE i \in 1 .. n /\ j \in 1 .. n
    <3>1. places[i] = places[j] BY <2>3, <1>2, <1>6, <1>8
    <3>2. places[i] \in Nat /\ ~(i < j) /\ ~(j < i) BY <3>1, <2>3, <1>3, <1>2, <1>5
    <3> QED BY <3>2, <2>3, <1>1
  <2> QED BY <2>1, <2>2, <2>3, <1>1, <1>m
<1>9. ASSUME NEW i \in 1 .. m, NEW j \in 1 .. m, i < j PROVE after[j] \in now[after[i]]
  <2>1. i \in 1 .. n BY <1>9, <1>1, <1>m
  <2>2. now[after[i]] = since[after[i]] \cup {k} BY <2>1, <1>7, <1>4
  <2>3. CASE j = m BY <2>3, <2>2, <1>1
  <2>4. CASE j \in 1 .. n
    <3>1. places[i] < places[j] /\ places[i] \in DOMAIN keys /\ places[j] \in DOMAIN keys
      BY <2>1, <2>4, <1>3, <1>2, <1>9
    <3>2. keys[places[j]] \in since[keys[places[i]]] BY <3>1, <1>6
    <3> QED BY <3>2, <2>2, <2>1, <2>4, <1>2
  <2> QED BY <2>3, <2>4, <1>1, <1>m
<1> QED BY <1>1, <1>4, <1>8, <1>9 DEF Cache, InOrderOfUse, now

\* A key of the cache that is pushed out leaves CacheSize others behind it.
LEMMA FullCache ==
    ASSUME LimitsAssumption, NEW keys, NEW since, Cache(keys, since), Len(keys) = CacheSize,
           NEW k \in LimitKeys, k \notin ToSet(keys)
    PROVE  Cardinality(since[keys[1]] \cup {k}) >= CacheSize
<1> DEFINE c == CacheSize
           f == [i \in 1 .. c |-> IF i = 1 THEN k ELSE keys[i]]
           T == since[keys[1]] \cup {k}
<1>1. c \in Nat \ {0} BY DEF LimitsAssumption
<1>2. DOMAIN keys = 1 .. c /\ keys \in Seq(LimitKeys) BY SequenceDomain DEF Cache
<1>3. keys[1] \in LimitKeys BY <1>1, <1>2, ElementOfSeq
<1>4. IsFiniteSet(T) /\ Cardinality(T) \in Nat BY <1>3, FS_AddElement, FS_CardinalityType DEF Cache
<1>5. f \in [1 .. c -> T]
  <2> SUFFICES ASSUME NEW i \in 1 .. c, i # 1 PROVE keys[i] \in since[keys[1]]
    OBVIOUS
  <2>1. 1 \in 1 .. c /\ 1 < i BY <1>1
  <2> QED BY <2>1, <1>2 DEF Cache, InOrderOfUse
<1>6. ASSUME NEW i \in 1 .. c, NEW j \in 1 .. c, f[i] = f[j] PROVE i = j
  <2>1. \A x \in 1 .. c : keys[x] # k BY <1>2 DEF ToSet
  <2>2. \A x, y \in 1 .. c : keys[x] = keys[y] => x = y BY <1>2 DEF Cache
  <2> QED BY <1>6, <2>1, <2>2
<1>7. IsFiniteSet(1 .. c) /\ Cardinality(1 .. c) = c BY <1>1, FS_Interval
<1> HIDE DEF f, T
<1>8. ~(Cardinality(T) < Cardinality(1 .. c)) BY <1>4, <1>5, <1>6, <1>7, FS_PigeonHole
<1> QED BY <1>8, <1>7, <1>4, <1>1 DEF T

\* A key that was forgotten stays so until it is used.
LEMMA StaysForgotten ==
    ASSUME LimitsAssumption, NEW keys, NEW since, Cache(keys, since),
           NEW used, Forgets(keys, since, used), NEW k \in LimitKeys, NEW after, k \in ToSet(after),
           \A j \in LimitKeys : j \in ToSet(keys) /\ j \notin ToSet(after)
             => Cardinality(since[j] \cup {k}) >= CacheSize
    PROVE  Forgets(after, Others(since, k), used \cup {k})
<1> SUFFICES ASSUME NEW j \in LimitKeys \cap (used \cup {k}), j \notin ToSet(after)
             PROVE  Cardinality(Others(since, k)[j]) >= CacheSize
  BY DEF Forgets
<1>1. j # k /\ j \in used OBVIOUS
<1>2. Others(since, k)[j] = since[j] \cup {k} BY <1>1, OthersFinite DEF Cache
<1>3. CASE j \in ToSet(keys) BY <1>2, <1>3
<1>4. CASE j \notin ToSet(keys)
  <2>1. Cardinality(since[j]) >= CacheSize BY <1>1, <1>4 DEF Forgets
  <2>2. IsFiniteSet(since[j]) BY DEF Cache
  <2>3. /\ Cardinality(since[j] \cup {k}) \in {Cardinality(since[j]), Cardinality(since[j]) + 1}
        /\ Cardinality(since[j]) \in Nat
    BY <2>2, FS_AddElement, FS_CardinalityType
  <2> QED BY <2>1, <2>3, <1>2 DEF LimitsAssumption
<1> QED BY <1>3, <1>4

\* A key that is not in the cache is used: it takes the last place, in a full cache
\* that of the first key.
LEMMA UseNew ==
    ASSUME LimitsAssumption, NEW keys, NEW since, Cache(keys, since),
           NEW used, Forgets(keys, since, used), NEW k \in LimitKeys, k \notin ToSet(keys)
    PROVE  /\ Cache(Append(Room(keys), k), Others(since, k))
           /\ Forgets(Append(Room(keys), k), Others(since, k), used \cup {k})
<1> DEFINE after == Append(Room(keys), k)
           full == Len(keys) >= CacheSize
           n == IF full THEN Len(keys) - 1 ELSE Len(keys)
           places == [i \in 1 .. n |-> IF full THEN i + 1 ELSE i]
<1>1. /\ keys \in Seq(LimitKeys) /\ Len(keys) \in Nat /\ DOMAIN keys = 1 .. Len(keys)
      /\ Len(keys) <= CacheSize /\ CacheSize \in Nat \ {0}
  BY SequenceDomain DEF Cache, LimitsAssumption
<1>2. n \in Nat /\ n < CacheSize BY <1>1
<1>3. /\ Room(keys) \in Seq(LimitKeys) /\ Len(Room(keys)) = n
      /\ \A i \in 1 .. n : Room(keys)[i] = keys[places[i]] /\ places[i] \in 1 .. Len(keys)
  <2>1. CASE full
    <3>1. keys # <<>> BY <2>1, <1>1, EmptySeq
    <3> QED BY <3>1, <2>1, <1>1, HeadTailProperties DEF Room
  <2>2. CASE ~full BY <2>2, <1>1 DEF Room
  <2> QED BY <2>1, <2>2
<1>4. /\ after \in Seq(LimitKeys) /\ Len(after) = n + 1 /\ after[n + 1] = k
      /\ \A i \in 1 .. n : after[i] = keys[places[i]]
  <2> HIDE DEF n, places
  <2> QED BY <1>3, <1>2, AppendProperties
<1>5. places \in Seq(DOMAIN keys) /\ Len(places) = n /\ DOMAIN places = 1 .. n
  <2>1. \A i \in 1 .. n : places[i] \in DOMAIN keys BY <1>3, <1>1
  <2> HIDE DEF n, full
  <2> QED BY <2>1, <1>2, IsASeq
<1>6. \A i, j \in 1 .. n : i < j => places[i] < places[j] BY <1>2
<1>7. \A i \in 1 .. n : keys[places[i]] # k BY <1>3, <1>1 DEF ToSet
<1>full. full => Len(keys) = CacheSize
  <2>1. \A x, y \in Nat : x <= y /\ x >= y => x = y OBVIOUS
  <2>2. Len(keys) \in Nat /\ CacheSize \in Nat /\ Len(keys) <= CacheSize BY <1>1
  <2> QED BY <2>1, <2>2
<1>places. \A i \in 1 .. n : places[i] = IF full THEN i + 1 ELSE i OBVIOUS
<1>n. n = IF full THEN Len(keys) - 1 ELSE Len(keys) OBVIOUS
<1> HIDE DEF after, places, n, full
<1>8. UsedLast(keys, k, places, after) BY <1>4, <1>5, <1>6, <1>7 DEF UsedLast
<1>9. Cache(after, Others(since, k)) BY <1>8, <1>4, <1>2, <1>1, UsedCache
<1>10. \A j \in LimitKeys : j \in ToSet(keys) /\ j \notin ToSet(after)
         => Cardinality(since[j] \cup {k}) >= CacheSize
  <2> SUFFICES ASSUME NEW j \in LimitKeys, j \in ToSet(keys), j \notin ToSet(after)
               PROVE  Cardinality(since[j] \cup {k}) >= CacheSize
    OBVIOUS
  <2>1. PICK x \in 1 .. Len(keys) : keys[x] = j BY <1>1 DEF ToSet
  <2>2. DOMAIN after = 1 .. n + 1 BY <1>4, SequenceDomain
  <2>3. \A i \in 1 .. n : keys[places[i]] # j
    <3> SUFFICES ASSUME NEW i \in 1 .. n, keys[places[i]] = j PROVE FALSE OBVIOUS
    <3>1. i \in DOMAIN after /\ after[i] = j BY <2>2, <1>4, <1>2
    <3> QED BY <3>1 DEF ToSet
  <2>4. full /\ x = 1
    <3>1. CASE ~full
      <4>1. x \in 1 .. n /\ places[x] = x BY <3>1, <1>n, <1>places
      <4> QED BY <4>1, <2>1, <2>3
    <3>2. CASE full /\ x # 1
      <4>1. x - 1 \in 1 .. n BY <3>2, <1>n, <1>1
      <4>2. places[x - 1] = x BY <4>1, <1>places, <3>2
      <4> QED BY <4>1, <4>2, <2>1, <2>3
    <3> QED BY <3>1, <3>2
  <2> QED BY <2>4, <2>1, <1>full, FullCache
<1>11. k \in ToSet(after)
  <2>1. n + 1 \in DOMAIN after BY <1>4, <1>2, SequenceDomain
  <2> QED BY <2>1, <1>4 DEF ToSet
<1> QED BY <1>9, <1>10, <1>11, StaysForgotten DEF after

\* The place p of a sequence is taken out.
LEMMA RemoveShape ==
    ASSUME NEW S, NEW s \in Seq(S), NEW p \in 1 .. Len(s)
    PROVE  /\ RemoveAt(s, p) \in Seq(S) /\ Len(RemoveAt(s, p)) = Len(s) - 1
           /\ \A i \in 1 .. Len(s) - 1 :
                RemoveAt(s, p)[i] = s[IF i < p THEN i ELSE i + 1]
<1>1. Len(s) \in Nat /\ p \in Nat \ {0} BY LenProperties
<1> DEFINE a == SubSeq(s, 1, p - 1)
           b == SubSeq(s, p + 1, Len(s))
<1>2. a \in Seq(S) /\ Len(a) = p - 1 /\ \A i \in 1 .. p - 1 : a[i] = s[i]
  BY <1>1, SubSeqProperties
<1>3. /\ b \in Seq(S) /\ Len(b) = Len(s) - p
      /\ \A i \in 1 .. Len(s) - p : b[i] = s[p + i]
  BY <1>1, SubSeqProperties
<1> HIDE DEF a, b
<1>4. RemoveAt(s, p) = a \o b BY DEF RemoveAt, a, b
<1>5. /\ a \o b \in Seq(S) /\ Len(a \o b) = Len(s) - 1
      /\ \A i \in 1 .. Len(s) - 1 : (a \o b)[i] = IF i <= p - 1 THEN a[i] ELSE b[i - (p - 1)]
  BY <1>1, <1>2, <1>3, ConcatProperties
<1>6. ASSUME NEW i \in 1 .. Len(s) - 1 PROVE (a \o b)[i] = s[IF i < p THEN i ELSE i + 1]
  <2>1. CASE i < p BY <2>1, <1>5, <1>2, <1>1
  <2>2. CASE ~(i < p)
    <3>1. i - (p - 1) \in 1 .. Len(s) - p /\ p + (i - (p - 1)) = i + 1 BY <2>2, <1>1
    <3>2. b[i - (p - 1)] = s[i + 1] BY <3>1, <1>3
    <3> QED BY <3>2, <2>2, <1>5, <1>1
  <2> QED BY <2>1, <2>2
<1> QED BY <1>4, <1>5, <1>6

\* A key of the cache is used again: it moves to the last place.
LEMMA UseAgain ==
    ASSUME LimitsAssumption, NEW keys, NEW since, Cache(keys, since),
           NEW used, Forgets(keys, since, used), NEW k \in LimitKeys,
           NEW p \in DOMAIN keys, keys[p] = k
    PROVE  /\ Cache(Append(RemoveAt(keys, p), k), Others(since, k))
           /\ Forgets(Append(RemoveAt(keys, p), k), Others(since, k), used \cup {k})
<1> DEFINE after == Append(RemoveAt(keys, p), k)
           n == Len(keys) - 1
           places == [i \in 1 .. n |-> IF i < p THEN i ELSE i + 1]
<1>1. /\ keys \in Seq(LimitKeys) /\ Len(keys) \in Nat /\ DOMAIN keys = 1 .. Len(keys)
      /\ Len(keys) <= CacheSize /\ CacheSize \in Nat \ {0}
  BY SequenceDomain DEF Cache, LimitsAssumption
<1>p. p \in Nat /\ 1 <= p /\ p <= Len(keys) BY <1>1
<1>2. n \in Nat /\ n < CacheSize BY <1>1, <1>p
<1>3. /\ RemoveAt(keys, p) \in Seq(LimitKeys) /\ Len(RemoveAt(keys, p)) = n
      /\ \A i \in 1 .. n : RemoveAt(keys, p)[i] = keys[places[i]]
  <2>1. p \in 1 .. Len(keys) BY <1>1
  <2> QED BY <2>1, <1>1, RemoveShape
<1>4. /\ after \in Seq(LimitKeys) /\ Len(after) = n + 1 /\ after[n + 1] = k
      /\ \A i \in 1 .. n : after[i] = keys[places[i]]
  BY <1>3, <1>2, AppendProperties
<1>5. places \in Seq(DOMAIN keys) /\ Len(places) = n /\ DOMAIN places = 1 .. n
  <2>1. \A i \in 1 .. n : places[i] \in DOMAIN keys BY <1>1, <1>p
  <2> HIDE DEF n
  <2> QED BY <2>1, <1>2, IsASeq
<1>6. \A i, j \in 1 .. n : i < j => places[i] < places[j] BY <1>2, <1>p
<1>7. \A i \in 1 .. n : keys[places[i]] # k
  <2> TAKE i \in 1 .. n
  <2>1. places[i] \in DOMAIN keys /\ places[i] # p BY <1>1, <1>p
  <2> QED BY <2>1 DEF Cache
<1>places. \A i \in 1 .. n : places[i] = IF i < p THEN i ELSE i + 1 OBVIOUS
<1>n. n = Len(keys) - 1 OBVIOUS
<1> HIDE DEF after, places, n
<1>8. UsedLast(keys, k, places, after) BY <1>4, <1>5, <1>6, <1>7 DEF UsedLast
<1>9. Cache(after, Others(since, k)) BY <1>8, <1>4, <1>2, <1>1, UsedCache
<1>dom. DOMAIN after = 1 .. n + 1 BY <1>4, SequenceDomain
<1>10. ASSUME NEW j \in LimitKeys, j \in ToSet(keys) PROVE j \in ToSet(after)
  <2>1. PICK x \in 1 .. Len(keys) : keys[x] = j BY <1>1, <1>10 DEF ToSet
  <2>2. CASE x = p BY <2>2, <2>1, <1>4, <1>dom, <1>2 DEF ToSet
  <2>3. CASE x < p
    <3>1. x \in 1 .. n /\ places[x] = x BY <2>3, <1>p, <1>n, <1>1, <1>places
    <3>2. x \in DOMAIN after /\ after[x] = j BY <3>1, <2>1, <1>4, <1>dom, <1>2
    <3> QED BY <3>2 DEF ToSet
  <2>4. CASE x > p
    <3>1. x - 1 \in 1 .. n /\ ~(x - 1 < p) BY <2>4, <1>p, <1>n, <1>1
    <3>2. places[x - 1] = x BY <3>1, <1>places
    <3>3. x - 1 \in DOMAIN after /\ after[x - 1] = j BY <3>1, <3>2, <2>1, <1>4, <1>dom, <1>2
    <3> QED BY <3>3 DEF ToSet
  <2> QED BY <2>2, <2>3, <2>4, <1>p
<1>11. k \in ToSet(after) BY <1>10, <1>1 DEF ToSet
<1> QED BY <1>9, <1>10, <1>11, StaysForgotten DEF after

\* The keys of a cache of records.
KeysOf(s) == [i \in DOMAIN s |-> s[i].key]
Records == [key : LimitKeys, at : 0 .. MaxClock]

\* The keys follow every operation on the records.
LEMMA KeysOfType ==
    ASSUME NEW s \in Seq(Records)
    PROVE  KeysOf(s) \in Seq(LimitKeys) /\ Len(KeysOf(s)) = Len(s) /\ DOMAIN KeysOf(s) = DOMAIN s
<1>1. Len(s) \in Nat /\ DOMAIN s = 1 .. Len(s) BY SequenceDomain
<1>2. \A i \in 1 .. Len(s) : s[i].key \in LimitKeys
  <2> TAKE i \in 1 .. Len(s)
  <2>1. s[i] \in Records BY <1>1, ElementOfSeq
  <2> QED BY <2>1 DEF Records
<1> QED BY <1>1, <1>2, IsASeq DEF KeysOf

\* A record is appended to the cache.
LEMMA KeysOfAppend ==
    ASSUME NEW s \in Seq(Records), NEW r \in Records
    PROVE  KeysOf(Append(s, r)) = Append(KeysOf(s), r.key)
<1> DEFINE t == Append(s, r)
           u == Append(KeysOf(s), r.key)
<1>0. r.key \in LimitKeys BY DEF Records
<1>1. Len(s) \in Nat /\ DOMAIN s = 1 .. Len(s) BY SequenceDomain
<1>2. /\ t \in Seq(Records) /\ Len(t) = Len(s) + 1 /\ t[Len(s) + 1] = r
      /\ \A i \in 1 .. Len(s) : t[i] = s[i]
  BY AppendProperties
<1>3. /\ u \in Seq(LimitKeys) /\ Len(u) = Len(s) + 1 /\ u[Len(s) + 1] = r.key
      /\ \A i \in 1 .. Len(s) : u[i] = KeysOf(s)[i]
  BY <1>0, KeysOfType, AppendProperties
<1> HIDE DEF t, u
<1>4. KeysOf(t) \in Seq(LimitKeys) /\ Len(KeysOf(t)) = Len(s) + 1 BY <1>2, KeysOfType
<1>5. ASSUME NEW i \in 1 .. Len(s) + 1 PROVE KeysOf(t)[i] = u[i]
  <2>1. KeysOf(t)[i] = t[i].key BY <1>2, SequenceDomain DEF KeysOf
  <2>2. CASE i = Len(s) + 1 BY <2>1, <2>2, <1>2, <1>3
  <2>3. CASE i \in 1 .. Len(s)
    <3>1. KeysOf(s)[i] = s[i].key BY <2>3, <1>1 DEF KeysOf
    <3> QED BY <3>1, <2>1, <2>3, <1>2, <1>3
  <2> QED BY <2>2, <2>3, <1>1
<1> QED BY <1>3, <1>4, <1>5, SeqEqual DEF t, u

\* A record is deleted from the cache.
LEMMA KeysOfRemove ==
    ASSUME NEW s \in Seq(Records), NEW p \in 1 .. Len(s)
    PROVE  KeysOf(RemoveAt(s, p)) = RemoveAt(KeysOf(s), p)
<1> DEFINE t == RemoveAt(s, p)
           k == KeysOf(s)
           u == RemoveAt(k, p)
<1>1. Len(s) \in Nat /\ DOMAIN s = 1 .. Len(s) BY SequenceDomain
<1>2. k \in Seq(LimitKeys) /\ Len(k) = Len(s) BY KeysOfType
<1>3. /\ t \in Seq(Records) /\ Len(t) = Len(s) - 1
      /\ \A i \in 1 .. Len(s) - 1 : t[i] = s[IF i < p THEN i ELSE i + 1]
  BY RemoveShape
<1>4. /\ u \in Seq(LimitKeys) /\ Len(u) = Len(s) - 1
      /\ \A i \in 1 .. Len(s) - 1 : u[i] = k[IF i < p THEN i ELSE i + 1]
  <2> HIDE DEF k
  <2> QED BY <1>2, RemoveShape
<1>5. KeysOf(t) \in Seq(LimitKeys) /\ Len(KeysOf(t)) = Len(s) - 1 BY <1>3, KeysOfType
<1>6. ASSUME NEW i \in 1 .. Len(s) - 1 PROVE KeysOf(t)[i] = u[i]
  <2> DEFINE j == IF i < p THEN i ELSE i + 1
  <2>1. KeysOf(t)[i] = t[i].key BY <1>3, SequenceDomain DEF KeysOf
  <2>2. j \in 1 .. Len(s) BY <1>1
  <2>3. k[j] = s[j].key BY <2>2, <1>1 DEF KeysOf
  <2> QED BY <2>1, <2>3, <1>3, <1>4
<1> HIDE DEF t, u, k
<1> QED BY <1>4, <1>5, <1>6, SeqEqual DEF t, u, k

\* The oldest record leaves a full cache.
LEMMA KeysOfRoom ==
    ASSUME LimitsAssumption, NEW s \in Seq(Records)
    PROVE  KeysOf(Room(s)) = Room(KeysOf(s)) /\ Room(s) \in Seq(Records)
<1>1. Len(s) \in Nat /\ DOMAIN s = 1 .. Len(s) BY SequenceDomain
<1>2. KeysOf(s) \in Seq(LimitKeys) /\ Len(KeysOf(s)) = Len(s) BY KeysOfType
<1>3. CASE Len(s) >= CacheSize
  <2>1. s # <<>> /\ KeysOf(s) # <<>> /\ 1 \in 1 .. Len(s)
    BY <1>1, <1>2, <1>3, EmptySeq DEF LimitsAssumption
  <2>2. Tail(s) = RemoveAt(s, 1)
    <3>1. /\ Tail(s) \in Seq(Records) /\ Len(Tail(s)) = Len(s) - 1
          /\ \A i \in 1 .. Len(Tail(s)) : Tail(s)[i] = s[i + 1] BY <2>1, HeadTailProperties
    <3>2. /\ RemoveAt(s, 1) \in Seq(Records) /\ Len(RemoveAt(s, 1)) = Len(s) - 1
          /\ \A i \in 1 .. Len(s) - 1 : RemoveAt(s, 1)[i] = s[IF i < 1 THEN i ELSE i + 1]
      BY <2>1, RemoveShape
    <3>3. \A i \in 1 .. Len(s) - 1 : RemoveAt(s, 1)[i] = Tail(s)[i] BY <3>1, <3>2, <1>1
    <3> QED BY <3>1, <3>2, <3>3, SeqEqual
  <2>3. Tail(KeysOf(s)) = RemoveAt(KeysOf(s), 1)
    <3> DEFINE k == KeysOf(s)
    <3>0. k \in Seq(LimitKeys) /\ Len(k) = Len(s) /\ k # <<>> BY <1>2, <2>1
    <3> HIDE DEF k
    <3>1. /\ Tail(k) \in Seq(LimitKeys) /\ Len(Tail(k)) = Len(s) - 1
          /\ \A i \in 1 .. Len(Tail(k)) : Tail(k)[i] = k[i + 1] BY <3>0, HeadTailProperties
    <3>2. /\ RemoveAt(k, 1) \in Seq(LimitKeys) /\ Len(RemoveAt(k, 1)) = Len(s) - 1
          /\ \A i \in 1 .. Len(s) - 1 : RemoveAt(k, 1)[i] = k[IF i < 1 THEN i ELSE i + 1]
      BY <3>0, <2>1, RemoveShape
    <3>3. \A i \in 1 .. Len(s) - 1 : RemoveAt(k, 1)[i] = Tail(k)[i] BY <3>1, <3>2, <1>1
    <3>4. RemoveAt(k, 1) = Tail(k) BY <3>1, <3>2, <3>3, SeqEqual
    <3> QED BY <3>4 DEF k
  <2>4. Tail(s) \in Seq(Records) BY <2>1, HeadTailProperties
  <2>5. KeysOf(RemoveAt(s, 1)) = RemoveAt(KeysOf(s), 1) BY <2>1, KeysOfRemove
  <2>6. Room(s) = Tail(s) /\ Room(KeysOf(s)) = Tail(KeysOf(s)) BY <1>2, <1>3 DEF Room
  <2> QED BY <2>2, <2>3, <2>4, <2>5, <2>6
<1>4. CASE ~(Len(s) >= CacheSize) BY <1>4, <1>2 DEF Room
<1> QED BY <1>3, <1>4

-----------------------------------------------------------------------------
\* What both caches remember, and that a key throttle() remembers was last logged at
\* the time it is filed with.
LimitsInv ==
    /\ onceLogged \in [LimitKeys -> Nat] /\ loggedAt \in [LimitKeys -> 0 .. Never]
    /\ clock \in 0 .. MaxClock
    /\ Cache(onceKeys, onceSince)
    /\ Forgets(onceKeys, onceSince, {k \in LimitKeys : onceLogged[k] > 0})
    /\ rateLimits \in Seq(Records)
    /\ Cache(KeysOf(rateLimits), usedSince)
    /\ Forgets(KeysOf(rateLimits), usedSince, {k \in LimitKeys : loggedAt[k] # Never})
    /\ \A i \in DOMAIN rateLimits : rateLimits[i].at = loggedAt[rateLimits[i].key]

\* At the start both caches are empty.
LEMMA LimitsStart == LimitsAssumption /\ LimitsInit => LimitsInv
<1> SUFFICES ASSUME LimitsAssumption, LimitsInit PROVE LimitsInv OBVIOUS
<1>1. \A S : <<>> \in Seq(S) /\ Len(<<>>) = 0 /\ DOMAIN <<>> = {} BY EmptySeq
<1>2. KeysOf(<<>>) = <<>> BY <1>1 DEF KeysOf
<1>3. ASSUME NEW since, since = [k \in LimitKeys |-> {}] PROVE Cache(<<>>, since)
  <2>1. IsFiniteSet({}) BY FS_EmptySet
  <2>2. 0 <= CacheSize BY DEF LimitsAssumption
  <2> QED BY <1>1, <1>3, <2>1, <2>2 DEF Cache, InOrderOfUse
<1>4. {k \in LimitKeys : onceLogged[k] > 0} = {} /\ {k \in LimitKeys : loggedAt[k] # Never} = {}
  BY DEF LimitsInit
<1>5. \A keys, since : Forgets(keys, since, {}) BY DEF Forgets
<1>6. Never \in 0 .. Never /\ 0 \in 0 .. MaxClock BY DEF Never, LimitsAssumption
<1> QED BY <1>1, <1>2, <1>3, <1>4, <1>5, <1>6 DEF LimitsInv, LimitsInit

\* once(): the key is refreshed, or it is new and logged.
LEMMA OnceKeeps ==
    ASSUME LimitsAssumption, LimitsInv, NEW k \in LimitKeys, Once(k)
    PROVE  LimitsInv'
<1> USE DEF LimitsInv, Once
<1>1. CASE k \in ToSet(onceKeys)
  <2>1. UNCHANGED <<onceKeys, onceLogged, onceSince, rateLimits, clock, loggedAt, usedSince>> BY <1>1
  <2> QED BY <2>1
<1>2. CASE k \notin ToSet(onceKeys)
  <2> DEFINE used == {j \in LimitKeys : onceLogged[j] > 0}
  <2>1. used \cup {k} = {j \in LimitKeys : onceLogged'[j] > 0} /\ onceLogged' \in [LimitKeys -> Nat]
    BY <1>2
  <2> HIDE DEF used
  <2>2. Forgets(onceKeys, onceSince, used) BY DEF used
  <2>3. /\ Cache(Append(Room(onceKeys), k), Others(onceSince, k))
        /\ Forgets(Append(Room(onceKeys), k), Others(onceSince, k), used \cup {k})
    BY <1>2, <2>2, UseNew
  <2>4. Cache(onceKeys', onceSince') /\ Forgets(onceKeys', onceSince', used \cup {k})
    BY <1>2, <2>3
  <2> QED BY <1>2, <2>1, <2>4
<1> QED BY <1>1, <1>2

\* throttle(): the key is refreshed with its time, or gets a new one.
LEMMA ThrottleKeeps ==
    ASSUME LimitsAssumption, LimitsInv, NEW k \in LimitKeys, Throttle(k)
    PROVE  LimitsInv'
<1> DEFINE keys == KeysOf(rateLimits)
           used == {j \in LimitKeys : loggedAt[j] # Never}
           early == TooEarly(k)
           r == IF early THEN rateLimits[PlaceOf(k)] ELSE [key |-> k, at |-> clock]
           p == PlaceOf(k)
<1>0. /\ rateLimits \in Seq(Records) /\ Cache(keys, usedSince) /\ Forgets(keys, usedSince, used)
      /\ clock \in 0 .. MaxClock /\ loggedAt \in [LimitKeys -> 0 .. Never]
      /\ \A i \in DOMAIN rateLimits : rateLimits[i].at = loggedAt[rateLimits[i].key]
  BY DEF LimitsInv
<1>1. /\ rateLimits' = Append(Without(k), r)
      /\ loggedAt' = IF early THEN loggedAt ELSE [loggedAt EXCEPT ![k] = clock]
      /\ usedSince' = Others(usedSince, k)
  BY DEF Throttle
<1>2. DOMAIN keys = DOMAIN rateLimits /\ \A i \in DOMAIN rateLimits : keys[i] = rateLimits[i].key
  BY DEF KeysOf
<1>3. Len(rateLimits) \in Nat /\ DOMAIN rateLimits = 1 .. Len(rateLimits) BY <1>0, SequenceDomain
<1>4. Cached(k) => p \in DOMAIN rateLimits /\ rateLimits[p].key = k BY DEF Cached, PlaceOf
<1>5. Cached(k) <=> k \in ToSet(keys) BY <1>2 DEF Cached, ToSet
<1>6. early => Cached(k) BY DEF TooEarly
<1>7. r \in Records /\ r.key = k /\ r.at = loggedAt'[k]
  <2>1. CASE early
    <3>1. p \in DOMAIN rateLimits /\ rateLimits[p].key = k BY <2>1, <1>4, <1>6
    <3>2. rateLimits[p] \in Records BY <3>1, <1>3, <1>0, ElementOfSeq
    <3> QED BY <3>1, <3>2, <2>1, <1>0, <1>1
  <2>2. CASE ~early BY <2>2, <1>0, <1>1 DEF Records
  <2> QED BY <2>1, <2>2
<1>8. loggedAt' \in [LimitKeys -> 0 .. Never] /\ used \cup {k} = {j \in LimitKeys : loggedAt'[j] # Never}
  <2>1. CASE early
    <3>1. p \in DOMAIN rateLimits /\ rateLimits[p].key = k BY <2>1, <1>4, <1>6
    <3>2. rateLimits[p] \in Records BY <3>1, <1>3, <1>0, ElementOfSeq
    <3>3. loggedAt[k] \in 0 .. MaxClock BY <3>1, <3>2, <1>0 DEF Records
    <3>4. loggedAt[k] # Never BY <3>3 DEF Never, LimitsAssumption
    <3> QED BY <3>4, <2>1, <1>0, <1>1
  <2>2. CASE ~early
    <3>1. clock # Never /\ clock \in 0 .. Never BY <1>0 DEF Never, LimitsAssumption
    <3> QED BY <3>1, <2>2, <1>0, <1>1
  <2> QED BY <2>1, <2>2
<1> DEFINE rest == Without(k)
<1> HIDE DEF keys, used, r, p, early
<1>9. /\ rest \in Seq(Records)
      /\ \A i \in 1 .. Len(rest) : \E x \in DOMAIN rateLimits : rest[i] = rateLimits[x]
      /\ Cache(KeysOf(rateLimits'), usedSince')
      /\ Forgets(KeysOf(rateLimits'), usedSince', used \cup {k})
  <2>1. CASE Cached(k)
    <3>1. p \in DOMAIN keys /\ keys[p] = k /\ p \in 1 .. Len(rateLimits)
      BY <2>1, <1>4, <1>2, <1>3
    <3>2. rest = RemoveAt(rateLimits, p) BY <2>1 DEF Without, p
    <3>3. /\ rest \in Seq(Records) /\ KeysOf(rest) = RemoveAt(keys, p)
          /\ Len(rest) = Len(rateLimits) - 1
          /\ \A i \in 1 .. Len(rateLimits) - 1 :
               rest[i] = rateLimits[IF i < p THEN i ELSE i + 1]
      BY <3>1, <3>2, <1>0, RemoveShape, KeysOfRemove, SMTT(20) DEF keys
    <3>4. KeysOf(rateLimits') = Append(RemoveAt(keys, p), k)
      BY <3>3, <1>1, <1>7, KeysOfAppend
    <3>5. /\ Cache(Append(RemoveAt(keys, p), k), Others(usedSince, k))
          /\ Forgets(Append(RemoveAt(keys, p), k), Others(usedSince, k), used \cup {k})
      BY <3>1, <1>0, UseAgain
    <3>6. ASSUME NEW i \in 1 .. Len(rest) PROVE \E x \in DOMAIN rateLimits : rest[i] = rateLimits[x]
      <4>1. (IF i < p THEN i ELSE i + 1) \in DOMAIN rateLimits BY <3>1, <3>3, <1>3
      <4> QED BY <4>1, <3>3
    <3> QED BY <3>3, <3>4, <3>5, <3>6, <1>1
  <2>2. CASE ~Cached(k)
    <3>1. rest = Room(rateLimits) BY <2>2 DEF Without
    <3>2. rest \in Seq(Records) /\ KeysOf(rest) = Room(keys) BY <3>1, <1>0, KeysOfRoom DEF keys
    <3>3. KeysOf(rateLimits') = Append(Room(keys), k) BY <3>2, <1>1, <1>7, KeysOfAppend
    <3>4. /\ Cache(Append(Room(keys), k), Others(usedSince, k))
          /\ Forgets(Append(Room(keys), k), Others(usedSince, k), used \cup {k})
      BY <2>2, <1>5, <1>0, UseNew
    <3>5. ASSUME NEW i \in 1 .. Len(rest) PROVE \E x \in DOMAIN rateLimits : rest[i] = rateLimits[x]
      <4>1. CASE rest = rateLimits BY <4>1, <3>5, <1>3
      <4>2. CASE rest = Tail(rateLimits) /\ Len(rateLimits) >= CacheSize
        <5>1. rateLimits # <<>> BY <4>2, <1>3, <1>0, EmptySeq DEF LimitsAssumption
        <5>2. Len(rest) = Len(rateLimits) - 1 /\ rest[i] = rateLimits[i + 1]
          BY <5>1, <4>2, <3>5, <1>0, HeadTailProperties
        <5>3. i + 1 \in DOMAIN rateLimits BY <5>2, <3>5, <1>3
        <5> QED BY <5>2, <5>3
      <4> QED BY <4>1, <4>2, <3>1 DEF Room
    <3> QED BY <3>2, <3>3, <3>4, <3>5, <1>1
  <2> QED BY <2>1, <2>2
<1> HIDE DEF rest
<1>10. /\ rateLimits' \in Seq(Records) /\ Len(rateLimits') = Len(rest) + 1
       /\ rateLimits'[Len(rest) + 1] = r /\ \A i \in 1 .. Len(rest) : rateLimits'[i] = rest[i]
  BY <1>9, <1>1, <1>7, AppendProperties DEF rest
<1>11. DOMAIN rateLimits' = 1 .. Len(rest) + 1 /\ Len(rest) \in Nat BY <1>10, <1>9, SequenceDomain
<1>12. ASSUME NEW i \in DOMAIN rateLimits' PROVE rateLimits'[i].at = loggedAt'[rateLimits'[i].key]
  <2>1. CASE i = Len(rest) + 1 BY <2>1, <1>10, <1>7
  <2>2. CASE i \in 1 .. Len(rest)
    <3>1. PICK x \in DOMAIN rateLimits : rateLimits'[i] = rateLimits[x] BY <2>2, <1>9, <1>10
    <3>2. rateLimits'[i].at = loggedAt[rateLimits'[i].key] BY <3>1, <1>0
    <3>3. rateLimits'[i].key # k
      <4> DEFINE after == KeysOf(rateLimits')
      <4>1. after[i] = rateLimits'[i].key /\ after[Len(rest) + 1] = k
        BY <1>10, <1>11, <1>7, <2>2 DEF KeysOf
      <4>2. i \in DOMAIN after /\ Len(rest) + 1 \in DOMAIN after /\ i # Len(rest) + 1
        BY <1>11, <2>2 DEF KeysOf
      <4>3. Cache(after, usedSince') BY <1>9
      <4> HIDE DEF after
      <4> QED BY <4>1, <4>2, <4>3 DEF Cache
    <3>4. rateLimits'[i] \in Records BY <1>10, <1>11, ElementOfSeq
    <3>5. rateLimits'[i].key \in LimitKeys BY <3>4 DEF Records
    <3>6. loggedAt'[rateLimits'[i].key] = loggedAt[rateLimits'[i].key]
      BY <3>3, <3>5, <1>0, <1>1
    <3> QED BY <3>2, <3>6
  <2> QED BY <2>1, <2>2, <1>11
<1>13. UNCHANGED <<onceKeys, onceSince, onceLogged, clock>> BY DEF Throttle
<1> QED BY <1>8, <1>9, <1>10, <1>12, <1>13 DEF LimitsInv

\* Every step keeps the caches consistent with what was used.
LEMMA LimitsStep == ASSUME LimitsAssumption, LimitsInv, [LimitsNext]_limitVars PROVE LimitsInv'
<1>1. ASSUME NEW k \in LimitKeys, Once(k) PROVE LimitsInv' BY <1>1, OnceKeeps
<1>2. ASSUME NEW k \in LimitKeys, Throttle(k) PROVE LimitsInv' BY <1>2, ThrottleKeeps
<1>3. ASSUME NEW t \in 0 .. MaxClock, SetClock(t) PROVE LimitsInv' BY <1>3 DEF SetClock, LimitsInv
<1>4. CASE UNCHANGED limitVars BY <1>4 DEF LimitsInv
<1> QED BY <1>1, <1>2, <1>3, <1>4 DEF LimitsNext

\* The caches hold every key once and no more keys than they may.
LEMMA LimitsTypes == ASSUME LimitsAssumption, LimitsInv PROVE LimitsTypeOK
<1> DEFINE keys == KeysOf(rateLimits)
<1>1. /\ DOMAIN keys = DOMAIN rateLimits /\ Len(keys) = Len(rateLimits)
      /\ \A i \in DOMAIN rateLimits : keys[i] = rateLimits[i].key
  BY KeysOfType DEF KeysOf, LimitsInv
<1>2. Cache(keys, usedSince) /\ Cache(onceKeys, onceSince) BY DEF LimitsInv
<1> HIDE DEF keys
<1> QED BY <1>1, <1>2 DEF Cache, LimitsTypeOK, IsInjective

\* once() logs a key again only when it was forgotten.
LEMMA OnceAgain ==
    ASSUME LimitsAssumption, LimitsInv, [LimitsNext]_limitVars, NEW k \in LimitKeys,
           onceLogged'[k] > onceLogged[k], onceLogged[k] > 0
    PROVE  Cardinality(onceSince[k]) >= CacheSize
<1>1. onceLogged \in [LimitKeys -> Nat] BY DEF LimitsInv
<1>2. onceLogged' # onceLogged BY <1>1
<1>3. PICK j \in LimitKeys : Once(j) BY <1>2 DEF LimitsNext, Throttle, SetClock
<1>4. j \notin ToSet(onceKeys) /\ onceLogged' = [onceLogged EXCEPT ![j] = @ + 1]
  BY <1>2, <1>3 DEF Once
<1>5. j = k BY <1>4, <1>1
<1>6. k \in {i \in LimitKeys : onceLogged[i] > 0} OBVIOUS
<1> QED BY <1>4, <1>5, <1>6 DEF LimitsInv, Forgets

\* throttle() logs a key again after ThrottleMs, or when it was forgotten.
LEMMA ThrottleAgain ==
    ASSUME LimitsAssumption, LimitsInv, [LimitsNext]_limitVars, NEW k \in LimitKeys,
           loggedAt'[k] # loggedAt[k], loggedAt[k] # Never
    PROVE  loggedAt'[k] >= loggedAt[k] + ThrottleMs \/ Cardinality(usedSince[k]) >= CacheSize
<1>1. loggedAt \in [LimitKeys -> 0 .. Never] /\ clock \in 0 .. MaxClock BY DEF LimitsInv
<1>2. loggedAt' # loggedAt OBVIOUS
<1>3. PICK j \in LimitKeys : Throttle(j) BY <1>2 DEF LimitsNext, Once, SetClock
<1>4. ~TooEarly(j) /\ loggedAt' = [loggedAt EXCEPT ![j] = clock]
  BY <1>2, <1>3 DEF Throttle
<1>5. j = k /\ loggedAt'[k] = clock BY <1>4, <1>1
<1>6. CASE Cached(k)
  <2> DEFINE p == PlaceOf(k)
  <2>1. p \in DOMAIN rateLimits /\ rateLimits[p].key = k BY <1>6 DEF Cached, PlaceOf
  <2>2. rateLimits[p].at = loggedAt[k] BY <2>1 DEF LimitsInv
  <2>3. ~(clock < loggedAt[k] + ThrottleMs) BY <2>2, <1>4, <1>5, <1>6 DEF TooEarly
  <2>4. loggedAt[k] \in Nat /\ clock \in Nat /\ ThrottleMs \in Nat
    <3>1. Never \in Nat BY DEF Never, LimitsAssumption
    <3> QED BY <3>1, <1>1 DEF LimitsAssumption
  <2> HIDE DEF p
  <2> QED BY <2>3, <2>4, <1>5
<1>7. CASE ~Cached(k)
  <2>1. k \notin ToSet(KeysOf(rateLimits)) BY <1>7 DEF Cached, ToSet, KeysOf
  <2>2. k \in {i \in LimitKeys : loggedAt[i] # Never} OBVIOUS
  <2> QED BY <2>1, <2>2 DEF LimitsInv, Forgets
<1> QED BY <1>6, <1>7

\* Whatever the size of the caches, the clock and the calls: a key is logged again
\* only when its time has come or the cache could not remember it.
THEOREM LimitsKeptCorrect == LimitsSpec => LimitsKept
<1>1. LimitsInit => LimitsInv BY LimitsStart, LimitsAssumption
<1>2. LimitsInv /\ [LimitsNext]_limitVars => LimitsInv' BY LimitsStep, LimitsAssumption
<1>3. LimitsSpec => []LimitsInv BY <1>1, <1>2, PTL DEF LimitsSpec
<1>4. LimitsInv => LimitsTypeOK BY LimitsTypes, LimitsAssumption
<1>5. LimitsInv /\ [LimitsNext]_limitVars =>
        [\A k \in LimitKeys : onceLogged'[k] > onceLogged[k] /\ onceLogged[k] > 0 =>
           Cardinality(onceSince[k]) >= CacheSize]_limitVars
  BY OnceAgain, LimitsAssumption
<1>6. LimitsInv /\ [LimitsNext]_limitVars =>
        [\A k \in LimitKeys : loggedAt'[k] # loggedAt[k] /\ loggedAt[k] # Never =>
           \/ loggedAt'[k] >= loggedAt[k] + ThrottleMs
           \/ Cardinality(usedSince[k]) >= CacheSize]_limitVars
  BY ThrottleAgain, LimitsAssumption
<1> QED BY <1>3, <1>4, <1>5, <1>6, PTL DEF LimitsSpec, LimitsKept, OnceUnlessEvicted, ThrottleSpacing

-----------------------------------------------------------------------------
(* The fan-out of a call to the transports side by side.                   *)

FanEntry == [id : Nat, level : FileLevels]
FanCall == [op : {"write", "flush", "close"}, batch : Seq(FanEntry), upTo : Nat,
            open : SUBSET (Siblings \ {"console"}), result : {"pending", "resolved", "rejected"}]

FanTypes ==
    /\ file \in {"off", "one", "split"} /\ database \in BOOLEAN
    /\ fanCalls \in Seq(FanCall) /\ ensured \in Seq(Nat)
    /\ DOMAIN held = AllSiblings /\ DOMAIN shut = AllSiblings
    /\ loadState \in {"null", "loading", "loaded", "failed"} /\ loads \in 0 .. 1
    /\ (loadState = "null" => loads = 0) /\ (loadState # "null" => loads = 1 /\ database)

\* The entries of a call are numbered behind those of the calls before it.
NumberedCalls(calls) ==
    /\ calls # <<>> => calls[Len(calls)].upTo + Len(calls[Len(calls)].batch) <= MaxFanEntries
    /\ \A n \in DOMAIN calls : /\ \A i \in DOMAIN calls[n].batch : calls[n].batch[i].id = calls[n].upTo + i
                               /\ calls[n].op # "write" => calls[n].batch = <<>>
    /\ \A m, n \in DOMAIN calls : m < n => calls[m].upTo + Len(calls[m].batch) <= calls[n].upTo

\* Behind a call that waits for the load all later ones wait too.
EnsureQueue ==
    /\ \A i, j \in DOMAIN ensured : i < j => ensured[i] < ensured[j]
    /\ ensured # <<>> => database
    /\ \A n \in ToSet(ensured) :
         /\ n \in DOMAIN fanCalls /\ fanCalls[n].op # "flush"
         /\ \A m \in DOMAIN fanCalls : m > n /\ fanCalls[m].op # "flush" => m \in ToSet(ensured)
    /\ database /\ loadState \in {"null", "loading"} =>
         \A n \in DOMAIN fanCalls : fanCalls[n].op # "flush" => n \in ToSet(ensured)

\* No call resolves while it waits for the load, or when that failed.
Answers ==
    \A n \in DOMAIN fanCalls :
        /\ n \in ToSet(ensured) =>
             \/ fanCalls[n].result = "rejected"
             \/ fanCalls[n].result = "pending" /\ "database" \in fanCalls[n].open
        /\ database /\ loadState = "failed" /\ fanCalls[n].op # "flush" /\ n \notin ToSet(ensured) =>
             fanCalls[n].result = "rejected"

\* The calls a child has been given.
GivenTo(c) ==
    {n \in DOMAIN fanCalls :
       /\ c \in Siblings /\ fanCalls[n].op # "flush"
       /\ c = "database" => loadState = "loaded" /\ n \notin ToSet(ensured)}

Ascending(s) == \A i, j \in DOMAIN s : i < j => s[i].id < s[j].id

\* A child that was given these calls holds their entries that are for it, in order,
\* and was closed by the first close() among them, behind all entries before that.
ChildOK(c, calls, taken, h, s) ==
    /\ h \in Seq(FanEntry) /\ Ascending(h) /\ s \in 0 .. Open
    /\ \A e \in FanEntry : e \in ToSet(h) <=> Passes(c, e) /\ \E n \in taken : e \in ToSet(calls[n].batch)
    /\ s # Open => \E n \in taken : calls[n].op = "close"
    /\ \A n \in taken : calls[n].op = "close" =>
         /\ s # Open
         /\ (\A m \in 1 .. n - 1 : calls[m].op # "close") =>
              \A e \in ToSet(h) : e.id <= calls[n].upTo => \E i \in 1 .. s : i <= Len(h) /\ h[i] = e

FanInv ==
    /\ FanTypes /\ NumberedCalls(fanCalls) /\ EnsureQueue /\ Answers
    /\ \A c \in AllSiblings : ChildOK(c, fanCalls, GivenTo(c), held[c], shut[c])

-----------------------------------------------------------------------------
\* What a child that takes only some entries is given: those, in their order.
LEMMA PartShape ==
    ASSUME NEW c, NEW batch \in Seq(FanEntry)
    PROVE  /\ Part(c, batch) \in Seq(FanEntry)
           /\ \A e : e \in ToSet(Part(c, batch)) <=> e \in ToSet(batch) /\ Passes(c, e)
           /\ Ascending(batch) => Ascending(Part(c, batch))
<1> DEFINE S == {e \in ToSet(batch) : Passes(c, e)}
           r == Among(batch, S)
<1>1. Part(c, batch) = r
  BY DEF Part
<1>2. r \in Seq(FanEntry) /\ \A e : e \in ToSet(r) <=> e \in ToSet(batch) /\ Passes(c, e)
  BY AmongElements
<1> HIDE DEF S
<1>3. PICK p \in [1 .. Len(r) -> 1 .. Len(batch)] :
        /\ \A i, j \in 1 .. Len(r) : i < j => p[i] < p[j]
        /\ \A i \in 1 .. Len(r) : r[i] = batch[p[i]]
  BY AmongPlaces
<1>4. DOMAIN batch = 1 .. Len(batch) /\ DOMAIN r = 1 .. Len(r)
  BY <1>2, LenProperties
<1> HIDE DEF r
<1>5. Ascending(batch) => Ascending(r)
  BY <1>3, <1>4 DEF Ascending
<1> QED  BY <1>1, <1>2, <1>5

\* Numbers that ascend from 1 on are as many as the largest at most.
LEMMA AscendingBound ==
    ASSUME NEW h \in Seq(FanEntry), Ascending(h), NEW b \in Nat,
           \A e \in ToSet(h) : e.id \in 1 .. b
    PROVE  Len(h) <= b
<1>0. Len(h) \in Nat /\ DOMAIN h = 1 .. Len(h) BY LenProperties
<1>1. \A i \in 1 .. Len(h) : h[i].id \in 1 .. b BY <1>0 DEF ToSet
<1> DEFINE R == {i \in Nat : i <= Len(h) => i = 0 \/ i <= h[i].id}
<1>2. 0 \in R OBVIOUS
<1>3. ASSUME NEW i \in Nat, i \in R PROVE i + 1 \in R
  <2> SUFFICES ASSUME i + 1 <= Len(h) PROVE i + 1 <= h[i + 1].id OBVIOUS
  <2>1. i + 1 \in DOMAIN h /\ h[i + 1].id \in 1 .. b BY <1>0, <1>1
  <2>2. CASE i = 0 BY <2>1, <2>2
  <2>3. CASE i # 0
    <3>1. i \in DOMAIN h /\ i < i + 1 BY <2>3, <1>0
    <3>2. h[i].id < h[i + 1].id BY <3>1, <2>1 DEF Ascending
    <3>3. h[i].id \in Nat /\ h[i + 1].id \in Nat BY <3>1, <2>1, <1>0, <1>1
    <3>4. i <= h[i].id BY <1>3, <2>3, <1>0
    <3> QED BY <3>2, <3>3, <3>4
  <2> QED BY <2>2, <2>3
<1>4. Len(h) \in R
  <2> HIDE DEF R
  <2> QED BY <1>2, <1>3, <1>0, SetInduction
<1>5. CASE Len(h) = 0 BY <1>5
<1>6. CASE Len(h) # 0
  <2>1. h[Len(h)].id \in 1 .. b /\ Len(h) <= h[Len(h)].id BY <1>0, <1>1, <1>4, <1>6
  <2> QED BY <2>1, <1>0
<1> QED BY <1>5, <1>6

\* The bookkeeping of two lists of calls is the same for these.
SameCalls(a, b, taken) ==
    \A n \in taken : a[n].op = b[n].op /\ a[n].batch = b[n].batch /\ a[n].upTo = b[n].upTo

\* What a child holds does not depend on what the calls wait for.
LEMMA ChildKept ==
    ASSUME NEW c, NEW a, NEW b, NEW taken \in SUBSET DOMAIN a, DOMAIN a \subseteq DOMAIN b,
           DOMAIN a = 1 .. Len(a), Len(a) \in Nat,
           SameCalls(a, b, DOMAIN a), NEW h, NEW s, ChildOK(c, a, taken, h, s)
    PROVE  ChildOK(c, b, taken, h, s)
<1>1. \A n \in taken : a[n].op = b[n].op /\ a[n].batch = b[n].batch /\ a[n].upTo = b[n].upTo
  BY DEF SameCalls
<1>2. \A n \in taken : \A m \in 1 .. n - 1 : m \in DOMAIN a /\ a[m].op = b[m].op BY DEF SameCalls
<1>3. \A n \in taken : (\A m \in 1 .. n - 1 : b[m].op # "close") => (\A m \in 1 .. n - 1 : a[m].op # "close")
  BY <1>2
<1> QED BY <1>1, <1>3, Zenon DEF ChildOK

\* What call n gives to child c: the entries of its batch that the child takes.
Piece(c, piece, call) ==
    /\ piece \in Seq(FanEntry) /\ Ascending(piece)
    /\ \A e : e \in ToSet(piece) <=> e \in ToSet(call.batch) /\ Passes(c, e)

TypedCalls(calls) == calls \in Seq([op : {"write", "flush", "close"}, batch : Seq(FanEntry), upTo : Nat,
                                    open : SUBSET AllSiblings, result : {"pending", "resolved", "rejected"}])

\* The fields of the calls.
LEMMA CallFields ==
    ASSUME NEW calls, TypedCalls(calls)
    PROVE  /\ Len(calls) \in Nat /\ DOMAIN calls = 1 .. Len(calls)
           /\ \A n \in DOMAIN calls :
                /\ calls[n].op \in {"write", "flush", "close"} /\ calls[n].batch \in Seq(FanEntry)
                /\ calls[n].upTo \in Nat /\ Len(calls[n].batch) \in Nat
                /\ DOMAIN calls[n].batch = 1 .. Len(calls[n].batch)
<1>1. Len(calls) \in Nat /\ DOMAIN calls = 1 .. Len(calls) BY LenProperties DEF TypedCalls
<1>2. \A n \in DOMAIN calls : calls[n] \in
         [op : {"write", "flush", "close"}, batch : Seq(FanEntry), upTo : Nat,
          open : SUBSET AllSiblings, result : {"pending", "resolved", "rejected"}]
  BY <1>1, ElementOfSeq DEF TypedCalls
<1>3. \A s \in Seq(FanEntry) : Len(s) \in Nat /\ DOMAIN s = 1 .. Len(s) BY LenProperties
<1> QED BY <1>1, <1>2, <1>3

\* The numbers of the entries of a call.
LEMMA CallNumbers ==
    ASSUME FanAssumption, NEW calls, TypedCalls(calls), NumberedCalls(calls), NEW n \in DOMAIN calls
    PROVE  /\ \A e \in ToSet(calls[n].batch) :
                e \in FanEntry /\ e.id \in 1 .. MaxFanEntries /\ calls[n].upTo < e.id
                /\ e.id <= calls[n].upTo + Len(calls[n].batch)
           /\ Ascending(calls[n].batch)
<1> DEFINE b == calls[n].batch
           u == calls[n].upTo
           l == Len(b)
           k == Len(calls)
<1>1. /\ k \in Nat /\ DOMAIN calls = 1 .. k /\ u \in Nat /\ l \in Nat /\ DOMAIN b = 1 .. l
      /\ b \in Seq(FanEntry)
  BY CallFields
<1>2. \A i \in 1 .. l : b[i].id = u + i BY <1>1 DEF NumberedCalls
<1>3. u + l <= MaxFanEntries
  <2>1. k \in DOMAIN calls /\ calls # <<>> BY <1>1
  <2>2. calls[k].upTo + Len(calls[k].batch) <= MaxFanEntries BY <2>1 DEF NumberedCalls
  <2>3. CASE n = k BY <2>2, <2>3
  <2>4. CASE n # k
    <3>1. n < k BY <2>4, <1>1
    <3>2. u + l <= calls[k].upTo BY <3>1, <2>1 DEF NumberedCalls
    <3>3. calls[k].upTo \in Nat /\ Len(calls[k].batch) \in Nat BY <2>1, CallFields
    <3> QED BY <3>2, <3>3, <2>2, <1>1, SMTT(20) DEF FanAssumption
  <2> QED BY <2>3, <2>4
<1>4. MaxFanEntries \in Nat BY DEF FanAssumption
<1>5. \A i \in 1 .. l : b[i] \in FanEntry BY <1>1, ElementOfSeq
<1> HIDE DEF b, u, l, k
<1>6. ASSUME NEW e \in ToSet(b)
      PROVE  e \in FanEntry /\ e.id \in 1 .. MaxFanEntries /\ u < e.id /\ e.id <= u + l
  <2>1. PICK i \in 1 .. l : b[i] = e BY <1>1 DEF ToSet
  <2>2. e.id = u + i /\ e \in FanEntry BY <2>1, <1>2, <1>5
  <2> QED BY <2>2, <1>1, <1>3, <1>4
<1>7. Ascending(b)
  <2> SUFFICES ASSUME NEW i \in 1 .. l, NEW j \in 1 .. l, i < j PROVE b[i].id < b[j].id
    BY <1>1 DEF Ascending
  <2> QED BY <1>1, <1>2
<1> QED BY <1>6, <1>7 DEF b, u, l

\* A call behind all that a child was given so far is given to it.
LEMMA HandOver ==
    ASSUME FanAssumption, NEW calls, TypedCalls(calls), NumberedCalls(calls),
           NEW c, NEW taken \in SUBSET DOMAIN calls, NEW h, NEW s, ChildOK(c, calls, taken, h, s),
           NEW n \in DOMAIN calls, \A m \in taken : m < n,
           NEW piece, Piece(c, piece, calls[n])
    PROVE  ChildOK(c, calls, taken \cup {n}, h \o piece,
                   IF calls[n].op = "close" /\ s = Open THEN Len(h \o piece) ELSE s)
<1> DEFINE t == h \o piece
           r == IF calls[n].op = "close" /\ s = Open THEN Len(t) ELSE s
<1>1. /\ h \in Seq(FanEntry) /\ Ascending(h) /\ s \in 0 .. Open
      /\ \A e \in FanEntry : e \in ToSet(h) <=> Passes(c, e) /\ \E m \in taken : e \in ToSet(calls[m].batch)
      /\ s # Open => \E m \in taken : calls[m].op = "close"
      /\ \A m \in taken : calls[m].op = "close" =>
           /\ s # Open
           /\ (\A k \in 1 .. m - 1 : calls[k].op # "close") =>
                \A e \in ToSet(h) : e.id <= calls[m].upTo => \E i \in 1 .. s : i <= Len(h) /\ h[i] = e
  BY DEF ChildOK
<1>2. piece \in Seq(FanEntry) /\ Ascending(piece)
      /\ \A e : e \in ToSet(piece) <=> e \in ToSet(calls[n].batch) /\ Passes(c, e)
  BY DEF Piece
<1>3. /\ Len(h) \in Nat /\ DOMAIN h = 1 .. Len(h) /\ Len(piece) \in Nat /\ DOMAIN piece = 1 .. Len(piece)
      /\ t \in Seq(FanEntry) /\ Len(t) = Len(h) + Len(piece)
      /\ \A i \in 1 .. Len(h) : t[i] = h[i]
      /\ \A i \in 1 .. Len(piece) : t[Len(h) + i] = piece[i]
      /\ DOMAIN t = 1 .. Len(h) + Len(piece)
  <2>1. Len(h) \in Nat /\ DOMAIN h = 1 .. Len(h) /\ Len(piece) \in Nat /\ DOMAIN piece = 1 .. Len(piece)
    BY <1>1, <1>2, LenProperties
  <2>2. /\ t \in Seq(FanEntry) /\ Len(t) = Len(h) + Len(piece)
        /\ \A i \in 1 .. Len(h) + Len(piece) : t[i] = IF i <= Len(h) THEN h[i] ELSE piece[i - Len(h)]
    BY <1>1, <1>2, ConcatProperties
  <2> HIDE DEF t
  <2>3. ASSUME NEW i \in 1 .. Len(piece) PROVE t[Len(h) + i] = piece[i]
    <3>1. Len(h) + i \in 1 .. Len(h) + Len(piece) /\ ~(Len(h) + i <= Len(h)) /\ (Len(h) + i) - Len(h) = i
      BY <2>1
    <3> QED BY <3>1, <2>2
  <2>4. \A i \in 1 .. Len(h) : t[i] = h[i] BY <2>1, <2>2
  <2>5. DOMAIN t = 1 .. Len(t) BY <2>2, LenProperties
  <2> QED BY <2>1, <2>2, <2>3, <2>4, <2>5
<1> HIDE DEF t
<1>4. \A i \in DOMAIN t : i \in 1 .. Len(h) \/ \E k \in 1 .. Len(piece) : i = Len(h) + k
  <2> TAKE i \in DOMAIN t
  <2>1. CASE i \in 1 .. Len(h) BY <2>1
  <2>2. CASE i \notin 1 .. Len(h)
    <3>1. i - Len(h) \in 1 .. Len(piece) /\ i = Len(h) + (i - Len(h)) BY <2>2, <1>3
    <3> QED BY <3>1
  <2> QED BY <2>1, <2>2
<1>5. \A e : e \in ToSet(t) <=> e \in ToSet(h) \/ e \in ToSet(piece)
  <2>1. \A i \in 1 .. Len(h) : i \in DOMAIN t BY <1>3
  <2>2. \A i \in 1 .. Len(piece) : Len(h) + i \in DOMAIN t BY <1>3
  <2>3. ASSUME NEW e \in ToSet(t) PROVE e \in ToSet(h) \/ e \in ToSet(piece)
    <3>1. PICK i \in DOMAIN t : t[i] = e BY DEF ToSet
    <3>2. CASE i \in 1 .. Len(h) BY <3>1, <3>2, <1>3 DEF ToSet
    <3>3. CASE i \notin 1 .. Len(h)
      <4>1. PICK k \in 1 .. Len(piece) : i = Len(h) + k BY <3>3, <1>4
      <4> QED BY <4>1, <3>1, <1>3 DEF ToSet
    <3> QED BY <3>2, <3>3
  <2>4. ASSUME NEW e \in ToSet(h) PROVE e \in ToSet(t) BY <2>1, <1>3 DEF ToSet
  <2>5. ASSUME NEW e \in ToSet(piece) PROVE e \in ToSet(t)
    <3>1. PICK i \in 1 .. Len(piece) : piece[i] = e BY <1>3 DEF ToSet
    <3>2. t[Len(h) + i] = e /\ Len(h) + i \in DOMAIN t BY <3>1, <2>2, <1>3
    <3> QED BY <3>2 DEF ToSet
  <2> QED BY <2>3, <2>4, <2>5
<1>6. \A e \in ToSet(h) : e \in FanEntry /\ e.id \in 1 .. MaxFanEntries /\ e.id <= calls[n].upTo
  <2> TAKE e \in ToSet(h)
  <2>1. e \in FanEntry
    <3>1. PICK i \in 1 .. Len(h) : h[i] = e BY <1>3 DEF ToSet
    <3> QED BY <3>1, <1>1, ElementOfSeq
  <2>2. PICK m \in taken : e \in ToSet(calls[m].batch) BY <2>1, <1>1
  <2>3. e.id \in 1 .. MaxFanEntries /\ e.id <= calls[m].upTo + Len(calls[m].batch)
    BY <2>2, CallNumbers
  <2>4. calls[m].upTo + Len(calls[m].batch) <= calls[n].upTo BY <2>2 DEF NumberedCalls
  <2>5. calls[m].upTo \in Nat /\ Len(calls[m].batch) \in Nat /\ calls[n].upTo \in Nat BY <2>2, CallFields
  <2> QED BY <2>1, <2>3, <2>4, <2>5 DEF FanAssumption
<1>7. \A e \in ToSet(piece) : e \in FanEntry /\ e.id \in 1 .. MaxFanEntries /\ calls[n].upTo < e.id
  BY <1>2, CallNumbers
<1>8. calls[n].upTo \in Nat /\ \A e \in FanEntry : e.id \in Nat BY CallFields DEF FanEntry
<1>9. Ascending(t)
  <2> SUFFICES ASSUME NEW i \in DOMAIN t, NEW j \in DOMAIN t, i < j PROVE t[i].id < t[j].id
    BY DEF Ascending
  <2>1. CASE i \in 1 .. Len(h) /\ j \in 1 .. Len(h) BY <2>1, <1>1, <1>3 DEF Ascending
  <2>2. CASE i \notin 1 .. Len(h)
    <3>1. PICK x \in 1 .. Len(piece) : i = Len(h) + x BY <2>2, <1>4
    <3>2. j \notin 1 .. Len(h) BY <3>1, <1>3
    <3>3. PICK y \in 1 .. Len(piece) : j = Len(h) + y BY <3>2, <1>4
    <3>4. x < y BY <3>1, <3>3, <1>3
    <3> QED BY <3>1, <3>3, <3>4, <1>2, <1>3 DEF Ascending
  <2>3. CASE i \in 1 .. Len(h) /\ j \notin 1 .. Len(h)
    <3>1. PICK y \in 1 .. Len(piece) : j = Len(h) + y BY <2>3, <1>4
    <3>2. t[i] \in ToSet(h) /\ t[j] \in ToSet(piece) BY <3>1, <2>3, <1>3 DEF ToSet
    <3>3. t[i].id \in Nat /\ t[j].id \in Nat BY <3>2, <1>6, <1>7, <1>8
    <3>4. t[i].id <= calls[n].upTo /\ calls[n].upTo < t[j].id BY <3>2, <1>6, <1>7
    <3> QED BY <3>3, <3>4, <1>8
  <2> QED BY <2>1, <2>2, <2>3
<1>10. Len(t) <= MaxFanEntries
  <2>1. \A e \in ToSet(t) : e.id \in 1 .. MaxFanEntries BY <1>5, <1>6, <1>7
  <2> QED BY <2>1, <1>3, <1>9, AscendingBound DEF FanAssumption
<1>11. r \in 0 .. Open /\ Len(t) # Open
  BY <1>10, <1>3, <1>1 DEF Open, FanAssumption
<1>12. \A e \in FanEntry : e \in ToSet(t) <=> Passes(c, e) /\ \E m \in taken \cup {n} : e \in ToSet(calls[m].batch)
  <2>1. \A e : (\E m \in taken \cup {n} : e \in ToSet(calls[m].batch))
                 <=> e \in ToSet(calls[n].batch) \/ \E m \in taken : e \in ToSet(calls[m].batch)
    OBVIOUS
  <2> QED BY <2>1, <1>1, <1>2, <1>5, Zenon
<1>13. r # Open => \E m \in taken \cup {n} : calls[m].op = "close" BY <1>1
<1>14. ASSUME NEW m \in taken \cup {n}, calls[m].op = "close"
       PROVE  /\ r # Open
              /\ (\A k \in 1 .. m - 1 : calls[k].op # "close") =>
                   \A e \in ToSet(t) : e.id <= calls[m].upTo => \E i \in 1 .. r : i <= Len(t) /\ t[i] = e
  <2>1. CASE m \in taken
    <3>1. s # Open /\ r = s BY <2>1, <1>14, <1>1
    <3> SUFFICES ASSUME \A k \in 1 .. m - 1 : calls[k].op # "close",
                        NEW e \in ToSet(t), e.id <= calls[m].upTo
                 PROVE  \E i \in 1 .. s : i <= Len(t) /\ t[i] = e
      BY <3>1
    <3>2. e \in ToSet(h)
      <4> SUFFICES ASSUME e \in ToSet(piece) PROVE FALSE BY <1>5
      <4>1. calls[m].upTo + Len(calls[m].batch) <= calls[n].upTo BY <2>1 DEF NumberedCalls
      <4>2. calls[m].upTo \in Nat /\ Len(calls[m].batch) \in Nat BY <2>1, CallFields
      <4>3. calls[n].upTo < e.id /\ e.id \in Nat BY <1>7, <1>8
      <4> QED BY <4>1, <4>2, <4>3, <1>8
    <3>3. PICK i \in 1 .. s : i <= Len(h) /\ h[i] = e BY <3>2, <2>1, <1>14, <1>1
    <3>4. i \in 1 .. Len(h) /\ i <= Len(t) BY <3>3, <1>3, <1>1 DEF Open, FanAssumption
    <3> QED BY <3>3, <3>4, <1>3
  <2>2. CASE m = n /\ s # Open
    <3>1. PICK k \in taken : calls[k].op = "close" BY <2>2, <1>1
    <3>2. k \in 1 .. n - 1 BY <3>1, CallFields
    <3> QED BY <2>2, <3>1, <3>2
  <2>3. CASE m = n /\ s = Open
    <3>1. r = Len(t) BY <2>3, <1>14
    <3>2. \A e \in ToSet(t) : \E i \in 1 .. Len(t) : i <= Len(t) /\ t[i] = e BY <1>3 DEF ToSet
    <3> QED BY <3>1, <3>2, <1>11
  <2> QED BY <2>1, <2>2, <2>3
<1> HIDE DEF r
<1> QED BY <1>3, <1>9, <1>11, <1>12, <1>13, <1>14 DEF ChildOK, t, r

\* The calls are calls.
LEMMA FanCallsTyped == FanTypes => TypedCalls(fanCalls)
<1> SUFFICES ASSUME FanTypes PROVE TypedCalls(fanCalls) OBVIOUS
<1>1. Siblings \subseteq AllSiblings
  <2>1. Files \subseteq {"file"} \cup FileLevels BY DEF Files, FanTypes
  <2> QED BY <2>1 DEF Siblings, AllSiblings
<1> DEFINE T == [op : {"write", "flush", "close"}, batch : Seq(FanEntry), upTo : Nat,
                 open : SUBSET AllSiblings, result : {"pending", "resolved", "rejected"}]
<1>2. FanCall \subseteq T BY <1>1 DEF FanCall
<1>3. fanCalls \in Seq(FanCall) BY DEF FanTypes
<1> HIDE DEF T
<1>4. fanCalls \in Seq(T) BY <1>2, <1>3, SeqMonotonic
<1> QED BY <1>4 DEF TypedCalls, T

\* The entries written so far are numbered behind every call.
LEMMA WrittenBound ==
    ASSUME FanAssumption, FanTypes, NumberedCalls(fanCalls)
    PROVE  /\ Written \in 0 .. MaxFanEntries
           /\ \A m \in DOMAIN fanCalls : fanCalls[m].upTo + Len(fanCalls[m].batch) <= Written
<1> DEFINE k == Len(fanCalls)
<1>1. TypedCalls(fanCalls) BY FanCallsTyped
<1>2. k \in Nat /\ DOMAIN fanCalls = 1 .. k BY <1>1, CallFields
<1>3. \A n \in DOMAIN fanCalls : fanCalls[n].upTo \in Nat /\ Len(fanCalls[n].batch) \in Nat BY <1>1, CallFields
<1>4. CASE fanCalls = <<>>
  <2>1. k = 0 BY <1>4
  <2> QED BY <2>1, <1>2, <1>4 DEF Written, FanAssumption
<1>5. CASE fanCalls # <<>>
  <2>1. k \in DOMAIN fanCalls BY <1>5, <1>2, <1>1, EmptySeq DEF TypedCalls
  <2>2. Written = fanCalls[k].upTo + Len(fanCalls[k].batch) BY <1>5 DEF Written, Last
  <2>3. Written \in 0 .. MaxFanEntries BY <2>2, <2>1, <1>3, <1>5 DEF NumberedCalls, FanAssumption
  <2>4. ASSUME NEW m \in DOMAIN fanCalls PROVE fanCalls[m].upTo + Len(fanCalls[m].batch) <= Written
    <3>1. CASE m = k BY <3>1, <2>2, <2>3
    <3>2. CASE m # k
      <4>1. m < k BY <3>2, <1>2
      <4>2. fanCalls[m].upTo + Len(fanCalls[m].batch) <= fanCalls[k].upTo BY <4>1, <2>1 DEF NumberedCalls
      <4> QED BY <4>2, <2>2, <2>1, <1>3, SMTT(20)
    <3> QED BY <3>1, <3>2
  <2> QED BY <2>3, <2>4
<1> QED BY <1>4, <1>5

\* A call is made.
LEMMA CallMade ==
    ASSUME FanAssumption, FanTypes, NumberedCalls(fanCalls), UNCHANGED <<file, database>>,
           NEW op \in {"write", "flush", "close"}, NEW batch \in Seq(FanEntry),
           NEW open \in SUBSET (Siblings \ {"console"}), Called(op, batch, open),
           \A i \in DOMAIN batch : batch[i].id = Written + i,
           Written + Len(batch) <= MaxFanEntries, op # "write" => batch = <<>>
    PROVE  LET n == Len(fanCalls) + 1 IN
           /\ fanCalls' \in Seq(FanCall)' /\ NumberedCalls(fanCalls')
           /\ n \notin DOMAIN fanCalls /\ DOMAIN fanCalls' = DOMAIN fanCalls \cup {n}
           /\ \A m \in DOMAIN fanCalls : m < n /\ fanCalls'[m] = fanCalls[m]
           /\ fanCalls'[n].op = op /\ fanCalls'[n].batch = batch /\ fanCalls'[n].open = open
           /\ fanCalls'[n].result = IF open = {} THEN "resolved" ELSE "pending"
           /\ Siblings' = Siblings
<1> DEFINE n == Len(fanCalls) + 1
           w == Written
           r == [op |-> op, batch |-> batch, upTo |-> w, open |-> open,
                 result |-> IF open = {} THEN "resolved" ELSE "pending"]
<1>1. fanCalls' = Append(fanCalls, r) BY DEF Called
<1>2. Siblings' = Siblings BY DEF Siblings, Files
<1>3. FanCall' = FanCall BY <1>2 DEF FanCall
<1>4. w \in 0 .. MaxFanEntries /\ \A m \in DOMAIN fanCalls : fanCalls[m].upTo + Len(fanCalls[m].batch) <= w
  BY WrittenBound
<1>5. fanCalls \in Seq(FanCall) /\ r \in FanCall BY <1>4 DEF FanTypes, FanCall, FanAssumption
<1>6. /\ Len(fanCalls) \in Nat /\ DOMAIN fanCalls = 1 .. Len(fanCalls)
      /\ \A m \in DOMAIN fanCalls : fanCalls[m].upTo \in Nat /\ Len(fanCalls[m].batch) \in Nat
  BY FanCallsTyped, CallFields
<1>w. w = Written OBVIOUS
<1> HIDE DEF r, w
<1>7. /\ fanCalls' \in Seq(FanCall) /\ Len(fanCalls') = n /\ fanCalls'[n] = r
      /\ \A m \in 1 .. Len(fanCalls) : fanCalls'[m] = fanCalls[m]
  BY <1>1, <1>5, AppendProperties
<1>8. DOMAIN fanCalls' = 1 .. n BY <1>7, LenProperties
<1>9. n \in Nat /\ n \notin DOMAIN fanCalls /\ DOMAIN fanCalls' = DOMAIN fanCalls \cup {n} BY <1>6, <1>8
<1>10. r.op = op /\ r.batch = batch /\ r.upTo = w /\ r.open = open
       /\ r.result = IF open = {} THEN "resolved" ELSE "pending" BY DEF r
<1>11. \A m \in DOMAIN fanCalls : m < n /\ fanCalls'[m] = fanCalls[m] BY <1>6, <1>7
<1> HIDE DEF n
<1>12. NumberedCalls(fanCalls')
  <2>1. fanCalls'[Len(fanCalls')].upTo + Len(fanCalls'[Len(fanCalls')].batch) <= MaxFanEntries
    BY <1>7, <1>10, <1>w
  <2>2. ASSUME NEW k \in DOMAIN fanCalls'
        PROVE /\ \A i \in DOMAIN fanCalls'[k].batch : fanCalls'[k].batch[i].id = fanCalls'[k].upTo + i
              /\ fanCalls'[k].op # "write" => fanCalls'[k].batch = <<>>
    <3>1. CASE k = n BY <3>1, <1>7, <1>10, <1>w
    <3>2. CASE k \in DOMAIN fanCalls BY <3>2, <1>11 DEF NumberedCalls
    <3> QED BY <3>1, <3>2, <1>9
  <2>3. ASSUME NEW m \in DOMAIN fanCalls', NEW k \in DOMAIN fanCalls', m < k
        PROVE  fanCalls'[m].upTo + Len(fanCalls'[m].batch) <= fanCalls'[k].upTo
    <3>1. m \in DOMAIN fanCalls BY <2>3, <1>9, <1>8
    <3>2. CASE k = n BY <3>1, <3>2, <1>4, <1>7, <1>10, <1>11
    <3>3. CASE k \in DOMAIN fanCalls BY <3>1, <3>3, <2>3, <1>11 DEF NumberedCalls
    <3> QED BY <3>2, <3>3, <1>9
  <2> QED BY <2>1, <2>2, <2>3 DEF NumberedCalls
<1> QED BY <1>2, <1>3, <1>7, <1>9, <1>10, <1>11, <1>12 DEF n

\* A call that is not flush() joins those that wait for the load, if there is one.
Joins(n) ==
    /\ ensured' = IF database THEN Append(ensured, n) ELSE ensured
    /\ database => loadState' = IF loadState = "null" THEN "loading" ELSE loadState
    /\ ~database => loadState' = loadState
    /\ loads' = IF database /\ loadState = "null" THEN loads + 1 ELSE loads

\* One more call waits for the load.
LEMMA Waiters ==
    ASSUME ensured \in Seq(Nat), NEW n \in Nat, ensured' = Append(ensured, n)
    PROVE  /\ ToSet(ensured') = ToSet(ensured) \cup {n} /\ ensured' \in Seq(Nat)
           /\ DOMAIN ensured = 1 .. Len(ensured) /\ Len(ensured) \in Nat
           /\ DOMAIN ensured' = 1 .. Len(ensured) + 1 /\ ensured'[Len(ensured) + 1] = n
           /\ \A i \in 1 .. Len(ensured) : ensured'[i] = ensured[i]
<1>1. /\ ensured' \in Seq(Nat) /\ Len(ensured') = Len(ensured) + 1 /\ ensured'[Len(ensured) + 1] = n
      /\ \A i \in 1 .. Len(ensured) : ensured'[i] = ensured[i]
  BY AppendProperties
<1>2. /\ DOMAIN ensured = 1 .. Len(ensured) /\ Len(ensured) \in Nat
      /\ DOMAIN ensured' = 1 .. Len(ensured) + 1 BY <1>1, LenProperties
<1>3. \A i : i \in DOMAIN ensured' <=> i \in DOMAIN ensured \/ i = Len(ensured) + 1 BY <1>2
<1>4. ToSet(ensured') = ToSet(ensured) \cup {n} BY <1>1, <1>2, <1>3 DEF ToSet
<1> QED BY <1>1, <1>2, <1>4

\* The books of the load when a call is made.
LEMMA CallQueued ==
    ASSUME FanAssumption, FanInv, UNCHANGED <<file, database>>,
           NEW n, n = Len(fanCalls) + 1, NEW op, fanCalls'[n].op = op,
           n \notin DOMAIN fanCalls, DOMAIN fanCalls' = DOMAIN fanCalls \cup {n},
           \A m \in DOMAIN fanCalls : m < n /\ fanCalls'[m] = fanCalls[m],
           op = "flush" => UNCHANGED <<ensured, loadState, loads>>,
           op # "flush" => Joins(n),
           op # "flush" /\ database => "database" \in fanCalls'[n].open /\ fanCalls'[n].result = "pending"
    PROVE  /\ EnsureQueue' /\ Answers' /\ ensured' \in Seq(Nat)
           /\ loadState' \in {"null", "loading", "loaded", "failed"} /\ loads' \in 0 .. 1
           /\ (loadState' = "null" => loads' = 0) /\ (loadState' # "null" => loads' = 1 /\ database)
           /\ \A m \in DOMAIN fanCalls : m \in ToSet(ensured') <=> m \in ToSet(ensured)
           /\ (loadState' = "loaded") = (loadState = "loaded")
           /\ op # "flush" /\ database => n \in ToSet(ensured')
<1>1. ensured \in Seq(Nat) /\ Len(fanCalls) \in Nat /\ n \in Nat /\ DOMAIN fanCalls = 1 .. Len(fanCalls)
  BY FanCallsTyped, CallFields DEF FanInv, FanTypes
<1>2. FanTypes /\ EnsureQueue /\ Answers BY DEF FanInv
<1>3. \A m \in ToSet(ensured) : m \in DOMAIN fanCalls BY <1>2 DEF EnsureQueue
<1>4. CASE op = "flush"
  <2>1. EnsureQueue'
    <3>1. UNCHANGED <<ensured, loadState, database>> BY <1>4
    <3> QED BY <3>1, <1>2, <1>4 DEF EnsureQueue
  <2>2. Answers' BY <1>2, <1>3, <1>4 DEF Answers
  <2> QED BY <2>1, <2>2, <1>2, <1>4 DEF FanTypes
<1>5. CASE op # "flush" /\ ~database
  <2>1. UNCHANGED <<ensured, loadState, loads, database>> BY <1>5 DEF Joins
  <2>2. ensured = <<>> BY <1>2, <1>5 DEF EnsureQueue
  <2>3. ToSet(ensured) = {} BY <2>2 DEF ToSet
  <2>4. EnsureQueue'
    <3>1. ensured' = <<>> /\ ~database' /\ ToSet(ensured') = {} BY <2>1, <2>2, <2>3, <1>5
    <3> QED BY <3>1 DEF EnsureQueue
  <2>5. Answers' BY <2>1, <2>3, <1>5 DEF Answers
  <2> QED BY <2>1, <2>3, <2>4, <2>5, <1>2, <1>5 DEF FanTypes
<1>6. CASE op # "flush" /\ database
  <2>1. ensured' = Append(ensured, n) /\ database' = database BY <1>6 DEF Joins
  <2>2. /\ ToSet(ensured') = ToSet(ensured) \cup {n} /\ ensured' \in Seq(Nat)
        /\ DOMAIN ensured = 1 .. Len(ensured) /\ Len(ensured) \in Nat
        /\ DOMAIN ensured' = 1 .. Len(ensured) + 1 /\ ensured'[Len(ensured) + 1] = n
        /\ \A i \in 1 .. Len(ensured) : ensured'[i] = ensured[i]
    BY <2>1, <1>1, Waiters
  <2>3. /\ loadState' = IF loadState = "null" THEN "loading" ELSE loadState
        /\ loads' = IF loadState = "null" THEN loads + 1 ELSE loads
    BY <1>6 DEF Joins
  <2>4. /\ loadState' \in {"null", "loading", "loaded", "failed"} /\ loads' \in 0 .. 1
        /\ (loadState' = "null" => loads' = 0) /\ (loadState' # "null" => loads' = 1 /\ database)
        /\ (loadState' = "loaded") = (loadState = "loaded") /\ (loadState' = "failed") = (loadState = "failed")
    BY <2>3, <1>2, <1>6 DEF FanTypes
  <2>5. \A m \in DOMAIN fanCalls : m \in ToSet(ensured') <=> m \in ToSet(ensured) BY <2>2
  <2>6. EnsureQueue'
    <3>1. ASSUME NEW i \in DOMAIN ensured', NEW j \in DOMAIN ensured', i < j PROVE ensured'[i] < ensured'[j]
      <4>1. i \in DOMAIN ensured /\ ensured'[i] = ensured[i] BY <3>1, <2>2
      <4>2. CASE j \in DOMAIN ensured BY <4>1, <4>2, <3>1, <2>2, <1>2 DEF EnsureQueue
      <4>3. CASE j = Len(ensured) + 1
        <5>1. ensured[i] \in ToSet(ensured) BY <4>1 DEF ToSet
        <5> QED BY <5>1, <4>1, <4>3, <2>2, <1>3
      <4> QED BY <4>2, <4>3, <2>2
    <3>2. ASSUME NEW k \in ToSet(ensured')
          PROVE  /\ k \in DOMAIN fanCalls' /\ fanCalls'[k].op # "flush"
                 /\ \A m \in DOMAIN fanCalls' : m > k /\ fanCalls'[m].op # "flush" => m \in ToSet(ensured')
      <4>1. CASE k = n
        <5>1. \A m \in DOMAIN fanCalls' : ~(m > n) BY <1>1
        <5> QED BY <5>1, <4>1, <1>6
      <4>2. CASE k \in ToSet(ensured)
        <5>1. /\ k \in DOMAIN fanCalls /\ fanCalls[k].op # "flush"
              /\ \A m \in DOMAIN fanCalls : m > k /\ fanCalls[m].op # "flush" => m \in ToSet(ensured)
          BY <4>2, <1>2 DEF EnsureQueue
        <5> QED BY <5>1, <2>2
      <4> QED BY <4>1, <4>2, <2>2
    <3>3. ASSUME loadState' \in {"null", "loading"}, NEW k \in DOMAIN fanCalls', fanCalls'[k].op # "flush"
          PROVE  k \in ToSet(ensured')
      <4>1. loadState \in {"null", "loading"} BY <3>3, <2>3
      <4> QED BY <4>1, <3>3, <2>2, <1>2, <1>6 DEF EnsureQueue
    <3> QED BY <3>1, <3>2, <3>3, <2>1, <1>6 DEF EnsureQueue
  <2>7. Answers'
    <3> SUFFICES ASSUME NEW k \in DOMAIN fanCalls'
                 PROVE  /\ k \in ToSet(ensured') =>
                             \/ fanCalls'[k].result = "rejected"
                             \/ fanCalls'[k].result = "pending" /\ "database" \in fanCalls'[k].open
                        /\ database' /\ loadState' = "failed" /\ fanCalls'[k].op # "flush" /\ k \notin ToSet(ensured') =>
                             fanCalls'[k].result = "rejected"
      BY DEF Answers
    <3>1. CASE k = n BY <3>1, <2>2, <1>6
    <3>2. CASE k \in DOMAIN fanCalls BY <3>2, <2>5, <2>4, <1>2, <1>6 DEF Answers
    <3> QED BY <3>1, <3>2
  <2> QED BY <2>2, <2>4, <2>5, <2>6, <2>7
<1> QED BY <1>4, <1>5, <1>6

\* What the children hold when a call is made that is given to all but the database.
LEMMA CallGiven ==
    ASSUME FanAssumption, FanInv, UNCHANGED <<file, database>>,
           TypedCalls(fanCalls'), NumberedCalls(fanCalls'), Siblings' = Siblings,
           NEW n, n = Len(fanCalls) + 1, NEW op, fanCalls'[n].op = op,
           n \notin DOMAIN fanCalls, DOMAIN fanCalls' = DOMAIN fanCalls \cup {n},
           \A m \in DOMAIN fanCalls : m < n /\ fanCalls'[m] = fanCalls[m],
           \A m \in DOMAIN fanCalls : m \in ToSet(ensured') <=> m \in ToSet(ensured),
           (loadState' = "loaded") = (loadState = "loaded"),
           op # "flush" /\ database => n \in ToSet(ensured'),
           NEW c \in AllSiblings, NEW piece, Piece(c, piece, fanCalls'[n]),
           IF c \in Siblings \ {"database"} /\ op # "flush"
             THEN /\ held'[c] = held[c] \o piece
                  /\ shut'[c] = IF op = "close" /\ shut[c] = Open THEN Len(held'[c]) ELSE shut[c]
             ELSE held'[c] = held[c] /\ shut'[c] = shut[c]
    PROVE  ChildOK(c, fanCalls', GivenTo(c)', held'[c], shut'[c])
<1>1. ChildOK(c, fanCalls, GivenTo(c), held[c], shut[c]) BY DEF FanInv
<1>2. GivenTo(c) \subseteq DOMAIN fanCalls BY DEF GivenTo
<1>3. DOMAIN fanCalls = 1 .. Len(fanCalls) /\ Len(fanCalls) \in Nat
  BY FanCallsTyped, CallFields DEF FanInv
<1>4. ChildOK(c, fanCalls', GivenTo(c), held[c], shut[c])
  <2>1. SameCalls(fanCalls, fanCalls', DOMAIN fanCalls) BY DEF SameCalls
  <2> QED BY <2>1, <1>1, <1>2, <1>3, ChildKept
<1>5. database => "database" \in Siblings BY DEF Siblings
<1>6. "database" \in Siblings => database
  <2>1. "database" \notin Files
    BY DEF Files, FanAssumption, FanInv, FanTypes
  <2> QED BY <2>1 DEF Siblings
<1>7. \A m \in DOMAIN fanCalls : m \in GivenTo(c)' <=> m \in GivenTo(c) BY DEF GivenTo
<1>8. CASE c \in Siblings \ {"database"} /\ op # "flush"
  <2>1. GivenTo(c)' = GivenTo(c) \cup {n}
    <3>1. n \in GivenTo(c)' BY <1>8 DEF GivenTo
    <3>2. GivenTo(c)' \subseteq DOMAIN fanCalls \cup {n} BY DEF GivenTo
    <3> QED BY <3>1, <3>2, <1>2, <1>7
  <2>2. Piece(c, piece, fanCalls'[n]) /\ held'[c] = held[c] \o piece BY <1>8
  <2>3. shut'[c] = IF fanCalls'[n].op = "close" /\ shut[c] = Open THEN Len(held[c] \o piece) ELSE shut[c]
    BY <1>8, <2>2
  <2>4. GivenTo(c) \subseteq DOMAIN fanCalls' /\ n \in DOMAIN fanCalls' /\ \A m \in GivenTo(c) : m < n BY <1>2
  <2>5. ChildOK(c, fanCalls', GivenTo(c) \cup {n}, held[c] \o piece,
                IF fanCalls'[n].op = "close" /\ shut[c] = Open THEN Len(held[c] \o piece) ELSE shut[c])
    <3> DEFINE calls == fanCalls'
               taken == GivenTo(c)
               h == held[c]
               s == shut[c]
    <3>1. /\ TypedCalls(calls) /\ NumberedCalls(calls) /\ ChildOK(c, calls, taken, h, s)
          /\ taken \in SUBSET DOMAIN calls /\ n \in DOMAIN calls /\ \A m \in taken : m < n
          /\ Piece(c, piece, calls[n])
      BY <1>4, <2>2, <2>4
    <3> HIDE DEF calls, taken, h, s
    <3>2. ChildOK(c, calls, taken \cup {n}, h \o piece,
                  IF calls[n].op = "close" /\ s = Open THEN Len(h \o piece) ELSE s)
      BY <3>1, HandOver
    <3> QED BY <3>2 DEF calls, taken, h, s
  <2> QED BY <2>1, <2>2, <2>3, <2>5
<1>9. CASE ~(c \in Siblings \ {"database"} /\ op # "flush")
  <2>1. n \notin GivenTo(c)' BY <1>9, <1>5, <1>6 DEF GivenTo
  <2>2. GivenTo(c)' = GivenTo(c)
    <3>1. GivenTo(c)' \subseteq DOMAIN fanCalls \cup {n} BY DEF GivenTo
    <3> QED BY <3>1, <2>1, <1>2, <1>7
  <2>3. held'[c] = held[c] /\ shut'[c] = shut[c] BY <1>9
  <2> QED BY <2>2, <2>3, <1>4
<1> QED BY <1>8, <1>9

\* ensure(), where the call made is number n.
LEMMA EnsureJoins ==
    ASSUME Ensure
    PROVE  Joins(Len(fanCalls) + 1)
BY DEF Ensure, Joins

\* An empty batch leaves what is held as it is.
LEMMA NothingFollows ==
    ASSUME NEW h \in Seq(FanEntry)
    PROVE  h \o <<>> = h
BY ConcatEmptySeq

\* What a child holds is a sequence of entries.
LEMMA HeldTypes ==
    ASSUME FanInv, NEW c \in AllSiblings
    PROVE  held[c] \in Seq(FanEntry) /\ Len(held[c]) \in Nat
<1>1. held[c] \in Seq(FanEntry) BY DEF FanInv, ChildOK
<1> QED BY <1>1, LenProperties

\* The children there are are among those there may be.
LEMMA SiblingsKnown == FanTypes => Siblings \subseteq AllSiblings
<1> SUFFICES ASSUME FanTypes PROVE Siblings \subseteq AllSiblings OBVIOUS
<1>1. Files \subseteq {"file"} \cup FileLevels BY DEF Files, FanTypes
<1> QED BY <1>1 DEF Siblings, AllSiblings

\* writeBatch(): the entries go to the children, the database gets them later.
LEMMA WriteBatchFan ==
    ASSUME FanAssumption, FanInv, NEW levels \in Batches, WriteBatch(levels)
    PROVE  FanInv'
<1> DEFINE w == Written
           batch == [i \in DOMAIN levels |-> [id |-> w + i, level |-> levels[i]]]
           open == ({"database"} \cap Siblings) \cup {c \in Files : Part(c, batch) # <<>>}
           n == Len(fanCalls) + 1
           op == "write"
<1>0. FanTypes /\ NumberedCalls(fanCalls) /\ EnsureQueue /\ Answers BY DEF FanInv
<1>1. w \in 0 .. MaxFanEntries BY <1>0, WrittenBound
<1>2. PICK k \in 1 .. MaxFanEntries - w : levels \in [1 .. k -> FileLevels] BY DEF Batches
<1>3. k \in Nat /\ w + k <= MaxFanEntries BY <1>1, <1>2 DEF FanAssumption
<1>w. w = Written OBVIOUS
<1> HIDE DEF w
<1>4. /\ batch \in Seq(FanEntry) /\ Len(batch) = k /\ DOMAIN batch = 1 .. k
      /\ \A i \in 1 .. k : batch[i].id = w + i
  <2>1. \A i \in 1 .. k : [id |-> w + i, level |-> levels[i]] \in FanEntry BY <1>1, <1>2 DEF FanEntry
  <2>2. batch = [i \in 1 .. k |-> [id |-> w + i, level |-> levels[i]]] BY <1>2
  <2> HIDE DEF batch
  <2>3. batch \in Seq(FanEntry) /\ Len(batch) = k BY <2>1, <2>2, <1>3, IsASeq
  <2> QED BY <2>2, <2>3
<1>5. /\ held' = [c \in AllSiblings |-> IF c \in Siblings \ {"database"}
                                          THEN held[c] \o Part(c, batch) ELSE held[c]]
      /\ Ensure /\ Called("write", batch, open) /\ UNCHANGED <<file, database, shut>>
  BY <1>w DEF WriteBatch
<1>6. open \in SUBSET (Siblings \ {"console"})
  <2>1. Files \subseteq Siblings BY DEF Siblings
  <2>2. "console" \notin Files BY <1>0 DEF Files, FanTypes, FanAssumption
  <2> QED BY <2>1, <2>2
<1>7. database => "database" \in open /\ open # {} BY DEF Siblings
<1> HIDE DEF batch, open
<1>8. /\ fanCalls' \in Seq(FanCall)' /\ NumberedCalls(fanCalls')
      /\ n \notin DOMAIN fanCalls /\ DOMAIN fanCalls' = DOMAIN fanCalls \cup {n}
      /\ \A m \in DOMAIN fanCalls : m < n /\ fanCalls'[m] = fanCalls[m]
      /\ fanCalls'[n].op = "write" /\ fanCalls'[n].batch = batch /\ fanCalls'[n].open = open
      /\ fanCalls'[n].result = IF open = {} THEN "resolved" ELSE "pending"
      /\ Siblings' = Siblings
  <2>1. \A i \in DOMAIN batch : batch[i].id = Written + i BY <1>4, <1>w
  <2>2. Written + Len(batch) <= MaxFanEntries BY <1>3, <1>4, <1>w
  <2> QED BY <2>1, <2>2, <1>0, <1>4, <1>5, <1>6, CallMade
<1>9. Joins(n) BY <1>5, EnsureJoins
<1> HIDE DEF n, op
<1>op. op = "write" /\ op # "flush" /\ op # "close" /\ fanCalls'[n].op = op BY <1>8 DEF op
<1>n. n = Len(fanCalls) + 1 BY DEF n
<1>10. /\ EnsureQueue' /\ Answers' /\ ensured' \in Seq(Nat)
       /\ loadState' \in {"null", "loading", "loaded", "failed"} /\ loads' \in 0 .. 1
       /\ (loadState' = "null" => loads' = 0) /\ (loadState' # "null" => loads' = 1 /\ database)
       /\ \A m \in DOMAIN fanCalls : m \in ToSet(ensured') <=> m \in ToSet(ensured)
       /\ (loadState' = "loaded") = (loadState = "loaded")
       /\ op # "flush" /\ database => n \in ToSet(ensured')
  BY <1>5, <1>7, <1>8, <1>9, <1>n, <1>op, CallQueued
<1>11. DOMAIN held' = AllSiblings /\ DOMAIN shut' = AllSiblings BY <1>0, <1>5 DEF FanTypes
<1>12. FanTypes'
  BY <1>0, <1>5, <1>8, <1>10, <1>11 DEF FanTypes, AllSiblings
<1>13. TypedCalls(fanCalls')
  <2>1. FanTypes' => TypedCalls(fanCalls)' BY FanCallsTyped, PTL
  <2> QED BY <1>12, <2>1 DEF TypedCalls, AllSiblings, FanEntry
<1>14. Ascending(batch)
  <2>1. n \in DOMAIN fanCalls' BY <1>8
  <2>2. Ascending(fanCalls'[n].batch) BY <2>1, <1>8, <1>13, CallNumbers
  <2> QED BY <2>2, <1>8
<1>15. ASSUME NEW c \in AllSiblings
       PROVE  ChildOK(c, fanCalls', GivenTo(c)', held'[c], shut'[c])
  <2> DEFINE piece == Part(c, batch)
  <2>1. Piece(c, piece, fanCalls'[n]) BY <1>4, <1>8, <1>14, PartShape DEF Piece
  <2>2. IF c \in Siblings \ {"database"} /\ op # "flush"
          THEN /\ held'[c] = held[c] \o piece
               /\ shut'[c] = IF op = "close" /\ shut[c] = Open THEN Len(held'[c]) ELSE shut[c]
          ELSE held'[c] = held[c] /\ shut'[c] = shut[c]
    BY <1>5, <1>op
  <2>3. UNCHANGED <<file, database>> BY <1>5
  <2> HIDE DEF piece
  <2> QED BY <2>1, <2>2, <2>3, <1>8, <1>10, <1>13, <1>n, <1>op, CallGiven
<1>16. \A c \in AllSiblings : ChildOK(c, fanCalls', GivenTo(c)', held'[c], shut'[c]) BY <1>15
<1>17. \A c \in AllSiblings' : c \in AllSiblings BY DEF AllSiblings
<1>18. (\A c \in AllSiblings : ChildOK(c, fanCalls, GivenTo(c), held[c], shut[c]))'
  BY <1>16, <1>17 DEF ChildOK, Passes, Open, FanEntry, Ascending
<1> QED BY <1>8, <1>10, <1>12, <1>18 DEF FanInv, NumberedCalls

\* flush() and close() hand no entries to the children.
LEMMA EmptyCallFan ==
    ASSUME FanAssumption, FanInv, NEW op \in {"flush", "close"},
           NEW open \in SUBSET (Siblings \ {"console"}),
           Called(op, <<>>, open), UNCHANGED <<file, database, held>>,
           op = "flush" => UNCHANGED <<ensured, loadState, loads, shut>>,
           op = "close" => Ensure /\ shut' = ShutNow(Siblings \ {"database"}),
           op = "close" /\ database => "database" \in open
    PROVE  FanInv'
<1> DEFINE n == Len(fanCalls) + 1
<1>0. FanTypes /\ NumberedCalls(fanCalls) /\ EnsureQueue /\ Answers BY DEF FanInv
<1>1. Written \in 0 .. MaxFanEntries BY <1>0, WrittenBound
<1>2. <<>> \in Seq(FanEntry) /\ Len(<<>>) = 0 /\ DOMAIN <<>> = {} /\ ToSet(<<>>) = {}
  BY EmptySeq DEF ToSet
<1>8. /\ fanCalls' \in Seq(FanCall)' /\ NumberedCalls(fanCalls')
      /\ n \notin DOMAIN fanCalls /\ DOMAIN fanCalls' = DOMAIN fanCalls \cup {n}
      /\ \A m \in DOMAIN fanCalls : m < n /\ fanCalls'[m] = fanCalls[m]
      /\ fanCalls'[n].op = op /\ fanCalls'[n].batch = <<>> /\ fanCalls'[n].open = open
      /\ fanCalls'[n].result = IF open = {} THEN "resolved" ELSE "pending"
      /\ Siblings' = Siblings
  <2> DEFINE batch == <<>>
  <2>1. /\ batch \in Seq(FanEntry) /\ \A i \in DOMAIN batch : batch[i].id = Written + i
        /\ Written + Len(batch) <= MaxFanEntries /\ (op # "write" => batch = <<>>)
        /\ Called(op, batch, open) /\ op \in {"write", "flush", "close"}
    BY <1>1, <1>2 DEF FanAssumption
  <2>e. batch = <<>> OBVIOUS
  <2>u. UNCHANGED <<file, database>> OBVIOUS
  <2> HIDE DEF batch
  <2>2. LET k == Len(fanCalls) + 1 IN
        /\ fanCalls' \in Seq(FanCall)' /\ NumberedCalls(fanCalls')
        /\ k \notin DOMAIN fanCalls /\ DOMAIN fanCalls' = DOMAIN fanCalls \cup {k}
        /\ \A m \in DOMAIN fanCalls : m < k /\ fanCalls'[m] = fanCalls[m]
        /\ fanCalls'[k].op = op /\ fanCalls'[k].batch = batch /\ fanCalls'[k].open = open
        /\ fanCalls'[k].result = IF open = {} THEN "resolved" ELSE "pending"
        /\ Siblings' = Siblings
    BY <2>1, <2>u, <1>0, CallMade
  <2> QED BY <2>2, <2>e
<1>9. op # "flush" => Joins(n) BY EnsureJoins
<1>7. op # "flush" /\ database => "database" \in fanCalls'[n].open /\ fanCalls'[n].result = "pending"
  BY <1>8
<1> HIDE DEF n
<1>n. n = Len(fanCalls) + 1 BY DEF n
<1>10. /\ EnsureQueue' /\ Answers' /\ ensured' \in Seq(Nat)
       /\ loadState' \in {"null", "loading", "loaded", "failed"} /\ loads' \in 0 .. 1
       /\ (loadState' = "null" => loads' = 0) /\ (loadState' # "null" => loads' = 1 /\ database)
       /\ \A m \in DOMAIN fanCalls : m \in ToSet(ensured') <=> m \in ToSet(ensured)
       /\ (loadState' = "loaded") = (loadState = "loaded")
       /\ op # "flush" /\ database => n \in ToSet(ensured')
  BY <1>7, <1>8, <1>9, <1>n, CallQueued
<1>11. DOMAIN held' = AllSiblings /\ DOMAIN shut' = AllSiblings BY <1>0 DEF FanTypes, ShutNow
<1>12. FanTypes'
  BY <1>0, <1>8, <1>10, <1>11 DEF FanTypes, AllSiblings
<1>13. TypedCalls(fanCalls')
  <2>1. FanTypes' => TypedCalls(fanCalls)' BY FanCallsTyped, PTL
  <2> QED BY <1>12, <2>1 DEF TypedCalls, AllSiblings, FanEntry
<1>15. ASSUME NEW c \in AllSiblings
       PROVE  ChildOK(c, fanCalls', GivenTo(c)', held'[c], shut'[c])
  <2> DEFINE piece == <<>>
  <2>1. Piece(c, piece, fanCalls'[n]) BY <1>2, <1>8 DEF Piece, Ascending
  <2>2. IF c \in Siblings \ {"database"} /\ op # "flush"
          THEN /\ held'[c] = held[c] \o piece
               /\ shut'[c] = IF op = "close" /\ shut[c] = Open THEN Len(held'[c]) ELSE shut[c]
          ELSE held'[c] = held[c] /\ shut'[c] = shut[c]
    <3>1. held'[c] = held[c] /\ held[c] \o piece = held[c] BY HeldTypes, NothingFollows
    <3>2. CASE op = "flush" BY <3>1, <3>2
    <3>3. CASE op = "close"
      <4>1. shut'[c] = IF c \in Siblings \ {"database"} /\ shut[c] = Open THEN Len(held[c]) ELSE shut[c]
        BY <3>3 DEF ShutNow
      <4> QED BY <4>1, <3>1, <3>3
    <3> QED BY <3>2, <3>3
  <2>3. UNCHANGED <<file, database>> OBVIOUS
  <2> HIDE DEF piece
  <2> QED BY <2>1, <2>2, <2>3, <1>8, <1>10, <1>13, <1>n, CallGiven
<1>16. \A c \in AllSiblings : ChildOK(c, fanCalls', GivenTo(c)', held'[c], shut'[c]) BY <1>15
<1>17. \A c \in AllSiblings' : c \in AllSiblings BY DEF AllSiblings
<1>18. (\A c \in AllSiblings : ChildOK(c, fanCalls, GivenTo(c), held[c], shut[c]))'
  BY <1>16, <1>17 DEF ChildOK, Passes, Open, FanEntry, Ascending
<1> QED BY <1>8, <1>10, <1>12, <1>18 DEF FanInv, NumberedCalls

\* The file transports are children, and neither the console nor the database.
LEMMA FilesKnown ==
    ASSUME FanAssumption, FanTypes
    PROVE  Files \subseteq Siblings \ {"console", "database"}
BY DEF Files, Siblings, FanTypes, FanAssumption

\* flush() changes nothing the children hold.
LEMMA FlushAllFan ==
    ASSUME FanAssumption, FanInv, FlushAll
    PROVE  FanInv'
<1> DEFINE open == Files \cup (IF loadState = "loaded" THEN {"database"} ELSE {})
           op == "flush"
<1>0. FanTypes BY DEF FanInv
<1>1. open \in SUBSET (Siblings \ {"console"})
  <2>1. loadState = "loaded" => "database" \in Siblings BY <1>0 DEF FanTypes, Siblings
  <2> QED BY <2>1, <1>0, FilesKnown
<1>2. /\ Called(op, <<>>, open) /\ UNCHANGED <<file, database, held>>
      /\ UNCHANGED <<ensured, loadState, loads, shut>> /\ op \in {"flush", "close"} /\ op # "close"
  BY DEF FlushAll
<1> HIDE DEF open, op
<1> QED BY <1>1, <1>2, EmptyCallFan

\* close() shuts the children that are there, the database later.
LEMMA CloseAllFan ==
    ASSUME FanAssumption, FanInv, CloseAll
    PROVE  FanInv'
<1> DEFINE open == Siblings \ {"console"}
           op == "close"
<1>1. open \in SUBSET (Siblings \ {"console"}) /\ (database => "database" \in open)
  BY DEF Siblings
<1>2. /\ Called(op, <<>>, open) /\ UNCHANGED <<file, database, held>>
      /\ Ensure /\ shut' = ShutNow(Siblings \ {"database"}) /\ op \in {"flush", "close"} /\ op # "flush"
  BY DEF CloseAll
<1> HIDE DEF open, op
<1> QED BY <1>1, <1>2, EmptyCallFan

\* The promise of a child settles.
LEMMA ChildAnswers ==
    ASSUME NEW call \in FanCall, NEW child, NEW ok \in BOOLEAN
    PROVE  LET r == ChildSettles(call, child, ok) IN
           /\ r \in FanCall /\ r.op = call.op /\ r.batch = call.batch /\ r.upTo = call.upTo
           /\ call.result # "pending" => r = call
           /\ call.result = "pending" /\ ~ok => r.result = "rejected"
           /\ call.result = "pending" /\ ok => r.open = call.open \ {child}
                                               /\ r.result = IF r.open = {} THEN "resolved" ELSE "pending"
<1> DEFINE open == IF ok THEN call.open \ {child} ELSE {}
           res == CASE ~ok -> "rejected" [] ok /\ open = {} -> "resolved" [] ok /\ open # {} -> "pending"
<1>1. CASE call.result # "pending" BY <1>1 DEF ChildSettles
<1>2. CASE call.result = "pending"
  <2>1. ChildSettles(call, child, ok) = [call EXCEPT !.open = open, !.result = res]
    BY <1>2 DEF ChildSettles
  <2>2. open \subseteq Siblings \ {"console"} BY DEF FanCall
  <2>3. ~ok => res = "rejected" OBVIOUS
  <2>4. ok => res = IF open = {} THEN "resolved" ELSE "pending"
    <3>1. CASE ok /\ open = {} BY <3>1
    <3>2. CASE ok /\ open # {} BY <3>2
    <3> QED BY <3>1, <3>2
  <2>5. (~ok => open = {}) /\ (ok => open = call.open \ {child}) OBVIOUS
  <2> HIDE DEF res, open
  <2> QED BY <2>1, <2>2, <2>3, <2>4, <2>5, <1>2 DEF FanCall
<1> QED BY <1>1, <1>2

\* One call has its answer, or waits for fewer.
LEMMA CallUpdated ==
    ASSUME FanTypes, NumberedCalls(fanCalls), UNCHANGED <<file, database>>,
           NEW n \in DOMAIN fanCalls, NEW r \in FanCall,
           r.op = fanCalls[n].op, r.batch = fanCalls[n].batch, r.upTo = fanCalls[n].upTo,
           fanCalls' = [fanCalls EXCEPT ![n] = r]
    PROVE  /\ fanCalls' \in Seq(FanCall)' /\ DOMAIN fanCalls' = DOMAIN fanCalls
           /\ NumberedCalls(fanCalls') /\ SameCalls(fanCalls, fanCalls', DOMAIN fanCalls)
           /\ fanCalls'[n] = r /\ \A m \in DOMAIN fanCalls : m # n => fanCalls'[m] = fanCalls[m]
<1>1. fanCalls \in Seq(FanCall) /\ Len(fanCalls) \in Nat /\ DOMAIN fanCalls = 1 .. Len(fanCalls)
  BY FanCallsTyped, CallFields DEF FanTypes
<1>2. FanCall' = FanCall BY DEF FanCall, Siblings, Files
<1>3. fanCalls' \in Seq(FanCall) /\ Len(fanCalls') = Len(fanCalls) /\ DOMAIN fanCalls' = DOMAIN fanCalls
  <2>1. fanCalls' \in Seq(FanCall) /\ Len(fanCalls') = Len(fanCalls) BY <1>1, ExceptSeq
  <2>2. DOMAIN fanCalls' = 1 .. Len(fanCalls') BY <2>1, LenProperties
  <2> QED BY <2>1, <2>2, <1>1
<1>4. fanCalls'[n] = r /\ \A m \in DOMAIN fanCalls : m # n => fanCalls'[m] = fanCalls[m] BY <1>1
<1>5. \A m \in DOMAIN fanCalls : /\ fanCalls'[m].op = fanCalls[m].op /\ fanCalls'[m].batch = fanCalls[m].batch
                                 /\ fanCalls'[m].upTo = fanCalls[m].upTo
  BY <1>4
<1>6. Len(fanCalls) \in DOMAIN fanCalls /\ fanCalls # <<>> BY <1>1
<1>7. NumberedCalls(fanCalls') BY <1>3, <1>5, <1>6 DEF NumberedCalls
<1> QED BY <1>2, <1>3, <1>4, <1>5, <1>7 DEF SameCalls

\* What the children hold stays what it was when only the answers change.
LEMMA ChildrenKept ==
    ASSUME FanInv, DOMAIN fanCalls' = DOMAIN fanCalls, SameCalls(fanCalls, fanCalls', DOMAIN fanCalls),
           NEW c \in AllSiblings, GivenTo(c)' = GivenTo(c), held'[c] = held[c], shut'[c] = shut[c]
    PROVE  ChildOK(c, fanCalls', GivenTo(c)', held'[c], shut'[c])
<1>1. ChildOK(c, fanCalls, GivenTo(c), held[c], shut[c]) BY DEF FanInv
<1>2. GivenTo(c) \subseteq DOMAIN fanCalls BY DEF GivenTo
<1>3. DOMAIN fanCalls = 1 .. Len(fanCalls) /\ Len(fanCalls) \in Nat
  BY FanCallsTyped, CallFields DEF FanInv
<1> QED BY <1>1, <1>2, <1>3, ChildKept

\* The promise of a child settles.
LEMMA SettleFan ==
    ASSUME FanAssumption, FanInv, NEW n \in DOMAIN fanCalls, NEW child \in AllSiblings, NEW ok \in BOOLEAN,
           Settle(n, child, ok)
    PROVE  FanInv'
<1> DEFINE r == ChildSettles(fanCalls[n], child, ok)
<1>0. FanTypes /\ NumberedCalls(fanCalls) /\ EnsureQueue /\ Answers BY DEF FanInv
<1>1. /\ child \in fanCalls[n].open /\ ~(child = "database" /\ n \in ToSet(ensured))
      /\ fanCalls' = [fanCalls EXCEPT ![n] = r]
      /\ UNCHANGED <<file, database, held, shut, loadState, loads, ensured>>
  BY DEF Settle
<1>2. fanCalls[n] \in FanCall
  <2>1. Len(fanCalls) \in Nat /\ DOMAIN fanCalls = 1 .. Len(fanCalls) BY <1>0, FanCallsTyped, CallFields
  <2> QED BY <2>1, <1>0, ElementOfSeq DEF FanTypes
<1>3. /\ r \in FanCall /\ r.op = fanCalls[n].op /\ r.batch = fanCalls[n].batch /\ r.upTo = fanCalls[n].upTo
      /\ fanCalls[n].result # "pending" => r = fanCalls[n]
      /\ fanCalls[n].result = "pending" /\ ~ok => r.result = "rejected"
      /\ fanCalls[n].result = "pending" /\ ok => r.open = fanCalls[n].open \ {child}
                                  /\ r.result = IF r.open = {} THEN "resolved" ELSE "pending"
  BY <1>2, ChildAnswers
<1> HIDE DEF r
<1>4. /\ fanCalls' \in Seq(FanCall)' /\ DOMAIN fanCalls' = DOMAIN fanCalls
      /\ NumberedCalls(fanCalls') /\ SameCalls(fanCalls, fanCalls', DOMAIN fanCalls)
      /\ fanCalls'[n] = r /\ \A m \in DOMAIN fanCalls : m # n => fanCalls'[m] = fanCalls[m]
  <2>1. UNCHANGED <<file, database>> BY <1>1
  <2> QED BY <2>1, <1>0, <1>1, <1>3, CallUpdated
<1>5. FanTypes' BY <1>0, <1>1, <1>4 DEF FanTypes, AllSiblings
<1>6. EnsureQueue' BY <1>0, <1>1, <1>4 DEF EnsureQueue, SameCalls
<1>7. Answers'
  <2> SUFFICES ASSUME NEW k \in DOMAIN fanCalls'
               PROVE  /\ k \in ToSet(ensured') =>
                           \/ fanCalls'[k].result = "rejected"
                           \/ fanCalls'[k].result = "pending" /\ "database" \in fanCalls'[k].open
                      /\ database' /\ loadState' = "failed" /\ fanCalls'[k].op # "flush" /\ k \notin ToSet(ensured') =>
                           fanCalls'[k].result = "rejected"
    BY DEF Answers
  <2>1. CASE k # n BY <2>1, <1>0, <1>1, <1>4 DEF Answers
  <2>2. CASE k = n
    <3>1. CASE fanCalls[n].result # "pending" BY <3>1, <2>2, <1>0, <1>1, <1>3, <1>4 DEF Answers
    <3>2. CASE fanCalls[n].result = "pending" /\ ~ok BY <3>2, <2>2, <1>3, <1>4
    <3>3. CASE fanCalls[n].result = "pending" /\ ok
      <4>1. n \in ToSet(ensured) => "database" \in r.open /\ r.result = "pending"
        BY <3>3, <1>0, <1>1, <1>3 DEF Answers
      <4>2. ~(database /\ loadState = "failed" /\ fanCalls[n].op # "flush" /\ n \notin ToSet(ensured))
        BY <3>3, <1>0 DEF Answers
      <4> QED BY <4>1, <4>2, <2>2, <1>1, <1>3, <1>4
    <3> QED BY <3>1, <3>2, <3>3
  <2> QED BY <2>1, <2>2
<1>8. ASSUME NEW c \in AllSiblings
      PROVE  ChildOK(c, fanCalls', GivenTo(c)', held'[c], shut'[c])
  <2>1. Siblings' = Siblings BY <1>1 DEF Siblings, Files
  <2>2. GivenTo(c)' = GivenTo(c) BY <2>1, <1>1, <1>4 DEF GivenTo, SameCalls
  <2> QED BY <2>2, <1>1, <1>4, ChildrenKept
<1>9. \A c \in AllSiblings : ChildOK(c, fanCalls', GivenTo(c)', held'[c], shut'[c]) BY <1>8
<1>10. \A c \in AllSiblings' : c \in AllSiblings BY DEF AllSiblings
<1>11. (\A c \in AllSiblings : ChildOK(c, fanCalls, GivenTo(c), held[c], shut[c]))'
  BY <1>9, <1>10 DEF ChildOK, Passes, Open, FanEntry, Ascending
<1> QED BY <1>4, <1>5, <1>6, <1>7, <1>11 DEF FanInv, NumberedCalls

\* The import ends: until then every call waits for it.
LEMMA LoadInnerFan ==
    ASSUME FanAssumption, FanInv, NEW outcome \in {"loaded", "failed"}, LoadInner(outcome)
    PROVE  FanInv'
<1>0. FanTypes /\ NumberedCalls(fanCalls) /\ EnsureQueue /\ Answers BY DEF FanInv
<1>1. /\ loadState = "loading" /\ loadState' = outcome
      /\ UNCHANGED <<file, database, held, shut, loads, ensured, fanCalls>>
  BY DEF LoadInner
<1>2. database BY <1>0, <1>1 DEF FanTypes
<1>3. \A n \in DOMAIN fanCalls : fanCalls[n].op # "flush" => n \in ToSet(ensured)
  BY <1>0, <1>1, <1>2 DEF EnsureQueue
<1>4. Siblings' = Siblings /\ FanCall' = FanCall BY <1>1 DEF Siblings, Files, FanCall
<1>5. FanTypes' BY <1>0, <1>1, <1>2, <1>4 DEF FanTypes, AllSiblings
<1>6. EnsureQueue'
  <2>1. ~(loadState' \in {"null", "loading"}) BY <1>1
  <2> QED BY <2>1, <1>0, <1>1 DEF EnsureQueue
<1>7. Answers' BY <1>0, <1>1, <1>3 DEF Answers
<1>8. ASSUME NEW c \in AllSiblings
      PROVE  ChildOK(c, fanCalls', GivenTo(c)', held'[c], shut'[c])
  <2>1. GivenTo(c)' = GivenTo(c) BY <1>1, <1>3, <1>4 DEF GivenTo
  <2>2. SameCalls(fanCalls, fanCalls', DOMAIN fanCalls) BY <1>1 DEF SameCalls
  <2> QED BY <2>1, <2>2, <1>1, ChildrenKept
<1>9. \A c \in AllSiblings : ChildOK(c, fanCalls', GivenTo(c)', held'[c], shut'[c]) BY <1>8
<1>10. \A c \in AllSiblings' : c \in AllSiblings BY DEF AllSiblings
<1>11. (\A c \in AllSiblings : ChildOK(c, fanCalls, GivenTo(c), held[c], shut[c]))'
  BY <1>9, <1>10 DEF ChildOK, Passes, Open, FanEntry, Ascending
<1> QED BY <1>0, <1>1, <1>5, <1>6, <1>7, <1>11 DEF FanInv, NumberedCalls

\* The first of those that wait goes on; the others are the later ones.
LEMMA HeadLeaves ==
    ASSUME FanTypes, EnsureQueue, ensured # <<>>, ensured' = Tail(ensured)
    PROVE  LET n == Head(ensured) IN
           /\ n \in DOMAIN fanCalls /\ n \in ToSet(ensured) /\ database /\ fanCalls[n].op # "flush"
           /\ ToSet(ensured') = ToSet(ensured) \ {n} /\ \A m \in ToSet(ensured') : m > n
           /\ \A m \in DOMAIN fanCalls : m > n /\ fanCalls[m].op # "flush" => m \in ToSet(ensured')
           /\ ensured' \in Seq(Nat)
           /\ \A i, j \in DOMAIN ensured' : i < j => ensured'[i] < ensured'[j]
<1> DEFINE n == Head(ensured)
<1>1. ensured \in Seq(Nat) BY DEF FanTypes
<1>2. Len(ensured) \in Nat /\ DOMAIN ensured = 1 .. Len(ensured) /\ Len(ensured) # 0
  BY <1>1, LenProperties, EmptySeq
<1>3. /\ ensured' \in Seq(Nat) /\ Len(ensured') = Len(ensured) - 1
      /\ \A i \in 1 .. Len(ensured') : ensured'[i] = ensured[i + 1]
      /\ n = ensured[1]
  BY <1>1, HeadTailProperties
<1>4. DOMAIN ensured' = 1 .. Len(ensured) - 1 BY <1>3, LenProperties
<1> HIDE DEF n
<1>5. \A i \in DOMAIN ensured' : i \in Nat /\ i + 1 \in DOMAIN ensured /\ ensured'[i] = ensured[i + 1] /\ 1 < i + 1
  BY <1>2, <1>3, <1>4
<1>6. 1 \in DOMAIN ensured BY <1>2
<1>7. \A i \in DOMAIN ensured : ensured[i] \in Nat BY <1>1, <1>2, ElementOfSeq
<1>8. \A i, j \in DOMAIN ensured : i < j => ensured[i] < ensured[j] BY DEF EnsureQueue
<1>9. \A m \in ToSet(ensured') : m \in ToSet(ensured) /\ m > n /\ m \in Nat
  <2> TAKE m \in ToSet(ensured')
  <2>1. PICK i \in DOMAIN ensured' : ensured'[i] = m BY DEF ToSet
  <2>2. i + 1 \in DOMAIN ensured /\ m = ensured[i + 1] /\ 1 < i + 1 BY <2>1, <1>5
  <2>3. m > n /\ m \in Nat BY <2>2, <1>3, <1>6, <1>7, <1>8
  <2> QED BY <2>2, <2>3 DEF ToSet
<1>10. n \in ToSet(ensured) /\ n \in Nat BY <1>3, <1>6, <1>7 DEF ToSet
<1>11. ASSUME NEW m \in ToSet(ensured), m # n PROVE m \in ToSet(ensured')
  <2>1. PICK i \in DOMAIN ensured : ensured[i] = m BY DEF ToSet
  <2>2. i # 1 BY <2>1, <1>3, <1>11
  <2>3. i - 1 \in DOMAIN ensured' /\ (i - 1) + 1 = i BY <2>2, <1>2, <1>4
  <2>4. ensured'[i - 1] = m BY <2>1, <2>3, <1>5
  <2> QED BY <2>3, <2>4 DEF ToSet
<1>12. ToSet(ensured') = ToSet(ensured) \ {n}
  <2>1. n \notin ToSet(ensured') BY <1>9, <1>10
  <2> QED BY <2>1, <1>9, <1>11
<1>13. ASSUME NEW i \in DOMAIN ensured', NEW j \in DOMAIN ensured', i < j PROVE ensured'[i] < ensured'[j]
  <2>1. i + 1 < j + 1 BY <1>13, <1>5
  <2> QED BY <2>1, <1>5, <1>8
<1>14. /\ n \in DOMAIN fanCalls /\ fanCalls[n].op # "flush"
       /\ \A m \in DOMAIN fanCalls : m > n /\ fanCalls[m].op # "flush" => m \in ToSet(ensured)
  BY <1>10 DEF EnsureQueue
<1>15. DOMAIN fanCalls \subseteq Nat BY FanCallsTyped, CallFields
<1>16. \A m \in DOMAIN fanCalls : m > n => m # n BY <1>15, <1>10
<1>17. database BY DEF EnsureQueue
<1> QED BY <1>3, <1>9, <1>10, <1>12, <1>13, <1>14, <1>16, <1>17 DEF n

\* The first waiting call goes on to the database, or fails with the load.
LEMMA AfterEnsureFan ==
    ASSUME FanAssumption, FanInv, AfterEnsure
    PROVE  FanInv'
<1> DEFINE n == Head(ensured)
           db == "database"
<1>0. FanTypes /\ NumberedCalls(fanCalls) /\ EnsureQueue /\ Answers BY DEF FanInv
<1>1. /\ ensured # <<>> /\ loadState \in {"loaded", "failed"} /\ ensured' = Tail(ensured)
      /\ UNCHANGED <<file, database, loadState, loads>>
  BY DEF AfterEnsure
<1>2. /\ n \in DOMAIN fanCalls /\ n \in ToSet(ensured) /\ database /\ fanCalls[n].op # "flush"
      /\ ToSet(ensured') = ToSet(ensured) \ {n} /\ \A m \in ToSet(ensured') : m > n
      /\ \A m \in DOMAIN fanCalls : m > n /\ fanCalls[m].op # "flush" => m \in ToSet(ensured')
      /\ ensured' \in Seq(Nat)
      /\ \A i, j \in DOMAIN ensured' : i < j => ensured'[i] < ensured'[j]
  BY <1>0, <1>1, HeadLeaves
<1>3. Siblings' = Siblings /\ FanCall' = FanCall BY <1>1 DEF Siblings, Files, FanCall
<1>4. db \in Siblings /\ db \in AllSiblings BY <1>2 DEF Siblings, AllSiblings
<1>5. Len(fanCalls) \in Nat /\ DOMAIN fanCalls = 1 .. Len(fanCalls) BY <1>0, FanCallsTyped, CallFields
<1>6. \A c \in AllSiblings' : c \in AllSiblings BY DEF AllSiblings
<1>7. CASE loadState = "failed"
  <2> DEFINE r == ChildSettles(fanCalls[n], db, FALSE)
  <2>1. fanCalls' = [fanCalls EXCEPT ![n] = r] /\ UNCHANGED <<held, shut>> BY <1>7 DEF AfterEnsure
  <2>2. fanCalls[n] \in FanCall BY <1>0, <1>2, <1>5, ElementOfSeq DEF FanTypes
  <2>3. /\ r \in FanCall /\ r.op = fanCalls[n].op /\ r.batch = fanCalls[n].batch /\ r.upTo = fanCalls[n].upTo
        /\ fanCalls[n].result # "pending" => r = fanCalls[n]
        /\ fanCalls[n].result = "pending" => r.result = "rejected"
    <3> DEFINE call == fanCalls[n]
               ok == FALSE
    <3>1. call \in FanCall /\ ok \in BOOLEAN /\ ~ok BY <2>2
    <3>2. r = ChildSettles(call, db, ok) OBVIOUS
    <3> HIDE DEF call, ok, r, db
    <3>3. /\ r \in FanCall /\ r.op = call.op /\ r.batch = call.batch /\ r.upTo = call.upTo
          /\ call.result # "pending" => r = call
          /\ call.result = "pending" => r.result = "rejected"
      BY <3>1, <3>2, ChildAnswers
    <3> QED BY <3>3 DEF call
  <2> HIDE DEF r
  <2>4. r.result = "rejected" BY <2>3, <1>0, <1>2 DEF Answers
  <2>5. /\ fanCalls' \in Seq(FanCall)' /\ DOMAIN fanCalls' = DOMAIN fanCalls
        /\ NumberedCalls(fanCalls') /\ SameCalls(fanCalls, fanCalls', DOMAIN fanCalls)
        /\ fanCalls'[n] = r /\ \A m \in DOMAIN fanCalls : m # n => fanCalls'[m] = fanCalls[m]
    <3>1. UNCHANGED <<file, database>> BY <1>1
    <3> HIDE DEF n
    <3> QED BY <3>1, <1>0, <1>2, <2>1, <2>3, CallUpdated
  <2> HIDE DEF n
  <2>6. FanTypes' BY <1>0, <1>1, <1>2, <2>1, <2>5 DEF FanTypes, AllSiblings
  <2>7. EnsureQueue'
    <3>1. ~(loadState' \in {"null", "loading"}) BY <1>1, <1>7
    <3>2. ASSUME NEW k \in ToSet(ensured')
          PROVE  /\ k \in DOMAIN fanCalls' /\ fanCalls'[k].op # "flush"
                 /\ \A m \in DOMAIN fanCalls' : m > k /\ fanCalls'[m].op # "flush" => m \in ToSet(ensured')
      <4>1. k \in ToSet(ensured) /\ k # n /\ k > n BY <1>2
      <4>2. /\ k \in DOMAIN fanCalls /\ fanCalls[k].op # "flush"
            /\ \A m \in DOMAIN fanCalls : m > k /\ fanCalls[m].op # "flush" => m \in ToSet(ensured)
        BY <4>1, <1>0 DEF EnsureQueue
      <4>3. \A m \in DOMAIN fanCalls : m > k => m # n BY <4>1, <4>2, <1>2, <1>5
      <4> QED BY <4>2, <4>3, <2>5, <1>2 DEF SameCalls
    <3> QED BY <3>1, <3>2, <1>1, <1>2 DEF EnsureQueue
  <2>8. Answers'
    <3> SUFFICES ASSUME NEW k \in DOMAIN fanCalls'
                 PROVE  /\ k \in ToSet(ensured') =>
                             \/ fanCalls'[k].result = "rejected"
                             \/ fanCalls'[k].result = "pending" /\ "database" \in fanCalls'[k].open
                        /\ database' /\ loadState' = "failed" /\ fanCalls'[k].op # "flush" /\ k \notin ToSet(ensured') =>
                             fanCalls'[k].result = "rejected"
      BY DEF Answers
    <3>1. CASE k = n BY <3>1, <2>4, <2>5
    <3>2. CASE k # n BY <3>2, <2>5, <1>0, <1>1, <1>2 DEF Answers
    <3> QED BY <3>1, <3>2
  <2>9. ASSUME NEW c \in AllSiblings
        PROVE  ChildOK(c, fanCalls', GivenTo(c)', held'[c], shut'[c])
    <3>1. GivenTo(c)' = GivenTo(c)
      <4>1. CASE c = db BY <4>1, <1>1, <1>7 DEF GivenTo
      <4>2. CASE c # db BY <4>2, <1>3, <2>5 DEF GivenTo, SameCalls
      <4> QED BY <4>1, <4>2
    <3> QED BY <3>1, <2>1, <2>5, ChildrenKept
  <2>10. \A c \in AllSiblings : ChildOK(c, fanCalls', GivenTo(c)', held'[c], shut'[c]) BY <2>9
  <2>11. (\A c \in AllSiblings : ChildOK(c, fanCalls, GivenTo(c), held[c], shut[c]))'
    BY <2>10, <1>6 DEF ChildOK, Passes, Open, FanEntry, Ascending
  <2> QED BY <2>5, <2>6, <2>7, <2>8, <2>11 DEF FanInv, NumberedCalls
<1>8. CASE loadState = "loaded"
  <2> DEFINE b == fanCalls[n].batch
             closing == fanCalls[n].op = "close"
  <2>1. /\ held' = [held EXCEPT ![db] = @ \o b]
        /\ shut' = IF closing THEN ShutNow({db}) ELSE shut
        /\ UNCHANGED fanCalls
    BY <1>8 DEF AfterEnsure
  <2>2. /\ b \in Seq(FanEntry) /\ (closing => b = <<>>) /\ Ascending(b)
        /\ \A e : Passes(db, e)
    <3>1. TypedCalls(fanCalls) BY <1>0, FanCallsTyped
    <3> HIDE DEF n
    <3>2. Ascending(b) /\ b \in Seq(FanEntry) BY <3>1, <1>0, <1>2, CallNumbers, CallFields
    <3>3. closing => b = <<>> BY <1>0, <1>2 DEF NumberedCalls
    <3>4. \A e : Passes(db, e) BY DEF Passes, FanAssumption
    <3> QED BY <3>2, <3>3, <3>4
  <2> HIDE DEF n
  <2>3. DOMAIN held' = AllSiblings /\ DOMAIN shut' = AllSiblings
    BY <2>1, <1>0 DEF FanTypes, ShutNow
  <2>4. FanTypes' BY <1>0, <1>1, <1>2, <1>3, <2>1, <2>3 DEF FanTypes, AllSiblings
  <2>5. EnsureQueue'
    <3>1. ~(loadState' \in {"null", "loading"}) BY <1>1, <1>8
    <3>2. ASSUME NEW k \in ToSet(ensured')
          PROVE  /\ k \in DOMAIN fanCalls /\ fanCalls[k].op # "flush"
                 /\ \A m \in DOMAIN fanCalls : m > k /\ fanCalls[m].op # "flush" => m \in ToSet(ensured')
      <4>1. k \in ToSet(ensured) /\ k # n /\ k > n BY <1>2
      <4>2. /\ k \in DOMAIN fanCalls /\ fanCalls[k].op # "flush"
            /\ \A m \in DOMAIN fanCalls : m > k /\ fanCalls[m].op # "flush" => m \in ToSet(ensured)
        BY <4>1, <1>0 DEF EnsureQueue
      <4>3. \A m \in DOMAIN fanCalls : m > k => m # n BY <4>1, <4>2, <1>2, <1>5
      <4> QED BY <4>2, <4>3, <1>2
    <3> QED BY <3>1, <3>2, <1>1, <1>2, <2>1 DEF EnsureQueue
  <2>6. Answers' BY <1>0, <1>1, <1>2, <1>8, <2>1 DEF Answers
  <2>7. ASSUME NEW c \in AllSiblings
        PROVE  ChildOK(c, fanCalls', GivenTo(c)', held'[c], shut'[c])
    <3>1. CASE c # db
      <4>1. GivenTo(c)' = GivenTo(c) BY <3>1, <1>3, <2>1 DEF GivenTo
      <4>2. held'[c] = held[c] /\ shut'[c] = shut[c] BY <3>1, <2>1, <1>0 DEF FanTypes, ShutNow
      <4>3. SameCalls(fanCalls, fanCalls', DOMAIN fanCalls) BY <2>1 DEF SameCalls
      <4> QED BY <4>1, <4>2, <4>3, <2>1, ChildrenKept
    <3>2. CASE c = db
      <4> DEFINE taken == GivenTo(db)
                 h == held[db]
                 s == shut[db]
      <4>1. \A m \in taken : m < n
        <5>1. \A m \in taken : m \in DOMAIN fanCalls /\ fanCalls[m].op # "flush" /\ m \notin ToSet(ensured)
          BY DEF GivenTo
        <5>2. \A m \in taken : m # n /\ ~(m > n) BY <5>1, <1>2
        <5> QED BY <5>1, <5>2, <1>2, <1>5
      <4>2. GivenTo(c)' = taken \cup {n} BY <3>2, <1>1, <1>2, <1>3, <1>4, <1>8, <2>1 DEF GivenTo
      <4>3. ChildOK(db, fanCalls, taken, h, s) /\ taken \in SUBSET DOMAIN fanCalls
        BY <1>4 DEF FanInv, GivenTo
      <4>4. Piece(db, b, fanCalls[n]) BY <2>2 DEF Piece
      <4>5. h \in Seq(FanEntry) /\ Len(h) \in Nat BY <1>4, HeldTypes
      <4>6. held'[c] = h \o b BY <3>2, <2>1, <1>0, <1>4 DEF FanTypes
      <4>7. shut'[c] = IF fanCalls[n].op = "close" /\ s = Open THEN Len(h \o b) ELSE s
        <5>1. CASE closing
          <6>1. h \o b = h BY <5>1, <2>2, <4>5, NothingFollows
          <6> QED BY <6>1, <5>1, <3>2, <2>1, <1>4 DEF ShutNow
        <5>2. CASE ~closing BY <5>2, <3>2, <2>1
        <5> QED BY <5>1, <5>2
      <4>8. TypedCalls(fanCalls) BY <1>0, FanCallsTyped
      <4> HIDE DEF taken, h, s, b, db
      <4>9. ChildOK(db, fanCalls, taken \cup {n}, h \o b,
                    IF fanCalls[n].op = "close" /\ s = Open THEN Len(h \o b) ELSE s)
        BY <4>1, <4>3, <4>4, <4>8, <1>0, <1>2, HandOver
      <4> QED BY <4>2, <4>6, <4>7, <4>9, <3>2, <2>1
    <3> QED BY <3>1, <3>2
  <2>8. \A c \in AllSiblings : ChildOK(c, fanCalls', GivenTo(c)', held'[c], shut'[c]) BY <2>7
  <2>9. (\A c \in AllSiblings : ChildOK(c, fanCalls, GivenTo(c), held[c], shut[c]))'
    BY <2>8, <1>6 DEF ChildOK, Passes, Open, FanEntry, Ascending
  <2> QED BY <1>0, <2>1, <2>4, <2>5, <2>6, <2>9 DEF FanInv, NumberedCalls
<1> QED BY <1>1, <1>7, <1>8

\* At the start no call was made and nothing is loaded.
LEMMA FanInitInv == FanAssumption /\ FanInit => FanInv
<1> SUFFICES ASSUME FanAssumption, FanInit PROVE FanInv OBVIOUS
<1>1. /\ file \in {"off", "one", "split"} /\ database \in BOOLEAN
      /\ held = [c \in AllSiblings |-> <<>>] /\ shut = [c \in AllSiblings |-> Open]
      /\ loadState = "null" /\ loads = 0 /\ ensured = <<>> /\ fanCalls = <<>>
  BY DEF FanInit
<1>2. DOMAIN ensured = {} /\ DOMAIN fanCalls = {} /\ ToSet(ensured) = {} BY <1>1 DEF ToSet
<1>3. ensured \in Seq(Nat) /\ fanCalls \in Seq(FanCall) BY <1>1, EmptySeq
<1>4. FanTypes BY <1>1, <1>3 DEF FanTypes
<1>5. NumberedCalls(fanCalls) BY <1>1, <1>2 DEF NumberedCalls
<1>6. EnsureQueue BY <1>1, <1>2 DEF EnsureQueue
<1>7. Answers BY <1>2 DEF Answers
<1>8. ASSUME NEW c \in AllSiblings PROVE ChildOK(c, fanCalls, GivenTo(c), held[c], shut[c])
  <2>1. GivenTo(c) = {} BY <1>2 DEF GivenTo
  <2>2. held[c] = <<>> /\ shut[c] = Open BY <1>1
  <2>3. Open \in 0 .. Open BY DEF Open, FanAssumption
  <2>4. <<>> \in Seq(FanEntry) /\ ToSet(<<>>) = {} /\ DOMAIN <<>> = {} BY EmptySeq DEF ToSet
  <2>5. ChildOK(c, fanCalls, {}, <<>>, Open) BY <2>3, <2>4 DEF ChildOK, Ascending
  <2> QED BY <2>1, <2>2, <2>5
<1> QED BY <1>4, <1>5, <1>6, <1>7, <1>8 DEF FanInv

\* Every step keeps the books of the calls and of the children.
LEMMA FanStep == FanAssumption /\ FanInv /\ [FanNext]_fanVars => FanInv'
<1> SUFFICES ASSUME FanAssumption, FanInv, [FanNext]_fanVars PROVE FanInv' OBVIOUS
<1>1. CASE \E levels \in Batches : WriteBatch(levels) BY <1>1, WriteBatchFan
<1>2. CASE FlushAll BY <1>2, FlushAllFan
<1>3. CASE CloseAll BY <1>3, CloseAllFan
<1>4. CASE AfterEnsure BY <1>4, AfterEnsureFan
<1>5. CASE \E n \in DOMAIN fanCalls, child \in AllSiblings, ok \in BOOLEAN : Settle(n, child, ok)
  BY <1>5, SettleFan
<1>6. CASE \E outcome \in {"loaded", "failed"} : LoadInner(outcome) BY <1>6, LoadInnerFan
<1>7. CASE UNCHANGED fanVars
  <2>1. /\ UNCHANGED <<file, database, held, shut, loadState, loads, ensured, fanCalls>>
        /\ AllSiblings' = AllSiblings /\ Siblings' = Siblings
    BY <1>7 DEF AllSiblings, Siblings, Files
  <2>2. FanTypes' BY <2>1 DEF FanInv, FanTypes, FanCall
  <2>3. EnsureQueue' /\ Answers' BY <2>1 DEF FanInv, EnsureQueue, Answers
  <2>4. \A c : GivenTo(c)' = GivenTo(c) BY <2>1 DEF GivenTo
  <2>5. SameCalls(fanCalls, fanCalls', DOMAIN fanCalls) BY <2>1 DEF SameCalls
  <2>6. \A c \in AllSiblings : ChildOK(c, fanCalls', GivenTo(c)', held'[c], shut'[c])
    BY <2>1, <2>4, <2>5, ChildrenKept
  <2>7. (\A c \in AllSiblings : ChildOK(c, fanCalls, GivenTo(c), held[c], shut[c]))'
    BY <2>1, <2>6 DEF ChildOK, Passes, Open, FanEntry, Ascending
  <2>8. NumberedCalls(fanCalls)' BY <2>1 DEF FanInv, NumberedCalls
  <2> QED BY <2>2, <2>3, <2>7, <2>8 DEF FanInv
<1> QED BY <1>1, <1>2, <1>3, <1>4, <1>5, <1>6, <1>7 DEF FanNext

\* A call that resolved was given to every child, and so were those before it.
LEMMA ResolvedGiven ==
    ASSUME FanInv, NEW n \in DOMAIN fanCalls, fanCalls[n].op # "flush", fanCalls[n].result = "resolved",
           NEW c \in Siblings, NEW m \in DOMAIN fanCalls, m <= n, fanCalls[m].op # "flush"
    PROVE  m \in GivenTo(c)
<1>1. SUFFICES ASSUME c = "database" PROVE loadState = "loaded" /\ m \notin ToSet(ensured) BY DEF GivenTo
<1>2. FanTypes /\ EnsureQueue /\ Answers BY DEF FanInv
<1>3. n \notin ToSet(ensured) BY <1>2 DEF Answers
<1>4. database
  <2>1. CASE c \in Files
    <3>1. PICK f \in {"off", "one", "split"} : file = f BY <1>2 DEF FanTypes
    <3>2. c \in FileLevels \/ c = "file" BY <2>1, <3>1 DEF Files
    <3> QED BY <3>2, <1>1, FanAssumption DEF FanAssumption
  <2> QED BY <2>1, <1>1 DEF Siblings
<1>5. loadState = "loaded" BY <1>2, <1>3, <1>4 DEF EnsureQueue, Answers, FanTypes
<1>6. m \notin ToSet(ensured)
  <2>1. CASE m = n BY <2>1, <1>3
  <2>2. CASE m # n
    <3>1. n > m BY <2>2, <1>2, FanCallsTyped, CallFields
    <3> QED BY <3>1, <1>2, <1>3 DEF EnsureQueue
  <2> QED BY <2>1, <2>2
<1> QED BY <1>5, <1>6

\* What the inductive invariant says of every child.
LEMMA FanInvGives == FanAssumption /\ FanInv => SiblingsConsistent
<1> SUFFICES ASSUME FanAssumption, FanInv PROVE SiblingsConsistent OBVIOUS
<1>0. FanTypes /\ NumberedCalls(fanCalls) /\ EnsureQueue /\ Answers BY DEF FanInv
<1>1. TypedCalls(fanCalls) BY <1>0, FanCallsTyped
<1>2. Len(fanCalls) \in Nat /\ DOMAIN fanCalls = 1 .. Len(fanCalls) BY <1>1, CallFields
<1>3. \A c \in AllSiblings : ChildOK(c, fanCalls, GivenTo(c), held[c], shut[c]) BY DEF FanInv
<1>4. Siblings \subseteq AllSiblings BY <1>0, SiblingsKnown
<1>5. ASSUME NEW e \in Entries
      PROVE  \E m \in DOMAIN fanCalls : /\ e \in ToSet(fanCalls[m].batch) /\ fanCalls[m].op = "write"
                                        /\ e \in FanEntry /\ fanCalls[m].upTo < e.id /\ e.id \in Nat
  <2>1. PICK m \in DOMAIN fanCalls : e \in ToSet(fanCalls[m].batch) BY DEF Entries
  <2>2. e \in FanEntry /\ fanCalls[m].upTo < e.id /\ e.id \in 1 .. MaxFanEntries
    BY <2>1, <1>0, <1>1, CallNumbers
  <2>3. fanCalls[m].op = "write"
    <3>1. ToSet(<<>>) = {} BY DEF ToSet
    <3> QED BY <3>1, <2>1, <1>0 DEF NumberedCalls
  <2> QED BY <2>1, <2>2, <2>3 DEF FanEntry
<1>6. FanTypeOK
  <2>1. ASSUME NEW c \in AllSiblings, held[c] # <<>> PROVE c \in Siblings
    <3>1. SUFFICES ASSUME c \notin Siblings PROVE FALSE OBVIOUS
    <3>2. GivenTo(c) = {} BY <3>1 DEF GivenTo
    <3>3. held[c] \in Seq(FanEntry) /\ Len(held[c]) \in Nat BY HeldTypes
    <3>4. Len(held[c]) # 0 /\ DOMAIN held[c] = 1 .. Len(held[c]) BY <2>1, <3>3, EmptySeq, LenProperties
    <3>5. 1 \in DOMAIN held[c] /\ held[c][1] \in FanEntry BY <3>3, <3>4, ElementOfSeq
    <3>6. held[c][1] \in ToSet(held[c]) BY <3>5 DEF ToSet
    <3> QED BY <3>2, <3>5, <3>6, <1>3 DEF ChildOK
  <2>2. ASSUME NEW n \in DOMAIN fanCalls PROVE fanCalls[n].open \subseteq Siblings \ {"console"}
    <3>1. fanCalls[n] \in FanCall BY <1>0, <1>2, ElementOfSeq DEF FanTypes
    <3> QED BY <3>1 DEF FanCall
  <2> QED BY <2>1, <2>2, <1>0 DEF FanTypeOK, FanTypes, EnsureQueue
<1>7. HandedInOrder BY <1>3 DEF HandedInOrder, ChildOK, Ascending
<1>8. NobodySkipped
  <2> SUFFICES ASSUME ensured = <<>>, NEW c \in Siblings, NEW e \in Entries,
                      Passes(c, e), ~(c = "database" /\ loadState = "failed")
               PROVE  e \in ToSet(held[c])
    BY DEF NobodySkipped
  <2>1. PICK m \in DOMAIN fanCalls : /\ e \in ToSet(fanCalls[m].batch) /\ fanCalls[m].op = "write"
                                     /\ e \in FanEntry
    BY <1>5
  <2>2. ToSet(ensured) = {} BY DEF ToSet
  <2>3. c = "database" => database
    <3>1. PICK f \in {"off", "one", "split"} : file = f BY <1>0 DEF FanTypes
    <3>2. c \in Files => c \in FileLevels \/ c = "file" BY <3>1 DEF Files
    <3> QED BY <3>2 DEF FanAssumption, Siblings
  <2>4. c = "database" => loadState = "loaded"
    BY <2>1, <2>2, <2>3, <1>0 DEF EnsureQueue, FanTypes
  <2>5. m \in GivenTo(c) BY <2>1, <2>2, <2>4 DEF GivenTo
  <2>6. ChildOK(c, fanCalls, GivenTo(c), held[c], shut[c]) BY <1>3, <1>4
  <2> QED BY <2>1, <2>5, <2>6 DEF ChildOK
<1>9. ResolvedIsHeld
  <2> SUFFICES ASSUME NEW n \in DOMAIN fanCalls, fanCalls[n].op = "write", fanCalls[n].result = "resolved",
                      NEW c \in Siblings, NEW e \in ToSet(Part(c, fanCalls[n].batch))
               PROVE  e \in ToSet(held[c])
    BY DEF ResolvedIsHeld
  <2>1. fanCalls[n].batch \in Seq(FanEntry) /\ n <= n BY <1>1, <1>2, CallFields
  <2>2. e \in ToSet(fanCalls[n].batch) /\ Passes(c, e) BY <2>1, PartShape
  <2>3. e \in FanEntry BY <2>2, <1>0, <1>1, CallNumbers
  <2>4. n \in GivenTo(c) BY <2>1, ResolvedGiven
  <2>5. ChildOK(c, fanCalls, GivenTo(c), held[c], shut[c]) BY <1>3, <1>4
  <2> QED BY <2>2, <2>3, <2>4, <2>5 DEF ChildOK
<1>10. ClosedAfterEntries
  <2> SUFFICES ASSUME NEW n \in DOMAIN fanCalls, fanCalls[n].op = "close", fanCalls[n].result = "resolved",
                      NEW c \in Siblings
               PROVE  /\ shut[c] # Open
                      /\ (\A m \in 1 .. n - 1 : fanCalls[m].op # "close") =>
                           \A e \in Entries : e.id <= fanCalls[n].upTo /\ Passes(c, e) =>
                               \E i \in 1 .. shut[c] : held[c][i] = e
    BY DEF ClosedAfterEntries
  <2>1. fanCalls[n].upTo \in Nat /\ n <= n BY <1>1, <1>2, CallFields
  <2>2. n \in GivenTo(c) BY <2>1, ResolvedGiven
  <2>3. ChildOK(c, fanCalls, GivenTo(c), held[c], shut[c]) BY <1>3, <1>4
  <2>4. shut[c] # Open BY <2>2, <2>3 DEF ChildOK
  <2>5. ASSUME \A m \in 1 .. n - 1 : fanCalls[m].op # "close",
               NEW e \in Entries, e.id <= fanCalls[n].upTo, Passes(c, e)
        PROVE  \E i \in 1 .. shut[c] : held[c][i] = e
    <3>1. PICK m \in DOMAIN fanCalls : /\ e \in ToSet(fanCalls[m].batch) /\ fanCalls[m].op = "write"
                                       /\ e \in FanEntry /\ fanCalls[m].upTo < e.id /\ e.id \in Nat
      BY <1>5
    <3>2. m <= n
      <4>1. SUFFICES ASSUME n < m PROVE FALSE BY <1>2
      <4>2. fanCalls[n].upTo + Len(fanCalls[n].batch) <= fanCalls[m].upTo BY <4>1, <1>0 DEF NumberedCalls
      <4>3. Len(fanCalls[n].batch) \in Nat /\ fanCalls[m].upTo \in Nat BY <1>1, CallFields
      <4> QED BY <4>2, <4>3, <3>1, <2>1, <2>5
    <3>3. m \in GivenTo(c) BY <3>1, <3>2, ResolvedGiven
    <3>4. e \in ToSet(held[c]) BY <3>1, <3>3, <2>3, <2>5 DEF ChildOK
    <3> QED BY <3>4, <2>2, <2>3, <2>5 DEF ChildOK
  <2> QED BY <2>4, <2>5
<1> QED BY <1>6, <1>7, <1>8, <1>9, <1>10 DEF SiblingsConsistent

\* Whatever is loaded when and whichever sibling fails, no child misses an entry,
\* gets one twice or out of order, or is closed before what was written.
THEOREM SiblingsConsistentCorrect == FanSpec => []SiblingsConsistent
<1>1. FanInit => FanInv BY FanAssumption, FanInitInv
<1>2. FanInv /\ [FanNext]_fanVars => FanInv' BY FanAssumption, FanStep
<1>3. FanInv => SiblingsConsistent BY FanAssumption, FanInvGives
<1> QED BY <1>1, <1>2, <1>3, PTL DEF FanSpec

-----------------------------------------------------------------------------
(* The transports of every logger.                                         *)

Regs == [inner : Transports, wrapper : Nat, min : {0, 1, 2}]
OfInner(t) == {r \in Regs : r.inner = t}
Passing(level) == {r \in Regs : level >= r.min}

GlobalTypes ==
    /\ globalTransports \in Seq(Regs) /\ wrappers \in Nat
    /\ leveledWrappers \in [Transports -> Regs]
    /\ \A t \in Transports : leveledWrappers[t].inner = t
    /\ dispatching \in [level : {0, 1, 2}, left : Seq(Regs), due : Seq(Regs), got : Seq(Regs)]

\* A wrapper is registered once.
WrappersDiffer ==
    /\ \A i \in DOMAIN globalTransports : globalTransports[i].wrapper \in 0 .. wrappers
    /\ \A i, j \in DOMAIN globalTransports :
         i # j /\ globalTransports[i].wrapper # 0
           => globalTransports[i].wrapper # globalTransports[j].wrapper

\* The map of wrappers tells what is registered for a transport that was never
\* added twice nor cleared while it had a level.
MapTellsList ==
    \A t \in Transports \ irregular :
       \/ Registered(t) = <<>> /\ leveledWrappers[t] = Bare(t)
       \/ Registered(t) = <<leveledWrappers[t]>>

\* What has been handed the entry is the part of the snapshot it passed already.
HandedOver ==
    \E seen \in Seq(Regs) : /\ dispatching.due = seen \o dispatching.left
                            /\ dispatching.got = Among(seen, Passing(dispatching.level))

GlobalInv == GlobalTypes /\ WrappersDiffer /\ MapTellsList /\ HandedOver

\* What is registered for a transport, read from the list.
LEMMA OfInnerAmong ==
    ASSUME NEW g \in Seq(Regs), NEW t
    PROVE  LET q == Among(g, {r \in ToSet(g) : r.inner = t})
           IN  /\ q = Among(g, OfInner(t)) /\ q \in Seq(Regs)
               /\ \A r : r \in ToSet(q) <=> r \in ToSet(g) /\ r.inner = t
<1> DEFINE S == {r \in ToSet(g) : r.inner = t}
<1>1. \A r \in ToSet(g) : r \in Regs
  BY ElementOfSeq, LenProperties DEF ToSet
<1>2. \A r \in ToSet(g) : r \in S <=> r \in OfInner(t)
  BY <1>1 DEF OfInner
<1>3. \A r : r \in S <=> r \in ToSet(g) /\ r.inner = t
  OBVIOUS
<1> HIDE DEF S
<1>4. Among(g, S) = Among(g, OfInner(t))
  BY <1>2, AmongAgree
<1>5. Among(g, S) \in Seq(Regs) /\ \A r : r \in ToSet(Among(g, S)) <=> r \in ToSet(g) /\ r \in S
  BY AmongElements
<1> QED  BY <1>3, <1>4, <1>5 DEF S

LEMMA RegisteredIs ==
    ASSUME GlobalTypes, NEW t
    PROVE  /\ Registered(t) = Among(globalTransports, OfInner(t)) /\ Registered(t) \in Seq(Regs)
           /\ \A r : r \in ToSet(Registered(t)) <=> r \in ToSet(globalTransports) /\ r.inner = t
BY OfInnerAmong DEF Registered, GlobalTypes

\* What is registered after a step.
LEMMA RegisteredNext ==
    ASSUME globalTransports' \in Seq(Regs), NEW t
    PROVE  Registered(t)' = Among(globalTransports', OfInner(t)) /\ Registered(t)' \in Seq(Regs)
BY OfInnerAmong DEF Registered

\* The list without its i-th registration: what it tells of each transport.
LEMMA OfInnerCutOut ==
    ASSUME NEW g \in Seq(Regs), NEW i \in 1 .. Len(g), NEW t
    PROVE  LET h == SubSeq(g, 1, i - 1) \o SubSeq(g, i + 1, Len(g))
           IN  /\ g[i].inner # t => Among(h, OfInner(t)) = Among(g, OfInner(t))
               /\ g[i].inner = t =>
                    \E a, b \in Seq(Regs) : /\ Among(g, OfInner(t)) = (a \o <<g[i]>>) \o b
                                            /\ Among(h, OfInner(t)) = a \o b
<1> DEFINE a == SubSeq(g, 1, i - 1)
           b == SubSeq(g, i + 1, Len(g))
           x == g[i]
<1>1. a \in Seq(Regs) /\ b \in Seq(Regs) /\ x \in Regs /\ g = (a \o <<x>>) \o b
  BY CutOut
<1>2. x \in OfInner(t) <=> x.inner = t
  BY <1>1 DEF OfInner
<1> HIDE DEF a, b, x
<1> DEFINE c == Among(a, OfInner(t))
           d == Among(b, OfInner(t))
<1>3. /\ c \in Seq(Regs) /\ d \in Seq(Regs)
      /\ x \in OfInner(t) => Among(g, OfInner(t)) = (c \o <<x>>) \o d
      /\ x \notin OfInner(t) => Among(g, OfInner(t)) = c \o d
      /\ Among(a \o b, OfInner(t)) = c \o d
  <2>1. <<x>> \in Seq(Regs) /\ a \o <<x>> \in Seq(Regs)
    BY <1>1, ConcatProperties
  <2>2. c \in Seq(Regs) /\ d \in Seq(Regs)
    BY <1>1, AmongElements
  <2>3. ASSUME NEW p \in Seq(Regs), NEW q \in Seq(Regs)
        PROVE  Among(p \o q, OfInner(t)) = Among(p, OfInner(t)) \o Among(q, OfInner(t))
    BY AmongConcat
  <2>4. Among((a \o <<x>>) \o b, OfInner(t)) = Among(a \o <<x>>, OfInner(t)) \o d
    BY <1>1, <2>1, <2>3
  <2>5. Among(a \o <<x>>, OfInner(t)) = c \o Among(<<x>>, OfInner(t))
    BY <1>1, <2>1, <2>3
  <2>6. Among(<<x>>, OfInner(t)) = IF x \in OfInner(t) THEN <<x>> ELSE <<>>
    BY <1>1, AmongOne
  <2>7. c \o <<>> = c
    BY <2>2, ConcatEmptySeq
  <2>8. Among(a \o b, OfInner(t)) = c \o d
    BY <1>1, <2>3
  <2> HIDE DEF c, d
  <2> QED  BY <1>1, <2>2, <2>4, <2>5, <2>6, <2>7, <2>8
<1> HIDE DEF c, d
<1>4. /\ x.inner # t => Among(a \o b, OfInner(t)) = Among(g, OfInner(t))
      /\ x.inner = t => \E p, q \in Seq(Regs) : /\ Among(g, OfInner(t)) = (p \o <<x>>) \o q
                                                 /\ Among(a \o b, OfInner(t)) = p \o q
  BY <1>1, <1>2, <1>3
<1> QED  BY <1>4 DEF a, b, x

\* Nothing but the list and the transport's own entry of the map matters to the
\* invariant's parts about the registered transports.
LEMMA RegisteredStays ==
    ASSUME UNCHANGED globalTransports, NEW t
    PROVE  Registered(t)' = Registered(t)
BY DEF Registered

\* A transport registered behind the list: what is registered for each.
LEMMA RegisteredAppend ==
    ASSUME GlobalTypes, NEW r \in Regs,
           globalTransports' = Append(globalTransports, r), NEW t
    PROVE  Registered(t)' = IF r.inner = t THEN Append(Registered(t), r) ELSE Registered(t)
<1>1. globalTransports \in Seq(Regs) /\ (r \in OfInner(t) <=> r.inner = t)
  BY DEF GlobalTypes, OfInner
<1>2. Registered(t)' = Among(Append(globalTransports, r), OfInner(t))
  BY <1>1, AppendProperties, RegisteredNext
<1>3. Registered(t) = Among(globalTransports, OfInner(t))
  BY RegisteredIs
<1> QED  BY <1>1, <1>2, <1>3, AmongAppend

\* At the start nothing is registered and nothing under way.
LEMMA GlobalInitInv == GlobalInit => GlobalInv
<1> SUFFICES ASSUME GlobalInit PROVE GlobalInv
  OBVIOUS
<1>1. GlobalTypes
  BY DEF GlobalInit, GlobalTypes, Regs, Bare, NoEntry
<1>2. WrappersDiffer
  BY DEF GlobalInit, WrappersDiffer
<1>3. MapTellsList
  <2>1. \A t : Registered(t) = <<>>
    <3>1. globalTransports = <<>> /\ ToSet(<<>>) = {} /\ <<>> \in Seq(Regs)
      BY DEF GlobalInit, ToSet
    <3>2. \A t : Among(<<>>, OfInner(t)) = <<>>
      BY NoneAmong
    <3> QED  BY <1>1, <3>1, <3>2, RegisteredIs
  <2> QED  BY <2>1 DEF GlobalInit, MapTellsList
<1>4. HandedOver
  <2>1. <<>> \in Seq(Regs) /\ ToSet(<<>>) = {} /\ <<>> = <<>> \o <<>>
    BY DEF ToSet
  <2>2. \A level : Among(<<>>, Passing(level)) = <<>>
    BY NoneAmong
  <2>3. /\ dispatching.due = <<>> /\ dispatching.left = <<>> /\ dispatching.got = <<>>
    BY DEF GlobalInit, NoEntry
  <2> QED  BY <2>1, <2>2, <2>3 DEF HandedOver
<1> QED  BY <1>1, <1>2, <1>3, <1>4 DEF GlobalInv

\* addTransport(), with a level (leveled # Bare(t)) or without.
LEMMA AddInv ==
    ASSUME GlobalInv, NEW t \in Transports, NEW r \in Regs, r.inner = t,
           globalTransports' = Append(globalTransports, r),
           \/ r.wrapper = 0 /\ r = Bare(t) /\ UNCHANGED <<leveledWrappers, wrappers>>
           \/ /\ r.wrapper = wrappers + 1 /\ wrappers' = wrappers + 1
              /\ leveledWrappers' = [leveledWrappers EXCEPT ![t] = r],
           irregular' = irregular \cup Twice(t), UNCHANGED dispatching
    PROVE  /\ GlobalInv'
           /\ \A u \in Transports :
                Registered(u)' = Registered(u) \/ Front(Registered(u)') = Registered(u)
           /\ Len(globalTransports') >= Len(globalTransports) - 1
<1> DEFINE n == Len(globalTransports)
<1>1. /\ globalTransports \in Seq(Regs) /\ wrappers \in Nat /\ n \in Nat
      /\ leveledWrappers \in [Transports -> Regs] /\ \A u \in Transports : leveledWrappers[u].inner = u
      /\ DOMAIN globalTransports = 1 .. n
  BY LenProperties DEF GlobalInv, GlobalTypes
<1>2. /\ globalTransports' \in Seq(Regs) /\ Len(globalTransports') = n + 1
      /\ DOMAIN globalTransports' = 1 .. n + 1 /\ globalTransports'[n + 1] = r
      /\ \A i \in 1 .. n : globalTransports'[i] = globalTransports[i]
  BY <1>1, AppendProperties, LenProperties
<1>3. /\ leveledWrappers' \in [Transports -> Regs] /\ \A u \in Transports : leveledWrappers'[u].inner = u
      /\ \A u \in Transports \ {t} : leveledWrappers'[u] = leveledWrappers[u]
      /\ leveledWrappers'[t] = r \/ (r = Bare(t) /\ leveledWrappers'[t] = leveledWrappers[t])
  BY <1>1
<1>4. wrappers' \in Nat /\ wrappers <= wrappers'
  BY <1>1
<1>5. GlobalTypes'
  BY <1>2, <1>3, <1>4 DEF GlobalInv, GlobalTypes
<1> HIDE DEF n
<1>6. WrappersDiffer'
  <2>1. \A i \in 1 .. n : globalTransports[i].wrapper \in 0 .. wrappers
    BY <1>1 DEF GlobalInv, WrappersDiffer
  <2>2. \A i : i \in 1 .. n + 1 <=> i \in 1 .. n \/ i = n + 1
    BY <1>1
  <2>3. r.wrapper = 0 \/ (r.wrapper = wrappers + 1 /\ wrappers' = wrappers + 1)
    OBVIOUS
  <2>4. \A i \in 1 .. n + 1 : globalTransports'[i].wrapper \in 0 .. wrappers'
    <3> TAKE i \in 1 .. n + 1
    <3>1. CASE i \in 1 .. n
      <4>1. globalTransports[i].wrapper \in 0 .. wrappers
        BY <2>1, <3>1
      <4> QED  BY <1>1, <1>2, <1>4, <3>1, <4>1
    <3>2. CASE i = n + 1
      BY <1>1, <1>2, <1>4, <2>3, <3>2
    <3> QED  BY <2>2, <3>1, <3>2
  <2>5. ASSUME NEW i \in 1 .. n + 1, NEW j \in 1 .. n + 1, i # j, globalTransports'[i].wrapper # 0
        PROVE  globalTransports'[i].wrapper # globalTransports'[j].wrapper
    <3>1. CASE i \in 1 .. n /\ j \in 1 .. n
      <4>1. /\ globalTransports'[i] = globalTransports[i] /\ globalTransports'[j] = globalTransports[j]
            /\ i \in DOMAIN globalTransports /\ j \in DOMAIN globalTransports
        BY <1>1, <1>2, <3>1
      <4> QED  BY <2>5, <4>1 DEF GlobalInv, WrappersDiffer
    <3>2. CASE i = n + 1 /\ j \in 1 .. n
      <4>1. globalTransports[j].wrapper \in 0 .. wrappers
        BY <2>1, <3>2
      <4>2. globalTransports'[i].wrapper = wrappers + 1 /\ globalTransports'[j] = globalTransports[j]
        BY <1>2, <2>3, <2>5, <3>2
      <4> QED  BY <1>1, <4>1, <4>2
    <3>3. CASE j = n + 1 /\ i \in 1 .. n
      <4>1. globalTransports[i].wrapper \in 0 .. wrappers
        BY <2>1, <3>3
      <4>2. /\ globalTransports'[j].wrapper \in {0, wrappers + 1}
            /\ globalTransports'[i] = globalTransports[i]
        BY <1>2, <2>3, <3>3
      <4> QED  BY <1>1, <2>5, <4>1, <4>2
    <3> QED  BY <2>2, <2>5, <3>1, <3>2, <3>3
  <2> QED  BY <1>2, <2>4, <2>5 DEF WrappersDiffer
<1>7. \A u : Registered(u)' = IF r.inner = u THEN Append(Registered(u), r) ELSE Registered(u)
  BY <1>5, RegisteredAppend DEF GlobalInv
<1>8. MapTellsList'
  <2> SUFFICES ASSUME NEW u \in Transports \ irregular'
               PROVE  \/ Registered(u)' = <<>> /\ leveledWrappers'[u] = Bare(u)
                      \/ Registered(u)' = <<leveledWrappers'[u]>>
    BY DEF MapTellsList, Bare
  <2>1. CASE u # t
    <3>1. u \in Transports \ irregular
      BY <2>1
    <3> QED  BY <1>3, <1>7, <2>1, <3>1 DEF GlobalInv, MapTellsList
  <2>2. CASE u = t
    <3>1. Registered(t) = <<>> /\ t \notin irregular
      BY <2>2 DEF Twice
    <3>2. leveledWrappers[t] = Bare(t)
      <4>1. <<>> # <<leveledWrappers[t]>>
        OBVIOUS
      <4> QED  BY <3>1, <4>1 DEF GlobalInv, MapTellsList
    <3>3. Append(<<>>, r) = <<r>>
      OBVIOUS
    <3> QED  BY <1>3, <1>7, <2>2, <3>1, <3>2, <3>3
  <2> QED  BY <2>1, <2>2
<1>9. HandedOver'
  BY DEF GlobalInv, HandedOver
<1>10. \A u \in Transports : Registered(u)' = Registered(u) \/ Front(Registered(u)') = Registered(u)
  <2> SUFFICES ASSUME NEW u \in Transports, r.inner = u
               PROVE  Front(Registered(u)') = Registered(u)
    BY <1>7
  <2>1. Registered(u) \in Seq(Regs) /\ Registered(u)' = Append(Registered(u), r)
    BY <1>7, RegisteredIs DEF GlobalInv
  <2> DEFINE q == Registered(u)
  <2> HIDE DEF q
  <2>2. Front(Append(q, r)) = q
    BY <2>1, AppendProperties, CutConcat DEF q, Front
  <2> QED  BY <2>1, <2>2 DEF q
<1> QED  BY <1>1, <1>2, <1>5, <1>6, <1>8, <1>9, <1>10 DEF GlobalInv, n

\* removeTransport().
LEMMA RemoveInv ==
    ASSUME GlobalInv, NEW t \in Transports, RemoveTransport(t)
    PROVE  /\ GlobalInv'
           /\ t \notin irregular => Registered(t)' = <<>>
           /\ \A u \in Transports \ {t} : Registered(u)' = Registered(u)
           /\ Len(globalTransports') >= Len(globalTransports) - 1
<1> DEFINE g == globalTransports
           n == Len(g)
           e == leveledWrappers[t]
<1>1. /\ g \in Seq(Regs) /\ wrappers \in Nat /\ n \in Nat /\ DOMAIN g = 1 .. n
      /\ leveledWrappers \in [Transports -> Regs] /\ \A u \in Transports : leveledWrappers[u].inner = u
      /\ e \in Regs /\ e.inner = t
  BY LenProperties DEF GlobalInv, GlobalTypes
<1>2. /\ leveledWrappers' = [leveledWrappers EXCEPT ![t] = Bare(t)]
      /\ UNCHANGED <<wrappers, dispatching, irregular>> /\ g' = Spliced(g, e)
  BY DEF RemoveTransport
<1>3. /\ leveledWrappers' \in [Transports -> Regs] /\ \A u \in Transports : leveledWrappers'[u].inner = u
      /\ leveledWrappers'[t] = Bare(t)
      /\ \A u \in Transports \ {t} : leveledWrappers'[u] = leveledWrappers[u]
  <2>1. Bare(t) \in Regs /\ Bare(t).inner = t
    BY DEF Bare, Regs
  <2> QED  BY <1>1, <1>2, <2>1
<1> DEFINE Shifted(i) ==
             /\ i \in 1 .. n /\ g[i] = e /\ g' = SubSeq(g, 1, i - 1) \o SubSeq(g, i + 1, n)
             /\ g' \in Seq(Regs) /\ Len(g') = n - 1
             /\ \A k \in 1 .. n - 1 : g'[k] = IF k < i THEN g[k] ELSE g[k + 1]
<1>4. (e \notin ToSet(g) /\ g' = g) \/ (e \in ToSet(g) /\ \E i : Shifted(i))
  <2>1. CASE e \notin ToSet(g)
    BY <1>2, <2>1 DEF Spliced
  <2>2. CASE e \in ToSet(g)
    <3>1. g' = RemoveFirst(g, e)
      BY <1>2, <2>2 DEF Spliced
    <3>2. PICK i \in 1 .. n : g[i] = e /\ RemoveFirst(g, e) = SubSeq(g, 1, i - 1) \o SubSeq(g, i + 1, n)
      BY <1>1, <2>2, RemoveFirstCuts
    <3>3. LET h == SubSeq(g, 1, i - 1) \o SubSeq(g, i + 1, n)
          IN  /\ h \in Seq(Regs) /\ Len(h) = n - 1
              /\ \A k \in 1 .. n - 1 : h[k] = IF k < i THEN g[k] ELSE g[k + 1]
      <4> HIDE DEF g
      <4> QED  BY <1>1, CutOut
    <3>4. Shifted(i)
      <4> HIDE DEF g, e
      <4> QED  BY <3>1, <3>2, <3>3
    <3> QED  BY <2>2, <3>4
  <2> QED  BY <2>1, <2>2
<1>5. g' \in Seq(Regs) /\ Len(g') \in Nat /\ n - 1 <= Len(g') /\ DOMAIN g' = 1 .. Len(g')
  <2>1. CASE g' = g
    BY <1>1, <2>1
  <2>2. CASE \E i : Shifted(i)
    <3>1. g' \in Seq(Regs) /\ Len(g') = n - 1
      BY <2>2
    <3> QED  BY <3>1, <1>1, LenProperties
  <2> QED  BY <1>4, <2>1, <2>2
<1>6. GlobalTypes'
  BY <1>2, <1>3, <1>5 DEF GlobalInv, GlobalTypes
<1>7. WrappersDiffer'
  <2>1. CASE g' = g
    BY <1>2, <2>1 DEF GlobalInv, WrappersDiffer
  <2>2. CASE \E i : Shifted(i)
    <3>1. PICK i : Shifted(i)
      BY <2>2
    <3> DEFINE at(k) == IF k < i THEN k ELSE k + 1
    <3>2. \A k \in 1 .. n - 1 : at(k) \in DOMAIN g /\ g'[k] = g[at(k)]
      <4>1. \A k \in 1 .. n - 1 : at(k) \in 1 .. n
        BY <1>1, <3>1
      <4>2. \A k \in 1 .. n - 1 : g'[k] = g[at(k)]
        BY <3>1
      <4> HIDE DEF at, Shifted, g
      <4> QED  BY <1>1, <4>1, <4>2
    <3>3. \A k, l \in 1 .. n - 1 : k # l => at(k) # at(l)
      BY <1>1, <3>1
    <3>4. DOMAIN g' = 1 .. n - 1
      BY <1>5, <3>1
    <3> HIDE DEF at, Shifted, g
    <3>5. /\ \A a \in DOMAIN g : g[a].wrapper \in 0 .. wrappers
          /\ \A a, b \in DOMAIN g :
               a # b /\ g[a].wrapper # 0 => g[a].wrapper # g[b].wrapper
      BY DEF GlobalInv, WrappersDiffer, g
    <3>6. \A k \in DOMAIN g' : g'[k].wrapper \in 0 .. wrappers'
      BY <1>2, <3>2, <3>4, <3>5
    <3>7. ASSUME NEW k \in DOMAIN g', NEW l \in DOMAIN g', k # l, g'[k].wrapper # 0
          PROVE  g'[k].wrapper # g'[l].wrapper
      <4>1. /\ at(k) \in DOMAIN g /\ g'[k] = g[at(k)]
            /\ at(l) \in DOMAIN g /\ g'[l] = g[at(l)]
            /\ at(k) # at(l)
        BY <3>2, <3>3, <3>4, <3>7
      <4> QED  BY <3>5, <3>7, <4>1
    <3> QED  BY <3>6, <3>7 DEF WrappersDiffer, g
  <2> QED  BY <1>4, <2>1, <2>2
<1>8. ASSUME NEW u
      PROVE  /\ Registered(u)' = Among(g', OfInner(u)) /\ Registered(u) = Among(g, OfInner(u))
             /\ e \in OfInner(u) <=> u = t
  <2>1. Registered(u)' = Among(g', OfInner(u))
    BY <1>5, RegisteredNext
  <2>2. Registered(u) = Among(g, OfInner(u))
    BY RegisteredIs DEF GlobalInv
  <2>3. e \in OfInner(u) <=> u = t
    BY <1>1 DEF OfInner
  <2> QED  BY <2>1, <2>2, <2>3
<1>9. \A u \in Transports \ {t} : Registered(u)' = Registered(u)
  <2> TAKE u \in Transports \ {t}
  <2>1. CASE g' = g
    BY <1>8, <2>1
  <2>2. CASE \E i : Shifted(i)
    <3>1. PICK i : Shifted(i)
      BY <2>2
    <3>2. /\ i \in 1 .. Len(g) /\ g[i].inner # u
          /\ g' = SubSeq(g, 1, i - 1) \o SubSeq(g, i + 1, Len(g))
      BY <1>1, <3>1
    <3>3. Among(g', OfInner(u)) = Among(g, OfInner(u))
      <4> HIDE DEF g
      <4> QED  BY <1>1, <3>2, OfInnerCutOut
    <3> QED  BY <1>8, <3>3
  <2> QED  BY <1>4, <2>1, <2>2
<1>10. ASSUME t \notin irregular PROVE Registered(t)' = <<>>
  <2>1. Registered(t) = <<>> \/ Registered(t) = <<e>>
    BY <1>10 DEF GlobalInv, MapTellsList
  <2>2. CASE e \notin ToSet(g) /\ g' = g
    <3>1. e \notin ToSet(Registered(t))
      BY <2>2, RegisteredIs DEF GlobalInv
    <3>2. ToSet(<<e>>) = {e}
      BY DEF ToSet
    <3> QED  BY <1>8, <2>1, <2>2, <3>1, <3>2
  <2>3. CASE \E i : Shifted(i)
    <3>1. PICK i : Shifted(i)
      BY <2>3
    <3>2. PICK a, b \in Seq(Regs) :
             Among(g, OfInner(t)) = (a \o <<e>>) \o b /\ Among(g', OfInner(t)) = a \o b
      <4>1. /\ i \in 1 .. Len(g) /\ g[i].inner = t /\ g[i] = e
            /\ g' = SubSeq(g, 1, i - 1) \o SubSeq(g, i + 1, Len(g))
        BY <1>1, <3>1
      <4> HIDE DEF g, e
      <4> QED  BY <1>1, <4>1, OfInnerCutOut
    <3>3. Len(a) \in Nat /\ Len(b) \in Nat /\ Len((a \o <<e>>) \o b) = Len(a) + 1 + Len(b)
      BY <1>1, <3>2
    <3>4. Len((a \o <<e>>) \o b) <= 1
      <4>1. Len(<<e>>) = 1 /\ Len(<<>>) = 0
        OBVIOUS
      <4> QED  BY <1>8, <2>1, <3>2, <4>1
    <3>5. Len(a) = 0 /\ Len(b) = 0
      BY <3>3, <3>4
    <3>6. a = <<>> /\ b = <<>>
      BY <3>2, <3>5, EmptySeq
    <3> QED  BY <1>8, <3>2, <3>6
  <2> QED  BY <1>4, <2>2, <2>3
<1>11. MapTellsList'
  <2> SUFFICES ASSUME NEW u \in Transports \ irregular'
               PROVE  \/ Registered(u)' = <<>> /\ leveledWrappers'[u] = Bare(u)
                      \/ Registered(u)' = <<leveledWrappers'[u]>>
    BY DEF MapTellsList, Bare
  <2>1. CASE u = t
    BY <1>2, <1>3, <1>10, <2>1
  <2>2. CASE u # t
    BY <1>2, <1>3, <1>9, <2>2 DEF GlobalInv, MapTellsList
  <2> QED  BY <2>1, <2>2
<1>12. HandedOver'
  BY <1>2 DEF GlobalInv, HandedOver
<1> QED  BY <1>5, <1>6, <1>7, <1>9, <1>10, <1>11, <1>12 DEF GlobalInv

\* clearTransports().
LEMMA ClearInv ==
    ASSUME GlobalInv, ClearTransports
    PROVE  GlobalInv' /\ \A t : Registered(t)' = <<>>
<1>1. /\ globalTransports' = <<>> /\ UNCHANGED <<leveledWrappers, wrappers, dispatching>>
      /\ irregular' = irregular \cup {t \in Transports : leveledWrappers[t] # Bare(t)}
  BY DEF ClearTransports
<1>2. GlobalTypes'
  BY <1>1 DEF GlobalInv, GlobalTypes
<1>3. \A t : Registered(t)' = <<>>
  <2>1. ToSet(<<>>) = {} /\ <<>> \in Seq(Regs)
    BY DEF ToSet
  <2>2. \A t : Among(<<>>, OfInner(t)) = <<>>
    BY NoneAmong
  <2>3. \A t : Registered(t)' = Among(globalTransports', OfInner(t))
    BY <1>1, <2>1, RegisteredNext
  <2> QED  BY <1>1, <2>2, <2>3
<1>4. MapTellsList'
  BY <1>1, <1>3 DEF MapTellsList, Bare
<1>5. WrappersDiffer'
  BY <1>1 DEF WrappersDiffer
<1>6. HandedOver'
  BY <1>1 DEF GlobalInv, HandedOver
<1> QED  BY <1>2, <1>3, <1>4, <1>5, <1>6 DEF GlobalInv

\* The list and the map are as before.
LEMMA RegistryStays ==
    ASSUME GlobalInv, GlobalTypes',
           UNCHANGED <<globalTransports, leveledWrappers, wrappers, irregular>>
    PROVE  WrappersDiffer' /\ MapTellsList'
<1>1. \A t : Registered(t)' = Registered(t)
  BY RegisteredStays DEF GlobalInv
<1> QED  BY <1>1 DEF GlobalInv, WrappersDiffer, MapTellsList, Bare

\* deliver(): the snapshot is taken.
LEMMA StartDispatchInv ==
    ASSUME GlobalInv, NEW level \in Levels, StartDispatch(level)
    PROVE  GlobalInv'
<1>1. /\ UNCHANGED <<globalTransports, leveledWrappers, wrappers, irregular>>
      /\ dispatching' = [level |-> level, left |-> globalTransports, due |-> globalTransports,
                         got |-> <<>>]
  BY DEF StartDispatch
<1>2. GlobalTypes'
  BY <1>1 DEF GlobalInv, GlobalTypes, Levels
<1>3. HandedOver'
  <2>1. globalTransports \in Seq(Regs) /\ <<>> \in Seq(Regs) /\ ToSet(<<>>) = {}
    BY DEF GlobalInv, GlobalTypes, ToSet
  <2>2. <<>> \o globalTransports = globalTransports /\ Among(<<>>, Passing(level)) = <<>>
    BY <2>1, NoneAmong, ConcatEmptySeq
  <2>3. /\ dispatching'.due = <<>> \o dispatching'.left
        /\ dispatching'.got = Among(<<>>, Passing(dispatching'.level))
    BY <1>1, <2>2
  <2> QED  BY <2>1, <2>3 DEF HandedOver, Passing
<1> QED  BY <1>1, <1>2, <1>3, RegistryStays DEF GlobalInv

\* dispatchToTransport(): the next of the snapshot has had the entry.
LEMMA DispatchNextInv ==
    ASSUME GlobalInv, DispatchNext
    PROVE  GlobalInv'
<1> DEFINE d == dispatching
           r == Head(d.left)
           l == Tail(d.left)
           got == IF d.level >= r.min THEN Append(d.got, r) ELSE d.got
<1>1. /\ UNCHANGED <<globalTransports, leveledWrappers, wrappers, irregular>> /\ d.left # <<>>
      /\ d' = [d EXCEPT !.left = l, !.got = got]
  BY DEF DispatchNext
<1>2. /\ d.left \in Seq(Regs) /\ d.due \in Seq(Regs) /\ d.got \in Seq(Regs) /\ d.level \in {0, 1, 2}
      /\ d = [level |-> d.level, left |-> d.left, due |-> d.due, got |-> d.got]
  BY DEF GlobalInv, GlobalTypes
<1>3. r \in Regs /\ l \in Seq(Regs) /\ d.left = <<r>> \o l
  BY <1>1, <1>2, HeadTailProperties
<1>4. d' = [level |-> d.level, left |-> l, due |-> d.due, got |-> got] /\ got \in Seq(Regs)
  <2>1. Append(d.got, r) \in Seq(Regs)
    BY <1>2, <1>3, AppendProperties
  <2> HIDE DEF r, l
  <2>2. got \in Seq(Regs)
    BY <1>2, <2>1
  <2> HIDE DEF got
  <2> QED  BY <1>1, <1>2, <2>2
<1> HIDE DEF r, l
<1>5. GlobalTypes'
  <2> HIDE DEF got
  <2> QED  BY <1>1, <1>2, <1>3, <1>4 DEF GlobalInv, GlobalTypes
<1>6. HandedOver'
  <2>1. PICK seen \in Seq(Regs) : d.due = seen \o d.left /\ d.got = Among(seen, Passing(d.level))
    BY DEF GlobalInv, HandedOver
  <2>2. Append(seen, r) \in Seq(Regs) /\ <<r>> \in Seq(Regs) /\ Append(seen, r) = seen \o <<r>>
    BY <1>3, <2>1, AppendProperties, AppendIsConcat
  <2>3. d.due = Append(seen, r) \o l
    BY <1>3, <2>1, <2>2, ConcatAssociative, SMTT(20)
  <2>4. got = Among(Append(seen, r), Passing(d.level))
    <3>1. r \in Passing(d.level) <=> d.level >= r.min
      BY <1>3 DEF Passing
    <3>2. Among(Append(seen, r), Passing(d.level))
            = IF r \in Passing(d.level) THEN Append(Among(seen, Passing(d.level)), r)
              ELSE Among(seen, Passing(d.level))
      BY <1>3, <2>1, AmongAppend
    <3> QED  BY <2>1, <3>1, <3>2
  <2> HIDE DEF got
  <2>5. /\ d'.due = Append(seen, r) \o d'.left
        /\ d'.got = Among(Append(seen, r), Passing(d'.level))
    BY <1>4, <2>3, <2>4
  <2> QED  BY <2>2, <2>5 DEF HandedOver, Passing
<1> QED  BY <1>1, <1>5, <1>6, RegistryStays DEF GlobalInv

LEMMA GlobalStutter ==
    ASSUME GlobalInv, UNCHANGED globalVars PROVE GlobalInv'
<1>1. /\ UNCHANGED <<globalTransports, leveledWrappers, wrappers, irregular>>
      /\ UNCHANGED dispatching
  BY DEF globalVars
<1>2. GlobalTypes'
  BY <1>1 DEF GlobalInv, GlobalTypes
<1>3. HandedOver'
  BY <1>1 DEF GlobalInv, HandedOver
<1> QED  BY <1>1, <1>2, <1>3, RegistryStays DEF GlobalInv

\* A change of the list: what the properties of the calls ask for.
Answered ==
    /\ \A t \in removed' \ irregular : Registered(t)' = <<>>
    /\ \A t \in Transports \ removed' :
         Registered(t)' = Registered(t) \/ Front(Registered(t)') = Registered(t)
    /\ removed' # Transports => Len(globalTransports') >= Len(globalTransports) - 1

\* Every step keeps the invariant, and every change answers its call.
LEMMA GlobalStep ==
    ASSUME GlobalInv, GlobalNext
    PROVE  GlobalInv' /\ (changes' # changes => Answered)
<1>1. CASE \E t \in Transports : AddTransport(t)
  <2>1. PICK t \in Transports : AddTransport(t)
    BY <1>1
  <2>2. /\ globalTransports' = Append(globalTransports, Bare(t)) /\ removed' = {}
        /\ irregular' = irregular \cup Twice(t)
        /\ UNCHANGED <<leveledWrappers, wrappers, dispatching>>
    BY <2>1 DEF AddTransport, Changes
  <2>3. Bare(t) \in Regs /\ Bare(t).inner = t /\ Bare(t).wrapper = 0
    BY DEF Bare, Regs
  <2> QED  BY <2>2, <2>3, AddInv DEF Answered
<1>2. CASE \E t \in Transports, min \in Levels : AddLeveled(t, min)
  <2>1. PICK t \in Transports, min \in Levels : AddLeveled(t, min)
    BY <1>2
  <2> DEFINE r == [inner |-> t, wrapper |-> wrappers + 1, min |-> min]
  <2>2. /\ globalTransports' = Append(globalTransports, r) /\ removed' = {}
        /\ leveledWrappers' = [leveledWrappers EXCEPT ![t] = r] /\ wrappers' = wrappers + 1
        /\ irregular' = irregular \cup Twice(t) /\ UNCHANGED dispatching
    BY <2>1 DEF AddLeveled, Changes
  <2>3. r \in Regs /\ r.inner = t /\ r.wrapper = wrappers + 1
    BY DEF GlobalInv, GlobalTypes, Regs, Levels
  <2> HIDE DEF r
  <2> QED  BY <2>2, <2>3, AddInv DEF Answered
<1>3. CASE \E t \in Transports : RemoveTransport(t)
  <2>1. PICK t \in Transports : RemoveTransport(t)
    BY <1>3
  <2>2. removed' = {t}
    BY <2>1 DEF RemoveTransport, Changes
  <2> QED  BY <2>1, <2>2, RemoveInv DEF Answered
<1>4. CASE ClearTransports
  <2>1. removed' = Transports
    BY <1>4 DEF ClearTransports, Changes
  <2> QED  BY <1>4, <2>1, ClearInv DEF Answered
<1>5. CASE \E level \in Levels : StartDispatch(level)
  BY <1>5, StartDispatchInv DEF StartDispatch
<1>6. CASE DispatchNext
  BY <1>6, DispatchNextInv DEF DispatchNext
<1> QED  BY <1>1, <1>2, <1>3, <1>4, <1>5, <1>6 DEF GlobalNext

LEMMA GlobalInvariant == GlobalSpec => []GlobalInv
<1>1. GlobalInv /\ [GlobalNext]_globalVars => GlobalInv'
  BY GlobalStep, GlobalStutter
<1> QED  BY <1>1, GlobalInitInv, PTL DEF GlobalSpec

\* The list of global transports and the map of wrappers: the code of
\* pipeline.core.ts and the static methods of logger.api.ts that use it.
THEOREM RegistryConsistentCorrect == GlobalSpec => RegistryConsistent
<1>1. GlobalInv => GlobalTypeOK
  <2> SUFFICES ASSUME GlobalInv PROVE GlobalTypeOK
    OBVIOUS
  <2>1. ASSUME NEW i \in DOMAIN globalTransports, NEW j \in DOMAIN globalTransports,
               i # j, globalTransports[i].wrapper # 0
        PROVE  globalTransports[i].wrapper \in 1 .. wrappers \ {globalTransports[j].wrapper}
    <3>1. globalTransports[i].wrapper \in 0 .. wrappers /\ wrappers \in Nat
      BY DEF GlobalInv, WrappersDiffer, GlobalTypes
    <3>2. globalTransports[i].wrapper # globalTransports[j].wrapper
      BY <2>1 DEF GlobalInv, WrappersDiffer
    <3> QED  BY <2>1, <3>1, <3>2
  <2> QED  BY <2>1 DEF GlobalTypeOK, GlobalInv, GlobalTypes
<1>2. GlobalInv => SnapshotReached
  <2> SUFFICES ASSUME GlobalInv, dispatching.left = <<>>
               PROVE  dispatching.got = Among(dispatching.due,
                        {r \in ToSet(dispatching.due) : dispatching.level >= r.min})
    BY DEF SnapshotReached
  <2> DEFINE due == dispatching.due
             S == {r \in ToSet(due) : dispatching.level >= r.min}
  <2>1. PICK seen \in Seq(Regs) : /\ due = seen \o dispatching.left
                                  /\ dispatching.got = Among(seen, Passing(dispatching.level))
    BY DEF GlobalInv, HandedOver
  <2>2. due = seen
    BY <2>1, ConcatEmptySeq
  <2>3. due \in Seq(Regs) /\ \A r \in ToSet(due) : r \in Regs
    BY <2>1, <2>2, ElementOfSeq, LenProperties DEF ToSet
  <2>4. \A r \in ToSet(due) : r \in S <=> r \in Passing(dispatching.level)
    BY <2>3 DEF Passing
  <2> HIDE DEF due, S
  <2>5. Among(due, S) = Among(due, Passing(dispatching.level))
    BY <2>3, <2>4, AmongAgree
  <2> QED  BY <2>1, <2>2, <2>5 DEF due, S
<1>3. GlobalInv /\ [GlobalNext]_globalVars =>
        [changes' # changes => \A t \in removed' \ irregular : Registered(t)' = <<>>]_globalVars
  BY GlobalStep DEF Answered
<1>4. GlobalInv /\ [GlobalNext]_globalVars =>
        [changes' # changes =>
          /\ \A t \in Transports \ removed' :
               Registered(t)' = Registered(t) \/ Front(Registered(t)') = Registered(t)
          /\ removed' # Transports => Len(globalTransports') >= Len(globalTransports) - 1]_globalVars
  BY GlobalStep DEF Answered
<1> QED  BY <1>1, <1>2, <1>3, <1>4, GlobalInvariant, PTL
         DEF GlobalSpec, RegistryConsistent, RemoveRemoves, OthersStay

-----------------------------------------------------------------------------
(* The settings of a tree of loggers.                                      *)

USE DEF settingsTreeVars

\* A patch: box and task are laid over what they patch, so their shape matters.
IsPatch(p) == p.box \in {Unset, False} \cup Boxes /\ p.task \in {Unset} \cup Tasks

PlainFields == {"level", "blackbox", "sampling", "profile", "redactKeys", "redactPaths",
                "redactPii", "serializers", "mixin", "filters", "schemaVersion", "baseFields", "file"}

\* A patch laid over another one, field by field.
LEMMA OverlayFields ==
    ASSUME NEW old, NEW p
    PROVE  /\ \A f \in PlainFields : Overlay(old, p)[f] = Or(p[f], old[f])
           /\ Overlay(old, p).task =
                IF p.task = Unset THEN old.task
                ELSE IF old.task # Unset THEN OverTask(p.task, old.task) ELSE p.task
           /\ Overlay(old, p).box =
                IF p.box = Unset THEN old.box
                ELSE IF p.box # False /\ old.box \notin {Unset, False}
                     THEN OverBox(p.box, old.box) ELSE p.box
<1>1. DOMAIN Blank = PlainFields \cup {"box", "task"}
  BY DEF Blank, PlainFields
<1>2. \A f \in PlainFields : Overlay(old, p)[f] = Or(p[f], old[f])
  BY <1>1 DEF Overlay, Or, PlainFields
<1>3. Overlay(old, p).task =
        IF p.task = Unset THEN old.task
        ELSE IF old.task # Unset THEN OverTask(p.task, old.task) ELSE p.task
  BY <1>1 DEF Overlay
<1>4. Overlay(old, p).box =
        IF p.box = Unset THEN old.box
        ELSE IF p.box # False /\ old.box \notin {Unset, False}
             THEN OverBox(p.box, old.box) ELSE p.box
  BY <1>1 DEF Overlay
<1> QED  BY <1>2, <1>3, <1>4

\* Objects laid over objects are objects.
LEMMA OverTyped ==
    /\ \A a, b \in Boxes : OverBox(a, b) \in Boxes
    /\ \A a, b \in Tasks : OverTask(a, b) \in Tasks
    /\ BoxDefaults \in Boxes /\ TaskDefaults \in Tasks
BY DEF Boxes, Tasks, OverBox, OverTask, Or, BoxDefaults, TaskDefaults

\* A patch laid over a patch is a patch.
LEMMA OverlayTyped ==
    ASSUME NEW old, NEW p, IsPatch(old), IsPatch(p)
    PROVE  IsPatch(Overlay(old, p))
BY OverlayFields, OverTyped DEF IsPatch

\* Laying over is associative: what is merged into the resolved value of a patch
\* is what resolving both at once gives.
LEMMA OverAssociates ==
    ASSUME NEW a, NEW b, NEW c
    PROVE  /\ OverBox(a, OverBox(b, c)) = OverBox(OverBox(a, b), c)
           /\ OverTask(a, OverTask(b, c)) = OverTask(OverTask(a, b), c)
BY DEF OverBox, OverTask, Or

\* The record of the settings, and that its fields are all of it.
HasFields(s) ==
    s = [f \in PlainFields \cup {"box", "task"} |-> s[f]]

LEMMA FieldsDetermine ==
    ASSUME NEW s, NEW t, HasFields(s), HasFields(t),
           \A f \in PlainFields \cup {"box", "task"} : s[f] = t[f]
    PROVE  s = t
BY DEF HasFields

\* mergeSettings() into what resolveSettings() made of a patch is
\* resolveSettings() of one patch laid over the other, for every two patches.
THEOREM MergeResolves ==
    ASSUME SettingsAssumption, NEW old, NEW p, IsPatch(old), IsPatch(p)
    PROVE  MergeSettings(ResolveSettings(old), p) = ResolveSettings(Overlay(old, p))
<1> DEFINE o == Overlay(old, p)
           m == MergeSettings(ResolveSettings(old), p)
           r == ResolveSettings(o)
<1>0. /\ o.level = Or(p.level, old.level) /\ o.blackbox = Or(p.blackbox, old.blackbox)
      /\ o.sampling = Or(p.sampling, old.sampling) /\ o.profile = Or(p.profile, old.profile)
      /\ o.redactKeys = Or(p.redactKeys, old.redactKeys)
      /\ o.redactPaths = Or(p.redactPaths, old.redactPaths)
      /\ o.redactPii = Or(p.redactPii, old.redactPii)
      /\ o.serializers = Or(p.serializers, old.serializers) /\ o.mixin = Or(p.mixin, old.mixin)
      /\ o.filters = Or(p.filters, old.filters)
      /\ o.schemaVersion = Or(p.schemaVersion, old.schemaVersion)
      /\ o.baseFields = Or(p.baseFields, old.baseFields) /\ o.file = Or(p.file, old.file)
  BY OverlayFields DEF PlainFields
<1> HIDE DEF o
<1>a. m.level = r.level
  BY <1>0 DEF MergeSettings, ResolveSettings, Or
<1>d. m.redactKeys = r.redactKeys
  BY <1>0 DEF MergeSettings, ResolveSettings, Or
<1>e. m.redactPaths = r.redactPaths
  BY <1>0 DEF MergeSettings, ResolveSettings, Or
<1>b. m.serializers = r.serializers /\ m.mixin = r.mixin
  BY <1>0 DEF MergeSettings, ResolveSettings, Or
<1>c. m.filters = r.filters /\ m.schemaVersion = r.schemaVersion
  BY <1>0 DEF MergeSettings, ResolveSettings, Or
<1>2. m.blackbox = r.blackbox
  BY <1>0 DEF MergeSettings, ResolveSettings, Or
<1>f. m.sampling = r.sampling
  BY <1>0 DEF MergeSettings, ResolveSettings, Or
<1>g. m.profile = r.profile
  BY <1>0 DEF MergeSettings, ResolveSettings, Or
<1>3. m.redactPii = r.redactPii /\ m.baseFields = r.baseFields
  BY <1>0 DEF MergeSettings, ResolveSettings, Or
<1>4. m.file = r.file
  BY <1>0 DEF MergeSettings, ResolveSettings, Or, SanitizeFile, SettingsAssumption
<1>5. m.box = r.box
  <2>0. o.box = IF p.box = Unset THEN old.box
                ELSE IF p.box # False /\ old.box \notin {Unset, False}
                     THEN OverBox(p.box, old.box) ELSE p.box
    BY OverlayFields DEF o
  <2>1. /\ m.box = IF p.box \in {Unset, False} THEN Or(p.box, ResolveSettings(old).box)
                   ELSE OverBox(p.box, IF ResolveSettings(old).box = False THEN BoxDefaults
                                       ELSE ResolveSettings(old).box)
        /\ ResolveSettings(old).box =
             IF old.box \in {Unset, False} THEN False ELSE OverBox(old.box, BoxDefaults)
        /\ r.box = IF o.box \in {Unset, False} THEN False ELSE OverBox(o.box, BoxDefaults)
    BY DEF MergeSettings, MergeBox, ResolveSettings
  <2>2. \A b \in Boxes : b # False /\ b # Unset
    BY DEF SettingsAssumption
  <2>3. CASE p.box \in {Unset, False}
    BY <2>0, <2>1, <2>3 DEF Or, SettingsAssumption
  <2>4. CASE p.box \notin {Unset, False} /\ old.box \in {Unset, False}
    BY <2>0, <2>1, <2>4
  <2>5. CASE p.box \notin {Unset, False} /\ old.box \notin {Unset, False}
    <3>1. p.box \in Boxes /\ old.box \in Boxes
      BY <2>5 DEF IsPatch
    <3>2. OverBox(old.box, BoxDefaults) \in Boxes /\ OverBox(p.box, old.box) \in Boxes
      BY <3>1, OverTyped
    <3>3. m.box = OverBox(p.box, OverBox(old.box, BoxDefaults))
      BY <2>1, <2>2, <2>5, <3>2
    <3>4. r.box = OverBox(OverBox(p.box, old.box), BoxDefaults)
      BY <2>0, <2>1, <2>2, <2>5, <3>2
    <3> QED  BY <3>3, <3>4, OverAssociates
  <2> QED  BY <2>3, <2>4, <2>5
<1>6. m.task = r.task
  <2>0. o.task = IF p.task = Unset THEN old.task
                 ELSE IF old.task # Unset THEN OverTask(p.task, old.task) ELSE p.task
    BY OverlayFields DEF o
  <2>1. /\ m.task = IF p.task = Unset THEN ResolveSettings(old).task
                    ELSE OverTask(p.task, ResolveSettings(old).task)
        /\ ResolveSettings(old).task =
             IF old.task = Unset THEN TaskDefaults ELSE OverTask(old.task, TaskDefaults)
        /\ r.task = IF o.task = Unset THEN TaskDefaults ELSE OverTask(o.task, TaskDefaults)
    BY DEF MergeSettings, ResolveSettings
  <2>2. CASE p.task = Unset \/ old.task = Unset
    BY <2>0, <2>1, <2>2
  <2>3. CASE p.task # Unset /\ old.task # Unset
    <3>1. OverTask(p.task, old.task) \in Tasks
      BY <2>3, OverTyped DEF IsPatch
    <3>2. OverTask(p.task, old.task) # Unset
      BY <3>1 DEF SettingsAssumption
    <3> QED  BY <2>0, <2>1, <2>3, <3>2, OverAssociates
  <2> QED  BY <2>2, <2>3
<1>7. HasFields(m) /\ HasFields(r)
  <2>1. ASSUME NEW x PROVE HasFields(ResolveSettings(x))
    BY DEF ResolveSettings, HasFields, PlainFields
  <2>2. HasFields(m)
    BY DEF MergeSettings, HasFields, PlainFields
  <2> QED  BY <2>1, <2>2
<1> HIDE DEF m, r
<1>8. \A f \in PlainFields \cup {"box", "task"} : m[f] = r[f]
  BY <1>a, <1>b, <1>c, <1>d, <1>e, <1>f, <1>g, <1>2, <1>3, <1>4, <1>5, <1>6 DEF PlainFields
<1>9. m = r
  BY <1>7, <1>8, FieldsDetermine
<1> QED  BY <1>9 DEF m, r, o

\* What applyHotSettings() leaves of a logger after n patches in the program: the
\* second profiler takes one that was registered and one that was switched off.
HotOK(l, n) ==
    LET s == l.settings
    IN  /\ l.level = s.level
        /\ l.plan = "buildEntryFast" => FastSuffices(s)
        /\ l.ring = 0 <=> s.blackbox = False
        /\ l.profiler # 0 => s.profile # False
        /\ s.profile # False => l.registered
        /\ l.registered \in BOOLEAN
        /\ l.registered => n > 0
        /\ l.registered /\ l.profiler = 0 => n > 1
        /\ s.profile # False /\ l.profiler = 0 => n > 2
        /\ (s.profile # False /\ l.profiler = 0) \/ l.builtFor = <<s.file, s.box>>
        /\ l.builtFor[1] # "blocked"

SettingsInv ==
    /\ patches \in Nat
    /\ \E S : loggers \in Seq(S)
    /\ \E S : given \in Seq(S)
    /\ Len(given) = Len(loggers)
    /\ \A i \in DOMAIN loggers :
         /\ IsPatch(given[i]) /\ loggers[i].settings = ResolveSettings(given[i])
         /\ HotOK(loggers[i], patches)

\* The shapes of the resolved values.
LEMMA Resolved ==
    ASSUME SettingsAssumption, NEW g
    PROVE  LET s == ResolveSettings(g)
           IN  /\ s.file # "blocked" /\ (g.file = "blocked" => s.file = False)
               /\ s.blackbox # False => s.blackbox.path # "blocked" /\ s.blackbox.size # 0
               /\ s.profile # False => s.profile # 0
<1> DEFINE s == ResolveSettings(g)
<1>1. s.file # "blocked" /\ (g.file = "blocked" => s.file = False)
  BY DEF ResolveSettings, SanitizeFile, Or, SettingsAssumption
<1>2. s.blackbox # False => s.blackbox.path # "blocked" /\ s.blackbox.size # 0
  <2>1. s.blackbox = BuildBlackbox(Or(g.blackbox, False))
    BY DEF ResolveSettings
  <2> HIDE DEF s
  <2>2. Unset # "blocked"
    BY DEF SettingsAssumption
  <2> QED  BY <2>1, <2>2 DEF BuildBlackbox, AtLeastOne
<1>3. s.profile # False => s.profile # 0
  <2>1. s.profile = BuildProfile(Or(g.profile, False))
    BY DEF ResolveSettings
  <2> HIDE DEF s
  <2> QED  BY <2>1 DEF BuildProfile, AtLeastOne
<1> QED  BY <1>1, <1>2, <1>3

\* The fast builder is chosen only where it suffices.
LEMMA PlanFits ==
    \A k, s : ApplyHot(k, s).plan = "buildEntryFast" => FastSuffices(s)
BY DEF ApplyHot, FastSuffices, Redacts

\* applyHotSettings() of a new logger.
LEMMA NewIsHot ==
    ASSUME SettingsAssumption, NEW g, NEW n \in Nat, ResolveSettings(g).profile # False => n > 0
    PROVE  /\ HotOK(NewLogger(ResolveSettings(g)), n)
           /\ NewLogger(ResolveSettings(g)).settings = ResolveSettings(g)
<1> DEFINE s == ResolveSettings(g)
           l == NewLogger(s)
<1>0. /\ s.file # "blocked" /\ (s.blackbox # False => s.blackbox.size # 0)
      /\ s.profile # False => s.profile # 0 /\ n > 0
  BY Resolved
<1> HIDE DEF s
<1>1. /\ l.settings = s /\ l.level = s.level /\ l.builtFor = <<s.file, s.box>>
      /\ l.plan = "buildEntryFast" => FastSuffices(s)
      /\ l.ring = IF s.blackbox = False THEN 0 ELSE s.blackbox.size
      /\ l.profiler = IF s.profile = False THEN 0 ELSE s.profile
      /\ l.registered = (s.profile # False)
  BY PlanFits DEF NewLogger, ApplyHot, Throws
<1> HIDE DEF l
<1>2. /\ l.ring = 0 <=> s.blackbox = False
      /\ l.profiler # 0 => s.profile # False
      /\ s.profile # False => l.profiler # 0
      /\ l.builtFor[1] # "blocked"
  BY <1>0, <1>1
<1>3. l.registered \in BOOLEAN /\ (l.registered <=> s.profile # False)
  BY <1>1
<1>4. HotOK(l, n)
  BY <1>0, <1>1, <1>2, <1>3 DEF HotOK
<1> QED  BY <1>1, <1>4 DEF l, s

\* applyHotSettings() of a logger in use.
LEMMA StaysHot ==
    ASSUME SettingsAssumption, NEW g, NEW n \in Nat, NEW k, HotOK(k, n)
    PROVE  /\ HotOK(ApplyHot(k, ResolveSettings(g)), n + 1)
           /\ ApplyHot(k, ResolveSettings(g)).settings = ResolveSettings(g)
<1> DEFINE s == ResolveSettings(g)
           l == ApplyHot(k, s)
<1>0. /\ s.file # "blocked" /\ (s.blackbox # False => s.blackbox.size # 0)
      /\ s.profile # False => s.profile # 0
  BY Resolved
<1> HIDE DEF s
<1>1. /\ l.settings = s /\ l.level = s.level
      /\ l.plan = "buildEntryFast" => FastSuffices(s)
      /\ l.ring = IF s.blackbox = False THEN 0 ELSE IF k.ring # 0 THEN k.ring ELSE s.blackbox.size
      /\ l.profiler = IF s.profile = False \/ Throws(k, s) THEN 0
                      ELSE IF k.profiler # 0 THEN k.profiler ELSE s.profile
      /\ l.registered = (k.registered \/ s.profile # False)
      /\ l.builtFor = IF Throws(k, s) THEN k.builtFor ELSE <<s.file, s.box>>
  BY PlanFits DEF ApplyHot
<1> HIDE DEF l
<1>2. /\ l.ring = 0 <=> s.blackbox = False
      /\ l.profiler # 0 => s.profile # False
      /\ s.profile # False /\ l.profiler = 0 => Throws(k, s)
  BY <1>0, <1>1
<1>3. /\ Throws(k, s) => n > 1 /\ s.profile # False /\ l.profiler = 0
      /\ k.registered \in BOOLEAN /\ k.builtFor[1] # "blocked"
  BY <1>1 DEF HotOK, Throws
<1>4. /\ l.registered \in BOOLEAN /\ (s.profile # False => l.registered)
      /\ l.registered /\ l.profiler = 0 => n > 0
  <2>1. l.registered \in BOOLEAN /\ (s.profile # False => l.registered)
    BY <1>1
  <2>2. l.registered /\ l.profiler = 0 => n > 0
    BY <1>0, <1>1, <1>3 DEF HotOK
  <2> QED  BY <2>1, <2>2
<1>5. /\ (s.profile # False /\ l.profiler = 0) \/ l.builtFor = <<s.file, s.box>>
      /\ l.builtFor[1] # "blocked"
  BY <1>0, <1>1, <1>3
<1>6. HotOK(l, n + 1)
  BY <1>1, <1>2, <1>3, <1>4, <1>5 DEF HotOK
<1> QED  BY <1>1, <1>6 DEF l, s

\* The count of the patches only grows.
LEMMA HotLater ==
    ASSUME NEW k, NEW n \in Nat, NEW m \in Nat, HotOK(k, n), n <= m
    PROVE  HotOK(k, m)
BY DEF HotOK

LEMMA PatchesTyped ==
    ASSUME NEW p \in {Blank} \cup SomePatches
    PROVE  IsPatch(p)
<1>1. /\ IsPatch(Blank)
      /\ IsPatch([Blank EXCEPT !.task = [level |-> Unset, progress |-> TRUE], !.mixin = "some"])
      /\ IsPatch([Blank EXCEPT !.level = "warn", !.task = [level |-> "warn", progress |-> Unset]])
  BY DEF IsPatch, Blank, Tasks
<1>2. CASE p \in {Blank, [Blank EXCEPT !.level = "warn", !.task = [level |-> "warn", progress |-> Unset]],
                 [Blank EXCEPT !.task = [level |-> Unset, progress |-> TRUE], !.mixin = "some"]}
  BY <1>1, <1>2, Zenon
<1>3. ASSUME NEW v, p = [Blank EXCEPT !.blackbox = v[1], !.filters = v[2]] PROVE IsPatch(p)
  BY <1>3 DEF IsPatch, Blank
<1>4. ASSUME NEW v, p = [Blank EXCEPT !.sampling = v[1], !.baseFields = v[2], !.redactPaths = v[3]]
      PROVE  IsPatch(p)
  BY <1>4 DEF IsPatch, Blank
<1>5. ASSUME NEW v, p = [Blank EXCEPT !.profile = v[1], !.file = v[2]] PROVE IsPatch(p)
  BY <1>5 DEF IsPatch, Blank
<1>6. ASSUME NEW v, p = [Blank EXCEPT !.redactKeys = v] PROVE IsPatch(p)
  BY <1>6 DEF IsPatch, Blank
<1>7. ASSUME NEW v, p = [Blank EXCEPT !.redactPii = v] PROVE IsPatch(p)
  BY <1>7 DEF IsPatch, Blank
<1>8. ASSUME NEW v, v[1] \in {False} \cup Boxes,
             p = [Blank EXCEPT !.box = v[1], !.schemaVersion = v[2], !.serializers = v[3]]
      PROVE  IsPatch(p)
  BY <1>8 DEF IsPatch, Blank
<1>9. ASSUME NEW v \in {<<False, False, Unset>>, <<[error |-> TRUE, fatal |-> Unset], TRUE, Unset>>,
                        <<[error |-> Unset, fatal |-> TRUE], Unset, "some">>}
      PROVE  v[1] \in {False} \cup Boxes
  <2> DEFINE b == [error |-> TRUE, fatal |-> Unset]
             c == [error |-> Unset, fatal |-> TRUE]
  <2>1. b \in Boxes /\ c \in Boxes
    BY DEF Boxes
  <2>2. \/ v = <<False, False, Unset>> \/ v = <<b, TRUE, Unset>> \/ v = <<c, Unset, "some">>
    BY Zenon
  <2> HIDE DEF b, c
  <2>3. CASE v = <<False, False, Unset>>
    <3>1. v[1] = False
      BY <2>3
    <3> QED  BY <3>1, Zenon
  <2>4. CASE v = <<b, TRUE, Unset>>
    <3>1. v[1] = b
      BY <2>4
    <3> QED  BY <2>1, <3>1, Zenon
  <2>5. CASE v = <<c, Unset, "some">>
    <3>1. v[1] = c
      BY <2>5
    <3> QED  BY <2>1, <3>1, Zenon
  <2> QED  BY <2>2, <2>3, <2>4, <2>5
<1>10. CASE p \in {[Blank EXCEPT !.blackbox = v[1], !.filters = v[2]] :
                     v \in {<<False, "none">>, <<[path |-> "blocked", size |-> Unset], Unset>>,
                            <<[path |-> Unset, size |-> 0], "some">>}}
  <2>1. PICK v : p = [Blank EXCEPT !.blackbox = v[1], !.filters = v[2]]
    BY <1>10, Zenon
  <2> QED  BY <1>3, <2>1, Zenon
<1>11. CASE p \in {[Blank EXCEPT !.sampling = v[1], !.baseFields = v[2], !.redactPaths = v[3]] :
                     v \in {<<False, "empty", "none">>,
                            <<[rate |-> 1, perTrace |-> Unset], "some", "some">>}}
  <2>1. PICK v : p = [Blank EXCEPT !.sampling = v[1], !.baseFields = v[2], !.redactPaths = v[3]]
    BY <1>11, Zenon
  <2> QED  BY <1>4, <2>1, Zenon
<1>12. CASE p \in {[Blank EXCEPT !.profile = v[1], !.file = v[2]] :
                     v \in {<<False, False>>, <<[maxOperations |-> 0], "fine">>, <<Unset, "blocked">>}}
  <2>1. PICK v : p = [Blank EXCEPT !.profile = v[1], !.file = v[2]]
    BY <1>12, Zenon
  <2> QED  BY <1>5, <2>1, Zenon
<1>13. CASE \/ p \in {[Blank EXCEPT !.redactKeys = v] : v \in {Null, "own"}}
            \/ p \in {[Blank EXCEPT !.redactPii = v] :
                        v \in {False} \cup [card : BOOLEAN, email : {Unset}]}
  BY <1>6, <1>7, <1>13, Zenon
<1>14. CASE p \in {[Blank EXCEPT !.box = v[1], !.schemaVersion = v[2], !.serializers = v[3]] :
                     v \in {<<False, False, Unset>>,
                            <<[error |-> TRUE, fatal |-> Unset], TRUE, Unset>>,
                            <<[error |-> Unset, fatal |-> TRUE], Unset, "some">>}}
  <2>1. PICK v \in {<<False, False, Unset>>, <<[error |-> TRUE, fatal |-> Unset], TRUE, Unset>>,
                    <<[error |-> Unset, fatal |-> TRUE], Unset, "some">>} :
          p = [Blank EXCEPT !.box = v[1], !.schemaVersion = v[2], !.serializers = v[3]]
    BY <1>14, Zenon
  <2>2. v[1] \in {False} \cup Boxes
    BY <1>9
  <2> QED  BY <1>8, <2>1, <2>2, Zenon
<1> QED  BY <1>2, <1>10, <1>11, <1>12, <1>13, <1>14, Zenon DEF SomePatches

LEMMA LevelledTyped == \A v : IsPatch([Blank EXCEPT !.level = v])
BY DEF IsPatch, Blank

LEMMA SettingsInitInv == SettingsAssumption /\ SettingsInit => SettingsInv
<1> SUFFICES ASSUME SettingsAssumption, SettingsInit PROVE SettingsInv
  OBVIOUS
<1>1. PICK p \in {Blank} \cup SomePatches :
        /\ loggers = <<NewLogger(ResolveSettings(p))>> /\ given = <<p>>
        /\ patches = IF p = Blank THEN 0 ELSE 1
  BY DEF SettingsInit
<1>2. IsPatch(p) /\ patches \in Nat
  BY <1>1, PatchesTyped
<1>3. ResolveSettings(p).profile # False => patches > 0
  <2>1. CASE p = Blank
    BY <2>1 DEF Blank, ResolveSettings, BuildProfile, Or
  <2> QED  BY <1>1, <2>1
<1>4. /\ HotOK(NewLogger(ResolveSettings(p)), patches)
      /\ NewLogger(ResolveSettings(p)).settings = ResolveSettings(p)
  BY <1>2, <1>3, NewIsHot
<1>5. loggers \in Seq({NewLogger(ResolveSettings(p))}) /\ given \in Seq({p})
      /\ DOMAIN loggers = {1} /\ Len(given) = 1 /\ Len(loggers) = 1
      /\ loggers[1] = NewLogger(ResolveSettings(p)) /\ given[1] = p
  BY <1>1
<1> QED  BY <1>2, <1>4, <1>5 DEF SettingsInv

\* A logger is added: module() and child().
LEMMA LoggerAdded ==
    ASSUME SettingsAssumption, SettingsInv, NEW g, IsPatch(g), patches' \in Nat, patches <= patches',
           ResolveSettings(g).profile # False => patches' > 0,
           loggers' = Append(loggers, NewLogger(ResolveSettings(g))), given' = Append(given, g)
    PROVE  SettingsInv'
<1> DEFINE l == NewLogger(ResolveSettings(g))
<1>1. PICK S : loggers \in Seq(S)
  BY DEF SettingsInv
<1>2. PICK T : given \in Seq(T)
  BY DEF SettingsInv
<1>3. /\ loggers \in Seq(S \cup {l}) /\ given \in Seq(T \cup {g}) /\ Len(given) = Len(loggers)
      /\ Len(loggers) \in Nat /\ DOMAIN loggers = 1 .. Len(loggers)
      /\ DOMAIN given = 1 .. Len(loggers) /\ patches \in Nat
  BY <1>1, <1>2 DEF SettingsInv
<1>4. HotOK(l, patches') /\ l.settings = ResolveSettings(g)
  BY NewIsHot
<1> HIDE DEF l
<1>5. /\ loggers' \in Seq(S \cup {l}) /\ Len(loggers') = Len(loggers) + 1
      /\ \A i \in 1 .. Len(loggers) : loggers'[i] = loggers[i]
      /\ loggers'[Len(loggers) + 1] = l
  BY <1>3, AppendProperties DEF l
<1>6. /\ given' \in Seq(T \cup {g}) /\ Len(given') = Len(loggers) + 1
      /\ \A i \in 1 .. Len(loggers) : given'[i] = given[i]
      /\ given'[Len(loggers) + 1] = g
  BY <1>3, AppendProperties
<1>7. ASSUME NEW i \in 1 .. Len(loggers) + 1
      PROVE  /\ IsPatch(given'[i]) /\ loggers'[i].settings = ResolveSettings(given'[i])
             /\ HotOK(loggers'[i], patches')
  <2>1. CASE i = Len(loggers) + 1
    BY <1>4, <1>5, <1>6, <2>1
  <2>2. CASE i \in 1 .. Len(loggers)
    <3>1. /\ IsPatch(given[i]) /\ loggers[i].settings = ResolveSettings(given[i])
          /\ HotOK(loggers[i], patches)
      BY <1>3, <2>2 DEF SettingsInv
    <3> QED  BY <1>3, <1>5, <1>6, <2>2, <3>1, HotLater
  <2> QED  BY <1>3, <2>1, <2>2
<1> QED  BY <1>3, <1>5, <1>6, <1>7, LenProperties DEF SettingsInv

LEMMA SetSettingsInv ==
    ASSUME SettingsAssumption, SettingsInv, NEW i \in DOMAIN loggers, NEW p \in SomePatches,
           SetSettings(i, p)
    PROVE  SettingsInv'
<1> DEFINE g == Overlay(given[i], p)
           l == ApplyHot(loggers[i], ResolveSettings(g))
<1>1. PICK S : loggers \in Seq(S)
  BY DEF SettingsInv
<1>2. PICK T : given \in Seq(T)
  BY DEF SettingsInv
<1>3. /\ IsPatch(given[i]) /\ loggers[i].settings = ResolveSettings(given[i])
      /\ HotOK(loggers[i], patches) /\ patches \in Nat
  BY DEF SettingsInv
<1>4. IsPatch(p) /\ IsPatch(g)
  BY <1>3, PatchesTyped, OverlayTyped
<1>5. MergeSettings(loggers[i].settings, p) = ResolveSettings(g)
  BY <1>3, <1>4, MergeResolves
<1>6. HotOK(l, patches + 1) /\ l.settings = ResolveSettings(g)
  BY <1>3, StaysHot
<1>7. /\ loggers' = [loggers EXCEPT ![i] = l] /\ given' = [given EXCEPT ![i] = g]
      /\ patches' = patches + 1
  BY <1>5 DEF SetSettings
<1> HIDE DEF l, g
<1>8. /\ loggers' \in Seq(S \cup {l}) /\ given' \in Seq(T \cup {g})
      /\ Len(loggers') = Len(loggers) /\ Len(given') = Len(given)
      /\ DOMAIN loggers' = DOMAIN loggers /\ DOMAIN given = DOMAIN loggers
  BY <1>1, <1>2, <1>7 DEF SettingsInv
<1>9. ASSUME NEW j \in DOMAIN loggers
      PROVE  /\ IsPatch(given'[j]) /\ loggers'[j].settings = ResolveSettings(given'[j])
             /\ HotOK(loggers'[j], patches')
  <2>1. CASE j = i
    BY <1>4, <1>6, <1>7, <1>8, <2>1
  <2>2. CASE j # i
    <3>1. /\ IsPatch(given[j]) /\ loggers[j].settings = ResolveSettings(given[j])
          /\ HotOK(loggers[j], patches)
      BY DEF SettingsInv
    <3>2. loggers'[j] = loggers[j] /\ given'[j] = given[j]
      BY <1>7, <1>8, <2>2
    <3> QED  BY <1>3, <1>7, <3>1, <3>2, HotLater
  <2> QED  BY <2>1, <2>2
<1>10. patches' \in Nat /\ Len(given') = Len(loggers')
  BY <1>3, <1>7, <1>8 DEF SettingsInv
<1> QED  BY <1>8, <1>9, <1>10 DEF SettingsInv

LEMMA ModuleInv ==
    ASSUME SettingsAssumption, SettingsInv, NEW i \in DOMAIN loggers, NEW name,
           NEW p \in {Blank} \cup SomePatches, Module(i, name, p)
    PROVE  SettingsInv'
<1> DEFINE levelled == [Blank EXCEPT !.level = EnvLevel(name)]
           h == Overlay(given[i], p)
           g == Overlay(h, levelled)
<1>1. /\ IsPatch(given[i]) /\ loggers[i].settings = ResolveSettings(given[i])
      /\ HotOK(loggers[i], patches) /\ patches \in Nat
  BY DEF SettingsInv
<1>2. IsPatch(p) /\ IsPatch(levelled) /\ IsPatch(h) /\ IsPatch(g)
  BY <1>1, PatchesTyped, LevelledTyped, OverlayTyped
<1>3. MergeSettings(MergeSettings(loggers[i].settings, p), levelled) = ResolveSettings(g)
  <2>1. MergeSettings(loggers[i].settings, p) = ResolveSettings(h)
    BY <1>1, <1>2, MergeResolves
  <2>2. MergeSettings(ResolveSettings(h), levelled) = ResolveSettings(g)
    BY <1>2, MergeResolves
  <2> QED  BY <2>1, <2>2
<1>4. /\ loggers' = Append(loggers, NewLogger(ResolveSettings(g))) /\ given' = Append(given, g)
      /\ patches' = IF p = Blank THEN patches ELSE patches + 1
  BY <1>3 DEF Module
<1>5. patches' \in Nat /\ patches <= patches'
  BY <1>1, <1>4
<1>6. ResolveSettings(g).profile # False => patches' > 0
  <2>1. CASE p = Blank
    <3>0. "profile" \in PlainFields /\ p["profile"] = Unset /\ levelled["profile"] = Unset
      BY <2>1 DEF PlainFields, Blank
    <3>1. h["profile"] = given[i]["profile"]
      BY <3>0, OverlayFields DEF Or
    <3> HIDE DEF h, levelled
    <3>2. g["profile"] = h["profile"]
      BY <3>0, OverlayFields DEF Or
    <3>3. ResolveSettings(g).profile = loggers[i].settings.profile
      <4> HIDE DEF g
      <4> QED  BY <1>1, <3>1, <3>2 DEF ResolveSettings
    <3> HIDE DEF g
    <3> QED  BY <1>1, <1>4, <2>1, <3>3 DEF HotOK
  <2>2. CASE p # Blank
    BY <1>1, <1>4, <2>2
  <2> QED  BY <2>1, <2>2
<1> HIDE DEF g
<1> QED  BY <1>2, <1>4, <1>5, <1>6, LoggerAdded

LEMMA ChildInv ==
    ASSUME SettingsAssumption, SettingsInv, NEW i \in DOMAIN loggers, Child(i)
    PROVE  SettingsInv'
<1>1. /\ IsPatch(given[i]) /\ loggers[i].settings = ResolveSettings(given[i])
      /\ HotOK(loggers[i], patches) /\ patches \in Nat
  BY DEF SettingsInv
<1>2. /\ loggers' = Append(loggers, NewLogger(ResolveSettings(given[i])))
      /\ given' = Append(given, given[i]) /\ patches' = patches
  BY <1>1 DEF Child
<1>3. ResolveSettings(given[i]).profile # False => patches' > 0
  BY <1>1, <1>2 DEF HotOK
<1>4. patches' \in Nat /\ patches <= patches'
  BY <1>1, <1>2
<1> QED  BY <1>1, <1>2, <1>3, <1>4, LoggerAdded

LEMMA SettingsInvGives == SettingsAssumption /\ SettingsInv => SettingsConsistent
<1> SUFFICES ASSUME SettingsAssumption, SettingsInv PROVE SettingsConsistent
  OBVIOUS
<1>1. MergeIsOverlay
  BY DEF SettingsInv, MergeIsOverlay
<1>2. ASSUME NEW i \in DOMAIN loggers
      PROVE  LET s == loggers[i].settings
             IN  /\ s.file # "blocked" /\ (s.blackbox # False => s.blackbox.path # "blocked")
                 /\ loggers[i].builtFor[1] # "blocked"
                 /\ given[i].file = "blocked" => s.file = False
  <2>1. loggers[i].settings = ResolveSettings(given[i]) /\ HotOK(loggers[i], patches)
    BY DEF SettingsInv
  <2>2. LET s == ResolveSettings(given[i])
        IN  /\ s.file # "blocked" /\ (given[i].file = "blocked" => s.file = False)
            /\ s.blackbox # False => s.blackbox.path # "blocked" /\ s.blackbox.size # 0
    BY Resolved
  <2>3. loggers[i].builtFor[1] # "blocked"
    BY <2>1 DEF HotOK
  <2> HIDE DEF ResolveSettings
  <2> QED  BY <2>1, <2>2, <2>3
<1>3. ASSUME NEW i \in DOMAIN loggers
      PROVE  LET s == loggers[i].settings
             IN  /\ loggers[i].plan = "buildEntryFast" => FastSuffices(s)
                 /\ loggers[i].level = s.level /\ (loggers[i].ring = 0 <=> s.blackbox = False)
                 /\ loggers[i].profiler # 0 => s.profile # False
                 /\ Threw(i) \/ loggers[i].builtFor = <<s.file, s.box>>
                 /\ Threw(i) => patches > 2
  BY DEF SettingsInv, HotOK, Threw
<1> QED  BY <1>1, <1>2, <1>3 DEF SettingsConsistent, BlockedNeverUsed, HotAgrees

\* The settings of every logger of a tree of any depth, after any sequence of
\* settings(), module() and child(), are those that resolving at once the patches
\* behind it would have given; no blocked path is used; and what the write path
\* reads agrees with them, also after a settings() that threw.
THEOREM SettingsConsistentCorrect == SettingsSpec => []SettingsConsistent
<1>1. SettingsInit => SettingsInv
  BY SettingsInitInv, SettingsAssumption
<1>2. SettingsInv /\ [SettingsNext]_settingsTreeVars => SettingsInv'
  <2> SUFFICES ASSUME SettingsInv, [SettingsNext]_settingsTreeVars PROVE SettingsInv'
    OBVIOUS
  <2>1. CASE UNCHANGED settingsTreeVars
    BY <2>1 DEF SettingsInv
  <2>2. CASE SettingsNext
    <3>1. PICK i \in DOMAIN loggers :
            \/ \E p \in SomePatches : SetSettings(i, p)
            \/ \E name \in ModuleNames, p \in {Blank} \cup SomePatches : Module(i, name, p)
            \/ Child(i)
      BY <2>2 DEF SettingsNext
    <3> QED  BY <3>1, SettingsAssumption, SetSettingsInv, ModuleInv, ChildInv
  <2> QED  BY <2>1, <2>2
<1>3. SettingsInv => SettingsConsistent
  BY SettingsInvGives, SettingsAssumption
<1> QED  BY <1>1, <1>2, <1>3, PTL DEF SettingsSpec

-----------------------------------------------------------------------------
(* The spans.                                                              *)

USE DEF spanVars

SpanRecords == [parentId : Nat, id : 0 .. IdSpace - 1, traceId : Nat, parent : Nat, trace : Nat,
                open : BOOLEAN]

\* The numbers of the traces behind their ids: a span that begins a trace takes
\* the next number, and there are no more traces than spans.
Numbered(t) ==
    /\ t \in [1 .. Len(spans) -> Nat]
    /\ \A n \in 1 .. Len(spans) : spans[n].trace = 0 =>
         /\ spans[n].traceId = t[n] % IdSpace /\ t[n] <= traceCounter
         /\ traceCounter + n <= t[n] + Len(spans)
    /\ \A m, n \in 1 .. Len(spans) :
         m < n /\ spans[m].trace = 0 /\ spans[n].trace = 0 => t[m] < t[n] /\ t[n] + m <= t[m] + n

\* What a span was given when it started, and the history of its end.
SpanOK(n) ==
    /\ spans[n].id = n % IdSpace /\ spans[n].parent \in 0 .. n - 1 \cup {Abroad}
    /\ spans[n].parentId = IdOf(spans[n].parent)
    /\ records[n] = IF spans[n].open THEN 0 ELSE 1

\* The registry holds spans that have ended, each in one place.
RegistryOK ==
    /\ registry \in Rings(SpanCapacity, Nat)
    /\ \A i \in 1 .. registry.count :
         /\ RingArray(registry)[i] \in 1 .. Len(spans)
         /\ ~spans[RingArray(registry)[i]].open
    /\ \A i, j \in 1 .. registry.count : i < j => RingArray(registry)[i] # RingArray(registry)[j]

SpansInv ==
    /\ spans \in Seq(SpanRecords) /\ records \in Seq(Nat) /\ Len(records) = Len(spans)
    /\ spanCounter = Len(spans) /\ Len(spans) <= MaxSpans
    /\ traceCounter \in Nat
    /\ \E t : Numbered(t)
    /\ \A n \in 1 .. Len(spans) : SpanOK(n)
    /\ RegistryOK

LEMMA SpanConstants ==
    IdSpace \in Nat \ {0} /\ SpanCapacity \in Nat \ {0} /\ MaxSpans \in Nat \ {0}
BY SpansAssumption

LEMMA SpansInitInv == SpansInit => SpansInv
<1> SUFFICES ASSUME SpansInit PROVE SpansInv
  OBVIOUS
<1>1. /\ registry \in Rings(SpanCapacity, Nat) /\ registry.count = 0
  BY SpanConstants, EmptyRing DEF SpansInit, NewRing
<1>2. /\ spans = <<>> /\ records = <<>> /\ spanCounter = 0 /\ traceCounter = 0
      /\ spans \in Seq(SpanRecords) /\ records \in Seq(Nat) /\ Len(spans) = 0 /\ Len(records) = 0
  BY DEF SpansInit
<1>3. \E trace : Numbered(trace)
  <2>1. Numbered([n \in 1 .. 0 |-> 1])
    BY <1>2 DEF Numbered
  <2> QED  BY <2>1
<1>4. RegistryOK
  BY <1>1 DEF RegistryOK
<1> QED  BY <1>2, <1>3, <1>4, SpanConstants DEF SpansInv

\* An id modulo the space of ids is one.
LEMMA IdTyped == \A n \in Nat : n % IdSpace \in 0 .. IdSpace - 1
BY SpanConstants

\* The ids of a span that are not made for it, and of the spans after a step.
LEMMA IdOfSpan ==
    /\ IdOf(0) = NoId /\ IdOf(Abroad) = ForeignId /\ Abroad # 0
    /\ \A p : p # 0 /\ p # Abroad => IdOf(p) = spans[p].id
    /\ TraceOf(0) = (traceCounter + 1) % IdSpace /\ TraceOf(Abroad) = ForeignId
    /\ \A p : p # 0 /\ p # Abroad => TraceOf(p) = spans[p].traceId
<1>1. Abroad # 0
  BY SpanConstants DEF Abroad
<1> QED  BY <1>1, Zenon DEF IdOf, TraceOf

\* So are their ids after a step.
LEMMA IdOfLater ==
    /\ IdOf(0)' = NoId /\ IdOf(Abroad)' = ForeignId
    /\ \A p : p # 0 /\ p # Abroad => IdOf(p)' = spans'[p].id
<1>1. Abroad # 0
  BY SpanConstants DEF Abroad
<1> QED  BY <1>1, Zenon DEF IdOf, NoId, ForeignId, Abroad

LEMMA StartSpanInv ==
    ASSUME SpansInv, NEW ctx \in 0 .. Len(spans), NEW parent \in Givable, NEW trace \in Givable,
           StartSpan(ctx, parent, trace)
    PROVE  SpansInv'
<1> DEFINE N == Len(spans)
           x == Inherit(ctx, parent, trace)
           under == IF parent # 0 THEN parent ELSE ctx
           in == IF trace # 0 THEN trace ELSE ctx
<1>0. /\ spans \in Seq(SpanRecords) /\ records \in Seq(Nat) /\ Len(records) = N /\ spanCounter = N
      /\ traceCounter \in Nat /\ N \in Nat /\ N < MaxSpans
      /\ \A n \in 1 .. N : SpanOK(n) /\ spans[n] \in SpanRecords
  BY LenProperties, ElementOfSeq DEF SpansInv, StartSpan
<1>1. /\ spans' = Append(spans, x) /\ records' = Append(records, 0)
      /\ spanCounter' = N + 1 /\ registry' = registry
      /\ traceCounter' = IF ctx = 0 /\ trace = 0 THEN traceCounter + 1 ELSE traceCounter
  BY <1>0 DEF StartSpan
<1>a. /\ under \in 0 .. N \cup {Abroad} /\ in \in 0 .. N \cup {Abroad} /\ Abroad \in Nat /\ N < Abroad
      /\ in = 0 <=> ctx = 0 /\ trace = 0
  <2>1. Abroad \in Nat /\ N < Abroad
    BY <1>0, SpanConstants DEF Abroad
  <2>2. under \in 0 .. N \cup {Abroad} /\ in \in 0 .. N \cup {Abroad}
    BY DEF Givable
  <2> QED  BY <2>1, <2>2
<1>2. /\ x.id = (N + 1) % IdSpace /\ x.parent = under /\ x.trace = in /\ x.open = TRUE
      /\ x.parentId = IdOf(under) /\ x.traceId = TraceOf(in)
      /\ x \in SpanRecords
  <2>1. \A p \in 1 .. N : /\ p # 0 /\ p # Abroad
                          /\ spans[p].id \in 0 .. IdSpace - 1 /\ spans[p].traceId \in Nat
    <3> SUFFICES ASSUME NEW p \in 1 .. N
                 PROVE  /\ p # 0 /\ p # Abroad
                        /\ spans[p].id \in 0 .. IdSpace - 1 /\ spans[p].traceId \in Nat
      OBVIOUS
    <3>1. spans[p] \in SpanRecords
      BY <1>0
    <3>2. spans[p].id \in 0 .. IdSpace - 1 /\ spans[p].traceId \in Nat
      BY <3>1 DEF SpanRecords
    <3>3. p # 0 /\ p # Abroad
      BY <1>0, <1>a
    <3> QED  BY <3>2, <3>3
  <2>2. (N + 1) % IdSpace \in 0 .. IdSpace - 1 /\ (traceCounter + 1) % IdSpace \in 0 .. IdSpace - 1
    <3>1. N + 1 \in Nat /\ traceCounter + 1 \in Nat
      BY <1>0
    <3> QED  BY <3>1, IdTyped
  <2>3. IdOf(under) \in Nat /\ TraceOf(in) \in Nat
    <3>1. NoId \in Nat /\ ForeignId \in Nat
      BY SpanConstants DEF NoId, ForeignId
    <3>2. \A p \in 0 .. N \cup {Abroad} : IdOf(p) \in Nat /\ TraceOf(p) \in Nat
      <4> TAKE p \in 0 .. N \cup {Abroad}
      <4>1. p = 0 \/ p = Abroad \/ p \in 1 .. N
        BY <1>0
      <4>2. CASE p \in 1 .. N
        <5>1. IdOf(p) = spans[p].id /\ TraceOf(p) = spans[p].traceId
          BY <2>1, <4>2, IdOfSpan
        <5> QED  BY <2>1, <4>2, <5>1
      <4>3. CASE p = 0 \/ p = Abroad
        BY <2>2, <3>1, <4>3, IdOfSpan
      <4> QED  BY <4>1, <4>2, <4>3
    <3> QED  BY <1>a, <3>2
  <2>4. x = [parentId |-> IdOf(under), id |-> (N + 1) % IdSpace, traceId |-> TraceOf(in),
             parent |-> under, trace |-> in, open |-> TRUE]
    BY <1>0 DEF Inherit
  <2> HIDE DEF x, under, in
  <2>5. under \in Nat /\ in \in Nat
    BY <1>0, <1>a
  <2> QED  BY <2>2, <2>3, <2>4, <2>5 DEF SpanRecords
<1> HIDE DEF x, under, in
<1>3. /\ spans' \in Seq(SpanRecords) /\ Len(spans') = N + 1 /\ spans'[N + 1] = x
      /\ \A n \in 1 .. N : spans'[n] = spans[n]
      /\ records' \in Seq(Nat) /\ Len(records') = N + 1 /\ records'[N + 1] = 0
      /\ \A n \in 1 .. N : records'[n] = records[n]
  BY <1>0, <1>1, <1>2, AppendProperties
<1> HIDE DEF N
<1>4. \E t : Numbered(t)'
  <2>1. PICK t : Numbered(t)
    BY DEF SpansInv
  <2> DEFINE u == [n \in 1 .. N + 1 |-> IF n = N + 1 THEN traceCounter + 1 ELSE t[n]]
  <2>2. /\ t \in [1 .. N -> Nat]
        /\ \A n \in 1 .. N : spans[n].trace = 0 =>
             /\ spans[n].traceId = t[n] % IdSpace /\ t[n] <= traceCounter
             /\ traceCounter + n <= t[n] + N
        /\ \A m, n \in 1 .. N :
             m < n /\ spans[m].trace = 0 /\ spans[n].trace = 0 => t[m] < t[n] /\ t[n] + m <= t[m] + n
    BY <2>1 DEF Numbered, N
  <2>3. /\ traceCounter' \in {traceCounter, traceCounter + 1}
        /\ x.trace = 0 => traceCounter' = traceCounter + 1 /\ x.traceId = (traceCounter + 1) % IdSpace
    BY <1>1, <1>2, <1>a, IdOfSpan
  <2>4. u[N + 1] = traceCounter + 1 /\ \A n \in 1 .. N : u[n] = t[n]
    BY <1>0
  <2>5. u \in [1 .. N + 1 -> Nat]
    <3>1. \A n \in 1 .. N + 1 : n = N + 1 \/ n \in 1 .. N
      BY <1>0
    <3> QED  BY <1>0, <2>2, <3>1
  <2> HIDE DEF u
  <2>6. ASSUME NEW n \in 1 .. N + 1, spans'[n].trace = 0
        PROVE  /\ spans'[n].traceId = u[n] % IdSpace /\ u[n] <= traceCounter'
               /\ traceCounter' + n <= u[n] + (N + 1)
    <3>1. CASE n = N + 1
      BY <1>0, <1>3, <2>3, <2>4, <2>6, <3>1
    <3>2. CASE n \in 1 .. N
      <4>1. /\ spans[n].trace = 0 /\ spans'[n].traceId = spans[n].traceId /\ u[n] = t[n]
            /\ t[n] \in Nat
        BY <1>3, <2>2, <2>4, <2>6, <3>2
      <4>2. /\ spans[n].traceId = t[n] % IdSpace /\ t[n] <= traceCounter
            /\ traceCounter + n <= t[n] + N
        BY <2>2, <3>2, <4>1
      <4> QED  BY <1>0, <2>3, <3>2, <4>1, <4>2
    <3> QED  BY <1>0, <3>1, <3>2
  <2>7. ASSUME NEW m \in 1 .. N + 1, NEW n \in 1 .. N + 1, m < n,
               spans'[m].trace = 0, spans'[n].trace = 0
        PROVE  u[m] < u[n] /\ u[n] + m <= u[m] + n
    <3>1. m \in 1 .. N /\ (n = N + 1 \/ n \in 1 .. N)
      <4>1. m < n /\ N \in Nat
        BY <1>0, <2>7
      <4> QED  BY <4>1
    <3>2. spans[m].trace = 0 /\ u[m] = t[m] /\ t[m] \in Nat
      BY <1>3, <2>2, <2>4, <2>7, <3>1
    <3>3. CASE n = N + 1
      <4>1. t[m] <= traceCounter /\ traceCounter + m <= t[m] + N
        BY <2>2, <3>1, <3>2
      <4> QED  BY <1>0, <2>4, <3>1, <3>2, <3>3, <4>1
    <3>4. CASE n \in 1 .. N
      BY <1>3, <2>2, <2>4, <2>7, <3>1, <3>2, <3>4
    <3> QED  BY <3>1, <3>3, <3>4
  <2>8. PICK v : v = u
    OBVIOUS
  <2>9. Numbered(v)'
    BY <1>3, <2>5, <2>6, <2>7, <2>8 DEF Numbered
  <2> QED  BY <2>9
<1>5. ASSUME NEW n \in 1 .. N + 1 PROVE SpanOK(n)'
  <2>1. \A p \in 0 .. N \cup {Abroad} : IdOf(p)' = IdOf(p)
    <3> TAKE p \in 0 .. N \cup {Abroad}
    <3>1. p = 0 \/ p = Abroad \/ (p # 0 /\ p # Abroad /\ p \in 1 .. N)
      BY <1>0, <1>a DEF N
    <3> QED  BY <1>3, <3>1, IdOfSpan, IdOfLater
  <2>2. CASE n = N + 1
    <3>1. under \in 0 .. n - 1 \cup {Abroad} /\ under \in 0 .. N \cup {Abroad}
      BY <1>0, <1>a, <2>2 DEF N
    <3>2. spans'[n] = x /\ records'[n] = 0
      BY <1>3, <2>2
    <3> QED  BY <1>2, <2>1, <2>2, <3>1, <3>2 DEF SpanOK, Abroad
  <2>3. CASE n \in 1 .. N
    <3>1. SpanOK(n)
      BY <1>0, <2>3 DEF N
    <3>2. spans[n].parent \in 0 .. n - 1 \cup {Abroad} /\ spans[n].parent \in 0 .. N \cup {Abroad}
      BY <1>0, <2>3, <3>1 DEF SpanOK, N
    <3>3. spans'[n] = spans[n] /\ records'[n] = records[n]
      BY <1>3, <2>3
    <3> QED  BY <2>1, <3>1, <3>2, <3>3 DEF SpanOK, Abroad
  <2> QED  BY <1>0, <2>2, <2>3 DEF N
<1>6. RegistryOK'
  BY <1>0, <1>1, <1>3 DEF SpansInv, RegistryOK, N
<1>7. N + 1 <= MaxSpans /\ traceCounter' \in Nat
  BY <1>0, <1>1, SpanConstants DEF N
<1> QED  BY <1>1, <1>3, <1>4, <1>5, <1>6, <1>7 DEF SpansInv

LEMMA EndSpanInv ==
    ASSUME SpansInv, NEW k \in DOMAIN spans, EndSpan(k)
    PROVE  SpansInv'
<1> DEFINE N == Len(spans)
           a == RingArray(registry)
           b == RingArray(registry)'
<1>0. /\ spans \in Seq(SpanRecords) /\ records \in Seq(Nat) /\ Len(records) = N
      /\ N \in Nat /\ k \in 1 .. N /\ DOMAIN spans = 1 .. N /\ DOMAIN records = 1 .. N
      /\ \A n \in 1 .. N : SpanOK(n) /\ spans[n] \in SpanRecords
      /\ RegistryOK
  BY LenProperties, ElementOfSeq DEF SpansInv
<1>1. /\ spans[k].open /\ spans' = [spans EXCEPT ![k].open = FALSE]
      /\ registry' = RingPush(registry, k) /\ records' = [records EXCEPT ![k] = @ + 1]
      /\ spanCounter' = spanCounter /\ traceCounter' = traceCounter
  BY DEF EndSpan
<1>2. /\ spans' \in Seq(SpanRecords) /\ Len(spans') = N /\ DOMAIN spans' = 1 .. N
      /\ records' \in Seq(Nat) /\ Len(records') = N
      /\ records'[k] = records[k] + 1 /\ \A n \in 1 .. N \ {k} : records'[n] = records[n]
      /\ \A n \in 1 .. N \ {k} : spans'[n] = spans[n]
      /\ spans'[k] = [spans[k] EXCEPT !.open = FALSE]
  <2>1. [spans[k] EXCEPT !.open = FALSE] \in SpanRecords
    BY <1>0 DEF SpanRecords
  <2>2. records[k] \in Nat
    BY <1>0, ElementOfSeq
  <2>3. /\ spans' \in Seq(SpanRecords) /\ Len(spans') = N /\ DOMAIN spans' = 1 .. N
        /\ \A n \in 1 .. N \ {k} : spans'[n] = spans[n]
        /\ spans'[k] = [spans[k] EXCEPT !.open = FALSE]
    <3> DEFINE e == [spans[k] EXCEPT !.open = FALSE]
    <3>1. e \in SpanRecords /\ spans' = [spans EXCEPT ![k] = e]
      BY <1>1, <2>1
    <3> HIDE DEF e
    <3>2. /\ spans' \in Seq(SpanRecords) /\ Len(spans') = N /\ DOMAIN spans' = 1 .. N
          /\ \A n \in 1 .. N \ {k} : spans'[n] = spans[n]
          /\ spans'[k] = e
      BY <1>0, <3>1
    <3> QED  BY <3>2 DEF e
  <2>4. /\ records' \in Seq(Nat) /\ Len(records') = N
        /\ records'[k] = records[k] + 1 /\ \A n \in 1 .. N \ {k} : records'[n] = records[n]
    <3> DEFINE e == records[k] + 1
    <3>1. e \in Nat /\ records' = [records EXCEPT ![k] = e]
      BY <1>1, <2>2
    <3> HIDE DEF e
    <3>2. /\ records' \in Seq(Nat) /\ Len(records') = N
          /\ records'[k] = e /\ \A n \in 1 .. N \ {k} : records'[n] = records[n]
      BY <1>0, <3>1
    <3> QED  BY <3>2 DEF e
  <2> QED  BY <2>3, <2>4
<1>3. /\ \A n \in 1 .. N : /\ spans'[n].id = spans[n].id /\ spans'[n].parent = spans[n].parent
                          /\ spans'[n].parentId = spans[n].parentId
                          /\ spans'[n].traceId = spans[n].traceId /\ spans'[n].trace = spans[n].trace
                          /\ spans'[n].open = IF n = k THEN FALSE ELSE spans[n].open
  <2> SUFFICES ASSUME NEW n \in 1 .. N
               PROVE  /\ spans'[n].id = spans[n].id /\ spans'[n].parent = spans[n].parent
                      /\ spans'[n].parentId = spans[n].parentId
                      /\ spans'[n].traceId = spans[n].traceId /\ spans'[n].trace = spans[n].trace
                      /\ spans'[n].open = IF n = k THEN FALSE ELSE spans[n].open
    OBVIOUS
  <2>1. CASE n = k
    <3>1. spans[k] \in SpanRecords /\ spans'[n] = [spans[k] EXCEPT !.open = FALSE]
      BY <1>0, <1>2, <2>1
    <3> QED  BY <2>1, <3>1 DEF SpanRecords
  <2>2. CASE n # k
    BY <1>2, <2>2
  <2> QED  BY <2>1, <2>2
<1> HIDE DEF N
<1>4. \E trace : Numbered(trace)'
  <2>1. PICK t : Numbered(t)
    BY DEF SpansInv
  <2>2. Numbered(t)'
    BY <1>1, <1>2, <1>3, <2>1 DEF Numbered, N
  <2> QED  BY <2>2
<1>5. ASSUME NEW n \in 1 .. N PROVE SpanOK(n)'
  <2>1. SpanOK(n) /\ spans[n].open \in BOOLEAN
    BY <1>0 DEF SpanRecords
  <2>2. /\ spans[n].parent \in 0 .. n - 1 \cup {Abroad} /\ N < Abroad /\ N \in Nat
        /\ n \in 1 .. N
    BY <1>0, <2>1, SpanConstants DEF SpanOK, SpansInv, Abroad, N
  <2>3. records'[n] = IF spans'[n].open THEN 0 ELSE 1
    <3>1. CASE n = k
      BY <1>0, <1>1, <1>2, <1>3, <2>1, <3>1 DEF SpanOK
    <3>2. CASE n # k
      BY <1>2, <1>3, <2>1, <3>2 DEF SpanOK
    <3> QED  BY <3>1, <3>2
  <2>4. IdOf(spans[n].parent)' = IdOf(spans[n].parent) /\ spans'[n].parent = spans[n].parent
    <3> DEFINE p == spans[n].parent
    <3>1. p = 0 \/ p = Abroad \/ (p # 0 /\ p # Abroad /\ p \in 1 .. N)
      BY <2>2
    <3>2. p' = p
      BY <1>3
    <3> HIDE DEF p
    <3>3. \A q : q = 0 \/ q = Abroad \/ (q # 0 /\ q # Abroad /\ q \in 1 .. N) => IdOf(q)' = IdOf(q)
      BY <1>3, IdOfSpan, IdOfLater
    <3> QED  BY <1>3, <3>1, <3>2, <3>3 DEF p
  <2> QED  BY <1>3, <2>1, <2>2, <2>3, <2>4 DEF SpanOK, Abroad
<1>6. RegistryOK'
  <2>0. registry \in Rings(SpanCapacity, Nat) /\ k \in Nat
    BY <1>0 DEF RegistryOK
  <2>1. /\ registry' \in Rings(SpanCapacity, Nat) /\ b \in Seq(Nat)
        /\ Len(b) = IF Len(a) < SpanCapacity THEN Len(a) + 1 ELSE SpanCapacity
        /\ b[Len(b)] = k
        /\ \A i \in 1 .. Len(b) - 1 : b[i] = IF Len(a) < SpanCapacity THEN a[i] ELSE a[i + 1]
    <3> DEFINE V == Nat
    <3>0. SpanCapacity \in Nat \ {0} /\ registry \in Rings(SpanCapacity, V) /\ k \in V
      BY <2>0, SpanConstants
    <3> HIDE DEF V
    <3>1. /\ RingPush(registry, k) \in Rings(SpanCapacity, V)
          /\ RingArray(RingPush(registry, k)) \in Seq(V)
          /\ Slides(RingArray(registry), RingArray(RingPush(registry, k)), k, SpanCapacity)
      BY <3>0, PushAppends
    <3>2. b = RingArray(RingPush(registry, k)) /\ registry' = RingPush(registry, k)
      BY <1>1
    <3>3. registry' \in Rings(SpanCapacity, V) /\ b \in Seq(V) /\ Slides(a, b, k, SpanCapacity)
      BY <3>1, <3>2
    <3> HIDE DEF a, b
    <3> QED  BY <3>3 DEF V, Slides
  <2>2. Len(a) = registry.count /\ registry.count \in 0 .. SpanCapacity
    BY <2>0, SpanConstants, ArrayElements
  <2>3. Len(b) = registry'.count /\ registry'.count \in 0 .. SpanCapacity
    BY <2>1, SpanConstants, ArrayElements
  <2>4. /\ \A i \in 1 .. Len(a) : a[i] \in 1 .. N /\ ~spans[a[i]].open
        /\ \A i, j \in 1 .. Len(a) : i < j => a[i] # a[j]
    BY <1>0, <2>2 DEF RegistryOK, N
  <2> HIDE DEF a, b
  <2> DEFINE s == IF Len(a) < SpanCapacity THEN 0 ELSE 1
  <2>5. \A i \in 1 .. Len(b) - 1 : b[i] = a[i + s] /\ i + s \in 1 .. Len(a)
    BY <2>1, <2>2, SpanConstants
  <2>6. s \in Nat
    OBVIOUS
  <2> HIDE DEF s
  <2>7. \A i \in 1 .. Len(b) - 1 : b[i] \in 1 .. N /\ ~spans[b[i]].open /\ b[i] # k
    BY <1>1, <2>4, <2>5
  <2>8. ASSUME NEW i \in 1 .. Len(b) PROVE b[i] \in 1 .. N /\ ~spans'[b[i]].open
    <3>1. CASE i = Len(b)
      BY <1>0, <1>3, <2>1, <3>1
    <3>2. CASE i \in 1 .. Len(b) - 1
      BY <1>3, <2>7, <3>2
    <3> QED  BY <2>3, <3>1, <3>2
  <2>9. ASSUME NEW i \in 1 .. Len(b), NEW j \in 1 .. Len(b), i < j PROVE b[i] # b[j]
    <3>1. i \in 1 .. Len(b) - 1
      BY <2>3, <2>9
    <3>2. CASE j = Len(b)
      BY <2>1, <2>7, <3>1, <3>2
    <3>3. CASE j \in 1 .. Len(b) - 1
      <4>1. /\ b[i] = a[i + s] /\ b[j] = a[j + s] /\ i + s \in 1 .. Len(a)
            /\ j + s \in 1 .. Len(a) /\ i + s < j + s
        <5>1. b[i] = a[i + s] /\ i + s \in 1 .. Len(a)
          BY <2>5, <3>1, Zenon
        <5>2. b[j] = a[j + s] /\ j + s \in 1 .. Len(a)
          BY <2>5, <3>3, Zenon
        <5>3. i \in Int /\ j \in Int
          BY <3>1, <3>3
        <5>4. i + s < j + s
          BY ONLY <2>6, <2>9, <5>3
        <5> QED  BY <5>1, <5>2, <5>4, Zenon
      <4> QED  BY <2>4, <4>1
    <3> QED  BY <2>3, <3>2, <3>3
  <2> QED  BY <1>2, <2>1, <2>3, <2>8, <2>9 DEF RegistryOK, b, N
<1> QED  BY <1>0, <1>1, <1>2, <1>4, <1>5, <1>6 DEF SpansInv, N

\* What the invariant says of the spans that are recorded.
LEMMA RecordedSpans ==
    ASSUME SpansInv
    PROVE  /\ RingArray(registry) \in Seq(Nat) /\ Recorded \subseteq 1 .. Len(spans)
           /\ DOMAIN spans = 1 .. Len(spans) /\ Len(spans) \in Nat
           /\ Cardinality(Recorded) = registry.count
           /\ \A n \in 1 .. Len(spans) : SpanOK(n) /\ spans[n] \in SpanRecords
<1> DEFINE a == RingArray(registry)
           C == registry.count
<1>1. registry \in Rings(SpanCapacity, Nat)
  BY DEF SpansInv, RegistryOK
<1>2. a \in Seq(Nat) /\ Len(a) = C /\ C \in Nat /\ DOMAIN a = 1 .. C
  BY <1>1, SpanConstants, ArrayElements
<1>3. /\ \A i \in 1 .. C : a[i] \in 1 .. Len(spans)
      /\ \A i, j \in 1 .. C : i < j => a[i] # a[j]
  BY DEF SpansInv, RegistryOK
<1>4. Recorded = {a[i] : i \in 1 .. C}
  BY <1>2 DEF Recorded, ToSet
<1> HIDE DEF a, C
<1>5. Cardinality(Recorded) = C
  <2> DEFINE f == [i \in 1 .. C |-> a[i]]
  <2>1. \A i, j \in 1 .. C : a[i] = a[j] => i = j
    BY <1>2, <1>3
  <2>2. f \in Bijection(1 .. C, Recorded)
    BY <1>4, <2>1 DEF Bijection, Injection, Surjection, IsInjective
  <2>3. IsFiniteSet(1 .. C) /\ Cardinality(1 .. C) = C
    BY <1>2, FS_Interval
  <2>4. ExistsBijection(1 .. C, Recorded)
    BY <2>2 DEF ExistsBijection
  <2> QED  BY <2>3, <2>4, FS_Bijection
<1>6. /\ spans \in Seq(SpanRecords) /\ DOMAIN spans = 1 .. Len(spans) /\ Len(spans) \in Nat
      /\ \A n \in 1 .. Len(spans) : SpanOK(n) /\ spans[n] \in SpanRecords
  BY ElementOfSeq, LenProperties DEF SpansInv
<1> QED  BY <1>2, <1>3, <1>4, <1>5, <1>6 DEF a, C

\* Numbers less than c apart have different remainders modulo c.
LEMMA ModApart ==
    ASSUME NEW c \in Nat \ {0}, NEW m \in Nat, NEW n \in Nat, m < n, n < m + c
    PROVE  m % c # n % c
<1>1. /\ m = c * (m \div c) + (m % c) /\ m % c \in 0 .. c - 1 /\ m \div c \in Nat
      /\ n = c * (n \div c) + (n % c) /\ n % c \in 0 .. c - 1 /\ n \div c \in Nat
  OBVIOUS
<1> DEFINE p == m \div c
           q == n \div c
<1>2. SUFFICES ASSUME m % c = n % c PROVE FALSE
  OBVIOUS
<1>3. p \in Nat /\ q \in Nat /\ n - m = c * q - c * p
  BY <1>1, <1>2
<1> HIDE DEF p, q
<1>4. CASE q <= p
  <2>1. PICK k \in Nat : p = q + k
    <3>1. p - q \in Nat /\ p = q + (p - q)
      BY <1>3, <1>4
    <3> QED  BY <3>1
  <2>2. c * p = c * q + c * k /\ c * k \in Nat /\ c * q \in Nat
    BY <1>3, <2>1
  <2> QED  BY <1>3, <2>2
<1>5. CASE q > p
  <2>1. PICK k \in Nat : q = p + 1 + k
    <3>1. q - p - 1 \in Nat /\ q = p + 1 + (q - p - 1)
      BY <1>3, <1>5
    <3> QED  BY <3>1
  <2>2. c * q = c * p + c + c * k /\ c * k \in Nat /\ c * p \in Nat
    BY <1>3, <2>1
  <2> QED  BY <1>3, <2>2
<1> QED  BY <1>3, <1>4, <1>5

\* No two spans that were started less than IdSpace spans apart share an id ...
LEMMA IdsDiffer ==
    ASSUME SpansInv, NEW m \in 1 .. Len(spans), NEW n \in 1 .. Len(spans),
           m < n + IdSpace, n < m + IdSpace, spans[m].id = spans[n].id
    PROVE  m = n
<1>1. m % IdSpace = n % IdSpace /\ m \in Nat /\ n \in Nat /\ IdSpace \in Nat \ {0}
  BY RecordedSpans, SpanConstants DEF SpanOK
<1>2. ~(m < n) /\ ~(n < m)
  BY <1>1, ModApart
<1> QED  BY <1>1, <1>2

\* ... and the node of an id is the span that has it, when it is recorded.
LEMMA NodeOfSpan ==
    ASSUME SpansInv, CloseTogether, NEW trace, NEW n \in Mentioned
    PROVE  NodeOf(trace, spans[n].id) =
             IF n \in Recorded /\ spans[n].traceId = trace THEN n ELSE 0
<1> DEFINE a == RingArray(registry)
           A == {k \in DOMAIN spans : spans[k].traceId = trace}
           B == {k \in DOMAIN spans : spans[k].id = spans[n].id}
           f == Among(a, A)
           g == Among(f, B)
<1>1. /\ DOMAIN spans = 1 .. Len(spans) /\ a \in Seq(Nat) /\ Recorded = ToSet(a)
      /\ Recorded \subseteq 1 .. Len(spans) /\ n \in 1 .. Len(spans)
  BY RecordedSpans DEF Recorded, Mentioned
<1>2. \A k \in Recorded : k \in B <=> k = n
  <2> SUFFICES ASSUME NEW k \in Recorded, k \in B PROVE k = n
    BY <1>1
  <2>1. k \in Mentioned /\ k \in 1 .. Len(spans) /\ spans[k].id = spans[n].id
    BY <1>1 DEF Mentioned
  <2>2. k < n + IdSpace /\ n < k + IdSpace
    BY <2>1 DEF CloseTogether
  <2> QED  BY <1>1, <2>1, <2>2, IdsDiffer
<1>3. NodeOf(trace, spans[n].id) = IF g = <<>> THEN 0 ELSE Last(g)
  BY DEF NodeOf, ForTrace
<1> HIDE DEF a, A, B, f, g
<1>4. f \in Seq(Nat) /\ \A k : k \in ToSet(f) <=> k \in ToSet(a) /\ k \in A
  BY <1>1, AmongElements DEF f
<1>5. g \in Seq(Nat) /\ \A k : k \in ToSet(g) <=> k \in ToSet(f) /\ k \in B
  BY <1>4, AmongElements DEF g
<1>6. \A k : k \in ToSet(g) <=> k = n /\ n \in Recorded /\ spans[n].traceId = trace
  BY <1>1, <1>2, <1>4, <1>5 DEF A
<1>7. CASE g = <<>>
  <2>1. ToSet(g) = {}
    BY <1>7 DEF ToSet
  <2> QED  BY <1>3, <1>6, <1>7, <2>1
<1>8. CASE g # <<>>
  <2>1. Len(g) \in 1 .. Len(g) /\ DOMAIN g = 1 .. Len(g)
    BY <1>5, <1>8
  <2>2. Last(g) \in ToSet(g)
    BY <2>1 DEF Last, ToSet
  <2> QED  BY <1>3, <1>6, <1>8, <2>2
<1> QED  BY <1>7, <1>8

\* An id of another process has no node, and neither has an undefined one.
LEMMA ForeignNode ==
    ASSUME SpansInv, NEW trace
    PROVE  NodeOf(trace, ForeignId) = 0
<1> DEFINE a == RingArray(registry)
           A == {k \in DOMAIN spans : spans[k].traceId = trace}
           B == {k \in DOMAIN spans : spans[k].id = ForeignId}
           f == Among(a, A)
           g == Among(f, B)
<1>1. a \in Seq(Nat) /\ B = {}
  <2>1. \A k \in DOMAIN spans : spans[k].id \in 0 .. IdSpace - 1
    BY RecordedSpans DEF SpanRecords
  <2> QED  BY <2>1, RecordedSpans, SpanConstants DEF ForeignId
<1>2. NodeOf(trace, ForeignId) = IF g = <<>> THEN 0 ELSE Last(g)
  BY DEF NodeOf, ForTrace
<1> HIDE DEF a, A, B, f, g
<1>3. f \in Seq(Nat)
  BY <1>1, AmongElements DEF f
<1>4. g \in Seq(Nat) /\ \A k : k \in ToSet(g) <=> k \in ToSet(f) /\ k \in B
  BY <1>3, AmongElements DEF g
<1>5. g = <<>>
  <2>1. ToSet(g) = {}
    BY <1>1, <1>4
  <2>2. CASE g # <<>>
    <3>1. 1 \in DOMAIN g
      BY <1>4, <2>2
    <3> QED  BY <2>1, <3>1 DEF ToSet
  <2> QED  BY <2>2
<1> QED  BY <1>2, <1>5

\* The parent of a span: none, a span that was started before it, or a foreign one.
LEMMA ParentOf ==
    ASSUME SpansInv, NEW n \in 1 .. Len(spans)
    PROVE  /\ spans[n].parent \in 0 .. n - 1 \cup {Abroad} /\ Len(spans) < Abroad
           /\ spans[n].parentId = NoId <=> spans[n].parent = 0
           /\ spans[n].parent = Abroad => spans[n].parentId = ForeignId
           /\ spans[n].parent # 0 /\ spans[n].parent # Abroad =>
                /\ spans[n].parent \in 1 .. Len(spans)
                /\ spans[n].parentId = spans[spans[n].parent].id
<1> DEFINE p == spans[n].parent
<1>1. SpanOK(n) /\ Len(spans) \in Nat /\ Len(spans) <= MaxSpans
  BY RecordedSpans DEF SpansInv
<1>2. p \in 0 .. n - 1 \cup {Abroad} /\ spans[n].parentId = IdOf(p)
  BY <1>1 DEF SpanOK
<1>3. Len(spans) < Abroad /\ NoId # ForeignId
  BY <1>1, SpanConstants DEF Abroad, NoId, ForeignId
<1>4. p # 0 /\ p # Abroad => p \in 1 .. Len(spans)
  BY <1>1, <1>2
<1>5. \A k \in 1 .. Len(spans) : spans[k].id # NoId
  <2>1. \A k \in 1 .. Len(spans) : spans[k].id \in 0 .. IdSpace - 1
    BY RecordedSpans DEF SpanRecords
  <2> QED  BY <2>1, SpanConstants DEF NoId
<1>6. CASE p = 0
  <2>1. spans[n].parentId = NoId /\ p # Abroad
    BY <1>2, <1>6, IdOfSpan
  <2> QED  BY <1>2, <1>3, <1>6, <2>1
<1>7. CASE p = Abroad
  <2>1. spans[n].parentId = ForeignId /\ p # 0
    BY <1>2, <1>7, IdOfSpan
  <2> QED  BY <1>2, <1>3, <1>7, <2>1
<1>8. CASE p # 0 /\ p # Abroad
  <2>1. spans[n].parentId = spans[p].id
    BY <1>2, <1>8, IdOfSpan
  <2> QED  BY <1>2, <1>3, <1>4, <1>5, <1>8, <2>1
<1> QED  BY <1>6, <1>7, <1>8

\* The spans of a trace, as the two loops of treeForTrace() see them.
Below(trace, n) == spans[n].parent \in Recorded /\ spans[spans[n].parent].traceId = trace

LEMMA TraceSpans ==
    ASSUME SpansInv, CloseTogether, NEW trace
    PROVE  /\ Roots(trace) =
                {n \in Recorded : spans[n].traceId = trace /\ ~Below(trace, n)}
           /\ \A m : m # 0 => Children(trace, m) =
                {n \in Recorded : spans[n].traceId = trace /\ spans[n].parent = m
                                  /\ Below(trace, n)}
           /\ \A m : Children(trace, m) \subseteq Recorded
<1> DEFINE F == ToSet(ForTrace(trace))
<1>0. /\ Recorded \subseteq 1 .. Len(spans) /\ DOMAIN spans = 1 .. Len(spans) /\ Len(spans) \in Nat
      /\ Recorded \subseteq Mentioned /\ 0 \notin Recorded
  <2>1. Recorded \subseteq 1 .. Len(spans) /\ DOMAIN spans = 1 .. Len(spans) /\ Len(spans) \in Nat
    BY RecordedSpans
  <2> QED  BY <2>1 DEF Mentioned
<1>1. F = {n \in Recorded : spans[n].traceId = trace}
  <2>1. \A k : k \in F <=> k \in Recorded /\ k \in {n \in DOMAIN spans : spans[n].traceId = trace}
    BY RecordedSpans, AmongElements DEF ForTrace, Recorded
  <2> QED  BY <1>0, <2>1
<1>2. \A n \in F : NodeOf(trace, spans[n].id) = n
  BY <1>0, <1>1, NodeOfSpan
<1> HIDE DEF F
<1>3. ASSUME NEW n \in F
      PROVE  /\ spans[n].parentId # NoId =>
                  NodeOf(trace, spans[n].parentId) =
                    IF Below(trace, n) THEN spans[n].parent ELSE 0
             /\ spans[n].parentId = NoId => ~Below(trace, n)
  <2>1. n \in 1 .. Len(spans) /\ n \in Recorded
    BY <1>0, <1>1
  <2>2. CASE spans[n].parent = 0
    <3>1. spans[n].parentId = NoId
      BY <2>1, <2>2, ParentOf
    <3> QED  BY <1>0, <2>2, <3>1 DEF Below
  <2>3. CASE spans[n].parent = Abroad
    <3>1. spans[n].parentId = ForeignId /\ Len(spans) < Abroad
      BY <2>1, <2>3, ParentOf
    <3>2. Abroad \notin Recorded
      <4>1. Abroad \notin 1 .. Len(spans)
        BY <1>0, <3>1
      <4> QED  BY <1>0, <4>1
    <3>3. ~Below(trace, n)
      BY <2>3, <3>2 DEF Below
    <3> QED  BY <3>1, <3>3, ForeignNode
  <2>4. CASE spans[n].parent # 0 /\ spans[n].parent # Abroad
    <3>1. /\ spans[n].parent \in 1 .. Len(spans) /\ spans[n].parentId # NoId
          /\ spans[n].parentId = spans[spans[n].parent].id
      BY <2>1, <2>4, ParentOf
    <3>2. spans[n].parent \in Mentioned
      BY <1>0, <2>1, <3>1 DEF Mentioned
    <3>3. NodeOf(trace, spans[spans[n].parent].id) =
            IF Below(trace, n) THEN spans[n].parent ELSE 0
      BY <3>2, NodeOfSpan DEF Below
    <3> QED  BY <3>1, <3>3
  <2> QED  BY <2>2, <2>3, <2>4
<1>4. \A n \in F : Below(trace, n) => spans[n].parent # 0
  BY <1>0 DEF Below
<1>5. Roots(trace) = {n \in F : spans[n].parentId = NoId \/ NodeOf(trace, spans[n].parentId) = 0}
  BY <1>2, Zenon DEF Roots, F
<1>6. \A m : Children(trace, m) =
        {n \in F : spans[n].parentId # NoId /\ NodeOf(trace, spans[n].parentId) = m}
  BY <1>2, Zenon DEF Children, F
<1> HIDE DEF Below
<1>7. Roots(trace) = {n \in F : ~Below(trace, n)}
  BY <1>3, <1>4, <1>5
<1>8. ASSUME NEW m, m # 0
      PROVE  Children(trace, m) = {n \in F : spans[n].parent = m /\ Below(trace, n)}
  <2>1. \A n \in F : spans[n].parentId # NoId /\ NodeOf(trace, spans[n].parentId) = m
                     <=> spans[n].parent = m /\ Below(trace, n)
    BY <1>3, <1>4, <1>8
  <2> QED  BY <1>6, <2>1
<1>9. \A m : Children(trace, m) \subseteq Recorded
  BY <1>1, <1>6
<1> QED  BY <1>1, <1>7, <1>8, <1>9

\* A rendering of the tree takes one level of it at a time.
LEMMA ReachedUnfolds ==
    ASSUME SpansInv, CloseTogether, NEW trace
    PROVE  \E f : /\ Reached(trace) = f[MaxSpans] /\ f[0] = Roots(trace)
                  /\ \A d \in 1 .. MaxSpans : f[d] = WithChildren(trace, f[d - 1])
<1> DEFINE N == MaxSpans
           Unfolds(g) == g = [d \in 0 .. N |-> IF d = 0 THEN Roots(trace)
                                               ELSE WithChildren(trace, g[d - 1])]
           w == CHOOSE g : Unfolds(g)
           S == SUBSET Recorded
           F == [X \in S |-> WithChildren(trace, X)]
<1>0. N \in Nat /\ Roots(trace) \in S /\ \A m : Children(trace, m) \subseteq Recorded
  BY TraceSpans, SpanConstants
<1>1. Reached(trace) = w[N]
  BY DEF Reached
<1>2. \E g : Unfolds(g)
  <2>1. F \in [S -> S]
    <3>1. \A X \in S : WithChildren(trace, X) \in S
      BY <1>0 DEF WithChildren
    <3> HIDE DEF S
    <3> QED  BY <3>1
  <2>2. PICK f \in [0 .. N -> S] : f[0] = Roots(trace) /\ \A d \in 1 .. N : f[d] = F[f[d - 1]]
    <3> HIDE DEF F, N, S
    <3>1. Iterates(S, Roots(trace), F, N)
      BY <1>0, <2>1, Iterated
    <3> QED  BY <3>1 DEF Iterates
  <2>3. ASSUME NEW d \in 0 .. N
        PROVE  f[d] = IF d = 0 THEN Roots(trace) ELSE WithChildren(trace, f[d - 1])
    <3>1. CASE d = 0
      BY <2>2, <3>1
    <3>2. CASE d # 0
      <4>1. d \in 1 .. N /\ d - 1 \in 0 .. N
        BY <1>0, <3>2
      <4>2. f[d - 1] \in S /\ f[d] = F[f[d - 1]]
        BY <2>2, <4>1
      <4> HIDE DEF S
      <4> QED  BY <3>2, <4>2
    <3> QED  BY <3>1, <3>2
  <2>4. f = [d \in 0 .. N |-> IF d = 0 THEN Roots(trace) ELSE WithChildren(trace, f[d - 1])]
    <3> HIDE DEF S
    <3> QED  BY <2>3
  <2>5. Unfolds(f)
    BY <2>4
  <2> QED  BY <2>5
<1>3. Unfolds(w)
  <2> HIDE DEF Unfolds
  <2> QED  BY <1>2
<1>4. w = [d \in 0 .. N |-> IF d = 0 THEN Roots(trace) ELSE WithChildren(trace, w[d - 1])]
  BY <1>3
<1> HIDE DEF w
<1>5. w[0] = Roots(trace) /\ \A d \in 1 .. N : w[d] = WithChildren(trace, w[d - 1])
  BY <1>0, <1>4
<1> QED  BY <1>1, <1>5

\* The tree of a trace shows every recorded span of it: its number bounds the
\* level at which it is reached.
LEMMA TreeShowsAll ==
    ASSUME SpansInv, CloseTogether, NEW n \in Recorded
    PROVE  n \in Reached(spans[n].traceId)
<1> DEFINE trace == spans[n].traceId
<1>0. Recorded \subseteq 1 .. Len(spans) /\ Len(spans) \in Nat /\ Len(spans) <= MaxSpans
  BY RecordedSpans DEF SpansInv
<1> HIDE DEF trace
<1>1. PICK f : /\ Reached(trace) = f[MaxSpans] /\ f[0] = Roots(trace)
               /\ \A d \in 1 .. MaxSpans : f[d] = WithChildren(trace, f[d - 1])
  BY ReachedUnfolds
<1> DEFINE R == {d \in Nat : d <= MaxSpans =>
                   /\ Roots(trace) \subseteq f[d]
                   /\ \A k \in Recorded : spans[k].traceId = trace /\ k <= d => k \in f[d]}
<1>2. 0 \in R
  BY <1>0, <1>1
<1>3. ASSUME NEW d \in Nat, d \in R PROVE d + 1 \in R
  <2> SUFFICES ASSUME d + 1 <= MaxSpans
               PROVE  /\ Roots(trace) \subseteq f[d + 1]
                      /\ \A k \in Recorded :
                           spans[k].traceId = trace /\ k <= d + 1 => k \in f[d + 1]
    OBVIOUS
  <2>1. /\ d + 1 \in 1 .. MaxSpans /\ (d + 1) - 1 = d /\ d <= MaxSpans
    BY SpanConstants
  <2>2. f[d + 1] = f[d] \cup UNION {Children(trace, k) : k \in f[d]}
    BY <1>1, <2>1 DEF WithChildren
  <2>3. /\ Roots(trace) \subseteq f[d]
        /\ \A k \in Recorded : spans[k].traceId = trace /\ k <= d => k \in f[d]
    BY <1>3, <2>1
  <2>4. ASSUME NEW k \in Recorded, spans[k].traceId = trace, k <= d + 1 PROVE k \in f[d + 1]
    <3> DEFINE p == spans[k].parent
    <3>1. CASE ~Below(trace, k)
      BY <2>2, <2>3, <2>4, <3>1, TraceSpans
    <3>2. CASE Below(trace, k)
      <4>1. p \in Recorded /\ spans[p].traceId = trace
        BY <3>2 DEF Below
      <4>2. k \in 1 .. Len(spans) /\ p \in 0 .. k - 1 \cup {Abroad} /\ Len(spans) < Abroad
        BY <1>0, ParentOf
      <4>3. p <= d /\ p # 0
        BY <1>0, <2>4, <4>1, <4>2
      <4>4. p \in f[d]
        BY <2>3, <4>1, <4>3
      <4>5. k \in Children(trace, p)
        BY <2>4, <3>2, <4>3, TraceSpans
      <4> QED  BY <2>2, <4>4, <4>5
    <3> QED  BY <3>1, <3>2
  <2> QED  BY <2>2, <2>3, <2>4
<1> HIDE DEF R
<1>4. MaxSpans \in R
  BY <1>2, <1>3, SpanConstants, SetInduction
<1>5. n <= MaxSpans
  BY <1>0, SpanConstants
<1> QED  BY <1>1, <1>4, <1>5 DEF R, trace

\* Two traces that were begun less than IdSpace spans apart have different ids.
LEMMA TracesDiffer ==
    ASSUME SpansInv, NEW m \in 1 .. Len(spans), NEW n \in 1 .. Len(spans), m < n, n < m + IdSpace,
           spans[m].trace = 0, spans[n].trace = 0
    PROVE  spans[m].traceId # spans[n].traceId
<1>1. PICK t : Numbered(t)
  BY DEF SpansInv
<1>2. /\ t[m] \in Nat /\ t[n] \in Nat /\ t[m] < t[n] /\ t[n] + m <= t[m] + n
      /\ spans[m].traceId = t[m] % IdSpace /\ spans[n].traceId = t[n] % IdSpace
  BY <1>1 DEF Numbered
<1>3. t[n] < t[m] + IdSpace /\ IdSpace \in Nat \ {0}
  <2>1. m \in Nat /\ n \in Nat /\ IdSpace \in Nat \ {0}
    BY SpanConstants
  <2> QED  BY <1>2, <2>1
<1> QED  BY <1>2, <1>3, ModApart

LEMMA SpansInvGives == SpansInv => TreesTellSpans
<1> SUFFICES ASSUME SpansInv PROVE TreesTellSpans
  OBVIOUS
<1>0. /\ Recorded \subseteq 1 .. Len(spans) /\ DOMAIN spans = 1 .. Len(spans)
      /\ Len(spans) \in Nat /\ Cardinality(Recorded) = registry.count
      /\ \A n \in 1 .. Len(spans) : SpanOK(n) /\ spans[n] \in SpanRecords
  BY RecordedSpans
<1>1. SpansTypeOK
  <2>1. registry.count <= SpanCapacity
    BY SpanConstants DEF SpansInv, RegistryOK, Rings
  <2>2. \A n \in 1 .. Len(spans) :
          spans[n].id < IdSpace /\ spans[n].parent \in 0 .. n - 1 \cup {Abroad}
    BY <1>0, SpanConstants DEF SpanOK, SpanRecords
  <2> QED  BY <1>0, <2>1, <2>2 DEF SpansTypeOK, SpansInv
<1>2. RecordedOnce
  BY <1>0 DEF RecordedOnce, SpanOK
<1>3. TreeIsComplete
  BY TreeShowsAll DEF TreeIsComplete
<1>4. TreeIsNesting
  <2>1. ASSUME CloseTogether, NEW m \in Recorded, NEW n \in Recorded
        PROVE  n \in Children(spans[n].traceId, m) <=>
                 spans[n].parent = m /\ spans[n].traceId = spans[m].traceId
    <3>1. m # 0
      BY <1>0
    <3>2. \A trace : Children(trace, m) =
            {k \in Recorded : spans[k].traceId = trace /\ spans[k].parent = m /\ Below(trace, k)}
      BY <2>1, <3>1, TraceSpans
    <3>3. n \in Children(spans[n].traceId, m) <=>
            spans[n].parent = m /\ Below(spans[n].traceId, n)
      BY <3>2
    <3> QED  BY <3>3 DEF Below
  <2>2. ASSUME NEW m \in 1 .. Len(spans), NEW n \in 1 .. Len(spans),
               m < n, n < m + IdSpace, spans[m].trace = 0, spans[n].trace = 0
        PROVE  spans[m].traceId # spans[n].traceId
    BY <2>2, TracesDiffer
  <2> QED  BY <1>0, <2>1, <2>2, Zenon DEF TreeIsNesting
<1> QED  BY <1>1, <1>2, <1>3, <1>4 DEF TreesTellSpans

\* For any capacity of the registry, any width of the ids and any number of spans,
\* started in any context or with any parent and trace, of this process or another,
\* and ended in any order: a span is recorded once and only when it ended; and
\* while the registry holds spans that were started less than IdSpace spans apart,
\* the tree of a trace shows every one of them, nested as the spans were, although
\* the ids may have wrapped around.
THEOREM TreesTellSpansCorrect == SpansSpec => []TreesTellSpans
<1>1. SpansInit => SpansInv
  BY SpansInitInv
<1>2. SpansInv /\ [SpansNext]_spanVars => SpansInv'
  <2> SUFFICES ASSUME SpansInv, [SpansNext]_spanVars PROVE SpansInv'
    OBVIOUS
  <2>1. CASE UNCHANGED spanVars
    <3>1. /\ spans' = spans /\ registry' = registry /\ records' = records
          /\ spanCounter' = spanCounter /\ traceCounter' = traceCounter
      BY <2>1 DEF spanVars
    <3>2. \E trace : Numbered(trace)'
      <4>1. PICK t : Numbered(t)
        BY DEF SpansInv
      <4>2. Numbered(t)'
        BY <3>1, <4>1 DEF Numbered
      <4> QED  BY <4>2
    <3>3. \A n \in 1 .. Len(spans) : SpanOK(n)'
      <4>1. \A p : IdOf(p)' = IdOf(p)
        BY <3>1, Zenon DEF IdOf, NoId, ForeignId, Abroad
      <4>2. \A n \in 1 .. Len(spans) : SpanOK(n)
        BY DEF SpansInv
      <4> QED  BY <3>1, <4>1, <4>2 DEF SpanOK, Abroad
    <3>4. RegistryOK'
      BY <3>1 DEF SpansInv, RegistryOK
    <3> QED  BY <3>1, <3>2, <3>3, <3>4 DEF SpansInv
  <2>2. CASE SpansNext
    <3>1. CASE \E ctx \in 0 .. Len(spans), parent, trace \in Givable :
                 StartSpan(ctx, parent, trace)
      BY <3>1, StartSpanInv
    <3>2. CASE \E n \in DOMAIN spans : EndSpan(n)
      BY <3>2, EndSpanInv
    <3> QED  BY <2>2, <3>1, <3>2 DEF SpansNext
  <2> QED  BY <2>1, <2>2
<1>3. SpansInv => TreesTellSpans
  BY SpansInvGives
<1> QED  BY <1>1, <1>2, <1>3, PTL DEF SpansSpec

-----------------------------------------------------------------------------
(* The watchers.                                                           *)

USE DEF watchVars

Waits == {d \in Nat : d <= BackoffMaxMs + Spread(BackoffMaxMs) \/ d = Interval}

WatchRecords ==
    [started : BOOLEAN, stopped : BOOLEAN, up : {"null", "up", "down"},
     failures : 0 .. MaxFailures, probing : Nat, armed : BOOLEAN, stray : Nat, delay : Waits,
     said : {"nothing", "connected", "disconnected", "unreachable"},
     threw : BOOLEAN, manual : Nat]

\* What the jitter may take from or add to the wait after so many failures.
Slack(failures) == Spread(WatchBackoff(failures))

\* One watcher: its chains, the flag and the log, and the wait of an outage.
WatcherOK(x) ==
    /\ Chains(x) <= 1 + x.manual
    /\ ~x.threw => /\ x.up = "null" <=> x.said = "nothing"
                   /\ x.up = "up" <=> x.said = "connected"
                   /\ x.failures > 0 => x.delay \in NextWaits(FALSE, x.failures)
    /\ x.stopped => x.started

\* What a watcher may do in one step.
WatcherStep(x, y) ==
    /\ ~y.threw /\ y.said # x.said =>
         /\ y.said = "disconnected" => x.said = "connected"
         /\ y.said = "unreachable" => x.said = "nothing"
    /\ 0 < x.failures /\ x.failures <= y.failures /\ ~x.threw =>
         x.delay <= y.delay + Slack(x.failures) + Slack(y.failures)
    /\ x.stopped => y.probing <= x.probing

WatchInv ==
    /\ watch \in [Watchers -> WatchRecords] /\ \A w \in Watchers : WatcherOK(watch[w])
    /\ watchHandles \subseteq Watchers /\ declared \subseteq Watchers
    /\ declarativeWatch \in Watchers \cup {NoWatcher}
    /\ \A w \in watchHandles \cup declared : watch[w].started
    /\ declarativeWatch # NoWatcher => watch[declarativeWatch].started
    /\ RunningReachable

LEMMA WatchConstants ==
    /\ NoWatcher \notin Watchers /\ Backoff \in BOOLEAN /\ Interval \in Nat \ {0}
    /\ BackoffMaxMs \in Nat \ {0} /\ MaxFailures \in Nat \ {0} /\ Jitter \in 0 .. 100
BY WatchAssumption

\* The doubled waits are numbers that double.
LEMMA DoubledGrows ==
    /\ \A n \in 0 .. MaxFailures : Doubled[n] \in Nat
    /\ \A n \in 0 .. MaxFailures - 1 : Doubled[n] <= Doubled[n + 1]
<1> DEFINE N == MaxFailures
           Unfolds(g) == g = [n \in 0 .. N |-> IF n = 0 THEN Interval ELSE 2 * g[n - 1]]
           d == CHOOSE g : Unfolds(g)
           F == [x \in Nat |-> 2 * x]
<1>0. N \in Nat /\ Interval \in Nat
  BY WatchConstants
<1>1. Doubled = d
  BY DEF Doubled
<1>2. \E g : Unfolds(g)
  <2>1. F \in [Nat -> Nat]
    OBVIOUS
  <2>2. PICK f \in [0 .. N -> Nat] : f[0] = Interval /\ \A n \in 1 .. N : f[n] = F[f[n - 1]]
    <3> HIDE DEF F, N
    <3>1. Iterates(Nat, Interval, F, N)
      BY <1>0, <2>1, Iterated
    <3> QED  BY <3>1 DEF Iterates
  <2>3. ASSUME NEW n \in 0 .. N PROVE f[n] = IF n = 0 THEN Interval ELSE 2 * f[n - 1]
    <3>1. CASE n = 0
      BY <2>2, <3>1
    <3>2. CASE n # 0
      <4>1. n \in 1 .. N /\ n - 1 \in 0 .. N
        BY <1>0, <3>2
      <4> QED  BY <2>2, <3>2, <4>1
    <3> QED  BY <3>1, <3>2
  <2>4. f = [n \in 0 .. N |-> IF n = 0 THEN Interval ELSE 2 * f[n - 1]]
    BY <2>3
  <2> QED  BY <2>4
<1>3. Unfolds(d)
  <2> HIDE DEF Unfolds
  <2> QED  BY <1>2
<1>4. d[0] = Interval /\ \A n \in 1 .. N : d[n] = 2 * d[n - 1]
  <2> HIDE DEF d
  <2> QED  BY <1>0, <1>3
<1> HIDE DEF d, N
<1>5. \A n \in 0 .. N : d[n] \in Nat
  <2> DEFINE R == {n \in Nat : n <= N => d[n] \in Nat}
  <2>1. 0 \in R
    BY <1>0, <1>4
  <2>2. ASSUME NEW n \in Nat, n \in R PROVE n + 1 \in R
    <3> SUFFICES ASSUME n + 1 <= N PROVE d[n + 1] \in Nat
      OBVIOUS
    <3>1. n + 1 \in 1 .. N /\ (n + 1) - 1 = n /\ d[n] \in Nat
      BY <1>0, <2>2
    <3> QED  BY <1>4, <3>1
  <2> HIDE DEF R
  <2>3. Nat \subseteq R
    BY <2>1, <2>2, SetInduction
  <2> QED  BY <1>0, <2>3 DEF R
<1>6. ASSUME NEW n \in 0 .. N - 1 PROVE d[n] <= d[n + 1]
  <2>1. n + 1 \in 1 .. N /\ (n + 1) - 1 = n /\ n \in 0 .. N
    BY <1>0
  <2> QED  BY <1>4, <1>5, <2>1
<1> QED  BY <1>1, <1>5, <1>6 DEF N

\* Multiplying preserves the order.
LEMMA MulOrder ==
    ASSUME NEW a \in Nat, NEW x \in Nat, NEW y \in Nat, x <= y
    PROVE  a * x \in Nat /\ a * y \in Nat /\ a * x <= a * y /\ x * a <= y * a
<1>1. PICK k \in Nat : y = x + k
  <2>1. y - x \in Nat /\ y = x + (y - x)
    OBVIOUS
  <2> QED  BY <2>1
<1>2. a * y = a * x + a * k /\ a * k \in Nat /\ a * x \in Nat
  BY <1>1
<1>3. a * x = x * a /\ a * y = y * a
  OBVIOUS
<1> QED  BY <1>2, <1>3

\* The share of a wait grows with the wait and is no longer than it.
LEMMA SpreadFacts ==
    ASSUME NEW d \in Nat, NEW e \in Nat, d <= e
    PROVE  /\ Spread(d) \in Nat /\ Spread(d) <= d /\ Spread(d) <= Spread(e)
           /\ \A n \in Jittered(d) : n \in Nat /\ d <= n + Spread(d) /\ n <= d + Spread(d)
<1>1. Jitter \in Nat /\ Jitter <= 100 /\ 100 \in Nat
  BY WatchConstants
<1>2. d * Jitter \in Nat /\ d * Jitter <= d * 100
  BY <1>1, MulOrder
<1>3. e * Jitter \in Nat /\ d * Jitter <= e * Jitter
  BY <1>1, MulOrder
<1> DEFINE p == d * Jitter
           q == e * Jitter
<1>4. p \in Nat /\ q \in Nat /\ p <= q /\ p <= d * 100
  BY <1>2, <1>3
<1>5. Spread(d) = p \div 100 /\ Spread(e) = q \div 100
  BY DEF Spread
<1> HIDE DEF p, q
<1>6. Spread(d) \in Nat /\ Spread(d) <= d /\ Spread(d) <= Spread(e)
  BY <1>4, <1>5
<1>7. \A n \in Jittered(d) : n \in Nat /\ d <= n + Spread(d) /\ n <= d + Spread(d)
  BY <1>6 DEF Jittered
<1> QED  BY <1>6, <1>7

\* The waits of an outage are bounded, and do not shrink but for the jitter.
LEMMA WaitsBounded ==
    /\ Interval \in Waits
    /\ \A k \in 0 .. MaxFailures : /\ WatchBackoff(k) \in Nat /\ Slack(k) \in Nat
                                    /\ NextWaits(FALSE, k) \subseteq Waits
    /\ \A k \in 1 .. MaxFailures - 1 : WatchBackoff(k) <= WatchBackoff(k + 1)
    /\ \A j, k \in 0 .. MaxFailures : WatchBackoff(j) <= WatchBackoff(k) =>
          \A x \in NextWaits(FALSE, j), y \in NextWaits(FALSE, k) : x <= y + Slack(j) + Slack(k)
<1>1. ASSUME NEW k \in 0 .. MaxFailures
      PROVE  WatchBackoff(k) \in Nat /\ WatchBackoff(k) <= BackoffMaxMs
  <2>1. Doubled[IF k = 0 THEN 0 ELSE k - 1] \in Nat
    BY DoubledGrows, WatchConstants
  <2> QED  BY <2>1, WatchConstants DEF WatchBackoff
<1>2. ASSUME NEW k \in 0 .. MaxFailures
      PROVE  /\ Slack(k) \in Nat /\ Slack(k) <= Spread(BackoffMaxMs)
             /\ Spread(BackoffMaxMs) \in Nat
    <2>1. BackoffMaxMs \in Nat
      BY WatchConstants
    <2> QED  BY <1>1, <2>1, SpreadFacts DEF Slack
<1>3. ASSUME NEW k \in 0 .. MaxFailures PROVE NextWaits(FALSE, k) \subseteq Waits
  <2>1. CASE Backoff
    <3> SUFFICES ASSUME NEW n \in Jittered(WatchBackoff(k)) PROVE n \in Waits
      BY <2>1 DEF NextWaits
    <3>1. n \in Nat /\ n <= WatchBackoff(k) + Slack(k)
      BY <1>1, SpreadFacts DEF Slack
    <3> QED  BY <1>1, <1>2, <3>1, WatchConstants DEF Waits
  <2>2. CASE ~Backoff
    BY <2>2, WatchConstants DEF NextWaits, Waits
  <2> QED  BY <2>1, <2>2
<1>4. ASSUME NEW k \in 1 .. MaxFailures - 1 PROVE WatchBackoff(k) <= WatchBackoff(k + 1)
  <2>1. /\ k - 1 \in 0 .. MaxFailures - 1 /\ (k - 1) + 1 = k /\ k - 1 \in 0 .. MaxFailures
        /\ k \in 0 .. MaxFailures /\ k # 0 /\ k + 1 # 0 /\ (k + 1) - 1 = k
    BY WatchConstants
  <2>2. Doubled[k - 1] \in Nat /\ Doubled[k] \in Nat /\ Doubled[k - 1] <= Doubled[k]
    BY <2>1, DoubledGrows
  <2> QED  BY <2>1, <2>2, WatchConstants DEF WatchBackoff
<1>5. ASSUME NEW j \in 0 .. MaxFailures, NEW k \in 0 .. MaxFailures,
             WatchBackoff(j) <= WatchBackoff(k),
             NEW x \in NextWaits(FALSE, j), NEW y \in NextWaits(FALSE, k)
      PROVE  x <= y + Slack(j) + Slack(k)
  <2>1. CASE Backoff
    <3>1. x \in Jittered(WatchBackoff(j)) /\ y \in Jittered(WatchBackoff(k))
      BY <2>1 DEF NextWaits
    <3>2. x \in Nat /\ x <= WatchBackoff(j) + Slack(j)
      BY <1>1, <3>1, SpreadFacts DEF Slack
    <3>3. y \in Nat /\ WatchBackoff(k) <= y + Slack(k)
      BY <1>1, <3>1, SpreadFacts DEF Slack
    <3> QED  BY <1>1, <1>2, <1>5, <3>2, <3>3
  <2>2. CASE ~Backoff
    <3>1. x = Interval /\ y = Interval
      BY <2>2 DEF NextWaits
    <3> QED  BY <1>2, <3>1, WatchConstants
  <2> QED  BY <2>1, <2>2
<1>6. Interval \in Waits
  BY WatchConstants DEF Waits
<1> QED  BY <1>1, <1>2, <1>3, <1>4, <1>5, <1>6

LEMMA SameWait ==
    ASSUME NEW x \in WatchRecords, NEW y \in WatchRecords,
           y.failures = x.failures, y.delay = x.delay
    PROVE  x.delay <= y.delay + Slack(x.failures) + Slack(y.failures)
<1>1. x.delay \in Nat /\ x.failures \in 0 .. MaxFailures
  BY DEF WatchRecords, Waits
<1>2. Slack(x.failures) \in Nat
  BY <1>1, WaitsBounded
<1> QED  BY <1>1, <1>2

LEMMA OutcomeKeeps ==
    ASSUME NEW y \in WatchRecords, WatcherOK(y), y.probing > 0,
           NEW ok \in BOOLEAN, NEW throws \in {"never", "edge", "always"},
           NEW wait \in NextWaits(ok, Failed(y))
    PROVE  LET x == [y EXCEPT !.probing = @ - 1]
               z == IF ok THEN Success(x, throws, wait) ELSE Failure(x, throws, wait)
           IN  /\ z \in WatchRecords /\ WatcherOK(z) /\ WatcherStep(y, z)
               /\ z.started = y.started /\ z.stopped = y.stopped
<1> DEFINE x == [y EXCEPT !.probing = @ - 1]
           n == Failed(x)
<1>1. /\ x \in WatchRecords /\ x.probing = y.probing - 1 /\ x.stray = y.stray
      /\ x.armed = y.armed /\ x.up = y.up /\ x.said = y.said /\ x.failures = y.failures
      /\ x.delay = y.delay /\ x.threw = y.threw /\ x.manual = y.manual
      /\ x.started = y.started /\ x.stopped = y.stopped /\ y.probing \in Nat
  BY DEF WatchRecords
<1> HIDE DEF x
<1>2. /\ n \in 0 .. MaxFailures /\ n > 0 /\ wait \in Waits /\ Interval \in Waits
      /\ n = IF y.failures < MaxFailures THEN y.failures + 1 ELSE y.failures
      /\ ~ok => wait \in NextWaits(FALSE, n)
  <2>1. /\ n = IF y.failures < MaxFailures THEN y.failures + 1 ELSE y.failures
        /\ n = Failed(y)
    BY <1>1 DEF Failed
  <2>2. n \in 0 .. MaxFailures /\ n > 0
    BY <2>1, WatchConstants DEF WatchRecords
  <2>3. ok => wait = Interval
    BY DEF NextWaits
  <2>4. ~ok => wait \in NextWaits(FALSE, n)
    BY <2>1
  <2> QED  BY <2>1, <2>2, <2>3, <2>4, WaitsBounded
<1>3. y.failures > 0 /\ ~y.threw =>
        /\ y.failures \in 1 .. MaxFailures /\ y.delay \in NextWaits(FALSE, y.failures)
        /\ WatchBackoff(y.failures) <= WatchBackoff(n)
  <2> SUFFICES ASSUME y.failures > 0, ~y.threw
               PROVE  /\ y.failures \in 1 .. MaxFailures /\ y.delay \in NextWaits(FALSE, y.failures)
                      /\ WatchBackoff(y.failures) <= WatchBackoff(n)
    OBVIOUS
  <2>a. y.failures \in 0 .. MaxFailures
    BY DEF WatchRecords
  <2>b. y.delay \in NextWaits(FALSE, y.failures)
    BY DEF WatcherOK
  <2>1. /\ y.delay \in NextWaits(FALSE, y.failures) /\ y.failures \in 0 .. MaxFailures
        /\ y.failures \in 1 .. MaxFailures
    <3>1. y.failures \in 1 .. MaxFailures
      BY <2>a, WatchConstants
    <3> QED  BY <2>a, <2>b, <3>1, Zenon
  <2>2. WatchBackoff(y.failures) \in Nat
    BY <2>1, WaitsBounded
  <2>3. CASE y.failures < MaxFailures
    <3>1. n = y.failures + 1 /\ y.failures \in 1 .. MaxFailures - 1
      BY <1>2, <2>1, <2>3, WatchConstants
    <3>2. WatchBackoff(y.failures) <= WatchBackoff(y.failures + 1)
      BY <3>1, WaitsBounded
    <3> HIDE DEF n
    <3>3. WatchBackoff(n) = WatchBackoff(y.failures + 1)
      BY <3>1
    <3>4. WatchBackoff(y.failures) <= WatchBackoff(n)
      BY <3>2, <3>3
    <3> QED  BY <2>1, <3>4, Zenon
  <2>4. CASE ~(y.failures < MaxFailures)
    <3>1. n = y.failures
      BY <1>2, <2>4
    <3> HIDE DEF n
    <3>2. WatchBackoff(n) = WatchBackoff(y.failures)
      BY <3>1
    <3>3. WatchBackoff(y.failures) <= WatchBackoff(n)
      BY <2>2, <3>2
    <3> QED  BY <2>1, <3>3, Zenon
  <2> QED  BY <2>3, <2>4
<1> DEFINE z == IF ok THEN Success(x, throws, wait) ELSE Failure(x, throws, wait)
<1>4. /\ z \in WatchRecords /\ z.started = x.started /\ z.stopped = x.stopped
      /\ z.probing = x.probing /\ z.manual = x.manual
  <2>1. ASSUME NEW q \in WatchRecords
        PROVE  /\ Arm(q, wait) \in WatchRecords /\ Arm(q, wait).started = q.started
               /\ Arm(q, wait).stopped = q.stopped /\ Arm(q, wait).probing = q.probing
               /\ Arm(q, wait).manual = q.manual
    <3>2. (IF q.armed THEN q.stray + 1 ELSE q.stray) \in Nat
      BY DEF WatchRecords
    <3> QED  BY <1>2, <3>2 DEF Arm, WatchRecords
  <2>2. ASSUME NEW q \in WatchRecords
        PROVE  /\ Fails(q) \in WatchRecords /\ Fails(q).started = q.started
               /\ Fails(q).stopped = q.stopped /\ Fails(q).probing = q.probing
               /\ Fails(q).manual = q.manual
    BY DEF Fails, WatchRecords
  <2>3. CASE ok
    <3> DEFINE a == [x EXCEPT !.failures = 0, !.up = "up"]
               c == [a EXCEPT !.said = IF x.up = "up" THEN @ ELSE "connected"]
    <3>1. a \in WatchRecords /\ a.failures = 0 /\ a.started = x.started
          /\ a.stopped = x.stopped /\ a.probing = x.probing /\ a.manual = x.manual
      <4>1. 0 \in 0 .. MaxFailures
        BY WatchConstants
      <4> QED  BY <1>1, <4>1 DEF WatchRecords
    <3> HIDE DEF a
    <3>2. c \in WatchRecords /\ c.failures = 0 /\ c.started = x.started
          /\ c.stopped = x.stopped /\ c.probing = x.probing /\ c.manual = x.manual
      BY <3>1 DEF WatchRecords
    <3> HIDE DEF c
    <3>3. z = Arm(c, wait) \/ z = Fails(a) \/ z = Fails(c)
      BY <2>3 DEF Success, a, c
    <3> HIDE DEF z
    <3>4. CASE z = Arm(c, wait)
      BY <2>1, <3>2, <3>4
    <3>5. CASE z = Fails(a) \/ z = Fails(c)
      BY <2>2, <3>1, <3>2, <3>5
    <3> QED  BY <3>3, <3>4, <3>5
  <2>4. CASE ~ok
    <3> DEFINE a == [x EXCEPT !.failures = n]
               c == [a EXCEPT !.up = "down"]
               e == [c EXCEPT !.said = CASE x.up = "up" -> "disconnected"
                                        [] x.up = "null" -> "unreachable" [] OTHER -> @]
    <3>1. a \in WatchRecords /\ a.failures = n /\ a.started = x.started
          /\ a.stopped = x.stopped /\ a.probing = x.probing /\ a.manual = x.manual
      BY <1>1, <1>2 DEF WatchRecords
    <3> HIDE DEF a
    <3>2. c \in WatchRecords /\ c.failures = n /\ c.started = x.started
          /\ c.stopped = x.stopped /\ c.probing = x.probing /\ c.manual = x.manual
      BY <3>1 DEF WatchRecords
    <3> HIDE DEF c
    <3>3. e \in WatchRecords /\ e.failures = n /\ e.started = x.started
          /\ e.stopped = x.stopped /\ e.probing = x.probing /\ e.manual = x.manual
      BY <3>2 DEF WatchRecords
    <3> HIDE DEF e
    <3>4. z = Arm(e, wait) \/ z = Fails(c) \/ z = Fails(a)
      BY <2>4 DEF Failure, a, c, e
    <3> HIDE DEF z
    <3>5. CASE z = Arm(e, wait)
      BY <2>1, <3>3, <3>5
    <3>6. CASE z = Fails(c) \/ z = Fails(a)
      BY <2>2, <3>1, <3>2, <3>6
    <3> QED  BY <3>4, <3>5, <3>6
  <2> QED  BY <2>3, <2>4
<1>5. \/ z.armed = x.armed /\ z.stray = x.stray
      \/ z.armed = TRUE /\ z.stray = IF x.armed THEN x.stray + 1 ELSE x.stray
  BY <1>1, ZenonT(30) DEF Success, Failure, Arm, Fails, WatchRecords
<1>6. \/ z.failures = 0
      \/ z.failures = n /\ ((~ok /\ z.delay = wait) \/ (z.delay = x.delay /\ z.threw))
  BY <1>1 DEF Success, Failure, Arm, Fails, WatchRecords
<1>7. \/ z.threw
      \/ /\ z.threw = x.threw /\ z.up = "up"
         /\ z.said = IF x.up = "up" THEN x.said ELSE "connected"
      \/ /\ z.threw = x.threw /\ z.up = "down"
         /\ z.said = CASE x.up = "up" -> "disconnected"
                       [] x.up = "null" -> "unreachable" [] OTHER -> x.said
  BY <1>1 DEF Success, Failure, Arm, Fails, WatchRecords
<1> HIDE DEF z, n
<1>8. Chains(z) <= 1 + z.manual
  BY <1>1, <1>4, <1>5 DEF WatcherOK, Chains, WatchRecords
<1>9. WatcherOK(z)
  <2>1. ~z.threw => (z.up = "null" <=> z.said = "nothing") /\ (z.up = "up" <=> z.said = "connected")
    <3> SUFFICES ASSUME ~z.threw
                 PROVE  (z.up = "null" <=> z.said = "nothing") /\ (z.up = "up" <=> z.said = "connected")
      OBVIOUS
    <3>1. x.up \in {"null", "up", "down"}
      BY <1>1 DEF WatchRecords
    <3>2. ~x.threw => (x.up = "null" <=> x.said = "nothing") /\ (x.up = "up" <=> x.said = "connected")
      BY <1>1 DEF WatcherOK
    <3> QED  BY <1>7, <3>1, <3>2
  <2>2. z.failures > 0 /\ ~z.threw => z.delay \in NextWaits(FALSE, z.failures)
    <3>1. z.failures > 0 => z.failures # 0
      OBVIOUS
    <3> QED  BY <1>2, <1>6, <3>1, Zenon
  <2>3. z.stopped => z.started
    BY <1>1, <1>4 DEF WatcherOK
  <2> QED  BY <1>8, <2>1, <2>2, <2>3 DEF WatcherOK
<1>10. WatcherStep(y, z)
  <2>1. ~z.threw /\ z.said # y.said =>
          /\ z.said = "disconnected" => y.said = "connected"
          /\ z.said = "unreachable" => y.said = "nothing"
    BY <1>1, <1>7 DEF WatcherOK
  <2>2. 0 < y.failures /\ y.failures <= z.failures /\ ~y.threw =>
          y.delay <= z.delay + Slack(y.failures) + Slack(z.failures)
    <3> SUFFICES ASSUME 0 < y.failures, y.failures <= z.failures, ~y.threw
                 PROVE  y.delay <= z.delay + Slack(y.failures) + Slack(z.failures)
      OBVIOUS
    <3>1. /\ y.failures \in 0 .. MaxFailures /\ y.delay \in NextWaits(FALSE, y.failures)
          /\ WatchBackoff(y.failures) <= WatchBackoff(n) /\ z.failures = n
      <4>1. y.failures \in 1 .. MaxFailures
        BY <1>3, Zenon
      <4>2. z.failures # 0 /\ y.failures \in 0 .. MaxFailures
        BY <4>1, WatchConstants
      <4> QED  BY <1>3, <1>6, <4>2, Zenon
    <3>2. CASE ~ok /\ z.delay = wait
      BY <1>2, <3>1, <3>2, WaitsBounded
    <3>3. CASE z.delay = y.delay
      <4>1. y.delay \in Nat /\ Slack(y.failures) \in Nat /\ Slack(n) \in Nat
        BY <1>2, <3>1, WaitsBounded DEF WatchRecords, Waits
      <4> QED  BY <3>1, <3>3, <4>1
    <3> QED  BY <1>1, <1>6, <3>1, <3>2, <3>3, WatchConstants
  <2>3. z.probing <= y.probing
    BY <1>1, <1>4
  <2> QED  BY <2>1, <2>2, <2>3 DEF WatcherStep
<1> QED  BY <1>1, <1>4, <1>9, <1>10 DEF z, x

\* isUp() of the caller throws.
LEMMA IsUpKeeps ==
    ASSUME NEW y \in WatchRecords, WatcherOK(y), y.probing > 0
    PROVE  LET z == Fails([y EXCEPT !.probing = @ - 1])
           IN  /\ z \in WatchRecords /\ WatcherOK(z) /\ WatcherStep(y, z)
               /\ z.started = y.started /\ z.stopped = y.stopped
<1> DEFINE x == [y EXCEPT !.probing = @ - 1]
           z == Fails(x)
<1>0. /\ x \in WatchRecords /\ x.started = y.started /\ x.stopped = y.stopped
      /\ x.failures = y.failures /\ x.delay = y.delay
      /\ x.armed = y.armed /\ x.stray = y.stray /\ x.manual = y.manual
      /\ x.probing = y.probing - 1
  BY DEF WatchRecords
<1> HIDE DEF x
<1>1. /\ z \in WatchRecords /\ z.started = y.started /\ z.stopped = y.stopped
      /\ z.failures = y.failures /\ z.delay = y.delay /\ z.threw = TRUE
      /\ z.armed = y.armed /\ z.stray = y.stray /\ z.manual = y.manual
      /\ z.probing = y.probing - 1
  BY <1>0 DEF Fails, WatchRecords
<1> HIDE DEF z
<1>2. Chains(z) <= 1 + z.manual
  BY <1>1 DEF WatcherOK, Chains, WatchRecords
<1>3. WatcherOK(z)
  BY <1>1, <1>2 DEF WatcherOK
<1>4. WatcherStep(y, z)
  BY <1>1, SameWait DEF WatcherStep, WatchRecords
<1> QED  BY <1>1, <1>3, <1>4 DEF z, x

\* A step that leaves the outcome of the watcher alone: an armed timer or a
\* stray one becomes a probe, or runProbe() adds one.
Prepared(y, x) ==
    \/ x = [y EXCEPT !.armed = FALSE] /\ y.armed
    \/ x = [y EXCEPT !.stray = @ - 1] /\ y.stray > 0
    \/ x = [y EXCEPT !.manual = @ + 1]

LEMMA ProbeKeeps ==
    ASSUME NEW y \in WatchRecords, WatcherOK(y), NEW x, Prepared(y, x)
    PROVE  /\ Probe(x) \in WatchRecords /\ WatcherOK(Probe(x)) /\ WatcherStep(y, Probe(x))
           /\ Probe(x).started = y.started /\ Probe(x).stopped = y.stopped
<1>1. /\ x \in WatchRecords /\ x.started = y.started /\ x.stopped = y.stopped /\ x.up = y.up
      /\ x.failures = y.failures /\ x.probing = y.probing /\ x.delay = y.delay
      /\ x.said = y.said /\ x.threw = y.threw
      /\ \/ x.armed = FALSE /\ y.armed = TRUE /\ x.stray = y.stray /\ x.manual = y.manual
         \/ x.armed = y.armed /\ x.stray = y.stray - 1 /\ x.manual = y.manual
         \/ x.armed = y.armed /\ x.stray = y.stray /\ x.manual = y.manual + 1
  <2>1. CASE x = [y EXCEPT !.armed = FALSE] /\ y.armed
    BY <2>1 DEF WatchRecords
  <2>2. CASE x = [y EXCEPT !.stray = @ - 1] /\ y.stray > 0
    BY <2>2 DEF WatchRecords
  <2>3. CASE x = [y EXCEPT !.manual = @ + 1]
    BY <2>3 DEF WatchRecords
  <2> QED  BY <2>1, <2>2, <2>3 DEF Prepared
<1>2. /\ Probe(x) \in WatchRecords /\ Probe(x).started = y.started
      /\ Probe(x).stopped = y.stopped /\ Probe(x).up = y.up
      /\ Probe(x).failures = y.failures /\ Probe(x).delay = y.delay /\ Probe(x).said = y.said
      /\ Probe(x).threw = y.threw /\ Probe(x).armed = x.armed /\ Probe(x).stray = x.stray
      /\ Probe(x).manual = x.manual
      /\ Probe(x).probing = IF y.stopped THEN y.probing ELSE y.probing + 1
  BY <1>1 DEF Probe, WatchRecords
<1> HIDE DEF Probe
<1>3. Chains(Probe(x)) <= 1 + Probe(x).manual
  BY <1>1, <1>2 DEF WatcherOK, Chains, WatchRecords
<1>4. WatcherOK(Probe(x))
  BY <1>2, <1>3 DEF WatcherOK
<1>5. WatcherStep(y, Probe(x))
  BY <1>1, <1>2, SameWait DEF WatcherStep, WatchRecords
<1> QED  BY <1>2, <1>4, <1>5

LEMMA StoppedKeeps ==
    ASSUME NEW y \in WatchRecords, WatcherOK(y), y.started
    PROVE  /\ Stopped(y) \in WatchRecords /\ WatcherOK(Stopped(y)) /\ WatcherStep(y, Stopped(y))
           /\ Stopped(y).started /\ Stopped(y).stopped
<1>1. /\ Stopped(y) \in WatchRecords /\ Stopped(y).started = y.started
      /\ Stopped(y).stopped = TRUE /\ Stopped(y).up = y.up
      /\ Stopped(y).failures = y.failures /\ Stopped(y).delay = y.delay
      /\ Stopped(y).said = y.said /\ Stopped(y).threw = y.threw /\ Stopped(y).armed = FALSE
      /\ Stopped(y).stray = y.stray /\ Stopped(y).manual = y.manual
      /\ Stopped(y).probing = y.probing
  BY DEF Stopped, WatchRecords
<1>2. Chains(Stopped(y)) <= 1 + Stopped(y).manual
  BY <1>1 DEF WatcherOK, Chains, WatchRecords
<1>3. WatcherOK(Stopped(y))
  BY <1>1, <1>2 DEF WatcherOK
<1>4. WatcherStep(y, Stopped(y))
  BY <1>1, SameWait DEF WatcherStep, WatchRecords
<1> QED  BY <1>1, <1>3, <1>4

\* A watcher that is started was not stopped, nor did it fail without a throw.
LEMMA StartedKeeps ==
    /\ Unused \in WatchRecords /\ WatcherOK(Unused) /\ ~Unused.started
    /\ Started \in WatchRecords /\ WatcherOK(Started) /\ Started.started /\ ~Started.stopped
    /\ \A y \in WatchRecords : WatcherOK(y) /\ ~y.started => WatcherStep(y, Started)
<1>1. Unused \in WatchRecords /\ WatcherOK(Unused) /\ ~Unused.started
  <2>1. 0 \in Waits /\ 0 \in 0 .. MaxFailures
    <3>1. BackoffMaxMs \in Nat /\ BackoffMaxMs <= BackoffMaxMs /\ MaxFailures \in Nat
      BY WatchConstants
    <3>2. Spread(BackoffMaxMs) \in Nat
      BY <3>1, SpreadFacts
    <3> QED  BY <3>1, <3>2 DEF Waits
  <2>2. Unused \in WatchRecords
    BY <2>1 DEF Unused, WatchRecords
  <2>3. WatcherOK(Unused) /\ ~Unused.started
    BY DEF Unused, WatcherOK, Chains
  <2> QED  BY <2>2, <2>3
<1>2. /\ Started \in WatchRecords /\ Started.started = TRUE /\ Started.stopped = FALSE
      /\ Started.probing = 1 /\ Started.failures = 0 /\ Started.said = "nothing"
      /\ Started.up = "null" /\ Started.manual = 0 /\ Started.stray = 0
      /\ Started.armed = FALSE
  BY <1>1 DEF Started, Unused, WatchRecords
<1>3. WatcherOK(Started)
  BY <1>2 DEF WatcherOK, Chains
<1>4. ASSUME NEW y \in WatchRecords, WatcherOK(y), ~y.started PROVE WatcherStep(y, Started)
  BY <1>2, <1>4 DEF WatcherStep, WatcherOK, WatchRecords
<1> QED  BY <1>1, <1>2, <1>3, <1>4

LEMMA SameStep == ASSUME NEW y \in WatchRecords PROVE WatcherStep(y, y)
BY SameWait DEF WatcherStep, WatchRecords

LEMMA WatchInitInv == WatchInit => WatchInv
BY StartedKeeps DEF WatchInit, WatchInv, RunningReachable, Running

\* A step of one watcher that starts and stops nothing, or only stops it.
LEMMA OneWatcher ==
    ASSUME WatchInv, NEW w \in Watchers, NEW z \in WatchRecords, WatcherOK(z),
           WatcherStep(watch[w], z), z.started = watch[w].started, watch[w].stopped => z.stopped,
           watch' = [watch EXCEPT ![w] = z], UNCHANGED <<watchHandles, declarativeWatch, declared>>
    PROVE  WatchInv' /\ \A v \in Watchers : WatcherStep(watch[v], watch'[v])
<1>1. /\ watch' \in [Watchers -> WatchRecords] /\ \A v \in Watchers : WatcherOK(watch'[v])
      /\ \A v \in Watchers : watch'[v].started = watch[v].started
      /\ \A v \in Watchers : watch[v].stopped => watch'[v].stopped
  BY DEF WatchInv
<1>2. /\ (watchHandles \subseteq Watchers /\ declared \subseteq Watchers)'
      /\ (declarativeWatch \in Watchers \cup {NoWatcher})'
  BY DEF WatchInv
<1>3. /\ (\A v \in watchHandles \cup declared : watch[v].started)'
      /\ (declarativeWatch # NoWatcher => watch[declarativeWatch].started)'
  BY <1>1 DEF WatchInv
<1>4. Running' \subseteq Running
  BY <1>1 DEF Running, WatchInv
<1>5. RunningReachable'
  BY <1>4 DEF RunningReachable, WatchInv
<1>6. \A v \in Watchers : WatcherStep(watch[v], watch'[v])
  BY SameStep DEF WatchInv
<1> QED  BY <1>1, <1>2, <1>3, <1>5, <1>6 DEF WatchInv

LEMMA WatcherActs ==
    ASSUME WatchInv, NEW w \in Watchers,
           OutcomeArrives(w) \/ TimerFires(w) \/ StrayFires(w) \/ RunProbe(w) \/ Stop(w)
    PROVE  WatchInv' /\ \A v \in Watchers : WatcherStep(watch[v], watch'[v])
<1>0. watch[w] \in WatchRecords /\ WatcherOK(watch[w])
  BY DEF WatchInv
<1>1. CASE \E ok \in BOOLEAN, throws \in {"never", "edge", "always"} : Outcome(w, ok, throws)
  <2>1. PICK ok \in BOOLEAN, throws \in {"never", "edge", "always"} : Outcome(w, ok, throws)
    BY <1>1
  <2> DEFINE x == [watch[w] EXCEPT !.probing = @ - 1]
             z(wait) == IF ok THEN Success(x, throws, wait) ELSE Failure(x, throws, wait)
  <2>2. Failed(x) = Failed(watch[w])
    BY <1>0 DEF Failed, WatchRecords
  <2>3. PICK wait \in NextWaits(ok, Failed(watch[w])) : watch' = [watch EXCEPT ![w] = z(wait)]
    BY <2>1, <2>2 DEF Outcome
  <2>4. watch[w].probing > 0 /\ UNCHANGED <<watchHandles, declarativeWatch, declared>>
    BY <2>1 DEF Outcome
  <2>5. /\ z(wait) \in WatchRecords /\ WatcherOK(z(wait)) /\ WatcherStep(watch[w], z(wait))
        /\ z(wait).started = watch[w].started /\ z(wait).stopped = watch[w].stopped
    BY <1>0, <2>4, OutcomeKeeps
  <2> DEFINE r == z(wait)
  <2>6. /\ r \in WatchRecords /\ WatcherOK(r) /\ WatcherStep(watch[w], r)
        /\ r.started = watch[w].started /\ r.stopped = watch[w].stopped
        /\ watch' = [watch EXCEPT ![w] = r]
    BY <2>3, <2>5
  <2> HIDE DEF r
  <2> QED  BY <2>4, <2>6, OneWatcher
<1>4. CASE IsUpThrows(w)
  <2> DEFINE z == Fails([watch[w] EXCEPT !.probing = @ - 1])
  <2>1. /\ watch[w].probing > 0 /\ watch' = [watch EXCEPT ![w] = z]
        /\ UNCHANGED <<watchHandles, declarativeWatch, declared>>
    BY <1>4 DEF IsUpThrows
  <2>2. /\ z \in WatchRecords /\ WatcherOK(z) /\ WatcherStep(watch[w], z)
        /\ z.started = watch[w].started /\ z.stopped = watch[w].stopped
    BY <1>0, <2>1, IsUpKeeps
  <2> HIDE DEF z
  <2> QED  BY <2>1, <2>2, OneWatcher
<1>2. CASE TimerFires(w) \/ StrayFires(w) \/ RunProbe(w)
  <2>1. PICK x : /\ Prepared(watch[w], x) /\ watch' = [watch EXCEPT ![w] = Probe(x)]
                 /\ UNCHANGED <<watchHandles, declarativeWatch, declared>>
    BY <1>2 DEF TimerFires, StrayFires, RunProbe, Prepared
  <2>2. /\ Probe(x) \in WatchRecords /\ WatcherOK(Probe(x)) /\ WatcherStep(watch[w], Probe(x))
        /\ Probe(x).started = watch[w].started /\ Probe(x).stopped = watch[w].stopped
    BY <1>0, <2>1, ProbeKeeps
  <2> QED  BY <2>1, <2>2, OneWatcher
<1>3. CASE Stop(w)
  BY <1>0, <1>3, StoppedKeeps, OneWatcher DEF Stop
<1> QED  BY <1>1, <1>2, <1>3, <1>4 DEF OutcomeArrives

LEMMA StartWatchKeeps ==
    ASSUME WatchInv, NEW w \in Watchers, StartWatch(w)
    PROVE  WatchInv' /\ \A v \in Watchers : WatcherStep(watch[v], watch'[v])
<1>1. /\ watch' \in [Watchers -> WatchRecords] /\ \A v \in Watchers : WatcherOK(watch'[v])
      /\ watch'[w] = Started /\ \A v \in Watchers \ {w} : watch'[v] = watch[v]
      /\ ~watch[w].started
  BY StartedKeeps DEF WatchInv, StartWatch
<1>2. /\ w \notin declared /\ watchHandles' = watchHandles \cup {w}
      /\ declared' = declared /\ declarativeWatch' = declarativeWatch
  BY <1>1 DEF WatchInv, StartWatch
<1>3. /\ (watchHandles \subseteq Watchers /\ declared \subseteq Watchers)'
      /\ (declarativeWatch \in Watchers \cup {NoWatcher})'
  BY <1>2 DEF WatchInv
<1>4. /\ (\A v \in watchHandles \cup declared : watch[v].started)'
      /\ (declarativeWatch # NoWatcher => watch[declarativeWatch].started)'
  BY <1>1, <1>2, StartedKeeps DEF WatchInv
<1>5. Running' \subseteq Running \cup {w}
  BY <1>1 DEF Running
<1>6. RunningReachable'
  BY <1>2, <1>5 DEF RunningReachable, WatchInv
<1>7. \A v \in Watchers : WatcherStep(watch[v], watch'[v])
  BY <1>1, StartedKeeps, SameStep DEF WatchInv
<1> QED  BY <1>1, <1>3, <1>4, <1>6, <1>7 DEF WatchInv

\* Some watchers are stopped at once, all of them started.
LEMMA StopAllKeeps ==
    ASSUME WatchInv, NEW ws, \A w \in ws \cap Watchers : watch[w].started
    PROVE  LET f == StopAll(watch, ws)
           IN  /\ f \in [Watchers -> WatchRecords]
               /\ \A w \in Watchers : /\ WatcherOK(f[w]) /\ WatcherStep(watch[w], f[w])
                                      /\ f[w].started = watch[w].started
                                      /\ w \in ws => f[w].stopped
                                      /\ w \notin ws => f[w] = watch[w]
<1> DEFINE f == StopAll(watch, ws)
<1>1. \A w \in Watchers : f[w] = IF w \in ws THEN Stopped(watch[w]) ELSE watch[w]
  BY DEF StopAll
<1>2. ASSUME NEW w \in Watchers
      PROVE  /\ f[w] \in WatchRecords /\ WatcherOK(f[w]) /\ WatcherStep(watch[w], f[w])
             /\ f[w].started = watch[w].started /\ (w \in ws => f[w].stopped)
             /\ (w \notin ws => f[w] = watch[w])
  <2>0. watch[w] \in WatchRecords /\ WatcherOK(watch[w]) /\ watch[w].started \in BOOLEAN
    BY DEF WatchInv, WatchRecords
  <2>1. CASE w \in ws
    <3>1. f[w] = Stopped(watch[w]) /\ watch[w].started
      BY <1>1, <2>1
    <3>2. Stopped(watch[w]).started = watch[w].started
      BY <2>0 DEF Stopped, WatchRecords
    <3> QED  BY <2>0, <2>1, <3>1, <3>2, StoppedKeeps
  <2>2. CASE w \notin ws
    BY <1>1, <2>0, <2>2, SameStep
  <2> QED  BY <2>1, <2>2
<1>3. f = [w \in Watchers |-> f[w]]
  BY DEF StopAll
<1> HIDE DEF f
<1>4. f \in [Watchers -> WatchRecords]
  BY <1>2, <1>3
<1> QED  BY <1>2, <1>4 DEF f

LEMMA RebindKeepsInv ==
    ASSUME WatchInv, NEW new, Rebind(new)
    PROVE  WatchInv' /\ \A v \in Watchers : WatcherStep(watch[v], watch'[v])
<1> DEFINE f == StopAll(watch, {declarativeWatch})
<1>0. /\ new \in {NoWatcher} \cup {w \in Watchers : ~watch[w].started}
      /\ watch' = [w \in Watchers |-> IF w = new THEN Started ELSE f[w]]
      /\ watchHandles' = (watchHandles \ {declarativeWatch}) \cup ({new} \ {NoWatcher})
      /\ declarativeWatch' = new
      /\ declared' = declared \cup ({new} \ {NoWatcher})
  BY DEF Rebind
<1>1. /\ f \in [Watchers -> WatchRecords]
      /\ \A w \in Watchers : /\ WatcherOK(f[w]) /\ WatcherStep(watch[w], f[w])
                             /\ f[w].started = watch[w].started
                             /\ w = declarativeWatch => f[w].stopped
                             /\ w # declarativeWatch => f[w] = watch[w]
  <2>1. \A w \in {declarativeWatch} \cap Watchers : watch[w].started
    BY WatchConstants DEF WatchInv
  <2> QED  BY <2>1, StopAllKeeps
<1> HIDE DEF f
<1>2. /\ watch' \in [Watchers -> WatchRecords] /\ \A v \in Watchers : WatcherOK(watch'[v])
      /\ \A v \in Watchers \ {new} : watch'[v] = f[v]
      /\ new # NoWatcher => new \in Watchers /\ watch'[new] = Started
  BY <1>0, <1>1, StartedKeeps
<1>3. /\ (watchHandles \subseteq Watchers /\ declared \subseteq Watchers)'
      /\ (declarativeWatch \in Watchers \cup {NoWatcher})'
  BY <1>0 DEF WatchInv
<1>4. /\ (\A v \in watchHandles \cup declared : watch[v].started)'
      /\ (declarativeWatch # NoWatcher => watch[declarativeWatch].started)'
  BY <1>0, <1>1, <1>2, StartedKeeps DEF WatchInv
<1>5. Running' \subseteq (Running \ {declarativeWatch}) \cup ({new} \ {NoWatcher})
  <2> SUFFICES ASSUME NEW v \in Running', v # new
               PROVE  v \in Running /\ v # declarativeWatch
    BY WatchConstants DEF Running
  <2> QED  BY <1>1, <1>2 DEF Running
<1>6. RunningReachable'
  BY <1>0, <1>5 DEF RunningReachable, WatchInv
<1>7. \A v \in Watchers : WatcherStep(watch[v], watch'[v])
  <2> SUFFICES ASSUME NEW v \in Watchers PROVE WatcherStep(watch[v], watch'[v])
    OBVIOUS
  <2>1. CASE v = new
    <3>1. ~watch[v].started /\ watch'[v] = Started
      BY <1>0, <1>2, <2>1, WatchConstants
    <3>2. watch[v] \in WatchRecords /\ WatcherOK(watch[v])
      BY DEF WatchInv
    <3> QED  BY <3>1, <3>2, StartedKeeps
  <2>2. CASE v # new
    BY <1>1, <1>2, <2>2
  <2> QED  BY <2>1, <2>2
<1> QED  BY <1>2, <1>3, <1>4, <1>6, <1>7 DEF WatchInv

LEMMA WatchCloseKeeps ==
    ASSUME WatchInv, CloseWatchers
    PROVE  WatchInv' /\ \A v \in Watchers : WatcherStep(watch[v], watch'[v])
<1>0. /\ watch' = StopAll(watch, watchHandles) /\ watchHandles' = {}
      /\ declarativeWatch' = NoWatcher /\ declared' = declared
  BY DEF CloseWatchers
<1>1. /\ watch' \in [Watchers -> WatchRecords]
      /\ \A w \in Watchers : /\ WatcherOK(watch'[w]) /\ WatcherStep(watch[w], watch'[w])
                             /\ watch'[w].started = watch[w].started
                             /\ w \in watchHandles => watch'[w].stopped
                             /\ w \notin watchHandles => watch'[w] = watch[w]
  <2>1. \A w \in watchHandles \cap Watchers : watch[w].started
    BY DEF WatchInv
  <2> QED  BY <1>0, <2>1, StopAllKeeps
<1>2. Running' \subseteq Running \ watchHandles
  BY <1>1 DEF Running
<1>3. Running' = {}
  BY <1>2 DEF WatchInv, RunningReachable
<1>4. RunningReachable'
  BY <1>0, <1>3 DEF RunningReachable
<1> QED  BY <1>0, <1>1, <1>4 DEF WatchInv

LEMMA WatchStep ==
    ASSUME WatchInv, [WatchNext]_watchVars
    PROVE  WatchInv' /\ \A v \in Watchers : WatcherStep(watch[v], watch'[v])
<1>1. CASE UNCHANGED watchVars
  <2>1. WatchInv'
    BY <1>1 DEF WatchInv, RunningReachable, Running
  <2> QED  BY <1>1, <2>1, SameStep DEF WatchInv
<1>2. CASE WatchNext
  BY <1>2, WatcherActs, StartWatchKeeps, RebindKeepsInv, WatchCloseKeeps DEF WatchNext
<1> QED  BY <1>1, <1>2

LEMMA WatchInvGives ==
    WatchInv => WatchTypeOK /\ ChainsAreCalled /\ LogTellsState /\ WaitTellsFailures
                /\ RunningReachable
BY DEF WatchInv, WatchTypeOK, ChainsAreCalled, LogTellsState, WaitTellsFailures, WatcherOK,
       WatchRecords, Waits

\* The watchers of a logger, for any number of them and of calls, in every order
\* of their outcomes: only runProbe() adds a chain of probes, the log and the flag
\* agree, every watcher that runs can be reached by close() and at most one of
\* those of the settings runs; the logged edges follow each other; with any share of
\* jitter, the wait of an outage is that of the failures counted, and shrinks by no
\* more than the jitter; and a stopped watcher starts no probe.
THEOREM WatchersSafe ==
    WatchSpec => /\ [](WatchTypeOK /\ ChainsAreCalled /\ LogTellsState /\ WaitTellsFailures
                     /\ RunningReachable)
                 /\ EdgesAlternate /\ WaitsGrow /\ NoProbeAfterStop
<1>1. WatchInit => WatchInv
  BY WatchInitInv
<1>2. WatchInv /\ [WatchNext]_watchVars => WatchInv'
  BY WatchStep
<1>3. WatchInv => WatchTypeOK /\ ChainsAreCalled /\ LogTellsState /\ WaitTellsFailures
                /\ RunningReachable
  BY WatchInvGives
<1>4. WatchInv /\ [WatchNext]_watchVars =>
        [\A w \in Watchers : ~watch'[w].threw /\ watch'[w].said # watch[w].said =>
            /\ watch'[w].said = "disconnected" => watch[w].said = "connected"
            /\ watch'[w].said = "unreachable" => watch[w].said = "nothing"]_watchVars
  BY WatchStep DEF WatcherStep
<1>5. WatchInv /\ [WatchNext]_watchVars =>
        [\A w \in Watchers :
            0 < watch[w].failures /\ watch[w].failures <= watch'[w].failures /\ ~watch[w].threw =>
              watch[w].delay <= watch'[w].delay + Spread(WatchBackoff(watch[w].failures))
                                  + Spread(WatchBackoff(watch'[w].failures))]_watchVars
  BY WatchStep DEF WatcherStep, Slack
<1>6. WatchInv /\ [WatchNext]_watchVars =>
        [\A w \in Watchers : watch[w].stopped => watch'[w].probing <= watch[w].probing]_watchVars
  BY WatchStep DEF WatcherStep
<1> QED  BY <1>1, <1>2, <1>3, <1>4, <1>5, <1>6, PTL
         DEF WatchSpec, EdgesAlternate, WaitsGrow, NoProbeAfterStop

-----------------------------------------------------------------------------
(* Durations and their quantiles.                                          *)

USE DEF profilerVars

\* What the histogram keeps of a label.
Samples == [bucketCounts : [DOMAIN Buckets -> Nat], count : Nat]

\* The counts of an entry tell the durations s it was given: the bucket i has
\* those up to its bound, which are the first ones.
CountsTell(entry, s) ==
    /\ entry \in Samples /\ s \in Seq(Nat) /\ Len(s) = entry.count
    /\ \A i, j \in DOMAIN s : i < j => s[i] <= s[j]
    /\ \A i \in DOMAIN Buckets :
         /\ entry.bucketCounts[i] <= entry.count
         /\ \A j \in DOMAIN s : s[j] <= Buckets[i] <=> j <= entry.bucketCounts[i]

\* The names in the cache.
CachedNames == {r.name : r \in ToSet(labelCache)}

\* The inductive invariant: while the cache has room every label in use is that
\* of a name in it; later no label but the overflow is new.
ProfilerInv ==
    /\ labelCache \in Seq([name : Operations, label : Labels]) /\ Len(labelCache) <= MaxOperations
    /\ histogram \in [Labels -> Samples] /\ recorded \in [Labels -> Seq(Nat)]
    /\ measured \in [Operations -> Nat]
    /\ \A l \in Labels : CountsTell(histogram[l], recorded[l])
    /\ \A r \in ToSet(labelCache) : r.label \in Used
    /\ Len(labelCache) < MaxOperations => Used \subseteq CachedNames
    /\ Cardinality(Used \ {Overflow}) <= MaxOperations
    /\ SumOf([l \in Labels |-> histogram[l].count]) = SumOf(measured)

\* There is a least one among some natural numbers, which Min gives.
LEMMA LeastNumber ==
    ASSUME NEW T, T \subseteq Nat, T # {}
    PROVE  Min(T) \in T /\ \A k \in T : Min(T) <= k
<1>1. PICK m \in T : \A k \in T : <<k, m>> \notin OpToRel(<, Nat)
  BY NatLessThanWellFounded, WFMin
<1>2. \A k \in T : m <= k
  <2> SUFFICES ASSUME NEW k \in T PROVE m <= k
    OBVIOUS
  <2>1. m \in Nat /\ k \in Nat
    OBVIOUS
  <2>2. ~(k < m)
    BY <1>1, <2>1, Zenon DEF OpToRel
  <2> QED  BY <2>1, <2>2
<1> QED  BY <1>2 DEF Min

\* What InsertAt puts where.
LEMMA InsertElements ==
    ASSUME NEW T, NEW s \in Seq(T), NEW e \in T, NEW i \in 1 .. Len(s) + 1
    PROVE  LET t == InsertAt(s, i, e)
           IN  /\ t \in Seq(T) /\ Len(t) = Len(s) + 1
               /\ \A j \in 1 .. Len(s) + 1 :
                    t[j] = IF j < i THEN s[j] ELSE IF j = i THEN e ELSE s[j - 1]
<1> DEFINE a == SubSeq(s, 1, i - 1)
           b == SubSeq(s, i, Len(s))
           n == i - 1
<1>1. Len(s) \in Nat /\ i \in Nat /\ n \in 0 .. Len(s) /\ n + 1 = i
  BY LenProperties
<1>2. /\ a \in Seq(T) /\ b \in Seq(T) /\ Len(a) = n /\ Len(b) = Len(s) - n
      /\ \A j \in 1 .. n : a[j] = s[j]
      /\ \A j \in 1 .. Len(s) - n : b[j] = s[j + n]
  <2>1. /\ SubSeq(s, 1, n) \in Seq(T) /\ SubSeq(s, n + 1, Len(s)) \in Seq(T)
        /\ Len(SubSeq(s, 1, n)) = n /\ Len(SubSeq(s, n + 1, Len(s))) = Len(s) - n
        /\ \A j \in 1 .. n : SubSeq(s, 1, n)[j] = s[j]
        /\ \A j \in 1 .. Len(s) - n : SubSeq(s, n + 1, Len(s))[j] = s[j + n]
    BY ONLY s \in Seq(T), <1>1, SplitAt
  <2> QED  BY <1>1, <2>1
<1> HIDE DEF a, b, n
<1> DEFINE c == a \o <<e>>
<1>3. /\ c \in Seq(T) /\ Len(c) = i /\ c[i] = e
      /\ \A j \in 1 .. n : c[j] = s[j]
  <2>1. <<e>> \in Seq(T) /\ Len(<<e>>) = 1 /\ <<e>>[1] = e
    OBVIOUS
  <2>2. /\ c \in Seq(T) /\ Len(c) = n + 1
        /\ \A j \in 1 .. n : c[j] = a[j]
        /\ c[n + 1] = e
    BY <1>1, <1>2, <2>1, ConcatProperties DEF c
  <2> QED  BY <1>1, <1>2, <2>2
<1> HIDE DEF c
<1>4. /\ c \o b \in Seq(T) /\ Len(c \o b) = Len(s) + 1
      /\ \A j \in 1 .. i : (c \o b)[j] = c[j]
      /\ \A j \in i + 1 .. Len(s) + 1 : (c \o b)[j] = b[j - i]
  BY <1>1, <1>2, <1>3
<1>5. InsertAt(s, i, e) = c \o b
  BY DEF InsertAt, a, b, c
<1>6. ASSUME NEW j \in 1 .. Len(s) + 1
      PROVE  (c \o b)[j] = IF j < i THEN s[j] ELSE IF j = i THEN e ELSE s[j - 1]
  <2>1. CASE j < i
    <3>1. j \in 1 .. i /\ j \in 1 .. n
      BY <1>1, <2>1
    <3> QED  BY <1>3, <1>4, <2>1, <3>1
  <2>2. CASE j = i
    <3>1. j \in 1 .. i /\ ~(j < i)
      BY <1>1, <2>2
    <3>2. (c \o b)[j] = e
      BY <1>3, <1>4, <2>2, <3>1
    <3> QED  BY <2>2, <3>1, <3>2
  <2>3. CASE j > i
    <3>1. j \in i + 1 .. Len(s) + 1 /\ ~(j < i) /\ j # i
      BY <1>1, <2>3
    <3>2. j - i \in 1 .. Len(s) - n /\ (j - i) + n = j - 1
      BY <1>1, <2>3
    <3>3. (c \o b)[j] = b[j - i] /\ b[j - i] = s[j - 1]
      BY <1>2, <1>4, <3>1, <3>2
    <3> QED  BY <3>1, <3>3
  <2>4. j < i \/ j = i \/ j > i
    BY <1>1
  <2> QED  BY <2>1, <2>2, <2>3, <2>4
<1> QED  BY <1>4, <1>5, <1>6

Grows(s) == \A i, j \in DOMAIN s : i < j => s[i] <= s[j]

\* A duration goes behind those that are not larger, and the number of those up
\* to a bound grows by one if it is.
LEMMA SortedTells ==
    ASSUME NEW s \in Seq(Nat), NEW d \in Nat, Grows(s)
    PROVE  LET t == Sorted(s, d)
           IN  /\ t \in Seq(Nat) /\ Len(t) = Len(s) + 1 /\ Grows(t)
               /\ \A bound \in Nat, c \in 0 .. Len(s) :
                    (\A j \in DOMAIN s : s[j] <= bound <=> j <= c) =>
                        \A j \in DOMAIN t : t[j] <= bound <=> j <= c + (IF d <= bound THEN 1 ELSE 0)
<1> DEFINE n == Len(s)
           P == {i \in 1 .. Len(s) + 1 : i = Len(s) + 1 \/ s[i] > d}
           p == Min(P)
           t == Sorted(s, d)
<1>1. n \in Nat /\ DOMAIN s = 1 .. n /\ \A j \in 1 .. n : s[j] \in Nat
  OBVIOUS
<1>2. p \in P /\ \A k \in P : p <= k
  <2>1. n + 1 \in P /\ P \subseteq Nat
    BY <1>1
  <2> HIDE DEF P
  <2> QED  BY <2>1, LeastNumber
<1>3. p \in 1 .. n + 1 /\ (p = n + 1 \/ s[p] > d)
  BY <1>2
<1>4. \A j \in 1 .. p - 1 : s[j] <= d
  <2> SUFFICES ASSUME NEW j \in 1 .. p - 1, ~(s[j] <= d) PROVE FALSE
    OBVIOUS
  <2>1. j \in 1 .. n /\ j < p /\ s[j] > d
    BY <1>1, <1>3
  <2>2. j \in P
    BY <2>1
  <2> QED  BY <1>2, <1>3, <2>1, <2>2
<1> HIDE DEF P
<1>5. \A j \in p .. n : s[j] > d
  <2> SUFFICES ASSUME NEW j \in p .. n PROVE s[j] > d
    OBVIOUS
  <2>1. p \in 1 .. n /\ j \in 1 .. n /\ s[p] > d /\ s[p] \in Nat /\ s[j] \in Nat
    BY <1>1, <1>3
  <2>2. s[p] <= s[j]
    BY <1>1, <2>1 DEF Grows
  <2> QED  BY <2>1, <2>2
<1>6. /\ t \in Seq(Nat) /\ Len(t) = n + 1
      /\ \A j \in 1 .. n + 1 : t[j] = IF j < p THEN s[j] ELSE IF j = p THEN d ELSE s[j - 1]
  <2>1. t = InsertAt(s, p, d)
    BY DEF Sorted, P
  <2> HIDE DEF t, p
  <2>2. p \in 1 .. Len(s) + 1
    BY <1>3
  <2>3. /\ InsertAt(s, p, d) \in Seq(Nat) /\ Len(InsertAt(s, p, d)) = Len(s) + 1
        /\ \A j \in 1 .. Len(s) + 1 :
             InsertAt(s, p, d)[j] = IF j < p THEN s[j] ELSE IF j = p THEN d ELSE s[j - 1]
    <3> DEFINE T == Nat
    <3>1. s \in Seq(T) /\ d \in T
      OBVIOUS
    <3> HIDE DEF T
    <3>2. /\ InsertAt(s, p, d) \in Seq(T) /\ Len(InsertAt(s, p, d)) = Len(s) + 1
          /\ \A j \in 1 .. Len(s) + 1 :
               InsertAt(s, p, d)[j] = IF j < p THEN s[j] ELSE IF j = p THEN d ELSE s[j - 1]
      BY ONLY <3>1, <2>2, InsertElements
    <3> QED  BY <3>2 DEF T
  <2> QED  BY <2>1, <2>3
<1> HIDE DEF p, t
<1>7. DOMAIN t = 1 .. n + 1
  BY <1>6
<1> HIDE DEF n
<1>8. Grows(t)
  <2> SUFFICES ASSUME NEW i \in 1 .. n + 1, NEW j \in 1 .. n + 1, i < j PROVE t[i] <= t[j]
    BY <1>7 DEF Grows
  <2>1. CASE j < p
    <3>1. i \in 1 .. n /\ j \in 1 .. n /\ t[i] = s[i] /\ t[j] = s[j]
      BY <1>1, <1>3, <1>6, <2>1
    <3> QED  BY <1>1, <3>1 DEF Grows
  <2>2. CASE j = p
    <3>1. i \in 1 .. p - 1 /\ t[i] = s[i] /\ t[j] = d
      BY <1>1, <1>3, <1>6, <2>2
    <3> QED  BY <1>4, <3>1
  <2>3. CASE j > p /\ i < p
    <3>1. i \in 1 .. p - 1 /\ j - 1 \in p .. n /\ t[i] = s[i] /\ t[j] = s[j - 1]
      BY <1>1, <1>3, <1>6, <2>3, SMTT(20)
    <3>2. s[i] <= d /\ s[j - 1] > d /\ s[i] \in Nat /\ s[j - 1] \in Nat
      BY <1>1, <1>3, <1>4, <1>5, <3>1
    <3> QED  BY <3>1, <3>2
  <2>4. CASE j > p /\ i = p
    <3>1. j - 1 \in p .. n /\ t[i] = d /\ t[j] = s[j - 1]
      BY <1>1, <1>3, <1>6, <2>4
    <3>2. s[j - 1] > d /\ s[j - 1] \in Nat
      BY <1>1, <1>3, <1>5, <3>1
    <3> QED  BY <3>1, <3>2
  <2>5. CASE j > p /\ i > p
    <3>1. i - 1 \in 1 .. n /\ j - 1 \in 1 .. n /\ i - 1 < j - 1
      BY <1>1, <1>3, <2>5
    <3>2. t[i] = s[i - 1] /\ t[j] = s[j - 1]
      <4>1. i \in Nat /\ j \in Nat /\ p \in Nat
        BY <1>1, <1>3
      <4>2. ~(i < p) /\ i # p /\ ~(j < p) /\ j # p
        BY <4>1, <2>5
      <4> QED  BY <1>6, <4>2
    <3>3. \A a, b \in 1 .. n : a < b => s[a] <= s[b]
      BY <1>1 DEF Grows
    <3> QED  BY <3>1, <3>2, <3>3
  <2> QED  BY <1>3, <2>1, <2>2, <2>3, <2>4, <2>5
<1>9. ASSUME NEW bound \in Nat, NEW c \in 0 .. n, \A j \in 1 .. n : s[j] <= bound <=> j <= c,
             NEW j \in 1 .. n + 1
      PROVE  t[j] <= bound <=> j <= c + (IF d <= bound THEN 1 ELSE 0)
  <2>1. ASSUME j < p
        PROVE  t[j] = s[j] /\ j \in 1 .. n /\ s[j] \in Nat /\ s[j] <= d /\ (s[j] <= bound <=> j <= c)
    <3>1. t[j] = s[j] /\ j \in 1 .. n /\ j \in 1 .. p - 1
      BY <1>1, <1>3, <1>6, <2>1
    <3> QED  BY <1>1, <1>4, <1>9, <3>1
  <2>2. ASSUME j > p
        PROVE  /\ t[j] = s[j - 1] /\ j - 1 \in 1 .. n /\ s[j - 1] \in Nat /\ s[j - 1] > d
               /\ s[j - 1] <= bound <=> j - 1 <= c
    <3>1. t[j] = s[j - 1] /\ j - 1 \in 1 .. n /\ j - 1 \in p .. n
      BY <1>1, <1>3, <1>6, <2>2
    <3> QED  BY <1>1, <1>5, <1>9, <3>1
  <2>3. t[p] = d
    BY <1>3, <1>6
  <2>4. d <= bound => p <= c + 1
    <3> SUFFICES ASSUME d <= bound, p > c + 1 PROVE FALSE
      BY <1>1, <1>3
    <3>1. c + 1 \in 1 .. p - 1 /\ c + 1 \in 1 .. n /\ ~(c + 1 <= c)
      BY <1>1, <1>3
    <3>2. s[c + 1] <= d /\ s[c + 1] \in Nat /\ ~(s[c + 1] <= bound)
      BY <1>1, <1>4, <1>9, <3>1
    <3> QED  BY <3>2
  <2>5. ~(d <= bound) => p > c
    <3> SUFFICES ASSUME d > bound, p <= c PROVE FALSE
      BY <1>1, <1>3
    <3>1. p \in 1 .. n /\ p \in p .. n
      BY <1>1, <1>3
    <3>2. s[p] > d /\ s[p] \in Nat /\ s[p] <= bound
      BY <1>1, <1>5, <1>9, <3>1
    <3> QED  BY <3>2
  <2>6. CASE j < p
    BY <1>1, <1>3, <2>1, <2>4, <2>5, <2>6
  <2>7. CASE j = p
    BY <1>1, <1>3, <2>3, <2>4, <2>5, <2>7
  <2>8. CASE j > p
    BY <1>1, <1>3, <2>2, <2>4, <2>5, <2>8
  <2> QED  BY <1>1, <1>3, <2>6, <2>7, <2>8
<1> QED  BY <1>1, <1>6, <1>7, <1>8, <1>9 DEF n, t

\* What the constants of the profiler are.
LEMMA ProfilerConstants ==
    /\ IsFiniteSet(Operations) /\ Overflow \notin Operations /\ MaxOperations \in Nat \ {0}
    /\ DOMAIN Buckets = 1 .. Len(Buckets) /\ Len(Buckets) \in Nat \ {0}
    /\ \A i \in DOMAIN Buckets : Buckets[i] \in Nat \ {0}
    /\ \A i, j \in DOMAIN Buckets : i < j => Buckets[i] < Buckets[j]
BY ProfilerAssumption

\* observe() keeps the counts true of what was observed.
LEMMA ObserveTells ==
    ASSUME NEW entry, NEW s, CountsTell(entry, s), NEW d \in Nat
    PROVE  CountsTell(Observe(entry, d), Sorted(s, d))
<1> DEFINE t == Sorted(s, d)
           e == Observe(entry, d)
<1>1. /\ entry \in Samples /\ s \in Seq(Nat) /\ Len(s) = entry.count /\ Grows(s)
      /\ entry.bucketCounts \in [DOMAIN Buckets -> Nat] /\ entry.count \in Nat
      /\ DOMAIN s = 1 .. Len(s)
  BY DEF CountsTell, Samples, Grows
<1>2. /\ t \in Seq(Nat) /\ Len(t) = Len(s) + 1 /\ Grows(t)
      /\ \A bound \in Nat, c \in 0 .. Len(s) :
           (\A j \in DOMAIN s : s[j] <= bound <=> j <= c) =>
               \A j \in DOMAIN t : t[j] <= bound <=> j <= c + (IF d <= bound THEN 1 ELSE 0)
  BY ONLY <1>1, d \in Nat, SortedTells
<1>3. /\ e \in Samples /\ e.count = entry.count + 1
      /\ \A i \in DOMAIN Buckets :
           e.bucketCounts[i] = entry.bucketCounts[i] + (IF d <= Buckets[i] THEN 1 ELSE 0)
  BY <1>1 DEF Observe, Samples
<1> HIDE DEF t, e
<1>4. ASSUME NEW i \in DOMAIN Buckets
      PROVE  /\ e.bucketCounts[i] <= e.count
             /\ \A j \in DOMAIN t : t[j] <= Buckets[i] <=> j <= e.bucketCounts[i]
  <2> DEFINE c == entry.bucketCounts[i]
             x == IF d <= Buckets[i] THEN 1 ELSE 0
  <2>1. Buckets[i] \in Nat /\ c \in 0 .. Len(s) /\ c <= entry.count /\ x \in 0 .. 1
    BY <1>1, ProfilerConstants DEF CountsTell
  <2>2. \A j \in DOMAIN s : s[j] <= Buckets[i] <=> j <= c
    BY DEF CountsTell
  <2>3. \A j \in DOMAIN t : t[j] <= Buckets[i] <=> j <= c + x
    BY <1>2, <2>1, <2>2
  <2>4. e.bucketCounts[i] = c + x /\ c + x <= e.count
    BY <1>1, <1>3, <2>1
  <2> QED  BY <2>3, <2>4
<1>5. Len(t) = e.count
  BY <1>1, <1>2, <1>3
<1> QED  BY <1>2, <1>3, <1>4, <1>5 DEF CountsTell, Grows, t, e

\* The observation of rank q percent, among n, counted from one.
RankOf(q, n) == LET rank == (q * n + 99) \div 100 IN IF rank = 0 THEN 1 ELSE rank

\* That rank is reached by c observations exactly when 100 * c >= q * n.
LEMMA RankFacts ==
    ASSUME NEW n \in Nat \ {0}, NEW q \in 0 .. 100
    PROVE  /\ RankOf(q, n) \in 1 .. n
           /\ \A c \in Nat : q > 0 /\ 100 * c >= q * n => RankOf(q, n) <= c
           /\ \A c \in Nat : 100 * c < q * n => c < RankOf(q, n)
<1> DEFINE x == q * n
<1>1. x \in Nat /\ x <= 100 * n /\ (q > 0 => x >= 1)
  <2>1. q * n <= 100 * n /\ q * n \in Nat
    BY MulOrder
  <2>2. q > 0 => 1 * n <= q * n
    BY MulOrder
  <2> QED  BY <2>1, <2>2
<1>2. RankOf(q, n) = LET rank == (x + 99) \div 100 IN IF rank = 0 THEN 1 ELSE rank
  BY DEF RankOf
<1>3. q = 0 => x = 0
  OBVIOUS
<1> HIDE DEF x
<1> DEFINE r == (x + 99) \div 100
<1>4. r \in Nat /\ 100 * r <= x + 99 /\ x + 99 < 100 * r + 100
  BY <1>1
<1> HIDE DEF r
<1>5. RankOf(q, n) = IF r = 0 THEN 1 ELSE r
  BY <1>2 DEF r
<1>6. RankOf(q, n) \in 1 .. n
  BY <1>1, <1>4, <1>5
<1>7. ASSUME NEW c \in Nat, q > 0, 100 * c >= x PROVE RankOf(q, n) <= c
  BY <1>1, <1>4, <1>5, <1>7
<1>8. ASSUME NEW c \in Nat, 100 * c < x PROVE c < RankOf(q, n)
  BY <1>1, <1>4, <1>5, <1>8
<1> QED  BY <1>6, <1>7, <1>8 DEF x

\* The first bucket whose count reaches the rank.
LEMMA FirstCrossing ==
    ASSUME NEW entry \in Samples, NEW q \in Nat, Crossing(entry, q) # {}
    PROVE  LET i == Min(Crossing(entry, q))
           IN  /\ i \in DOMAIN Buckets /\ i \in Nat \ {0}
               /\ 100 * entry.bucketCounts[i] >= q * entry.count
               /\ entry.bucketCounts[i] \in Nat /\ Cumulative(entry, i - 1) \in Nat
               /\ i # 1 => 100 * Cumulative(entry, i - 1) < q * entry.count
               /\ i = 1 => Cumulative(entry, i - 1) = 0
               /\ \A k \in Crossing(entry, q) : i <= k
<1> DEFINE C == Crossing(entry, q)
           i == Min(C)
<1>1. C \subseteq Nat /\ C \subseteq DOMAIN Buckets /\ C # {}
  BY ProfilerConstants DEF Crossing
<1>2. i \in C /\ \A k \in C : i <= k
  <2> HIDE DEF C
  <2> QED  BY <1>1, LeastNumber
<1>3. /\ i \in DOMAIN Buckets /\ i \in Nat \ {0}
      /\ 100 * entry.bucketCounts[i] >= q * entry.count
  BY <1>2, ProfilerConstants DEF Crossing
<1>4. entry.count \in Nat /\ \A k \in DOMAIN Buckets : entry.bucketCounts[k] \in Nat
  BY DEF Samples
<1>5. CASE i = 1
  BY <1>2, <1>3, <1>4, <1>5 DEF Cumulative
<1>6. CASE i # 1
  <2>1. i - 1 \in DOMAIN Buckets /\ i - 1 # 0 /\ ~(i <= i - 1)
    BY <1>3, <1>6, ProfilerConstants
  <2>2. i - 1 \notin C
    BY <1>2, <2>1
  <2>3. ~(100 * entry.bucketCounts[i - 1] >= q * entry.count)
    BY <2>1, <2>2 DEF Crossing
  <2>4. q * entry.count \in Nat /\ entry.bucketCounts[i - 1] \in Nat
    BY <1>4, <2>1
  <2>5. Cumulative(entry, i - 1) = entry.bucketCounts[i - 1]
    BY <2>1 DEF Cumulative
  <2>6. 100 * Cumulative(entry, i - 1) < q * entry.count
    BY <2>3, <2>4, <2>5
  <2> QED  BY <1>2, <1>3, <1>4, <1>6, <2>4, <2>5, <2>6
<1> QED  BY <1>5, <1>6

\* The bounds of a bucket.
LEMMA BoundFacts ==
    ASSUME NEW i \in DOMAIN Buckets
    PROVE  /\ i \in Nat \ {0} /\ Bound(i) \in Nat /\ Bound(i - 1) \in Nat /\ Bound(i - 1) < Bound(i)
           /\ Bound(i) = Buckets[i]
           /\ \A k \in DOMAIN Buckets : k < i => Bound(k) <= Bound(i - 1)
<1>1. i \in Nat \ {0} /\ Bound(i) = Buckets[i] /\ Buckets[i] \in Nat \ {0}
  BY ProfilerConstants DEF Bound
<1>2. CASE i = 1
  <2>1. Bound(i - 1) = 0
    BY <1>2 DEF Bound
  <2>2. \A k \in DOMAIN Buckets : ~(k < i)
    BY <1>2, ProfilerConstants
  <2> QED  BY <1>1, <2>1, <2>2
<1>3. CASE i # 1
  <2>1. i - 1 \in DOMAIN Buckets /\ i - 1 # 0 /\ i - 1 < i
    BY <1>1, <1>3, ProfilerConstants
  <2>2. Bound(i - 1) = Buckets[i - 1] /\ Buckets[i - 1] \in Nat /\ Buckets[i - 1] < Buckets[i]
    BY <2>1, ProfilerConstants DEF Bound
  <2>3. ASSUME NEW k \in DOMAIN Buckets, k < i PROVE Bound(k) <= Bound(i - 1)
    <3>1. k \in Nat \ {0} /\ Bound(k) = Buckets[k] /\ Buckets[k] \in Nat
      BY ProfilerConstants DEF Bound
    <3>2. k = i - 1 \/ k < i - 1
      BY <1>1, <2>3, <3>1
    <3>3. k < i - 1 => Buckets[k] < Buckets[i - 1]
      BY <2>1, ProfilerConstants
    <3> QED  BY <2>2, <3>1, <3>2, <3>3
  <2> QED  BY <1>1, <2>2, <2>3
<1> QED  BY <1>2, <1>3

\* Between two bounds, x of w parts of the way.
LEMMA Between ==
    ASSUME NEW b \in Nat, NEW c \in Nat, b <= c, NEW w \in Nat, NEW x \in 0 .. w
    PROVE  /\ b * w + (c - b) * x \in Nat
           /\ b * w <= b * w + (c - b) * x
           /\ b * w + (c - b) * x <= c * w
<1>1. PICK k \in Nat : c = b + k
  <2>1. c - b \in Nat /\ c = b + (c - b)
    OBVIOUS
  <2> QED  BY <2>1
<1>2. k * x \in Nat /\ k * x <= k * w /\ k * w \in Nat
  BY MulOrder
<1>3. c * w = b * w + k * w /\ b * w \in Nat
  BY <1>1
<1>4. (c - b) * x = k * x
  BY <1>1
<1> QED  BY <1>2, <1>3, <1>4

\* How far the rank is into the bucket that it crosses, and how full that is.
Into(entry, q, i) == q * entry.count - 100 * Cumulative(entry, i - 1)
Within(entry, i) == entry.bucketCounts[i] - Cumulative(entry, i - 1)

\* An estimate lies within its bucket; there is nothing below a rank of zero.
LEMMA EstimateInBucket ==
    ASSUME NEW entry \in Samples, NEW q \in Nat, Crossing(entry, q) # {}
    PROVE  LET i == Min(Crossing(entry, q))
               e == Quantile(entry, q)
               w == 100 * Within(entry, i)
           IN  /\ e.num \in Nat /\ e.den \in Nat \ {0}
               /\ Bound(i - 1) * e.den <= e.num /\ e.num <= Bound(i) * e.den
               /\ q = 0 => e.num = 0
               /\ Within(entry, i) \in Nat
               /\ IF Within(entry, i) = 0 THEN e.num = Bound(i - 1) /\ e.den = 1
                  ELSE /\ e.num = Bound(i - 1) * w + (Bound(i) - Bound(i - 1)) * Into(entry, q, i)
                       /\ e.den = w /\ Into(entry, q, i) \in 0 .. w
<1> DEFINE i == Min(Crossing(entry, q))
           e == Quantile(entry, q)
           inside == Within(entry, i)
           x == Into(entry, q, i)
           b == Bound(i - 1)
           c == Bound(i)
           w == 100 * inside
<1>1. /\ i \in DOMAIN Buckets /\ i \in Nat \ {0}
      /\ 100 * entry.bucketCounts[i] >= q * entry.count
      /\ entry.bucketCounts[i] \in Nat /\ Cumulative(entry, i - 1) \in Nat
      /\ i # 1 => 100 * Cumulative(entry, i - 1) < q * entry.count
      /\ i = 1 => Cumulative(entry, i - 1) = 0
  BY FirstCrossing
<1>2. e = IF inside = 0 THEN [num |-> b, den |-> 1]
          ELSE [num |-> b * 100 * inside + (c - b) * x, den |-> 100 * inside]
  BY Zenon DEF Quantile, Within, Into
<1>3. q * entry.count \in Nat
  BY DEF Samples
<1>4. inside \in Nat /\ x \in 0 .. w
  <2> DEFINE y == q * entry.count
             low == Cumulative(entry, i - 1)
             high == entry.bucketCounts[i]
  <2>1. y \in Nat /\ low \in Nat /\ high \in Nat /\ 100 * high >= y /\ (low = 0 \/ 100 * low < y)
    BY <1>1, <1>3
  <2>2. inside = high - low /\ x = y - 100 * low
    BY DEF Within, Into
  <2> HIDE DEF y, low, high, inside, x
  <2> QED  BY <2>1, <2>2
<1>5. b \in Nat /\ c \in Nat /\ b < c
  BY <1>1, BoundFacts
<1>6. q = 0 => i = 1 /\ x = 0 /\ b = 0
  <2> SUFFICES ASSUME q = 0 PROVE i = 1 /\ x = 0 /\ b = 0
    OBVIOUS
  <2>1. entry.count \in Nat
    BY DEF Samples
  <2>2. q * entry.count = 0
    BY <2>1
  <2>3. i = 1
    BY <1>1, <2>2
  <2>4. x = 0
    BY <1>1, <2>2, <2>3 DEF Into
  <2>5. Bound(0) = 0 /\ i - 1 = 0
    BY <2>3 DEF Bound
  <2>6. b = 0
    BY <2>5
  <2> QED  BY <2>3, <2>4, <2>6
<1> HIDE DEF b, c, x, inside, e, i
<1>7. w \in Nat /\ b * 100 * inside = b * w
  BY <1>4, <1>5
<1>8. CASE inside = 0
  <2>1. e.num = b /\ e.den = 1
    BY <1>2, <1>8
  <2> QED  BY <1>4, <1>5, <1>6, <1>8, <2>1 DEF b, c, x, inside, e, i
<1>9. CASE inside # 0
  <2>1. e.num = b * w + (c - b) * x /\ e.den = w
    BY <1>2, <1>7, <1>9
  <2>2. /\ b * w + (c - b) * x \in Nat
        /\ b * w <= b * w + (c - b) * x /\ b * w + (c - b) * x <= c * w
    BY ONLY <1>4, <1>5, <1>7, Between
  <2>3. w \in Nat \ {0}
    BY <1>4, <1>9
  <2>4. q = 0 => e.num = 0
    <3> SUFFICES ASSUME q = 0 PROVE e.num = 0
      OBVIOUS
    <3>1. b = 0 /\ x = 0
      BY <1>6
    <3> QED  BY <1>5, <1>7, <2>1, <3>1
  <2> HIDE DEF w
  <2>5. b * w <= e.num /\ e.num <= c * w /\ e.num \in Nat
    BY <2>1, <2>2
  <2> QED  BY <1>4, <1>9, <2>1, <2>3, <2>4, <2>5 DEF b, c, x, inside, e, i, w
<1> QED  BY <1>8, <1>9

\* The bucket of an estimate is the bucket of the observation of that rank.
LEMMA CloseToTrue ==
    ASSUME NEW entry, NEW s, CountsTell(entry, s), entry.count > 0, NEW q \in 0 .. 100
    PROVE  LET d == s[RankOf(q, Len(s))]
           IN  IF Crossing(entry, q) = {} THEN d > Last(Buckets)
               ELSE LET i == Min(Crossing(entry, q))
                        e == Quantile(entry, q)
                    IN  /\ Bound(i - 1) * e.den <= e.num /\ e.num <= Bound(i) * e.den
                        /\ q > 0 => d <= Bound(i) /\ (i = 1 \/ Bound(i - 1) < d)
                        /\ q = 0 => e.num <= d * e.den
<1> DEFINE n == entry.count
           r == RankOf(q, n)
           d == s[r]
<1>1. /\ entry \in Samples /\ s \in Seq(Nat) /\ Len(s) = n /\ n \in Nat \ {0} /\ DOMAIN s = 1 .. n
      /\ q \in Nat /\ q * n \in Nat
      /\ \A i \in DOMAIN Buckets :
           /\ entry.bucketCounts[i] \in Nat
           /\ \A j \in DOMAIN s : s[j] <= Buckets[i] <=> j <= entry.bucketCounts[i]
  BY DEF CountsTell, Samples
<1>2. /\ r \in 1 .. n
      /\ \A c \in Nat : q > 0 /\ 100 * c >= q * n => r <= c
      /\ \A c \in Nat : 100 * c < q * n => c < r
  BY ONLY <1>1, q \in 0 .. 100, RankFacts
<1> HIDE DEF r, n
<1>3. d \in Nat /\ \A i \in DOMAIN Buckets : d <= Buckets[i] <=> r <= entry.bucketCounts[i]
  BY <1>1, <1>2
<1> HIDE DEF d
<1>4. ASSUME NEW i \in DOMAIN Buckets, 100 * entry.bucketCounts[i] < q * n
      PROVE  Buckets[i] < d
  <2>1. entry.bucketCounts[i] < r /\ entry.bucketCounts[i] \in Nat /\ Buckets[i] \in Nat
    BY <1>1, <1>2, <1>4, ProfilerConstants
  <2>2. ~(d <= Buckets[i])
    BY <1>2, <1>3, <2>1
  <2> QED  BY <1>3, <2>1, <2>2
<1>5. CASE Crossing(entry, q) = {}
  <2> DEFINE last == Len(Buckets)
  <2>1. last \in DOMAIN Buckets /\ Last(Buckets) = Buckets[last] /\ Buckets[last] \in Nat
    BY ProfilerConstants DEF Last
  <2>2. ~(100 * entry.bucketCounts[last] >= q * n) /\ entry.bucketCounts[last] \in Nat
    BY <1>1, <1>5, <2>1 DEF Crossing, n
  <2>3. 100 * entry.bucketCounts[last] < q * n
    BY <1>1, <2>2
  <2>4. Buckets[last] < d
    BY <1>4, <2>1, <2>3
  <2>5. d > Last(Buckets)
    BY <1>3, <2>1, <2>4
  <2> QED  BY <1>1, <1>5, <2>5 DEF d, r
<1>6. CASE Crossing(entry, q) # {}
  <2> DEFINE i == Min(Crossing(entry, q))
             e == Quantile(entry, q)
  <2>1. /\ i \in DOMAIN Buckets /\ i \in Nat \ {0}
        /\ 100 * entry.bucketCounts[i] >= q * entry.count
        /\ entry.bucketCounts[i] \in Nat
        /\ i # 1 => 100 * Cumulative(entry, i - 1) < q * entry.count
    BY ONLY <1>1, <1>6, FirstCrossing
  <2>2. /\ e.num \in Nat /\ e.den \in Nat \ {0}
        /\ Bound(i - 1) * e.den <= e.num /\ e.num <= Bound(i) * e.den
        /\ q = 0 => e.num = 0
    BY ONLY <1>1, <1>6, EstimateInBucket
  <2> HIDE DEF i, e
  <2>3. Bound(i) = Buckets[i]
    BY <2>1, BoundFacts
  <2>4. q > 0 => d <= Bound(i)
    <3> SUFFICES ASSUME q > 0 PROVE d <= Buckets[i]
      BY <2>3
    <3>1. r <= entry.bucketCounts[i]
      BY <1>2, <2>1 DEF n
    <3> QED  BY <1>3, <2>1, <3>1
  <2>5. i = 1 \/ Bound(i - 1) < d
    <3> SUFFICES ASSUME i # 1 PROVE Bound(i - 1) < d
      OBVIOUS
    <3>1. i - 1 \in DOMAIN Buckets /\ i - 1 # 0
      BY <2>1, ProfilerConstants
    <3>2. Bound(i - 1) = Buckets[i - 1] /\ Cumulative(entry, i - 1) = entry.bucketCounts[i - 1]
      BY <3>1 DEF Bound, Cumulative
    <3>3. 100 * entry.bucketCounts[i - 1] < q * n
      BY <2>1, <3>2 DEF n
    <3> QED  BY <1>4, <3>1, <3>2, <3>3
  <2>6. q = 0 => e.num <= d * e.den
    <3>1. d * e.den \in Nat
      BY <1>3, <2>2
    <3> QED  BY <2>2, <3>1
  <2>7. s[RankOf(q, Len(s))] = d
    BY <1>1 DEF d, r
  <2> HIDE DEF r, d
  <2>8. /\ Bound(i - 1) * e.den <= e.num /\ e.num <= Bound(i) * e.den
        /\ q > 0 => d <= Bound(i) /\ (i = 1 \/ Bound(i - 1) < d)
        /\ q = 0 => e.num <= d * e.den
    BY ONLY <2>2, <2>4, <2>5, <2>6
  <2> QED  BY <1>6, <2>7, <2>8, Zenon DEF i, e
<1> QED  BY <1>5, <1>6

\* Fractions on both sides of a bound, or of two.
LEMMA FractionsApart ==
    ASSUME NEW x \in Nat, NEW m \in Nat, NEW y \in Nat, NEW n \in Nat,
           NEW b \in Nat, NEW c \in Nat, x <= b * m, b <= c, c * n <= y
    PROVE  x * n <= y * m
<1>1. b * m \in Nat /\ c * n \in Nat /\ c * m \in Nat
  OBVIOUS
<1>2. x <= c * m
  <2>1. b * m <= c * m
    BY MulOrder
  <2> QED  BY <1>1, <2>1
<1>3. x * n <= (c * m) * n
  BY <1>1, <1>2, MulOrder
<1>4. (c * n) * m <= y * m
  BY <1>1, MulOrder
<1>5. (c * m) * n = (c * n) * m
  OBVIOUS
<1>6. x * n \in Nat /\ y * m \in Nat /\ (c * n) * m \in Nat
  BY <1>1
<1> QED  BY <1>3, <1>4, <1>5, <1>6

\* The estimate of a larger quantile is not smaller.
LEMMA EstimatesGrow ==
    ASSUME NEW entry \in Samples, NEW p \in Nat, NEW q \in Nat, p < q, Crossing(entry, q) # {}
    PROVE  LET a == Quantile(entry, p)
               b == Quantile(entry, q)
           IN  a.num * b.den <= b.num * a.den
<1> DEFINE a == Quantile(entry, p)
           b == Quantile(entry, q)
           i == Min(Crossing(entry, p))
           j == Min(Crossing(entry, q))
           n == entry.count
<1>1. n \in Nat /\ p * n \in Nat /\ q * n \in Nat /\ p * n <= q * n
  <2>1. n \in Nat
    BY DEF Samples
  <2> QED  BY <2>1, MulOrder
<1>2. Crossing(entry, q) \subseteq Crossing(entry, p)
  <2> SUFFICES ASSUME NEW k \in DOMAIN Buckets, 100 * entry.bucketCounts[k] >= q * n
               PROVE  100 * entry.bucketCounts[k] >= p * n
    BY DEF Crossing
  <2>1. entry.bucketCounts[k] \in Nat
    BY DEF Samples
  <2> QED  BY <1>1, <2>1
<1>3. Crossing(entry, p) # {}
  BY <1>2
<1>4. i \in DOMAIN Buckets /\ i \in Nat \ {0} /\ \A k \in Crossing(entry, p) : i <= k
  BY <1>3, FirstCrossing
<1>5. j \in DOMAIN Buckets /\ j \in Nat \ {0} /\ j \in Crossing(entry, q)
  <2>1. j \in DOMAIN Buckets /\ j \in Nat \ {0} /\ 100 * entry.bucketCounts[j] >= q * entry.count
    BY FirstCrossing
  <2> QED  BY <2>1 DEF Crossing
<1>6. /\ a.num \in Nat /\ a.den \in Nat \ {0} /\ a.num <= Bound(i) * a.den
      /\ IF Within(entry, i) = 0 THEN a.num = Bound(i - 1) /\ a.den = 1
         ELSE /\ a.num = Bound(i - 1) * (100 * Within(entry, i))
                           + (Bound(i) - Bound(i - 1)) * Into(entry, p, i)
              /\ a.den = 100 * Within(entry, i) /\ Into(entry, p, i) \in 0 .. 100 * Within(entry, i)
  BY ONLY entry \in Samples, p \in Nat, <1>3, EstimateInBucket
<1>7. /\ b.num \in Nat /\ b.den \in Nat \ {0} /\ Bound(j - 1) * b.den <= b.num
      /\ Within(entry, j) \in Nat
      /\ IF Within(entry, j) = 0 THEN b.num = Bound(j - 1) /\ b.den = 1
         ELSE /\ b.num = Bound(j - 1) * (100 * Within(entry, j))
                           + (Bound(j) - Bound(j - 1)) * Into(entry, q, j)
              /\ b.den = 100 * Within(entry, j) /\ Into(entry, q, j) \in 0 .. 100 * Within(entry, j)
  BY ONLY entry \in Samples, q \in Nat, Crossing(entry, q) # {}, EstimateInBucket
<1>8. Cumulative(entry, j - 1) \in Nat
  BY FirstCrossing
<1> HIDE DEF a, b, i, j
<1>9. CASE i < j
  <2>1. Bound(i) <= Bound(j - 1) /\ Bound(i) \in Nat /\ Bound(j - 1) \in Nat
    BY <1>4, <1>5, <1>9, BoundFacts
  <2>2. a.num * b.den <= b.num * a.den
    BY ONLY <1>6, <1>7, <2>1, FractionsApart
  <2> QED  BY <2>2 DEF a, b
<1>10. CASE i = j
  <2> DEFINE w == 100 * Within(entry, j)
             x == Into(entry, p, j)
             y == Into(entry, q, j)
             low == Bound(j - 1)
             k == Bound(j) - Bound(j - 1)
  <2>1. CASE Within(entry, j) = 0
    <3>1. a.num = b.num /\ a.den = 1 /\ b.den = 1 /\ b.num \in Nat
      BY <1>6, <1>7, <1>10, <2>1
    <3>2. a.num * b.den <= b.num * a.den
      BY <3>1
    <3> QED  BY <3>2 DEF a, b
  <2>2. CASE Within(entry, j) # 0
    <3>1. /\ a.num = low * w + k * x /\ a.den = w /\ x \in 0 .. w
          /\ b.num = low * w + k * y /\ b.den = w /\ y \in 0 .. w
      BY <1>6, <1>7, <1>10, <2>2
    <3>2. x <= y
      BY <1>1, <1>8 DEF Into
    <3>3. low \in Nat /\ k \in Nat /\ w \in Nat
      <4>1. low \in Nat /\ Bound(j) \in Nat /\ low < Bound(j)
        BY <1>5, BoundFacts
      <4> QED  BY <1>7, <4>1
    <3> HIDE DEF w, x, y, low, k
    <3>4. x \in Nat /\ y \in Nat
      BY <3>1, <3>3
    <3>5. k * x <= k * y /\ k * x \in Nat /\ k * y \in Nat /\ low * w \in Nat
      BY <3>2, <3>3, <3>4, MulOrder
    <3>6. a.num <= b.num
      BY <3>1, <3>5
    <3>7. a.num * w <= b.num * w
      BY <1>6, <1>7, <3>3, <3>6, MulOrder
    <3> QED  BY <3>1, <3>7 DEF a, b
  <2> QED  BY <2>1, <2>2
<1>11. i <= j
  BY <1>2, <1>4, <1>5
<1> QED  BY <1>4, <1>5, <1>9, <1>10, <1>11

-----------------------------------------------------------------------------
(* Sums over a set.                                                        *)

\* SetToSeq lists a finite set, every element once.
LEMMA ListOfSet ==
    ASSUME NEW S, IsFiniteSet(S)
    PROVE  LET list == SetToSeq(S)
           IN  /\ list \in Seq(S) /\ \A x \in S : \E i \in 1 .. Len(list) : list[i] = x
               /\ \A i, j \in 1 .. Len(list) : list[i] = list[j] => i = j
<1> DEFINE n == Cardinality(S)
           list == SetToSeq(S)
<1>1. n \in Nat /\ ExistsBijection(1 .. n, S)
  BY FS_CardinalityType
<1>2. \E f \in [1 .. n -> S] : IsInjective(f)
  BY <1>1 DEF ExistsBijection, Bijection, Injection
<1>3. list \in [1 .. n -> S] /\ IsInjective(list)
  BY <1>2 DEF SetToSeq
<1> HIDE DEF list
<1>4. list \in Injection(1 .. n, S)
  BY <1>3 DEF Injection
<1>5. Cardinality(1 .. n) = n
  BY <1>1, FS_Interval
<1>6. list \in Surjection(1 .. n, S)
  BY <1>4, <1>5, FS_Injection
<1>7. list \in Seq(S) /\ Len(list) = n /\ DOMAIN list = 1 .. n
  BY <1>1, <1>3
<1> QED  BY <1>3, <1>6, <1>7 DEF list, Surjection, IsInjective

\* A sum of nothing but zeros.
LEMMA SumOfZeros ==
    ASSUME NEW S, IsFiniteSet(S)
    PROVE  SumOf([x \in S |-> 0]) = 0
<1> DEFINE f == [x \in S |-> 0]
           list == SetToSeq(S)
           zeros == [i \in DOMAIN list |-> f[list[i]]]
<1>1. list \in Seq(S)
  BY ListOfSet
<1> HIDE DEF list
<1>2. Len(list) \in Nat /\ DOMAIN list = 1 .. Len(list) /\ \A i \in 1 .. Len(list) : list[i] \in S
  BY <1>1
<1>3. zeros \in Seq(Nat) /\ Len(zeros) = Len(list) /\ \A i \in 1 .. Len(list) : zeros[i] = 0
  BY <1>2
<1> HIDE DEF zeros
<1>4. PICK g : /\ Total(zeros) = g[Len(zeros)] /\ g[0] = 0
               /\ \A i \in 1 .. Len(zeros) : g[i] = g[i - 1] + zeros[i]
  BY <1>2, <1>3, TotalUnfolds
<1> DEFINE R == {k \in Nat : k <= Len(list) => g[k] = 0}
<1>5. 0 \in R
  BY <1>4
<1>6. \A k \in Nat : k \in R => k + 1 \in R
  <2> SUFFICES ASSUME NEW k \in Nat, k \in R, k + 1 <= Len(list) PROVE g[k + 1] = 0
    OBVIOUS
  <2>1. k + 1 \in 1 .. Len(list) /\ (k + 1) - 1 = k /\ g[k] = 0
    BY <1>2
  <2>2. g[k + 1] = g[(k + 1) - 1] + zeros[k + 1] /\ zeros[k + 1] = 0
    BY <1>3, <1>4, <2>1
  <2> QED  BY <2>1, <2>2
<1>7. Nat \subseteq R
  <2> HIDE DEF R
  <2> QED  BY <1>5, <1>6, SetInduction
<1>8. g[Len(list)] = 0
  BY <1>2, <1>7
<1>9. SumOf(f) = Total(zeros)
  BY DEF SumOf, zeros, list
<1> QED  BY <1>3, <1>4, <1>8, <1>9

\* One more for one of the elements is one more in all.
LEMMA SumRaised ==
    ASSUME NEW S, IsFiniteSet(S), NEW f \in [S -> Nat], NEW x \in S
    PROVE  SumOf(f) \in Nat /\ SumOf([f EXCEPT ![x] = @ + 1]) = SumOf(f) + 1
<1> DEFINE list == SetToSeq(S)
           g == [f EXCEPT ![x] = @ + 1]
<1>1. /\ list \in Seq(S) /\ \E i \in 1 .. Len(list) : list[i] = x
      /\ \A i, j \in 1 .. Len(list) : list[i] = list[j] => i = j
  BY ListOfSet
<1>2. g \in [S -> Nat] /\ g[x] = f[x] + 1 /\ f[x] \in Nat /\ \A y \in S : y # x => g[y] = f[y]
  OBVIOUS
<1>3. SumOf(f) = Weigh(list, f) /\ SumOf(g) = Weigh(list, g)
  BY <1>2 DEF SumOf, Weigh
<1> HIDE DEF list, g
<1>4. PICK i \in 1 .. Len(list) : list[i] = x
  BY <1>1
<1> DEFINE rest == RemoveAt(list, i)
<1>5. rest \in Seq(S) /\ Weigh(list, f) = Weigh(rest, f) + f[x]
  BY ONLY <1>1, <1>4, f \in [S -> Nat], WeighWithout
<1>6. Weigh(list, g) = Weigh(rest, g) + g[x]
  <2>1. list \in Seq(S) /\ g \in [S -> Nat]
    BY <1>1, <1>2
  <2>2. Weigh(list, g) = Weigh(rest, g) + g[list[i]]
    BY ONLY <1>4, <2>1, WeighWithout
  <2> QED  BY <1>4, <2>2
<1>7. /\ Len(rest) = Len(list) - 1
      /\ \A k \in 1 .. Len(list) - 1 : rest[k] = IF k < i THEN list[k] ELSE list[k + 1]
  BY ONLY <1>1, CutOut DEF RemoveAt
<1> HIDE DEF rest
<1>8. Len(list) \in Nat /\ DOMAIN rest = 1 .. Len(list) - 1
  BY <1>1, <1>5, <1>7
<1>9. ASSUME NEW k \in DOMAIN rest PROVE rest[k] \in S /\ f[rest[k]] = g[rest[k]]
  <2>1. k \in 1 .. Len(list) - 1 /\ k \in 1 .. Len(list) /\ k + 1 \in 1 .. Len(list) /\ k \in Nat
    BY <1>8
  <2>2. rest[k] # x
    <3>1. CASE k < i
      BY <1>1, <1>4, <1>7, <2>1, <3>1
    <3>2. CASE ~(k < i)
      BY <1>1, <1>4, <1>7, <2>1, <3>2
    <3> QED  BY <3>1, <3>2
  <2>3. rest[k] \in S
    BY <1>5
  <2> QED  BY <1>2, <2>2, <2>3
<1>10. Weigh(rest, f) = Weigh(rest, g)
  BY <1>9 DEF Weigh
<1>11. Weigh(rest, f) \in Nat
  BY ONLY <1>5, f \in [S -> Nat], WeighBasics
<1>12. SumOf(g) = SumOf(f) + 1 /\ SumOf(f) \in Nat
  BY <1>2, <1>3, <1>5, <1>6, <1>10, <1>11
<1> QED  BY <1>12 DEF g

-----------------------------------------------------------------------------
(* The labels and the step.                                                *)

\* An element moved to the end.
LEMMA MovedToEnd ==
    ASSUME NEW T, NEW s \in Seq(T), NEW i \in 1 .. Len(s)
    PROVE  LET t == Append(RemoveAt(s, i), s[i])
           IN  t \in Seq(T) /\ Len(t) = Len(s) /\ ToSet(t) = ToSet(s)
<1> DEFINE a == SubSeq(s, 1, i - 1)
           b == SubSeq(s, i + 1, Len(s))
           rest == RemoveAt(s, i)
<1>1. /\ a \in Seq(T) /\ b \in Seq(T) /\ s[i] \in T /\ s = (a \o <<s[i]>>) \o b
      /\ a \o b \in Seq(T) /\ Len(a \o b) = Len(s) - 1
  BY CutOut
<1>2. rest = a \o b
  BY DEF RemoveAt
<1> HIDE DEF a, b, rest
<1> DEFINE x == s[i]
<1>0. x \in T
  BY <1>1
<1> HIDE DEF x
<1>3. <<x>> \in Seq(T) /\ ToSet(<<x>>) = {x}
  BY <1>0 DEF ToSet
<1>4. a \o <<x>> \in Seq(T) /\ ToSet(a \o <<x>>) = ToSet(a) \cup {x}
  <2>1. a \in Seq(T) /\ <<x>> \in Seq(T) /\ a \o <<x>> \in Seq(T)
    BY <1>1, <1>3
  <2>2. ToSet(a \o <<x>>) = ToSet(a) \cup ToSet(<<x>>)
    BY ONLY <2>1, ToSetConcat, ZenonT(30)
  <2> QED  BY <1>3, <2>1, <2>2
<1>5. ToSet(s) = (ToSet(a) \cup {x}) \cup ToSet(b)
  <2>1. ToSet((a \o <<x>>) \o b) = ToSet(a \o <<x>>) \cup ToSet(b)
    <3>1. a \o <<x>> \in Seq(T) /\ b \in Seq(T)
      BY <1>1, <1>4
    <3> QED  BY ONLY <3>1, ToSetConcat, ZenonT(30)
  <2>2. s = (a \o <<x>>) \o b
    BY <1>1 DEF x
  <2> QED  BY <1>4, <2>1, <2>2
<1>6. ToSet(rest) = ToSet(a) \cup ToSet(b)
  <2>1. a \in Seq(T) /\ b \in Seq(T)
    BY <1>1
  <2>2. ToSet(a \o b) = ToSet(a) \cup ToSet(b)
    BY ONLY <2>1, ToSetConcat
  <2> QED  BY <1>2, <2>2
<1>7. Append(rest, x) \in Seq(T) /\ ToSet(Append(rest, x)) = ToSet(rest) \cup {x}
  <2>1. rest \in Seq(T)
    BY <1>1, <1>2
  <2> QED  BY ONLY <1>0, <2>1, AppendFacts
<1>8. Len(Append(rest, x)) = Len(s)
  <2>1. rest \in Seq(T) /\ Len(rest) = Len(s) - 1 /\ Len(s) \in Nat
    BY <1>1, <1>2
  <2>2. Len(Append(rest, x)) = Len(rest) + 1
    BY ONLY <1>0, <2>1, AppendProperties
  <2> QED  BY <2>1, <2>2
<1>9. ToSet(Append(rest, x)) = ToSet(s)
  BY <1>5, <1>6, <1>7
<1> QED  BY <1>7, <1>8, <1>9 DEF rest, x

CacheEntries == [name : Operations, label : Labels]

\* A name is found, is new while there is room, or is new and shares the label
\* of the overflow; only then another one is forgotten.
LEMMA CacheStep ==
    ASSUME ProfilerInv, NEW name \in Operations, NEW d \in Durations, RecordDuration(name, d)
    PROVE  \E entry \in CacheEntries :
             /\ labelCache' \in Seq(CacheEntries) /\ Len(labelCache') <= MaxOperations
             /\ ToSet(labelCache') \subseteq ToSet(labelCache) \cup {entry}
             /\ entry \in ToSet(labelCache')
             /\ \/ entry \in ToSet(labelCache)
                \/ Len(labelCache) < MaxOperations /\ entry.label = entry.name
                \/ Len(labelCache) = MaxOperations /\ entry.label = Overflow
             /\ Len(labelCache) < MaxOperations => ToSet(labelCache) \subseteq ToSet(labelCache')
             /\ Len(labelCache') < MaxOperations => Len(labelCache) < MaxOperations
             /\ histogram' = [histogram EXCEPT ![entry.label] = Observe(@, d)]
             /\ recorded' = [recorded EXCEPT ![entry.label] = Sorted(@, d)]
<1> DEFINE entry == IF Labelled(name) THEN labelCache[LabelledAt(name)]
                                      ELSE [name |-> name, label |-> LabelFor(name)]
           n == Len(labelCache)
<1>1. /\ labelCache \in Seq(CacheEntries) /\ n \in Nat /\ n <= MaxOperations
      /\ DOMAIN labelCache = 1 .. n /\ MaxOperations \in Nat \ {0}
  BY ProfilerConstants, LenProperties DEF ProfilerInv, CacheEntries
<1>2. /\ labelCache' = Append(OtherLabels(name), entry)
      /\ histogram' = [histogram EXCEPT ![entry.label] = Observe(@, d)]
      /\ recorded' = [recorded EXCEPT ![entry.label] = Sorted(@, d)]
  BY DEF RecordDuration
<1>3. CASE Labelled(name)
  <2> DEFINE i == LabelledAt(name)
  <2>1. i \in 1 .. n
    BY <1>1, <1>3 DEF Labelled, LabelledAt
  <2>2. entry = labelCache[i] /\ OtherLabels(name) = RemoveAt(labelCache, i)
    BY <1>3 DEF OtherLabels
  <2> HIDE DEF i
  <2>3. entry \in CacheEntries /\ entry \in ToSet(labelCache)
    BY <1>1, <2>1, <2>2 DEF ToSet
  <2>4. LET t == Append(RemoveAt(labelCache, i), labelCache[i])
        IN  t \in Seq(CacheEntries) /\ Len(t) = Len(labelCache) /\ ToSet(t) = ToSet(labelCache)
    BY ONLY <1>1, <2>1, MovedToEnd
  <2>5. /\ labelCache' \in Seq(CacheEntries) /\ Len(labelCache') = n
        /\ ToSet(labelCache') = ToSet(labelCache)
    BY <1>2, <2>2, <2>4
  <2> HIDE DEF entry
  <2> QED  BY <1>1, <1>2, <2>3, <2>5
<1>4. CASE ~Labelled(name)
  <2>1. entry = [name |-> name, label |-> LabelFor(name)]
    BY <1>4
  <2>2. entry \in CacheEntries /\ entry.name = name /\ entry.label = LabelFor(name)
    BY <2>1 DEF CacheEntries, LabelFor, Labels
  <2> HIDE DEF entry
  <2>3. CASE n >= MaxOperations
    <3>1. n = MaxOperations /\ n # 0 /\ entry.label = Overflow /\ OtherLabels(name) = Tail(labelCache)
      <4>1. n = MaxOperations /\ n # 0
        <5>1. n \in Nat /\ n <= MaxOperations /\ MaxOperations \in Nat \ {0}
          BY <1>1
        <5> HIDE DEF n
        <5> QED  BY ONLY <5>1, <2>3
      <4>2. LabelFor(name) = Overflow
        BY <2>3 DEF LabelFor
      <4>3. OtherLabels(name) = Tail(labelCache)
        BY <1>4, <2>3, Zenon DEF OtherLabels
      <4> QED  BY <2>2, <4>1, <4>2, <4>3
    <3>2. /\ Tail(labelCache) \in Seq(CacheEntries) /\ Len(Tail(labelCache)) = n - 1
          /\ \A k \in 1 .. n - 1 : Tail(labelCache)[k] = labelCache[k + 1]
      BY <1>1, <3>1
    <3>3. ToSet(Tail(labelCache)) \subseteq ToSet(labelCache)
      BY <1>1, <3>2 DEF ToSet
    <3> DEFINE rest == Tail(labelCache)
    <3>6. rest \in Seq(CacheEntries) /\ entry \in CacheEntries
      BY <2>2, <3>2
    <3> HIDE DEF rest
    <3>4. /\ Append(rest, entry) \in Seq(CacheEntries)
          /\ ToSet(Append(rest, entry)) = ToSet(rest) \cup {entry}
          /\ Len(Append(rest, entry)) = Len(rest) + 1
      BY ONLY <3>6, AppendFacts, AppendProperties
    <3>5. /\ labelCache' \in Seq(CacheEntries) /\ Len(labelCache') = n
          /\ ToSet(labelCache') = ToSet(rest) \cup {entry}
      BY <1>1, <1>2, <3>1, <3>2, <3>4 DEF rest
    <3>7. /\ ToSet(labelCache') \subseteq ToSet(labelCache) \cup {entry}
          /\ entry \in ToSet(labelCache') /\ Len(labelCache') <= MaxOperations
          /\ ~(Len(labelCache') < MaxOperations) /\ ~(Len(labelCache) < MaxOperations)
      BY <1>1, <3>1, <3>3, <3>5 DEF rest
    <3> HIDE DEF n
    <3>8. Len(labelCache) = MaxOperations /\ entry.label = Overflow
      BY <3>1 DEF n
    <3> QED  BY ONLY <1>2, <2>2, <3>5, <3>7, <3>8, Zenon
  <2>4. CASE n < MaxOperations
    <3>1. entry.label = entry.name /\ OtherLabels(name) = labelCache
      <4>1. ~(n >= MaxOperations)
        BY <1>1, <2>4
      <4>2. LabelFor(name) = name
        BY <4>1 DEF LabelFor
      <4>3. OtherLabels(name) = labelCache
        BY <1>4, <4>1, Zenon DEF OtherLabels
      <4> QED  BY <2>2, <4>2, <4>3
    <3>2. /\ Append(labelCache, entry) \in Seq(CacheEntries)
          /\ ToSet(Append(labelCache, entry)) = ToSet(labelCache) \cup {entry}
          /\ Len(Append(labelCache, entry)) = n + 1
      BY <1>1, <2>2, AppendFacts, AppendProperties
    <3>3. /\ labelCache' \in Seq(CacheEntries) /\ Len(labelCache') = n + 1
          /\ ToSet(labelCache') = ToSet(labelCache) \cup {entry}
      BY <1>2, <3>1, <3>2
    <3>4. /\ ToSet(labelCache') \subseteq ToSet(labelCache) \cup {entry}
          /\ ToSet(labelCache) \subseteq ToSet(labelCache')
          /\ entry \in ToSet(labelCache') /\ Len(labelCache') <= MaxOperations
          /\ Len(labelCache) < MaxOperations
      BY <1>1, <2>4, <3>3
    <3> QED  BY ONLY <1>2, <2>2, <3>1, <3>3, <3>4, Zenon
  <2>5. n >= MaxOperations \/ n < MaxOperations
    BY <1>1
  <2> QED  BY ONLY <2>3, <2>4, <2>5
<1> QED  BY <1>3, <1>4

\* The cache has no more names than entries.
LEMMA NamesBounded ==
    ASSUME NEW s \in Seq(CacheEntries)
    PROVE  LET names == {r.name : r \in ToSet(s)}
           IN  IsFiniteSet(names) /\ Cardinality(names) \in Nat /\ Cardinality(names) <= Len(s)
<1> DEFINE names == {r.name : r \in ToSet(s)}
           f == [i \in 1 .. Len(s) |-> s[i].name]
<1>1. Len(s) \in Nat /\ ToSet(s) = {s[i] : i \in 1 .. Len(s)}
  BY DEF ToSet
<1>2. f \in Surjection(1 .. Len(s), names)
  BY <1>1 DEF Surjection
<1>3. IsFiniteSet(1 .. Len(s))
  <2>1. 1 \in Int /\ Len(s) \in Int
    BY <1>1
  <2> QED  BY ONLY <2>1, FS_Interval
<1> HIDE DEF f, names
<1>4. IsFiniteSet(names)
  BY <1>2, <1>3, FS_Surjection
<1>5. Cardinality(names) <= Len(s)
  BY <1>1, <1>2, FS_SurjCardinalityBound DEF ExistsSurjection
<1> QED  BY <1>4, <1>5, FS_CardinalityType DEF names

\* The labels are finitely many.
LEMMA LabelsFinite ==
    IsFiniteSet(Labels) /\ \A S : S \subseteq Labels => IsFiniteSet(S) /\ Cardinality(S) \in Nat
<1>1. IsFiniteSet(Labels)
  BY ProfilerConstants, FS_AddElement DEF Labels
<1> QED  BY <1>1, FS_Subset, FS_CardinalityType

\* record() keeps the invariant.
LEMMA RecordKeepsInv ==
    ASSUME ProfilerInv, NEW name \in Operations, NEW d \in Durations, RecordDuration(name, d)
    PROVE  ProfilerInv'
<1>1. PICK entry \in CacheEntries :
        /\ labelCache' \in Seq(CacheEntries) /\ Len(labelCache') <= MaxOperations
        /\ ToSet(labelCache') \subseteq ToSet(labelCache) \cup {entry}
        /\ entry \in ToSet(labelCache')
        /\ \/ entry \in ToSet(labelCache)
           \/ Len(labelCache) < MaxOperations /\ entry.label = entry.name
           \/ Len(labelCache) = MaxOperations /\ entry.label = Overflow
        /\ Len(labelCache) < MaxOperations => ToSet(labelCache) \subseteq ToSet(labelCache')
        /\ Len(labelCache') < MaxOperations => Len(labelCache) < MaxOperations
        /\ histogram' = [histogram EXCEPT ![entry.label] = Observe(@, d)]
        /\ recorded' = [recorded EXCEPT ![entry.label] = Sorted(@, d)]
  BY CacheStep
<1> DEFINE lab == entry.label
<1>2. /\ lab \in Labels /\ d \in Nat
      /\ histogram \in [Labels -> Samples] /\ recorded \in [Labels -> Seq(Nat)]
      /\ measured \in [Operations -> Nat] /\ measured' = [measured EXCEPT ![name] = @ + 1]
      /\ \A l \in Labels : CountsTell(histogram[l], recorded[l])
  BY ProfilerAssumption DEF CacheEntries, ProfilerInv, RecordDuration
<1> HIDE DEF lab
<1>3. CountsTell(Observe(histogram[lab], d), Sorted(recorded[lab], d))
  BY <1>2, ObserveTells
<1>4. Observe(histogram[lab], d) \in Samples /\ Sorted(recorded[lab], d) \in Seq(Nat)
  BY <1>3 DEF CountsTell
<1>5. /\ histogram' \in [Labels -> Samples] /\ recorded' \in [Labels -> Seq(Nat)]
      /\ histogram'[lab] = Observe(histogram[lab], d) /\ recorded'[lab] = Sorted(recorded[lab], d)
      /\ \A l \in Labels : l # lab => histogram'[l] = histogram[l] /\ recorded'[l] = recorded[l]
  BY <1>1, <1>2, <1>4 DEF lab
<1>6. \A l \in Labels : CountsTell(histogram'[l], recorded'[l])
  BY <1>2, <1>3, <1>5
<1>7. /\ \A l \in Labels : histogram[l].count \in Nat
      /\ histogram'[lab].count = histogram[lab].count + 1
  BY <1>2, <1>5 DEF Samples, Observe
<1>8. Used' = Used \cup {lab}
  <2>1. \A l \in Labels : l # lab => histogram'[l].count = histogram[l].count
    BY <1>5
  <2>2. histogram'[lab].count > 0
    BY <1>2, <1>7
  <2> QED  BY <1>2, <2>1, <2>2 DEF Used
<1>9. \A r \in ToSet(labelCache') : r.label \in Used'
  <2>1. \A r \in ToSet(labelCache) : r.label \in Used
    BY DEF ProfilerInv
  <2> QED  BY <1>1, <1>8, <2>1 DEF lab
<1>10. ASSUME Len(labelCache) < MaxOperations PROVE Used' \subseteq CachedNames'
  <2>1. Used \subseteq CachedNames /\ \A r \in ToSet(labelCache) : r.label \in Used
    BY <1>10 DEF ProfilerInv
  <2>2. CachedNames \subseteq CachedNames'
    BY <1>1, <1>10 DEF CachedNames
  <2>3. Len(labelCache) # MaxOperations
    BY <1>10, ProfilerConstants
  <2>4. lab \in CachedNames'
    <3>1. CASE entry \in ToSet(labelCache)
      BY <2>1, <2>2, <3>1 DEF lab
    <3>2. CASE lab = entry.name
      BY <1>1, <3>2 DEF CachedNames
    <3> QED  BY <1>1, <2>3, <3>1, <3>2 DEF lab
  <2> QED  BY <1>8, <2>1, <2>2, <2>4
<1>11. Cardinality(Used' \ {Overflow}) <= MaxOperations
  <2>1. CASE Used' \ {Overflow} = Used \ {Overflow}
    BY <2>1 DEF ProfilerInv
  <2>2. CASE Len(labelCache) < MaxOperations
    <3>1. Used' \ {Overflow} \subseteq CachedNames'
      BY <1>10, <2>2
    <3>2. /\ IsFiniteSet(CachedNames') /\ Cardinality(CachedNames') \in Nat
          /\ Cardinality(CachedNames') <= Len(labelCache')
      BY <1>1, NamesBounded DEF CachedNames
    <3>3. /\ Cardinality(Used' \ {Overflow}) <= Cardinality(CachedNames')
          /\ IsFiniteSet(Used' \ {Overflow})
      BY <3>1, <3>2, FS_Subset
    <3>4. Cardinality(Used' \ {Overflow}) \in Nat /\ Len(labelCache') \in Nat /\ MaxOperations \in Nat
      BY <1>1, <3>3, FS_CardinalityType, ProfilerConstants
    <3> QED  BY <1>1, <3>2, <3>3, <3>4
  <2>3. CASE entry \in ToSet(labelCache)
    <3>1. lab \in Used
      BY <2>3 DEF ProfilerInv, lab
    <3> QED  BY <1>8, <2>1, <3>1
  <2>4. CASE lab = Overflow
    BY <1>8, <2>1, <2>4
  <2> QED  BY <1>1, <2>2, <2>3, <2>4 DEF lab
<1>12. SumOf([l \in Labels |-> histogram'[l].count]) = SumOf(measured')
  <2> DEFINE f == [l \in Labels |-> histogram[l].count]
             g == [l \in Labels |-> histogram'[l].count]
  <2>1. f \in [Labels -> Nat] /\ g = [f EXCEPT ![lab] = @ + 1]
    BY <1>2, <1>5, <1>7
  <2> HIDE DEF f, g
  <2>2. SumOf([f EXCEPT ![lab] = @ + 1]) = SumOf(f) + 1
    BY ONLY <1>2, <2>1, LabelsFinite, SumRaised
  <2>3. SumOf([measured EXCEPT ![name] = @ + 1]) = SumOf(measured) + 1
    BY ONLY <1>2, name \in Operations, ProfilerConstants, SumRaised
  <2>4. SumOf(f) = SumOf(measured)
    BY DEF ProfilerInv, f
  <2> QED  BY <1>2, <2>1, <2>2, <2>3, <2>4 DEF g
<1>13. measured' \in [Operations -> Nat]
  BY <1>2
<1> QED  BY <1>1, <1>5, <1>6, <1>9, <1>10, <1>11, <1>12, <1>13 DEF ProfilerInv, CacheEntries

\* The initial state satisfies the invariant.
LEMMA ProfilerInitInv == ProfilerInit => ProfilerInv
<1> SUFFICES ASSUME ProfilerInit PROVE ProfilerInv
  OBVIOUS
<1>1. /\ labelCache = <<>> /\ histogram = [l \in Labels |-> NoSamples]
      /\ recorded = [l \in Labels |-> <<>>] /\ measured = [o \in Operations |-> 0]
  BY DEF ProfilerInit
<1>2. NoSamples \in Samples /\ NoSamples.count = 0 /\ \A i \in DOMAIN Buckets : NoSamples.bucketCounts[i] = 0
  BY DEF NoSamples, Samples
<1>3. CountsTell(NoSamples, <<>>)
  BY <1>2 DEF CountsTell
<1>4. Used = {} /\ ToSet(labelCache) = {}
  BY <1>1, <1>2 DEF Used, ToSet
<1>5. Cardinality(Used \ {Overflow}) <= MaxOperations
  BY <1>4, FS_EmptySet, ProfilerConstants
<1>6. SumOf([l \in Labels |-> histogram[l].count]) = SumOf(measured)
  <2>1. [l \in Labels |-> histogram[l].count] = [l \in Labels |-> 0]
    BY <1>1, <1>2
  <2> QED  BY <1>1, <2>1, LabelsFinite, ProfilerConstants, SumOfZeros
<1>7. /\ labelCache \in Seq([name : Operations, label : Labels]) /\ Len(labelCache) <= MaxOperations
      /\ histogram \in [Labels -> Samples] /\ recorded \in [Labels -> Seq(Nat)]
      /\ measured \in [Operations -> Nat]
      /\ \A l \in Labels : CountsTell(histogram[l], recorded[l])
  BY <1>1, <1>2, <1>3, ProfilerConstants
<1> QED  BY <1>4, <1>5, <1>6, <1>7 DEF ProfilerInv

\* However names come, go and return, the histogram has no more labels than the
\* cap and the overflow, no duration is lost, and for every ascending list of
\* bucket bounds a quantile that is reported lies in the bucket of the true one
\* and grows with the rank.
THEOREM ProfileIsTrueCorrect == ProfilerSpec => []ProfileIsTrue
<1>1. ProfilerInv /\ [ProfilerNext]_profilerVars => ProfilerInv'
  <2> SUFFICES ASSUME ProfilerInv, [ProfilerNext]_profilerVars PROVE ProfilerInv'
    OBVIOUS
  <2>1. CASE ProfilerNext
    BY <2>1, RecordKeepsInv DEF ProfilerNext
  <2>2. CASE UNCHANGED profilerVars
    BY <2>2 DEF ProfilerInv, CachedNames, Used
  <2> QED  BY <2>1, <2>2
<1>2. ProfilerInv => ProfileIsTrue
  <2> SUFFICES ASSUME ProfilerInv PROVE ProfileIsTrue
    OBVIOUS
  <2>1. ASSUME NEW l \in Used
        PROVE  /\ CountsTell(histogram[l], recorded[l]) /\ histogram[l] \in Samples
               /\ histogram[l].count > 0
    BY DEF ProfilerInv, Used
  <2>2. LabelsBounded
    <3>1. Used \subseteq Labels
      BY DEF Used
    <3>2. IsFiniteSet(Used) /\ Cardinality(Used) \in Nat
      BY <3>1, LabelsFinite
    <3>3. Cardinality(Used \ {Overflow}) = IF Overflow \in Used THEN Cardinality(Used) - 1
                                                                 ELSE Cardinality(Used)
      BY <3>2, FS_RemoveElement
    <3>4. Cardinality(Used) <= MaxOperations + 1
      BY <3>2, <3>3, ProfilerConstants DEF ProfilerInv
    <3> QED  BY <3>4 DEF LabelsBounded, ProfilerInv
  <2>3. Percents \subseteq 0 .. 100 /\ Percents \subseteq Nat
    BY DEF Percents
  <2>4. QuantilesAreClose
    <3> SUFFICES ASSUME NEW l \in Used, NEW q \in Percents
                 PROVE  LET entry == histogram[l]
                            d == TrueQuantile(l, q)
                        IN  IF Crossing(entry, q) = {} THEN d > Last(Buckets)
                            ELSE LET i == Min(Crossing(entry, q))
                                     e == Quantile(entry, q)
                                 IN  /\ Bound(i - 1) * e.den <= e.num /\ e.num <= Bound(i) * e.den
                                     /\ q > 0 => d <= Bound(i) /\ (i = 1 \/ Bound(i - 1) < d)
                                     /\ q = 0 => e.num <= d * e.den
      BY DEF QuantilesAreClose
    <3>1. TrueQuantile(l, q) = recorded[l][RankOf(q, Len(recorded[l]))]
      BY DEF TrueQuantile, RankOf
    <3>2. q \in 0 .. 100
      BY <2>3
    <3> QED  BY <2>1, <3>1, <3>2, CloseToTrue
  <2>5. QuantilesGrow
    BY <2>1, <2>3, EstimatesGrow DEF QuantilesGrow
  <2> QED  BY <2>2, <2>4, <2>5 DEF ProfileIsTrue
<1> QED  BY <1>1, <1>2, ProfilerInitInv, PTL DEF ProfilerSpec

=============================================================================
