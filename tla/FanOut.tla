------------------------------- MODULE FanOut -------------------------------
(***************************************************************************)
(* The transports that buildTransports() of src/writer/factory.writer.ts   *)
(* puts side by side, the MultiTransport over them, and the database       *)
(* transport that is loaded by the first call that needs it                *)
(* (src/writer/lazyDatabase.writer.ts).                                    *)
(*                                                                         *)
(* A nested MultiTransport, the one over the files of the levels, behaves  *)
(* as if its children were those of the outer one.  What a child does with *)
(* an entry it was handed is its own module; here its promise settles.     *)
(***************************************************************************)
EXTENDS Naturals, Sequences, FiniteSets, SequencesExt, Lists

CONSTANTS FileLevels,         \* LEVEL_NAMES
          MaxFanEntries, MaxFanCalls  \* bounds: entries written, calls made

ASSUME FanAssumption ==
    {"console", "file", "database"} \cap FileLevels = {} /\ {MaxFanEntries, MaxFanCalls} \subseteq Nat

VARIABLES file,      \* settings.file: "off", "one", or "split" by level
          database,  \* settings.database is set
          held,      \* child -> entries handed to it
          shut,      \* child -> entries it held when close() was called on it, or Open
          loadState, \* "null", "loading", "loaded", "failed": this.inner and this.loading
          loads,     \* history: how often the module was imported
          ensured,   \* calls that await ensure(), the first to go on first
          fanCalls   \* the calls made on the MultiTransport

fanVars == <<file, database, held, shut, loadState, loads, ensured, fanCalls>>

\* The children; the file of a level is named by it.
Files == CASE file = "off" -> {} [] file = "one" -> {"file"} [] file = "split" -> FileLevels
Siblings == {"console"} \cup Files \cup (IF database THEN {"database"} ELSE {})
AllSiblings == {"console", "file", "database"} \cup FileLevels

Open == 1 + MaxFanEntries
Written == IF fanCalls = <<>> THEN 0 ELSE Last(fanCalls).upTo + Len(Last(fanCalls).batch)

FanInit ==
    /\ file \in {"off", "one", "split"} /\ database \in BOOLEAN
    /\ held = [c \in AllSiblings |-> <<>>] /\ shut = [c \in AllSiblings |-> Open]
    /\ loadState = "null" /\ loads = 0 /\ ensured = <<>> /\ fanCalls = <<>>

\* The file of a level takes the entries of exactly that level.
Passes(child, entry) == child \in FileLevels => entry.level = child
Part(child, batch) == Among(batch, {e \in ToSet(batch) : Passes(child, e)})

-----------------------------------------------------------------------------
(* The calls.  map() calls every child before anything is awaited: the     *)
(* console is done with it, the promises of the others are still open.     *)

Called(op, batch, open) ==
    fanCalls' = Append(fanCalls, [op |-> op, batch |-> batch, upTo |-> Written, open |-> open,
                                  result |-> IF open = {} THEN "resolved" ELSE "pending"])

\* ensure(): the first caller starts the load, the others share it.
Ensure ==
    IF ~database THEN UNCHANGED <<loadState, loads, ensured>>
    ELSE /\ ensured' = Append(ensured, Len(fanCalls) + 1)
         /\ IF loadState = "null" THEN loadState' = "loading" /\ loads' = loads + 1
                             ELSE UNCHANGED <<loadState, loads>>

Batches == UNION {[1 .. n -> FileLevels] : n \in 1 .. MaxFanEntries - Written}

\* write() is writeBatch() of one entry.
WriteBatch(levels) ==
    LET batch == [i \in DOMAIN levels |-> [id |-> Written + i, level |-> levels[i]]]
    IN  /\ Len(fanCalls) < MaxFanCalls
        /\ held' = [c \in AllSiblings |-> IF c \in Siblings \ {"database"}
                                            THEN held[c] \o Part(c, batch) ELSE held[c]]
        /\ Ensure
        /\ Called("write", batch, ({"database"} \cap Siblings)
                                   \cup {c \in Files : Part(c, batch) # <<>>})
        /\ UNCHANGED <<file, database, shut>>

\* flush() asks the database transport only when it is loaded.
FlushAll ==
    /\ Len(fanCalls) < MaxFanCalls
    /\ Called("flush", <<>>, Files \cup (IF loadState = "loaded" THEN {"database"} ELSE {}))
    /\ UNCHANGED <<file, database, held, shut, loadState, loads, ensured>>

ShutNow(children) ==
    [c \in AllSiblings |-> IF c \in children /\ shut[c] = Open THEN Len(held[c]) ELSE shut[c]]

\* Mutant of CloseAll: like flush(), it does not wait for the load.
CloseLoaded ==
    /\ Len(fanCalls) < MaxFanCalls
    /\ IF loadState = "loaded" THEN Ensure ELSE UNCHANGED <<loadState, loads, ensured>>
    /\ shut' = ShutNow(Siblings \ {"database"})
    /\ Called("close", <<>>, Files \cup (IF loadState = "loaded" THEN {"database"} ELSE {}))
    /\ UNCHANGED <<file, database, held>>

\* close() also loads the database transport when nothing has.
CloseAll ==
    /\ Len(fanCalls) < MaxFanCalls
    /\ Ensure
    /\ shut' = ShutNow(Siblings \ {"database"})
    /\ Called("close", <<>>, Siblings \ {"console"})
    /\ UNCHANGED <<file, database, held>>

-----------------------------------------------------------------------------
(* What the calls wait for.                                                *)

\* Promise.all: the first child that rejects decides, and what the others do
\* then is not waited for.
ChildSettles(call, child, ok) ==
    IF call.result # "pending" THEN call
    ELSE LET open == IF ok THEN call.open \ {child} ELSE {}
         IN  [call EXCEPT !.open = open,
                          !.result = CASE ~ok -> "rejected" [] ok /\ open = {} -> "resolved"
                                       [] ok /\ open # {} -> "pending"]

Settle(n, child, ok) ==
    /\ child \in fanCalls[n].open /\ ~(child = "database" /\ n \in ToSet(ensured))
    /\ fanCalls' = [fanCalls EXCEPT ![n] = ChildSettles(@, child, ok)]
    /\ UNCHANGED <<file, database, held, shut, loadState, loads, ensured>>

\* The import is over; when it failed, its promise stays the answer for good.
LoadInner(outcome) ==
    /\ loadState = "loading" /\ loadState' = outcome
    /\ UNCHANGED <<file, database, held, shut, loads, ensured, fanCalls>>

\* The continuations of ensure() run in the order of the calls.
AfterEnsure ==
    /\ ensured # <<>> /\ loadState \in {"loaded", "failed"}
    /\ LET n == Head(ensured) IN
       /\ ensured' = Tail(ensured)
       /\ IF loadState = "failed"
            THEN /\ fanCalls' = [fanCalls EXCEPT ![n] = ChildSettles(@, "database", FALSE)]
                 /\ UNCHANGED <<held, shut>>
            ELSE /\ held' = [held EXCEPT !["database"] = @ \o fanCalls[n].batch]
                 /\ shut' = IF fanCalls[n].op = "close" THEN ShutNow({"database"}) ELSE shut
                 /\ UNCHANGED fanCalls
    /\ UNCHANGED <<file, database, loadState, loads>>

FanNext ==
    \/ \E levels \in Batches : WriteBatch(levels)
    \/ FlushAll \/ CloseAll \/ AfterEnsure
    \/ \E n \in DOMAIN fanCalls, child \in AllSiblings, ok \in BOOLEAN : Settle(n, child, ok)
    \/ \E outcome \in {"loaded", "failed"} : LoadInner(outcome)

FanSpec == FanInit /\ [][FanNext]_fanVars

-----------------------------------------------------------------------------
(* Properties.                                                             *)

\* The module is loaded once; only its callers wait for it.
FanTypeOK ==
    /\ loads <= 1 /\ (loadState # "null" => database /\ loads = 1)
    /\ \A c \in AllSiblings : held[c] # <<>> => c \in Siblings
    /\ \A i, j \in DOMAIN ensured : i < j => ensured[i] < ensured[j]
    /\ \A n \in DOMAIN fanCalls : fanCalls[n].open \subseteq Siblings \ {"console"}

Entries == UNION {ToSet(fanCalls[n].batch) : n \in DOMAIN fanCalls}

\* Whatever is loaded when, and whichever sibling fails, every child is handed
\* the entries in the order they were written and none twice.
HandedInOrder ==
    \A c \in AllSiblings : \A i, j \in DOMAIN held[c] : i < j => held[c][i].id < held[c][j].id

\* A failing sibling keeps no entry from another child: once nobody waits for
\* the load, every child has every entry meant for it.
NobodySkipped ==
    ensured = <<>> =>
        \A c \in Siblings : \A e \in Entries :
            Passes(c, e) /\ ~(c = "database" /\ loadState = "failed") => e \in ToSet(held[c])

\* A write() that resolves has handed its entries to every child.
ResolvedIsHeld ==
    \A n \in DOMAIN fanCalls : fanCalls[n].op = "write" /\ fanCalls[n].result = "resolved" =>
        \A c \in Siblings : ToSet(Part(c, fanCalls[n].batch)) \subseteq ToSet(held[c])

\* A close() that resolves has closed every child, and each of them, the one
\* that was not loaded yet included, after it was handed what was written before.
ClosedAfterEntries ==
    \A n \in DOMAIN fanCalls : fanCalls[n].op = "close" /\ fanCalls[n].result = "resolved" =>
        \A c \in Siblings :
            /\ shut[c] # Open
            /\ (\A m \in 1 .. n - 1 : fanCalls[m].op # "close") =>
                 \A e \in Entries : e.id <= fanCalls[n].upTo /\ Passes(c, e) =>
                     \E i \in 1 .. shut[c] : held[c][i] = e

\* No child misses an entry, gets it twice or too late.
SiblingsConsistent ==
    FanTypeOK /\ HandedInOrder /\ NobodySkipped /\ ResolvedIsHeld /\ ClosedAfterEntries
=============================================================================
