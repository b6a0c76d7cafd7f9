--------------------------- MODULE RepeatTransport ---------------------------
(***************************************************************************)
(* The repeat transport (src/writer/repeat.writer.ts).  Its operations run *)
(* to the end without an await, so they are functions of its state:        *)
(*   gc      its groups, keyed by message                                  *)
(*   timers  the window timers that are armed, each with its group's start *)
(*   closed                                                                *)
(*   shown   of a key: the entries that the wrapped transport was given,   *)
(*           directly or counted in a summary                              *)
(*   lost    of a key: the entries refused after close()                   *)
(* A message stands for times entries of its key: a summary of the adaptive*)
(* transport is a message too.                                             *)
(***************************************************************************)
EXTENDS GroupCounter, Lists

CONSTANTS Keys,     \* identical entries (level, author, message, error)
          MaxKeys   \* options.maxKeys

ASSUME RepeatAssumption == MaxKeys \in Nat \ {0}

Notice == "notice"  \* entries the adaptive transport makes up
Message(k, n) == [key |-> k, times |-> n]

FreshRepeat == [gc |-> NoGroups, timers |-> {}, closed |-> FALSE,
                shown |-> [k \in Keys \cup {Notice} |-> 0],
                lost |-> [k \in Keys \cup {Notice} |-> 0]]

Timer(g) == [message |-> g.key, id |-> g.id]

\* writeSummary() of a group whose timer is stopped: its first entry was written
\* when the group started.
WriteSummary(st, g) ==
    [st EXCEPT !.shown[g.key.key] = @ + (g.count - 1) * g.key.times,
               !.timers = @ \ {Timer(g)}]

Summarise(st, groups) ==
    LET told[i \in 0 .. Len(groups)] ==
            IF i = 0 THEN st ELSE WriteSummary(told[i - 1], groups[i])
    IN  told[Len(groups)]

\* Mutant of PushRepeat: no timer is armed.
PushNoTimer(st, m) ==
    IF st.closed THEN [st EXCEPT !.lost[m.key] = @ + m.times]
    ELSE IF Has(st.gc.groups, m) THEN [st EXCEPT !.gc = Absorb(@, m)]
    ELSE LET out == Evicted(st.gc, m, MaxKeys)
         IN  [Summarise(st, out) EXCEPT !.gc = Start(@, m, MaxKeys),
                                        !.shown[m.key] = @ + m.times]

\* pushEntries() of one entry: absorbed by its group, or written and the start
\* of a group, whose arrival may evict and summarise another.
PushRepeat(st, m) ==
    IF st.closed THEN [st EXCEPT !.lost[m.key] = @ + m.times]
    ELSE IF Has(st.gc.groups, m) THEN [st EXCEPT !.gc = Absorb(@, m)]
    ELSE LET out == Evicted(st.gc, m, MaxKeys)
         IN  [Summarise(st, out) EXCEPT
                !.gc = Start(@, m, MaxKeys),
                !.timers = @ \cup {[message |-> m, id |-> st.gc.started + 1]},
                !.shown[m.key] = @ + m.times]

PushAll(st, messages) ==
    LET pushed[i \in 0 .. Len(messages)] ==
            IF i = 0 THEN st ELSE PushRepeat(pushed[i - 1], messages[i])
    IN  pushed[Len(messages)]

\* flushGroup(): the timer of a window fires and takes the group of its key.
WindowCloses(st, t) ==
    LET s == [st EXCEPT !.timers = @ \ {t}]
    IN  [Summarise(s, GroupsOf(s.gc.groups, t.message)) EXCEPT !.gc = Take(@, t.message)]

\* drainAll(), which is what flush() does.
DrainAll(st) == [Summarise(st, st.gc.groups) EXCEPT !.gc = Drain(@)]

CloseRepeat(st) == IF st.closed THEN st ELSE [DrainAll(st) EXCEPT !.closed = TRUE]

\* Entries of key k that open groups still have to report.
Unreported(st, k) ==
    LET groups == st.gc.groups
    IN  Total([i \in DOMAIN groups |->
           IF groups[i].key.key = k THEN (groups[i].count - 1) * groups[i].key.times ELSE 0])
=============================================================================
