------------------------------ MODULE LogServer ------------------------------
(***************************************************************************)
(* The polled endpoint of src/http/log.server.ts: the ring of recent       *)
(* entries with their ids, and a client that polls it with the cursor of   *)
(* its last answer.  The server keeps nothing about its clients.  The ids  *)
(* start again at 1 when the process is restarted.                         *)
(***************************************************************************)
EXTENDS Naturals, FiniteSets, Sequences, SequencesExt, RingBuffer

CONSTANTS ServerCapacity,              \* capacity of the ring
          MaxLogged, MaxServerRestarts \* bounds of the model

ASSUME ServerAssumption == {ServerCapacity, MaxLogged, MaxServerRestarts} \subseteq Nat \ {0}

VARIABLES nextId, entries,
          logged,      \* history: entries written, over all lives of the server
          cursor,      \* the client: `next` of its last answer, 0 at first
          issuedIn,    \* history: the life of the server that issued the cursor
          life,        \* history: how often the server was started
          received,    \* history: entry -> how often the client received it
          skipped      \* history: entries that a cursor of an earlier life left out

serverVars == <<nextId, entries, logged, cursor, issuedIn, life, received, skipped>>

ServerInit == /\ nextId = 1 /\ entries = NewRing(ServerCapacity) /\ logged = 0 /\ cursor = 0
              /\ issuedIn = 1 /\ life = 1 /\ received = [n \in 1 .. MaxLogged |-> 0]
              /\ skipped = {}

\* push()
PushEntry ==
    /\ logged < MaxLogged /\ logged' = logged + 1
    /\ entries' = RingPush(entries, [id |-> nextId, n |-> logged + 1])
    /\ nextId' = nextId + 1
    /\ UNCHANGED <<cursor, issuedIn, life, received, skipped>>

\* Mutant of Collect: the cursor of the answer is that of the last entry sent.
CollectLastSent(after) ==
    LET all == RingArray(entries)
        new == SelectSeq(all, LAMBDA e : after = 0 \/ e.id > after)
    IN  [sent |-> {e.n : e \in ToSet(new)}, next |-> IF new = <<>> THEN 0 ELSE Last(new).id]

\* since() and recent(): the entries after the cursor, all of them without one;
\* the next cursor is the last id, sent or not.
Collect(after) ==
    LET all == RingArray(entries)
    IN  [sent |-> {e.n : e \in {x \in ToSet(all) : after = 0 \/ x.id > after}},
         next |-> IF all = <<>> THEN 0 ELSE Last(all).id]

InRing == {e.n : e \in ToSet(RingArray(entries))}

\* A poll that is answered.  One whose answer is lost changes nothing: the
\* client asks again with the cursor it has.
Poll ==
    /\ LET answer == Collect(cursor)
       IN  /\ cursor' = answer.next
           /\ received' = [n \in DOMAIN received |->
                             IF n \in answer.sent THEN received[n] + 1 ELSE received[n]]
           /\ skipped' = IF issuedIn = life THEN skipped ELSE skipped \cup (InRing \ answer.sent)
    /\ issuedIn' = life
    /\ UNCHANGED <<nextId, entries, logged, life>>

ServerRestart ==
    /\ life <= MaxServerRestarts /\ life' = life + 1
    /\ nextId' = 1 /\ entries' = NewRing(ServerCapacity)
    /\ UNCHANGED <<logged, cursor, issuedIn, received, skipped>>

ServerNext == PushEntry \/ Poll \/ ServerRestart

ServerSpec == ServerInit /\ [][ServerNext]_serverVars

-----------------------------------------------------------------------------
(* Properties.                                                             *)

\* The ring is bounded, and 0, which stands for no cursor, is the id of no entry.
ServerTypeOK ==
    /\ entries.count <= ServerCapacity /\ logged <= MaxLogged
    /\ \A e \in ToSet(RingArray(entries)) : e.id \in 1 .. nextId - 1

\* No poll brings an entry a second time, answers lost and restarts included.
NoEntryTwice == \A n \in DOMAIN received : received[n] <= 1

\* The client never misses an entry that the ring still holds: all up to its
\* cursor were received, but for those written between a restart and the next
\* poll, whose cursor of the earlier life may leave them out.
NoEntryMissed ==
    \A e \in ToSet(RingArray(entries)) :
        issuedIn = life /\ e.id <= cursor => received[e.n] = 1 \/ e.n \in skipped

\* Polling brings every entry of the ring once.
PollsBringAll == ServerTypeOK /\ NoEntryTwice /\ NoEntryMissed
=============================================================================
