------------------------------ MODULE RingBuffer ------------------------------
(***************************************************************************)
(* The fixed-capacity circular buffer of src/brain/ring.utils.ts, behind   *)
(* the black box, the span registry and the log server.                    *)
(***************************************************************************)
EXTENDS Naturals, Sequences

\* new RingBuffer(capacity), of a positive capacity.
NewRing(capacity) ==
    [capacity |-> capacity, buffer |-> [i \in 0 .. capacity - 1 |-> 0], head |-> 0, count |-> 0]

\* push(): a full buffer overwrites its oldest slot.
RingPush(ring, x) ==
    [capacity |-> ring.capacity,
     buffer   |-> [ring.buffer EXCEPT ![(ring.head + ring.count) % ring.capacity] = x],
     head     |-> IF ring.count < ring.capacity THEN ring.head ELSE (ring.head + 1) % ring.capacity,
     count    |-> IF ring.count < ring.capacity THEN ring.count + 1 ELSE ring.count]

\* toArray(): oldest first.
RingArray(ring) ==
    [i \in 1 .. ring.count |-> ring.buffer[(ring.head + i - 1) % ring.capacity]]
=============================================================================
