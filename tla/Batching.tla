------------------------------ MODULE Batching ------------------------------
(***************************************************************************)
(* How the buffering transports take a batch: splice(0, batchSize) removes *)
(* up to batchSize entries from the head of a buffer and returns them.     *)
(***************************************************************************)
EXTENDS Naturals, Sequences

CONSTANT BatchSize

ASSUME BatchSizeAssumption == BatchSize \in Nat \ {0}

Shorter(m, n) == IF m < n THEN m ELSE n
BatchLen(buf) == Shorter(BatchSize, Len(buf))

HeadBatch(buf) == SubSeq(buf, 1, BatchLen(buf))
AfterBatch(buf) == SubSeq(buf, BatchLen(buf) + 1, Len(buf))
=============================================================================
