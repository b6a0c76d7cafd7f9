--------------------------- MODULE DeliveryQueue ---------------------------
(***************************************************************************)
(* What every buffering transport of the logger promises its caller,       *)
(* whatever the batching, retrying or rebuilding below it does: entries    *)
(* are numbered in the order they were offered; an entry is taken or       *)
(* refused at once; the ones taken leave from the head, in order, to the   *)
(* sink, or are given up and counted.  Nothing is delivered twice, nothing *)
(* is delivered out of order, nothing disappears uncounted.                *)
(***************************************************************************)
EXTENDS Naturals, Sequences

VARIABLES offered,    \* entries offered to the queue
          waiting,    \* entries taken and not settled, oldest first
          delivered,  \* entries the sink acknowledged, in delivery order
          dropped     \* how many entries were refused or given up

qvars == <<offered, waiting, delivered, dropped>>

Init == /\ offered = 0
        /\ waiting = <<>>
        /\ delivered = <<>>
        /\ dropped = 0

\* The next entry joins the tail of the queue.
Accept == /\ offered' = offered + 1
          /\ waiting' = Append(waiting, offered + 1)
          /\ UNCHANGED <<delivered, dropped>>

\* The queue is full: the next entry is counted and forgotten.
Refuse == /\ offered' = offered + 1
          /\ dropped' = dropped + 1
          /\ UNCHANGED <<waiting, delivered>>

\* The sink acknowledges the n oldest entries.
Deliver(n) == /\ delivered' = delivered \o SubSeq(waiting, 1, n)
              /\ waiting' = SubSeq(waiting, n + 1, Len(waiting))
              /\ UNCHANGED <<offered, dropped>>

\* Entries i..j of the queue are given up, and counted.
GiveUp(i, j) == /\ waiting' = SubSeq(waiting, 1, i - 1)
                                \o SubSeq(waiting, j + 1, Len(waiting))
                /\ dropped' = dropped + (j + 1 - i)
                /\ UNCHANGED <<offered, delivered>>

Next == \/ Accept
        \/ Refuse
        \/ \E n \in 1 .. Len(waiting) : Deliver(n)
        \/ \E i \in 1 .. Len(waiting) : \E j \in i .. Len(waiting) : GiveUp(i, j)

Spec == Init /\ [][Next]_qvars

TypeOK == /\ offered \in Nat /\ dropped \in Nat
          /\ waiting \in Seq(Nat) /\ delivered \in Seq(Nat)

Increasing(s) == \A i, j \in 1 .. Len(s) : i < j => s[i] < s[j]

\* The delivered entries followed by the waiting ones are in the order they were
\* offered, none twice.
InOrder == Increasing(delivered \o waiting)

\* Every entry offered is delivered, waiting or counted as dropped.
Counted == offered = Len(delivered) + Len(waiting) + dropped

\* What InOrder needs to stay true when the next entry joins: no number is ahead
\* of the count.
Numbered == \A i \in 1 .. Len(delivered \o waiting) : (delivered \o waiting)[i] <= offered

QueueInv == TypeOK /\ InOrder /\ Counted /\ Numbered
=============================================================================
