-------------------------------- MODULE Lists --------------------------------
(***************************************************************************)
(* Array.prototype.filter and the sum of a list, as recursive functions:   *)
(* what they return can be reasoned about by induction, which SelectSeq    *)
(* and the folds do not allow.                                             *)
(***************************************************************************)
EXTENDS Naturals, Sequences

\* The elements of s that belong to S, in their order.
Among(s, S) ==
    LET kept[i \in 0 .. Len(s)] ==
            IF i = 0 THEN <<>>
            ELSE IF s[i] \in S THEN Append(kept[i - 1], s[i]) ELSE kept[i - 1]
    IN  kept[Len(s)]

\* The sum of the numbers of s.
Total(s) ==
    LET sum[i \in 0 .. Len(s)] == IF i = 0 THEN 0 ELSE sum[i - 1] + s[i]
    IN  sum[Len(s)]
=============================================================================
