------------------------ MODULE DeliveryQueue_proofs ------------------------
(***************************************************************************)
(* The delivery queue keeps its order and its accounts.  A component that  *)
(* implements DeliveryQueue inherits both.                                 *)
(***************************************************************************)
EXTENDS DeliveryQueue, SequenceTheorems, TLAPS

\* Concatenation is associative.
LEMMA ConcatAssoc ==
    ASSUME NEW a \in Seq(Nat), NEW b \in Seq(Nat), NEW c \in Seq(Nat)
    PROVE  (a \o b) \o c = a \o (b \o c)
BY ConcatAssociative, SMTT(20)

Before(s, t) == \A i \in 1 .. Len(s) : \A j \in 1 .. Len(t) : s[i] < t[j]
UpTo(s, n) == \A i \in 1 .. Len(s) : s[i] <= n

\* A concatenation is in order when its parts are, and the one precedes the other.
LEMMA ConcatOrder ==
    ASSUME NEW a \in Seq(Nat), NEW b \in Seq(Nat)
    PROVE  /\ Increasing(a \o b) <=> Increasing(a) /\ Increasing(b) /\ Before(a, b)
           /\ \A n \in Nat : UpTo(a \o b, n) <=> UpTo(a, n) /\ UpTo(b, n)
<1> DEFINE s == a \o b
<1>1. /\ s \in Seq(Nat) /\ Len(s) = Len(a) + Len(b)
      /\ Len(a) \in Nat /\ Len(b) \in Nat
      /\ \A k \in 1 .. Len(a) : s[k] = a[k]
      /\ \A k \in 1 .. Len(b) : s[k + Len(a)] = b[k]
  OBVIOUS
<1> HIDE DEF s
<1>2. \A k \in 1 .. Len(s) :
         k \in 1 .. Len(a) \/ \E l \in 1 .. Len(b) : k = l + Len(a)
  <2>1. ASSUME NEW k \in 1 .. Len(s), k \notin 1 .. Len(a)
        PROVE  \E l \in 1 .. Len(b) : k = l + Len(a)
    <3>1. k - Len(a) \in 1 .. Len(b) /\ k = (k - Len(a)) + Len(a)
      BY <1>1, <2>1
    <3> QED  BY <3>1
  <2> QED  BY <2>1
<1>3. /\ \A k \in 1 .. Len(a) : k \in 1 .. Len(s)
      /\ \A k \in 1 .. Len(b) : k + Len(a) \in 1 .. Len(s)
  BY <1>1
<1>4. Increasing(s) => Increasing(a) /\ Increasing(b) /\ Before(a, b)
  <2> SUFFICES ASSUME Increasing(s)
               PROVE  Increasing(a) /\ Increasing(b) /\ Before(a, b)
    OBVIOUS
  <2>1. ASSUME NEW k \in 1 .. Len(a), NEW l \in 1 .. Len(a), k < l
        PROVE  a[k] < a[l]
    BY <1>1, <1>3, <2>1 DEF Increasing
  <2>2. ASSUME NEW k \in 1 .. Len(b), NEW l \in 1 .. Len(b), k < l
        PROVE  b[k] < b[l]
    <3>1. k + Len(a) \in 1 .. Len(s) /\ l + Len(a) \in 1 .. Len(s)
          /\ k + Len(a) < l + Len(a)
      BY <1>1, <1>3, <2>2
    <3>2. s[k + Len(a)] < s[l + Len(a)]
      BY <3>1 DEF Increasing
    <3> QED  BY <1>1, <3>2
  <2>3. ASSUME NEW k \in 1 .. Len(a), NEW l \in 1 .. Len(b)
        PROVE  a[k] < b[l]
    <3>1. k \in 1 .. Len(s) /\ l + Len(a) \in 1 .. Len(s) /\ k < l + Len(a)
      BY <1>1, <1>3
    <3>2. s[k] < s[l + Len(a)]
      BY <3>1 DEF Increasing
    <3> QED  BY <1>1, <3>2
  <2> QED  BY <2>1, <2>2, <2>3 DEF Increasing, Before
<1>5. Increasing(a) /\ Increasing(b) /\ Before(a, b) => Increasing(s)
  <2> SUFFICES ASSUME Increasing(a), Increasing(b), Before(a, b),
                      NEW k \in 1 .. Len(s), NEW l \in 1 .. Len(s), k < l
               PROVE  s[k] < s[l]
    BY DEF Increasing
  <2>1. CASE k \in 1 .. Len(a) /\ l \in 1 .. Len(a)
    BY <1>1, <2>1 DEF Increasing
  <2>2. CASE k \in 1 .. Len(a) /\ l \notin 1 .. Len(a)
    BY <1>1, <1>2, <2>2 DEF Before
  <2>3. CASE k \notin 1 .. Len(a)
    <3>1. l \notin 1 .. Len(a)
      BY <1>1, <2>3
    <3>2. PICK m \in 1 .. Len(b) : k = m + Len(a)
      BY <1>2, <2>3
    <3>3. PICK n \in 1 .. Len(b) : l = n + Len(a)
      BY <1>2, <3>1
    <3>4. m < n /\ s[k] = b[m] /\ s[l] = b[n]
      BY <1>1, <3>2, <3>3
    <3> QED  BY <3>4 DEF Increasing
  <2> QED  BY <2>1, <2>2, <2>3
<1>6. \A n \in Nat : UpTo(s, n) <=> UpTo(a, n) /\ UpTo(b, n)
  BY <1>1, <1>2, <1>3 DEF UpTo
<1> QED  BY <1>4, <1>5, <1>6 DEF s

\* A piece of a sequence repeats it from an offset on.
LEMMA Piece ==
    ASSUME NEW w \in Seq(Nat), NEW m \in Nat \ {0}, NEW n \in Nat, n <= Len(w)
    PROVE  /\ SubSeq(w, m, n) \in Seq(Nat)
           /\ Len(SubSeq(w, m, n)) = IF m <= n THEN n + 1 - m ELSE 0
           /\ \A k \in 1 .. Len(SubSeq(w, m, n)) :
                 /\ k + (m - 1) \in m .. n
                 /\ SubSeq(w, m, n)[k] = w[k + (m - 1)]
<1>1. \A k \in m .. n : w[k] \in Nat
  BY ElementOfSeq
<1>2. /\ SubSeq(w, m, n) \in Seq(Nat)
      /\ Len(SubSeq(w, m, n)) = IF m <= n THEN n - m + 1 ELSE 0
      /\ \A k \in 1 .. n - m + 1 : SubSeq(w, m, n)[k] = w[m + k - 1]
  BY <1>1, SubSeqProperties
<1> QED  BY <1>2, SMTT(20)

\* Delivering moves the border between the delivered and the waiting entries and
\* leaves the whole as it was.
LEMMA DeliverKeepsAll ==
    ASSUME NEW d \in Seq(Nat), NEW w \in Seq(Nat), NEW n \in 1 .. Len(w)
    PROVE  /\ SubSeq(w, 1, n) \in Seq(Nat) /\ Len(SubSeq(w, 1, n)) = n
           /\ SubSeq(w, n + 1, Len(w)) \in Seq(Nat)
           /\ Len(SubSeq(w, n + 1, Len(w))) = Len(w) - n
           /\ (d \o SubSeq(w, 1, n)) \o SubSeq(w, n + 1, Len(w)) = d \o w
<1>1. \A i \in 1 .. Len(w) : w[i] \in Nat
  BY ElementOfSeq
<1>2. /\ SubSeq(w, 1, n) \in Seq(Nat) /\ Len(SubSeq(w, 1, n)) = n
      /\ SubSeq(w, n + 1, Len(w)) \in Seq(Nat)
      /\ Len(SubSeq(w, n + 1, Len(w))) = Len(w) - n
  BY <1>1, SubSeqProperties
<1>3. SubSeq(w, 1, n) \o SubSeq(w, n + 1, Len(w)) = w
  BY ConcatAdjacentSubSeq, SubSeqFull, LenProperties
<1>4. (d \o SubSeq(w, 1, n)) \o SubSeq(w, n + 1, Len(w))
        = d \o (SubSeq(w, 1, n) \o SubSeq(w, n + 1, Len(w)))
  BY <1>2, ConcatAssoc
<1> QED  BY <1>2, <1>3, <1>4

\* What precedes two sequences precedes their concatenation.
LEMMA BeforeConcat ==
    ASSUME NEW d \in Seq(Nat), NEW a \in Seq(Nat), NEW b \in Seq(Nat),
           Before(d, a), Before(d, b)
    PROVE  Before(d, a \o b)
<1> SUFFICES ASSUME NEW k \in 1 .. Len(d), NEW l \in 1 .. Len(a \o b)
             PROVE  d[k] < (a \o b)[l]
  BY DEF Before
<1>1. CASE l \in 1 .. Len(a)
  <2>1. (a \o b)[l] = a[l]
    BY <1>1
  <2> QED  BY <1>1, <2>1 DEF Before
<1>2. CASE l \notin 1 .. Len(a)
  <2>1. l - Len(a) \in 1 .. Len(b) /\ (a \o b)[l] = b[l - Len(a)]
    BY <1>2
  <2> QED  BY <2>1 DEF Before
<1> QED  BY <1>1, <1>2

\* A piece of an ordered sequence is ordered, stays behind what preceded the
\* whole, and below its bound.
LEMMA PieceOrder ==
    ASSUME NEW d \in Seq(Nat), NEW w \in Seq(Nat), NEW n \in Nat,
           NEW p \in Seq(Nat), NEW o \in Nat,
           \A k \in 1 .. Len(p) : k + o \in 1 .. Len(w) /\ p[k] = w[k + o],
           Increasing(w), Before(d, w), UpTo(w, n)
    PROVE  Increasing(p) /\ Before(d, p) /\ UpTo(p, n)
<1>1. ASSUME NEW k \in 1 .. Len(p), NEW l \in 1 .. Len(p), k < l
      PROVE  p[k] < p[l]
  <2>1. k + o \in 1 .. Len(w) /\ l + o \in 1 .. Len(w) /\ k + o < l + o
    BY <1>1
  <2>2. w[k + o] < w[l + o]
    BY <2>1 DEF Increasing
  <2> QED  BY <2>2
<1>2. ASSUME NEW k \in 1 .. Len(d), NEW l \in 1 .. Len(p)
      PROVE  d[k] < p[l]
  BY DEF Before
<1>3. ASSUME NEW k \in 1 .. Len(p)
      PROVE  p[k] <= n
  BY DEF UpTo
<1> QED  BY <1>1, <1>2, <1>3 DEF Increasing, Before, UpTo

\* Giving entries i..j up shortens the queue by their number and leaves the rest
\* in order, behind the same delivered entries.
LEMMA GiveUpLeaves ==
    ASSUME NEW d \in Seq(Nat), NEW w \in Seq(Nat),
           NEW i \in 1 .. Len(w), NEW j \in i .. Len(w), NEW n \in Nat,
           Increasing(w), Before(d, w), UpTo(w, n)
    PROVE  LET left == SubSeq(w, 1, i - 1) \o SubSeq(w, j + 1, Len(w))
           IN  /\ left \in Seq(Nat) /\ Len(left) = Len(w) - (j + 1 - i)
               /\ Increasing(left) /\ Before(d, left) /\ UpTo(left, n)
<1> DEFINE front == SubSeq(w, 1, i - 1)
           back == SubSeq(w, j + 1, Len(w))
<1>1. /\ front \in Seq(Nat) /\ Len(front) = i - 1
      /\ \A k \in 1 .. Len(front) : k + 0 \in 1 .. i - 1 /\ front[k] = w[k + 0]
  BY Piece
<1>2. /\ back \in Seq(Nat) /\ Len(back) = Len(w) - j
      /\ \A k \in 1 .. Len(back) : k + j \in j + 1 .. Len(w) /\ back[k] = w[k + j]
  BY Piece, SMTT(20)
<1> HIDE DEF front, back
<1>3. /\ \A k \in 1 .. Len(front) : k + 0 \in 1 .. Len(w) /\ front[k] = w[k + 0]
      /\ \A k \in 1 .. Len(back) : k + j \in 1 .. Len(w) /\ back[k] = w[k + j]
  BY <1>1, <1>2, LenProperties, SMTT(20)
<1> j \in Nat
  BY LenProperties
<1>4. Increasing(front) /\ Before(d, front) /\ UpTo(front, n)
  BY <1>1, <1>3, PieceOrder
<1>5. Increasing(back) /\ Before(d, back) /\ UpTo(back, n)
  BY <1>2, <1>3, PieceOrder
<1>6. Before(front, back)
  <2> SUFFICES ASSUME NEW k \in 1 .. Len(front), NEW l \in 1 .. Len(back)
               PROVE  front[k] < back[l]
    BY DEF Before
  <2>1. k + 0 \in 1 .. Len(w) /\ l + j \in 1 .. Len(w) /\ k + 0 < l + j
    BY <1>1, <1>2, <1>3
  <2>2. w[k + 0] < w[l + j]
    BY <2>1 DEF Increasing
  <2> QED  BY <1>3, <2>2
<1>7. Increasing(front \o back) /\ UpTo(front \o back, n)
  BY <1>1, <1>2, <1>4, <1>5, <1>6, ConcatOrder
<1>8. Before(d, front \o back)
  BY <1>1, <1>2, <1>4, <1>5, BeforeConcat
<1>9. front \o back \in Seq(Nat) /\ Len(front \o back) = Len(front) + Len(back)
  BY <1>1, <1>2, ConcatProperties
<1>10. Len(front \o back) = Len(w) - (j + 1 - i)
  BY <1>1, <1>2, <1>9, LenProperties
<1> QED  BY <1>7, <1>8, <1>9, <1>10 DEF front, back

\* The empty queue.
LEMMA InitInv == Init => QueueInv
<1> SUFFICES ASSUME Init PROVE QueueInv
  OBVIOUS
<1>1. <<>> \in Seq(Nat) /\ Len(<<>>) = 0
  BY EmptySeq
<1>2. delivered \o waiting = <<>>
  BY <1>1, ConcatEmptySeq DEF Init
<1> QED
  BY <1>1, <1>2 DEF Init, QueueInv, TypeOK, InOrder, Increasing, Counted, Numbered

\* The entry that joins has the highest number, at the tail.
LEMMA AcceptInv == QueueInv /\ Accept => QueueInv'
<1> SUFFICES ASSUME QueueInv, Accept PROVE QueueInv'
  OBVIOUS
<1> DEFINE all == delivered \o waiting
           more == delivered \o Append(waiting, offered + 1)
<1>1. /\ all \in Seq(Nat) /\ Len(all) = Len(delivered) + Len(waiting)
      /\ Len(delivered) \in Nat /\ Len(waiting) \in Nat
  BY ConcatProperties, LenProperties DEF QueueInv, TypeOK
<1>2. /\ Append(waiting, offered + 1) \in Seq(Nat)
      /\ Len(Append(waiting, offered + 1)) = Len(waiting) + 1
      /\ more = Append(all, offered + 1)
  <2>1. /\ Append(waiting, offered + 1) \in Seq(Nat)
        /\ Len(Append(waiting, offered + 1)) = Len(waiting) + 1
    BY AppendProperties DEF QueueInv, TypeOK
  <2>2. Append(waiting, offered + 1) = waiting \o <<offered + 1>>
    BY AppendIsConcat DEF QueueInv, TypeOK
  <2>3. Append(all, offered + 1) = all \o <<offered + 1>>
    BY <1>1, AppendIsConcat DEF QueueInv, TypeOK
  <2>4. <<offered + 1>> \in Seq(Nat)
    BY DEF QueueInv, TypeOK
  <2> QED
    BY <2>1, <2>2, <2>3, <2>4, ConcatAssociative DEF QueueInv, TypeOK
<1>3. /\ \A k \in 1 .. Len(all) : all[k] <= offered /\ all[k] \in Nat
      /\ \A k, l \in 1 .. Len(all) : k < l => all[k] < all[l]
  BY <1>1, ElementOfSeq DEF QueueInv, InOrder, Increasing, Numbered
<1>4. offered \in Nat
  BY DEF QueueInv, TypeOK
<1>5. delivered' \o waiting' = Append(all, offered + 1)
  BY <1>2 DEF Accept
<1> HIDE DEF all, more
<1>6. /\ Len(Append(all, offered + 1)) = Len(all) + 1
      /\ \A k \in 1 .. Len(all) : Append(all, offered + 1)[k] = all[k]
      /\ Append(all, offered + 1)[Len(all) + 1] = offered + 1
      /\ Len(all) \in Nat
  BY <1>1, <1>4, AppendProperties, LenProperties
<1> DEFINE all2 == Append(all, offered + 1)
<1> HIDE DEF all2
<1>9. /\ \A k \in 1 .. Len(all2) : all2[k] <= offered + 1
      /\ \A k, l \in 1 .. Len(all2) : k < l => all2[k] < all2[l]
  <2>1. /\ Len(all2) = Len(all) + 1 /\ Len(all) \in Nat
        /\ \A k \in 1 .. Len(all) : all2[k] = all[k]
        /\ all2[Len(all) + 1] = offered + 1
    BY <1>6 DEF all2
  <2>2. \A k \in 1 .. Len(all2) : k \in 1 .. Len(all) \/ k = Len(all) + 1
    BY <2>1
  <2>3. \A k \in 1 .. Len(all2) : all2[k] <= offered + 1
    BY <1>3, <1>4, <2>1, <2>2
  <2>4. ASSUME NEW k \in 1 .. Len(all2), NEW l \in 1 .. Len(all2), k < l
        PROVE  all2[k] < all2[l]
    <3>1. k \in 1 .. Len(all)
      BY <2>1, <2>4
    <3>2. CASE l \in 1 .. Len(all)
      BY <1>3, <2>1, <2>4, <3>1, <3>2
    <3>3. CASE l = Len(all) + 1
      BY <1>3, <1>4, <2>1, <3>1, <3>3
    <3> QED  BY <2>2, <3>2, <3>3
  <2> QED  BY <2>3, <2>4
<1>7. InOrder' /\ Numbered'
  BY <1>5, <1>9 DEF InOrder, Increasing, Numbered, Accept, all2
<1>8. TypeOK' /\ Counted'
  BY <1>1, <1>2, <1>4 DEF Accept, QueueInv, TypeOK, Counted
<1> QED  BY <1>7, <1>8 DEF QueueInv

\* A prefix that moves to the delivered entries stays where it is in their concatenation.
LEMMA DeliverInv ==
    ASSUME QueueInv, NEW n \in 1 .. Len(waiting), Deliver(n)
    PROVE  QueueInv'
<1>1. delivered \in Seq(Nat) /\ waiting \in Seq(Nat)
  BY DEF QueueInv, TypeOK
<1>2. /\ SubSeq(waiting, 1, n) \in Seq(Nat) /\ Len(SubSeq(waiting, 1, n)) = n
      /\ waiting' \in Seq(Nat) /\ Len(waiting') = Len(waiting) - n
      /\ delivered' \o waiting' = delivered \o waiting
  BY <1>1, DeliverKeepsAll DEF Deliver
<1>3. delivered' \in Seq(Nat) /\ Len(delivered') = Len(delivered) + n
  BY <1>1, <1>2, ConcatProperties DEF Deliver
<1>4. InOrder' /\ Numbered'
  BY <1>2 DEF QueueInv, InOrder, Increasing, Numbered, Deliver
<1>5. TypeOK' /\ Counted'
  <2>1. /\ Len(delivered) \in Nat /\ Len(waiting) \in Nat /\ n \in Nat
        /\ offered' = offered /\ dropped' = dropped
    BY <1>1, LenProperties DEF Deliver
  <2> QED  BY <1>2, <1>3, <2>1 DEF QueueInv, TypeOK, Counted
<1> QED  BY <1>4, <1>5 DEF QueueInv

\* Cutting entries out keeps the order of the others, and they are counted.
LEMMA GiveUpInv ==
    ASSUME QueueInv, NEW i \in 1 .. Len(waiting), NEW j \in i .. Len(waiting),
           GiveUp(i, j)
    PROVE  QueueInv'
<1>1. /\ delivered \in Seq(Nat) /\ waiting \in Seq(Nat) /\ offered \in Nat
      /\ Len(delivered) \in Nat /\ Len(waiting) \in Nat /\ dropped \in Nat
      /\ delivered' = delivered /\ offered' = offered /\ dropped' = dropped + (j + 1 - i)
  BY LenProperties DEF QueueInv, TypeOK, GiveUp
<1>2. /\ Increasing(delivered) /\ Increasing(waiting) /\ Before(delivered, waiting)
      /\ UpTo(delivered, offered) /\ UpTo(waiting, offered)
  <2>1. Increasing(delivered \o waiting) /\ UpTo(delivered \o waiting, offered)
    BY DEF QueueInv, InOrder, Numbered, UpTo
  <2> QED  BY <1>1, <2>1, ConcatOrder
<1>3. /\ waiting' \in Seq(Nat) /\ Len(waiting') = Len(waiting) - (j + 1 - i)
      /\ Increasing(waiting') /\ Before(delivered, waiting') /\ UpTo(waiting', offered)
  <2>1. waiting' = SubSeq(waiting, 1, i - 1) \o SubSeq(waiting, j + 1, Len(waiting))
    BY DEF GiveUp
  <2> QED  BY <1>1, <1>2, <2>1, GiveUpLeaves, ZenonT(30)
<1>4. InOrder' /\ Numbered'
  <2>1. Increasing(delivered \o waiting') /\ UpTo(delivered \o waiting', offered)
    BY <1>1, <1>2, <1>3, ConcatOrder
  <2> QED  BY <1>1, <2>1 DEF InOrder, Numbered, UpTo
<1>5. TypeOK' /\ Counted'
  <2>1. j + 1 - i \in Nat
    BY <1>1
  <2> QED  BY <1>1, <1>3, <2>1 DEF QueueInv, TypeOK, Counted
<1> QED  BY <1>4, <1>5 DEF QueueInv

\* A refused entry is counted and changes nothing else.
LEMMA RefuseInv == QueueInv /\ Refuse => QueueInv'
BY LenProperties, SMTT(20) DEF QueueInv, TypeOK, InOrder, Increasing, Counted, Numbered, Refuse

\* Whatever is accepted, refused, delivered and given up, the queue stays in
\* order and every entry is accounted for.
THEOREM QueueCorrect == Spec => []QueueInv
<1>1. QueueInv /\ UNCHANGED qvars => QueueInv'
  BY DEF qvars, QueueInv, TypeOK, InOrder, Increasing, Counted, Numbered
<1>2. QueueInv /\ [Next]_qvars => QueueInv'
  BY <1>1, AcceptInv, RefuseInv, DeliverInv, GiveUpInv DEF Next
<1> QED  BY <1>2, InitInv, PTL DEF Spec
=============================================================================
