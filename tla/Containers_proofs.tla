-------------------------- MODULE Containers_proofs --------------------------
(***************************************************************************)
(* What the proofs about the components share: induction over the naturals,*)
(* cutting sequences and putting them together, filtering them, sums over  *)
(* them, and the ring buffer.                                              *)
(***************************************************************************)
EXTENDS Lists, RingBuffer, SequencesExt, SequenceTheorems, NaturalsInduction, WellFoundedInduction, TLAPS

(* Numbers.                                                                *)

\* Induction over the natural numbers, with a set for the predicate.
LEMMA SetInduction ==
    ASSUME NEW S, 0 \in S, \A n \in Nat : n \in S => n + 1 \in S
    PROVE  Nat \subseteq S
<1> DEFINE T == Nat \ S
<1>1. SUFFICES ASSUME T # {} PROVE FALSE
  OBVIOUS
<1>2. PICK m \in T : \A k \in T : <<k, m>> \notin OpToRel(<, Nat)
  <2>1. T \subseteq Nat
    OBVIOUS
  <2> HIDE DEF T
  <2> QED  BY <1>1, <2>1, NatLessThanWellFounded, WFMin
<1>3. m # 0 /\ m \in Nat /\ m - 1 \in Nat /\ m - 1 < m
  OBVIOUS
<1>4. m - 1 \notin T
  BY <1>2, <1>3, Zenon DEF OpToRel
<1>5. m \in S
  <2>1. PICK n \in Nat : n = m - 1
    BY <1>3
  <2>2. n \in S /\ n + 1 = m
    BY <1>3, <1>4, <2>1
  <2> QED  BY <2>1, <2>2
<1> QED  BY <1>5

\* There is a function f with f[0] = a and f[n] = F[f[n - 1]] up to N, ...
Iterates(S, a, F, N) ==
    \E f \in [0 .. N -> S] : f[0] = a /\ \A n \in 1 .. N : f[n] = F[f[n - 1]]

\* ... whatever the function F: the recursion that defines it has a solution.
LEMMA Iterated ==
    ASSUME NEW S, NEW a \in S, NEW F \in [S -> S], NEW N \in Nat
    PROVE  Iterates(S, a, F, N)
<1> DEFINE R == {k \in Nat : \E f \in [0 .. k -> S] :
                               f[0] = a /\ \A n \in 1 .. k : f[n] = F[f[n - 1]]}
<1>1. 0 \in R
  <2>1. [n \in 0 .. 0 |-> a] \in [0 .. 0 -> S]
    OBVIOUS
  <2>2. [n \in 0 .. 0 |-> a][0] = a /\ 1 .. 0 = {}
    OBVIOUS
  <2>3. PICK f \in [0 .. 0 -> S] : f[0] = a
    BY <2>1, <2>2
  <2>4. \A n \in 1 .. 0 : f[n] = F[f[n - 1]]
    BY <2>2
  <2> QED  BY <2>3, <2>4
<1>2. ASSUME NEW k \in Nat, k \in R PROVE k + 1 \in R
  <2>1. PICK f \in [0 .. k -> S] : f[0] = a /\ \A n \in 1 .. k : f[n] = F[f[n - 1]]
    BY <1>2
  <2> DEFINE g == [n \in 0 .. k + 1 |-> IF n = k + 1 THEN F[f[k]] ELSE f[n]]
  <2>2. \A n \in 0 .. k : g[n] = f[n]
    OBVIOUS
  <2>3. g[k + 1] = F[f[k]] /\ g \in [0 .. k + 1 -> S]
    OBVIOUS
  <2> HIDE DEF g
  <2>4. g[0] = a
    BY <2>1, <2>2
  <2>5. ASSUME NEW n \in 1 .. k + 1 PROVE g[n] = F[g[n - 1]]
    <3>1. CASE n = k + 1
      BY <2>2, <2>3, <3>1
    <3>2. CASE n \in 1 .. k
      <4>1. n - 1 \in 0 .. k /\ n \in 0 .. k
        BY <3>2
      <4> QED  BY <2>1, <2>2, <3>2, <4>1
    <3> QED  BY <3>1, <3>2
  <2> QED  BY <2>3, <2>4, <2>5
<1> HIDE DEF R
<1>3. N \in R
  BY <1>1, <1>2, SetInduction
<1> QED  BY <1>3 DEF R, Iterates

\* A bounded set of numbers that is not empty has a largest one.
LEMMA LargestExists ==
    ASSUME NEW n \in Nat, NEW T \in SUBSET (0 .. n), T # {}
    PROVE  \E m \in T : \A k \in T : k <= m
<1> DEFINE R == {i \in Nat : (\E m \in T : n - i <= m) => \E m \in T : \A k \in T : k <= m}
<1>1. 0 \in R
  OBVIOUS
<1>2. \A i \in Nat : i \in R => i + 1 \in R
  <2> SUFFICES ASSUME NEW i \in Nat, i \in R, NEW m \in T, n - (i + 1) <= m
               PROVE  \E q \in T : \A k \in T : k <= q
    OBVIOUS
  <2>1. CASE \E q \in T : n - i <= q
    BY <2>1
  <2>2. CASE ~ \E q \in T : n - i <= q
    <3>1. \A k \in T : k <= m
      BY <2>2
    <3> QED  BY <3>1
  <2> QED  BY <2>1, <2>2
<1>3. n \in R
  <2> HIDE DEF R
  <2> QED  BY <1>1, <1>2, SetInduction
<1>4. \E m \in T : n - n <= m
  <2>0. PICK m : m \in T
    OBVIOUS
  <2>1. m \in T /\ m \in Nat
    BY <2>0
  <2>2. n - n <= m
    BY <2>1
  <2> QED  BY <2>1, <2>2
<1> QED  BY <1>3, <1>4

-----------------------------------------------------------------------------
(* Sequences cut and joined.                                               *)

\* A sequence cut behind its n-th element: two parts, with nothing lost in between.
LEMMA SplitAt ==
    ASSUME NEW T, NEW s \in Seq(T), NEW n \in 0 .. Len(s)
    PROVE  /\ SubSeq(s, 1, n) \in Seq(T) /\ SubSeq(s, n + 1, Len(s)) \in Seq(T)
           /\ Len(SubSeq(s, 1, n)) = n /\ Len(SubSeq(s, n + 1, Len(s))) = Len(s) - n
           /\ \A i \in 1 .. n : SubSeq(s, 1, n)[i] = s[i]
           /\ \A i \in 1 .. Len(s) - n : SubSeq(s, n + 1, Len(s))[i] = s[i + n]
           /\ SubSeq(s, 1, n) \o SubSeq(s, n + 1, Len(s)) = s
<1>1. Len(s) \in Nat /\ n \in Nat /\ n <= Len(s) /\ \A i \in 1 .. Len(s) : s[i] \in T
  BY LenProperties, ElementOfSeq
<1>2. /\ SubSeq(s, 1, n) \in Seq(T) /\ SubSeq(s, n + 1, Len(s)) \in Seq(T)
      /\ Len(SubSeq(s, 1, n)) = n /\ Len(SubSeq(s, n + 1, Len(s))) = Len(s) - n
  BY <1>1
<1>3. \A i \in 1 .. n : SubSeq(s, 1, n)[i] = s[i]
  BY <1>1, SubSeqProperties
<1>4. \A i \in 1 .. Len(s) - n : SubSeq(s, n + 1, Len(s))[i] = s[i + n]
  BY <1>1, SubSeqProperties
<1>5. /\ 1 \in 1 .. Len(s) + 1 /\ n \in 1 - 1 .. Len(s) /\ Len(s) \in n .. Len(s)
  BY <1>1
<1>6. SubSeq(s, 1, n) \o SubSeq(s, n + 1, Len(s)) = SubSeq(s, 1, Len(s))
  BY <1>5, ConcatAdjacentSubSeq
<1> QED  BY <1>2, <1>3, <1>4, <1>6, SubSeqFull

\* Cutting a concatenation where it was joined gives its parts back.
LEMMA CutConcat ==
    ASSUME NEW T, NEW a \in Seq(T), NEW b \in Seq(T)
    PROVE  /\ SubSeq(a \o b, 1, Len(a)) = a
           /\ SubSeq(a \o b, Len(a) + 1, Len(a \o b)) = b
<1>1. /\ a \o b \in Seq(T) /\ Len(a \o b) = Len(a) + Len(b)
      /\ Len(a) \in Nat /\ Len(b) \in Nat
  BY ConcatProperties, LenProperties
<1>2. SubSeq(a \o b, 1, Len(a)) = a
  OBVIOUS
<1>3. SubSeq(a \o b, Len(a) + 1, Len(a \o b)) = b
  OBVIOUS
<1> QED  BY <1>2, <1>3

\* Cutting an empty stretch out of a sequence leaves it as it is.
LEMMA CutNothing ==
    ASSUME NEW T, NEW s \in Seq(T)
    PROVE  /\ SubSeq(s, 1, 0) = <<>> /\ SubSeq(s, Len(s) + 1, Len(s)) = <<>>
           /\ s \o <<>> = s /\ <<>> \o s = s
           /\ Len(s) \in Nat /\ (s # <<>> => Len(s) > 0) /\ Len(<<>>) = 0
OBVIOUS

\* An entry appended behind b is appended behind a and b.
LEMMA AppendToConcat ==
    ASSUME NEW T, NEW a \in Seq(T), NEW b \in Seq(T), NEW n \in T
    PROVE  a \o Append(b, n) = Append(a \o b, n)
<1>1. <<n>> \in Seq(T) /\ a \o b \in Seq(T)
  BY ConcatProperties
<1>2. Append(b, n) = b \o <<n>> /\ Append(a \o b, n) = (a \o b) \o <<n>>
  BY <1>1, AppendIsConcat
<1> QED  BY <1>1, <1>2, ConcatAssociative

\* A sequence without its i-th element.
LEMMA CutOut ==
    ASSUME NEW T, NEW s \in Seq(T), NEW i \in 1 .. Len(s)
    PROVE  LET a == SubSeq(s, 1, i - 1)
               b == SubSeq(s, i + 1, Len(s))
           IN  /\ a \in Seq(T) /\ b \in Seq(T) /\ s[i] \in T /\ s = (a \o <<s[i]>>) \o b
               /\ a \o b \in Seq(T) /\ Len(a \o b) = Len(s) - 1
               /\ \A k \in 1 .. Len(s) - 1 : (a \o b)[k] = IF k < i THEN s[k] ELSE s[k + 1]
<1> DEFINE a == SubSeq(s, 1, i - 1)
           b == SubSeq(s, i + 1, Len(s))
           u == SubSeq(s, 1, i)
           x == s[i]
<1>1. Len(s) \in Nat /\ i \in 0 .. Len(s) /\ i - 1 \in 0 .. Len(s) /\ i \in Nat /\ i - 1 \in Nat /\ i <= Len(s)
  BY LenProperties
<1>2. /\ u \in Seq(T) /\ b \in Seq(T) /\ Len(u) = i /\ Len(b) = Len(s) - i /\ u \o b = s
      /\ \A k \in 1 .. i : u[k] = s[k]
      /\ \A k \in 1 .. Len(s) - i : b[k] = s[k + i]
  BY <1>1, SplitAt
<1>3. a \in Seq(T) /\ Len(a) = i - 1 /\ \A k \in 1 .. i - 1 : a[k] = s[k]
  BY <1>1, SplitAt
<1>4. x \in T
  BY <1>1, ElementOfSeq
<1> HIDE DEF a, b, u, x
<1>5. a \in Seq(T) /\ b \in Seq(T) /\ <<x>> \in Seq(T) /\ u \in Seq(T)
  BY <1>2, <1>3, <1>4
<1>6. u = a \o <<x>>
  <2>1. /\ a \o <<x>> \in Seq(T) /\ Len(a \o <<x>>) = i /\ <<x>> \in Seq(T)
        /\ \A k \in 1 .. i : (a \o <<x>>)[k] = IF k <= i - 1 THEN a[k] ELSE x
    <3>1. <<x>> \in Seq(T) /\ Len(<<x>>) = 1 /\ <<x>>[1] = x
      BY <1>4
    <3>2. a \o <<x>> = Append(a, x)
      BY <1>3, <1>4, AppendIsConcat
    <3>3. Append(a, x) \in Seq(T) /\ Len(Append(a, x)) = i /\ Append(a, x)[i] = x
          /\ \A k \in 1 .. i - 1 : Append(a, x)[k] = a[k]
      BY <1>1, <1>3, <1>4, AppendProperties
    <3>4. \A k \in 1 .. i : (k <= i - 1 => k \in 1 .. i - 1) /\ (~(k <= i - 1) => k = i)
      BY <1>1
    <3> QED  BY <3>1, <3>2, <3>3, <3>4
  <2>2. \A k \in 1 .. i : (a \o <<x>>)[k] = u[k]
    <3>1. \A k \in 1 .. i : (k <= i - 1 => k \in 1 .. i - 1) /\ (~(k <= i - 1) => k = i)
      BY <1>1
    <3> QED  BY <1>2, <1>3, <2>1, <3>1 DEF x
  <2> QED  BY <1>2, <2>1, <2>2, SeqEqual
<1>7. a \o b \in Seq(T) /\ Len(a \o b) = Len(s) - 1
  <2>1. a \in Seq(T) /\ b \in Seq(T)
    BY <1>2, <1>3
  <2>2. a \o b \in Seq(T) /\ Len(a \o b) = Len(a) + Len(b)
    BY <2>1, ConcatProperties
  <2> QED  BY <1>1, <1>2, <1>3, <2>2
<1>8. \A k \in 1 .. Len(s) - 1 : (a \o b)[k] = IF k < i THEN s[k] ELSE s[k + 1]
  <2> SUFFICES ASSUME NEW k \in 1 .. Len(s) - 1 PROVE (a \o b)[k] = IF k < i THEN s[k] ELSE s[k + 1]
    OBVIOUS
  <2>1. (a \o b)[k] = IF k <= i - 1 THEN a[k] ELSE b[k - (i - 1)]
    BY <1>1, <1>2, <1>3, ConcatProperties, SMTT(20)
  <2>2. CASE k < i
    <3>1. k <= i - 1 /\ k \in 1 .. i - 1
      BY <1>1, <2>2
    <3> QED  BY <1>3, <2>1, <2>2, <3>1
  <2>3. CASE ~(k < i)
    <3>1. ~(k <= i - 1) /\ k - (i - 1) \in 1 .. Len(s) - i /\ (k - (i - 1)) + i = k + 1
      BY <1>1, <2>3
    <3> QED  BY <1>2, <2>1, <2>3, <3>1
  <2> QED  BY <2>2, <2>3
<1> QED  BY <1>2, <1>3, <1>4, <1>6, <1>7, <1>8 DEF a, b, x

\* Joined sequences have the elements of both.
LEMMA ToSetConcat ==
    ASSUME NEW T, NEW a \in Seq(T), NEW b \in Seq(T)
    PROVE  ToSet(a \o b) = ToSet(a) \cup ToSet(b)
<1>1. /\ DOMAIN (a \o b) = 1 .. Len(a) + Len(b) /\ DOMAIN a = 1 .. Len(a) /\ DOMAIN b = 1 .. Len(b)
      /\ Len(a) \in Nat /\ Len(b) \in Nat
      /\ \A i \in 1 .. Len(a) : (a \o b)[i] = a[i]
      /\ \A i \in 1 .. Len(b) : (a \o b)[Len(a) + i] = b[i]
  BY ConcatProperties, LenProperties
<1> DEFINE c == a \o b
<1> HIDE DEF c
<1>2. ASSUME NEW x \in ToSet(c) PROVE x \in ToSet(a) \cup ToSet(b)
  <2>1. PICK i \in 1 .. Len(a) + Len(b) : x = c[i]
    BY <1>1 DEF ToSet, c
  <2>2. CASE i <= Len(a)
    BY <1>1, <2>1, <2>2 DEF ToSet, c
  <2>3. CASE ~(i <= Len(a))
    <3>1. i - Len(a) \in 1 .. Len(b) /\ Len(a) + (i - Len(a)) = i
      BY <1>1, <2>3
    <3>2. x = b[i - Len(a)]
      BY <1>1, <2>1, <3>1 DEF c
    <3> QED  BY <1>1, <3>1, <3>2 DEF ToSet
  <2> QED  BY <2>2, <2>3
<1>3. ASSUME NEW x \in ToSet(a) PROVE x \in ToSet(c)
  <2>1. PICK i \in 1 .. Len(a) : x = a[i]
    BY <1>1 DEF ToSet
  <2>2. i \in DOMAIN c /\ x = c[i]
    BY <1>1, <2>1 DEF c
  <2> QED  BY <2>2 DEF ToSet
<1>4. ASSUME NEW x \in ToSet(b) PROVE x \in ToSet(c)
  <2>1. PICK i \in 1 .. Len(b) : x = b[i]
    BY <1>1 DEF ToSet
  <2>2. Len(a) + i \in DOMAIN c /\ x = c[Len(a) + i]
    BY <1>1, <2>1 DEF c
  <2> QED  BY <2>2 DEF ToSet
<1> QED  BY <1>2, <1>3, <1>4 DEF c

\* Two elements of joined sequences: of the first one, of both, or of the second.
LEMMA PairsOfConcat ==
    ASSUME NEW T, NEW a \in Seq(T), NEW b \in Seq(T),
           NEW i \in DOMAIN (a \o b), NEW j \in DOMAIN (a \o b), i < j
    PROVE  LET c == a \o b
           IN  \/ i \in DOMAIN a /\ j \in DOMAIN a /\ c[i] = a[i] /\ c[j] = a[j]
               \/ c[i] \in ToSet(a) /\ c[j] \in ToSet(b)
               \/ \E k, l \in DOMAIN b : k < l /\ c[i] = b[k] /\ c[j] = b[l]
<1> DEFINE c == a \o b
<1>1. /\ DOMAIN c = 1 .. Len(a) + Len(b) /\ DOMAIN a = 1 .. Len(a) /\ DOMAIN b = 1 .. Len(b)
      /\ Len(a) \in Nat /\ Len(b) \in Nat
      /\ \A n \in 1 .. Len(a) : c[n] = a[n]
      /\ \A n \in 1 .. Len(b) : c[Len(a) + n] = b[n]
  BY ConcatProperties, LenProperties
<1> HIDE DEF c
<1>2. i \in 1 .. Len(a) + Len(b) /\ j \in 1 .. Len(a) + Len(b)
  BY <1>1 DEF c
<1>3. ASSUME NEW n \in 1 .. Len(a) + Len(b), ~(n <= Len(a))
      PROVE  n - Len(a) \in 1 .. Len(b) /\ c[n] = b[n - Len(a)]
  <2>1. n - Len(a) \in 1 .. Len(b) /\ Len(a) + (n - Len(a)) = n
    BY <1>1, <1>3
  <2> QED  BY <1>1, <2>1
<1>4. CASE j <= Len(a)
  BY <1>1, <1>2, <1>4 DEF c
<1>5. CASE i <= Len(a) /\ ~(j <= Len(a))
  <2>1. i \in 1 .. Len(a) /\ c[i] = a[i]
    BY <1>1, <1>2, <1>5
  <2>2. j - Len(a) \in 1 .. Len(b) /\ c[j] = b[j - Len(a)]
    BY <1>2, <1>3, <1>5
  <2>3. c[i] \in ToSet(a) /\ c[j] \in ToSet(b)
    BY <1>1, <2>1, <2>2 DEF ToSet
  <2> QED  BY <2>3 DEF c
<1>6. CASE ~(i <= Len(a))
  <2>1. ~(j <= Len(a))
    BY <1>1, <1>2, <1>6
  <2>2. /\ i - Len(a) \in DOMAIN b /\ c[i] = b[i - Len(a)]
        /\ j - Len(a) \in DOMAIN b /\ c[j] = b[j - Len(a)]
    BY <1>1, <1>2, <1>3, <1>6, <2>1
  <2>3. i - Len(a) < j - Len(a)
    BY <1>1, <1>2
  <2> QED  BY <2>2, <2>3 DEF c
<1> QED  BY <1>4, <1>5, <1>6

\* Appended to a sequence: its elements and the new one, behind them.
LEMMA AppendFacts ==
    ASSUME NEW T, NEW s \in Seq(T), NEW x \in T
    PROVE  /\ Append(s, x) \in Seq(T) /\ ToSet(Append(s, x)) = ToSet(s) \cup {x}
           /\ \A i, j \in DOMAIN Append(s, x) : i < j =>
                \/ i \in DOMAIN s /\ j \in DOMAIN s /\ Append(s, x)[i] = s[i] /\ Append(s, x)[j] = s[j]
                \/ Append(s, x)[i] \in ToSet(s) /\ Append(s, x)[j] = x
<1> DEFINE a == Append(s, x)
<1>1. /\ a \in Seq(T) /\ DOMAIN a = 1 .. Len(s) + 1 /\ DOMAIN s = 1 .. Len(s) /\ Len(s) \in Nat
      /\ \A i \in 1 .. Len(s) : a[i] = s[i]
      /\ a[Len(s) + 1] = x
  BY AppendProperties, LenProperties
<1>2. \A i : i \in 1 .. Len(s) + 1 <=> i \in 1 .. Len(s) \/ i = Len(s) + 1
  BY <1>1
<1> HIDE DEF a
<1>3. ToSet(a) = ToSet(s) \cup {x}
  <2>1. \A y : y \in ToSet(a) <=> \E i : i \in DOMAIN a /\ y = a[i]
    BY DEF ToSet
  <2>2. \A y : y \in ToSet(s) <=> \E i : i \in DOMAIN s /\ y = s[i]
    BY DEF ToSet
  <2> QED  BY <1>1, <1>2, <2>1, <2>2
<1>4. ASSUME NEW i \in DOMAIN a, NEW j \in DOMAIN a, i < j
      PROVE  \/ i \in DOMAIN s /\ j \in DOMAIN s /\ a[i] = s[i] /\ a[j] = s[j]
             \/ a[i] \in ToSet(s) /\ a[j] = x
  <2>1. i \in 1 .. Len(s)
    BY <1>1, <1>4
  <2>2. a[i] = s[i] /\ a[i] \in ToSet(s)
    BY <1>1, <2>1 DEF ToSet
  <2>3. j \in 1 .. Len(s) \/ j = Len(s) + 1
    BY <1>1
  <2> QED  BY <1>1, <2>1, <2>2, <2>3
<1> QED  BY <1>1, <1>3, <1>4 DEF a

-----------------------------------------------------------------------------
(* Filters.                                                                *)

\* How a filter builds its result, element by element.
LEMMA AmongUnfolds ==
    ASSUME NEW T, NEW s \in Seq(T), NEW S
    PROVE  \E f : /\ Among(s, S) = f[Len(s)] /\ f[0] = <<>>
                  /\ \A n \in 1 .. Len(s) : f[n] = IF s[n] \in S THEN Append(f[n - 1], s[n]) ELSE f[n - 1]
<1> DEFINE N == Len(s)
           Next_(r, n) == IF s[n] \in S THEN Append(r, s[n]) ELSE r
           Unfolds(g) == g = [n \in 0 .. N |-> IF n = 0 THEN <<>> ELSE Next_(g[n - 1], n)]
           Grows(g, k) == g[0] = <<>> /\ \A n \in 1 .. k : g[n] = Next_(g[n - 1], n)
           f == CHOOSE g : Unfolds(g)
<1>0. N \in Nat BY LenProperties
<1>1. Among(s, S) = f[N] BY DEF Among
<1>2. \E g : Unfolds(g)
  <2> DEFINE R == {k \in Nat : k <= N => \E g : g = [n \in 0 .. k |-> g[n]] /\ Grows(g, k)}
  <2>1. 0 \in R
    <3> DEFINE g == [n \in 0 .. 0 |-> <<>>]
    <3>1. g = [n \in 0 .. 0 |-> g[n]] /\ Grows(g, 0) OBVIOUS
    <3> QED BY <3>1
  <2>2. ASSUME NEW k \in Nat, k \in R PROVE k + 1 \in R
    <3> SUFFICES ASSUME k + 1 <= N
                 PROVE  \E g : g = [n \in 0 .. k + 1 |-> g[n]] /\ Grows(g, k + 1)
      OBVIOUS
    <3>1. PICK h : h = [n \in 0 .. k |-> h[n]] /\ Grows(h, k) BY <2>2, <1>0
    <3> DEFINE g == [n \in 0 .. k + 1 |-> IF n = k + 1 THEN Next_(h[k], k + 1) ELSE h[n]]
    <3> HIDE DEF Next_
    <3>2. \A n \in 0 .. k : g[n] = h[n] OBVIOUS
    <3>3. g[k + 1] = Next_(h[k], k + 1) OBVIOUS
    <3>4. g = [n \in 0 .. k + 1 |-> g[n]] OBVIOUS
    <3> HIDE DEF g
    <3>5. g[0] = <<>> BY <3>1, <3>2
    <3>6. ASSUME NEW n \in 1 .. k + 1 PROVE g[n] = Next_(g[n - 1], n)
      <4>1. CASE n = k + 1
        <5>1. n - 1 = k /\ k \in 0 .. k BY <4>1
        <5> QED BY <5>1, <3>2, <3>3, <4>1
      <4>2. CASE n \in 1 .. k
        <5>1. n - 1 \in 0 .. k /\ n \in 0 .. k BY <4>2
        <5> QED BY <5>1, <3>1, <3>2, <4>2
      <4> QED BY <4>1, <4>2
    <3> QED BY <3>4, <3>5, <3>6
  <2>3. N \in R
    <3> HIDE DEF R
    <3> QED BY <2>1, <2>2, <1>0, SetInduction
  <2>4. PICK g : g = [n \in 0 .. N |-> g[n]] /\ Grows(g, N) BY <2>3, <1>0
  <2>5. \A n \in 0 .. N : g[n] = IF n = 0 THEN <<>> ELSE Next_(g[n - 1], n)
    <3> HIDE DEF Next_, N
    <3> TAKE n \in 0 .. N
    <3>1. CASE n = 0 BY <3>1, <2>4
    <3>2. CASE n # 0
      <4>1. n \in 1 .. N BY <3>2, <1>0
      <4> QED BY <4>1, <3>2, <2>4
    <3> QED BY <3>1, <3>2
  <2> HIDE DEF Next_, N
  <2>6. g = [n \in 0 .. N |-> IF n = 0 THEN <<>> ELSE Next_(g[n - 1], n)] BY <2>4, <2>5
  <2> QED BY <2>6
<1>3. Unfolds(f)
  <2> HIDE DEF Unfolds
  <2> QED BY <1>2
<1>4. f[0] = <<>> /\ \A n \in 1 .. N : f[n] = Next_(f[n - 1], n)
  <2> HIDE DEF f, Next_
  <2> QED BY <1>3, <1>0
<1> HIDE DEF f
<1> QED BY <1>1, <1>4

\* What a filter keeps stands where it stood: at rising places, those of the
\* elements that pass.
LEMMA AmongPlaces ==
    ASSUME NEW T, NEW s \in Seq(T), NEW S
    PROVE  LET r == Among(s, S)
           IN  /\ r \in Seq(T)
               /\ \E p \in [1 .. Len(r) -> 1 .. Len(s)] :
                    /\ \A i, j \in 1 .. Len(r) : i < j => p[i] < p[j]
                    /\ \A i \in 1 .. Len(r) : r[i] = s[p[i]]
                    /\ \A k \in 1 .. Len(s) : s[k] \in S <=> \E i \in 1 .. Len(r) : p[i] = k
<1> DEFINE N == Len(s)
<1>1. PICK f : /\ Among(s, S) = f[N] /\ f[0] = <<>>
               /\ \A n \in 1 .. N : f[n] = IF s[n] \in S THEN Append(f[n - 1], s[n]) ELSE f[n - 1]
  BY AmongUnfolds
<1>2. N \in Nat /\ \A n \in 1 .. N : s[n] \in T
  BY LenProperties, ElementOfSeq
<1> HIDE DEF N
<1> DEFINE Places(r, n, p) ==
             /\ p \in [1 .. Len(r) -> 1 .. n]
             /\ \A i, j \in 1 .. Len(r) : i < j => p[i] < p[j]
             /\ \A i \in 1 .. Len(r) : r[i] = s[p[i]]
             /\ \A k \in 1 .. n : s[k] \in S <=> \E i \in 1 .. Len(r) : p[i] = k
           Good(r, n) == r \in Seq(T) /\ \E p : Places(r, n, p)
           R == {n \in Nat : n <= N => Good(f[n], n)}
<1>3. 0 \in R
  <2>1. <<>> \in Seq(T) /\ Len(<<>>) = 0
    OBVIOUS
  <2>2. Places(<<>>, 0, [i \in 1 .. 0 |-> 0])
    OBVIOUS
  <2> HIDE DEF Places
  <2> QED  BY <1>1, <2>1, <2>2
<1>4. ASSUME NEW n \in Nat, n \in R PROVE n + 1 \in R
  <2> SUFFICES ASSUME n + 1 <= N PROVE Good(f[n + 1], n + 1)
    OBVIOUS
  <2> DEFINE r == f[n]
             x == s[n + 1]
  <2>1. Good(r, n)
    BY <1>4, <1>2
  <2>2. f[n + 1] = IF x \in S THEN Append(r, x) ELSE r
    <3>1. n + 1 \in 1 .. N /\ (n + 1) - 1 = n
      BY <1>2
    <3> QED  BY <1>1, <3>1
  <2>3. x \in T /\ x = s[n + 1]
    BY <1>2
  <2> HIDE DEF r, x
  <2>4. r \in Seq(T) /\ Len(r) \in Nat
    BY <2>1, LenProperties
  <2>5. PICK p : Places(r, n, p)
    BY <2>1
  <2>6. CASE x \notin S
    <3>1. Places(r, n + 1, p)
      <4>1. p \in [1 .. Len(r) -> 1 .. n + 1]
        BY <2>4, <2>5
      <4>2. ASSUME NEW k \in 1 .. n + 1 PROVE s[k] \in S <=> \E i \in 1 .. Len(r) : p[i] = k
        <5>1. CASE k \in 1 .. n
          BY <2>5, <5>1
        <5>2. CASE k = n + 1
          <6>1. \A i \in 1 .. Len(r) : p[i] \in 1 .. n
            BY <2>5
          <6> QED  BY <2>3, <2>6, <5>2, <6>1
        <5> QED  BY <5>1, <5>2
      <4> QED  BY <2>5, <4>1, <4>2
    <3> HIDE DEF Places
    <3> QED  BY <2>2, <2>4, <2>6, <3>1
  <2>7. CASE x \in S
    <3> DEFINE t == Append(r, x)
               q == [i \in 1 .. Len(r) + 1 |-> IF i = Len(r) + 1 THEN n + 1 ELSE p[i]]
    <3>1. /\ t \in Seq(T) /\ Len(t) = Len(r) + 1 /\ t[Len(r) + 1] = x
          /\ \A i \in 1 .. Len(r) : t[i] = r[i]
      BY <2>3, <2>4, AppendProperties
    <3>2. /\ \A i \in 1 .. Len(r) : p[i] \in 1 .. n /\ q[i] = p[i]
          /\ q[Len(r) + 1] = n + 1 /\ DOMAIN q = 1 .. Len(r) + 1
      BY <2>4, <2>5
    <3>3. q \in [1 .. Len(r) + 1 -> 1 .. n + 1]
      <4>1. ASSUME NEW i \in 1 .. Len(r) PROVE p[i] \in 1 .. n + 1
        <5>1. p[i] \in 1 .. n
          BY <3>2
        <5> HIDE DEF t, q
        <5> QED  BY <5>1
      <4>2. ASSUME NEW i \in 1 .. Len(r) + 1 PROVE (IF i = Len(r) + 1 THEN n + 1 ELSE p[i]) \in 1 .. n + 1
        <5>1. i = Len(r) + 1 \/ i \in 1 .. Len(r)
          BY <2>4
        <5> QED  BY <4>1, <5>1
      <4> QED  BY <4>2
    <3>4. \A i : i \in 1 .. Len(r) + 1 <=> i \in 1 .. Len(r) \/ i = Len(r) + 1
      BY <2>4
    <3> HIDE DEF t, q
    <3>5. \A i, j \in 1 .. Len(r) + 1 : i < j => q[i] < q[j]
      <4> SUFFICES ASSUME NEW i \in 1 .. Len(r) + 1, NEW j \in 1 .. Len(r) + 1, i < j PROVE q[i] < q[j]
        OBVIOUS
      <4>1. i \in 1 .. Len(r)
        BY <2>4
      <4>2. CASE j = Len(r) + 1
        BY <3>2, <4>1, <4>2
      <4>3. CASE j \in 1 .. Len(r)
        BY <2>5, <3>2, <4>1, <4>3
      <4> QED  BY <3>4, <4>2, <4>3
    <3>6. \A i \in 1 .. Len(r) + 1 : t[i] = s[q[i]]
      <4> SUFFICES ASSUME NEW i \in 1 .. Len(r) + 1 PROVE t[i] = s[q[i]]
        OBVIOUS
      <4>1. CASE i = Len(r) + 1
        BY <2>3, <3>1, <3>2, <4>1
      <4>2. CASE i \in 1 .. Len(r)
        BY <2>5, <3>1, <3>2, <4>2
      <4> QED  BY <3>4, <4>1, <4>2
    <3>7. ASSUME NEW k \in 1 .. n + 1 PROVE s[k] \in S <=> \E i \in 1 .. Len(r) + 1 : q[i] = k
      <4>1. CASE k = n + 1
        BY <2>3, <2>7, <3>2, <3>4, <4>1
      <4>2. CASE k \in 1 .. n
        <5>1. s[k] \in S <=> \E i \in 1 .. Len(r) : p[i] = k
          BY <2>5, <4>2
        <5>2. k # n + 1
          BY <4>2
        <5> QED  BY <3>2, <3>4, <5>1, <5>2
      <4> QED  BY <4>1, <4>2
    <3>8. Places(t, n + 1, q)
      BY <3>1, <3>3, <3>5, <3>6, <3>7
    <3> HIDE DEF Places
    <3> QED  BY <2>2, <2>7, <3>1, <3>8 DEF t
  <2> QED  BY <2>6, <2>7
<1>5. Good(f[N], N)
  <2>1. N \in R
    <3> HIDE DEF R
    <3> QED  BY <1>2, <1>3, <1>4, SetInduction
  <2> HIDE DEF Good
  <2> QED  BY <1>2, <2>1
<1> QED  BY <1>1, <1>5 DEF N

\* A filter keeps the elements that pass, all of them if all do.
LEMMA AmongElements ==
    ASSUME NEW T, NEW s \in Seq(T), NEW S
    PROVE  LET r == Among(s, S)
           IN  /\ r \in Seq(T) /\ Len(r) <= Len(s)
               /\ \A x : x \in ToSet(r) <=> x \in ToSet(s) /\ x \in S
               /\ (\A x \in ToSet(s) : x \in S) => r = s
               /\ (\A x \in ToSet(s) : x \notin S) => r = <<>>
<1> DEFINE N == Len(s)
<1>1. PICK f : /\ Among(s, S) = f[N] /\ f[0] = <<>>
               /\ \A n \in 1 .. N : f[n] = IF s[n] \in S THEN Append(f[n - 1], s[n]) ELSE f[n - 1]
  BY AmongUnfolds
<1>2. N \in Nat /\ DOMAIN s = 1 .. N /\ \A n \in 1 .. N : s[n] \in T
  BY LenProperties, ElementOfSeq
<1> HIDE DEF N
<1> DEFINE Good(r, n) ==
             /\ r \in Seq(T) /\ Len(r) <= n
             /\ \A x : x \in ToSet(r) <=> x \in S /\ \E i \in 1 .. n : x = s[i]
             /\ (\A x \in ToSet(s) : x \in S) => Len(r) = n /\ \A i \in 1 .. n : r[i] = s[i]
           R == {n \in Nat : n <= N => Good(f[n], n)}
<1>3. 0 \in R
  <2>1. Good(<<>>, 0)
    BY EmptySeq DEF ToSet
  <2> HIDE DEF Good
  <2> QED  BY <1>1, <2>1
<1>4. ASSUME NEW n \in Nat, n \in R PROVE n + 1 \in R
  <2> SUFFICES ASSUME n + 1 <= N PROVE Good(f[n + 1], n + 1)
    OBVIOUS
  <2> DEFINE r == f[n]
             x0 == s[n + 1]
  <2>1. Good(r, n)
    BY <1>4, <1>2
  <2>2. f[n + 1] = IF x0 \in S THEN Append(r, x0) ELSE r
    <3>1. n + 1 \in 1 .. N /\ (n + 1) - 1 = n
      BY <1>2
    <3> QED  BY <1>1, <3>1
  <2>3. x0 \in T /\ x0 \in ToSet(s)
    BY <1>2 DEF ToSet
  <2> HIDE DEF r, x0
  <2>4. \A x : (\E i \in 1 .. n + 1 : x = s[i]) <=> (x = x0 \/ \E i \in 1 .. n : x = s[i])
    <3>1. \A i : i \in 1 .. n + 1 <=> i = n + 1 \/ i \in 1 .. n
      OBVIOUS
    <3> QED  BY <3>1 DEF x0
  <2>5. CASE x0 \notin S
    <3>1. ~(\A x \in ToSet(s) : x \in S)
      BY <2>3, <2>5
    <3>2. r \in Seq(T) /\ Len(r) <= n + 1
      <4>1. r \in Seq(T) /\ Len(r) <= n
        BY <2>1
      <4> QED  BY <4>1, LenProperties
    <3> QED  BY <2>1, <2>2, <2>4, <2>5, <3>1, <3>2
  <2>6. CASE x0 \in S
    <3> DEFINE t == Append(r, x0)
    <3>1. /\ t \in Seq(T) /\ Len(t) = Len(r) + 1 /\ t[Len(r) + 1] = x0
          /\ \A i \in 1 .. Len(r) : t[i] = r[i]
      BY <2>1, <2>3, AppendProperties, LenProperties
    <3>2. DOMAIN t = 1 .. Len(r) + 1 /\ DOMAIN r = 1 .. Len(r) /\ Len(r) \in Nat
      BY <2>1, <3>1, LenProperties
    <3> HIDE DEF t
    <3>3. \A x : x \in ToSet(t) <=> x = x0 \/ x \in ToSet(r)
      <4>1. \A i : i \in DOMAIN t <=> i = Len(r) + 1 \/ i \in DOMAIN r
        BY <3>2
      <4> QED  BY <3>1, <3>2, <4>1 DEF ToSet
    <3>4. ASSUME \A x \in ToSet(s) : x \in S PROVE Len(t) = n + 1 /\ \A i \in 1 .. n + 1 : t[i] = s[i]
      <4>1. Len(r) = n /\ \A i \in 1 .. n : r[i] = s[i]
        BY <2>1, <3>4
      <4>2. \A i \in 1 .. n + 1 : i \in 1 .. n \/ i = n + 1
        OBVIOUS
      <4> QED  BY <3>1, <4>1, <4>2 DEF x0
    <3>5. Len(t) <= n + 1
      <4>1. Len(r) <= n
        BY <2>1
      <4> QED  BY <3>1, <3>2, <4>1
    <3> QED  BY <2>2, <2>4, <2>1, <2>6, <3>1, <3>3, <3>4, <3>5 DEF t
  <2> QED  BY <2>5, <2>6
<1>5. Good(f[N], N)
  <2>1. N \in R
    <3> HIDE DEF R
    <3> QED  BY <1>2, <1>3, <1>4, SetInduction
  <2> HIDE DEF Good
  <2> QED  BY <1>2, <2>1
<1> DEFINE r == f[N]
<1>6. \A x : x \in ToSet(s) <=> \E i \in 1 .. N : x = s[i]
  BY <1>2 DEF ToSet
<1>7. Good(r, N)
  BY <1>5
<1> HIDE DEF r
<1>8. ASSUME \A x \in ToSet(s) : x \in S PROVE r = s
  <2>1. r \in Seq(T) /\ Len(r) = N /\ \A i \in 1 .. N : r[i] = s[i]
    BY <1>7, <1>8
  <2> QED  BY <1>2, <2>1, SeqEqual DEF N
<1>9. ASSUME \A x \in ToSet(s) : x \notin S PROVE r = <<>>
  <2>1. r \in Seq(T) /\ ToSet(r) = {}
    BY <1>6, <1>7, <1>9
  <2>2. Len(r) \in Nat /\ DOMAIN r = 1 .. Len(r)
    BY <2>1, LenProperties
  <2>3. Len(r) = 0
    <3> SUFFICES ASSUME Len(r) # 0 PROVE FALSE
      OBVIOUS
    <3>1. 1 \in DOMAIN r
      BY <2>2
    <3> QED  BY <2>1, <3>1 DEF ToSet
  <2> QED  BY <2>1, <2>3, EmptySeq
<1>10. Among(s, S) = r
  BY <1>1 DEF r
<1> QED  BY <1>6, <1>7, <1>8, <1>9, <1>10 DEF N

\* Filtering a sequence that got longer.
LEMMA AmongAppend ==
    ASSUME NEW T, NEW s \in Seq(T), NEW x \in T, NEW S
    PROVE  Among(Append(s, x), S) = IF x \in S THEN Append(Among(s, S), x) ELSE Among(s, S)
<1> DEFINE t == Append(s, x)
           N == Len(s)
<1>1. /\ t \in Seq(T) /\ Len(t) = N + 1 /\ t[N + 1] = x /\ N \in Nat
      /\ \A i \in 1 .. N : t[i] = s[i]
  BY AppendProperties, LenProperties
<1>2. PICK f : /\ Among(s, S) = f[N] /\ f[0] = <<>>
               /\ \A n \in 1 .. N : f[n] = IF s[n] \in S THEN Append(f[n - 1], s[n]) ELSE f[n - 1]
  BY AmongUnfolds
<1> HIDE DEF t
<1>3. PICK g : /\ Among(t, S) = g[Len(t)] /\ g[0] = <<>>
               /\ \A n \in 1 .. Len(t) : g[n] = IF t[n] \in S THEN Append(g[n - 1], t[n]) ELSE g[n - 1]
  BY <1>1, AmongUnfolds
<1> HIDE DEF N
<1> DEFINE R == {n \in Nat : n <= N => f[n] = g[n]}
<1>4. 0 \in R
  BY <1>2, <1>3
<1>5. ASSUME NEW n \in Nat, n \in R PROVE n + 1 \in R
  <2> SUFFICES ASSUME n + 1 <= N PROVE f[n + 1] = g[n + 1]
    OBVIOUS
  <2>1. /\ n + 1 \in 1 .. N /\ n + 1 \in 1 .. Len(t) /\ (n + 1) - 1 = n
        /\ t[n + 1] = s[n + 1] /\ f[n] = g[n]
    BY <1>1, <1>5
  <2> QED  BY <1>2, <1>3, <2>1
<1>6. f[N] = g[N]
  <2>1. N \in R
    <3> HIDE DEF R
    <3> QED  BY <1>1, <1>4, <1>5, SetInduction
  <2> QED  BY <1>1, <2>1
<1>7. g[N + 1] = IF x \in S THEN Append(g[N], x) ELSE g[N]
  <2>1. N + 1 \in 1 .. Len(t) /\ (N + 1) - 1 = N
    BY <1>1
  <2> QED  BY <1>1, <1>3, <2>1
<1> QED  BY <1>1, <1>2, <1>3, <1>6, <1>7 DEF t

\* Filtering two sequences one behind the other.
LEMMA AmongConcat ==
    ASSUME NEW T, NEW a \in Seq(T), NEW b \in Seq(T), NEW S
    PROVE  Among(a \o b, S) = Among(a, S) \o Among(b, S)
<1> DEFINE B(n) == SubSeq(b, 1, n)
           R == {n \in Nat : n <= Len(b) => Among(a \o B(n), S) = Among(a, S) \o Among(B(n), S)}
<1>0. Len(b) \in Nat /\ Among(a, S) \in Seq(T)
  BY LenProperties, AmongElements
<1>1. 0 \in R
  <2>1. B(0) = <<>> /\ <<>> \in Seq(T)
    OBVIOUS
  <2>2. a \o <<>> = a /\ Among(a, S) \o <<>> = Among(a, S)
    BY <1>0, ConcatEmptySeq
  <2>3. Among(<<>>, S) = <<>>
    <3>1. \A x \in ToSet(<<>>) : x \notin S
      BY DEF ToSet
    <3> QED  BY <2>1, <3>1, AmongElements
  <2> HIDE DEF B
  <2> QED  BY <2>1, <2>2, <2>3
<1>2. ASSUME NEW n \in Nat, n \in R PROVE n + 1 \in R
  <2> SUFFICES ASSUME n + 1 <= Len(b)
               PROVE  Among(a \o B(n + 1), S) = Among(a, S) \o Among(B(n + 1), S)
    OBVIOUS
  <2> DEFINE x == b[n + 1]
  <2>1. x \in T /\ B(n) \in Seq(T)
    BY <1>0, SplitAt, ElementOfSeq
  <2>2. B(n + 1) = Append(B(n), x)
    <3>1. /\ B(n + 1) \in Seq(T) /\ Len(B(n + 1)) = n + 1 /\ Len(B(n)) = n
          /\ \A i \in 1 .. n + 1 : B(n + 1)[i] = b[i]
          /\ \A i \in 1 .. n : B(n)[i] = b[i]
      BY <1>0, SplitAt
    <3> HIDE DEF B
    <3>2. /\ Append(B(n), x) \in Seq(T) /\ Len(Append(B(n), x)) = n + 1
          /\ Append(B(n), x)[n + 1] = x /\ \A i \in 1 .. n : Append(B(n), x)[i] = b[i]
      BY <2>1, <3>1, AppendProperties
    <3>3. \A i \in 1 .. n + 1 : B(n + 1)[i] = Append(B(n), x)[i]
      <4> TAKE i \in 1 .. n + 1
      <4>1. i \in 1 .. n \/ i = n + 1
        OBVIOUS
      <4> QED  BY <3>1, <3>2, <4>1
    <3> QED  BY <3>1, <3>2, <3>3, SeqEqual
  <2>3. Among(a \o B(n), S) = Among(a, S) \o Among(B(n), S)
    BY <1>2, <1>0
  <2> HIDE DEF B, x
  <2>4. a \o B(n) \in Seq(T) /\ Among(B(n), S) \in Seq(T)
    BY <2>1, ConcatProperties, AmongElements
  <2>5. a \o Append(B(n), x) = Append(a \o B(n), x)
    BY <2>1, AppendToConcat
  <2>6. /\ Among(Append(B(n), x), S) = IF x \in S THEN Append(Among(B(n), S), x) ELSE Among(B(n), S)
        /\ Among(Append(a \o B(n), x), S)
             = IF x \in S THEN Append(Among(a \o B(n), S), x) ELSE Among(a \o B(n), S)
    BY <2>1, <2>4, AmongAppend
  <2>7. Among(a, S) \o Append(Among(B(n), S), x) = Append(Among(a, S) \o Among(B(n), S), x)
    BY <1>0, <2>1, <2>4, AppendToConcat
  <2> QED  BY <2>2, <2>3, <2>5, <2>6, <2>7
<1>3. Len(b) \in R
  <2> HIDE DEF R
  <2> QED  BY <1>0, <1>1, <1>2, SetInduction
<1>4. B(Len(b)) = b
  BY SubSeqFull
<1> HIDE DEF B
<1> QED  BY <1>0, <1>3, <1>4

\* What a filter does depends on the elements it is asked about only.
LEMMA AmongAgree ==
    ASSUME NEW T, NEW s \in Seq(T), NEW S, NEW R, \A x \in ToSet(s) : x \in S <=> x \in R
    PROVE  Among(s, S) = Among(s, R)
<1> DEFINE N == Len(s)
<1>0. N \in Nat /\ \A n \in 1 .. N : s[n] \in ToSet(s)
  BY LenProperties DEF ToSet
<1>1. PICK f : /\ Among(s, S) = f[N] /\ f[0] = <<>>
               /\ \A n \in 1 .. N : f[n] = IF s[n] \in S THEN Append(f[n - 1], s[n]) ELSE f[n - 1]
  BY AmongUnfolds
<1>2. PICK g : /\ Among(s, R) = g[N] /\ g[0] = <<>>
               /\ \A n \in 1 .. N : g[n] = IF s[n] \in R THEN Append(g[n - 1], s[n]) ELSE g[n - 1]
  BY AmongUnfolds
<1> HIDE DEF N
<1> DEFINE E == {n \in Nat : n <= N => f[n] = g[n]}
<1>3. 0 \in E
  BY <1>1, <1>2
<1>4. ASSUME NEW n \in Nat, n \in E PROVE n + 1 \in E
  <2> SUFFICES ASSUME n + 1 <= N PROVE f[n + 1] = g[n + 1]
    OBVIOUS
  <2>1. n + 1 \in 1 .. N /\ (n + 1) - 1 = n /\ f[n] = g[n]
    BY <1>0, <1>4
  <2>2. s[n + 1] \in S <=> s[n + 1] \in R
    BY <1>0, <2>1
  <2> QED  BY <1>1, <1>2, <2>1, <2>2
<1>5. N \in E
  <2> HIDE DEF E
  <2> QED  BY <1>0, <1>3, <1>4, SetInduction
<1> QED  BY <1>0, <1>1, <1>2, <1>5

\* Filtering nothing.
LEMMA NoneAmong == \A S : Among(<<>>, S) = <<>>
<1>1. <<>> \in Seq({}) /\ \A S : \A y \in ToSet(<<>>) : y \notin S
  BY DEF ToSet
<1> QED  BY <1>1, AmongElements

\* Filtering one element.
LEMMA AmongOne ==
    ASSUME NEW T, NEW x \in T, NEW S
    PROVE  /\ Among(<<>>, S) = <<>> /\ <<x>> \in Seq(T)
           /\ Among(<<x>>, S) = IF x \in S THEN <<x>> ELSE <<>>
<1>1. <<>> \in Seq(T)
  OBVIOUS
<1>2. Among(<<>>, S) = <<>>
  BY NoneAmong
<1>3. <<x>> \in Seq(T) /\ Append(<<>>, x) = <<x>>
  OBVIOUS
<1> QED  BY <1>1, <1>2, <1>3, AmongAppend, ZenonT(30)

\* Two filters that keep nothing in common keep no more than there is.
LEMMA AmongDisjoint ==
    ASSUME NEW T, NEW s \in Seq(T), NEW S, NEW R, \A x \in S : x \notin R
    PROVE  Len(Among(s, S)) + Len(Among(s, R)) <= Len(s)
<1> DEFINE N == Len(s)
<1>0. N \in Nat /\ \A n \in 1 .. N : s[n] \in T
  BY LenProperties, ElementOfSeq
<1>1. PICK f : /\ Among(s, S) = f[N] /\ f[0] = <<>>
               /\ \A n \in 1 .. N : f[n] = IF s[n] \in S THEN Append(f[n - 1], s[n]) ELSE f[n - 1]
  BY AmongUnfolds
<1>2. PICK g : /\ Among(s, R) = g[N] /\ g[0] = <<>>
               /\ \A n \in 1 .. N : g[n] = IF s[n] \in R THEN Append(g[n - 1], s[n]) ELSE g[n - 1]
  BY AmongUnfolds
<1> HIDE DEF N
<1> DEFINE Good(a, b, n) == a \in Seq(T) /\ b \in Seq(T) /\ Len(a) + Len(b) <= n
           E == {n \in Nat : n <= N => Good(f[n], g[n], n)}
<1>3. 0 \in E
  <2>1. Good(<<>>, <<>>, 0)
    OBVIOUS
  <2> HIDE DEF Good
  <2> QED  BY <1>1, <1>2, <2>1
<1>4. ASSUME NEW n \in Nat, n \in E PROVE n + 1 \in E
  <2> HIDE DEF Good
  <2> SUFFICES ASSUME n + 1 <= N PROVE Good(f[n + 1], g[n + 1], n + 1)
    OBVIOUS
  <2> DEFINE a == f[n]
             b == g[n]
             x == s[n + 1]
  <2>1. n + 1 \in 1 .. N /\ (n + 1) - 1 = n /\ Good(a, b, n)
    BY <1>0, <1>4
  <2>2. /\ f[n + 1] = IF x \in S THEN Append(a, x) ELSE a
        /\ g[n + 1] = IF x \in R THEN Append(b, x) ELSE b
        /\ x \in T
    BY <1>0, <1>1, <1>2, <2>1
  <2>3. ~(x \in S /\ x \in R)
    OBVIOUS
  <2> HIDE DEF a, b, x
  <2>4. /\ Append(a, x) \in Seq(T) /\ Len(Append(a, x)) = Len(a) + 1
        /\ Append(b, x) \in Seq(T) /\ Len(Append(b, x)) = Len(b) + 1
        /\ Len(a) \in Nat /\ Len(b) \in Nat
    BY <2>1, <2>2, AppendProperties, LenProperties DEF Good
  <2>5. CASE x \in S
    <3>1. f[n + 1] = Append(a, x) /\ g[n + 1] = b
      BY <2>2, <2>3, <2>5
    <3>2. Len(Append(a, x)) + Len(b) <= n + 1
      BY <2>1, <2>4 DEF Good
    <3> QED  BY <2>1, <2>4, <3>1, <3>2 DEF Good
  <2>6. CASE x \notin S
    BY <2>1, <2>2, <2>3, <2>4, <2>6 DEF Good
  <2> QED  BY <2>5, <2>6
<1>5. N \in E
  <2> HIDE DEF E
  <2> QED  BY <1>0, <1>3, <1>4, SetInduction
<1>6. Good(f[N], g[N], N)
  <2> HIDE DEF Good
  <2> QED  BY <1>0, <1>5
<1> QED  BY <1>1, <1>2, <1>6 DEF N

\* Removing the first e: the elements before it and those behind it.
LEMMA RemoveFirstCuts ==
    ASSUME NEW T, NEW s \in Seq(T), NEW e \in ToSet(s)
    PROVE  \E i \in 1 .. Len(s) :
             /\ s[i] = e
             /\ RemoveFirst(s, e) = SubSeq(s, 1, i - 1) \o SubSeq(s, i + 1, Len(s))
<1> DEFINE I == {i \in 1 .. Len(s) : s[i] = e}
<1>0. Len(s) \in Nat /\ DOMAIN s = 1 .. Len(s)
  BY LenProperties
<1>1. I # {} /\ I \subseteq Nat
  BY <1>0 DEF ToSet
<1>2. \E m \in I : \A k \in I : m <= k
  <2>1. PICK m \in I : \A k \in I : <<k, m>> \notin OpToRel(<, Nat)
    <3> HIDE DEF I
    <3> QED  BY <1>1, NatLessThanWellFounded, WFMin
  <2>2. ASSUME NEW k \in I, k < m PROVE FALSE
    <3>1. k \in Nat /\ m \in Nat
      BY <1>1, <2>1
    <3>2. k \notin I
      BY <2>1, <2>2, <3>1, Zenon DEF OpToRel
    <3> QED  BY <3>2
  <2>3. \A k \in I : k \in Nat /\ m \in Nat
    BY <1>1, <2>1
  <2> HIDE DEF I
  <2>4. \A k \in I : m <= k
    BY <2>2, <2>3
  <2> QED  BY <2>4
<1>3. Min(I) \in I
  <2> HIDE DEF I
  <2> QED  BY <1>2 DEF Min
<1>4. RemoveFirst(s, e) = RemoveAt(s, Min(I))
  BY <1>1 DEF RemoveFirst, SelectInSeq
<1> QED  BY <1>3, <1>4 DEF RemoveAt

-----------------------------------------------------------------------------
(* Sums.                                                                   *)

\* How a sum is built, number by number.
LEMMA TotalUnfolds ==
    ASSUME NEW s, Len(s) \in Nat
    PROVE  \E f : /\ Total(s) = f[Len(s)] /\ f[0] = 0
                  /\ \A i \in 1 .. Len(s) : f[i] = f[i - 1] + s[i]
<1> DEFINE N == Len(s)
           Step(x, i) == x + s[i]
           Unfolds(g) == g = [i \in 0 .. N |-> IF i = 0 THEN 0 ELSE Step(g[i - 1], i)]
           Grows(g, k) == g[0] = 0 /\ \A i \in 1 .. k : g[i] = Step(g[i - 1], i)
           f == CHOOSE g : Unfolds(g)
<1>0. N \in Nat
  OBVIOUS
<1>1. Total(s) = f[N]
  BY DEF Total
<1>2. \E g : Unfolds(g)
  <2> DEFINE Built(k) == \E g : g = [i \in 0 .. k |-> g[i]] /\ Grows(g, k)
             R == {k \in Nat : Built(k)}
  <2>1. 0 \in R
    <3> DEFINE g == [i \in 0 .. 0 |-> 0]
    <3>1. g = [i \in 0 .. 0 |-> g[i]] /\ Grows(g, 0)
      OBVIOUS
    <3> QED  BY <3>1
  <2>2. ASSUME NEW k \in Nat, k \in R PROVE k + 1 \in R
    <3> SUFFICES Built(k + 1)
      <4> HIDE DEF Built
      <4> QED  BY <2>2
    <3>1. PICK h : h = [i \in 0 .. k |-> h[i]] /\ Grows(h, k)
      BY <2>2
    <3> DEFINE g == [i \in 0 .. k + 1 |-> IF i = k + 1 THEN Step(h[k], k + 1) ELSE h[i]]
    <3> HIDE DEF Step
    <3>2. (\A i \in 0 .. k : g[i] = h[i]) /\ g[k + 1] = Step(h[k], k + 1)
      OBVIOUS
    <3>3. g = [i \in 0 .. k + 1 |-> g[i]]
      OBVIOUS
    <3> HIDE DEF g
    <3>4. g[0] = 0
      BY <3>1, <3>2
    <3>5. ASSUME NEW i \in 1 .. k + 1 PROVE g[i] = Step(g[i - 1], i)
      <4>1. CASE i = k + 1
        <5>1. i - 1 = k /\ k \in 0 .. k
          BY <4>1
        <5> QED  BY <3>2, <4>1, <5>1
      <4>2. CASE i \in 1 .. k
        <5>1. i - 1 \in 0 .. k /\ i \in 0 .. k
          BY <4>2
        <5> QED  BY <3>1, <3>2, <4>2, <5>1
      <4> QED  BY <4>1, <4>2
    <3> QED  BY <3>3, <3>4, <3>5
  <2>3. N \in R
    <3> HIDE DEF R
    <3> QED  BY <2>1, <2>2, <1>0, SetInduction
  <2>4. PICK g : g = [i \in 0 .. N |-> g[i]] /\ Grows(g, N)
    BY <2>3
  <2> HIDE DEF Step, N
  <2>5. ASSUME NEW i \in 0 .. N PROVE g[i] = IF i = 0 THEN 0 ELSE Step(g[i - 1], i)
    <3>1. CASE i = 0
      BY <2>4, <3>1
    <3>2. CASE i # 0
      <4>1. i \in 1 .. N
        BY <1>0, <3>2
      <4> QED  BY <2>4, <3>2, <4>1
    <3> QED  BY <3>1, <3>2
  <2> QED  BY <2>4, <2>5
<1>3. Unfolds(f)
  <2> HIDE DEF Unfolds
  <2> QED  BY <1>2
<1>4. f[0] = 0 /\ \A i \in 1 .. N : f[i] = Step(f[i - 1], i)
  <2> HIDE DEF f, Step
  <2> QED  BY <1>3, <1>0
<1> HIDE DEF f
<1> QED  BY ONLY <1>1, <1>4

\* The sum of a list that got longer, of none and of one.
LEMMA TotalAppend ==
    ASSUME NEW s \in Seq(Nat)
    PROVE  /\ Total(s) \in Nat /\ Total(<<>>) = 0
           /\ \A x \in Nat : Total(<<x>>) = x /\ Total(Append(s, x)) = Total(s) + x
<1>1. ASSUME NEW t \in Seq(Nat) PROVE Total(t) \in Nat
  <2>0. Len(t) \in Nat /\ \A i \in 1 .. Len(t) : t[i] \in Nat
    OBVIOUS
  <2>1. PICK f : Total(t) = f[Len(t)] /\ f[0] = 0 /\ \A i \in 1 .. Len(t) : f[i] = f[i - 1] + t[i]
    BY ONLY <2>0, TotalUnfolds
  <2> DEFINE R == {k \in Nat : k <= Len(t) => f[k] \in Nat}
  <2>2. 0 \in R
    BY <2>1
  <2>3. ASSUME NEW k \in Nat, k \in R PROVE k + 1 \in R
    <3> SUFFICES ASSUME k + 1 <= Len(t) PROVE f[k + 1] \in Nat
      OBVIOUS
    <3>1. k + 1 \in 1 .. Len(t) /\ (k + 1) - 1 = k /\ f[k] \in Nat
      BY <2>0, <2>3
    <3> QED  BY <2>0, <2>1, <3>1
  <2>4. Len(t) \in R
    <3> HIDE DEF R
    <3> QED  BY <2>0, <2>2, <2>3, SetInduction
  <2> QED  BY <2>0, <2>1, <2>4
<1>2. Total(<<>>) = 0
  <2>1. Len(<<>>) = 0
    OBVIOUS
  <2>2. PICK f : Total(<<>>) = f[Len(<<>>)] /\ f[0] = 0
    BY ONLY <2>1, TotalUnfolds
  <2> QED  BY <2>1, <2>2
<1>3. ASSUME NEW t \in Seq(Nat), NEW x \in Nat PROVE Total(Append(t, x)) = Total(t) + x
  <2> DEFINE u == Append(t, x)
             N == Len(t)
  <2>0. /\ N \in Nat /\ Len(u) = N + 1 /\ u[N + 1] = x
        /\ \A i \in 1 .. N : u[i] = t[i] /\ t[i] \in Nat
    OBVIOUS
  <2> HIDE DEF u, N
  <2>1. PICK f : Total(t) = f[N] /\ f[0] = 0 /\ \A i \in 1 .. N : f[i] = f[i - 1] + t[i]
    BY <2>0, TotalUnfolds DEF N
  <2>2. PICK g : Total(u) = g[N + 1] /\ g[0] = 0 /\ \A i \in 1 .. N + 1 : g[i] = g[i - 1] + u[i]
    <3>1. Len(u) \in Nat
      BY <2>0
    <3>2. PICK g : /\ Total(u) = g[Len(u)] /\ g[0] = 0
                   /\ \A i \in 1 .. Len(u) : g[i] = g[i - 1] + u[i]
      BY ONLY <3>1, TotalUnfolds
    <3> QED  BY <2>0, <3>2
  <2> DEFINE R == {k \in Nat : k <= N => f[k] = g[k]}
  <2>3. 0 \in R
    BY <2>1, <2>2
  <2>4. ASSUME NEW k \in Nat, k \in R PROVE k + 1 \in R
    <3> SUFFICES ASSUME k + 1 <= N PROVE f[k + 1] = g[k + 1]
      OBVIOUS
    <3>1. k + 1 \in 1 .. N /\ k + 1 \in 1 .. N + 1 /\ (k + 1) - 1 = k /\ f[k] = g[k]
      BY <2>0, <2>4
    <3> QED  BY <2>0, <2>1, <2>2, <3>1
  <2>5. N \in R
    <3> HIDE DEF R
    <3> QED  BY <2>0, <2>3, <2>4, SetInduction
  <2>6. N + 1 \in 1 .. N + 1 /\ (N + 1) - 1 = N /\ f[N] = g[N]
    BY <2>0, <2>5
  <2> QED  BY <2>0, <2>1, <2>2, <2>6 DEF u
<1>4. ASSUME NEW x \in Nat PROVE Total(<<x>>) = x
  <2>1. <<>> \in Seq(Nat) /\ Append(<<>>, x) = <<x>>
    OBVIOUS
  <2>2. Total(Append(<<>>, x)) = Total(<<>>) + x
    BY <1>3, <2>1
  <2> QED  BY <1>2, <2>1, <2>2
<1> QED  BY <1>1, <1>2, <1>3, <1>4

\* The sum of two lists one behind the other.
LEMMA TotalConcat ==
    ASSUME NEW a \in Seq(Nat), NEW b \in Seq(Nat)
    PROVE  Total(a \o b) = Total(a) + Total(b)
<1> DEFINE R == {n \in Nat : \A c \in Seq(Nat) : Len(c) = n => Total(a \o c) = Total(a) + Total(c)}
<1>1. 0 \in R
  <2> SUFFICES ASSUME NEW c \in Seq(Nat), Len(c) = 0 PROVE Total(a \o c) = Total(a) + Total(c)
    OBVIOUS
  <2>1. c = <<>> /\ a \o c = a
    OBVIOUS
  <2>2. Total(a) \in Nat /\ Total(<<>>) = 0
    BY TotalAppend
  <2> QED  BY <2>1, <2>2
<1>2. ASSUME NEW n \in Nat, n \in R PROVE n + 1 \in R
  <2> SUFFICES ASSUME NEW c \in Seq(Nat), Len(c) = n + 1 PROVE Total(a \o c) = Total(a) + Total(c)
    OBVIOUS
  <2> DEFINE d == SubSeq(c, 1, n)
             x == c[n + 1]
  <2>1. d \in Seq(Nat) /\ Len(d) = n /\ x \in Nat /\ c = Append(d, x)
    OBVIOUS
  <2> HIDE DEF d, x
  <2>2. a \o c = Append(a \o d, x) /\ a \o d \in Seq(Nat)
    BY <2>1, AppendToConcat
  <2>3. Total(a \o d) = Total(a) + Total(d)
    BY <1>2, <2>1
  <2>4. /\ Total(a) \in Nat /\ Total(d) \in Nat
        /\ Total(a \o c) = Total(a \o d) + x /\ Total(c) = Total(d) + x
    BY <2>1, <2>2, TotalAppend
  <2> QED  BY <2>1, <2>3, <2>4
<1>3. Nat \subseteq R
  <2> HIDE DEF R
  <2> QED  BY <1>1, <1>2, SetInduction
<1> QED  BY <1>3


\* The sum of the weights of the elements.
Weigh(s, w) == Total([i \in DOMAIN s |-> w[s[i]]])

\* The weights of the elements of a sequence, as a sequence of numbers.
LEMMA WeightsOf ==
    ASSUME NEW G, NEW s \in Seq(G), NEW w \in [G -> Nat]
    PROVE  LET t == [i \in DOMAIN s |-> w[s[i]]]
           IN  /\ t \in Seq(Nat) /\ Len(t) = Len(s) /\ DOMAIN t = 1 .. Len(s)
               /\ \A i \in 1 .. Len(s) : t[i] = w[s[i]]
<1> DEFINE t == [i \in DOMAIN s |-> w[s[i]]]
<1>1. Len(s) \in Nat /\ DOMAIN s = 1 .. Len(s) /\ \A i \in 1 .. Len(s) : s[i] \in G
  OBVIOUS
<1>2. DOMAIN t = 1 .. Len(s) /\ t \in [1 .. Len(s) -> Nat]
  BY <1>1
<1>3. t \in Seq(Nat) /\ Len(t) = Len(s)
  BY <1>1, <1>2
<1> QED  BY <1>1, <1>2, <1>3

\* Weights are numbers, and add up when sequences are joined.
LEMMA WeighBasics ==
    ASSUME NEW G, NEW s \in Seq(G), NEW w \in [G -> Nat]
    PROVE  /\ Weigh(s, w) \in Nat /\ Weigh(<<>>, w) = 0
           /\ \A x \in G : Weigh(<<x>>, w) = w[x] /\ Weigh(Append(s, x), w) = Weigh(s, w) + w[x]
           /\ \A t \in Seq(G) : Weigh(s \o t, w) = Weigh(s, w) + Weigh(t, w)
<1> DEFINE W(u) == [i \in DOMAIN u |-> w[u[i]]]
<1>1. ASSUME NEW u \in Seq(G)
      PROVE  /\ W(u) \in Seq(Nat) /\ Len(W(u)) = Len(u) /\ DOMAIN W(u) = 1 .. Len(u)
             /\ \A i \in 1 .. Len(u) : W(u)[i] = w[u[i]]
  BY WeightsOf
<1>2. \A u : Weigh(u, w) = Total(W(u))
  BY DEF Weigh
<1> HIDE DEF W
<1>3. Weigh(s, w) \in Nat
  BY <1>1, <1>2, TotalAppend
<1>4. Weigh(<<>>, w) = 0
  <2>1. <<>> \in Seq(G) /\ Len(<<>>) = 0
    OBVIOUS
  <2>2. W(<<>>) \in Seq(Nat) /\ Len(W(<<>>)) = 0
    BY <1>1, <2>1
  <2>3. \A u \in Seq(Nat) : Len(u) = 0 => u = <<>>
    OBVIOUS
  <2>4. W(<<>>) = <<>>
    BY <2>2, <2>3
  <2>5. <<>> \in Seq(Nat)
    OBVIOUS
  <2>6. Total(<<>>) = 0
    BY <2>5, TotalAppend
  <2> QED  BY <1>2, <2>4, <2>6
<1>5. ASSUME NEW x \in G, NEW u \in Seq(G) PROVE Weigh(Append(u, x), w) = Weigh(u, w) + w[x]
  <2>1. /\ Append(u, x) \in Seq(G) /\ Len(Append(u, x)) = Len(u) + 1 /\ Len(u) \in Nat
        /\ \A i \in 1 .. Len(u) : Append(u, x)[i] = u[i]
        /\ Append(u, x)[Len(u) + 1] = x /\ w[x] \in Nat
    OBVIOUS
  <2>2. W(Append(u, x)) = Append(W(u), w[x])
    <3> DEFINE a == W(Append(u, x))
               b == Append(W(u), w[x])
    <3>1. /\ a \in Seq(Nat) /\ Len(a) = Len(u) + 1
          /\ \A i \in 1 .. Len(u) + 1 : a[i] = w[Append(u, x)[i]]
      BY <1>1, <2>1
    <3>2. /\ b \in Seq(Nat) /\ Len(b) = Len(u) + 1 /\ b[Len(u) + 1] = w[x]
          /\ \A i \in 1 .. Len(u) : b[i] = w[u[i]]
      BY <1>1, <2>1
    <3> HIDE DEF a, b
    <3>3. ASSUME NEW i \in 1 .. Len(u) + 1 PROVE a[i] = b[i]
      <4>1. CASE i \in 1 .. Len(u)
        BY <2>1, <3>1, <3>2, <4>1
      <4>2. CASE i = Len(u) + 1
        BY <2>1, <3>1, <3>2, <4>2
      <4> QED  BY <2>1, <4>1, <4>2
    <3>4. a = b
      BY <3>1, <3>2, <3>3, SeqEqual
    <3> QED  BY <3>4 DEF a, b
  <2>3. W(u) \in Seq(Nat) /\ w[x] \in Nat
    BY <1>1, <2>1
  <2>4. Total(Append(W(u), w[x])) = Total(W(u)) + w[x]
    BY ONLY <2>3, TotalAppend
  <2> QED  BY <1>2, <2>2, <2>4
<1>6. ASSUME NEW x \in G PROVE Weigh(<<x>>, w) = w[x]
  <2>1. <<>> \in Seq(G) /\ Append(<<>>, x) = <<x>> /\ w[x] \in Nat
    OBVIOUS
  <2>2. Weigh(Append(<<>>, x), w) = Weigh(<<>>, w) + w[x]
    BY <1>5, <2>1
  <2> QED  BY <1>4, <2>1, <2>2
<1>7. ASSUME NEW t \in Seq(G) PROVE Weigh(s \o t, w) = Weigh(s, w) + Weigh(t, w)
  <2>1. /\ s \o t \in Seq(G) /\ Len(s \o t) = Len(s) + Len(t) /\ Len(s) \in Nat /\ Len(t) \in Nat
        /\ \A i \in 1 .. Len(s) + Len(t) : (s \o t)[i] = IF i <= Len(s) THEN s[i] ELSE t[i - Len(s)]
    OBVIOUS
  <2>2. W(s \o t) = W(s) \o W(t)
    <3> DEFINE a == W(s \o t)
               b == W(s) \o W(t)
    <3>1. /\ a \in Seq(Nat) /\ Len(a) = Len(s) + Len(t)
          /\ \A i \in 1 .. Len(s) + Len(t) : a[i] = w[(s \o t)[i]]
      BY <1>1, <2>1
    <3>3. /\ W(s) \in Seq(Nat) /\ Len(W(s)) = Len(s) /\ \A i \in 1 .. Len(s) : W(s)[i] = w[s[i]]
          /\ W(t) \in Seq(Nat) /\ Len(W(t)) = Len(t) /\ \A i \in 1 .. Len(t) : W(t)[i] = w[t[i]]
      BY <1>1
    <3>c. \A c, d \in Seq(Nat) :
            /\ c \o d \in Seq(Nat) /\ Len(c \o d) = Len(c) + Len(d)
            /\ \A i \in 1 .. Len(c) + Len(d) : (c \o d)[i] = IF i <= Len(c) THEN c[i] ELSE d[i - Len(c)]
      OBVIOUS
    <3>2. /\ b \in Seq(Nat) /\ Len(b) = Len(s) + Len(t)
          /\ \A i \in 1 .. Len(s) + Len(t) : b[i] = IF i <= Len(s) THEN W(s)[i] ELSE W(t)[i - Len(s)]
      <4>1. /\ b \in Seq(Nat) /\ Len(b) = Len(W(s)) + Len(W(t))
            /\ \A i \in 1 .. Len(W(s)) + Len(W(t)) :
                 b[i] = IF i <= Len(W(s)) THEN W(s)[i] ELSE W(t)[i - Len(W(s))]
        BY ONLY <3>3, <3>c
      <4> HIDE DEF b
      <4> QED  BY <3>3, <4>1
    <3> HIDE DEF a, b
    <3>4. ASSUME NEW i \in 1 .. Len(s) + Len(t) PROVE a[i] = b[i]
      <4>1. CASE i <= Len(s)
        <5>1. i \in 1 .. Len(s)
          BY <2>1, <4>1
        <5>2. a[i] = w[s[i]]
          BY <2>1, <3>1, <4>1
        <5>3. b[i] = W(s)[i] /\ W(s)[i] = w[s[i]]
          BY <3>2, <3>3, <4>1, <5>1
        <5> QED  BY <5>2, <5>3
      <4>2. CASE ~(i <= Len(s))
        <5>1. i - Len(s) \in 1 .. Len(t)
          BY <2>1, <4>2
        <5>2. a[i] = w[t[i - Len(s)]]
          BY <2>1, <3>1, <4>2
        <5>3. b[i] = W(t)[i - Len(s)]
          BY <3>2, <4>2
        <5>4. W(t)[i - Len(s)] = w[t[i - Len(s)]]
          BY <3>3, <5>1
        <5> QED  BY <5>2, <5>3, <5>4
      <4> QED  BY <4>1, <4>2
    <3>5. a = b
      BY <3>1, <3>2, <3>4, SeqEqual
    <3> QED  BY <3>5 DEF a, b
  <2> QED  BY <1>1, <1>2, <2>2, TotalConcat
<1> QED  BY <1>3, <1>4, <1>5, <1>6, <1>7

\* The last element adds its weight.
LEMMA WeighAppend ==
    ASSUME NEW G, NEW s \in Seq(G), NEW w \in [G -> Nat], NEW x \in G
    PROVE  /\ Weigh(s, w) \in Nat /\ w[x] \in Nat
           /\ Weigh(Append(s, x), w) = Weigh(s, w) + w[x]
<1>1. /\ Weigh(s, w) \in Nat
      /\ \A y \in G : Weigh(Append(s, y), w) = Weigh(s, w) + w[y]
  BY ONLY s \in Seq(G), w \in [G -> Nat], WeighBasics, ZenonT(30)
<1> QED  BY <1>1

\* The weight of what two filters keep that share the elements between them.
LEMMA WeighSplit ==
    ASSUME NEW G, NEW s \in Seq(G), NEW w \in [G -> Nat], NEW S, NEW R,
           \A x \in G : x \in S <=> x \notin R
    PROVE  Weigh(s, w) = Weigh(Among(s, S), w) + Weigh(Among(s, R), w)
<1> DEFINE Q == {n \in Nat : \A c \in Seq(G) : Len(c) = n =>
                   Weigh(c, w) = Weigh(Among(c, S), w) + Weigh(Among(c, R), w)}
<1>1. 0 \in Q
  <2> SUFFICES ASSUME NEW c \in Seq(G), Len(c) = 0
               PROVE  Weigh(c, w) = Weigh(Among(c, S), w) + Weigh(Among(c, R), w)
    OBVIOUS
  <2>1. c = <<>>
    OBVIOUS
  <2> QED  BY <2>1, WeighBasics, NoneAmong
<1>2. ASSUME NEW n \in Nat, n \in Q PROVE n + 1 \in Q
  <2> SUFFICES ASSUME NEW c \in Seq(G), Len(c) = n + 1
               PROVE  Weigh(c, w) = Weigh(Among(c, S), w) + Weigh(Among(c, R), w)
    OBVIOUS
  <2> DEFINE d == SubSeq(c, 1, n)
             x == c[n + 1]
  <2>1. d \in Seq(G) /\ Len(d) = n /\ x \in G /\ c = Append(d, x)
    OBVIOUS
  <2> HIDE DEF d, x
  <2>2. /\ Weigh(d, w) = Weigh(Among(d, S), w) + Weigh(Among(d, R), w)
        /\ Among(d, S) \in Seq(G) /\ Among(d, R) \in Seq(G)
    BY <1>2, <2>1, AmongElements
  <2>3. /\ Among(c, S) = IF x \in S THEN Append(Among(d, S), x) ELSE Among(d, S)
        /\ Among(c, R) = IF x \in R THEN Append(Among(d, R), x) ELSE Among(d, R)
    BY <2>1, AmongAppend
  <2>4. /\ Weigh(c, w) = Weigh(d, w) + w[x] /\ w[x] \in Nat
        /\ Weigh(Append(Among(d, S), x), w) = Weigh(Among(d, S), w) + w[x]
        /\ Weigh(Append(Among(d, R), x), w) = Weigh(Among(d, R), w) + w[x]
        /\ Weigh(Among(d, S), w) \in Nat /\ Weigh(Among(d, R), w) \in Nat
    <3>1. ASSUME NEW u \in Seq(G)
          PROVE  Weigh(u, w) \in Nat /\ Weigh(Append(u, x), w) = Weigh(u, w) + w[x]
      <4>1. x \in G
        BY <2>1
      <4>2. /\ Weigh(u, w) \in Nat
            /\ \A y \in G : Weigh(Append(u, y), w) = Weigh(u, w) + w[y]
        BY ONLY u \in Seq(G), w \in [G -> Nat], WeighBasics, ZenonT(30)
      <4> QED  BY ONLY <4>1, <4>2
    <3>2. w[x] \in Nat
      BY <2>1
    <3> QED  BY <2>1, <2>2, <3>1, <3>2
  <2> QED  BY <2>1, <2>2, <2>3, <2>4
<1>3. Nat \subseteq Q
  <2> HIDE DEF Q
  <2> QED  BY <1>1, <1>2, SetInduction
<1> QED  BY <1>3

\* The weight of a sequence without its i-th element.
LEMMA WeighWithout ==
    ASSUME NEW G, NEW s \in Seq(G), NEW w \in [G -> Nat], NEW i \in 1 .. Len(s)
    PROVE  /\ RemoveAt(s, i) \in Seq(G) /\ s[i] \in G /\ w[s[i]] \in Nat
           /\ Weigh(s, w) = Weigh(RemoveAt(s, i), w) + w[s[i]]
<1> DEFINE a == SubSeq(s, 1, i - 1)
           b == SubSeq(s, i + 1, Len(s))
<1>1. /\ a \in Seq(G) /\ b \in Seq(G) /\ s[i] \in G /\ s = (a \o <<s[i]>>) \o b
      /\ a \o b \in Seq(G)
  BY CutOut
<1>2. RemoveAt(s, i) = a \o b
  BY DEF RemoveAt
<1> HIDE DEF a, b
<1>3. <<s[i]>> \in Seq(G) /\ a \o <<s[i]>> \in Seq(G)
  BY <1>1
<1>4. /\ Weigh((a \o <<s[i]>>) \o b, w) = Weigh(a \o <<s[i]>>, w) + Weigh(b, w)
      /\ Weigh(a \o <<s[i]>>, w) = Weigh(a, w) + Weigh(<<s[i]>>, w)
      /\ Weigh(<<s[i]>>, w) = w[s[i]]
      /\ Weigh(a \o b, w) = Weigh(a, w) + Weigh(b, w)
      /\ Weigh(a, w) \in Nat /\ Weigh(b, w) \in Nat /\ w[s[i]] \in Nat
  BY <1>1, <1>3, WeighBasics, ZenonT(30)
<1>5. Weigh(s, w) = Weigh(a \o b, w) + w[s[i]]
  <2>1. Weigh(s, w) = Weigh((a \o <<s[i]>>) \o b, w)
    BY <1>1
  <2> HIDE DEF Weigh
  <2> QED  BY <1>4, <2>1
<1> QED  BY <1>1, <1>2, <1>4, <1>5

-----------------------------------------------------------------------------
(* The ring buffer.                                                        *)

\* A ring whose slots hold elements of V.
Rings(cap, V) ==
    [capacity : {cap}, buffer : [0 .. cap - 1 -> V], head : 0 .. cap - 1, count : 0 .. cap]

\* The slot k places behind h.
Slot(cap, h, k) == (h + k) % cap

\* A slot number wraps around once at most.
LEMMA Wrap ==
    ASSUME NEW cap \in Nat \ {0}, NEW h \in 0 .. cap - 1, NEW k \in 0 .. cap
    PROVE  Slot(cap, h, k) = IF h + k < cap THEN h + k ELSE h + k - cap
<1>1. CASE h + k < cap
  BY <1>1 DEF Slot
<1>2. CASE h + k >= cap
  BY <1>2 DEF Slot
<1> QED  BY <1>1, <1>2

\* A slot number is one of the buffer's.
LEMMA SlotInBuffer ==
    ASSUME NEW cap \in Nat \ {0}, NEW h \in 0 .. cap - 1, NEW k \in 0 .. cap
    PROVE  Slot(cap, h, k) \in 0 .. cap - 1
BY Wrap

\* The new ring is empty.
LEMMA EmptyRing ==
    ASSUME NEW cap \in Nat \ {0}, NEW V, 0 \in V
    PROVE  NewRing(cap) \in Rings(cap, V) /\ RingArray(NewRing(cap)) = <<>>
BY DEF NewRing, Rings, RingArray

\* toArray() gives as many elements as were counted, from the head on.
LEMMA ArrayElements ==
    ASSUME NEW cap \in Nat \ {0}, NEW V, NEW ring \in Rings(cap, V)
    PROVE  /\ RingArray(ring) \in Seq(V) /\ Len(RingArray(ring)) = ring.count
           /\ ring.count \in 0 .. cap
           /\ \A i \in 1 .. ring.count : RingArray(ring)[i] = ring.buffer[Slot(cap, ring.head, i - 1)]
<1>1. /\ ring.head \in 0 .. cap - 1 /\ ring.count \in 0 .. cap
      /\ ring.buffer \in [0 .. cap - 1 -> V] /\ ring.capacity = cap
  BY DEF Rings
<1>2. RingArray(ring) = [i \in 1 .. ring.count |-> ring.buffer[(ring.head + i - 1) % cap]]
  BY <1>1 DEF RingArray
<1>3. ASSUME NEW i \in 1 .. ring.count
      PROVE  /\ RingArray(ring)[i] = ring.buffer[Slot(cap, ring.head, i - 1)]
             /\ RingArray(ring)[i] \in V
  <2>1. ring.head + i - 1 = ring.head + (i - 1) /\ i - 1 \in 0 .. cap
    BY <1>1
  <2>2. RingArray(ring)[i] = ring.buffer[Slot(cap, ring.head, i - 1)]
    BY <1>2, <2>1 DEF Slot
  <2>3. Slot(cap, ring.head, i - 1) \in 0 .. cap - 1
    BY <1>1, <2>1, SlotInBuffer
  <2> QED  BY <1>1, <2>2, <2>3
<1>4. RingArray(ring) \in [1 .. ring.count -> V]
  BY <1>2, <1>3
<1>5. RingArray(ring) \in Seq(V) /\ Len(RingArray(ring)) = ring.count
  <2>1. ring.count \in Nat
    BY <1>1
  <2> HIDE <1>2
  <2> QED  BY <1>4, <2>1
<1> QED  BY <1>1, <1>3, <1>5

\* push() fills the slot behind the newest element, or that of the oldest one.
LEMMA PushSlot ==
    ASSUME NEW cap \in Nat \ {0}, NEW V, NEW ring \in Rings(cap, V), NEW x \in V
    PROVE  /\ RingPush(ring, x).buffer = [ring.buffer EXCEPT ![Slot(cap, ring.head, ring.count)] = x]
           /\ RingPush(ring, x).count = IF ring.count < cap THEN ring.count + 1 ELSE ring.count
           /\ RingPush(ring, x).head = IF ring.count < cap THEN ring.head ELSE Slot(cap, ring.head, 1)
           /\ RingPush(ring, x) \in Rings(cap, V)
<1> DEFINE r == RingPush(ring, x)
           at == Slot(cap, ring.head, ring.count)
<1>1. /\ ring.head \in 0 .. cap - 1 /\ ring.count \in 0 .. cap
      /\ ring.buffer \in [0 .. cap - 1 -> V] /\ ring.capacity = cap
      /\ ring = [capacity |-> cap, buffer |-> ring.buffer, head |-> ring.head, count |-> ring.count]
  BY DEF Rings
<1>2. at \in 0 .. cap - 1 /\ Slot(cap, ring.head, 1) \in 0 .. cap - 1
  <2>1. 1 \in 0 .. cap
    OBVIOUS
  <2>2. at \in 0 .. cap - 1
    BY <1>1, SlotInBuffer
  <2>3. Slot(cap, ring.head, 1) \in 0 .. cap - 1
    BY <1>1, <2>1, SlotInBuffer
  <2> QED  BY <2>2, <2>3
<1>3. r.buffer = [ring.buffer EXCEPT ![at] = x]
  BY <1>1 DEF RingPush, Slot, Rings
<1>4. r.count = IF ring.count < cap THEN ring.count + 1 ELSE ring.count
  BY <1>1 DEF RingPush, Rings
<1>5. r.head = IF ring.count < cap THEN ring.head ELSE Slot(cap, ring.head, 1)
  BY <1>1 DEF RingPush, Rings, Slot
<1>6. r = [capacity |-> cap, buffer |-> r.buffer, head |-> r.head, count |-> r.count]
  BY <1>1 DEF RingPush
<1> HIDE DEF r, at
<1>7. r \in Rings(cap, V)
  <2>1. r.buffer \in [0 .. cap - 1 -> V]
    BY <1>1, <1>2, <1>3
  <2>2. r.head \in 0 .. cap - 1
    BY <1>1, <1>2, <1>5
  <2>3. r.count \in 0 .. cap
    BY <1>1, <1>4
  <2> QED  BY <1>6, <2>1, <2>2, <2>3 DEF Rings
<1> QED  BY <1>3, <1>4, <1>5, <1>7 DEF r, at

\* b is a with x appended, and less its oldest element if there were cap.
Slides(a, b, x, cap) ==
    /\ Len(b) = IF Len(a) < cap THEN Len(a) + 1 ELSE cap
    /\ b[Len(b)] = x
    /\ \A i \in 1 .. Len(b) - 1 : b[i] = IF Len(a) < cap THEN a[i] ELSE a[i + 1]

\* push() appends, and drops the oldest element of a full ring.
THEOREM PushAppends ==
    ASSUME NEW cap \in Nat \ {0}, NEW V, NEW ring \in Rings(cap, V), NEW x \in V
    PROVE  /\ RingPush(ring, x) \in Rings(cap, V) /\ RingArray(RingPush(ring, x)) \in Seq(V)
           /\ Slides(RingArray(ring), RingArray(RingPush(ring, x)), x, cap)
<1> DEFINE r == RingPush(ring, x)
           h == ring.head
           n == ring.count
           a == RingArray(ring)
           b == RingArray(r)
<1>1. /\ h \in 0 .. cap - 1 /\ n \in 0 .. cap
      /\ ring.buffer \in [0 .. cap - 1 -> V] /\ ring.capacity = cap
  BY DEF Rings
<1>2. /\ r.buffer = [ring.buffer EXCEPT ![Slot(cap, h, n)] = x]
      /\ r.count = IF n < cap THEN n + 1 ELSE n
      /\ r.head = IF n < cap THEN h ELSE Slot(cap, h, 1)
      /\ r \in Rings(cap, V)
  BY PushSlot
<1> DEFINE Appended ==
      /\ r \in Rings(cap, V)
      /\ b \in Seq(V)
      /\ Len(b) = IF Len(a) < cap THEN Len(a) + 1 ELSE cap
      /\ b[Len(b)] = x
      /\ \A i \in 1 .. Len(b) - 1 : b[i] = IF Len(a) < cap THEN a[i] ELSE a[i + 1]
<1> HIDE DEF r
<1>3. /\ Len(a) = n /\ \A i \in 1 .. n : a[i] = ring.buffer[Slot(cap, h, i - 1)]
  BY ArrayElements
<1>4. /\ Len(b) = r.count /\ \A i \in 1 .. r.count : b[i] = r.buffer[Slot(cap, r.head, i - 1)]
      /\ b \in Seq(V)
  BY <1>2, ArrayElements, ZenonT(30)
<1> HIDE DEF a, b
<1>5. /\ Slot(cap, h, n) = IF h + n < cap THEN h + n ELSE h + n - cap
      /\ Slot(cap, h, n) \in 0 .. cap - 1
  BY <1>1, Wrap, SlotInBuffer
<1>6. ASSUME n < cap PROVE Appended
  <2>1. b[n + 1] = x
    <3>1. n + 1 \in 1 .. r.count /\ (n + 1) - 1 = n
      BY <1>1, <1>2, <1>6
    <3>2. b[n + 1] = r.buffer[Slot(cap, r.head, (n + 1) - 1)]
      BY <1>4, <3>1
    <3>3. b[n + 1] = r.buffer[Slot(cap, h, n)]
      BY <1>2, <1>6, <3>1, <3>2
    <3> QED  BY <1>1, <1>2, <1>5, <3>3
  <2>2. ASSUME NEW i \in 1 .. n PROVE b[i] = a[i]
    <3>1. i \in 1 .. r.count /\ i - 1 \in 0 .. cap
      BY <1>1, <1>2, <1>6
    <3>2. /\ b[i] = r.buffer[Slot(cap, h, i - 1)] /\ a[i] = ring.buffer[Slot(cap, h, i - 1)]
      BY <1>2, <1>3, <1>4, <1>6, <3>1
    <3>3. /\ Slot(cap, h, i - 1) = IF h + (i - 1) < cap THEN h + (i - 1) ELSE h + (i - 1) - cap
          /\ Slot(cap, h, i - 1) \in 0 .. cap - 1
      BY <1>1, <3>1, Wrap, SlotInBuffer
    <3>4. Slot(cap, h, i - 1) # Slot(cap, h, n)
      BY <1>1, <1>5, <1>6, <3>3
    <3> QED  BY <1>1, <1>2, <1>5, <3>2, <3>3, <3>4
  <2>3. Len(b) = n + 1 /\ Len(a) < cap
    BY <1>2, <1>3, <1>4, <1>6
  <2>4. 1 .. Len(b) - 1 = 1 .. n
    BY <1>1, <2>3
  <2> QED  BY <1>2, <1>3, <1>4, <2>1, <2>2, <2>3, <2>4
<1>7. ASSUME n = cap PROVE Appended
  <2>1. Slot(cap, h, n) = h
    BY <1>1, <1>5, <1>7
  <2>2. 1 \in 0 .. cap
    OBVIOUS
  <2>3. Slot(cap, h, 1) = IF h + 1 < cap THEN h + 1 ELSE h + 1 - cap
    BY <1>1, <2>2, Wrap
  <2>4. /\ r.head = IF h + 1 < cap THEN h + 1 ELSE 0
        /\ r.head \in 0 .. cap - 1
    BY <1>1, <1>2, <1>7, <2>3
  <2>5. r.count = cap
    BY <1>2, <1>7
  <2>6. b[cap] = x
    <3>1. cap \in 1 .. r.count /\ cap - 1 \in 0 .. cap
      BY <2>5
    <3>2. b[cap] = r.buffer[Slot(cap, r.head, cap - 1)]
      BY <1>4, <3>1
    <3>3. Slot(cap, r.head, cap - 1)
            = IF r.head + (cap - 1) < cap THEN r.head + (cap - 1)
              ELSE r.head + (cap - 1) - cap
      BY <2>4, <3>1, Wrap
    <3>4. Slot(cap, r.head, cap - 1) = h
      BY <1>1, <2>4, <3>3
    <3> QED  BY <1>1, <1>2, <2>1, <3>2, <3>4
  <2>7. ASSUME NEW i \in 1 .. cap - 1 PROVE b[i] = a[i + 1]
    <3>1. /\ i \in 1 .. r.count /\ i - 1 \in 0 .. cap /\ i \in 0 .. cap
          /\ i + 1 \in 1 .. n /\ (i + 1) - 1 = i
      BY <1>7, <2>5
    <3>2. b[i] = r.buffer[Slot(cap, r.head, i - 1)]
      BY <1>4, <3>1
    <3>3. a[i + 1] = ring.buffer[Slot(cap, h, (i + 1) - 1)]
      BY <1>3, <3>1
    <3>4. /\ Slot(cap, h, i) = IF h + i < cap THEN h + i ELSE h + i - cap
          /\ Slot(cap, h, i) \in 0 .. cap - 1
      BY <1>1, <3>1, Wrap, SlotInBuffer
    <3>5. Slot(cap, r.head, i - 1)
            = IF r.head + (i - 1) < cap THEN r.head + (i - 1) ELSE r.head + (i - 1) - cap
      BY <2>4, <3>1, Wrap
    <3>6. Slot(cap, r.head, i - 1) = Slot(cap, h, i) /\ Slot(cap, h, i) # h
      BY <1>1, <2>4, <3>4, <3>5, SMTT(20)
    <3> QED  BY <1>1, <1>2, <2>1, <3>1, <3>2, <3>3, <3>4, <3>6
  <2>8. Len(b) = cap /\ Len(a) = cap
    BY <1>3, <1>4, <1>7, <2>5
  <2> QED  BY <1>2, <1>4, <2>6, <2>7, <2>8
<1> QED  BY <1>1, <1>6, <1>7 DEF r, a, b, Slides
=============================================================================
