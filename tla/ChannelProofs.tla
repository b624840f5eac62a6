---------------------------- MODULE ChannelProofs ----------------------------
(***************************************************************************)
(* Lemmas every proof about a channel uses: what the operators on          *)
(* sequences return, and which positions share a slot of the ring.         *)
(***************************************************************************)
EXTENDS Channel, Sequences, SequenceTheorems, TLAPS

(***************************************************************************)
(* Sequences.                                                              *)
(***************************************************************************)

\* What Append returns.
LEMMA AppendFacts ==
  ASSUME NEW S, NEW s \in Seq(S), NEW v \in S
  PROVE  /\ Append(s, v) \in Seq(S)
         /\ Len(Append(s, v)) = Len(s) + 1
         /\ \A i \in 1 .. Len(s) : Append(s, v)[i] = s[i]
         /\ Append(s, v)[Len(s) + 1] = v
  OBVIOUS

\* What the first n elements of a sequence are.
LEMMA PrefixFacts ==
  ASSUME NEW S, NEW s \in Seq(S), NEW n \in 0 .. Len(s)
  PROVE  /\ SubSeq(s, 1, n) \in Seq(S)
         /\ Len(SubSeq(s, 1, n)) = n
         /\ \A i \in 1 .. n : SubSeq(s, 1, n)[i] = s[i]
  OBVIOUS

\* What a concatenation with a slice of k elements returns.
LEMMA ConcatFacts ==
  ASSUME NEW S, NEW s \in Seq(S), NEW k \in Nat, NEW t \in [1 .. k -> S]
  PROVE  /\ t \in Seq(S) /\ Len(t) = k
         /\ s \o t \in Seq(S)
         /\ Len(s \o t) = Len(s) + k
         /\ \A i \in 1 .. Len(s) : (s \o t)[i] = s[i]
         /\ \A i \in 1 .. k : (s \o t)[Len(s) + i] = t[i]
<1>1. t \in Seq(S) /\ Len(t) = k
  OBVIOUS
<1> QED BY <1>1

\* What an update of one element returns.
LEMMA UpdateFacts ==
  ASSUME NEW S, NEW s \in Seq(S), NEW j \in 1 .. Len(s), NEW v \in S
  PROVE  /\ [s EXCEPT ![j] = v] \in Seq(S)
         /\ Len([s EXCEPT ![j] = v]) = Len(s)
         /\ \A i \in 1 .. Len(s) :
              [s EXCEPT ![j] = v][i] = IF i = j THEN v ELSE s[i]
  OBVIOUS

-----------------------------------------------------------------------------
(***************************************************************************)
(* Stretches of a sequence, from behind one cursor up to another.          *)
(***************************************************************************)

\* A stretch has as many elements as the cursors are apart.
LEMMA Stretch ==
  ASSUME NEW S, NEW s \in Seq(S), NEW a \in Nat, NEW b \in Nat,
         a <= b, b <= Len(s)
  PROVE  /\ SubSeq(s, a + 1, b) \in Seq(S)
         /\ Len(SubSeq(s, a + 1, b)) = b - a
         /\ \A i \in 1 .. b - a : SubSeq(s, a + 1, b)[i] = s[a + i]
  BY SubSeqProperties

\* Between equal cursors there is nothing.
LEMMA EmptyStretch ==
  ASSUME NEW s, NEW a \in Nat
  PROVE  SubSeq(s, a + 1, a) = <<>>
  BY SubSeqEmpty

\* Sequences that agree on a stretch have the same one there.
LEMMA SameStretch ==
  ASSUME NEW S, NEW s \in Seq(S), NEW t \in Seq(S), NEW a \in Nat, NEW b \in Nat,
         a <= b, b <= Len(s), b <= Len(t),
         \A i \in 1 .. Len(s) : i > a /\ i <= b => s[i] = t[i]
  PROVE  SubSeq(s, a + 1, b) = SubSeq(t, a + 1, b)
<1> DEFINE x == SubSeq(s, a + 1, b)  y == SubSeq(t, a + 1, b)
<1>1. /\ x \in Seq(S) /\ Len(x) = b - a
      /\ \A i \in 1 .. b - a : x[i] = s[a + i]
  BY Stretch
<1>2. /\ y \in Seq(S) /\ Len(y) = b - a
      /\ \A i \in 1 .. b - a : y[i] = t[a + i]
  BY Stretch
<1>3. \A i \in 1 .. b - a : s[a + i] = t[a + i]
  OBVIOUS
<1> HIDE DEF x, y
<1>4. x = y
  BY <1>1, <1>2, <1>3, SeqEqual
<1> QED BY <1>4 DEF x, y

\* Two stretches that meet are one.
LEMMA JoinedStretch ==
  ASSUME NEW S, NEW s \in Seq(S), NEW a \in Nat, NEW b \in Nat, NEW c \in Nat,
         a <= b, b <= c, c <= Len(s)
  PROVE  SubSeq(s, a + 1, b) \o SubSeq(s, b + 1, c) = SubSeq(s, a + 1, c)
  BY ConcatAdjacentSubSeq

\* The first element of a stretch, and the others.
LEMMA StretchHead ==
  ASSUME NEW S, NEW s \in Seq(S), NEW a \in Nat, NEW b \in Nat,
         a < b, b <= Len(s)
  PROVE  /\ SubSeq(s, a + 1, b) # <<>>
         /\ Head(SubSeq(s, a + 1, b)) = s[a + 1]
         /\ Tail(SubSeq(s, a + 1, b)) = SubSeq(s, (a + 1) + 1, b)
         /\ SubSeq(s, a + 1, b) = <<s[a + 1]>> \o SubSeq(s, (a + 1) + 1, b)
<1>1. a + 1 \in 1 .. Len(s) /\ b \in a + 1 .. Len(s)
  OBVIOUS
<1>2. Len(SubSeq(s, a + 1, b)) = b - a
  BY Stretch
<1>3. SubSeq(s, a + 1, b) # <<>>
  BY <1>2
<1> QED BY <1>1, <1>3, HeadTailOfSubSeq, SubSeqRecursiveFirst

\* The last element of a stretch, and the others.
LEMMA StretchLast ==
  ASSUME NEW S, NEW s \in Seq(S), NEW a \in Nat, NEW b \in Nat,
         a <= b, b < Len(s)
  PROVE  SubSeq(s, a + 1, b + 1) = SubSeq(s, a + 1, b) \o <<s[b + 1]>>
<1>1. a + 1 \in 1 .. Len(s) /\ b + 1 \in a + 1 .. Len(s) /\ (b + 1) - 1 = b
  OBVIOUS
<1> QED BY <1>1, SubSeqRecursiveSecond

-----------------------------------------------------------------------------
(***************************************************************************)
(* Remainders, with the capacity or the number of consumers as modulus.    *)
(***************************************************************************)

\* Division with remainder.
LEMMA DivMod ==
  ASSUME NEW n \in Nat \ {0}, NEW p \in Nat
  PROVE  /\ p % n \in 0 .. n - 1
         /\ p \div n \in Int
         /\ p = n * (p \div n) + (p % n)
  OBVIOUS

\* No multiple of n lies strictly between 0 and n.
LEMMA ProductGap ==
  ASSUME NEW n \in Nat \ {0}, NEW d \in Int, 0 < n * d, n * d < n
  PROVE  FALSE
<1>1. CASE d <= 0
  <2>1. n * d <= 0 BY <1>1
  <2> QED BY <2>1
<1>2. CASE d >= 1
  <2>1. n * d >= n BY <1>2
  <2> QED BY <2>1
<1> QED BY <1>1, <1>2

\* Two multiples of n closer than n are the same.
LEMMA MultiplesApart ==
  ASSUME NEW n \in Nat \ {0}, NEW a \in Int, NEW b \in Int,
         0 < n * b - n * a, n * b - n * a < n
  PROVE  FALSE
<1>1. n * b - n * a = n * (b - a)
  OBVIOUS
<1>2. b - a \in Int
  OBVIOUS
<1> QED BY <1>1, <1>2, ProductGap

\* Two numbers less than n apart have different remainders.
LEMMA ModDistinct ==
  ASSUME NEW n \in Nat \ {0}, NEW p \in Nat, NEW q \in Nat, p < q, q < p + n
  PROVE  p % n # q % n
<1> SUFFICES ASSUME p % n = q % n PROVE FALSE
  OBVIOUS
<1> DEFINE a == p \div n  b == q \div n  r == p % n
<1>1. a \in Int /\ b \in Int /\ r \in Int
  BY DivMod
<1>2. p = n * a + r /\ q = n * b + r
  BY DivMod
<1> HIDE DEF a, b, r
<1>3. n * a \in Int /\ n * b \in Int
  BY <1>1
<1>4. q - p = n * b - n * a
  BY <1>1, <1>2, <1>3
<1>5. 0 < n * b - n * a /\ n * b - n * a < n
  BY <1>4
<1> QED BY <1>1, <1>5, MultiplesApart

\* A remainder is the only one of its size.
LEMMA ModUnique ==
  ASSUME NEW n \in Nat \ {0}, NEW p \in Nat, NEW q \in Int, NEW r \in 0 .. n - 1,
         p = n * q + r
  PROVE  p % n = r
<1> DEFINE b == p \div n  t == p % n
<1>1. b \in Int /\ t \in 0 .. n - 1 /\ p = n * b + t
  BY DivMod
<1> HIDE DEF b, t
<1>2. n * b \in Int /\ n * q \in Int
  BY <1>1
<1>3. n * b - n * q = r - t /\ r - t < n /\ t - r < n
  BY <1>1, <1>2
<1>4. ~(0 < n * b - n * q) /\ ~(0 < n * q - n * b)
  BY <1>1, <1>2, <1>3, MultiplesApart
<1>5. r = t
  BY <1>1, <1>2, <1>3, <1>4
<1> QED BY <1>5 DEF t

\* The remainder m further on.
LEMMA ModAdvance ==
  ASSUME NEW n \in Nat \ {0}, NEW p \in Nat, NEW m \in 0 .. n
  PROVE  (p + m) % n = IF (p % n) + m < n THEN (p % n) + m ELSE (p % n) + m - n
<1> DEFINE q == p + m  s == p % n  t == q % n
           a == p \div n  b == q \div n
           c == IF s + m < n THEN a ELSE a + 1
           r == IF s + m < n THEN s + m ELSE s + m - n
<1>0. m \in Int /\ 0 <= m /\ m <= n /\ q \in Nat /\ q = p + m
  OBVIOUS
<1>1. a \in Int /\ b \in Int /\ s \in 0 .. n - 1 /\ t \in 0 .. n - 1
  <2> HIDE DEF q
  <2> QED BY DivMod, <1>0
<1>2. p = n * a + s /\ q = n * b + t
  <2> HIDE DEF q
  <2> QED BY DivMod, <1>0
<1> HIDE DEF a, b, q, s, t
<1>3. c \in Int /\ r \in 0 .. n - 1
  BY <1>0, <1>1
<1>4. n * c = IF s + m < n THEN n * a ELSE n * a + n
  BY <1>0, <1>1
<1>5. n * a \in Int /\ n * b \in Int /\ n * c \in Int
  BY <1>1, <1>3
<1>6. q = n * c + r
  BY <1>0, <1>1, <1>2, <1>4, <1>5
<1> HIDE DEF c, r
<1>7. r = t
  BY <1>0, <1>3, <1>6, ModUnique DEF t
<1> QED BY <1>7 DEF r, t, q, s

-----------------------------------------------------------------------------
(***************************************************************************)
(* The ring index.                                                         *)
(***************************************************************************)

\* The slot of a position.
LEMMA IndexInSlots ==
  ASSUME NEW p \in Nat
  PROVE  Index(p) \in Slots
  BY CapacityPositive, DivMod DEF Index, Slots

\* Two positions less than a lap apart are in different slots.
LEMMA IndexDistinct ==
  ASSUME NEW p \in Nat, NEW q \in Nat, p < q, q < p + N
  PROVE  Index(p) # Index(q)
  BY CapacityPositive, ModDistinct DEF Index

\* The slot of the position m after p: the slots go up to the end of the ring
\* and go on from its beginning.
LEMMA IndexAdvance ==
  ASSUME NEW p \in Nat, NEW m \in 0 .. N
  PROVE  Index(p + m) = IF Index(p) + m < N THEN Index(p) + m
                                            ELSE Index(p) + m - N
  BY CapacityPositive, ModAdvance DEF Index

\* A burst is at least one element and less than the whole ring, unless the
\* ring has a single slot.
LEMMA BurstFacts ==
  /\ burst_amount \in Nat /\ 1 <= burst_amount /\ burst_amount <= N
  /\ N > 1 => burst_amount < N
  BY CapacityPositive DEF burst_amount

=============================================================================
