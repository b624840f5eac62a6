--------------------------- MODULE LosslessProofs ---------------------------
(***************************************************************************)
(* Proofs about the lossless channel, for every capacity N, every set of   *)
(* values and every bound.  The inductive invariant is IInv of Lossless;   *)
(* at the end, the channel implements the bounded FIFO of LosslessFifo.    *)
(***************************************************************************)
EXTENDS Lossless, ChannelProofs

\* What write_all puts into the slots: element j of the slice goes to the slot
\* of position q + j - 1, across the end of the ring too, and every other slot
\* keeps what it has.
LEMMA CopyInFacts ==
  ASSUME NEW q \in Nat, NEW k \in 1 .. N, NEW values \in [1 .. k -> Values],
         buffer \in [Slots -> Values \cup {Junk}]
  PROVE  LET b == CopyIn(Index(q), values) IN
         /\ b \in [Slots -> Values \cup {Junk}]
         /\ \A j \in 1 .. k : b[Index(q + (j - 1))] = values[j]
         /\ \A i \in Slots :
              (\A j \in 1 .. k : Index(q + (j - 1)) # i) => b[i] = buffer[i]
<1> DEFINE s == Index(q)  b == CopyIn(s, values)
<1>0. N \in Nat \ {0} /\ s \in 0 .. N - 1 /\ k \in Nat /\ k <= N /\ k >= 1
  <2>1. N \in Nat \ {0}
    BY CapacityPositive
  <2>2. s \in 0 .. N - 1
    BY IndexInSlots DEF Slots
  <2> QED BY <2>1, <2>2
<1>1. Len(values) = k
  OBVIOUS
<1>2. \A m \in 0 .. k - 1 :
        Index(q + m) = IF s + m < N THEN s + m ELSE s + m - N
  BY <1>0, IndexAdvance
<1> HIDE DEF s
<1>3. b \in [Slots -> Values \cup {Junk}]
  BY <1>0, <1>1 DEF CopyIn, Slots
<1>4. ASSUME NEW j \in 1 .. k PROVE b[Index(q + (j - 1))] = values[j]
  <2>0. j - 1 \in 0 .. k - 1
    BY <1>0
  <2>1. Index(q + (j - 1)) = IF s + (j - 1) < N THEN s + (j - 1)
                                                ELSE s + (j - 1) - N
    BY <1>2, <2>0
  <2>2. CASE s + (j - 1) < N
    BY <1>0, <1>1, <2>1, <2>2 DEF CopyIn, Slots
  <2>3. CASE ~(s + (j - 1) < N)
    BY <1>0, <1>1, <2>1, <2>3, SMTT(40) DEF CopyIn, Slots
  <2> QED BY <2>2, <2>3
<1>5. ASSUME NEW i \in Slots, \A j \in 1 .. k : Index(q + (j - 1)) # i
      PROVE  b[i] = buffer[i]
  <2>1. ASSUME i >= s, i < s + k PROVE FALSE
    <3> DEFINE j == i - s + 1
    <3>1. j \in 1 .. k /\ j - 1 \in 0 .. k - 1 /\ s + (j - 1) = i /\ i < N
      BY <1>0, <2>1 DEF Slots
    <3> HIDE DEF j
    <3>2. Index(q + (j - 1)) = i
      BY <1>2, <3>1
    <3> QED BY <1>5, <3>1, <3>2
  <2>2. ASSUME i < s + k - N PROVE FALSE
    <3> DEFINE j == i + N - s + 1
    <3>1. /\ j \in 1 .. k /\ j - 1 \in 0 .. k - 1
          /\ s + (j - 1) - N = i /\ ~(s + (j - 1) < N)
      BY <1>0, <2>2 DEF Slots
    <3> HIDE DEF j
    <3>2. Index(q + (j - 1)) = i
      BY <1>2, <3>1
    <3> QED BY <1>5, <3>1, <3>2
  <2> QED BY <1>0, <1>1, <2>1, <2>2 DEF CopyIn, Slots
<1> QED BY <1>3, <1>4, <1>5 DEF s

-----------------------------------------------------------------------------
(***************************************************************************)
(* Every action preserves the inductive invariant.                         *)
(***************************************************************************)

\* push goes on only when a slot is free.
LEMMA PushCheckStep ==
  ASSUME IInv, PushCheck
  PROVE  IInv'
<1> USE DEF IInv, PushCheck, shared, producer, consumer, history
<1>1. TypeOK'
  BY CapacityPositive DEF TypeOK
<1>2. Uninitialized' /\ ProducerCursors' /\ ConsumerCursors'
  BY CapacityPositive DEF TypeOK, Uninitialized, ProducerCursors, ConsumerCursors,
     SpaceAccounting, ClaimEnd
<1>3. Content'
  BY DEF TypeOK, Content, ReadFrom, Index, SpaceAccounting
<1>4. SpaceAccounting' /\ HeadLag' /\ Fifo'
  BY CapacityPositive DEF TypeOK, SpaceAccounting, HeadLag, Fifo, ClaimEnd,
     burst_amount, ProducerCursors, ConsumerCursors
<1> QED BY <1>1, <1>2, <1>3, <1>4

\* sync publishes the local tail and disturbs no slot.
LEMMA SyncStep ==
  ASSUME IInv, Sync
  PROVE  IInv'
<1> USE DEF IInv, Sync, shared, producer, consumer, history
<1>1. TypeOK'
  BY CapacityPositive DEF TypeOK
<1>2. Uninitialized' /\ ProducerCursors' /\ ConsumerCursors'
  BY CapacityPositive DEF TypeOK, Uninitialized, ProducerCursors, ConsumerCursors,
     SpaceAccounting, ClaimEnd
<1>3. Content'
  BY DEF TypeOK, Content, ReadFrom, Index, SpaceAccounting
<1>4. SpaceAccounting' /\ HeadLag' /\ Fifo'
  BY CapacityPositive DEF TypeOK, SpaceAccounting, HeadLag, Fifo, ClaimEnd,
     burst_amount, ProducerCursors, ConsumerCursors
<1> QED BY <1>1, <1>2, <1>3, <1>4

\* reserve claims at most the free slots it computed.
LEMMA ReserveStep ==
  ASSUME IInv, NEW count \in 1 .. N, Reserve(count)
  PROVE  IInv'
<1> USE DEF IInv, Reserve, shared, producer, consumer, history
<1>1. TypeOK'
  BY CapacityPositive DEF TypeOK
<1>2. Uninitialized' /\ ProducerCursors' /\ ConsumerCursors'
  BY CapacityPositive DEF TypeOK, Uninitialized, ProducerCursors, ConsumerCursors,
     SpaceAccounting, ClaimEnd
<1>3. Content'
  BY DEF TypeOK, Content, ReadFrom, Index, SpaceAccounting
<1>4. SpaceAccounting' /\ HeadLag' /\ Fifo'
  BY CapacityPositive DEF TypeOK, SpaceAccounting, HeadLag, Fifo, ClaimEnd,
     burst_amount, ProducerCursors, ConsumerCursors, AvailableSpace
<1> QED BY <1>1, <1>2, <1>3, <1>4

\* commit moves the tail over what the reservation wrote, no further.
LEMMA CommitStep ==
  ASSUME IInv, Commit
  PROVE  IInv'
<1> USE DEF IInv, Commit, shared, producer, consumer, history
<1>1. TypeOK'
  BY CapacityPositive DEF TypeOK
<1>2. Uninitialized' /\ ProducerCursors' /\ ConsumerCursors'
  BY CapacityPositive DEF TypeOK, Uninitialized, ProducerCursors, ConsumerCursors,
     SpaceAccounting, ClaimEnd, burst_amount
<1>3. Content'
  BY DEF TypeOK, Content, ReadFrom, Index, SpaceAccounting, ProducerCursors
<1>4. SpaceAccounting' /\ HeadLag' /\ Fifo'
  BY CapacityPositive DEF TypeOK, SpaceAccounting, HeadLag, Fifo, ClaimEnd,
     burst_amount, ProducerCursors, ConsumerCursors
<1> QED BY <1>1, <1>2, <1>3, <1>4

\* The first half of join_ only picks a position: the published tail.
LEMMA ConsumerJoinLoadStep ==
  ASSUME IInv, ConsumerJoinLoad
  PROVE  IInv'
<1> USE DEF IInv, ConsumerJoinLoad, shared, producer, consumer, history
<1>1. TypeOK'
  BY CapacityPositive DEF TypeOK
<1>2. Uninitialized' /\ ProducerCursors' /\ ConsumerCursors'
  BY CapacityPositive DEF TypeOK, Uninitialized, ProducerCursors, ConsumerCursors,
     SpaceAccounting, ClaimEnd, Fifo
<1>3. Content'
  BY DEF TypeOK, Content, ReadFrom, Index, SpaceAccounting
<1>4. SpaceAccounting' /\ HeadLag' /\ Fifo'
  BY CapacityPositive DEF TypeOK, SpaceAccounting, HeadLag, Fifo, ClaimEnd,
     burst_amount, ProducerCursors, ConsumerCursors
<1> QED BY <1>1, <1>2, <1>3, <1>4

\* The second half of join_ releases what lies before that position.
LEMMA ConsumerJoinStoreStep ==
  ASSUME IInv, ConsumerJoinStore
  PROVE  IInv'
<1> USE DEF IInv, ConsumerJoinStore, shared, producer, consumer, history
<1>1. TypeOK'
  BY CapacityPositive DEF TypeOK
<1>2. Uninitialized' /\ ProducerCursors' /\ ConsumerCursors'
  BY CapacityPositive DEF TypeOK, Uninitialized, ProducerCursors, ConsumerCursors,
     SpaceAccounting, ClaimEnd
<1>3. Content'
  BY DEF TypeOK, Content, ReadFrom, Index, SpaceAccounting
<1>4. SpaceAccounting' /\ HeadLag' /\ Fifo'
  BY CapacityPositive DEF TypeOK, SpaceAccounting, HeadLag, Fifo, ClaimEnd,
     burst_amount, ProducerCursors, ConsumerCursors
<1> QED BY <1>1, <1>2, <1>3, <1>4

\* pop goes on only when a published element is there.
LEMMA PopCheckStep ==
  ASSUME IInv, PopCheck
  PROVE  IInv'
<1> USE DEF IInv, PopCheck, shared, producer, consumer, history
<1>1. TypeOK'
  BY CapacityPositive DEF TypeOK
<1>2. Uninitialized' /\ ProducerCursors' /\ ConsumerCursors'
  BY CapacityPositive DEF TypeOK, Uninitialized, ProducerCursors, ConsumerCursors,
     SpaceAccounting, ClaimEnd
<1>3. Content'
  BY DEF TypeOK, Content, ReadFrom, Index, SpaceAccounting
<1>4. SpaceAccounting' /\ HeadLag' /\ Fifo'
  BY CapacityPositive DEF TypeOK, SpaceAccounting, HeadLag, Fifo, ClaimEnd,
     burst_amount, ProducerCursors, ConsumerCursors
<1> QED BY <1>1, <1>2, <1>3, <1>4

\* pop reads what the history has for its position.
LEMMA PopReadStep ==
  ASSUME IInv, PopRead
  PROVE  IInv'
<1> USE DEF IInv, PopRead, shared, producer, consumer, history
<1>0. Index(chead) \in Slots
  BY IndexInSlots DEF TypeOK
<1>1. TypeOK'
  BY <1>0 DEF TypeOK
<1>2. Uninitialized' /\ ProducerCursors' /\ ConsumerCursors'
  <2>1. chead \in ReadFrom .. ptail + rwritten - 1
    BY DEF TypeOK, SpaceAccounting, ConsumerCursors, ReadFrom
  <2>2. cval' = log[chead + 1]
    BY <2>1 DEF Content
  <2> QED BY <2>2 DEF TypeOK, Uninitialized, ProducerCursors, ConsumerCursors
<1>3. Content'
  BY DEF TypeOK, Content, ReadFrom, Index, SpaceAccounting
<1>4. SpaceAccounting' /\ HeadLag' /\ Fifo'
  BY CapacityPositive DEF TypeOK, SpaceAccounting, HeadLag, Fifo, ClaimEnd,
     burst_amount, ProducerCursors, ConsumerCursors
<1> QED BY <1>1, <1>2, <1>3, <1>4

\* pop_zerocopy goes on only when a published element is there.
LEMMA PopZerocopyStep ==
  ASSUME IInv, PopZerocopy
  PROVE  IInv'
<1> USE DEF IInv, PopZerocopy, shared, producer, consumer, history
<1>1. TypeOK'
  BY CapacityPositive DEF TypeOK
<1>2. Uninitialized' /\ ProducerCursors' /\ ConsumerCursors'
  BY CapacityPositive DEF TypeOK, Uninitialized, ProducerCursors, ConsumerCursors,
     SpaceAccounting, ClaimEnd
<1>3. Content'
  BY DEF TypeOK, Content, ReadFrom, Index, SpaceAccounting
<1>4. SpaceAccounting' /\ HeadLag' /\ Fifo'
  BY CapacityPositive DEF TypeOK, SpaceAccounting, HeadLag, Fifo, ClaimEnd,
     burst_amount, ProducerCursors, ConsumerCursors
<1> QED BY <1>1, <1>2, <1>3, <1>4

\* A write at the end of the claimed positions leaves the slots before it
\* alone.
LEMMA ExtendContent ==
  ASSUME IInv, NEW v \in Values, ptail + rwritten < head + N
  PROVE  \A p \in ReadFrom .. ptail + rwritten :
           [buffer EXCEPT ![Index(ptail + rwritten)] = v][Index(p)]
             = Append(log, v)[p + 1]
<1> USE DEF IInv
<1> DEFINE q == ptail + rwritten
<1>1. TAKE p \in ReadFrom .. q
<1>2. /\ q \in Nat /\ p \in Nat /\ head <= p /\ p <= q /\ head \in Nat
      /\ Len(log) = q /\ log \in Seq(Values) /\ N \in Nat
  BY CapacityPositive DEF TypeOK, ReadFrom, SpaceAccounting, ProducerCursors
<1>3. Index(q) \in Slots /\ Index(p) \in Slots
  BY <1>2, IndexInSlots
<1>4. CASE p = q
  BY <1>2, <1>3, <1>4, AppendFacts DEF TypeOK
<1>5. CASE p < q
  <2>1. Index(p) # Index(q)
    <3> HIDE DEF q
    <3>1. q < p + N
      BY <1>2 DEF q
    <3> QED BY <1>2, <1>5, <3>1, IndexDistinct
  <2>2. buffer[Index(p)] = log[p + 1]
    <3>1. p \in ReadFrom .. ptail + rwritten - 1
      BY <1>5 DEF TypeOK, ReadFrom
    <3> QED BY <3>1 DEF Content
  <2>3. Append(log, v)[p + 1] = log[p + 1]
    BY <1>2, <1>5, AppendFacts
  <2> QED BY <1>3, <2>1, <2>2, <2>3 DEF TypeOK
<1> QED BY <1>2, <1>4, <1>5

\* The history a step leaves alone up to the tail is enough for Fifo and for
\* the value pop holds.
LEMMA SameHistory ==
  ASSUME IInv, \A i \in 1 .. tail : log'[i] = log[i],
         UNCHANGED <<cpc, chead, cval, got, cstart>>
  PROVE  Fifo' /\ (cpc' = "got" => cval' = log'[chead' + 1])
<1> USE DEF IInv
<1>1. ASSUME NEW i \in 1 .. Len(got) PROVE cstart + i \in 1 .. tail
  BY DEF TypeOK, Fifo, SpaceAccounting
<1>2. Fifo'
  BY <1>1 DEF Fifo
<1>3. cpc = "got" => chead + 1 \in 1 .. tail
  BY DEF TypeOK, ConsumerCursors
<1> QED BY <1>2, <1>3 DEF ConsumerCursors

\* push writes a slot nobody is going to read.
LEMMA PushWriteStep ==
  ASSUME IInv, NEW v \in Values, PushWrite(v)
  PROVE  IInv'
<1> USE DEF IInv, PushWrite, shared, producer, consumer, history
<1>0. /\ ptail + rwritten = ptail /\ ptail < head + N
      /\ tail \in 0 .. Len(log) /\ rwritten = 0 /\ Len(log) = ptail
  BY CapacityPositive DEF TypeOK, ProducerCursors, SpaceAccounting, ClaimEnd
<1>a. /\ log' \in Seq(Values) /\ Len(log') = Len(log) + 1
      /\ \A i \in 1 .. tail : log'[i] = log[i]
  BY <1>0, AppendFacts DEF TypeOK
<1>1. TypeOK'
  <2>1. buffer' \in [Slots -> Values \cup {Junk}]
    BY DEF TypeOK
  <2> QED BY <1>a, <2>1 DEF TypeOK
<1>b. Fifo' /\ (cpc' = "got" => cval' = log'[chead' + 1])
  BY <1>a, SameHistory
<1>2. Uninitialized' /\ ProducerCursors' /\ ConsumerCursors'
  BY <1>0, <1>a, <1>b DEF TypeOK, Uninitialized, ProducerCursors, ConsumerCursors
<1>3. Content'
  <2>1. buffer' = [buffer EXCEPT ![Index(ptail + rwritten)] = v]
    BY <1>0
  <2>2. ReadFrom' = ReadFrom /\ ptail' + rwritten' - 1 = ptail + rwritten
    BY DEF TypeOK, ReadFrom
  <2>3. log' = Append(log, v)
    OBVIOUS
  <2> HIDE DEF PushWrite, IInv
  <2>4. \A p \in ReadFrom .. ptail + rwritten : buffer'[Index(p)] = log'[p + 1]
    BY <1>0, <2>1, <2>3, ExtendContent
  <2> QED BY <2>2, <2>4 DEF Content
<1>4. SpaceAccounting' /\ HeadLag'
  BY <1>0 DEF TypeOK, SpaceAccounting, HeadLag, ClaimEnd, ProducerCursors
<1> QED BY <1>1, <1>2, <1>3, <1>4, <1>b

\* write_next writes a slot nobody is going to read.
LEMMA WriteNextStep ==
  ASSUME IInv, NEW v \in Values, WriteNext(v)
  PROVE  IInv'
<1> USE DEF IInv, WriteNext, shared, producer, consumer, history
<1>0. /\ ptail + rwritten < head + N /\ tail \in 0 .. Len(log)
      /\ Len(log) = ptail + rwritten
  BY CapacityPositive DEF TypeOK, ProducerCursors, SpaceAccounting, ClaimEnd
<1>a. /\ log' \in Seq(Values) /\ Len(log') = Len(log) + 1
      /\ \A i \in 1 .. tail : log'[i] = log[i]
  BY <1>0, AppendFacts DEF TypeOK
<1>1. TypeOK'
  <2>1. buffer' \in [Slots -> Values \cup {Junk}]
    BY DEF TypeOK
  <2> QED BY <1>a, <2>1 DEF TypeOK
<1>b. Fifo' /\ (cpc' = "got" => cval' = log'[chead' + 1])
  BY <1>a, SameHistory
<1>2. Uninitialized' /\ ProducerCursors' /\ ConsumerCursors'
  BY <1>0, <1>a, <1>b DEF TypeOK, Uninitialized, ProducerCursors, ConsumerCursors
<1>3. Content'
  <2>1. buffer' = [buffer EXCEPT ![Index(ptail + rwritten)] = v]
    BY <1>0
  <2>2. ReadFrom' = ReadFrom /\ ptail' + rwritten' - 1 = ptail + rwritten
    BY DEF TypeOK, ReadFrom
  <2>3. log' = Append(log, v)
    OBVIOUS
  <2> HIDE DEF WriteNext, IInv
  <2>4. \A p \in ReadFrom .. ptail + rwritten : buffer'[Index(p)] = log'[p + 1]
    BY <1>0, <2>1, <2>3, ExtendContent
  <2> QED BY <2>2, <2>4 DEF Content
<1>4. SpaceAccounting' /\ HeadLag'
  BY <1>0 DEF TypeOK, SpaceAccounting, HeadLag, ClaimEnd, ProducerCursors
<1> QED BY <1>1, <1>2, <1>3, <1>4, <1>b

\* write_all writes slots nobody is going to read, around the end of the ring too.
LEMMA WriteAllStep ==
  ASSUME IInv, NEW k \in 1 .. N, NEW values \in [1 .. k -> Values],
         WriteAll(values)
  PROVE  IInv'
<1> USE DEF IInv
<1> DEFINE q == ptail + rwritten
<1>0. /\ k \in Nat /\ k >= 1 /\ Len(values) = k /\ N \in Nat /\ q \in Nat
      /\ head \in Nat /\ tail \in 0 .. Len(log) /\ Len(log) = q
      /\ log \in Seq(Values) /\ q + k <= head + N /\ rwritten + k <= rcount
      /\ rwritten' = rwritten + k /\ log' = log \o values
      /\ buffer' = CopyIn(Index(q), values)
      /\ UNCHANGED <<magic, tail, head, ppc, ptail, pwritten, rcount, consumer,
                     got, cstart>>
  <2>1. k \in Nat /\ k >= 1 /\ Len(values) = k /\ N \in Nat
    BY CapacityPositive
  <2> QED BY <2>1 DEF WriteAll, TypeOK, ProducerCursors, SpaceAccounting, ClaimEnd
<1>a. /\ log' \in Seq(Values) /\ Len(log') = Len(log) + k
      /\ \A i \in 1 .. Len(log) : log'[i] = log[i]
      /\ \A i \in 1 .. k : log'[Len(log) + i] = values[i]
  <2>1. k \in Nat /\ log \in Seq(Values)
    BY <1>0
  <2>2. /\ log \o values \in Seq(Values)
        /\ Len(log \o values) = Len(log) + k
        /\ \A i \in 1 .. Len(log) : (log \o values)[i] = log[i]
        /\ \A i \in 1 .. k : (log \o values)[Len(log) + i] = values[i]
    BY SMTT(40), <2>1, ConcatFacts
  <2> QED BY <1>0, <2>2
<1>b. /\ buffer' \in [Slots -> Values \cup {Junk}]
      /\ \A j \in 1 .. k : buffer'[Index(q + (j - 1))] = values[j]
      /\ \A i \in Slots : (\A j \in 1 .. k : Index(q + (j - 1)) # i)
                             => buffer'[i] = buffer[i]
  <2>1. q \in Nat /\ buffer \in [Slots -> Values \cup {Junk}]
    BY <1>0 DEF TypeOK
  <2>2. buffer' = CopyIn(Index(q), values)
    BY <1>0
  <2> HIDE DEF q
  <2> QED BY <2>1, <2>2, CopyInFacts
<1>1. TypeOK'
  BY <1>0, <1>a, <1>b DEF TypeOK, consumer
<1>2. Fifo' /\ (cpc' = "got" => cval' = log'[chead' + 1])
  <2>1. \A i \in 1 .. tail : log'[i] = log[i]
    BY <1>0, <1>a
  <2>2. UNCHANGED <<cpc, chead, cval, got, cstart>>
    BY <1>0 DEF consumer
  <2> QED BY <2>1, <2>2, SameHistory
<1>3. Uninitialized' /\ ProducerCursors' /\ ConsumerCursors'
  <2>1. Uninitialized'
    BY <1>0 DEF WriteAll, Uninitialized
  <2>2. ProducerCursors'
    BY <1>0, <1>a DEF WriteAll, TypeOK, ProducerCursors
  <2>3. ConsumerCursors'
    BY <1>0, <1>2 DEF consumer, ConsumerCursors
  <2> QED BY <2>1, <2>2, <2>3
<1>4. Content'
  <2> SUFFICES ASSUME NEW p \in ReadFrom .. q + k - 1
               PROVE  buffer'[Index(p)] = log'[p + 1]
    <3>1. ReadFrom' = ReadFrom /\ ptail' + rwritten' - 1 = q + k - 1
      BY <1>0 DEF TypeOK, ReadFrom, consumer
    <3> QED BY <3>1 DEF Content
  <2>1. p \in Nat /\ p < q + k /\ head <= p
    BY <1>0 DEF TypeOK, ReadFrom, SpaceAccounting
  <2>2. CASE p < q
    <3>1. Index(p) \in Slots
      BY <2>1, IndexInSlots
    <3>2. ASSUME NEW j \in 1 .. k PROVE Index(q + (j - 1)) # Index(p)
      <4>1. /\ q + (j - 1) \in Nat /\ p < q + (j - 1)
            /\ q + (j - 1) < p + N
        BY <1>0, <2>1, <2>2
      <4> QED BY <2>1, <4>1, IndexDistinct
    <3>3. buffer'[Index(p)] = buffer[Index(p)]
      BY <1>b, <3>1, <3>2
    <3>4. p \in ReadFrom .. ptail + rwritten - 1
      BY <2>2 DEF TypeOK, ReadFrom
    <3>5. p + 1 \in 1 .. Len(log)
      BY <1>0, <2>1, <2>2
    <3> QED BY <1>a, <3>3, <3>4, <3>5 DEF Content
  <2>3. CASE p >= q
    <3> DEFINE j == p - q + 1
    <3>1. j \in 1 .. k /\ q + (j - 1) = p /\ Len(log) + j = p + 1
      BY SMTT(40), <1>0, <2>1, <2>3
    <3> HIDE DEF j
    <3> QED BY <1>a, <1>b, <3>1
  <2>4. p < q \/ p >= q
    BY <1>0, <2>1
  <2> QED BY <2>2, <2>3, <2>4
<1>5. SpaceAccounting' /\ HeadLag'
  BY <1>0 DEF WriteAll, TypeOK, SpaceAccounting, HeadLag, ClaimEnd, consumer
<1> QED BY <1>1, <1>2, <1>3, <1>4, <1>5

\* cancel forgets what the reservation wrote and keeps the tail.
LEMMA CancelStep ==
  ASSUME IInv, Cancel
  PROVE  IInv'
<1> USE DEF IInv, Cancel, shared, producer, consumer, history
<1>0. ptail \in 0 .. Len(log) /\ tail <= ptail /\ tail \in Nat /\ chead <= tail
  BY DEF TypeOK, ProducerCursors, SpaceAccounting
<1>a. /\ log' \in Seq(Values) /\ Len(log') = ptail
      /\ \A i \in 1 .. ptail : log'[i] = log[i]
  BY <1>0, PrefixFacts DEF TypeOK
<1>1. TypeOK'
  BY <1>a DEF TypeOK
<1>2. Fifo' /\ (cpc' = "got" => cval' = log'[chead' + 1])
  <2>1. \A i \in 1 .. tail : log'[i] = log[i]
    BY <1>0, <1>a
  <2> QED BY <2>1, SameHistory
<1>3. Uninitialized' /\ ProducerCursors' /\ ConsumerCursors'
  BY <1>0, <1>a, <1>2 DEF TypeOK, Uninitialized, ProducerCursors, ConsumerCursors
<1>4. Content'
  BY <1>0, <1>a DEF TypeOK, Content, ReadFrom, Index
<1>5. SpaceAccounting' /\ HeadLag'
  BY <1>0, CapacityPositive
     DEF TypeOK, SpaceAccounting, HeadLag, ClaimEnd, ProducerCursors
<1> QED BY <1>1, <1>2, <1>3, <1>4, <1>5

\* A restarted producer takes over at the published tail.
LEMMA ProducerJoinStep ==
  ASSUME IInv, ProducerJoin
  PROVE  IInv'
<1> USE DEF IInv, ProducerJoin, FreshProducer, shared, consumer
<1>0. tail \in 0 .. Len(log) /\ tail <= ptail /\ tail \in Nat /\ chead <= tail
  BY DEF TypeOK, ProducerCursors, SpaceAccounting
<1>a. /\ log' \in Seq(Values) /\ Len(log') = tail
      /\ \A i \in 1 .. tail : log'[i] = log[i]
  BY <1>0, PrefixFacts DEF TypeOK
<1>1. TypeOK'
  BY <1>a DEF TypeOK
<1>2. Fifo' /\ (cpc' = "got" => cval' = log'[chead' + 1])
  BY <1>a, SameHistory
<1>3. Uninitialized' /\ ProducerCursors' /\ ConsumerCursors'
  BY <1>0, <1>a, <1>2 DEF TypeOK, Uninitialized, ProducerCursors, ConsumerCursors
<1>4. Content'
  BY <1>0, <1>a, SMTT(40) DEF TypeOK, Content, ReadFrom, Index
<1>5. SpaceAccounting' /\ HeadLag'
  BY <1>0, CapacityPositive
     DEF TypeOK, SpaceAccounting, HeadLag, ClaimEnd, ProducerCursors
<1> QED BY <1>1, <1>2, <1>3, <1>4, <1>5

\* The first producer finds a channel nothing was written to.
LEMMA ProducerInitializeStep ==
  ASSUME IInv, ProducerInitialize
  PROVE  IInv'
<1> USE DEF IInv, ProducerInitialize, FreshProducer, consumer
<1>0. /\ Len(log) = 0 /\ tail = 0 /\ ptail = 0 /\ chead = 0 /\ cpc = "down"
      /\ head = 0 /\ cstart = 0
  BY DEF TypeOK, ProducerCursors, SpaceAccounting, Uninitialized, ConsumerCursors
<1>a. log' \in Seq(Values) /\ Len(log') = 0
  BY <1>0, PrefixFacts DEF TypeOK
<1>1. TypeOK'
  BY <1>a DEF TypeOK
<1>2. Fifo'
  BY <1>0, <1>a DEF Fifo, TypeOK
<1>3. Uninitialized' /\ ProducerCursors' /\ ConsumerCursors'
  BY <1>0, <1>a, <1>2 DEF TypeOK, Uninitialized, ProducerCursors, ConsumerCursors
<1>4. Content'
  BY <1>0, <1>a DEF TypeOK, Content, ReadFrom, Index
<1>5. SpaceAccounting' /\ HeadLag'
  BY <1>0, CapacityPositive DEF TypeOK, SpaceAccounting, HeadLag, ClaimEnd, ProducerCursors
<1> QED BY <1>1, <1>2, <1>3, <1>4, <1>5

\* A killed producer tears only slots beyond what it had accepted.
LEMMA ProducerCrashStep ==
  ASSUME IInv, ProducerCrash
  PROVE  IInv'
<1> USE DEF IInv
<1>1. PICK torn \in SUBSET (ptail + rwritten .. ClaimEnd - 1) :
        buffer' = [i \in Slots |->
                     IF \E p \in torn : Index(p) = i THEN Junk ELSE buffer[i]]
  BY DEF ProducerCrash
<1>2. /\ ppc # "down" /\ ppc' = "down"
      /\ UNCHANGED <<magic, tail, head, ptail, pwritten, rcount, rwritten, cpc,
                     chead, csince, cval, log, got, cstart>>
  BY DEF ProducerCrash, consumer, history
<1>3. buffer' \in [Slots -> Values \cup {Junk}]
  BY <1>1 DEF TypeOK
<1>4. TypeOK'
  BY <1>2, <1>3 DEF TypeOK
<1>5. Uninitialized' /\ ProducerCursors' /\ ConsumerCursors'
  BY <1>2 DEF Uninitialized, ProducerCursors, ConsumerCursors
<1>6. Content'
  <2> SUFFICES ASSUME NEW p \in ReadFrom .. ptail + rwritten - 1
               PROVE  buffer'[Index(p)] = log[p + 1]
    BY <1>2 DEF Content, ReadFrom
  <2>1. p \in Nat /\ p < ptail + rwritten /\ head <= p
    BY DEF TypeOK, ReadFrom, SpaceAccounting
  <2>2. ASSUME NEW t \in torn PROVE Index(t) # Index(p)
    <3>1. t \in Nat /\ p < t /\ t < p + N
      BY <2>1, CapacityPositive DEF TypeOK, ClaimEnd, SpaceAccounting
    <3> QED BY <2>1, <3>1, IndexDistinct
  <2>3. Index(p) \in Slots
    BY <2>1, IndexInSlots
  <2>4. buffer'[Index(p)] = buffer[Index(p)]
    BY <1>1, <2>2, <2>3
  <2> QED BY <2>4 DEF Content
<1>7. SpaceAccounting' /\ HeadLag' /\ Fifo'
  BY <1>2, CapacityPositive DEF TypeOK, SpaceAccounting, HeadLag, Fifo, ClaimEnd,
     ProducerCursors
<1> QED BY <1>4, <1>5, <1>6, <1>7

\* A killed consumer may tear the element it held, which no one reads again.
LEMMA ConsumerCrashStep ==
  ASSUME IInv, ConsumerCrash
  PROVE  IInv'
<1> USE DEF IInv
<1>1. /\ cpc # "down" /\ cpc' = "down"
      /\ UNCHANGED <<magic, tail, head, ppc, ptail, pwritten, rcount, rwritten,
                     chead, csince, cval, log, got, cstart>>
  BY DEF ConsumerCrash, producer, history
<1>2. buffer' \in [Slots -> Values \cup {Junk}]
  BY DEF ConsumerCrash, TypeOK
<1>3. TypeOK'
  BY <1>1, <1>2 DEF TypeOK
<1>4. Uninitialized' /\ ProducerCursors' /\ ConsumerCursors'
  BY <1>1 DEF Uninitialized, ProducerCursors, ConsumerCursors
<1>5. Content'
  <2> SUFFICES ASSUME NEW p \in tail .. ptail + rwritten - 1
               PROVE  buffer'[Index(p)] = log[p + 1]
    BY <1>1 DEF Content, ReadFrom
  <2>1. p \in Nat /\ p < head + N /\ p \in ReadFrom .. ptail + rwritten - 1
    BY CapacityPositive
       DEF TypeOK, ReadFrom, SpaceAccounting, ProducerCursors, ClaimEnd
  <2>2. buffer[Index(p)] = log[p + 1]
    BY <2>1 DEF Content
  <2>3. ASSUME cpc = "elem" PROVE Index(p) # Index(chead)
    <3>1. chead \in Nat /\ chead < p /\ p < chead + N
      BY <2>1, <2>3, CapacityPositive DEF TypeOK, SpaceAccounting, ConsumerCursors
    <3> QED BY <2>1, <3>1, IndexDistinct
  <2>4. buffer'[Index(p)] = buffer[Index(p)]
    BY <2>1, <2>3, IndexInSlots DEF ConsumerCrash, TypeOK
  <2> QED BY <2>2, <2>4
<1>6. SpaceAccounting' /\ HeadLag' /\ Fifo'
  BY <1>1 DEF SpaceAccounting, HeadLag, Fifo, ClaimEnd
<1> QED BY <1>3, <1>4, <1>5, <1>6

\* The head of the consumer moves over an element whose value is the one the
\* history has, and is handed out.
LEMMA TakeStep ==
  ASSUME IInv, AdvanceHead, cpc \in {"got", "elem"}, cpc' = "idle",
         cval' \in Values \cup {Junk},
         got' = Append(got, log[chead + 1]),
         UNCHANGED <<magic, tail, buffer, producer, log, cstart>>
  PROVE  IInv'
<1> USE DEF IInv, AdvanceHead, producer
<1>0. /\ chead \in Nat /\ chead < tail /\ chead + 1 \in 1 .. Len(log)
      /\ log[chead + 1] \in Values \cup {Junk}
  BY DEF TypeOK, ConsumerCursors, SpaceAccounting, ProducerCursors
<1>a. /\ got' \in Seq(Values \cup {Junk}) /\ Len(got') = Len(got) + 1
      /\ \A i \in 1 .. Len(got) : got'[i] = got[i]
      /\ got'[Len(got) + 1] = log[chead + 1]
  BY <1>0, AppendFacts DEF TypeOK
<1>1. TypeOK'
  BY <1>a DEF TypeOK
<1>2. Uninitialized' /\ ProducerCursors' /\ ConsumerCursors'
  BY DEF TypeOK, Uninitialized, ProducerCursors, ConsumerCursors
<1>3. Content'
  BY DEF TypeOK, Content, ReadFrom
<1>4. SpaceAccounting' /\ HeadLag'
  BY <1>0, CapacityPositive
     DEF TypeOK, SpaceAccounting, HeadLag, ClaimEnd, burst_amount
<1>5. Fifo'
  <2>1. /\ Len(got) = chead - cstart /\ chead' = chead + 1 /\ cstart \in Nat
        /\ cstart <= chead /\ cstart' = cstart /\ log' = log /\ Len(got) \in Nat
    BY DEF TypeOK, Fifo, ConsumerCursors
  <2>2. ASSUME NEW i \in 1 .. Len(got') PROVE got'[i] = log[cstart + i]
    <3>1. CASE i \in 1 .. Len(got)
      BY <1>a, <3>1 DEF Fifo
    <3>2. CASE i = Len(got) + 1
      <4>1. cstart + i = chead + 1
        BY <1>0, <2>1, <3>2
      <4> QED BY <1>a, <3>2, <4>1
    <3> QED BY <1>a, <2>1, <3>1, <3>2
  <2> QED BY <1>0, <1>a, <2>1, <2>2 DEF Fifo
<1> QED BY <1>1, <1>2, <1>3, <1>4, <1>5

\* pop returns the value pushed at its position.
LEMMA PopReturnStep ==
  ASSUME IInv, PopReturn
  PROVE  IInv'
<1>1. got' = Append(got, log[chead + 1])
  BY DEF IInv, ConsumerCursors, PopReturn
<1> QED BY <1>1, TakeStep DEF PopReturn

\* Dropping an Element releases its slot like pop.
LEMMA ElementDropStep ==
  ASSUME IInv, ElementDrop
  PROVE  IInv'
<1>1. chead \in ReadFrom .. ptail + rwritten - 1
  BY DEF IInv, ElementDrop, TypeOK, ReadFrom, ConsumerCursors, SpaceAccounting
<1>2. got' = Append(got, log[chead + 1])
  BY <1>1 DEF IInv, Content, ElementDrop
<1> QED BY <1>2, TakeStep DEF ElementDrop, IInv, TypeOK

\* An update through an Element changes only the element held.
LEMMA ElementDerefMutStep ==
  ASSUME IInv, NEW v \in Values, ElementDerefMut(v)
  PROVE  IInv'
<1> USE DEF IInv
<1>0. /\ cpc = "elem" /\ buffer' = [buffer EXCEPT ![Index(chead)] = v]
      /\ log' = [log EXCEPT ![chead + 1] = v]
      /\ UNCHANGED <<magic, tail, head, ppc, ptail, pwritten, rcount, rwritten,
                     cpc, chead, csince, cval, got, cstart>>
  BY DEF ElementDerefMut, producer, consumer
<1>1. /\ chead \in Nat /\ chead < tail /\ chead + 1 \in 1 .. Len(log)
      /\ log \in Seq(Values) /\ cstart \in Nat /\ cstart <= chead
      /\ Len(log) = ptail + rwritten
  BY <1>0 DEF TypeOK, ConsumerCursors, SpaceAccounting, ProducerCursors
<1>2. /\ log' \in Seq(Values) /\ Len(log') = Len(log)
      /\ \A i \in 1 .. Len(log) : log'[i] = IF i = chead + 1 THEN v ELSE log[i]
  BY <1>0, <1>1, UpdateFacts
<1>3. TypeOK'
  <2>1. buffer' \in [Slots -> Values \cup {Junk}]
    BY <1>0 DEF TypeOK
  <2> QED BY <1>0, <1>2, <2>1 DEF TypeOK
<1>4. Uninitialized' /\ ProducerCursors' /\ ConsumerCursors'
  BY <1>0, <1>2 DEF Uninitialized, ProducerCursors, ConsumerCursors
<1>5. Content'
  <2> SUFFICES ASSUME NEW p \in ReadFrom .. ptail + rwritten - 1
               PROVE  buffer'[Index(p)] = log'[p + 1]
    BY <1>0 DEF Content, ReadFrom
  <2>1. /\ p \in Nat /\ chead <= p /\ p < chead + N /\ p + 1 \in 1 .. Len(log)
        /\ Index(p) \in Slots
    <3>1. p \in Nat /\ chead <= p /\ p < chead + N /\ p + 1 \in 1 .. Len(log)
      BY <1>0, <1>1, CapacityPositive
         DEF TypeOK, ReadFrom, SpaceAccounting, ProducerCursors, ClaimEnd
    <3> QED BY <3>1, IndexInSlots
  <2>2. CASE p = chead
    BY <1>0, <1>2, <2>1, <2>2 DEF TypeOK
  <2>3. CASE p # chead
    <3>1. Index(chead) # Index(p)
      BY <1>1, <2>1, <2>3, IndexDistinct
    <3>2. buffer'[Index(p)] = log[p + 1]
      BY <1>0, <2>1, <3>1 DEF TypeOK, Content
    <3> QED BY <1>1, <1>2, <2>1, <2>3, <3>2
  <2> QED BY <2>2, <2>3
<1>6. SpaceAccounting' /\ HeadLag'
  BY <1>0 DEF SpaceAccounting, HeadLag, ClaimEnd
<1>7. Fifo'
  <2>1. Len(got) = chead - cstart /\ Len(got) \in Nat
    BY DEF TypeOK, Fifo
  <2>2. ASSUME NEW i \in 1 .. Len(got) PROVE got[i] = log'[cstart + i]
    <3>1. cstart + i \in 1 .. Len(log) /\ cstart + i # chead + 1
      BY <1>1, <2>1
    <3> QED BY <1>2, <3>1 DEF Fifo
  <2> QED BY <1>0, <2>1, <2>2 DEF Fifo
<1> QED BY <1>3, <1>4, <1>5, <1>6, <1>7

-----------------------------------------------------------------------------
(***************************************************************************)
(* The theorems.                                                           *)
(***************************************************************************)

\* The initial state satisfies the inductive invariant.
LEMMA InitIInv == Init => IInv
<1> SUFFICES ASSUME Init PROVE IInv
  OBVIOUS
<1> USE CapacityPositive DEF Init
<1>1. TypeOK
  <2>1. buffer \in [Slots -> Values \cup {Junk}]
    OBVIOUS
  <2>2. log \in Seq(Values) /\ got \in Seq(Values \cup {Junk})
    OBVIOUS
  <2> QED BY <2>1, <2>2 DEF TypeOK
<1>2. Uninitialized /\ ProducerCursors /\ ConsumerCursors /\ Content
  BY DEF Uninitialized, ProducerCursors, ConsumerCursors, Content, ReadFrom
<1>3. SpaceAccounting /\ HeadLag /\ Fifo
  BY DEF SpaceAccounting, HeadLag, Fifo, ClaimEnd
<1> QED BY <1>1, <1>2, <1>3 DEF IInv

\* Every step preserves the inductive invariant.
LEMMA NextIInv == IInv /\ [Next]_vars => IInv'
<1> SUFFICES ASSUME IInv, [Next]_vars PROVE IInv'
  OBVIOUS
<1>1. CASE ProducerNext
  BY <1>1, ProducerInitializeStep, ProducerJoinStep, ProducerCrashStep,
     PushCheckStep, PushWriteStep, SyncStep, ReserveStep, WriteNextStep,
     WriteAllStep, CommitStep, CancelStep
     DEF ProducerNext
<1>2. CASE ConsumerNext
  BY <1>2, ConsumerJoinLoadStep, ConsumerJoinStoreStep, ConsumerCrashStep,
     PopCheckStep, PopReadStep, PopReturnStep, PopZerocopyStep,
     ElementDerefMutStep, ElementDropStep
     DEF ConsumerNext
<1>3. CASE UNCHANGED vars
  BY <1>3 DEF vars, shared, producer, consumer, history, IInv, TypeOK,
     Uninitialized, ProducerCursors, ConsumerCursors, Content, ReadFrom,
     SpaceAccounting, HeadLag, Fifo, ClaimEnd
<1> QED BY <1>1, <1>2, <1>3 DEF Next

\* IInv is an invariant of the lossless channel, whatever the capacity.
THEOREM Invariance == Spec => []IInv
<1> QED BY InitIInv, NextIInv, PTL DEF Spec

\* Every variable keeps its type: no cursor goes below zero, no value leaves
\* its set.
THEOREM TypeCorrect == Spec => []TypeOK
<1>1. IInv => TypeOK
  BY DEF IInv
<1> QED BY <1>1, Invariance, PTL

\* The consumer gets what was pushed, in order, across wrap-around, bursts and
\* the crashes of the producer (pop, pop_zerocopy, push, write_all, join_).
THEOREM FifoCorrect == Spec => []Fifo
<1>1. IInv => Fifo
  BY DEF IInv
<1> QED BY <1>1, Invariance, PTL

\* The fullness tests of push and reserve count right for every capacity.
THEOREM SpaceAccountingCorrect == Spec => []SpaceAccounting
<1>1. IInv => SpaceAccounting
  BY DEF IInv
<1> QED BY <1>1, Invariance, PTL

\* maybe_sync never holds back a whole burst.
THEOREM HeadLagCorrect == Spec => []HeadLag
<1>1. IInv => HeadLag
  BY DEF IInv
<1> QED BY <1>1, Invariance, PTL

\* A producer that has published everything and is refused space for k elements,
\* k up to N - burst_amount + 1, is refused because of elements the consumer
\* has still ahead of it, so a consumer that goes on popping makes room.
RefusedMeansUnread ==
  \A k \in 1 .. N - burst_amount + 1 :
    /\ cpc \in {"idle", "read", "got", "elem"}
    /\ ppc = "idle" /\ tail = ptail /\ AvailableSpace < k
    => chead < tail

\* Nobody waits on everybody: the slots that maybe_sync holds back are too few
\* to refuse a reserve or a push of a producer that has synced.  This is the
\* safety behind SpaceComesBack, for every capacity.
THEOREM RefusedMeansUnreadCorrect == Spec => []RefusedMeansUnread
<1>1. IInv => RefusedMeansUnread
  <2> SUFFICES ASSUME IInv, NEW k \in 1 .. N - burst_amount + 1,
                      cpc \in {"idle", "read", "got", "elem"},
                      tail = ptail, AvailableSpace < k
               PROVE  chead < tail
    BY DEF RefusedMeansUnread
  <2>1. N \in Nat /\ burst_amount \in Nat
    BY CapacityPositive, BurstFacts
  <2>2. ptail \in Nat /\ head \in Nat /\ chead \in Nat /\ chead - head < burst_amount
    BY DEF IInv, TypeOK, HeadLag
  <2>3. N - (ptail - head) < N - burst_amount + 1
    BY <2>1, <2>2 DEF AvailableSpace
  <2> QED BY <2>1, <2>2, <2>3
<1> QED BY <1>1, Invariance, PTL

\* A position the consumer has not released and one the producer has claimed
\* are in different slots.
LEMMA ClaimedApart ==
  ASSUME IInv, NEW p \in Nat, head <= p, p < tail,
         NEW q \in Int, ptail + rwritten <= q, q < ClaimEnd
  PROVE  Index(p) # Index(q)
<1>1. q \in Nat /\ p < q /\ q < p + N
  BY CapacityPositive DEF IInv, TypeOK, SpaceAccounting, ClaimEnd
<1> QED BY <1>1, IndexDistinct

\* What the producer may write next is not where the consumer is.
LEMMA ApartNoRace == IInv => NoSlotRace
<1> SUFFICES ASSUME IInv, cpc \in {"read", "elem"},
                    NEW p \in ptail + rwritten .. ClaimEnd - 1
             PROVE  Index(p) # Index(chead)
  BY DEF NoSlotRace
<1>1. chead \in Nat /\ head <= chead /\ chead < tail
  BY DEF IInv, TypeOK, SpaceAccounting, ConsumerCursors
<1>2. p \in Int /\ ptail + rwritten <= p /\ p < ClaimEnd
  BY DEF IInv, TypeOK, ClaimEnd
<1> QED BY <1>1, <1>2, ClaimedApart

\* The slot accesses of the two endpoints never race: between the check of
\* push or reserve and the end of the writes, and between the check of pop and
\* the end of the read, the two are in different slots.
THEOREM NoSlotRaceCorrect == Spec => []NoSlotRace
<1> QED BY ApartNoRace, Invariance, PTL

\* A step of the endpoints takes no publication back and changes no published
\* element the consumer has not passed, but the one the consumer itself holds.
LEMMA NextStable ==
  ASSUME IInv, [Next]_vars
  PROVE  /\ tail' >= tail
         /\ \A p \in chead' .. tail - 1 :
              buffer'[Index(p)] # buffer[Index(p)] => cpc = "elem" /\ p = chead
<1> USE DEF IInv
<1>0. tail \in Nat /\ ptail \in Nat /\ rwritten \in Nat /\ tail <= ptail
  BY DEF TypeOK, SpaceAccounting
<1>1. tail' >= tail
  BY <1>0 DEF Next, ProducerNext, ConsumerNext, vars, shared, producer, consumer,
     history, ProducerInitialize, ProducerJoin, FreshProducer, ProducerCrash,
     PushCheck, PushWrite, Sync, Reserve, WriteNext, WriteAll, Commit, Cancel,
     ConsumerJoinLoad, ConsumerJoinStore, ConsumerCrash, PopCheck, PopRead,
     PopReturn, PopZerocopy, ElementDerefMut, ElementDrop, AdvanceHead,
     Uninitialized
<1>2. ASSUME NEW p \in chead' .. tail - 1,
             buffer'[Index(p)] # buffer[Index(p)]
      PROVE  cpc = "elem" /\ p = chead
  <2>1. CASE UNCHANGED buffer
    BY <1>2, <2>1
  <2>2. ASSUME chead' = chead
        PROVE  p \in Nat /\ head <= p /\ p < tail /\ Index(p) \in Slots
    <3>1. p \in Nat /\ head <= p /\ p < tail
      BY <2>2 DEF TypeOK, SpaceAccounting
    <3> QED BY <3>1, IndexInSlots
  <2>3. ASSUME NEW v \in Values, PushWrite(v)
        PROVE  FALSE
    <3>1. Index(p) # Index(ptail)
      <4>1. ptail + rwritten = ptail /\ ptail < ClaimEnd
        BY <2>3 DEF PushWrite, TypeOK, ProducerCursors, ClaimEnd
      <4> QED BY <1>0, <2>2, <2>3, <4>1, ClaimedApart DEF PushWrite, consumer
    <3> QED BY <1>2, <2>2, <2>3, <3>1 DEF PushWrite, consumer, TypeOK
  <2>4. ASSUME NEW v \in Values, WriteNext(v)
        PROVE  FALSE
    <3>1. Index(p) # Index(ptail + rwritten)
      <4>1. ptail + rwritten < ClaimEnd
        BY <2>4 DEF WriteNext, TypeOK, ClaimEnd
      <4> QED BY <1>0, <2>2, <2>4, <4>1, ClaimedApart DEF WriteNext, consumer
    <3> QED BY <1>2, <2>2, <2>4, <3>1 DEF WriteNext, consumer, TypeOK
  <2>5. ASSUME NEW k \in 1 .. N, NEW values \in [1 .. k -> Values],
               WriteAll(values)
        PROVE  FALSE
    <3>0. chead' = chead /\ buffer' = CopyIn(Index(ptail + rwritten), values)
      BY <2>5 DEF WriteAll, consumer
    <3>1. ASSUME NEW j \in 1 .. k
          PROVE  Index(ptail + rwritten + (j - 1)) # Index(p)
      <4>1. Len(values) = k /\ k \in Nat /\ N \in Nat
        BY CapacityPositive
      <4>2. /\ ptail + rwritten + (j - 1) \in Int
            /\ ptail + rwritten <= ptail + rwritten + (j - 1)
            /\ ptail + rwritten + (j - 1) < ClaimEnd
        BY <2>5, <4>1 DEF WriteAll, TypeOK, ClaimEnd
      <4> QED BY <2>2, <3>0, <4>2, ClaimedApart
    <3>2. ptail + rwritten \in Nat /\ buffer \in [Slots -> Values \cup {Junk}]
      BY DEF TypeOK
    <3> QED BY <1>2, <2>2, <3>0, <3>1, <3>2, CopyInFacts
  <2>6. ASSUME ProducerCrash
        PROVE  FALSE
    <3>1. PICK torn \in SUBSET (ptail + rwritten .. ClaimEnd - 1) :
            buffer' = [i \in Slots |->
                         IF \E q \in torn : Index(q) = i THEN Junk ELSE buffer[i]]
      BY <2>6 DEF ProducerCrash
    <3>2. chead' = chead
      BY <2>6 DEF ProducerCrash, consumer
    <3>3. ASSUME NEW q \in torn PROVE Index(q) # Index(p)
      <4>1. q \in Int /\ ptail + rwritten <= q /\ q < ClaimEnd
        BY DEF TypeOK, ClaimEnd
      <4> QED BY <2>2, <3>2, <4>1, ClaimedApart
    <3> QED BY <1>2, <2>2, <3>1, <3>2, <3>3
  <2>7. ASSUME \/ ConsumerCrash
               \/ \E v \in Values : ElementDerefMut(v)
        PROVE  cpc = "elem" /\ p = chead
    <3>1. chead' = chead /\ cpc = "elem"
      BY <1>2, <2>7 DEF ConsumerCrash, ElementDerefMut, consumer
    <3>2. Index(p) = Index(chead)
      BY <1>2, <2>2, <2>7, <3>1 DEF ConsumerCrash, ElementDerefMut, TypeOK
    <3>3. chead \in Nat /\ p \in Nat /\ chead <= p /\ p < chead + N
      BY <2>2, <3>1, CapacityPositive
         DEF TypeOK, SpaceAccounting, ClaimEnd, ProducerCursors
    <3>4. ~(chead < p)
      BY <3>2, <3>3, IndexDistinct
    <3> QED BY <3>1, <3>3, <3>4
  <2> QED
    BY <2>1, <2>3, <2>4, <2>5, <2>6, <2>7 DEF Next, ProducerNext, ConsumerNext,
       vars, shared, producer, consumer, history, ProducerInitialize,
       ProducerJoin, PushCheck, Sync, Reserve, Commit, Cancel, ConsumerJoinLoad,
       ConsumerJoinStore, PopCheck, PopRead, PopReturn, PopZerocopy, ElementDrop
<1> QED BY <1>1, <1>2

\* No step, a restart of the producer included, takes back a publication or
\* overwrites a published element the consumer has yet to pass.
THEOREM PublishedStableCorrect == Spec => PublishedStable
<1>1. IInv /\ [Next]_vars =>
        [/\ tail' >= tail
         /\ \A p \in chead' .. tail - 1 :
              buffer'[Index(p)] # buffer[Index(p)] => cpc = "elem" /\ p = chead
        ]_vars
  BY NextStable
<1> QED BY <1>1, Invariance, PTL DEF Spec, PublishedStable

-----------------------------------------------------------------------------
(***************************************************************************)
(* The lossless channel implements the bounded FIFO: under the mapping of  *)
(* Abstract every step of the endpoints is a step of LosslessFifo or none. *)
(***************************************************************************)

\* The mapping: what is accepted and not published, what is published and not
\* taken.
Pending == SubSeq(log, tail + 1, ptail)
Queue   == SubSeq(log, chead + 1, tail)

-----------------------------------------------------------------------------
\* The cursors and the history as far as the mapping needs them.
LEMMA MappedCursors ==
  ASSUME IInv
  PROVE  /\ tail \in Nat /\ chead \in Nat /\ ptail \in Nat /\ rwritten \in Nat
         /\ rcount \in Nat /\ log \in Seq(Values)
         /\ chead <= tail /\ tail <= ptail /\ rwritten <= rcount
         /\ Len(log) = ptail + rwritten
         /\ Len(Queue) = tail - chead /\ Len(Pending) = ptail - tail
         /\ Queue \in Seq(Values) /\ Pending \in Seq(Values)
<1>1. /\ tail \in Nat /\ chead \in Nat /\ ptail \in Nat /\ rwritten \in Nat
      /\ rcount \in Nat /\ log \in Seq(Values)
      /\ chead <= tail /\ tail <= ptail /\ rwritten <= rcount
      /\ Len(log) = ptail + rwritten
  BY DEF IInv, TypeOK, SpaceAccounting, ProducerCursors
<1>2. Len(Queue) = tail - chead /\ Queue \in Seq(Values)
  BY <1>1, Stretch DEF Queue
<1>3. Len(Pending) = ptail - tail /\ Pending \in Seq(Values)
  BY <1>1, Stretch, SMTT(40) DEF Pending
<1> QED BY <1>1, <1>2, <1>3

\* A step of the FIFO, in the terms of the mapping.
FifoStep ==
  \/ /\ Queue # <<>> /\ got' = Append(got, Head(Queue)) /\ Queue' = Tail(Queue)
     /\ Pending' = Pending
  \/ Pending' = <<>> /\ Queue' = Queue /\ got' = got
  \/ Queue' = <<>> /\ got' = <<>> /\ Pending' = Pending
  \/ \E e \in Values :
       Queue # <<>> /\ Queue' = <<e>> \o Tail(Queue) /\ Pending' = Pending /\ got' = got
  \/ \E k \in 0 .. N : \E es \in [1 .. k -> Values] :
       /\ Len(Queue) + Len(Pending) + Len(es) <= N
       /\ \/ Pending' = Pending \o es /\ Queue' = Queue /\ got' = got
          \/ Queue' = Queue \o Pending \o es /\ Pending' = <<>> /\ got' = got
  \/ Queue' = Queue /\ Pending' = Pending /\ got' = got

\* That is what it says.
LEMMA FifoStepIsStep == FifoStep => [Abstract!Next]_(Abstract!vars)
  BY DEF FifoStep, Queue, Pending, Abstract!Next, Abstract!vars, Abstract!Take,
     Abstract!ProducerRestart, Abstract!ConsumerRestart, Abstract!Amend,
     Abstract!Accept, Abstract!AcceptAndPublish


-----------------------------------------------------------------------------
(***************************************************************************)
(* One lemma per kind of step.                                             *)
(***************************************************************************)

\* What happens to the history beyond the producer's tail is not seen: the
\* slots a reservation writes are accepted when it commits.
LEMMA BeyondTail ==
  ASSUME IInv, tail' = tail, chead' = chead, ptail' = ptail,
         log' \in Seq(Values), Len(log') >= ptail,
         \A i \in 1 .. ptail : log'[i] = log[i]
  PROVE  Queue' = Queue /\ Pending' = Pending
<1>1. /\ tail \in Nat /\ chead \in Nat /\ ptail \in Nat /\ log \in Seq(Values)
      /\ chead <= tail /\ tail <= ptail /\ ptail <= Len(log)
  BY MappedCursors
<1>2. SubSeq(log', chead + 1, tail) = SubSeq(log, chead + 1, tail)
  BY <1>1, SameStretch
<1>3. SubSeq(log', tail + 1, ptail) = SubSeq(log, tail + 1, ptail)
  BY <1>1, SameStretch
<1> QED BY <1>2, <1>3 DEF Queue, Pending

\* Writes into a reservation and its cancellation.
LEMMA ReservationStutters ==
  ASSUME IInv,
         \/ \E v \in Values : WriteNext(v)
         \/ \E k \in 1 .. N : \E values \in [1 .. k -> Values] : WriteAll(values)
         \/ Cancel
  PROVE  FifoStep
<1>1. log \in Seq(Values) /\ ptail \in Nat /\ ptail <= Len(log)
  BY MappedCursors
<1>2. tail' = tail /\ chead' = chead /\ ptail' = ptail /\ got' = got
  BY DEF WriteNext, WriteAll, Cancel, shared, consumer
<1>3. /\ log' \in Seq(Values) /\ Len(log') >= ptail
      /\ \A i \in 1 .. ptail : log'[i] = log[i]
  <2>1. ASSUME NEW v \in Values, WriteNext(v)
        PROVE  <1>3!:
    BY <1>1, <2>1, AppendFacts DEF WriteNext
  <2>2. ASSUME NEW k \in 1 .. N, NEW values \in [1 .. k -> Values], WriteAll(values)
        PROVE  <1>3!:
    BY <1>1, <2>2, ConcatFacts, CapacityPositive DEF WriteAll
  <2>3. ASSUME Cancel PROVE <1>3!:
    BY <1>1, <2>3, PrefixFacts DEF Cancel
  <2> QED BY <2>1, <2>2, <2>3
<1> QED BY <1>2, <1>3, BeyondTail DEF FifoStep

\* push accepts one element.
LEMMA PushAccepts ==
  ASSUME IInv, NEW v \in Values, PushWrite(v)
  PROVE  FifoStep
<1>1. /\ tail \in Nat /\ chead \in Nat /\ ptail \in Nat /\ log \in Seq(Values)
      /\ chead <= tail /\ tail <= ptail
      /\ Len(Queue) = tail - chead /\ Len(Pending) = ptail - tail
  BY MappedCursors
<1>2. Len(log) = ptail /\ ptail + 1 - chead <= N
  BY <1>1, CapacityPositive
     DEF PushWrite, IInv, TypeOK, ProducerCursors, SpaceAccounting, ClaimEnd
<1>3. /\ tail' = tail /\ chead' = chead /\ ptail' = ptail + 1 /\ got' = got
      /\ log' = Append(log, v)
  BY DEF PushWrite, consumer
<1> DEFINE l == Append(log, v)
<1>4. /\ l \in Seq(Values) /\ Len(l) = ptail + 1
      /\ \A i \in 1 .. ptail : l[i] = log[i]
      /\ l[ptail + 1] = v
  <2>1. /\ l \in Seq(Values) /\ Len(l) = Len(log) + 1
        /\ \A i \in 1 .. Len(log) : l[i] = log[i]
        /\ l[Len(log) + 1] = v
    BY <1>1, AppendFacts
  <2> HIDE DEF l
  <2> QED BY <1>2, <2>1
<1> HIDE DEF l
<1>5. Queue' = Queue
  <2>1. SubSeq(log, chead + 1, tail) = SubSeq(l, chead + 1, tail)
    BY SMTT(40), <1>1, <1>2, <1>4, SameStretch
  <2> QED BY <1>3, <2>1 DEF Queue, l
<1>6. Pending' = Pending \o <<v>>
  <2>1. SubSeq(log, tail + 1, ptail) = SubSeq(l, tail + 1, ptail)
    BY SMTT(40), <1>1, <1>2, <1>4, SameStretch
  <2>2. SubSeq(l, tail + 1, ptail + 1) = SubSeq(l, tail + 1, ptail) \o <<l[ptail + 1]>>
    BY <1>1, <1>4, StretchLast
  <2> QED BY <1>3, <1>4, <2>1, <2>2 DEF Pending, l
<1>7. <<v>> \in [1 .. 1 -> Values] /\ Len(<<v>>) = 1 /\ 1 \in 0 .. N
  BY CapacityPositive
<1>8. Len(Queue) + Len(Pending) + Len(<<v>>) <= N
  BY <1>1, <1>2, <1>7, CapacityPositive
<1> QED BY <1>3, <1>5, <1>6, <1>7, <1>8 DEF FifoStep

\* sync publishes what is pending.
LEMMA SyncPublishes ==
  ASSUME IInv, Sync
  PROVE  FifoStep
<1>1. /\ tail \in Nat /\ chead \in Nat /\ ptail \in Nat /\ log \in Seq(Values)
      /\ chead <= tail /\ tail <= ptail /\ ptail <= Len(log)
      /\ Len(Queue) = tail - chead /\ Len(Pending) = ptail - tail
      /\ Queue \in Seq(Values) /\ Pending \in Seq(Values)
  BY MappedCursors
<1>2. ptail - chead <= N
  BY <1>1, CapacityPositive
     DEF IInv, TypeOK, ProducerCursors, SpaceAccounting, ClaimEnd
<1>3. tail' = ptail /\ chead' = chead /\ ptail' = ptail /\ got' = got /\ log' = log
  BY DEF Sync, consumer, history
<1>4. Queue' = Queue \o Pending
  <2>1. Queue \o Pending = SubSeq(log, chead + 1, ptail)
    BY <1>1, JoinedStretch DEF Queue, Pending
  <2> QED BY <1>3, <2>1 DEF Queue
<1>5. Pending' = <<>>
  BY <1>1, <1>3, EmptyStretch DEF Pending
<1>6. <<>> \in [1 .. 0 -> Values] /\ Len(<<>>) = 0 /\ 0 \in 0 .. N
  BY CapacityPositive
<1>7. Queue \o Pending \o <<>> = Queue \o Pending
  BY <1>1, ConcatEmptySeq, ConcatProperties
<1>8. Len(Queue) + Len(Pending) + Len(<<>>) <= N
  BY <1>1, <1>2, <1>6, CapacityPositive
<1> QED BY <1>3, <1>4, <1>5, <1>6, <1>7, <1>8 DEF FifoStep

\* What the reservation has written is accepted, and published with the rest
\* or not.
LEMMA ReservationAccepted ==
  ASSUME IInv, ppc = "reserved", ptail' = ptail + rwritten,
         tail' = tail \/ tail' = ptail + rwritten, UNCHANGED <<chead, got, log>>
  PROVE  FifoStep
<1> DEFINE es == SubSeq(log, ptail + 1, ptail + rwritten)
<1>1. /\ tail \in Nat /\ chead \in Nat /\ ptail \in Nat /\ log \in Seq(Values)
      /\ rwritten \in Nat /\ rcount \in Nat /\ rwritten <= rcount
      /\ chead <= tail /\ tail <= ptail /\ Len(log) = ptail + rwritten
      /\ Len(Queue) = tail - chead /\ Len(Pending) = ptail - tail
      /\ Queue \in Seq(Values) /\ Pending \in Seq(Values)
  BY MappedCursors
<1>2. N \in Nat
  BY CapacityPositive
<1>3. ptail + rwritten - chead <= N
  BY <1>1, <1>2 DEF IInv, TypeOK, SpaceAccounting, ClaimEnd
<1>4. es \in Seq(Values) /\ Len(es) = rwritten
  BY <1>1, Stretch
<1>5. Pending \o es = SubSeq(log, tail + 1, ptail + rwritten)
  BY <1>1, JoinedStretch DEF Pending
<1>6. Queue \o Pending \o es = SubSeq(log, chead + 1, ptail + rwritten)
  <2>1. Queue \o Pending = SubSeq(log, chead + 1, ptail)
    BY <1>1, JoinedStretch DEF Queue, Pending
  <2>2. SubSeq(log, chead + 1, ptail) \o es = SubSeq(log, chead + 1, ptail + rwritten)
    <3>1. chead <= ptail /\ ptail <= ptail + rwritten /\ ptail + rwritten \in Nat
      BY <1>1
    <3> QED BY SMTT(40), <1>1, <3>1, JoinedStretch
  <2> QED BY <2>1, <2>2
<1>7. chead' = chead /\ got' = got /\ log' = log
  OBVIOUS
<1> HIDE DEF es
<1>8. \/ Pending' = Pending \o es /\ Queue' = Queue
      \/ Queue' = Queue \o Pending \o es /\ Pending' = <<>>
  <2>1. CASE tail' = tail
    BY <1>5, <1>7, <2>1 DEF Pending, Queue
  <2>2. CASE tail' = ptail + rwritten
    <3>1. Queue' = Queue \o Pending \o es
      BY <1>6, <1>7, <2>2 DEF Queue
    <3>2. SubSeq(log, (ptail + rwritten) + 1, ptail + rwritten) = <<>>
      BY <1>1, EmptyStretch
    <3> QED BY <1>7, <2>2, <3>1, <3>2 DEF Pending
  <2> QED BY <2>1, <2>2
<1>9. es \in [1 .. rwritten -> Values] /\ rwritten \in 0 .. N
  BY <1>1, <1>2, <1>3, <1>4
<1>10. Len(Queue) + Len(Pending) + Len(es) <= N
  BY <1>1, <1>2, <1>3, <1>4
<1> QED BY <1>7, <1>8, <1>9, <1>10 DEF FifoStep

\* commit publishes what it accepts from a burst on.
LEMMA CommitAccepts ==
  ASSUME IInv, Commit
  PROVE  FifoStep
BY ReservationAccepted DEF Commit, consumer, history

\* A producer that joins forgets what was not published, and leaves the rest.
LEMMA ProducerRestarts ==
  ASSUME IInv, ProducerInitialize \/ ProducerJoin
  PROVE  FifoStep
<1>1. /\ tail \in Nat /\ chead \in Nat /\ ptail \in Nat /\ log \in Seq(Values)
      /\ chead <= tail /\ tail <= ptail /\ ptail <= Len(log)
  BY MappedCursors
<1>2. ProducerInitialize => tail = 0
  BY <1>1 DEF ProducerInitialize, IInv, Uninitialized
<1>3. /\ tail' = tail /\ ptail' = tail /\ chead' = chead /\ got' = got
      /\ log' = SubSeq(log, 1, tail)
  BY <1>2 DEF ProducerInitialize, ProducerJoin, FreshProducer, shared, consumer
<1> DEFINE l == SubSeq(log, 1, tail)
<1>4. /\ l \in Seq(Values) /\ Len(l) = tail
      /\ \A i \in 1 .. tail : l[i] = log[i]
  BY <1>1, PrefixFacts
<1> HIDE DEF l
<1>5. Queue' = Queue
  <2>1. SubSeq(log, chead + 1, tail) = SubSeq(l, chead + 1, tail)
    BY <1>1, <1>4, SameStretch
  <2> QED BY <1>3, <2>1 DEF Queue, l
<1>6. Pending' = <<>>
  BY <1>1, <1>3, EmptyStretch DEF Pending
<1> QED BY <1>3, <1>5, <1>6 DEF FifoStep

\* A consumer that joins starts at the tail: the queue is empty for it.
LEMMA ConsumerRestarts ==
  ASSUME IInv, ConsumerJoinLoad
  PROVE  FifoStep
<1>1. tail \in Nat
  BY MappedCursors
<1>2. /\ tail' = tail /\ ptail' = ptail /\ chead' = tail /\ got' = <<>>
      /\ log' = log
  BY DEF ConsumerJoinLoad, shared, producer
<1>3. Queue' = <<>>
  BY <1>1, <1>2, EmptyStretch DEF Queue
<1>4. Pending' = Pending
  BY <1>2 DEF Pending
<1> QED BY <1>2, <1>3, <1>4 DEF FifoStep

\* pop returns, or an Element is dropped: the oldest element is taken.
LEMMA PopTakes ==
  ASSUME IInv, PopReturn \/ ElementDrop
  PROVE  FifoStep
<1>1. /\ tail \in Nat /\ chead \in Nat /\ ptail \in Nat /\ log \in Seq(Values)
      /\ rwritten \in Nat
      /\ tail <= ptail /\ Len(log) = ptail + rwritten
  BY MappedCursors
<1>2. chead < tail
  BY DEF PopReturn, ElementDrop, IInv, ConsumerCursors
<1>3. /\ tail' = tail /\ ptail' = ptail /\ chead' = chead + 1 /\ log' = log
  BY DEF PopReturn, ElementDrop, AdvanceHead, producer
<1>4. got' = Append(got, log[chead + 1])
  <2>1. CASE PopReturn
    BY <2>1 DEF PopReturn, IInv, ConsumerCursors
  <2>2. CASE ElementDrop
    <3>1. chead \in ReadFrom .. ptail + rwritten - 1
      BY <1>1, <1>2, <2>2 DEF ElementDrop, ReadFrom
    <3>2. buffer[Index(chead)] = log[chead + 1]
      BY <3>1 DEF IInv, Content
    <3> QED BY <2>2, <3>2 DEF ElementDrop
  <2> QED BY <2>1, <2>2
<1>5. /\ Queue # <<>> /\ Head(Queue) = log[chead + 1]
      /\ Tail(Queue) = SubSeq(log, (chead + 1) + 1, tail)
  BY <1>1, <1>2, StretchHead DEF Queue
<1>6. Queue' = Tail(Queue) /\ Pending' = Pending
  BY <1>3, <1>5 DEF Queue, Pending
<1> QED BY <1>4, <1>5, <1>6 DEF FifoStep

\* An update through an Element changes the oldest element and no other.
LEMMA DerefMutAmends ==
  ASSUME IInv, NEW v \in Values, ElementDerefMut(v)
  PROVE  FifoStep
<1> DEFINE l == [log EXCEPT ![chead + 1] = v]
<1>1. /\ tail \in Nat /\ chead \in Nat /\ ptail \in Nat /\ log \in Seq(Values)
      /\ tail <= ptail /\ ptail <= Len(log)
  BY MappedCursors
<1>2. chead < tail
  BY DEF ElementDerefMut, IInv, ConsumerCursors
<1>3. /\ tail' = tail /\ ptail' = ptail /\ chead' = chead /\ got' = got
      /\ log' = l
  BY DEF ElementDerefMut, producer, consumer
<1>4. chead + 1 \in 1 .. Len(log)
  BY <1>1, <1>2
<1>5. /\ l \in Seq(Values) /\ Len(l) = Len(log)
      /\ \A i \in 1 .. Len(log) : l[i] = IF i = chead + 1 THEN v ELSE log[i]
  BY <1>1, <1>4, UpdateFacts
<1> HIDE DEF l
<1>6. Pending' = Pending
  <2>1. SubSeq(log, tail + 1, ptail) = SubSeq(l, tail + 1, ptail)
    BY <1>1, <1>2, <1>5, SameStretch
  <2> QED BY <1>3, <2>1 DEF Pending
<1>7. Queue # <<>> /\ Tail(Queue) = SubSeq(log, (chead + 1) + 1, tail)
  BY <1>1, <1>2, StretchHead DEF Queue
<1>8. SubSeq(l, chead + 1, tail) = <<l[chead + 1]>> \o SubSeq(l, (chead + 1) + 1, tail)
  BY <1>1, <1>2, <1>5, StretchHead
<1>9. SubSeq(log, (chead + 1) + 1, tail) = SubSeq(l, (chead + 1) + 1, tail)
  <2>1. chead + 1 \in Nat /\ chead + 1 <= tail /\ tail <= Len(log)
    BY <1>1, <1>2
  <2> QED BY <1>1, <1>5, <2>1, SameStretch
<1>10. l[chead + 1] = v
  BY <1>4, <1>5
<1>11. Queue' = <<v>> \o Tail(Queue)
  BY <1>3, <1>7, <1>8, <1>9, <1>10 DEF Queue
<1> QED BY <1>3, <1>6, <1>7, <1>11 DEF FifoStep

-----------------------------------------------------------------------------
\* Every step of the endpoints is a step of the FIFO or none.
LEMMA NextFifo ==
  ASSUME IInv, [Next]_vars
  PROVE  FifoStep
<1>1. CASE \/ UNCHANGED vars
           \/ ProducerCrash \/ PushCheck \/ \E count \in 1 .. N : Reserve(count)
           \/ ConsumerJoinStore \/ ConsumerCrash \/ PopCheck \/ PopRead
           \/ PopZerocopy
  <2>1. /\ tail' = tail /\ ptail' = ptail /\ chead' = chead /\ got' = got
        /\ log' = log
    BY <1>1 DEF vars, shared, producer, consumer, history, ProducerCrash,
       PushCheck, Reserve, ConsumerJoinStore, ConsumerCrash, PopCheck, PopRead,
       PopZerocopy
  <2> QED BY <2>1 DEF FifoStep, Queue, Pending
<1>2. CASE \/ \E v \in Values : WriteNext(v)
           \/ \E k \in 1 .. N : \E values \in [1 .. k -> Values] : WriteAll(values)
           \/ Cancel
  BY <1>2, ReservationStutters
<1>3. CASE \/ \E v \in Values : PushWrite(v)
           \/ Sync \/ Commit \/ ProducerInitialize \/ ProducerJoin
  BY <1>3, PushAccepts, SyncPublishes, CommitAccepts, ProducerRestarts
<1>4. CASE \/ ConsumerJoinLoad \/ PopReturn \/ ElementDrop
           \/ \E v \in Values : ElementDerefMut(v)
  BY <1>4, ConsumerRestarts, PopTakes, DerefMutAmends
<1> QED BY <1>1, <1>2, <1>3, <1>4 DEF Next, ProducerNext, ConsumerNext

\* A zeroed channel is an empty FIFO.
LEMMA InitFifo == Init => Abstract!Init
<1> SUFFICES ASSUME Init PROVE Abstract!Init
  OBVIOUS
<1>1. log = <<>> /\ tail = 0 /\ ptail = 0 /\ chead = 0 /\ got = <<>>
  BY DEF Init
<1>2. SubSeq(log, 0 + 1, 0) = <<>>
  BY EmptyStretch
<1> QED BY <1>1, <1>2 DEF Abstract!Init

\* The lossless channel is a bounded FIFO with a publication step: pushes and
\* commits are accepted while there is room, published together, and popped in
\* order, whatever the ring, the bursts, the reservations and the restarts do.
THEOREM ImplementsFifoCorrect == Spec => ImplementsFifo
<1>1. IInv /\ [Next]_vars => [Abstract!Next]_(Abstract!vars)
  BY NextFifo, FifoStepIsStep
<1> QED BY <1>1, InitFifo, Invariance, PTL DEF Spec, ImplementsFifo, Abstract!Spec

=============================================================================
