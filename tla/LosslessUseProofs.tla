------------------------- MODULE LosslessUseProofs --------------------------
(***************************************************************************)
(* Proofs about the lossless channel in use, for every capacity: by        *)
(* programs of both languages and through write_iter (LosslessC), after a  *)
(* headless session on the same region (Toggle), and by the two programs   *)
(* of the interprocess example (Interprocess).  The steps of the endpoints *)
(* themselves are the lemmas of LosslessProofs.                            *)
(***************************************************************************)
EXTENDS LosslessC, Toggle, InterprocessLayout, LosslessProofs

-----------------------------------------------------------------------------
(***************************************************************************)
(* Both languages on one channel: the C producer preserves the invariant   *)
(* of the Rust endpoints, and write_iter writes an iterator's items in     *)
(* their order.                                                            *)
(***************************************************************************)

\* join_or_initialize of the C port finds a channel nothing was written to, so
\* its store of head changes nothing.
LEMMA CInitializeIs ==
  ASSUME IInv, CInitialize
  PROVE  ProducerInitialize
<1>1. head = 0
  BY DEF IInv, TypeOK, Uninitialized, SpaceAccounting, ProducerCursors, CInitialize
<1> QED BY <1>1 DEF CInitialize, ProducerInitialize

\* The slot that get_next hands out is none of those that hold an element.
LEMMA CGetNextStep ==
  ASSUME IInv, NEW v \in Values, CGetNext(v)
  PROVE  IInv' /\ buffer'[Index(ptail + rwritten)] = v
<1> USE DEF IInv
<1> DEFINE q == ptail + rwritten
<1>0. /\ UNCHANGED <<magic, tail, head, ppc, ptail, pwritten, rcount, rwritten,
                     cpc, chead, csince, cval, log, got, cstart>>
      /\ buffer' = [buffer EXCEPT ![Index(q)] = v]
  BY DEF CGetNext, producer, consumer, history
<1>1. q \in Nat /\ q < head + N /\ head \in Nat /\ Index(q) \in Slots
  <2>1. q \in Nat /\ q < head + N /\ head \in Nat
    BY CapacityPositive DEF CGetNext, TypeOK, SpaceAccounting, ClaimEnd
  <2> QED BY <2>1, IndexInSlots
<1>2. buffer' \in [Slots -> Values \cup {Junk}] /\ buffer'[Index(q)] = v
  BY <1>0, <1>1 DEF TypeOK
<1>3. TypeOK'
  BY <1>0, <1>2 DEF TypeOK
<1>4. Content'
  <2> SUFFICES ASSUME NEW p \in ReadFrom .. ptail + rwritten - 1
               PROVE  buffer'[Index(p)] = log[p + 1]
    BY <1>0 DEF Content, ReadFrom
  <2>1. p \in Nat /\ p < q /\ q < p + N
    BY <1>1, CapacityPositive DEF TypeOK, ReadFrom, SpaceAccounting
  <2>2. Index(p) # Index(q) /\ Index(p) \in Slots
    <3> HIDE DEF q
    <3> QED BY <1>1, <2>1, IndexDistinct, IndexInSlots
  <2>3. buffer[Index(p)] = log[p + 1]
    BY DEF Content
  <2>4. buffer'[Index(p)] = buffer[Index(p)]
    BY <1>0, <1>1, <2>2 DEF TypeOK
  <2> QED BY <2>3, <2>4
<1>5. Uninitialized' /\ ProducerCursors' /\ ConsumerCursors'
  BY <1>0 DEF Uninitialized, ProducerCursors, ConsumerCursors
<1>6. SpaceAccounting' /\ HeadLag' /\ Fifo'
  BY <1>0 DEF SpaceAccounting, HeadLag, Fifo, ClaimEnd
<1> QED BY <1>2, <1>3, <1>4, <1>5, <1>6

\* write_next after the caller has filled the slot is the write_next of Rust
\* with the value that is there.
LEMMA CWriteNextIs ==
  ASSUME IInv, CWriteNext
  PROVE  WriteNext(buffer[Index(ptail + rwritten)])
<1>1. buffer' = [buffer EXCEPT ![Index(ptail + rwritten)]
                   = buffer[Index(ptail + rwritten)]]
  BY DEF CWriteNext, shared, IInv, TypeOK
<1> QED BY <1>1 DEF CWriteNext, WriteNext, shared

\* commit of the C port publishes everything that was written.
LEMMA CCommitStep ==
  ASSUME IInv, CCommit
  PROVE  IInv'
<1> USE DEF IInv, CCommit, shared, producer, consumer, history
<1>1. TypeOK'
  BY CapacityPositive DEF TypeOK
<1>2. Uninitialized' /\ ProducerCursors' /\ ConsumerCursors'
  BY CapacityPositive DEF TypeOK, Uninitialized, ProducerCursors, ConsumerCursors,
     SpaceAccounting, ClaimEnd
<1>3. Content'
  BY DEF TypeOK, Content, ReadFrom, Index, SpaceAccounting, ProducerCursors
<1>4. SpaceAccounting' /\ HeadLag' /\ Fifo'
  BY CapacityPositive DEF TypeOK, SpaceAccounting, HeadLag, Fifo, ClaimEnd,
     ProducerCursors, ConsumerCursors
<1> QED BY <1>1, <1>2, <1>3, <1>4

-----------------------------------------------------------------------------
\* A slot beyond what was written is none that a consumer holds: what it does
\* to its element, or leaves torn, is elsewhere.
LEMMA ConsumerKeepsFilled ==
  ASSUME IInv, FilledKept, ConsumerNext, UNCHANGED <<pport, filled>>
  PROVE  /\ FilledKept'
         /\ UNCHANGED <<ppc, ptail, rcount, rwritten>>
         /\ \A i \in tail + 1 .. Len(log) : log'[i] = log[i]
<1> DEFINE q == ptail + rwritten
<1>0. UNCHANGED <<ppc, ptail, rcount, rwritten, filled, pport>>
  BY DEF ConsumerNext, ConsumerJoinLoad, ConsumerJoinStore, ConsumerCrash,
     PopCheck, PopRead, PopReturn, PopZerocopy, ElementDrop, ElementDerefMut,
     AdvanceHead, producer
<1>a. ASSUME filled, cpc = "elem" PROVE Index(chead) # Index(q)
  <2>1. chead \in Nat /\ head <= chead /\ chead < tail
    BY <1>a DEF IInv, TypeOK, SpaceAccounting, ConsumerCursors
  <2>2. q \in Int /\ ptail + rwritten <= q /\ q < ClaimEnd
    BY <1>a DEF IInv, TypeOK, ClaimEnd, FilledKept
  <2> HIDE DEF q
  <2> QED BY <2>1, <2>2, ClaimedApart
<1>b. q \in Nat /\ Index(q) \in Slots
  BY IndexInSlots DEF IInv, TypeOK
<1>1. ASSUME filled PROVE buffer'[Index(q)] = buffer[Index(q)]
  <2>1. CASE UNCHANGED buffer
    BY <2>1
  <2>2. CASE cpc = "elem"
    BY <1>1, <1>a, <1>b, <2>2 DEF IInv, TypeOK, ConsumerNext, ConsumerJoinLoad,
       ConsumerJoinStore, ConsumerCrash, PopCheck, PopRead, PopReturn,
       PopZerocopy, ElementDrop, ElementDerefMut, AdvanceHead, shared
  <2> QED
    BY <2>1, <2>2 DEF ConsumerNext, ConsumerJoinLoad, ConsumerJoinStore,
       ConsumerCrash, PopCheck, PopRead, PopReturn, PopZerocopy, ElementDrop,
       ElementDerefMut, AdvanceHead, shared
<1>2. FilledKept'
  BY <1>0, <1>1 DEF FilledKept
<1>3. ASSUME NEW i \in tail + 1 .. Len(log) PROVE log'[i] = log[i]
  <2>1. CASE UNCHANGED log
    BY <2>1
  <2>2. ASSUME NEW v \in Values, ElementDerefMut(v) PROVE log'[i] = log[i]
    <3>1. i # chead + 1
      BY <2>2 DEF ElementDerefMut, IInv, TypeOK, ConsumerCursors
    <3>2. log \in Seq(Values) /\ i \in 1 .. Len(log)
      BY DEF IInv, TypeOK
    <3> QED BY <2>2, <3>1, <3>2 DEF ElementDerefMut
  <2> QED
    BY <2>1, <2>2 DEF ConsumerNext, ConsumerJoinLoad, ConsumerJoinStore,
       ConsumerCrash, PopCheck, PopRead, PopReturn, PopZerocopy, ElementDrop,
       AdvanceHead, history
<1> QED BY <1>0, <1>2, <1>3

\* What an iterator still holds and what was written of it, when no step of the
\* producer interferes.
LEMMA IterUntouched ==
  ASSUME IInv, IterKept, WritesInOrder, UNCHANGED iterator,
         ipc = "loop" => /\ UNCHANGED <<ppc, pport, ptail, rcount, rwritten>>
                         /\ \A i \in tail + 1 .. Len(log) : log'[i] = log[i]
  PROVE  IterKept' /\ WritesInOrder'
<1>1. IterKept'
  BY DEF IterKept, iterator, Taken
<1>2. WritesInOrder'
  <2> SUFFICES ASSUME ipc = "loop" PROVE WritesInOrder'
    BY DEF WritesInOrder, iterator
  <2>1. Taken' = Taken /\ Written' = Written /\ rwritten' <= rcount'
    BY DEF WritesInOrder, iterator, Taken, Written
  <2>2. ASSUME NEW i \in 1 .. Written
        PROVE  ptail + start_written + i \in tail + 1 .. Len(log)
    BY SMTT(40) DEF IInv, TypeOK, SpaceAccounting, ProducerCursors, IterKept, Written
  <2> QED BY <2>1, <2>2 DEF WritesInOrder, iterator
<1> QED BY <1>1, <1>2

\* A turn of write_iter's loop writes the item that comes next.
LEMMA WriteIterTurnStep ==
  ASSUME IInv, IterKept, WritesInOrder, WriteIterTurn, UNCHANGED port
  PROVE  IInv' /\ IterKept' /\ WritesInOrder'
<1>1. Head(iter) \in Values /\ Head(iter) = items[Taken + 1] /\ Len(iter) > 0
  BY DEF IterKept, WriteIterTurn
<1>2. IInv'
  BY <1>1, WriteNextStep DEF WriteIterTurn
<1>3. /\ ipc' = "loop" /\ start_written' = start_written /\ items' = items
      /\ rwritten' = rwritten + 1 /\ UNCHANGED <<ppc, ptail, rcount, pport>>
      /\ ipc = "loop" /\ rwritten < rcount
      /\ log' = Append(log, Head(iter)) /\ iter' = Tail(iter)
  BY DEF WriteIterTurn, WriteNext, port
<1>4. /\ iter' \in Seq(Values) /\ Len(iter') = Len(iter) - 1
      /\ \A i \in 1 .. Len(iter') : iter'[i] = iter[i + 1]
  BY <1>1, <1>3 DEF IterKept
<1>5. Taken' = Taken + 1 /\ Taken \in Nat /\ Written' = Written + 1 /\ Written \in Nat
  BY <1>3, <1>4 DEF Taken, Written, IterKept, IInv, TypeOK
<1>6. IterKept'
  <2>1. ASSUME NEW i \in 1 .. Len(iter') PROVE iter'[i] = items[Taken' + i]
    <3>1. i \in Nat /\ iter'[i] = iter[i + 1] /\ i + 1 \in 1 .. Len(iter)
      BY <1>4 DEF IterKept
    <3>2. \A j \in 1 .. Len(iter) : iter[j] = items[Taken + j]
      BY DEF IterKept
    <3>3. Taken + (i + 1) = Taken' + i
      BY <1>5, <3>1
    <3> QED BY <3>1, <3>2, <3>3
  <2>2. start_written' \in 0 .. rwritten'
    BY <1>3 DEF IterKept, IInv, TypeOK
  <2> QED BY <1>3, <1>4, <2>1, <2>2 DEF IterKept
<1>7. WritesInOrder'
  <2>1. Taken' = Written' /\ rwritten' <= rcount'
    BY <1>3, <1>5 DEF WritesInOrder, IInv, TypeOK
  <2>2. ASSUME NEW i \in 1 .. Written'
        PROVE  log'[ptail + start_written + i] = items[i]
    <3>1. /\ log \in Seq(Values) /\ Len(log) = ptail + rwritten
          /\ ptail \in Nat /\ start_written \in Nat /\ rwritten \in Nat
      BY <1>3 DEF IInv, TypeOK, ProducerCursors, IterKept
    <3>2. CASE i = Written + 1
      <4>1. ptail + start_written + i = Len(log) + 1
        BY <3>1, <3>2 DEF Written
      <4>2. items[i] = Head(iter)
        BY <1>1, <1>3, <3>2 DEF WritesInOrder
      <4>3. log'[Len(log) + 1] = Head(iter)
        BY <1>1, <1>3, <3>1, AppendFacts
      <4> QED BY <4>1, <4>2, <4>3
    <3>3. CASE i \in 1 .. Written
      <4>1. ptail + start_written + i \in 1 .. Len(log)
        BY <3>1, <3>3 DEF Written
      <4>2. log[ptail + start_written + i] = items[i]
        BY <1>3, <3>3 DEF WritesInOrder
      <4>3. \A p \in 1 .. Len(log) : log'[p] = log[p]
        BY <1>1, <1>3, <3>1, AppendFacts
      <4> QED BY <4>1, <4>2, <4>3
    <3> QED BY <1>5, <3>2, <3>3
  <2> QED BY <1>3, <2>1, <2>2 DEF WritesInOrder
<1> QED BY <1>2, <1>6, <1>7

-----------------------------------------------------------------------------
\* Two zeroed counters, no iterator, no C program yet.
LEMMA CInitCIInv == CInit => CIInv
<1> SUFFICES ASSUME CInit PROVE CIInv
  OBVIOUS
<1>1. IInv
  BY InitIInv DEF CInit, IterInit
<1>2. FilledKept /\ IterKept /\ WritesInOrder
  BY DEF CInit, IterInit, FilledKept, IterKept, WritesInOrder, Taken
<1> QED BY <1>1, <1>2 DEF CIInv

\* The steps of a Rust producer.
LEMMA RustProducerStep ==
  ASSUME CIInv, RustProducerNext
  PROVE  CIInv'
<1> USE DEF CIInv
<1>1. CASE /\ ProducerInitialize \/ ProducerJoin
           /\ pport' = "rust" /\ UNCHANGED <<iterator, cport, filled>>
  <2>1. IInv'
    BY <1>1, ProducerInitializeStep, ProducerJoinStep
  <2>2. ppc = "down" /\ ~filled /\ ipc # "loop"
    BY <1>1 DEF ProducerInitialize, ProducerJoin, FilledKept, IterKept
  <2>3. FilledKept'
    BY <1>1, <2>2 DEF FilledKept
  <2> QED BY <1>1, <2>1, <2>2, <2>3, IterUntouched
<1>2. CASE pport = "rust" /\ ppc # "down" /\ IterProducerNext /\ UNCHANGED port
  <2>1. FilledKept'
    BY <1>2 DEF FilledKept, port
  <2>2. ASSUME NEW its \in Seq(Values), WriteIterCall(its)
        PROVE  IInv' /\ IterKept' /\ WritesInOrder'
    <3>1. UNCHANGED vars
      BY <2>2 DEF WriteIterCall
    <3>2. IInv'
      BY <3>1, NextIInv
    <3>3. /\ iter' = its /\ items' = its /\ start_written' = rwritten
          /\ UNCHANGED <<ppc, rwritten, rcount>> /\ ppc = "reserved"
      BY <2>2 DEF WriteIterCall, vars, shared, producer
    <3>4. Taken' = 0 /\ Written' = 0 /\ rwritten \in Nat /\ rwritten <= rcount
      BY <3>3 DEF Taken, Written, IInv, TypeOK, ProducerCursors
    <3> QED BY <1>2, <3>2, <3>3, <3>4 DEF IterKept, WritesInOrder, port
  <2>3. CASE WriteIterTurn
    BY <1>2, <2>1, <2>3, WriteIterTurnStep
  <2>4. CASE WriteIterBreak \/ WriteIterEnd
    <3>1. UNCHANGED vars /\ ipc' # "loop" /\ items' = items
      BY <2>4 DEF WriteIterBreak, WriteIterEnd
    <3>2. IInv'
      BY <3>1, NextIInv
    <3>3. IterKept'
      <4>1. CASE WriteIterEnd
        BY <4>1, <3>1 DEF WriteIterEnd, IterKept, Taken
      <4>2. CASE WriteIterBreak
        <5>1. /\ iter' \in Seq(Values) /\ Len(iter') = Len(iter) - 1
              /\ \A i \in 1 .. Len(iter') : iter'[i] = iter[i + 1]
          BY <4>2 DEF WriteIterBreak, IterKept
        <5>2. Taken' = Taken + 1 /\ Taken \in Nat
          BY <3>1, <5>1 DEF Taken, IterKept
        <5> QED BY <3>1, <5>1, <5>2 DEF IterKept
      <4> QED BY <2>4, <4>1, <4>2
    <3> QED BY <2>1, <3>1, <3>2, <3>3 DEF WritesInOrder
  <2>5. CASE WriteIterCrash
    <3>1. IInv'
      BY <2>5, ProducerCrashStep DEF WriteIterCrash
    <3> QED BY <2>1, <2>5, <3>1 DEF WriteIterCrash, IterKept, WritesInOrder
  <2>6. CASE ipc = "none" /\ ProducerNext /\ UNCHANGED iterator
    <3>1. IInv'
      BY <2>6, NextIInv DEF Next
    <3> QED BY <2>1, <2>6, <3>1, IterUntouched
  <2>7. ASSUME NEW k \in 0 .. MaxItems, NEW its \in [1 .. k -> Values]
        PROVE  its \in Seq(Values)
    BY MaxItemsAssumption
  <2>8. iter \in Seq(Values)
    BY DEF IterKept
  <2> QED
    BY <1>2, <2>1, <2>2, <2>3, <2>4, <2>5, <2>6, <2>7, <2>8 DEF IterProducerNext
<1> QED BY <1>1, <1>2 DEF RustProducerNext

\* The steps of a C producer.
LEMMA CProducerStep ==
  ASSUME CIInv, CProducerNext, UNCHANGED iterator
  PROVE  CIInv'
<1> USE DEF CIInv
<1>1. ipc # "loop"
  BY DEF CProducerNext, CInitialize, CJoin, ProducerJoin, IterKept
<1>2. IterKept' /\ WritesInOrder'
  BY <1>1, IterUntouched
<1>3. CASE /\ CInitialize \/ CJoin
           /\ pport' = "c" /\ filled' = FALSE /\ UNCHANGED cport
  <2>1. IInv'
    BY <1>3, CInitializeIs, ProducerInitializeStep, ProducerJoinStep DEF CJoin
  <2> QED BY <1>2, <1>3, <2>1 DEF FilledKept
<1>4. ASSUME NEW v \in Values, pport = "c", CGetNext(v), filled' = TRUE,
             UNCHANGED <<pport, cport>>
      PROVE  CIInv'
  <2>1. IInv' /\ buffer'[Index(ptail + rwritten)] = v
    BY <1>4, CGetNextStep
  <2>2. FilledKept'
    BY <1>4, <2>1 DEF CGetNext, FilledKept, producer
  <2> QED BY <1>2, <2>1, <2>2
<1>5. CASE filled /\ CWriteNext /\ filled' = FALSE
  <2>1. IInv'
    BY <1>5, CWriteNextIs, WriteNextStep DEF FilledKept
  <2> QED BY <1>2, <1>5, <2>1 DEF FilledKept
<1>6. CASE /\ CPush \/ CReserve \/ CWriteAll \/ CCommit \/ CCancel \/ ProducerCrash
           /\ filled' = FALSE
  <2>1. IInv'
    <3>1. ProducerNext \/ CCommit
      BY <1>6 DEF CPush, CReserve, CWriteAll, CCancel, ProducerNext
    <3> QED BY <3>1, CCommitStep, NextIInv DEF Next
  <2> QED BY <1>2, <1>6, <2>1 DEF FilledKept
<1> QED BY <1>3, <1>4, <1>5, <1>6 DEF CProducerNext

\* The steps of a consumer of either language.
LEMMA AnyConsumerStep ==
  ASSUME CIInv, CConsumerNext \/ RustConsumerNext, UNCHANGED iterator
  PROVE  CIInv'
<1> USE DEF CIInv
<1>1. ConsumerNext /\ UNCHANGED <<pport, filled>>
  BY DEF CConsumerNext, RustConsumerNext, CConsumerJoin, CPop, ConsumerNext, port
<1>2. IInv'
  BY <1>1, NextIInv DEF Next
<1>3. /\ FilledKept'
      /\ UNCHANGED <<ppc, ptail, rcount, rwritten>>
      /\ \A i \in tail + 1 .. Len(log) : log'[i] = log[i]
  BY <1>1, ConsumerKeepsFilled
<1> QED BY <1>1, <1>2, <1>3, IterUntouched

\* Programs of both languages, in whatever order they are started on one
\* channel, preserve the invariant of the lossless channel: what FifoCorrect
\* and SpaceAccountingCorrect say of Rust endpoints holds of any mixture.
THEOREM CInvariance == CSpec => []CIInv
<1>1. CIInv /\ [CNext]_cvars => CIInv'
  <2> SUFFICES ASSUME CIInv, [CNext]_cvars PROVE CIInv'
    OBVIOUS
  <2>1. CASE CNext
    BY <2>1, RustProducerStep, CProducerStep, AnyConsumerStep DEF CNext
  <2>2. CASE UNCHANGED cvars
    <3>1. UNCHANGED vars /\ UNCHANGED iterator /\ UNCHANGED port
      BY <2>2 DEF cvars
    <3>2. IInv'
      BY <3>1, NextIInv DEF CIInv
    <3>3. UNCHANGED <<buffer, ppc, ptail, rcount, rwritten, log, pport, filled>>
      BY <3>1 DEF vars, shared, producer, history, port
    <3>4. FilledKept'
      BY <3>3 DEF CIInv, FilledKept
    <3> QED BY <3>1, <3>2, <3>3, <3>4, IterUntouched DEF CIInv
  <2> QED BY <2>1, <2>2
<1> QED BY <1>1, CInitCIInv, PTL DEF CSpec

\* write_iter writes the items of its iterator, in their order, directly behind
\* what the reservation held, whatever the consumer does meanwhile.
THEOREM WritesInOrderCorrect == CSpec => []WritesInOrder
<1>1. CIInv => WritesInOrder
  BY DEF CIInv
<1> QED BY <1>1, CInvariance, PTL

\* Only the loop of write_iter itself ends a call that the producer survives.
LEMMA NextStopsWhenDone ==
  ASSUME CIInv, [CNext]_cvars, ipc = "loop", ipc' = "none", ppc' = "reserved"
  PROVE  \/ iter = <<>> /\ Taken' = Written
         \/ rwritten = rcount /\ Taken' = Written + 1
<1> USE DEF CIInv
<1>1. WriteIterBreak \/ WriteIterEnd
  BY DEF CNext, RustProducerNext, IterProducerNext, WriteIterCall, WriteIterTurn,
     WriteIterCrash, ProducerCrash, iterator, cvars
<1>2. Taken = Written /\ rwritten <= rcount /\ rwritten \in Nat /\ rcount \in Nat
  BY DEF WritesInOrder, IInv, TypeOK
<1>3. CASE WriteIterEnd
  BY <1>2, <1>3 DEF WriteIterEnd, Taken
<1>4. CASE WriteIterBreak
  <2>1. iter \in Seq(Values) /\ iter # <<>> /\ iter' = Tail(iter) /\ items' = items
    BY <1>4 DEF WriteIterBreak, IterKept
  <2>2. Len(iter') = Len(iter) - 1 /\ Len(iter) \in Nat /\ Len(items) \in Nat
    BY <2>1 DEF IterKept
  <2>3. Taken' = Taken + 1
    BY <2>1, <2>2 DEF Taken
  <2>4. rwritten = rcount
    BY <1>2, <1>4 DEF WriteIterBreak
  <2> QED BY <1>2, <2>3, <2>4
<1> QED BY <1>1, <1>3, <1>4

\* write_iter returns with the iterator exhausted or the reservation full, and
\* loses at most one item: the one it takes before it looks at the limit.
THEOREM StopsWhenDoneCorrect == CSpec => StopsWhenDone
<1>1. CIInv /\ [CNext]_cvars =>
        [ipc = "loop" /\ ipc' = "none" /\ ppc' = "reserved"
           => \/ iter = <<>> /\ Taken' = Written
              \/ rwritten = rcount /\ Taken' = Written + 1]_iterVars
  BY NextStopsWhenDone
<1> QED BY <1>1, CInvariance, PTL DEF CSpec, StopsWhenDone

\* Where the languages differ: all other steps of either are steps of the Rust
\* endpoints, or leave the channel alone.
LEMMA MixedStep ==
  ASSUME CIInv, [CNext]_cvars
  PROVE  [Next]_vars \/ CCommit \/ \E v \in Values : CGetNext(v)
<1> USE DEF CIInv
<1>1. CASE RustProducerNext
  <2>1. ASSUME WriteIterTurn PROVE Next
    BY <2>1 DEF WriteIterTurn, IterKept, Next, ProducerNext
  <2> QED
    BY <1>1, <2>1 DEF RustProducerNext, IterProducerNext, WriteIterCall,
       WriteIterBreak, WriteIterEnd, WriteIterCrash, Next, ProducerNext
<1>2. CASE CProducerNext
  BY <1>2, CInitializeIs, CWriteNextIs DEF CProducerNext, CJoin, CPush, CReserve,
     CWriteAll, CCancel, FilledKept, Next, ProducerNext
<1>3. CASE CConsumerNext \/ RustConsumerNext
  BY <1>3 DEF CConsumerNext, RustConsumerNext, CConsumerJoin, CPop, Next, ConsumerNext
<1>4. CASE UNCHANGED cvars
  BY <1>4 DEF cvars
<1> QED BY <1>1, <1>2, <1>3, <1>4 DEF CNext

\* A commit of the C port publishes whatever it accepts; the writes of a caller
\* through the pointer are seen by nobody.
THEOREM MixedImplementsFifo == CSpec => ImplementsFifo
<1>1. CInit => Abstract!Init
  BY InitFifo DEF CInit, IterInit
<1>2. CIInv /\ [CNext]_cvars => [Abstract!Next]_(Abstract!vars)
  <2> SUFFICES ASSUME CIInv, [CNext]_cvars PROVE FifoStep
    BY FifoStepIsStep
  <2>1. CASE [Next]_vars
    BY <2>1, NextFifo DEF CIInv
  <2>2. CASE CCommit
    BY <2>2, ReservationAccepted DEF CIInv, CCommit, consumer, history
  <2>3. ASSUME NEW v \in Values, CGetNext(v) PROVE FifoStep
    BY <2>3 DEF CGetNext, producer, consumer, history, FifoStep, Queue, Pending
  <2> QED BY <2>1, <2>2, <2>3, MixedStep
<1> QED BY <1>1, <1>2, CInvariance, PTL DEF CSpec, ImplementsFifo, Abstract!Spec

\* No slot that a C caller fills through its pointer, and none a Rust producer
\* writes, is the one the consumer of the other language reads or holds.
THEOREM MixedNoSlotRace == CSpec => []NoSlotRace
<1>1. CIInv => NoSlotRace
  BY ApartNoRace DEF CIInv
<1> QED BY <1>1, CInvariance, PTL

\* Nor does a program of either language take back a publication of the other,
\* or change what it has published and the consumer not yet passed.
THEOREM MixedPublishedStable == CSpec => PublishedStable
<1> DEFINE Stable == /\ tail' >= tail
                     /\ \A p \in chead' .. tail - 1 :
                          buffer'[Index(p)] # buffer[Index(p)]
                            => cpc = "elem" /\ p = chead
<1>1. ASSUME CIInv, [CNext]_cvars PROVE Stable
  <2> USE <1>1 DEF CIInv
  <2>0. /\ tail \in Nat /\ ptail \in Nat /\ rwritten \in Nat /\ tail <= ptail
        /\ head \in Nat /\ chead \in Nat /\ head <= chead /\ rcount \in Nat
    BY DEF IInv, TypeOK, SpaceAccounting
  <2>1. CASE [Next]_vars
    BY <2>1, NextStable
  <2>2. CASE CCommit
    BY <2>0, <2>2 DEF CCommit
  <2>3. ASSUME NEW v \in Values, CGetNext(v),
               NEW p \in chead .. tail - 1
        PROVE  buffer'[Index(p)] = buffer[Index(p)]
    <3>1. p \in Nat /\ head <= p /\ p < tail
      BY <2>0
    <3>2. ptail + rwritten \in Int /\ ptail + rwritten < ClaimEnd
      BY <2>0, <2>3 DEF CGetNext, ClaimEnd
    <3>3. Index(p) # Index(ptail + rwritten)
      BY <3>1, <3>2, ClaimedApart
    <3>4. Index(p) \in Slots /\ buffer \in [Slots -> Values \cup {Junk}]
      BY <3>1, IndexInSlots DEF IInv, TypeOK
    <3> QED BY <2>3, <3>3, <3>4 DEF CGetNext
  <2>4. ASSUME NEW v \in Values, CGetNext(v) PROVE Stable
    <3>1. tail' = tail /\ chead' = chead
      BY <2>4 DEF CGetNext, consumer
    <3>2. \A p \in chead .. tail - 1 : buffer'[Index(p)] = buffer[Index(p)]
      BY <2>3, <2>4
    <3> QED BY <2>0, <3>1, <3>2
  <2> QED BY <2>1, <2>2, <2>4, MixedStep
<1>2. CIInv /\ [CNext]_cvars => [Stable]_vars
  BY <1>1
<1> QED BY <1>2, CInvariance, PTL DEF CSpec, PublishedStable

-----------------------------------------------------------------------------
(***************************************************************************)
(* One region in both modes.                                               *)
(***************************************************************************)

\* What one of the constructors, or a headless session, keeps of the history
\* is what the last consumer was given.
LEMMA SameGot ==
  ASSUME Abandoned \/ IInv, \A i \in 1 .. tail : log'[i] = log[i],
         UNCHANGED <<chead, got, cstart>>
  PROVE  Fifo'
<1>1. /\ cstart \in Nat /\ chead \in Nat /\ tail \in Nat /\ chead <= tail /\ Fifo
      /\ got \in Seq(Values \cup {Junk})
  BY DEF Abandoned, IInv, TypeOK, SpaceAccounting
<1>2. \A i \in 1 .. Len(got) : cstart + i \in 1 .. tail
  BY <1>1 DEF Fifo
<1> QED BY <1>1, <1>2 DEF Fifo

\* A headless session leaves what Abandoned says, whatever it finds.
LEMMA HeadlessSessionStep ==
  ASSUME BackpressureRestored, NEW k \in Nat, NEW es \in [1 .. k -> Values],
         HeadlessSession(es)
  PROVE  BackpressureRestored'
<1> USE DEF HeadlessSession, BackpressureRestored
<1>1. /\ TypeOK /\ tail \in 0 .. Len(log)
      /\ cstart <= chead /\ head <= chead /\ chead <= tail
  BY SMTT(40) DEF Abandoned, IInv, TypeOK, SpaceAccounting, ProducerCursors, ConsumerCursors
<1>2. es \in Seq(Values) /\ Len(es) \in Nat
  BY ConcatFacts DEF TypeOK
<1>3. /\ SubSeq(log, 1, tail) \in Seq(Values) /\ Len(SubSeq(log, 1, tail)) = tail
      /\ \A i \in 1 .. tail : SubSeq(log, 1, tail)[i] = log[i]
  BY <1>1, PrefixFacts DEF TypeOK
<1>4. /\ log' \in Seq(Values) /\ Len(log') = tail + Len(es)
      /\ \A i \in 1 .. tail : log'[i] = log[i]
  BY <1>2, <1>3, ConcatFacts
<1>5. UNCHANGED <<cpc, chead, csince, cval, got, cstart, head, ppc>>
  BY DEF consumer
<1>6. TypeOK'
  BY <1>1, <1>2, <1>4, <1>5 DEF TypeOK
<1>7. Fifo'
  BY <1>4, <1>5, SameGot
<1> QED BY <1>1, <1>2, <1>4, <1>5, <1>6, <1>7 DEF Abandoned, TypeOK

\* While the cursors are within one ring of each other, reserve never wraps.
LEMMA ReserveNeverWraps ==
  ASSUME IInv, NEW count \in 1 .. N, ReserveWraps(count)
  PROVE  FALSE
BY CapacityPositive DEF IInv, TypeOK, SpaceAccounting, ProducerCursors, ClaimEnd,
   ReserveWraps, AvailableSpace

\* Before a consumer has stored head, the producers that come and go publish
\* nothing and leave nothing in their fields.
LEMMA AbandonedProducerStep ==
  ASSUME Abandoned, ProducerNext \/ (\E count \in 1 .. N : ReserveWraps(count)),
         ppc' \in {"down", "idle"}
  PROVE  Abandoned' /\ UNCHANGED cpc
<1> USE DEF Abandoned
<1>1. ProducerJoin \/ ProducerCrash \/ Sync
  BY DEF ProducerNext, ProducerInitialize, PushCheck, PushWrite, Reserve, WriteNext,
     WriteAll, Commit, Cancel, ReserveWraps
<1>2. CASE ProducerJoin
  <2>1. tail \in 0 .. Len(log) /\ log' = SubSeq(log, 1, tail)
    BY <1>2 DEF TypeOK, ProducerJoin, FreshProducer
  <2>2. /\ log' \in Seq(Values) /\ Len(log') = tail
        /\ \A i \in 1 .. tail : log'[i] = log[i]
    BY <2>1, PrefixFacts DEF TypeOK
  <2>3. /\ UNCHANGED <<magic, tail, head, buffer, cpc, chead, csince, cval, got, cstart>>
        /\ ppc' = "idle" /\ ptail' = tail /\ pwritten' = 0 /\ rcount' = 0 /\ rwritten' = 0
    BY <1>2 DEF ProducerJoin, FreshProducer, shared, consumer
  <2>4. TypeOK'
    BY <2>2, <2>3 DEF TypeOK
  <2>5. Fifo'
    BY <2>2, <2>3, SameGot
  <2> QED BY <2>2, <2>3, <2>4, <2>5
<1>3. CASE ProducerCrash
  <2>1. /\ ppc' = "down" /\ UNCHANGED <<magic, tail, head, ptail, pwritten, rcount,
             rwritten, cpc, chead, csince, cval, log, got, cstart>>
    BY <1>3 DEF ProducerCrash, consumer, history
  <2>2. buffer' \in [Slots -> Values \cup {Junk}]
    BY <1>3 DEF ProducerCrash, TypeOK
  <2>3. TypeOK' /\ Fifo'
    BY <2>1, <2>2 DEF TypeOK, Fifo
  <2> QED BY <2>1, <2>3
<1>4. CASE Sync
  <2>1. UNCHANGED <<magic, tail, head, buffer, ppc, ptail, pwritten, rcount, rwritten,
                    cpc, chead, csince, cval, log, got, cstart>>
    BY <1>4 DEF Sync, consumer, history
  <2> QED BY <2>1 DEF TypeOK, Fifo
<1> QED BY <1>1, <1>2, <1>3, <1>4

\* A consumer that joins leaves things as they are until it stores head; that
\* store establishes the invariant of the lossless channel.
LEMMA AbandonedConsumerStep ==
  ASSUME Abandoned, ConsumerNext
  PROVE  IF cpc = "joining" /\ cpc' = "idle" THEN IInv' ELSE Abandoned'
<1> USE DEF Abandoned
<1>1. ConsumerJoinLoad \/ ConsumerJoinStore \/ ConsumerCrash
  BY DEF ConsumerNext, PopCheck, PopRead, PopReturn, PopZerocopy, ElementDrop,
     ElementDerefMut
<1>2. CASE ConsumerJoinLoad
  BY <1>2 DEF ConsumerJoinLoad, TypeOK, Fifo, shared, producer
<1>3. CASE ConsumerCrash
  BY <1>3 DEF ConsumerCrash, TypeOK, Fifo, producer, history
<1>4. CASE ConsumerJoinStore
  <2>1. /\ UNCHANGED <<magic, tail, buffer, ppc, ptail, pwritten, rcount, rwritten,
                       chead, cval, log, got, cstart>>
        /\ cpc = "joining" /\ cpc' = "idle" /\ csince' = 0 /\ head' = chead
    BY <1>4 DEF ConsumerJoinStore, producer, history
  <2>2. TypeOK' /\ Fifo'
    BY <2>1 DEF TypeOK, Fifo
  <2>3. Uninitialized' /\ ProducerCursors' /\ ConsumerCursors' /\ Content'
    BY <2>1 DEF TypeOK, Uninitialized, ProducerCursors, ConsumerCursors, Content,
       ReadFrom
  <2>4. SpaceAccounting' /\ HeadLag'
    BY <2>1, CapacityPositive DEF TypeOK, SpaceAccounting, ClaimEnd, HeadLag,
       burst_amount
  <2> QED BY <2>1, <2>2, <2>3, <2>4 DEF IInv
<1> QED BY <1>1, <1>2, <1>3, <1>4

\* "A user can choose to toggle backpressure when restarting a system": in an
\* application that pushes only to a consumer that joined, every lossless
\* session behind a headless one has the whole invariant of the channel again,
\* for every capacity and every length of a session.
THEOREM BackpressureRestoredCorrect ==
  ASSUME ToggleConstants, WaitForConsumer
  PROVE  ToggleSpec => []BackpressureRestored
<1>1. ToggleInit => BackpressureRestored
  BY InitIInv DEF ToggleInit, BackpressureRestored
<1>2. BackpressureRestored /\ [ToggleNext]_toggleVars => BackpressureRestored'
  <2> SUFFICES ASSUME BackpressureRestored, [ToggleNext]_toggleVars
               PROVE  BackpressureRestored'
    OBVIOUS
  <2>1. CASE LosslessStep /\ adopted
    <3>1. Next
      BY <2>1, ReserveNeverWraps DEF LosslessStep, BackpressureRestored
    <3> QED BY <2>1, <3>1, NextIInv DEF LosslessStep, BackpressureRestored
  <2>2. CASE LosslessStep /\ ~adopted
    <3>1. Abandoned /\ ppc' \in {"down", "idle"}
      BY <2>2 DEF LosslessStep, BackpressureRestored
    <3>2. CASE ConsumerNext
      BY <2>2, <3>1, <3>2, AbandonedConsumerStep DEF LosslessStep, BackpressureRestored
    <3>3. CASE ProducerNext \/ (\E count \in 1 .. N : ReserveWraps(count))
      BY <2>2, <3>1, <3>3, AbandonedProducerStep DEF LosslessStep, BackpressureRestored
    <3> QED BY <2>2, <3>2, <3>3 DEF LosslessStep, Next
  <2>3. ASSUME NEW k \in 1 .. MaxSession, NEW es \in [1 .. k -> Values],
               HeadlessSession(es)
        PROVE  BackpressureRestored'
    BY <2>3, HeadlessSessionStep DEF ToggleConstants
  <2>4. CASE UNCHANGED toggleVars
    <3>1. UNCHANGED vars /\ UNCHANGED adopted
      BY <2>4 DEF toggleVars
    <3>2. CASE adopted
      BY <3>1, <3>2, NextIInv DEF BackpressureRestored
    <3>3. CASE ~adopted
      BY <3>1, <3>3 DEF BackpressureRestored, Abandoned, TypeOK, Fifo, vars, shared,
         producer, consumer, history
    <3> QED BY <3>2, <3>3
  <2> QED BY <2>1, <2>2, <2>3, <2>4 DEF ToggleNext
<1> QED BY <1>1, <1>2, PTL DEF ToggleSpec

\* In such an application, what a lossless consumer is given is what was pushed
\* from where it joined, on a region that has seen the other mode too.  Without
\* the waiting it is not: the run toggle.
THEOREM FifoAcrossModes ==
  ASSUME ToggleConstants, WaitForConsumer
  PROVE  ToggleSpec => []Fifo
<1>1. BackpressureRestored => Fifo
  BY DEF BackpressureRestored, IInv, Abandoned
<1> QED BY <1>1, BackpressureRestoredCorrect, PTL

-----------------------------------------------------------------------------
(***************************************************************************)
(* The programs of the interprocess example.  Neither of the properties is *)
(* inductive: that a beat means what it is taken for depends on how many   *)
(* were sent and noticed, on where the cursors are at each place of the    *)
(* two programs, and on what was pushed since the consumer joined.         *)
(***************************************************************************)

\* The places before the first push, and those behind the producer's ack.
Waiting == {"start", "join", "load_beat", "ack1"}
Acked   == {"reserve", "write", "commit", "ack3", "cleanup", "done"}

\* The consumer's beats that the producer has waited for, and those it sent.
Noticed ==
  CASE prog \in {"push", "full", "sync", "ack2"} -> 1
    [] prog \in {"beat", "reserve", "write", "commit", "ack3"} -> 2
    [] prog \in {"cleanup", "done"} -> 3
    [] OTHER -> 0
Sent ==
  CASE user \in {"pop", "ack2"} -> 1
    [] user \in {"wait", "pop_last", "ack3"} -> 2
    [] user = "done" -> 3
    [] OTHER -> 0

\* Where each endpoint is when its program is at a place.
ProducerPlace ==
  /\ prog \in Waiting \cup Acked \cup {"push", "full", "sync", "ack2", "beat"}
  /\ last_consumer_heartbeat \in Nat /\ producer_heartbeat \in Nat
  /\ prog \in {"start", "join"} => ppc = "down"
  /\ prog = "push" => ppc \in {"idle", "write"}
  /\ prog \in {"write", "commit"} => ppc = "reserved"
  /\ prog \notin {"start", "join", "push", "write", "commit"} => ppc = "idle"
  /\ rcount = IF prog \in {"write", "commit"} THEN 1 ELSE 0
  /\ rwritten = IF prog = "commit" THEN 1 ELSE 0

ConsumerPlace ==
  /\ user \in {"start", "join", "load_beat", "ack1", "pop", "ack2", "wait",
               "pop_last", "ack3", "done"}
  /\ last_producer_heartbeat \in Nat /\ consumer_heartbeat \in Nat
  /\ user = "start" => cpc = "down"
  /\ user = "join" => cpc = "joining"
  /\ user \in {"pop", "pop_last"} => cpc \in {"idle", "read", "got"}
  /\ user \notin {"start", "join", "pop", "pop_last"} => cpc = "idle"
  /\ user \in {"start", "join", "load_beat", "ack1"} => got = <<>>
  /\ user = "pop" => Len(got) < N \/ (Len(got) = N /\ cpc = "idle")
  /\ user \in {"ack2", "wait"} => Len(got) = N
  /\ user = "pop_last" => Len(got) = N \/ (Len(got) = N + 1 /\ cpc = "idle")
  /\ user \in {"ack3", "done"} => Len(got) = N + 1

\* The cursors, counted from where the consumer joined.
CursorsAt ==
  /\ prog \in Waiting => ptail = tail /\ (user # "start" => tail = cstart)
  /\ prog \in {"push", "full", "sync"} =>
       /\ tail = cstart /\ Unsynced <= N
       /\ prog # "push" => Unsynced = N
       /\ ppc = "write" => Unsynced < N
  /\ prog \in {"ack2", "beat", "reserve", "write", "commit"} =>
       ptail = tail /\ tail = cstart + N
  /\ prog \in {"ack3", "cleanup", "done"} => ptail = cstart + N + 1
  /\ user \notin {"start", "join"} => cstart <= head

\* Nobody notices a beat before it was sent: of those the consumer had sent
\* when the producer joined, none is counted.
BeatsCounted ==
  /\ prog \notin {"start", "join", "load_beat"} =>
       /\ last_consumer_heartbeat <= consumer_heartbeat
       /\ consumer_heartbeat - Sent + Noticed <= last_consumer_heartbeat
  /\ user \in {"ack1", "pop", "ack2", "wait"} /\ prog \notin Acked =>
       last_producer_heartbeat = producer_heartbeat
  /\ user \in {"pop_last", "ack3", "done"} => prog \in Acked

\* What was pushed since the consumer joined.
PushedAt ==
  user # "start" => \A i \in 1 .. Len(log) - cstart :
                      log[cstart + i] = IF i <= N THEN value ELSE last

\* Each program knows from the other's beats how far the cursors have come.
MainIInv ==
  /\ IInv
  /\ ProducerPlace /\ ConsumerPlace /\ CursorsAt /\ BeatsCounted /\ PushedAt

-----------------------------------------------------------------------------
\* What an earlier run leaves, or a zeroed region, is a state of the lossless
\* channel with both endpoints down.
LEMMA MainInitMaps == MainInit => MainIInv
<1> SUFFICES ASSUME MainInit PROVE MainIInv
  OBVIOUS
<1>1. PICK t \in 0 .. N + 1, h \in 0 .. N + 1, p \in 0 .. 1, c \in 0 .. 3 :
        /\ EarlierRun(t, h, p, c)
        /\ magic = TRUE \/ (magic = FALSE /\ c = 0)
        /\ tail = t /\ head = h /\ ptail = t /\ chead = h /\ cstart = h
        /\ log = [i \in 1 .. t |-> IF i <= N THEN value ELSE last]
        /\ buffer = [i \in Slots |-> IF t = 0 THEN Junk
                                     ELSE IF t > N /\ i = Index(N) THEN last ELSE value]
        /\ producer_heartbeat = p /\ consumer_heartbeat = c
  BY DEF MainInit
<1>2. /\ ppc = "down" /\ pwritten = 0 /\ rcount = 0 /\ rwritten = 0
      /\ cpc = "down" /\ csince = 0 /\ cval = Junk /\ got = <<>>
      /\ prog = "start" /\ last_consumer_heartbeat = 0
      /\ user = "start" /\ last_producer_heartbeat = 0
  BY DEF MainInit
<1>3. t \in Nat /\ h \in Nat /\ h <= t /\ t - h <= N /\ (c = 0 => t = 0)
  BY <1>1, CapacityPositive DEF EarlierRun
<1>4. log \in Seq(Values) /\ Len(log) = t
  <2>1. log \in [1 .. t -> Values]
    BY <1>1, InterprocessAssumption
  <2> QED BY <1>3, <2>1
<1>5. buffer \in [Slots -> Values \cup {Junk}]
  BY <1>1, InterprocessAssumption
<1>a. magic \in BOOLEAN /\ (~magic => c = 0)
  BY <1>1, Zenon
<1>b. tail = t /\ head = h /\ ptail = t /\ chead = h /\ cstart = h
  BY <1>1
<1>6. TypeOK
  BY <1>2, <1>3, <1>4, <1>5, <1>a, <1>b DEF TypeOK
<1>7. Uninitialized /\ ProducerCursors /\ ConsumerCursors /\ Content
  BY <1>2, <1>3, <1>4, <1>a, <1>b DEF Uninitialized, ProducerCursors, ConsumerCursors,
     Content, ReadFrom
<1>8. SpaceAccounting /\ HeadLag /\ Fifo
  BY <1>1, <1>2, <1>3 DEF SpaceAccounting, ClaimEnd, HeadLag, Fifo
<1>9. ProducerPlace /\ ConsumerPlace /\ CursorsAt /\ BeatsCounted /\ PushedAt
  BY <1>1, <1>2, <1>3 DEF ProducerPlace, ConsumerPlace, CursorsAt, BeatsCounted,
     PushedAt, Waiting, Acked
<1> QED BY <1>6, <1>7, <1>8, <1>9 DEF MainIInv, IInv

\* A beat that was noticed was sent, so how far the producer is says how far
\* the consumer must have come.
LEMMA NoticedWasSent ==
  ASSUME MainIInv
  PROVE  /\ prog \notin {"start", "join", "load_beat"} => Noticed <= Sent
         /\ prog \notin Waiting => user \notin {"start", "join", "load_beat", "ack1"}
         /\ prog \in {"beat", "reserve", "write", "commit", "ack3"} =>
              user \in {"wait", "pop_last", "ack3", "done"}
         /\ prog \in {"cleanup", "done"} => user = "done"
<1> USE DEF MainIInv, ProducerPlace, ConsumerPlace
<1>1. prog \notin {"start", "join", "load_beat"} => Noticed <= Sent
  BY DEF BeatsCounted, Noticed, Sent
<1> QED BY <1>1 DEF Noticed, Sent, Waiting, Acked

\* Places and counts when a step leaves the channel alone.
LEMMA QuietStep ==
  ASSUME MainIInv, UNCHANGED vars
  PROVE  IInv' /\ (UNCHANGED user => PushedAt')
<1>1. IInv'
  BY NextIInv DEF MainIInv
<1>2. UNCHANGED <<log, cstart>>
  BY DEF vars, history
<1> QED BY <1>1, <1>2 DEF MainIInv, PushedAt

\* The producer's main between its operations on the channel.
LEMMA ProducerQuietStep ==
  ASSUME MainIInv, UNCHANGED vars,
         \/ ProducerProcess \/ LoadBeat \/ SendAck \/ CleanUp
         \/ AwaitAck("ack1", "push") \/ AwaitAck("ack2", "beat")
         \/ AwaitAck("ack3", "cleanup")
         \/ PushValues \/ LosslessPushShouldFail
  PROVE  MainIInv'
<1> USE DEF MainIInv, ProducerProcess, LoadBeat, SendAck, CleanUp, AwaitAck,
        PushValues, LosslessPushShouldFail, Prog, PMain, beats, cmain, pmain
<1>0. UNCHANGED <<tail, head, ppc, ptail, rcount, rwritten, cpc, got, cstart, user,
                  consumer_heartbeat, last_producer_heartbeat>>
  BY DEF vars, shared, producer, consumer, history
<1>1. IInv' /\ PushedAt'
  BY <1>0, QuietStep
<1>t. /\ tail \in Nat /\ head \in Nat /\ ptail \in Nat /\ cstart \in Nat /\ chead \in Nat
      /\ head <= chead /\ chead <= tail
  BY DEF IInv, TypeOK, SpaceAccounting
<1>2. ProducerPlace'
  BY <1>0, <1>t, NoticedWasSent, CapacityPositive
     DEF ProducerPlace, CursorsAt, Waiting, Acked, ConsumerPlace, Unsynced, vars, PushCheck, PushWrite
<1>3. ConsumerPlace'
  BY <1>0 DEF ConsumerPlace
<1>s. prog = "ack1" /\ prog' = "push" => user # "start"
  BY DEF BeatsCounted, Noticed, Sent, ConsumerPlace, ProducerPlace
<1>4. CursorsAt'
  BY <1>0, <1>t, <1>s, NoticedWasSent, CapacityPositive
     DEF CursorsAt, Waiting, ConsumerPlace, ProducerPlace, Unsynced
<1>5. BeatsCounted'
  BY <1>0, NoticedWasSent, SMTT(40) DEF BeatsCounted, Noticed, Sent, Acked, Waiting, ConsumerPlace, ProducerPlace
<1> QED BY <1>1, <1>2, <1>3, <1>4, <1>5

\* The producer's operations leave the consumer's program, and the beats, alone.
LEMMA ProducerApart ==
  ASSUME MainIInv, UNCHANGED <<cpc, got, beats, cmain>>
  PROVE  ConsumerPlace'
BY DEF MainIInv, ConsumerPlace, beats, cmain

\* What is counted does not change while the producer stays behind, or ahead of,
\* the same acks.
LEMMA SameBeats ==
  ASSUME MainIInv, UNCHANGED <<beats, cmain, last_consumer_heartbeat>>,
         prog \notin {"start", "join", "load_beat"}, Noticed' = Noticed,
         prog' \in Acked <=> prog \in Acked
  PROVE  BeatsCounted'
<1>1. Sent' = Sent
  BY DEF Sent, cmain
<1> QED BY <1>1 DEF MainIInv, BeatsCounted, beats, cmain

\* The constructor of either language: it publishes nothing, and forgets
\* nothing that a consumer was given.
LEMMA JoinMainStep ==
  ASSUME MainIInv, JoinOrCreate \/ UnlinkAndCreate
  PROVE  MainIInv'
<1> USE DEF MainIInv
<1>1. /\ prog = "join" /\ prog' = "load_beat"
      /\ ppc' = "idle" /\ rcount' = 0 /\ rwritten' = 0
      /\ UNCHANGED <<cpc, got, cmain, last_consumer_heartbeat>>
      /\ ptail' = tail' /\ log' = SubSeq(log, 1, tail')
  BY DEF JoinOrCreate, UnlinkAndCreate, Prog, PMain, ProducerInitialize, ProducerJoin,
     FreshProducer, shared, consumer
<1>2. UNCHANGED <<user, last_producer_heartbeat>>
  BY <1>1 DEF cmain
<1>t. /\ tail \in Nat /\ cstart \in Nat /\ log \in Seq(Values) /\ Len(log) = tail
  BY <1>1 DEF IInv, TypeOK, ProducerCursors, ProducerPlace, CursorsAt, Waiting
<1>3. CASE JoinOrCreate
  <2>1. IInv'
    BY <1>3, NextIInv DEF JoinOrCreate, Next, ProducerNext
  <2>2. UNCHANGED <<beats, head, cstart>>
    BY <1>3 DEF JoinOrCreate, ProducerInitialize, ProducerJoin, PMain, shared
  <2>3. user # "start" => tail' = tail
    <3>1. user # "start" => cpc # "down"
      BY DEF ConsumerPlace
    <3> QED
      BY <1>3, <3>1 DEF IInv, Uninitialized, JoinOrCreate, ProducerInitialize,
         ProducerJoin, shared
  <2>4. ProducerPlace' /\ ConsumerPlace'
    BY <1>1, <1>2, <2>2, ProducerApart DEF ProducerPlace, Waiting, beats
  <2>5. CursorsAt'
    BY <1>1, <1>2, <2>2, <2>3 DEF CursorsAt, Waiting
  <2>6. BeatsCounted'
    BY <1>1, <1>2, <2>2 DEF BeatsCounted, beats, Acked
  <2>7. PushedAt'
    <3> SUFFICES ASSUME user # "start" PROVE Len(log') = cstart
      BY <1>2, <2>2 DEF PushedAt
    <3>1. tail = cstart /\ tail' = tail
      BY <1>1, <2>3 DEF CursorsAt, Waiting
    <3> QED BY <1>1, <1>t, <3>1, PrefixFacts
  <2> QED BY <2>1, <2>4, <2>5, <2>6, <2>7
<1>4. CASE UnlinkAndCreate
  <2>1. /\ user = "start" /\ cpc = "down" /\ got = <<>>
        /\ magic' = TRUE /\ tail' = 0 /\ head' = 0 /\ chead' = 0 /\ cstart' = 0
        /\ buffer' = [i \in Slots |-> Junk] /\ pwritten' = 0
        /\ producer_heartbeat' = 0 /\ consumer_heartbeat' = 0
        /\ UNCHANGED <<csince, cval>>
    BY <1>4 DEF UnlinkAndCreate, FreshProducer, ConsumerPlace
  <2>2. log' \in Seq(Values) /\ Len(log') = 0
    BY <1>1, <1>t, <2>1, PrefixFacts
  <2>3. TypeOK'
    BY <1>1, <2>1, <2>2 DEF IInv, TypeOK
  <2>4. Uninitialized' /\ ProducerCursors' /\ ConsumerCursors' /\ Content'
    BY <1>1, <2>1, <2>2 DEF Uninitialized, ProducerCursors, ConsumerCursors, Content,
       ReadFrom
  <2>5. SpaceAccounting' /\ HeadLag' /\ Fifo'
    BY <1>1, <2>1, CapacityPositive DEF SpaceAccounting, ClaimEnd, HeadLag, Fifo
  <2>6. ProducerPlace' /\ ConsumerPlace'
    BY <1>1, <1>2, <2>1 DEF ProducerPlace, ConsumerPlace, Waiting
  <2>7. CursorsAt' /\ BeatsCounted' /\ PushedAt'
    BY <1>1, <1>2, <2>1 DEF CursorsAt, BeatsCounted, PushedAt, Waiting
  <2> QED BY <2>3, <2>4, <2>5, <2>6, <2>7 DEF IInv
<1> QED BY <1>3, <1>4

\* What one more write adds to the elements since the consumer joined.
LEMMA WriteMainStep ==
  ASSUME MainIInv, NEW v \in Values, log' = Append(log, v), UNCHANGED <<cstart, user>>,
         cstart <= Len(log),
         v = IF Len(log) - cstart < N THEN value ELSE last
  PROVE  PushedAt'
<1> USE DEF MainIInv
<1>1. cstart \in Nat /\ log \in Seq(Values) /\ Len(log) \in Nat
  BY DEF IInv, TypeOK
<1>2. /\ Len(log') = Len(log) + 1 /\ log'[Len(log) + 1] = v
      /\ \A i \in 1 .. Len(log) : log'[i] = log[i]
  BY <1>1, AppendFacts
<1> SUFFICES ASSUME user # "start", NEW i \in 1 .. Len(log') - cstart
             PROVE  log'[cstart + i] = IF i <= N THEN value ELSE last
  BY DEF PushedAt
<1>3. CASE i = Len(log) - cstart + 1
  BY <1>1, <1>2, <1>3, CapacityPositive
<1>4. CASE i <= Len(log) - cstart
  <2>1. i \in 1 .. Len(log) - cstart /\ cstart + i \in 1 .. Len(log)
    BY <1>1, <1>2, <1>4
  <2> QED BY <1>2, <2>1 DEF PushedAt
<1> QED BY SMTT(40), <1>1, <1>2, <1>3, <1>4

\* The loop of pushes, inside push.
LEMMA PushMainStep ==
  ASSUME MainIInv, Unsynced < N, PushCheck \/ PushWrite(value), Prog("push", "push"),
         PMain
  PROVE  MainIInv'
<1> USE DEF MainIInv, Prog, PMain
<1>1. IInv'
  BY NextIInv, InterprocessAssumption DEF Next, ProducerNext
<1>2. /\ UNCHANGED <<tail, head, rcount, rwritten, cpc, got, cstart>>
      /\ ppc' \in {"idle", "write"}
      /\ \/ ppc' = "write" /\ UNCHANGED <<ptail, log>>
         \/ ppc' = "idle" /\ ptail' = ptail + 1 /\ log' = Append(log, value)
  BY DEF PushCheck, PushWrite, shared, consumer, history
<1>3. ProducerPlace' /\ ConsumerPlace'
  BY <1>2, ProducerApart DEF ProducerPlace, beats
<1>t. /\ tail \in Nat /\ ptail \in Nat /\ tail = cstart /\ Len(log) = ptail
      /\ tail <= ptail
  BY DEF IInv, TypeOK, CursorsAt, ProducerCursors, ProducerPlace, SpaceAccounting
<1>4. CursorsAt'
  BY <1>2, <1>t, CapacityPositive DEF CursorsAt, Unsynced, Waiting, cmain
<1>5. BeatsCounted'
  BY SameBeats DEF Noticed
<1>6. PushedAt'
  <2>1. CASE UNCHANGED log
    BY <1>2, <2>1 DEF PushedAt, cmain
  <2>2. CASE log' = Append(log, value)
    BY <1>2, <1>t, <2>2, WriteMainStep, InterprocessAssumption DEF Unsynced, cmain
  <2> QED BY <1>2, <2>1, <2>2
<1> QED BY <1>1, <1>3, <1>4, <1>5, <1>6

\* Sync, the reservation of one slot, and its commit.
LEMMA PublishMainStep ==
  ASSUME MainIInv, Publish \/ ReserveLoop \/ CommitLast
  PROVE  MainIInv'
<1> USE DEF MainIInv, Publish, ReserveLoop, CommitLast, Prog, PMain
<1>1. IInv'
  BY NextIInv, CapacityPositive DEF Next, ProducerNext
<1>2. UNCHANGED <<head, cpc, got, cstart, log>>
  BY DEF Sync, Reserve, Commit, shared, consumer, history
<1>3. ProducerPlace' /\ ConsumerPlace'
  <2>1. ConsumerPlace'
    BY <1>2, ProducerApart
  <2> QED BY <2>1 DEF ProducerPlace, Sync, Reserve, Commit, beats, Waiting, Acked
<1>t. tail \in Nat /\ ptail \in Nat /\ cstart \in Nat
  BY DEF IInv, TypeOK
<1>4. CursorsAt'
  BY <1>2, <1>t, CapacityPositive DEF CursorsAt, ProducerPlace, Sync, Reserve, Commit,
     Unsynced, Waiting, cmain, shared
<1>5. BeatsCounted'
  BY SameBeats DEF Noticed, Acked
<1>6. PushedAt'
  BY <1>2 DEF PushedAt, cmain
<1> QED BY <1>1, <1>3, <1>4, <1>5, <1>6

\* The last element, through the reservation.
LEMMA WriteLastStep ==
  ASSUME MainIInv, WriteLast
  PROVE  MainIInv'
<1> USE DEF MainIInv, WriteLast, Prog, PMain
<1>1. IInv'
  BY NextIInv, InterprocessAssumption DEF Next, ProducerNext
<1>2. /\ UNCHANGED <<tail, head, ppc, ptail, rcount, cpc, got, cstart>>
      /\ rwritten' = rwritten + 1 /\ log' = Append(log, last)
  BY DEF WriteNext, consumer
<1>3. ProducerPlace' /\ ConsumerPlace'
  BY <1>2, ProducerApart DEF ProducerPlace, beats, Waiting, Acked
<1>4. CursorsAt'
  BY <1>2 DEF CursorsAt, Waiting, cmain
<1>5. BeatsCounted'
  BY SameBeats DEF Noticed, Acked
<1>6. Len(log) = cstart + N /\ cstart \in Nat
  BY DEF IInv, TypeOK, CursorsAt, ProducerCursors, ProducerPlace
<1>7. PushedAt'
  BY <1>2, <1>6, WriteMainStep, InterprocessAssumption, CapacityPositive DEF cmain
<1> QED BY <1>1, <1>3, <1>4, <1>5, <1>7

-----------------------------------------------------------------------------
\* The consumer joins where the producer has published everything it accepted.
LEMMA ConsumerProcessStep ==
  ASSUME MainIInv, ConsumerProcess
  PROVE  MainIInv'
<1> USE DEF MainIInv, ConsumerProcess, User, CMain
<1>0. UNCHANGED <<prog, last_consumer_heartbeat, beats, last_producer_heartbeat>>
  BY DEF pmain
<1>1. IInv'
  BY NextIInv DEF Next, ConsumerNext
<1>2. UNCHANGED <<tail, ppc, ptail, rcount, rwritten, log>>
  BY DEF ConsumerJoinLoad, ConsumerJoinStore, shared, producer, history
<1>3. ProducerPlace'
  BY <1>0, <1>2 DEF ProducerPlace, beats
<1>4. prog \in Waiting /\ ptail = tail
  BY NoticedWasSent DEF ProducerPlace, CursorsAt
<1>5. CASE User("start", "join") /\ ConsumerJoinLoad
  <2>1. cpc' = "joining" /\ cstart' = tail /\ got' = <<>> /\ head' = head
    BY <1>5 DEF ConsumerJoinLoad, shared
  <2>2. ConsumerPlace'
    BY <1>0, <1>5, <2>1 DEF ConsumerPlace, beats
  <2>3. CursorsAt'
    BY <1>0, <1>2, <1>4, <1>5, <2>1 DEF CursorsAt, Waiting
  <2>4. BeatsCounted'
    BY <1>0, <1>4, <1>5 DEF BeatsCounted, Sent, Noticed, beats, Waiting
  <2>5. PushedAt'
    BY <1>2, <1>4, <2>1 DEF PushedAt, IInv, TypeOK, ProducerCursors, ProducerPlace,
       Waiting
  <2> QED BY <1>1, <1>3, <2>2, <2>3, <2>4, <2>5
<1>6. CASE User("join", "load_beat") /\ ConsumerJoinStore
  <2>1. cpc' = "idle" /\ head' = chead /\ UNCHANGED <<cstart, got>>
    BY <1>6 DEF ConsumerJoinStore, history
  <2>2. ConsumerPlace'
    BY <1>0, <1>6, <2>1 DEF ConsumerPlace, beats
  <2>3. CursorsAt'
    BY <1>0, <1>2, <1>4, <1>6, <2>1 DEF CursorsAt, Waiting, IInv, ConsumerCursors
  <2>4. BeatsCounted'
    BY <1>0, <1>4, <1>6 DEF BeatsCounted, Sent, Noticed, beats, Waiting
  <2>5. PushedAt'
    BY <1>2, <1>6, <2>1 DEF PushedAt
  <2> QED BY <1>1, <1>3, <2>2, <2>3, <2>4, <2>5
<1> QED BY <1>5, <1>6

\* The consumer's main between its operations on the channel.
LEMMA ConsumerQuietStep ==
  ASSUME MainIInv, UNCHANGED vars,
         \/ LoadProducerBeat \/ AwaitProducerAck
         \/ Ack("ack1", "pop") \/ Ack("ack2", "wait") \/ Ack("ack3", "done")
         \/ /\ CMain
            /\ \/ Len(got) = N /\ User("pop", "ack2")
               \/ Len(got) = N + 1 /\ User("pop_last", "ack3")
  PROVE  MainIInv'
<1> USE DEF MainIInv, LoadProducerBeat, AwaitProducerAck, Ack, CMain, User
<1>0. UNCHANGED <<tail, head, ppc, ptail, rcount, rwritten, cpc, got, cstart, log, prog,
                  producer_heartbeat, last_consumer_heartbeat>>
  BY DEF vars, shared, producer, consumer, history, beats, pmain
<1>1. IInv'
  BY QuietStep
<1>t. consumer_heartbeat \in Nat /\ last_consumer_heartbeat \in Nat
  BY DEF ProducerPlace, ConsumerPlace
<1>2. ProducerPlace'
  BY <1>0 DEF ProducerPlace
<1>3. ConsumerPlace'
  BY <1>0, <1>t, CapacityPositive DEF ConsumerPlace, ProducerPlace, beats
<1>4. CursorsAt'
  BY <1>0 DEF CursorsAt, Unsynced
<1>5. BeatsCounted'
  <2>1. Noticed' = Noticed /\ Noticed \in Nat
    BY <1>0 DEF Noticed
  <2>2. prog \notin {"start", "join", "load_beat"} =>
          /\ last_consumer_heartbeat' <= consumer_heartbeat'
          /\ consumer_heartbeat' - Sent' + Noticed' <= last_consumer_heartbeat'
    <3>1. Sent \in Nat /\ Sent' \in Nat
      BY DEF Sent
    <3>2. \/ Sent' = Sent /\ consumer_heartbeat' = consumer_heartbeat
          \/ Sent' = Sent + 1 /\ consumer_heartbeat' = consumer_heartbeat + 1
      BY DEF Sent, beats
    <3> QED BY <1>0, <1>t, <2>1, <3>1, <3>2 DEF BeatsCounted
  <2>3. user' \in {"ack1", "pop", "ack2", "wait"} /\ prog \notin Acked =>
          last_producer_heartbeat' = producer_heartbeat
    BY <1>0 DEF BeatsCounted, beats
  <2>4. user' \in {"pop_last", "ack3", "done"} => prog \in Acked
    BY DEF BeatsCounted
  <2> QED BY <1>0, <2>2, <2>3, <2>4 DEF BeatsCounted
<1>6. PushedAt'
  BY <1>0 DEF PushedAt
<1> QED BY <1>1, <1>2, <1>3, <1>4, <1>5, <1>6

\* The consumer's pops, until it has as many as it waits for.
LEMMA PopMainStep ==
  ASSUME MainIInv, CMain,
         \/ User("pop", "pop") /\ Len(got) < N
         \/ User("pop_last", "pop_last") /\ Len(got) < N + 1,
         PopCheck \/ PopRead \/ PopReturn
  PROVE  MainIInv'
<1> USE DEF MainIInv, User, CMain
<1>0. UNCHANGED <<prog, last_consumer_heartbeat, beats, last_producer_heartbeat, user>>
  BY DEF pmain
<1>1. IInv'
  BY NextIInv DEF Next, ConsumerNext
<1>2. /\ UNCHANGED <<tail, ppc, ptail, rcount, rwritten, log, cstart>>
      /\ cpc' \in {"idle", "read", "got"}
      /\ \/ UNCHANGED <<head, got>>
         \/ cpc' = "idle" /\ head' \in {head, chead + 1} /\ got' = Append(got, cval)
  BY DEF PopCheck, PopRead, PopReturn, AdvanceHead, shared, producer, history
<1>t. /\ got \in Seq(Values \cup {Junk}) /\ cval \in Values \cup {Junk}
      /\ Len(got) \in Nat /\ cstart \in Nat /\ chead \in Nat /\ cstart <= chead
      /\ head \in Nat
  BY DEF IInv, TypeOK, ConsumerCursors
<1>3. ProducerPlace'
  BY <1>0, <1>2 DEF ProducerPlace, beats
<1>4. ConsumerPlace'
  <2>1. Len(got') = Len(got) \/ (Len(got') = Len(got) + 1 /\ cpc' = "idle")
    BY <1>2, <1>t, AppendFacts
  <2>2. Len(got') = Len(got) \/ Len(got') = Len(got) + 1
    BY <2>1
  <2> QED BY <1>0, <1>2, <1>t, <2>1, CapacityPositive DEF ConsumerPlace, beats
<1>5. CursorsAt'
  BY <1>0, <1>2, <1>t DEF CursorsAt, Unsynced
<1>6. BeatsCounted'
  BY <1>0 DEF BeatsCounted, Sent, Noticed, beats
<1>7. PushedAt'
  BY <1>0, <1>2 DEF PushedAt
<1> QED BY <1>1, <1>3, <1>4, <1>5, <1>6, <1>7

-----------------------------------------------------------------------------
\* The two programs keep to the places that the other one's beats tell them, in
\* every interleaving, whichever way the region was left before and however
\* early the consumer is started.
THEOREM MainInvariance == MainSpec => []MainIInv
<1>1. MainIInv /\ [MainNext]_mainVars => MainIInv'
  <2> SUFFICES ASSUME MainIInv, [MainNext]_mainVars PROVE MainIInv'
    OBVIOUS
  <2>1. CASE ProducerMain
    <3>1. CASE JoinOrCreate \/ UnlinkAndCreate
      BY <3>1, JoinMainStep
    <3>2. CASE Publish \/ ReserveLoop \/ CommitLast
      BY <3>2, PublishMainStep
    <3>3. CASE WriteLast
      BY <3>3, WriteLastStep
    <3>4. CASE PushValues
      BY <3>4, PushMainStep, ProducerQuietStep DEF PushValues
    <3>5. CASE \/ ProducerProcess \/ LoadBeat \/ SendAck \/ CleanUp
               \/ AwaitAck("ack1", "push") \/ AwaitAck("ack2", "beat")
               \/ AwaitAck("ack3", "cleanup") \/ LosslessPushShouldFail
      <4>1. UNCHANGED vars
        BY <3>5 DEF ProducerProcess, LoadBeat, SendAck, CleanUp, AwaitAck,
           LosslessPushShouldFail
      <4> QED BY <3>5, <4>1, ProducerQuietStep
    <3> QED BY <2>1, <3>1, <3>2, <3>3, <3>4, <3>5 DEF ProducerMain
  <2>2. CASE ConsumerMain
    <3>1. CASE ConsumerProcess
      BY <3>1, ConsumerProcessStep
    <3>2. CASE PopValues("pop", N, "ack2") \/ PopValues("pop_last", N + 1, "ack3")
      BY <3>2, PopMainStep, ConsumerQuietStep DEF PopValues
    <3>3. CASE \/ LoadProducerBeat \/ AwaitProducerAck
               \/ Ack("ack1", "pop") \/ Ack("ack2", "wait") \/ Ack("ack3", "done")
      <4>1. UNCHANGED vars
        BY <3>3 DEF LoadProducerBeat, AwaitProducerAck, Ack
      <4> QED BY <3>3, <4>1, ConsumerQuietStep
    <3> QED BY <2>2, <3>1, <3>2, <3>3 DEF ConsumerMain
  <2>3. CASE UNCHANGED mainVars
    <3>1. UNCHANGED vars /\ UNCHANGED <<beats, pmain, cmain>>
      BY <2>3 DEF mainVars
    <3>2. UNCHANGED <<tail, head, ppc, ptail, rcount, rwritten, cpc, got, cstart, log,
             prog, user, producer_heartbeat, consumer_heartbeat,
             last_consumer_heartbeat, last_producer_heartbeat>>
      BY <3>1 DEF vars, shared, producer, consumer, history, beats, pmain, cmain
    <3>3. IInv'
      BY <3>1, QuietStep
    <3> QED
      BY <3>2, <3>3 DEF MainIInv, ProducerPlace, ConsumerPlace, CursorsAt, Unsynced,
         BeatsCounted, Sent, Noticed, PushedAt
  <2> QED BY <2>1, <2>2, <2>3 DEF MainNext
<1> QED BY <1>1, MainInitMaps, PTL DEF MainSpec

\* No unwrap and no assertion of the producer's program fails: the N pushes
\* find room and the one behind them does not, for every capacity.
THEOREM AssertionsHoldCorrect == MainSpec => []AssertionsHold
<1>1. MainIInv => AssertionsHold
  BY DEF MainIInv, ProducerPlace, AssertionsHold, Waiting, Acked
<1> QED BY <1>1, MainInvariance, PTL

\* A heartbeat is the ack it is taken for: what the producer concludes from the
\* second and the third one has been read, in the order it was pushed.
THEOREM AcksMeanReadCorrect == MainSpec => []AcksMeanRead
<1>1. MainIInv => AcksMeanRead
  <2> SUFFICES ASSUME MainIInv PROVE AcksMeanRead
    OBVIOUS
  <2> USE DEF MainIInv
  <2>1. /\ prog \in {"beat", "reserve", "write", "commit", "ack3"} => Len(got) >= N
        /\ prog \in {"cleanup", "done"} => Len(got) = N + 1
    BY NoticedWasSent, CapacityPositive DEF ConsumerPlace
  <2>2. user \in {"pop_last", "ack3", "done"} =>
          prog \in {"reserve", "write", "commit", "ack3", "cleanup", "done"}
    BY DEF BeatsCounted, Acked
  <2>3. ASSUME NEW i \in 1 .. Len(got)
        PROVE  got[i] = IF i <= N THEN value ELSE last
    <3>1. user # "start"
      BY DEF ConsumerPlace
    <3>2. i \in 1 .. Len(log) - cstart
      BY DEF IInv, TypeOK, Fifo, SpaceAccounting, ProducerCursors
    <3> QED BY <3>1, <3>2 DEF PushedAt, IInv, Fifo
  <2> QED BY <2>1, <2>2, <2>3 DEF AcksMeanRead
<1> QED BY <1>1, MainInvariance, PTL

-----------------------------------------------------------------------------
(***************************************************************************)
(* Neither program is left waiting.  It takes a consumer that is started   *)
(* after the producer's constructor has returned, so that no beat of its   *)
(* is mistaken for one of an earlier run, and a ring of fewer than eight   *)
(* slots, so that the commit of the last element publishes it: the example *)
(* has four.                                                               *)
(***************************************************************************)

\* No beat is lost, none is taken for two, and the last element is published.
EveryBeatCounts ==
  /\ prog \in {"start", "join", "load_beat"} => user = "start"
  /\ prog \notin {"start", "join", "load_beat"} =>
       consumer_heartbeat - Sent + Noticed = last_consumer_heartbeat
  /\ user \in {"ack1", "pop", "ack2", "wait"} /\ prog \in Acked =>
       producer_heartbeat = last_producer_heartbeat + 1
  /\ prog \in {"ack3", "cleanup", "done"} => tail = ptail

\* What the loops of the two programs wait for has not come, or they are at
\* their end.
ProducerWaits ==
  \/ prog \in {"ack1", "ack2", "ack3"} /\ consumer_heartbeat = last_consumer_heartbeat
  \/ prog = "reserve" /\ AvailableSpace < 1
  \/ prog = "done"
ConsumerWaits ==
  \/ user = "start" /\ (prog \in {"start", "join", "load_beat"} \/ ~magic)
  \/ /\ \/ user = "pop" /\ Len(got) < N
        \/ user = "pop_last" /\ Len(got) < N + 1
     /\ cpc = "idle" /\ tail <= chead
  \/ user = "wait" /\ producer_heartbeat = last_producer_heartbeat
  \/ user = "done"

\* How many beats the consumer can have sent while the producer waits for one.
LEMMA SentAhead ==
  ASSUME MainIInv
  PROVE  /\ Sent \in 0 .. 3 /\ Noticed \in 0 .. 3
         /\ prog = "ack1" => Sent <= 1
         /\ prog = "ack2" => Sent <= 2
<1> USE DEF MainIInv
<1>1. /\ tail \in Nat /\ chead \in Nat /\ cstart \in Nat /\ chead <= tail
      /\ Len(got) = chead - cstart
  BY DEF IInv, TypeOK, SpaceAccounting, Fifo
<1>2. Sent \in 0 .. 3 /\ Noticed \in 0 .. 3
  BY DEF Sent, Noticed
<1>3. prog = "ack1" => Sent <= 1
  BY <1>1, CapacityPositive DEF Sent, ConsumerPlace, CursorsAt, Waiting
<1>4. prog = "ack2" => Sent <= 2
  BY <1>1, CapacityPositive DEF Sent, ConsumerPlace, CursorsAt, Waiting
<1> QED BY <1>2, <1>3, <1>4

\* Each program's step keeps the count of the beats exact.
LEMMA EveryBeatStep ==
  ASSUME MainIInv, MainIInv', EveryBeatCounts, [MainNext]_mainVars,
         StartAfter = "constructor", burst_amount = 1
  PROVE  EveryBeatCounts'
<1> USE DEF MainIInv
<1>t. /\ consumer_heartbeat \in Nat /\ last_consumer_heartbeat \in Nat
      /\ producer_heartbeat \in Nat /\ last_producer_heartbeat \in Nat
      /\ tail \in Nat /\ ptail \in Nat /\ pwritten \in Nat
  BY DEF ProducerPlace, ConsumerPlace, IInv, TypeOK
<1>1. CASE JoinOrCreate \/ UnlinkAndCreate \/ ProducerProcess
  <2>1. prog' \in {"join", "load_beat"} /\ prog \in {"start", "join"} /\ user' = user
    BY <1>1 DEF JoinOrCreate, UnlinkAndCreate, ProducerProcess, Prog, PMain, cmain
  <2> QED BY <2>1 DEF EveryBeatCounts, Acked
<1>2. CASE LoadBeat
  <2>1. /\ prog = "load_beat" /\ prog' = "ack1" /\ user' = user
        /\ last_consumer_heartbeat' = consumer_heartbeat
        /\ consumer_heartbeat' = consumer_heartbeat
    BY <1>2 DEF LoadBeat, Prog, beats, cmain
  <2>2. Sent' = 0 /\ Noticed' = 0
    BY <2>1 DEF EveryBeatCounts, Sent, Noticed
  <2> QED BY <1>t, <2>1, <2>2 DEF EveryBeatCounts, Acked
<1>3. CASE \/ AwaitAck("ack1", "push") \/ AwaitAck("ack2", "beat")
           \/ AwaitAck("ack3", "cleanup")
  <2>1. /\ UNCHANGED <<user, producer_heartbeat, consumer_heartbeat,
                       last_producer_heartbeat, tail, ptail>>
        /\ last_consumer_heartbeat' = consumer_heartbeat
        /\ consumer_heartbeat # last_consumer_heartbeat
    BY <1>3 DEF AwaitAck, beats, cmain, vars, shared, producer
  <2>2. /\ prog \in {"ack1", "ack2", "ack3"} /\ Noticed' = Noticed + 1
        /\ prog' \in {"push", "beat", "cleanup"}
        /\ prog' \in Acked <=> prog \in Acked
        /\ prog' = "cleanup" => prog = "ack3"
    BY <1>3 DEF AwaitAck, Prog, Noticed, Acked
  <2>3. Sent = Noticed + 1 /\ Sent' = Sent
    <3>1. Sent <= Noticed + 1 /\ Sent \in Nat /\ Noticed \in Nat
      BY <2>2, SentAhead DEF Noticed
    <3>2. Noticed # Sent /\ Noticed <= Sent
      BY <1>t, <2>1, <2>2, <3>1, NoticedWasSent DEF EveryBeatCounts
    <3> QED BY <2>1, <3>1, <3>2 DEF Sent
  <2>4. consumer_heartbeat' - Sent' + Noticed' = last_consumer_heartbeat'
    BY <1>t, <2>1, <2>2, <2>3, SentAhead
  <2> QED BY <2>1, <2>2, <2>4 DEF EveryBeatCounts
<1>4. CASE SendAck
  <2>1. /\ prog = "beat" /\ prog' = "reserve"
        /\ UNCHANGED <<user, consumer_heartbeat, last_consumer_heartbeat,
                       last_producer_heartbeat>>
        /\ producer_heartbeat' = producer_heartbeat + 1
    BY <1>4 DEF SendAck, Prog, cmain
  <2>2. Sent' = Sent /\ Noticed' = Noticed
    BY <2>1 DEF Sent, Noticed
  <2>3. user \in {"ack1", "pop", "ack2", "wait"} =>
          last_producer_heartbeat = producer_heartbeat
    BY <2>1 DEF BeatsCounted, Acked
  <2> QED BY <2>1, <2>2, <2>3 DEF EveryBeatCounts
<1>5. CASE \/ PushValues \/ LosslessPushShouldFail \/ Publish
           \/ ReserveLoop \/ WriteLast \/ CommitLast \/ CleanUp
  <2>1. UNCHANGED <<user, producer_heartbeat, consumer_heartbeat,
                    last_consumer_heartbeat, last_producer_heartbeat>>
    BY <1>5 DEF PushValues, LosslessPushShouldFail, Publish, ReserveLoop, WriteLast,
       CommitLast, CleanUp, PMain, beats, cmain
  <2>2. /\ prog' # "panic"
        /\ \/ prog \in {"push", "full", "sync"} /\ prog' \in {"push", "full", "sync", "ack2", "panic"}
           \/ prog = "reserve" /\ prog' = "write"
           \/ prog = "write" /\ prog' = "commit"
           \/ CommitLast /\ prog = "commit" /\ prog' = "ack3"
           \/ prog = "cleanup" /\ prog' = "done" /\ UNCHANGED vars
    <3>1. prog' # "panic"
      BY DEF ProducerPlace, Waiting, Acked
    <3> QED BY <1>5, <3>1 DEF PushValues, LosslessPushShouldFail, Publish, ReserveLoop,
            WriteLast, CommitLast, CleanUp, Prog
  <2>3. /\ Sent' = Sent /\ Noticed' = Noticed
        /\ prog' \in Acked <=> prog \in Acked
        /\ {prog, prog'} \cap {"start", "join", "load_beat"} = {}
    BY <2>1, <2>2 DEF Sent, Noticed, Acked
  <2>4. prog' \in {"ack3", "cleanup", "done"} => tail' = ptail'
    <3>1. CASE CommitLast
      BY <1>t, <3>1 DEF CommitLast, Prog, Commit, ProducerPlace
    <3>2. CASE UNCHANGED vars /\ prog = "cleanup"
      BY <3>2 DEF vars, shared, producer, EveryBeatCounts
    <3> QED BY <2>2, <3>1, <3>2
  <2> QED BY <2>1, <2>3, <2>4 DEF EveryBeatCounts
<1>6. CASE ConsumerProcess \/ LoadProducerBeat \/ AwaitProducerAck
           \/ PopValues("pop", N, "ack2") \/ PopValues("pop_last", N + 1, "ack3")
  <2>1. /\ UNCHANGED <<prog, last_consumer_heartbeat, consumer_heartbeat,
                       producer_heartbeat, tail, ptail>>
        /\ prog \notin {"start", "join", "load_beat"}
    <3>1. UNCHANGED <<prog, last_consumer_heartbeat, consumer_heartbeat, producer_heartbeat>>
      BY <1>6 DEF ConsumerProcess, LoadProducerBeat, AwaitProducerAck, PopValues, CMain,
         beats, pmain
    <3>2. UNCHANGED <<tail, ptail>>
      BY <1>6 DEF ConsumerProcess, LoadProducerBeat, AwaitProducerAck, PopValues,
         ConsumerJoinLoad, ConsumerJoinStore, PopCheck, PopRead, PopReturn, vars, shared,
         producer
    <3>3. prog \notin {"start", "join", "load_beat"}
      BY <1>6 DEF ConsumerProcess, LoadProducerBeat, AwaitProducerAck, PopValues, User,
         EveryBeatCounts
    <3> QED BY <3>1, <3>2, <3>3
  <2>2. Sent' = Sent /\ Noticed' = Noticed
    BY <1>6, <2>1 DEF ConsumerProcess, LoadProducerBeat, AwaitProducerAck, PopValues, User,
       Sent, Noticed
  <2>3. user' \in {"ack1", "pop", "ack2", "wait"} /\ prog \in Acked =>
          producer_heartbeat = last_producer_heartbeat' + 1
    <3>1. CASE LoadProducerBeat
      BY <3>1, NoticedWasSent DEF LoadProducerBeat, User, Acked, Waiting
    <3>2. CASE ConsumerProcess \/ AwaitProducerAck
      BY <3>2 DEF ConsumerProcess, AwaitProducerAck, User
    <3>3. CASE PopValues("pop", N, "ack2") \/ PopValues("pop_last", N + 1, "ack3")
      BY <3>3 DEF PopValues, User, CMain, EveryBeatCounts
    <3> QED BY <1>6, <3>1, <3>2, <3>3
  <2> QED BY <2>1, <2>2, <2>3 DEF EveryBeatCounts
<1>7. CASE Ack("ack1", "pop") \/ Ack("ack2", "wait") \/ Ack("ack3", "done")
  <2>1. /\ UNCHANGED <<prog, last_consumer_heartbeat, producer_heartbeat,
                       last_producer_heartbeat, tail, ptail>>
        /\ consumer_heartbeat' = consumer_heartbeat + 1
        /\ user \in {"ack1", "ack2", "ack3"} /\ user' \in {"pop", "wait", "done"}
        /\ user' \in {"pop", "wait"} => user \in {"ack1", "ack2"}
    BY <1>7 DEF Ack, User, pmain, vars, shared, producer
  <2>2. Sent' = Sent + 1 /\ Noticed' = Noticed
    BY <1>7, <2>1 DEF Ack, User, Sent, Noticed
  <2>3. prog \notin {"start", "join", "load_beat"}
    BY <2>1 DEF EveryBeatCounts
  <2> QED BY <1>t, <2>1, <2>2, <2>3, SentAhead DEF EveryBeatCounts
<1>8. CASE UNCHANGED mainVars
  BY <1>8 DEF mainVars, vars, shared, producer, beats, pmain, cmain, EveryBeatCounts,
     Sent, Noticed
<1> QED BY <1>1, <1>2, <1>3, <1>4, <1>5, <1>6, <1>7, <1>8
        DEF MainNext, ProducerMain, ConsumerMain

\* Everyone does not wait on everyone: in every interleaving, and whatever an
\* earlier run has left, one of the two programs can go on until both are at
\* their end.  This is the safety behind BothEnd.
THEOREM NobodyIsStuck ==
  ASSUME StartAfter = "constructor", burst_amount = 1
  PROVE  MainSpec => [](ProducerWaits /\ ConsumerWaits => prog = "done" /\ user = "done")
<1>1. MainInit => EveryBeatCounts
  BY DEF MainInit, EveryBeatCounts, Acked
<1>2. MainIInv /\ MainIInv' /\ EveryBeatCounts /\ [MainNext]_mainVars => EveryBeatCounts'
  BY EveryBeatStep
<1>3. MainIInv /\ EveryBeatCounts =>
        (ProducerWaits /\ ConsumerWaits => prog = "done" /\ user = "done")
  <2> SUFFICES ASSUME MainIInv, EveryBeatCounts, ProducerWaits, ConsumerWaits
               PROVE  prog = "done" /\ user = "done"
    OBVIOUS
  <2> USE DEF MainIInv
  <2>1. /\ tail \in Nat /\ head \in Nat /\ ptail \in Nat /\ chead \in Nat /\ cstart \in Nat
        /\ consumer_heartbeat \in Nat /\ producer_heartbeat \in Nat /\ N \in Nat \ {0}
        /\ last_producer_heartbeat \in Nat
        /\ Len(got) = chead - cstart
    BY CapacityPositive DEF IInv, TypeOK, Fifo, ProducerPlace, ConsumerPlace
  <2>2. CASE prog \in {"ack1", "ack2", "ack3"} /\ consumer_heartbeat = last_consumer_heartbeat
    <3>1. Sent = Noticed
      BY <2>1, <2>2, SentAhead DEF EveryBeatCounts
    <3>2. magic
      BY <2>2 DEF IInv, Uninitialized, ProducerPlace
    <3>3. CASE prog = "ack1"
      <4>1. user \in {"start", "join", "load_beat", "ack1"}
        BY <3>1, <3>3 DEF Noticed, Sent, ConsumerPlace
      <4> QED BY <3>2, <3>3, <4>1 DEF ConsumerWaits
    <3>4. CASE prog = "ack2"
      <4>1. user \in {"pop", "ack2"}
        BY <3>1, <3>4 DEF Noticed, Sent
      <4>2. tail = cstart + N
        BY <3>4 DEF CursorsAt
      <4> QED BY <2>1, <4>1, <4>2 DEF ConsumerWaits
    <3>5. CASE prog = "ack3"
      <4>1. user \in {"wait", "pop_last", "ack3"}
        BY <3>1, <3>5 DEF Noticed, Sent
      <4>2. tail = cstart + N + 1
        BY <3>5 DEF CursorsAt, EveryBeatCounts
      <4>3. user = "wait" => producer_heartbeat = last_producer_heartbeat + 1
        BY <3>5 DEF EveryBeatCounts, Acked
      <4> QED BY <2>1, <4>1, <4>2, <4>3 DEF ConsumerWaits
    <3> QED BY <2>2, <3>3, <3>4, <3>5
  <2>3. CASE prog = "reserve" /\ AvailableSpace < 1
    <3>1. user \in {"wait", "pop_last", "ack3", "done"} /\ ptail = cstart + N
      BY <2>3, NoticedWasSent DEF CursorsAt
    <3>2. chead >= cstart + N /\ chead - head < 1
      BY <2>1, <3>1 DEF ConsumerPlace, IInv, HeadLag
    <3> QED BY <2>1, <2>3, <3>1, <3>2 DEF AvailableSpace
  <2>4. CASE prog = "done"
    BY <2>4, NoticedWasSent
  <2> QED BY <2>2, <2>3, <2>4 DEF ProducerWaits
<1> QED BY <1>1, <1>2, <1>3, MainInvariance, PTL DEF MainSpec

-----------------------------------------------------------------------------
(***************************************************************************)
(* The memory under the two programs, for every width of the counters,     *)
(* size of a page, alignment and element.                                  *)
(***************************************************************************)

\* Rounding up: the multiple of the page that is not below the size and less
\* than a page above it.
LEMMA RoundsUp ==
  ASSUME NEW page \in Nat \ {0}, NEW x \in Nat
  PROVE  \E k \in Nat : /\ get_upligned_size(page, x) = page * k
                        /\ x <= page * k /\ page * k < x + page
<1> DEFINE y == x + page - 1  k == y \div page  r == y % page
<1>1. y \in Nat /\ y = x + page - 1
  OBVIOUS
<1>2. k \in Int /\ r \in 0 .. page - 1 /\ y = page * k + r
  <2> HIDE DEF y
  <2> QED BY <1>1, DivMod
<1>3. get_upligned_size(page, x) = page * k
  BY DEF get_upligned_size, div_ceil
<1> HIDE DEF y, k, r
<1>4. page * k \in Int
  BY <1>2
<1>5. x <= page * k /\ page * k < x + page
  BY <1>1, <1>2, <1>4
<1>6. k \in Nat
  <2> SUFFICES ASSUME k <= -1 PROVE FALSE
    BY <1>2
  <2>1. page * k <= -page
    BY <1>2
  <2> QED BY <2>1, <1>4, <1>5
<1> QED BY <1>3, <1>5, <1>6

\* It is the only one.
LEMMA RoundedUpUnique ==
  ASSUME NEW page \in Nat \ {0}, NEW x \in Nat, NEW k \in Nat,
         x <= page * k, page * k < x + page
  PROVE  get_upligned_size(page, x) = page * k
<1>1. PICK j \in Nat : /\ get_upligned_size(page, x) = page * j
                       /\ x <= page * j /\ page * j < x + page
  BY RoundsUp
<1>2. page * j \in Int /\ page * k \in Int
  OBVIOUS
<1>3. ~(0 < page * j - page * k) /\ ~(0 < page * k - page * j)
  BY <1>1, <1>2, MultiplesApart
<1> QED BY <1>1, <1>2, <1>3

\* A multiple is its own rounding.
LEMMA MultipleStays ==
  ASSUME NEW page \in Nat \ {0}, NEW x \in Nat, NEW k \in Int, x = page * k
  PROVE  get_upligned_size(page, x) = x
<1>1. k \in Nat
  <2> SUFFICES ASSUME k <= -1 PROVE FALSE
    OBVIOUS
  <2>1. page * k <= -page
    OBVIOUS
  <2> QED BY <2>1
<1>2. x <= page * k /\ page * k < x + page
  OBVIOUS
<1>3. get_upligned_size(page, x) = page * k
  BY <1>1, <1>2, RoundedUpUnique
<1> QED BY <1>3

\* Rounding to the alignment first makes no difference to a page.
LEMMA RoundedTwice ==
  ASSUME NEW page \in Nat \ {0}, NEW a \in Nat \ {0}, page % a = 0, NEW x \in Nat
  PROVE  get_upligned_size(page, get_upligned_size(a, x)) = get_upligned_size(page, x)
<1>1. PICK j \in Nat : /\ get_upligned_size(a, x) = a * j
                       /\ x <= a * j /\ a * j < x + a
  BY RoundsUp
<1>2. PICK k \in Nat : /\ get_upligned_size(page, x) = page * k
                       /\ x <= page * k /\ page * k < x + page
  BY RoundsUp
<1> DEFINE c == page \div a
<1>3. c \in Int /\ page = a * c
  BY DivMod
<1> HIDE DEF c
<1>4. page * k = a * (c * k) /\ c * k \in Int
  BY <1>3
<1>5. a * j \in Nat /\ a * (c * k) \in Int /\ page * k \in Int
  BY <1>4
<1>6. a * j <= page * k
  <2> SUFFICES ASSUME a * j > page * k PROVE FALSE
    BY <1>5
  <2>1. 0 < a * j - a * (c * k) /\ a * j - a * (c * k) < a
    BY <1>1, <1>2, <1>4, <1>5
  <2> QED BY <1>4, <2>1, MultiplesApart
<1>7. page * k < a * j + page
  BY <1>1, <1>2, <1>5
<1>8. get_upligned_size(page, a * j) = page * k
  BY <1>5, <1>6, <1>7, RoundedUpUnique
<1> QED BY <1>1, <1>2, <1>8

LEMMA UsizeRangeFacts == UsizeRange \in Nat \ {0}
<1>1. UsizeRange \in PowersOfTwo
  BY MaskAssumption DEF UsizeRange, PowersOfTwo
<1> QED BY <1>1, MaskAssumption

\* The mask of C rounds to the page as Rust does.
LEMMA MaskRoundsUp ==
  ASSUME NEW page \in PowersOfTwo, NEW x \in Nat, x + page <= UsizeRange
  PROVE  AlignToPageSize(x, page) = get_upligned_size(page, x)
<1> DEFINE y == x + page - 1
<1>1. page \in Nat \ {0} /\ UsizeRange % page = 0
  BY MaskAssumption
<1>0. UsizeRange \in Int
  BY UsizeRangeFacts
<1>2. y \in 0 .. UsizeRange - 1
  BY <1>0, <1>1
<1>3. BitAnd(y, UsizeRange - page) = y - (y % page)
  BY <1>2, MaskAssumption
<1>4. y - (y % page) = page * (y \div page)
  <2> HIDE DEF y
  <2>1. y \in Nat
    BY <1>2
  <2>2. y % page \in Int /\ y \div page \in Int /\ y = page * (y \div page) + (y % page)
    BY <1>1, <2>1, DivMod
  <2>3. page * (y \div page) \in Int
    BY <1>1, <2>2
  <2> QED BY <2>2, <2>3, <2>1
<1> QED BY <1>3, <1>4 DEF AlignToPageSize, get_upligned_size, div_ceil

\* A counter of UsizeRange values, wrapped around or not, is masked to the slot
\* of its position.
LEMMA MaskIsIndex ==
  ASSUME NEW i \in Nat, NEW lap \in Nat
  PROVE  RingSlot((lap * N) + i, N) = Index(i)
<1> DEFINE x == (lap * N) + i  s == x % UsizeRange
<1>1. N \in Nat \ {0} /\ UsizeRange % N = 0
  BY MaskAssumption, RingAssumption
<1>2. UsizeRange \in Nat \ {0}
  BY UsizeRangeFacts
<1>3. x \in Nat /\ x = N * lap + i
  BY <1>1
<1>4. s \in 0 .. UsizeRange - 1 /\ x \div UsizeRange \in Int
      /\ x = UsizeRange * (x \div UsizeRange) + s
  <2> HIDE DEF x
  <2> QED BY <1>2, <1>3, DivMod
<1>5. BitAnd(s, N - 1) = s % N
  BY <1>4, MaskAssumption, RingAssumption
<1> DEFINE a == x \div UsizeRange  u == UsizeRange \div N
           b == s \div N  t == s % N  c == i \div N  e == i % N
<1>6. u \in Int /\ UsizeRange = N * u
  BY <1>1, <1>2, DivMod
<1>7. b \in Int /\ t \in 0 .. N - 1 /\ s = N * b + t
  <2> HIDE DEF s
  <2> QED BY <1>1, <1>4, DivMod
<1>8. c \in Int /\ e \in 0 .. N - 1 /\ i = N * c + e
  BY <1>1, DivMod
<1> HIDE DEF x, s, a, u, b, t, c, e
<1> DEFINE f == lap + c  g == u * a + b
<1>9. x = N * f + e /\ f \in Int
  BY <1>1, <1>3, <1>8
<1>10. x = N * g + t /\ g \in Int
  <2>1. a \in Int /\ x = (N * u) * a + s
    BY <1>4, <1>6 DEF a
  <2>2. (N * u) * a = N * (u * a) /\ u * a \in Int
    BY <1>1, <1>6, <2>1
  <2>3. g \in Int /\ N * g = N * (u * a) + N * b
    BY <1>1, <1>7, <2>2
  <2> HIDE DEF g
  <2>4. x = N * (u * a) + s
    BY <2>1, <2>2
  <2>5. N * (u * a) \in Int /\ N * b \in Int /\ t \in Int
    BY <1>1, <1>7, <2>2
  <2> QED BY <1>7, <2>3, <2>4, <2>5
<1> HIDE DEF f, g
<1>11. x % N = e
  BY ZenonT(60), <1>1, <1>3, <1>8, <1>9, ModUnique
<1>12. x % N = t
  BY <1>1, <1>3, <1>7, <1>10, ModUnique
<1> QED BY <1>5, <1>11, <1>12 DEF RingSlot, Index, t, e, s, x

\* Every field of Channel is where C has it.
LEMMA OffsetsAgree ==
  ASSUME NEW n \in RingSizes, NEW t \in Types
  PROVE  ChannelOffsets(n, t) = COffsets(n, t)
<1>1. /\ ALIGN \in Nat \ {0} /\ WORD \in Nat \ {0} /\ HEADER = 5 * ALIGN
      /\ 2 * WORD <= ALIGN /\ ALIGN % WORD = 0
  BY PageAssumption, LayoutAssumption
<1>2. t.align \in Nat \ {0} /\ ALIGN % t.align = 0
  <2>1. t.align \in PowersOfTwo /\ ALIGN % t.align = 0
    BY DEF Types
  <2> QED BY <2>1, MaskAssumption
<1> DEFINE w == ALIGN \div WORD  v == ALIGN \div t.align
<1>3. w \in Int /\ ALIGN = WORD * w
  BY <1>1, DivMod
<1>4. v \in Int /\ ALIGN = t.align * v
  <2> DEFINE a == t.align
  <2>1. a \in Nat \ {0} /\ ALIGN % a = 0
    BY <1>2
  <2> HIDE DEF a
  <2>2. ALIGN \div a \in Int /\ ALIGN = a * (ALIGN \div a)
    BY <1>1, <2>1, DivMod
  <2> QED BY <2>2 DEF a
<1> HIDE DEF w, v
<1>5. Behind(0, ALIGN, ALIGN) = ALIGN
  <2>1. 0 + ALIGN = ALIGN /\ ALIGN = ALIGN * 1
    BY <1>1
  <2> QED BY <1>1, <2>1, MultipleStays DEF Behind
<1>6. Behind(ALIGN, ALIGN, ALIGN) = 2 * ALIGN
  <2>1. ALIGN + ALIGN = ALIGN * 2 /\ ALIGN + ALIGN \in Nat
    BY <1>1
  <2> QED BY <1>1, <2>1, MultipleStays DEF Behind
<1>7. Behind(2 * ALIGN, ALIGN, ALIGN) = 3 * ALIGN
  <2>1. 2 * ALIGN + ALIGN = ALIGN * 3 /\ 2 * ALIGN + ALIGN \in Nat
    BY <1>1
  <2> QED BY <1>1, <2>1, MultipleStays DEF Behind
<1>8. Behind(3 * ALIGN, ALIGN, 1) = 4 * ALIGN
  <2>1. 3 * ALIGN + ALIGN = 1 * (4 * ALIGN) /\ 4 * ALIGN \in Nat
    BY <1>1
  <2> QED BY <1>1, <2>1, MultipleStays DEF Behind
<1>9. Behind(4 * ALIGN, ALIGN - 2 * WORD, WORD) = HEADER - 2 * WORD
  <2> DEFINE x == 4 * ALIGN + (ALIGN - 2 * WORD)  k == 5 * w - 2
  <2>1. x \in Nat /\ x = HEADER - 2 * WORD /\ k \in Int
    BY <1>1, <1>3
  <2>2. x = WORD * k
    BY <1>1, <1>3
  <2> HIDE DEF k
  <2> QED BY <1>1, <2>1, <2>2, MultipleStays DEF Behind
<1>10. Behind(HEADER - 2 * WORD, WORD, WORD) = HEADER - WORD
  <2> DEFINE x == (HEADER - 2 * WORD) + WORD  k == 5 * w - 1
  <2>1. x \in Nat /\ x = HEADER - WORD /\ k \in Int
    BY <1>1, <1>3
  <2>2. x = WORD * k
    BY <1>1, <1>3
  <2> HIDE DEF k
  <2> QED BY <1>1, <2>1, <2>2, MultipleStays DEF Behind
<1>11. Behind(HEADER - WORD, WORD, t.align) = HEADER
  <2> DEFINE x == (HEADER - WORD) + WORD  k == 5 * v
  <2>1. x \in Nat /\ x = HEADER /\ k \in Int
    BY <1>1, <1>4
  <2>2. x = t.align * k
    BY <1>1, <1>2, <1>4
  <2> HIDE DEF k
  <2> QED BY <1>2, <2>1, <2>2, MultipleStays DEF Behind
<1>12. Behind(HEADER, n * t.size, ALIGN) = SizeOfChannel(n, t.size)
  BY DEF Behind, SizeOfChannel
<1> QED BY <1>5, <1>6, <1>7, <1>8, <1>9, <1>10, <1>11, <1>12
        DEF ChannelOffsets, COffsets

\* No size of a segment overflows, and the mask and the two roundings lead to
\* one number of bytes.
LEMMA LayoutIsShared == SameLayout
<1> SUFFICES ASSUME NEW n \in RingSizes, NEW t \in Types, NEW ps \in PageSizes
             PROVE  /\ AlignToPageSize(CBufferSize(n, t), PageBytes(ps))
                         = mem_size(ps, COffsets(n, t).end)
                    /\ AlignToPageSize(CBufferSize(n, t), PageBytes(ps))
                         >= COffsets(n, t).buffer + n * t.size
  BY OffsetsAgree DEF SameLayout
<1> DEFINE page == PageBytes(ps)  x == HEADER + n * t.size
<1>1. /\ page \in Nat \ {0} /\ page \in PowersOfTwo /\ page % ALIGN = 0
      /\ HEADER + MaxCapacity * MaxElement + page <= UsizeRange
  BY PageAssumption, LayoutAssumption DEF PageSizes, PageBytes
<1>2. /\ ALIGN \in Nat \ {0} /\ HEADER \in Nat /\ UsizeRange \in Nat
      /\ MaxCapacity \in Nat /\ MaxElement \in Nat
  BY PageAssumption, LayoutAssumption, UsizeRangeFacts
<1>3. n \in Nat /\ n <= MaxCapacity /\ t.size \in Nat /\ t.size <= MaxElement
  BY <1>2, MaskAssumption DEF RingSizes, Types
<1> HIDE DEF page
<1>4. n * t.size \in Nat /\ n * t.size <= MaxCapacity * MaxElement
  <2>1. n * t.size <= MaxCapacity * t.size
    BY <1>2, <1>3
  <2>2. MaxCapacity * t.size <= MaxCapacity * MaxElement
    BY <1>2, <1>3
  <2>3. n * t.size \in Nat /\ MaxCapacity * t.size \in Nat /\ MaxCapacity * MaxElement \in Nat
    BY <1>2, <1>3
  <2> QED BY <2>1, <2>2, <2>3
<1>5. x \in Nat /\ x + page <= UsizeRange
  <2>1. MaxCapacity * MaxElement \in Nat
    BY <1>2
  <2> QED BY <1>1, <1>2, <1>4, <2>1
<1> HIDE DEF x
<1>6. AlignToPageSize(x, page) = get_upligned_size(page, x)
  BY <1>1, <1>5, MaskRoundsUp
<1>7. get_upligned_size(page, get_upligned_size(ALIGN, x)) = get_upligned_size(page, x)
  BY <1>1, <1>2, <1>5, RoundedTwice
<1>8. PICK k \in Nat : get_upligned_size(page, x) = page * k /\ x <= page * k
  BY <1>1, <1>5, RoundsUp
<1>9. COffsets(n, t).end = get_upligned_size(ALIGN, x) /\ COffsets(n, t).buffer = HEADER
  BY DEF COffsets, SizeOfChannel, x
<1> QED BY <1>6, <1>7, <1>8, <1>9 DEF CBufferSize, mem_size, x, page

\* Whoever finds the magic number finds every field and the buffer where the
\* other language has them, in a segment of the size it asks for itself.
THEOREM LayoutsAgreeCorrect == MainSpec => []LayoutsAgree
<1>1. LayoutsAgree
  BY LayoutIsShared DEF LayoutsAgree
<1> QED BY <1>1, PTL

\* What is published and not released is still in its slot.  Content has that
\* from the consumer's own head on: an Element may be torn by a crash of its
\* holder, which neither program does.
Unreleased == \A p \in head .. tail - 1 : buffer[Index(p)] = log[p + 1]

\* The programs write to no slot before it is released, and publish only what
\* they wrote.
LEMMA UnreleasedStep ==
  ASSUME MainIInv, Unreleased, [MainNext]_mainVars
  PROVE  Unreleased'
<1> USE DEF MainIInv
<1>1. /\ head \in Nat /\ tail \in Nat /\ ptail \in Nat /\ rwritten \in Nat /\ chead \in Nat
      /\ head <= chead /\ chead <= tail /\ tail <= ptail
      /\ log \in Seq(Values) /\ Len(log) = ptail + rwritten
      /\ buffer \in [Slots -> Values \cup {Junk}]
  BY DEF IInv, TypeOK, SpaceAccounting, ProducerCursors
<1>2. ASSUME NEW p \in head .. ptail + rwritten - 1
      PROVE  buffer[Index(p)] = log[p + 1]
  <2>1. CASE p < tail
    BY <1>1, <2>1 DEF Unreleased
  <2>2. CASE p >= tail
    <3>1. p \in ReadFrom .. ptail + rwritten - 1
      BY <1>1, <2>2 DEF ReadFrom
    <3> QED BY <3>1 DEF IInv, Content
  <2> QED BY <1>1, <2>1, <2>2
<1>3. ASSUME UNCHANGED <<buffer, log>>, head' \in Nat, head <= head',
             tail' \in Nat, tail' <= ptail + rwritten
      PROVE  Unreleased'
  <2>1. ASSUME NEW h \in Nat, NEW t \in Nat, head <= h, t <= ptail + rwritten
        PROVE  \A p \in h .. t - 1 : buffer[Index(p)] = log[p + 1]
    BY <1>1, <1>2, <2>1
  <2>2. \A p \in head' .. tail' - 1 : buffer[Index(p)] = log[p + 1]
    BY <1>3, <2>1
  <2> QED BY <1>3, <2>2 DEF Unreleased, Index
<1>4. ASSUME tail' = 0, head' \in Nat
      PROVE  Unreleased'
  BY <1>4 DEF Unreleased
<1>5. ASSUME NEW v \in Values, UNCHANGED <<head, tail>>,
             ptail + rwritten < head + N,
             buffer' = [buffer EXCEPT ![Index(ptail + rwritten)] = v],
             log' = Append(log, v)
      PROVE  Unreleased'
  <2> SUFFICES ASSUME NEW p \in head .. tail - 1
               PROVE  buffer'[Index(p)] = log'[p + 1]
    BY <1>5 DEF Unreleased, Index
  <2> DEFINE q == ptail + rwritten
  <2>1. p \in Nat /\ q \in Nat /\ p < q /\ q < p + N
    BY <1>1, <1>5, CapacityPositive
  <2>2. Index(p) # Index(q) /\ Index(p) \in Slots /\ Index(q) \in Slots
    BY <2>1, IndexDistinct, IndexInSlots
  <2>3. buffer'[Index(p)] = buffer[Index(p)]
    BY <1>1, <1>5, <2>2
  <2>4. log'[p + 1] = log[p + 1]
    BY <1>1, <1>5, <2>1, AppendFacts
  <2> QED BY <2>3, <2>4 DEF Unreleased
<1>6. CASE UNCHANGED vars
  BY <1>1, <1>3, <1>6 DEF vars, shared, history
<1>7. CASE JoinOrCreate \/ UnlinkAndCreate
  <2>1. CASE ProducerJoin
    <3>1. UNCHANGED <<head, tail, buffer>> /\ log' = SubSeq(log, 1, tail)
      BY <2>1 DEF ProducerJoin, FreshProducer, shared
    <3>2. \A i \in 1 .. tail : log'[i] = log[i]
      BY <1>1, <3>1, PrefixFacts
    <3> QED BY <1>1, <3>1, <3>2 DEF Unreleased, Index
  <2>2. CASE ProducerInitialize \/ UnlinkAndCreate
    BY <1>1, <1>4, <2>2 DEF ProducerInitialize, UnlinkAndCreate
  <2> QED BY <1>7, <2>1, <2>2 DEF JoinOrCreate
<1>8. CASE PushCheck \/ Publish \/ ReserveLoop \/ CommitLast
  BY <1>1, <1>3, <1>8 DEF PushCheck, Publish, Sync, ReserveLoop, Reserve,
     CommitLast, Commit, shared, history
<1>9. CASE PushWrite(value) \/ WriteLast
  <2>1. ptail + rwritten < head + N /\ (PushWrite(value) => rwritten = 0)
    BY <1>1, <1>9, CapacityPositive DEF IInv, SpaceAccounting, ClaimEnd, TypeOK,
       ProducerCursors, PushWrite, WriteLast, WriteNext
  <2> QED BY <1>1, <1>5, <1>9, <2>1, InterprocessAssumption DEF PushWrite, WriteLast, WriteNext
<1>10. CASE ConsumerJoinLoad \/ ConsumerJoinStore \/ PopCheck \/ PopRead \/ PopReturn
  BY <1>1, <1>3, <1>10 DEF ConsumerJoinLoad, ConsumerJoinStore, PopCheck, PopRead,
     PopReturn, AdvanceHead, shared, history
<1>11. CASE ProducerMain
  BY <1>6, <1>7, <1>8, <1>9, <1>11 DEF ProducerMain, ProducerProcess, LoadBeat,
     AwaitAck, PushValues, LosslessPushShouldFail, SendAck, CleanUp
<1>12. CASE ConsumerMain
  BY <1>6, <1>10, <1>12 DEF ConsumerMain, ConsumerProcess, LoadProducerBeat, Ack,
     PopValues, AwaitProducerAck
<1> QED BY <1>6, <1>11, <1>12 DEF MainNext, mainVars

\* The masks of both languages lead to what was published, on whichever lap the
\* counters are and across their wrap: every element not yet released is in
\* the slot its counter is masked to.
THEOREM SlotsInOrderCorrect == MainSpec => []SlotsInOrder
<1>1. MainInit => Unreleased
  <2> SUFFICES ASSUME MainInit, NEW p \in head .. tail - 1
               PROVE  buffer[Index(p)] = log[p + 1]
    BY DEF Unreleased
  <2>1. PICK t \in 0 .. N + 1, h \in 0 .. N + 1, b \in 0 .. 1, c \in 0 .. 3 :
          /\ EarlierRun(t, h, b, c) /\ tail = t /\ head = h
          /\ log = [i \in 1 .. t |-> IF i <= N THEN value ELSE last]
          /\ buffer = [i \in Slots |-> IF t = 0 THEN Junk
                                       ELSE IF t > N /\ i = Index(N) THEN last ELSE value]
    BY DEF MainInit
  <2>2. p \in Nat /\ p < t /\ (t > N => p >= N) /\ t # 0 /\ Index(p) \in Slots
    <3>1. p \in Nat /\ p < t /\ (t > N => p >= N) /\ t # 0
      BY <2>1, CapacityPositive DEF EarlierRun
    <3> QED BY <3>1, IndexInSlots
  <2> QED BY <2>1, <2>2, CapacityPositive
<1>2. MainIInv /\ Unreleased => SlotsInOrder
  <2> SUFFICES ASSUME MainIInv, Unreleased, NEW i \in head .. tail - 1,
                      NEW lap \in 0 .. (UsizeRange \div N) - 1
               PROVE  buffer[RingSlot((lap * N) + i, N)] = log[i + 1]
    BY DEF SlotsInOrder
  <2>1. i \in Nat /\ lap \in Nat
    BY UsizeRangeFacts, CapacityPositive DEF MainIInv, IInv, TypeOK
  <2> QED BY <2>1, MaskIsIndex DEF Unreleased
<1>3. MainIInv /\ Unreleased /\ [MainNext]_mainVars => Unreleased'
  BY UnreleasedStep
<1> QED BY <1>1, <1>2, <1>3, MainInvariance, PTL DEF MainSpec

=============================================================================
