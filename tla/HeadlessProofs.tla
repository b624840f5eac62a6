--------------------------- MODULE HeadlessProofs ---------------------------
(***************************************************************************)
(* Proofs about the headless channel, for every capacity, every number of  *)
(* consumers, every set of values and every bound.  The inductive          *)
(* invariant is IInv of Headless.  All of it rests on StoresOrdered, that  *)
(* no slot write passes the store of the tail before it, and what is said  *)
(* of the values pop returns on Ordered, that the second load of the tail  *)
(* does not pass the slot read: the orders that the Release store and the  *)
(* Acquire load of the code do not give by themselves.                     *)
(***************************************************************************)
EXTENDS Headless, ChannelProofs

\* The constants as numbers.
LEMMA ConstantFacts ==
  /\ N \in Nat \ {0} /\ Interval \in Nat \ {0}
  /\ Consumers = 0 .. Interval - 1
  /\ burst_amount \in Nat /\ 1 <= burst_amount /\ burst_amount <= N
  /\ Window \in Nat /\ Window = N - burst_amount
<1>1. burst_amount \in Nat /\ 1 <= burst_amount /\ burst_amount <= N
  BY BurstFacts
<1>2. N \in Nat \ {0} /\ Interval \in Nat \ {0}
  BY CapacityPositive, IntervalAssumption
<1> QED BY <1>1, <1>2 DEF Window, Consumers

\* next_modulo returns the least number from head on in the class.
LEMMA NextModuloFacts ==
  ASSUME NEW head \in Nat, NEW c \in Consumers
  PROVE  LET r == next_modulo(head, c, Interval) IN
         /\ r \in Nat /\ head <= r /\ r < head + Interval
         /\ r % Interval = c
         /\ \A p \in head .. r - 1 : p % Interval # c
<1> DEFINE h == head % Interval
           a == (c + Interval - h) % Interval
           r == head + a
<1>1. Interval \in Nat \ {0} /\ c \in 0 .. Interval - 1 /\ h \in 0 .. Interval - 1
  BY ConstantFacts, DivMod
<1>2. c % Interval = c
  BY <1>1
<1> HIDE DEF h
<1>3. a = IF c + (Interval - h) < Interval THEN c + (Interval - h) ELSE c - h
  <2>1. Interval - h \in 0 .. Interval /\ c \in Nat
    BY <1>1
  <2>2. (c + (Interval - h)) % Interval
          = IF c + (Interval - h) < Interval THEN c + (Interval - h)
            ELSE c + (Interval - h) - Interval
    BY <1>1, <1>2, <2>1, ModAdvance
  <2>3. c + Interval - h = c + (Interval - h)
    BY <1>1
  <2>4. c + (Interval - h) - Interval = c - h
    BY <1>1
  <2> QED BY <2>2, <2>3, <2>4
<1> HIDE DEF a
<1>4. a \in 0 .. Interval - 1 /\ a \in 0 .. Interval
  BY <1>1, <1>3
<1>5. r \in Nat /\ head <= r /\ r < head + Interval
  BY <1>1, <1>4
<1>6. r % Interval = c
  <2>1. (head + a) % Interval = IF h + a < Interval THEN h + a ELSE h + a - Interval
    BY <1>1, <1>4, ModAdvance DEF h
  <2> QED BY <1>1, <1>3, <2>1
<1>7. ASSUME NEW p \in head .. r - 1 PROVE p % Interval # c
  <2>1. p \in Nat /\ p < r /\ r < p + Interval
    BY <1>1, <1>5
  <2> HIDE DEF r
  <2> QED BY <1>1, <1>5, <1>6, <2>1, ModDistinct
<1> QED BY <1>5, <1>6, <1>7 DEF next_modulo, r, a, h

-----------------------------------------------------------------------------
(***************************************************************************)
(* Every action of the producer preserves the inductive invariant.         *)
(***************************************************************************)

\* What the consumers know survives a step of the producer that keeps the
\* published part of the history and does not take the tail back.
LEMMA ConsumersKeep ==
  ASSUME IInv, UNCHANGED <<consumers, last>>, tail' >= tail, tail' \in Nat,
         \A i \in 1 .. tail : log'[i] = log[i]
  PROVE  ConsumerCursors' /\ ReadIsValid' /\ (Ordered => PopsPushed)'
<1> USE DEF IInv, consumers
<1>0. tail \in Nat /\ Window \in Nat
  BY ConstantFacts DEF TypeOK
<1>1. ConsumerCursors'
  <2> SUFFICES ASSUME NEW c \in Consumers
               PROVE  /\ last[c].pos < tail'
                      /\ last[c] # NoPop => last[c].pos % Interval = c
                      /\ cpc[c] # "down" => /\ chead[c] % Interval = c
                                            /\ last[c].pos < chead[c]
                      /\ cpc[c] \in {"read", "reading", "validate"} =>
                           chead[c] < ctail[c] /\ ctail[c] <= tail'
    BY DEF ConsumerCursors
  <2>1. last[c].pos \in Int /\ ctail[c] \in Nat
    BY DEF TypeOK, NoPop
  <2> QED BY <1>0, <2>1 DEF ConsumerCursors
<1>2. ReadIsValid'
  <2> SUFFICES ASSUME NEW c \in Consumers, cpc[c] \in {"reading", "validate"},
                      ~(tail' > chead[c] + Window)
               PROVE  cval[c] = log'[chead[c] + 1]
    BY DEF ReadIsValid, Overrun
  <2>1. chead[c] \in Nat /\ chead[c] < tail
    BY DEF TypeOK, ConsumerCursors
  <2>2. ~(tail > chead[c] + Window) /\ chead[c] + 1 \in 1 .. tail
    BY <1>0, <2>1
  <2> QED BY <2>2 DEF ReadIsValid, Overrun
<1>3. ASSUME Ordered PROVE PopsPushed'
  <2> SUFFICES ASSUME NEW c \in Consumers, last[c] # NoPop
               PROVE  /\ last[c].pos < tail'
                      /\ last[c].val = log'[last[c].pos + 1]
    BY DEF PopsPushed
  <2>1. last[c].pos \in Nat /\ last[c].pos < tail /\ last[c].val = log[last[c].pos + 1]
    BY <1>3 DEF TypeOK, PopsPushed
  <2>2. last[c].pos + 1 \in 1 .. tail
    BY <1>0, <2>1
  <2> QED BY <1>0, <2>1, <2>2
<1>4. Ordered' = Ordered
  OBVIOUS
<1> QED BY <1>1, <1>2, <1>3, <1>4

\* The first producer finds a channel nothing was written to.
LEMMA ProducerInitializeStep ==
  ASSUME IInv, ProducerInitialize
  PROVE  IInv'
<1> USE DEF IInv, ProducerInitialize, FreshProducer
<1>0. Len(log) = 0 /\ tail = 0 /\ ptail = 0 /\ burst_amount \in Nat /\ Window \in Nat
  BY ConstantFacts DEF TypeOK, ProducerCursors, Uninitialized
<1>1. log' \in Seq(Values) /\ Len(log') = 0
  BY <1>0, PrefixFacts DEF TypeOK
<1>2. TypeOK'
  BY <1>1 DEF TypeOK, consumers
<1>3. Uninitialized' /\ ProducerCursors'
  BY <1>0, <1>1 DEF Uninitialized, ProducerCursors
<1>4. Content'
  BY <1>0 DEF Content
<1>5. ConsumerCursors' /\ ReadIsValid' /\ (Ordered => PopsPushed)'
  BY <1>0, ConsumersKeep
<1> QED BY <1>2, <1>3, <1>4, <1>5

\* A restarted producer takes over at the published tail.
LEMMA ProducerJoinStep ==
  ASSUME IInv, ProducerJoin
  PROVE  IInv'
<1> USE DEF IInv, ProducerJoin, FreshProducer, shared
<1>0. /\ tail \in 0 .. Len(log) /\ tail \in Nat /\ tail <= ptail /\ ptail \in Nat
      /\ burst_amount \in Nat /\ Window \in Nat /\ 1 <= burst_amount
  BY ConstantFacts DEF TypeOK, ProducerCursors
<1>1. /\ log' \in Seq(Values) /\ Len(log') = tail
      /\ \A i \in 1 .. tail : log'[i] = log[i]
  BY <1>0, PrefixFacts DEF TypeOK
<1>2. TypeOK'
  BY <1>0, <1>1 DEF TypeOK, consumers
<1>3. Uninitialized' /\ ProducerCursors'
  BY <1>0, <1>1 DEF Uninitialized, ProducerCursors
<1>4. Content'
  <2> SUFFICES ASSUME NEW p \in tail - Window .. tail - 1, p >= 0
               PROVE  buffer[Index(p)] = log'[p + 1]
    BY DEF Content
  <2>1. p \in tail - Window .. ptail - 1 /\ p + 1 \in 1 .. tail
    BY <1>0
  <2> QED BY <1>1, <2>1 DEF Content
<1>5. ConsumerCursors' /\ ReadIsValid' /\ (Ordered => PopsPushed)'
  BY <1>0, <1>1, ConsumersKeep
<1> QED BY <1>2, <1>3, <1>4, <1>5

\* A crash of the producer leaves the window alone.
LEMMA ProducerCrashStep ==
  ASSUME IInv, ProducerCrash
  PROVE  IInv'
<1> USE DEF IInv, ProducerCrash, shared, history
<1>0. tail \in Nat
  BY DEF TypeOK
<1>2. TypeOK'
  BY DEF TypeOK, consumers
<1>3. Uninitialized' /\ ProducerCursors' /\ Content'
  BY DEF Uninitialized, ProducerCursors, Content
<1>5. ConsumerCursors' /\ ReadIsValid' /\ (Ordered => PopsPushed)'
  BY <1>0, ConsumersKeep
<1> QED BY <1>2, <1>3, <1>5

\* sync moves the window forward; what consumers have read stays valid.
LEMMA PublishStep ==
  ASSUME IInv, NEW pc \in {"idle", "synced"}, ppc = "idle", Publish(pc)
  PROVE  IInv'
<1> USE DEF IInv, Publish, history
<1>0. /\ tail \in Nat /\ ptail \in Nat /\ tail <= ptail
      /\ burst_amount \in Nat /\ Window \in Nat /\ 1 <= burst_amount
  BY ConstantFacts DEF TypeOK, ProducerCursors
<1>2. TypeOK'
  BY DEF TypeOK, consumers
<1>3. Uninitialized' /\ ProducerCursors'
  BY <1>0 DEF Uninitialized, ProducerCursors
<1>4. Content'
  <2> SUFFICES ASSUME NEW p \in ptail - Window .. ptail - 1, p >= 0
               PROVE  buffer[Index(p)] = log[p + 1]
    BY DEF Content
  <2>1. p \in tail - Window .. ptail - 1
    BY <1>0
  <2> QED BY <2>1 DEF Content
<1>5. ConsumerCursors' /\ ReadIsValid' /\ (Ordered => PopsPushed)'
  BY <1>0, ConsumersKeep
<1> QED BY <1>2, <1>3, <1>4, <1>5

\* The position being written shares no slot with the window, nor with what
\* follows it.
LEMMA WriteApart ==
  ASSUME IInv, pwritten < burst_amount,
         NEW p \in tail - Window .. ptail - 1, p >= 0
  PROVE  Index(p) # Index(ptail)
<1>1. p \in Nat /\ ptail \in Nat /\ p < ptail /\ ptail < p + N
  BY ConstantFacts DEF IInv, TypeOK, ProducerCursors
<1> QED BY <1>1, IndexDistinct

\* A write begins only in a slot outside the window.
LEMMA PushWriteBeginStep ==
  ASSUME StoresOrdered, IInv, PushWriteBegin
  PROVE  IInv'
<1> USE DEF IInv, PushWriteBegin, history
<1>0. pwritten < burst_amount /\ tail \in Nat /\ ptail \in Nat
  BY ConstantFacts DEF TypeOK, ProducerCursors
<1>1. buffer' \in [Slots -> Values \cup {Junk}]
  BY DEF TypeOK
<1>2. TypeOK'
  BY <1>1 DEF TypeOK, consumers
<1>3. Uninitialized' /\ ProducerCursors'
  BY <1>0 DEF Uninitialized, ProducerCursors
<1>4. Content'
  <2> SUFFICES ASSUME NEW p \in tail - Window .. ptail - 1, p >= 0
               PROVE  buffer'[Index(p)] = log[p + 1]
    BY DEF Content
  <2>1. Index(p) # Index(ptail)
    BY <1>0, WriteApart
  <2>2. p \in Nat
    BY <1>0, ConstantFacts
  <2> QED BY <2>1, <2>2, IndexInSlots DEF Content, TypeOK
<1>5. ConsumerCursors' /\ ReadIsValid' /\ (Ordered => PopsPushed)'
  BY <1>0, ConsumersKeep
<1> QED BY <1>2, <1>3, <1>4, <1>5

\* A write ends with the pushed value in its slot.
LEMMA PushWriteEndStep ==
  ASSUME IInv, NEW v \in Values, PushWriteEnd(v)
  PROVE  IInv'
<1> USE DEF IInv, PushWriteEnd
<1>0. /\ pwritten < burst_amount /\ tail \in Nat /\ ptail \in Nat /\ tail <= ptail
      /\ Len(log) = ptail /\ log \in Seq(Values) /\ burst_amount \in Nat
      /\ pwritten \in Nat /\ pwritten = ptail - tail
      /\ tail' = tail /\ pwritten' = pwritten + 1
  BY ConstantFacts DEF TypeOK, ProducerCursors
<1>1. buffer' \in [Slots -> Values \cup {Junk}]
  BY DEF TypeOK
<1>a. /\ log' \in Seq(Values) /\ Len(log') = ptail + 1
      /\ \A i \in 1 .. ptail : log'[i] = log[i]
      /\ log'[ptail + 1] = v
  BY <1>0, AppendFacts
<1>2. TypeOK'
  BY <1>0, <1>1, <1>a DEF TypeOK, consumers
<1>3. Uninitialized' /\ ProducerCursors'
  BY <1>0, <1>a DEF Uninitialized, ProducerCursors
<1>4. Content'
  <2> SUFFICES ASSUME NEW p \in tail - Window .. ptail, p >= 0
               PROVE  buffer'[Index(p)] = log'[p + 1]
    BY <1>0 DEF Content
  <2>1. p \in Nat /\ Index(p) \in Slots
    BY <1>0, ConstantFacts, IndexInSlots
  <2>2. CASE p = ptail
    BY <1>a, <2>1, <2>2 DEF TypeOK
  <2>3. CASE p # ptail
    <3>1. p \in tail - Window .. ptail - 1 /\ p + 1 \in 1 .. ptail
      BY <1>0, <2>1, <2>3, ConstantFacts
    <3>2. Index(p) # Index(ptail)
      BY <1>0, <3>1, WriteApart
    <3> QED BY <1>a, <2>1, <3>1, <3>2 DEF Content, TypeOK
  <2> QED BY <2>2, <2>3
<1>5. ConsumerCursors' /\ ReadIsValid' /\ (Ordered => PopsPushed)'
  <2>1. \A i \in 1 .. tail : log'[i] = log[i]
    BY <1>0, <1>a
  <2> QED BY <1>0, <2>1, ConsumersKeep
<1> QED BY <1>2, <1>3, <1>4, <1>5

-----------------------------------------------------------------------------
(***************************************************************************)
(* Every action of a consumer preserves the inductive invariant.           *)
(***************************************************************************)

\* What must hold of one consumer.
ConsumerInv(c) ==
  /\ last[c].pos < tail
  /\ last[c] # NoPop => last[c].pos % Interval = c
  /\ cpc[c] # "down" => chead[c] % Interval = c /\ last[c].pos < chead[c]
  /\ cpc[c] \in {"read", "reading", "validate"} =>
       chead[c] < ctail[c] /\ ctail[c] <= tail
  /\ cpc[c] \in {"reading", "validate"} /\ ~Overrun(tail, c)
       => cval[c] = log[chead[c] + 1]
  /\ Ordered /\ last[c] # NoPop =>
       last[c].pos < tail /\ last[c].val = log[last[c].pos + 1]

\* The consumers' part of the invariant, one consumer at a time.
LEMMA ConsumerInvEq ==
  ConsumerCursors /\ ReadIsValid /\ (Ordered => PopsPushed)
    <=> \A c \in Consumers : ConsumerInv(c)
  BY DEF ConsumerCursors, ReadIsValid, PopsPushed, ConsumerInv

\* A step of consumer c leaves the records of the others alone.
OthersKeep(c) ==
  \A d \in Consumers \ {c} :
    /\ last'[d] = last[d] /\ cpc'[d] = cpc[d] /\ chead'[d] = chead[d]
    /\ ctail'[d] = ctail[d] /\ cval'[d] = cval[d]

\* A step that only changes the record of consumer c has to be looked at for
\* c alone.
LEMMA OneConsumer ==
  ASSUME IInv, NEW c \in Consumers, UNCHANGED <<shared, producer, log>>,
         magic, TypeOK', OthersKeep(c), ConsumerInv(c)'
  PROVE  IInv'
<1> USE DEF IInv, shared, producer
<1>1. Uninitialized' /\ ProducerCursors' /\ Content'
  BY DEF Uninitialized, ProducerCursors, Content
<1>2. ASSUME NEW d \in Consumers PROVE ConsumerInv(d)'
  <2>1. CASE d = c
    BY <2>1
  <2>2. CASE d # c
    <3>1. ConsumerInv(d)
      BY ConsumerInvEq
    <3> QED BY <2>2, <3>1 DEF ConsumerInv, Overrun, OthersKeep
  <2> QED BY <2>1, <2>2
<1>3. ConsumerCursors' /\ ReadIsValid' /\ (Ordered => PopsPushed)'
  BY <1>2 DEF ConsumerInv, ConsumerCursors, ReadIsValid, PopsPushed
<1> QED BY <1>1, <1>3

\* The types of one consumer's record.
LEMMA ConsumerTypes ==
  ASSUME IInv, NEW c \in Consumers
  PROVE  /\ tail \in Nat /\ chead[c] \in Nat /\ ctail[c] \in Nat
         /\ cval[c] \in Values \cup {Junk} /\ last[c].pos \in Int
         /\ last[c] \in [pos : Nat, val : Values \cup {Junk}] \cup {NoPop}
         /\ ConsumerInv(c) /\ (cpc[c] # "down" => magic)
<1>1. last[c] \in [pos : Nat, val : Values \cup {Junk}] \cup {NoPop}
  BY DEF IInv, TypeOK
<1>2. last[c].pos \in Int
  BY <1>1 DEF NoPop
<1>3. ConsumerInv(c)
  BY ConsumerInvEq DEF IInv
<1> QED BY <1>1, <1>2, <1>3 DEF IInv, TypeOK, Uninitialized

\* A consumer joins in its class, at or after the tail.
LEMMA ConsumerJoinStep ==
  ASSUME IInv, NEW c \in Consumers, ConsumerJoin(c)
  PROVE  IInv'
<1> DEFINE h == next_modulo(tail, c, Interval)
<1>h. h \in Nat /\ tail <= h /\ h % Interval = c
  BY ConsumerTypes, NextModuloFacts
<1> HIDE DEF h
<1>1. /\ magic /\ cpc' = [cpc EXCEPT ![c] = "idle"]
      /\ chead' = [chead EXCEPT ![c] = h]
      /\ UNCHANGED <<ctail, cval, last, log, shared, producer>> /\ tail' = tail
  BY DEF ConsumerJoin, history, shared, h
<1>2. magic
  BY <1>1, ConsumerTypes
<1>3. TypeOK' /\ OthersKeep(c)
  BY <1>1, <1>h, ConsumerTypes DEF IInv, TypeOK, OthersKeep, shared, producer
<1>4. cpc'[c] = "idle" /\ chead'[c] = h
  BY <1>1 DEF IInv, TypeOK
<1>5. ConsumerInv(c)'
  BY <1>1, <1>h, <1>4, ConsumerTypes DEF ConsumerInv
<1> QED BY <1>1, <1>2, <1>3, <1>5, OneConsumer

\* A consumer that goes away leaves nothing behind.
LEMMA ConsumerCrashStep ==
  ASSUME IInv, NEW c \in Consumers, ConsumerCrash(c)
  PROVE  IInv'
<1>1. /\ cpc[c] # "down" /\ cpc' = [cpc EXCEPT ![c] = "down"]
      /\ ctail' = [ctail EXCEPT ![c] = 0] /\ cval' = [cval EXCEPT ![c] = Junk]
      /\ UNCHANGED <<chead, last, log, shared, producer>> /\ tail' = tail
  BY DEF ConsumerCrash, history, shared, DropLocals
<1>2. magic
  BY <1>1, ConsumerTypes
<1>3. TypeOK' /\ OthersKeep(c)
  BY <1>1, ConsumerTypes DEF IInv, TypeOK, OthersKeep, shared, producer
<1>4. cpc'[c] = "down"
  BY <1>1 DEF IInv, TypeOK
<1>5. ConsumerInv(c)'
  BY <1>1, <1>4, ConsumerTypes DEF ConsumerInv
<1> QED BY <1>1, <1>2, <1>3, <1>5, OneConsumer

\* pop returns None.
LEMMA PopNoneStep ==
  ASSUME IInv, NEW c \in Consumers, PopNone(c)
  PROVE  IInv'
<1>1. /\ cpc[c] \in {"idle", "retry"} /\ cpc' = [cpc EXCEPT ![c] = "idle"]
      /\ UNCHANGED <<chead, ctail, cval, last, log, shared, producer>>
      /\ tail' = tail
  BY DEF PopNone, history, shared
<1>2. magic
  BY <1>1, ConsumerTypes
<1>3. TypeOK' /\ OthersKeep(c)
  BY <1>1, ConsumerTypes DEF IInv, TypeOK, OthersKeep, shared, producer
<1>4. cpc'[c] = "idle"
  BY <1>1 DEF IInv, TypeOK
<1>5. ConsumerInv(c)'
  BY <1>1, <1>4, ConsumerTypes DEF ConsumerInv
<1> QED BY <1>1, <1>2, <1>3, <1>5, OneConsumer

\* The head after a reset: in the class, and ahead of where it was.
LEMMA ResetFacts ==
  ASSUME IInv, NEW c \in Consumers, NEW t \in Nat, Overrun(t, c)
  PROVE  LET h == ResetHead(t, c) IN
         /\ h \in Nat /\ h > chead[c] /\ h % Interval = c
         /\ \A p \in chead[c] .. h - 1 : p % Interval = c => t > p + Window
<1> DEFINE s == t - Window
<1>1. s \in Nat /\ s > chead[c] /\ chead[c] \in Nat /\ Window \in Nat
  BY ConsumerTypes, ConstantFacts DEF Overrun
<1> HIDE DEF s
<1>2. LET h == next_modulo(s, c, Interval) IN
      /\ h \in Nat /\ s <= h /\ h % Interval = c
      /\ \A p \in s .. h - 1 : p % Interval # c
  BY <1>1, NextModuloFacts
<1> DEFINE h == next_modulo(s, c, Interval)
<1>3. h = ResetHead(t, c)
  BY DEF ResetHead, s
<1> HIDE DEF h
<1>4. ASSUME NEW p \in chead[c] .. h - 1, p % Interval = c
      PROVE  t > p + Window
  <2>1. ~(p \in s .. h - 1)
    BY <1>2, <1>4 DEF h
  <2>2. p < s
    BY <1>1, <1>2, <2>1 DEF h
  <2> QED BY <1>1, <2>2 DEF s
<1> QED BY <1>1, <1>2, <1>3, <1>4 DEF h

\* The first check of pop moves an overrun consumer forward, in its class.
LEMMA PopResetStep ==
  ASSUME IInv, NEW c \in Consumers, PopReset(c)
  PROVE  IInv'
<1> DEFINE h == ResetHead(tail, c)
<1>h. h \in Nat /\ h > chead[c] /\ h % Interval = c
  BY ConsumerTypes, ResetFacts DEF PopReset
<1> HIDE DEF h
<1>1. /\ cpc[c] \in {"idle", "retry"} /\ cpc' = [cpc EXCEPT ![c] = "retry"]
      /\ chead' = [chead EXCEPT ![c] = h]
      /\ UNCHANGED <<ctail, cval, last, log, shared, producer>> /\ tail' = tail
  BY DEF PopReset, history, shared, h
<1>2. magic
  BY <1>1, ConsumerTypes
<1>3. TypeOK' /\ OthersKeep(c)
  BY <1>1, <1>h, ConsumerTypes DEF IInv, TypeOK, OthersKeep, shared, producer
<1>4. cpc'[c] = "retry" /\ chead'[c] = h
  BY <1>1 DEF IInv, TypeOK
<1>5. ConsumerInv(c)'
  BY <1>1, <1>h, <1>4, ConsumerTypes DEF ConsumerInv
<1> QED BY <1>1, <1>2, <1>3, <1>5, OneConsumer

\* The first check of pop lets a head inside the window through.
LEMMA PopLoadStep ==
  ASSUME IInv, NEW c \in Consumers, PopLoad(c)
  PROVE  IInv'
<1>1. /\ cpc[c] \in {"idle", "retry"} /\ cpc' = [cpc EXCEPT ![c] = "read"]
      /\ tail > chead[c] /\ ctail' = [ctail EXCEPT ![c] = tail]
      /\ UNCHANGED <<chead, cval, last, log, shared, producer>> /\ tail' = tail
  BY DEF PopLoad, history, shared
<1>2. magic
  BY <1>1, ConsumerTypes
<1>3. TypeOK' /\ OthersKeep(c)
  BY <1>1, ConsumerTypes DEF IInv, TypeOK, OthersKeep, shared, producer
<1>4. cpc'[c] = "read" /\ ctail'[c] = tail
  BY <1>1 DEF IInv, TypeOK
<1>5. ConsumerInv(c)'
  BY <1>1, <1>4, ConsumerTypes DEF ConsumerInv
<1> QED BY <1>1, <1>2, <1>3, <1>5, OneConsumer

\* A slot a consumer is entitled to read holds what was pushed.
LEMMA WindowSlot ==
  ASSUME IInv, NEW c \in Consumers, chead[c] < tail, ~Overrun(tail, c)
  PROVE  buffer[Index(chead[c])] = log[chead[c] + 1]
<1>0. /\ chead[c] \in Nat /\ tail \in Nat /\ ptail \in Nat /\ Window \in Nat
      /\ tail <= ptail /\ ~(tail > chead[c] + Window)
  BY ConsumerTypes, ConstantFacts DEF IInv, TypeOK, ProducerCursors, Overrun
<1>1. chead[c] \in tail - Window .. ptail - 1 /\ chead[c] >= 0
  BY <1>0
<1> QED BY <1>1 DEF IInv, Content

\* A read that begins inside the window sees the pushed value.
LEMMA PopReadBeginStep ==
  ASSUME IInv, NEW c \in Consumers, PopReadBegin(c)
  PROVE  IInv'
<1>1. /\ cpc[c] = "read" /\ cpc' = [cpc EXCEPT ![c] = "reading"]
      /\ cval' = [cval EXCEPT ![c] = buffer[Index(chead[c])]]
      /\ UNCHANGED <<chead, ctail, last, log, shared, producer>> /\ tail' = tail
  BY DEF PopReadBegin, history, shared
<1>2. magic
  BY <1>1, ConsumerTypes
<1>3. TypeOK' /\ OthersKeep(c)
  <2>1. buffer[Index(chead[c])] \in Values \cup {Junk}
    BY ConsumerTypes, IndexInSlots DEF IInv, TypeOK
  <2> QED BY <1>1, <2>1 DEF IInv, TypeOK, OthersKeep, shared, producer
<1>4. cpc'[c] = "reading" /\ cval'[c] = buffer[Index(chead[c])]
  BY <1>1 DEF IInv, TypeOK
<1>5. chead[c] < ctail[c] /\ ctail[c] <= tail /\ chead[c] < tail
  BY <1>1, ConsumerTypes DEF ConsumerInv
<1>6. ~Overrun(tail, c) => cval'[c] = log[chead[c] + 1]
  BY <1>4, <1>5, WindowSlot
<1>7. ConsumerInv(c)'
  BY <1>1, <1>4, <1>5, <1>6, ConsumerTypes DEF ConsumerInv, Overrun
<1> QED BY <1>1, <1>2, <1>3, <1>7, OneConsumer

\* A read that ends inside the window has seen the pushed value throughout.
LEMMA PopReadEndStep ==
  ASSUME IInv, NEW c \in Consumers, PopReadEnd(c)
  PROVE  IInv'
<1> DEFINE v == IF buffer[Index(chead[c])] = cval[c] THEN cval[c] ELSE Junk
<1>1. /\ cpc[c] = "reading" /\ cpc' = [cpc EXCEPT ![c] = "validate"]
      /\ cval' = [cval EXCEPT ![c] = v]
      /\ UNCHANGED <<chead, ctail, last, log, shared, producer>> /\ tail' = tail
  BY DEF PopReadEnd, history, shared
<1>2. magic
  BY <1>1, ConsumerTypes
<1>3. TypeOK' /\ OthersKeep(c)
  <2>1. v \in Values \cup {Junk}
    BY ConsumerTypes
  <2> HIDE DEF v
  <2> QED BY <1>1, <2>1 DEF IInv, TypeOK, OthersKeep, shared, producer
<1>4. cpc'[c] = "validate" /\ cval'[c] = v
  BY <1>1 DEF IInv, TypeOK
<1>5. chead[c] < ctail[c] /\ ctail[c] <= tail /\ chead[c] < tail
  BY <1>1, ConsumerTypes DEF ConsumerInv
<1>6. ~Overrun(tail, c) => v = log[chead[c] + 1]
  <2>1. ~Overrun(tail, c) => cval[c] = log[chead[c] + 1]
    BY <1>1, ConsumerTypes DEF ConsumerInv
  <2> QED BY <1>5, <2>1, WindowSlot
<1> HIDE DEF v
<1>7. ConsumerInv(c)'
  BY <1>1, <1>4, <1>5, <1>6, ConsumerTypes DEF ConsumerInv, Overrun
<1> QED BY <1>1, <1>2, <1>3, <1>7, OneConsumer

\* The second check of pop moves an overrun consumer forward, in its class.
LEMMA PopRetryStep ==
  ASSUME IInv, NEW c \in Consumers, PopRetry(c)
  PROVE  IInv'
<1>p. PICK t \in CurrentTail(c) :
        Overrun(t, c) /\ chead' = [chead EXCEPT ![c] = ResetHead(t, c)]
  BY DEF PopRetry
<1> DEFINE h == ResetHead(t, c)
<1>h. h \in Nat /\ h > chead[c] /\ h % Interval = c
  <2>1. t \in Nat
    BY <1>p, ConsumerTypes DEF CurrentTail
  <2> QED BY <1>p, <2>1, ResetFacts
<1>1. /\ cpc[c] = "validate" /\ cpc' = [cpc EXCEPT ![c] = "retry"]
      /\ chead' = [chead EXCEPT ![c] = h]
      /\ ctail' = [ctail EXCEPT ![c] = 0] /\ cval' = [cval EXCEPT ![c] = Junk]
      /\ UNCHANGED <<last, log, shared, producer>> /\ tail' = tail
  BY <1>p DEF PopRetry, DropLocals, history, shared
<1> HIDE DEF h
<1>2. magic
  BY <1>1, ConsumerTypes
<1>3. TypeOK' /\ OthersKeep(c)
  BY <1>1, <1>h, ConsumerTypes DEF IInv, TypeOK, OthersKeep, shared, producer
<1>4. cpc'[c] = "retry" /\ chead'[c] = h
  BY <1>1 DEF IInv, TypeOK
<1>5. ConsumerInv(c)'
  BY <1>1, <1>h, <1>4, ConsumerTypes DEF ConsumerInv
<1> QED BY <1>1, <1>2, <1>3, <1>5, OneConsumer

\* The next position of a class is a stride away, and none lies between.
LEMMA StrideFacts ==
  ASSUME NEW c \in Consumers, NEW h \in Nat, h % Interval = c
  PROVE  /\ (h + Interval) % Interval = c
         /\ \A p \in h .. h + Interval - 1 : p % Interval = c => p = h
<1>1. Interval \in Nat \ {0} /\ Interval \in 0 .. Interval /\ c \in 0 .. Interval - 1
  BY ConstantFacts
<1>2. (h + Interval) % Interval = c
  <2>1. (h + Interval) % Interval
          = IF (h % Interval) + Interval < Interval
            THEN (h % Interval) + Interval
            ELSE (h % Interval) + Interval - Interval
    BY <1>1, ModAdvance
  <2>2. ~(c + Interval < Interval) /\ c + Interval - Interval = c
    BY <1>1
  <2> QED BY <2>1, <2>2
<1>3. ASSUME NEW p \in h .. h + Interval - 1, p % Interval = c, p # h
      PROVE  FALSE
  <2>1. p \in Nat /\ h < p /\ p < h + Interval
    BY <1>1, <1>3
  <2> QED BY <1>1, <1>3, <2>1, ModDistinct
<1> QED BY <1>2, <1>3

\* pop returns only a value its second check has found valid.
LEMMA PopReturnStep ==
  ASSUME IInv, NEW c \in Consumers, PopReturn(c)
  PROVE  IInv'
<1> DEFINE l == [pos |-> chead[c], val |-> cval[c]]
           h == chead[c] + Interval
<1>0. Interval \in Nat \ {0}
  BY ConstantFacts
<1>1. /\ cpc[c] = "validate" /\ cpc' = [cpc EXCEPT ![c] = "idle"]
      /\ chead' = [chead EXCEPT ![c] = h] /\ last' = [last EXCEPT ![c] = l]
      /\ ctail' = [ctail EXCEPT ![c] = 0] /\ cval' = [cval EXCEPT ![c] = Junk]
      /\ UNCHANGED <<log, shared, producer>> /\ tail' = tail
  BY DEF PopReturn, DropLocals, history, shared
<1>2. magic
  BY <1>1, ConsumerTypes
<1>3. /\ chead[c] \in Nat /\ chead[c] < tail /\ chead[c] % Interval = c
      /\ h \in Nat /\ h > chead[c] /\ h % Interval = c
  <2>1. chead[c] \in Nat /\ chead[c] < tail /\ chead[c] % Interval = c
    BY <1>1, ConsumerTypes DEF ConsumerInv
  <2> QED BY <1>0, <2>1, StrideFacts
<1>4. l \in [pos : Nat, val : Values \cup {Junk}] /\ l.pos = chead[c] /\ l.val = cval[c]
  BY ConsumerTypes
<1>5. Ordered => cval[c] = log[chead[c] + 1]
  <2>1. ASSUME Ordered PROVE ~Overrun(tail, c)
    BY <2>1 DEF PopReturn, CurrentTail
  <2> QED BY <1>1, <2>1, ConsumerTypes DEF ConsumerInv
<1> HIDE DEF l, h
<1>6. TypeOK' /\ OthersKeep(c)
  BY <1>1, <1>3, <1>4, ConsumerTypes DEF IInv, TypeOK, OthersKeep, shared, producer
<1>7. cpc'[c] = "idle" /\ chead'[c] = h /\ last'[c] = l
  BY <1>1 DEF IInv, TypeOK
<1>8. ConsumerInv(c)'
  BY <1>1, <1>3, <1>4, <1>5, <1>7, ConsumerTypes DEF ConsumerInv
<1> QED BY <1>1, <1>2, <1>6, <1>8, OneConsumer

-----------------------------------------------------------------------------
(***************************************************************************)
(* The theorems.                                                           *)
(***************************************************************************)

\* The initial state satisfies the inductive invariant.
LEMMA InitIInv == Init => IInv
<1> SUFFICES ASSUME Init PROVE IInv
  OBVIOUS
<1> USE ConstantFacts DEF Init
<1>1. TypeOK
  <2>1. buffer \in [Slots -> Values \cup {Junk}] /\ log \in Seq(Values)
    OBVIOUS
  <2> QED BY <2>1 DEF TypeOK
<1>2. Uninitialized /\ ProducerCursors /\ Content
  BY DEF Uninitialized, ProducerCursors, Content
<1>3. ConsumerCursors /\ ReadIsValid /\ PopsPushed
  BY DEF ConsumerCursors, ReadIsValid, PopsPushed, NoPop
<1> QED BY <1>1, <1>2, <1>3 DEF IInv

\* Every step preserves the inductive invariant.
LEMMA NextIInv ==
  ASSUME StoresOrdered
  PROVE  IInv /\ [Next]_vars => IInv'
<1> SUFFICES ASSUME IInv, [Next]_vars PROVE IInv'
  OBVIOUS
<1>1. CASE ProducerNext
  <2>1. CASE Sync \/ PushSync
    BY <2>1, PublishStep DEF Sync, PushSync
  <2> QED BY <1>1, <2>1, ProducerInitializeStep, ProducerJoinStep,
     ProducerCrashStep, PushWriteBeginStep, PushWriteEndStep DEF ProducerNext
<1>2. ASSUME NEW c \in Consumers, ConsumerNext(c) PROVE IInv'
  BY <1>2, ConsumerJoinStep, ConsumerCrashStep, PopNoneStep, PopResetStep,
     PopLoadStep, PopReadBeginStep, PopReadEndStep, PopRetryStep, PopReturnStep
     DEF ConsumerNext, Pop
<1>3. CASE UNCHANGED vars
  BY <1>3 DEF vars, shared, producer, consumers, history, IInv, TypeOK,
     Uninitialized, ProducerCursors, Content, ConsumerCursors, ReadIsValid,
     Overrun, PopsPushed
<1> QED BY <1>1, <1>2, <1>3 DEF Next

\* Where no slot write passes the store of the tail before it, IInv is an
\* invariant of the headless channel.
THEOREM Invariance ==
  ASSUME StoresOrdered
  PROVE  Spec => []IInv
<1> QED BY InitIInv, NextIInv, PTL DEF Spec

\* Every variable keeps its type; in particular no head and no tail - Window
\* goes below zero where the code subtracts.
THEOREM TypeCorrect ==
  ASSUME StoresOrdered
  PROVE  Spec => []TypeOK
<1>1. IInv => TypeOK
  BY DEF IInv
<1> QED BY <1>1, Invariance, PTL

\* Where the slot read is ordered before the second load of the tail, pop
\* returns nothing but what was pushed at that position, for every capacity,
\* number of consumers, and pattern of crashes.
THEOREM PopsPushedCorrect ==
  ASSUME Ordered, StoresOrdered
  PROVE  Spec => []PopsPushed
<1>1. IInv => PopsPushed
  BY DEF IInv
<1> QED BY <1>1, Invariance, PTL

\* Where no slot write passes the store of the tail before it, the producer
\* never writes into the window below the tail, and never runs more than a
\* burst ahead of it.
THEOREM WindowUntouchedCorrect ==
  ASSUME StoresOrdered
  PROVE  Spec => []WindowUntouched
<1>1. ASSUME IInv PROVE WindowUntouched
  <2>1. pwritten = ptail - tail /\ ptail - tail <= burst_amount
    BY <1>1 DEF IInv, ProducerCursors
  <2>2. ASSUME ppc = "write", NEW p \in tail - Window .. tail - 1, p >= 0
        PROVE  Index(p) # Index(ptail)
    <3>1. p \in tail - Window .. ptail - 1 /\ pwritten < burst_amount
      BY <1>1, <2>2, ConstantFacts DEF IInv, TypeOK, ProducerCursors
    <3> QED BY <1>1, <2>2, <3>1, WriteApart
  <2> QED BY <2>1, <2>2 DEF WindowUntouched
<1> QED BY <1>1, Invariance, PTL

\* What a step does to one consumer: it pops the position it stands at, or
\* delivers nothing, and moves its head only over what it delivers or over
\* positions that are overrun.
LEMMA StepOfConsumer ==
  ASSUME IInv, [Next]_vars, NEW c \in Consumers
  PROVE  \/ /\ last'[c] = last[c]
            /\ chead'[c] = chead[c] \/ cpc[c] = "down"
         \/ /\ last'[c] = last[c]
            /\ \A p \in chead[c] .. chead'[c] - 1 :
                 p % Interval = c => tail > p + Window
         \/ /\ last'[c].pos = chead[c] /\ last[c].pos < chead[c]
            /\ chead[c] % Interval = c /\ chead[c] < tail
            /\ chead[c] \in Nat /\ chead'[c] = chead[c] + Interval
<1>1. ASSUME NEW d \in Consumers, ConsumerNext(d), d # c
      PROVE  last'[c] = last[c] /\ chead'[c] = chead[c]
  BY <1>1 DEF ConsumerNext, Pop, ConsumerJoin, ConsumerCrash, PopNone, PopReset,
     PopLoad, PopReadBegin, PopReadEnd, PopRetry, PopReturn, history, IInv, TypeOK
<1>2. ASSUME \/ ProducerNext \/ UNCHANGED vars \/ ConsumerCrash(c) \/ PopNone(c)
             \/ PopLoad(c) \/ PopReadBegin(c) \/ PopReadEnd(c)
      PROVE  last'[c] = last[c] /\ chead'[c] = chead[c]
  <2>1. UNCHANGED <<chead, last>>
    BY <1>2 DEF ProducerNext, ProducerInitialize, ProducerJoin, FreshProducer,
       ProducerCrash, Sync, PushSync, Publish, PushWriteBegin, PushWriteEnd, vars,
       ConsumerCrash, PopNone, PopLoad, PopReadBegin, PopReadEnd, history, consumers
  <2> QED BY <2>1
<1>3. ASSUME ConsumerJoin(c) PROVE last'[c] = last[c] /\ cpc[c] = "down"
  BY <1>3 DEF ConsumerJoin, history
<1>4. ASSUME NEW t \in Nat, t <= tail, Overrun(t, c), UNCHANGED last,
             chead' = [chead EXCEPT ![c] = ResetHead(t, c)]
      PROVE  /\ last'[c] = last[c]
             /\ \A p \in chead[c] .. chead'[c] - 1 :
                  p % Interval = c => tail > p + Window
  <2> DEFINE h == ResetHead(t, c)
  <2>1. h \in Nat /\ \A p \in chead[c] .. h - 1 : p % Interval = c => t > p + Window
    BY <1>4, ResetFacts
  <2> HIDE DEF h
  <2>2. chead'[c] = h
    BY <1>4 DEF h, IInv, TypeOK
  <2>3. tail \in Nat /\ Window \in Nat /\ chead[c] \in Nat
    BY ConsumerTypes, ConstantFacts
  <2>4. ASSUME NEW p \in chead[c] .. h - 1, p % Interval = c
        PROVE  tail > p + Window
    <3>1. t > p + Window
      BY <2>1, <2>4
    <3> QED BY <1>4, <2>1, <2>3, <3>1
  <2> QED BY <1>4, <2>2, <2>4
<1>5. ASSUME PopReset(c)
      PROVE  /\ last'[c] = last[c]
             /\ \A p \in chead[c] .. chead'[c] - 1 :
                  p % Interval = c => tail > p + Window
  <2>1. /\ Overrun(tail, c) /\ UNCHANGED last
        /\ chead' = [chead EXCEPT ![c] = ResetHead(tail, c)]
    BY <1>5 DEF PopReset, history
  <2>2. tail \in Nat /\ tail <= tail
    BY ConsumerTypes
  <2> QED BY <1>4, <2>1, <2>2
<1>6. ASSUME PopRetry(c)
      PROVE  /\ last'[c] = last[c]
             /\ \A p \in chead[c] .. chead'[c] - 1 :
                  p % Interval = c => tail > p + Window
  <2>1. PICK t \in CurrentTail(c) :
          Overrun(t, c) /\ chead' = [chead EXCEPT ![c] = ResetHead(t, c)]
    BY <1>6 DEF PopRetry
  <2>2. t \in Nat /\ t <= tail
    BY <1>6, <2>1, ConsumerTypes DEF CurrentTail, PopRetry, ConsumerInv
  <2>3. UNCHANGED last
    BY <1>6 DEF PopRetry, history
  <2> QED BY <1>4, <2>1, <2>2, <2>3
<1>7. ASSUME PopReturn(c)
      PROVE  /\ last'[c].pos = chead[c] /\ last[c].pos < chead[c]
             /\ chead[c] % Interval = c /\ chead[c] < tail
             /\ chead[c] \in Nat /\ chead'[c] = chead[c] + Interval
  <2>1. last'[c].pos = chead[c] /\ chead'[c] = chead[c] + Interval
    BY <1>7 DEF PopReturn, IInv, TypeOK
  <2> QED BY <1>7, <2>1, ConsumerTypes DEF PopReturn, ConsumerInv
<1> QED BY <1>1, <1>2, <1>3, <1>5, <1>6, <1>7 DEF Next, ConsumerNext, Pop

\* Each pop that returns a value returns a position above all its consumer has
\* returned, in a class no other consumer returns from: no position is
\* delivered twice, among all consumers and across their restarts.
THEOREM NoDuplicateCorrect ==
  ASSUME StoresOrdered
  PROVE  Spec => NoDuplicate
<1> DEFINE Fresh(c) ==
      /\ last'[c].pos > last[c].pos
      /\ \A d \in Consumers \ {c} : last[d] # NoPop =>
           last'[c].pos % Interval # last[d].pos % Interval
<1>1. ASSUME IInv, [Next]_vars
      PROVE  \A c \in Consumers :
               cpc[c] = "validate" /\ cpc'[c] = "idle" => Fresh(c)
  <2> SUFFICES ASSUME NEW c \in Consumers, cpc[c] = "validate", cpc'[c] = "idle"
               PROVE  Fresh(c)
    OBVIOUS
  <2>1. PopReturn(c)
    <3>1. ASSUME ProducerNext \/ UNCHANGED vars PROVE UNCHANGED cpc
      BY <3>1 DEF ProducerNext, ProducerInitialize, ProducerJoin, FreshProducer,
         ProducerCrash, Sync, PushSync, Publish, PushWriteBegin, PushWriteEnd, vars,
         consumers
    <3>2. ASSUME NEW d \in Consumers, ConsumerNext(d), d # c
          PROVE  cpc'[c] = cpc[c]
      BY <3>2, <1>1 DEF ConsumerNext, Pop, ConsumerJoin, ConsumerCrash, PopNone,
         PopReset, PopLoad, PopReadBegin, PopReadEnd, PopRetry, PopReturn, IInv, TypeOK
    <3>3. ASSUME ConsumerNext(c), ~PopReturn(c)
          PROVE  cpc'[c] # "idle" \/ cpc[c] # "validate"
      BY <3>3, <1>1 DEF ConsumerNext, Pop, ConsumerJoin, ConsumerCrash, PopNone,
         PopReset, PopLoad, PopReadBegin, PopReadEnd, PopRetry, IInv, TypeOK
    <3> QED BY <1>1, <3>1, <3>2, <3>3 DEF Next
  <2>2. last'[c].pos = chead[c]
    BY <1>1, <2>1 DEF PopReturn, IInv, TypeOK
  <2>3. last[c].pos < chead[c] /\ chead[c] % Interval = c
    BY <1>1 DEF IInv, ConsumerCursors
  <2>4. chead[c] \in Nat /\ last[c].pos \in Int
    BY <1>1, ConsumerTypes
  <2>5. ASSUME NEW d \in Consumers \ {c}, last[d] # NoPop
        PROVE  last'[c].pos % Interval # last[d].pos % Interval
    <3>1. last[d].pos % Interval = d
      BY <1>1, <2>5 DEF IInv, ConsumerCursors
    <3> QED BY <2>2, <2>3, <3>1
  <2> QED BY <2>2, <2>3, <2>4, <2>5
<1>2. IInv /\ [Next]_vars =>
        [\A c \in Consumers :
           cpc[c] = "validate" /\ cpc'[c] = "idle" => Fresh(c)]_vars
  BY <1>1
<1> QED BY <1>2, Invariance, PTL DEF Spec, NoDuplicate

\* A consumer loses a position of its class to an overrun only: next_modulo
\* and the stride of pop step over nothing else.
THEOREM SkipsOnlyOverrunCorrect ==
  ASSUME StoresOrdered
  PROVE  Spec => SkipsOnlyOverrun
<1>1. ASSUME IInv, [Next]_vars
      PROVE  \A c \in Consumers : cpc[c] # "down" =>
               \A p \in chead[c] .. chead'[c] - 1 :
                 p % Interval = c => \/ last'[c].pos = p
                                     \/ tail > p + Window
  <2> SUFFICES ASSUME NEW c \in Consumers, cpc[c] # "down",
                      NEW p \in chead[c] .. chead'[c] - 1, p % Interval = c
               PROVE  last'[c].pos = p \/ tail > p + Window
    OBVIOUS
  <2>1. chead[c] \in Nat
    BY <1>1, ConsumerTypes
  <2>2. CASE chead'[c] = chead[c]
    BY <2>1, <2>2
  <2>3. CASE \A q \in chead[c] .. chead'[c] - 1 :
               q % Interval = c => tail > q + Window
    BY <2>3
  <2>4. CASE /\ last'[c].pos = chead[c] /\ chead[c] % Interval = c
             /\ chead'[c] = chead[c] + Interval
    <3>1. p \in chead[c] .. chead[c] + Interval - 1
      BY <2>1, <2>4, ConstantFacts
    <3>2. p = chead[c]
      BY <2>1, <2>4, <3>1, StrideFacts
    <3> QED BY <2>4, <3>2
  <2> QED BY <1>1, <2>2, <2>3, <2>4, StepOfConsumer
<1>2. IInv /\ [Next]_vars =>
        [\A c \in Consumers : cpc[c] # "down" =>
           \A p \in chead[c] .. chead'[c] - 1 :
             p % Interval = c => \/ last'[c].pos = p
                                 \/ tail > p + Window]_vars
  BY <1>1
<1> QED BY <1>2, Invariance, PTL DEF Spec, SkipsOnlyOverrun

-----------------------------------------------------------------------------
(***************************************************************************)
(* The refinement: where the slot read is ordered before the second load   *)
(* of the tail, every step of the endpoints is a step of HeadlessLog under *)
(* the mapping Log, or none.                                               *)
(***************************************************************************)

\* The mapping: the published and the pending part of the history.
Published == SubSeq(log, 1, tail)
Pending   == SubSeq(log, tail + 1, ptail)

\* The two parts of the history as sequences.
LEMMA MappedLog ==
  ASSUME IInv
  PROVE  /\ tail \in Nat /\ ptail \in Nat /\ tail <= ptail
         /\ log \in Seq(Values) /\ Len(log) = ptail
         /\ Published \in Seq(Values) /\ Len(Published) = tail
         /\ \A i \in 1 .. tail : Published[i] = log[i]
         /\ Pending \in Seq(Values) /\ Len(Pending) = ptail - tail
<1>1. /\ tail \in Nat /\ ptail \in Nat /\ tail <= ptail
      /\ log \in Seq(Values) /\ Len(log) = ptail
  BY DEF IInv, TypeOK, ProducerCursors
<1>2. tail \in 0 .. Len(log)
  BY <1>1
<1>3. /\ Published \in Seq(Values) /\ Len(Published) = tail
      /\ \A i \in 1 .. tail : Published[i] = log[i]
  BY <1>1, <1>2, PrefixFacts DEF Published
<1>4. Pending \in Seq(Values) /\ Len(Pending) = ptail - tail
  BY <1>1, Stretch DEF Pending
<1> QED BY <1>1, <1>3, <1>4

\* What the log has to do in a step, in the variables of the channel.
LogStep ==
  \/ /\ Published' = Published /\ Pending' = Pending
     /\ UNCHANGED <<Cursor, last>>
  \/ /\ Published' = Published \o Pending /\ Pending' = <<>>
     /\ UNCHANGED <<Cursor, last>>
  \/ /\ Published' = Published /\ Pending' = <<>>
     /\ UNCHANGED <<Cursor, last>>
  \/ /\ \E v \in Values : Pending' = Append(Pending, v)
     /\ Len(Pending) < burst_amount
     /\ Published' = Published /\ UNCHANGED <<Cursor, last>>
  \/ \E c \in Consumers :
       /\ Published' = Published /\ Pending' = Pending /\ last' = last
       /\ \/ Cursor' = [Cursor EXCEPT ![c] = -1]
          \/ /\ Cursor[c] = -1
             /\ \E q \in tail .. tail + Interval - 1 :
                  q % Interval = c /\ Cursor' = [Cursor EXCEPT ![c] = q]
          \/ /\ Cursor[c] # -1 /\ tail > Cursor[c] + Window
             /\ \E q \in tail - Window .. tail - Window + Interval - 1 :
                  q % Interval = c /\ Cursor' = [Cursor EXCEPT ![c] = q]
  \/ \E c \in Consumers :
       /\ Published' = Published /\ Pending' = Pending
       /\ Cursor[c] # -1 /\ Cursor[c] < tail /\ tail <= Cursor[c] + Window
       /\ Cursor' = [Cursor EXCEPT ![c] = @ + Interval]
       /\ last' = [last EXCEPT ![c] = [pos |-> Cursor[c],
                                       val |-> Published[Cursor[c] + 1]]]

\* It is a step of HeadlessLog.
LEMMA LogStepIsStep ==
  ASSUME IInv, LogStep
  PROVE  [Log!Next]_(Log!vars)
<1>1. Log!Readers = Consumers
  BY DEF Log!Readers, Consumers
<1>2. Len(Published) = tail
  BY MappedLog
<1> USE DEF Published, Pending
<1>3. CASE Published' = Published /\ Pending' = Pending /\ UNCHANGED <<Cursor, last>>
  BY <1>3 DEF Log!vars
<1>4. CASE /\ Published' = Published \o Pending /\ Pending' = <<>>
           /\ UNCHANGED <<Cursor, last>>
  BY <1>4 DEF Log!Next, Log!Publish
<1>5. CASE /\ Published' = Published /\ Pending' = <<>>
           /\ UNCHANGED <<Cursor, last>>
  BY <1>5 DEF Log!Next, Log!ProducerRestart
<1>6. CASE /\ \E v \in Values : Pending' = Append(Pending, v)
           /\ Len(Pending) < burst_amount
           /\ Published' = Published /\ UNCHANGED <<Cursor, last>>
  BY <1>6 DEF Log!Next, Log!Accept
<1> HIDE DEF Published, Pending
<1>7. ASSUME NEW c \in Consumers, Published' = Published, Pending' = Pending,
             last' = last,
             \/ Cursor' = [Cursor EXCEPT ![c] = -1]
             \/ /\ Cursor[c] = -1
                /\ \E q \in tail .. tail + Interval - 1 :
                     q % Interval = c /\ Cursor' = [Cursor EXCEPT ![c] = q]
             \/ /\ Cursor[c] # -1 /\ tail > Cursor[c] + Window
                /\ \E q \in tail - Window .. tail - Window + Interval - 1 :
                     q % Interval = c /\ Cursor' = [Cursor EXCEPT ![c] = q]
      PROVE  Log!Next
  <2>1. Log!Leave(c) \/ Log!Join(c) \/ Log!CatchUp(c)
    BY <1>2, <1>7 DEF Log!Leave, Log!Join, Log!CatchUp, Log!MoveTo, Log!Absent,
       Published, Pending
  <2> QED BY <1>1, <2>1 DEF Log!Next
<1>8. ASSUME NEW c \in Consumers, Published' = Published, Pending' = Pending,
             Cursor[c] # -1, Cursor[c] < tail, tail <= Cursor[c] + Window,
             Cursor' = [Cursor EXCEPT ![c] = @ + Interval],
             last' = [last EXCEPT ![c] = [pos |-> Cursor[c],
                                          val |-> Published[Cursor[c] + 1]]]
      PROVE  Log!Next
  <2>1. Log!Give(c)
    BY <1>2, <1>8 DEF Log!Give, Log!Absent, Published, Pending
  <2> QED BY <1>1, <2>1 DEF Log!Next
<1> QED BY <1>3, <1>4, <1>5, <1>6, <1>7, <1>8 DEF LogStep

\* A producer that comes keeps the published part of the log only.
LEMMA ProducerRestartsLog ==
  ASSUME IInv, ProducerInitialize \/ ProducerJoin
  PROVE  LogStep
<1>0. Published \in Seq(Values) /\ Len(Published) = tail /\ log \in Seq(Values)
  BY MappedLog
<1>1. tail' = tail /\ ptail' = tail /\ UNCHANGED <<consumers, last>>
  BY DEF ProducerInitialize, ProducerJoin, FreshProducer, shared, IInv, TypeOK,
     Uninitialized, ProducerCursors
<1>2. log' = Published
  BY DEF ProducerInitialize, ProducerJoin, FreshProducer, Published, IInv, TypeOK,
     Uninitialized, ProducerCursors
<1>3. tail \in Nat /\ tail <= Len(log)
  BY MappedLog
<1>4. SubSeq(Published, 1, tail) = Published
  BY <1>0, SubSeqFull
<1>5. Published' = Published
  BY <1>1, <1>2, <1>4 DEF Published
<1>6. Pending' = <<>>
  BY <1>1, <1>3, EmptyStretch DEF Pending
<1>7. Cursor' = Cursor
  BY <1>1 DEF consumers, Cursor
<1> QED BY <1>1, <1>5, <1>6, <1>7 DEF LogStep

\* sync appends what is pending to the log.
LEMMA SyncPublishesLog ==
  ASSUME IInv, NEW pc, Publish(pc)
  PROVE  LogStep
<1>1. tail' = ptail /\ ptail' = ptail /\ log' = log /\ UNCHANGED <<consumers, last>>
  BY DEF Publish, history
<1>2. tail \in Nat /\ ptail \in Nat /\ tail <= ptail /\ log \in Seq(Values)
      /\ ptail <= Len(log)
  BY MappedLog
<1>3. SubSeq(log, 0 + 1, tail) \o SubSeq(log, tail + 1, ptail)
        = SubSeq(log, 0 + 1, ptail)
  BY <1>2, JoinedStretch
<1>4. Published' = Published \o Pending
  <2>1. 0 + 1 = 1
    OBVIOUS
  <2> QED BY <1>1, <1>3, <2>1, Zenon DEF Published, Pending
<1>5. Pending' = <<>>
  BY <1>1, <1>2, EmptyStretch DEF Pending
<1>6. Cursor' = Cursor
  BY <1>1 DEF consumers, Cursor
<1> QED BY <1>1, <1>4, <1>5, <1>6 DEF LogStep

\* The end of a push adds one element to what is pending.
LEMMA PushAppendsLog ==
  ASSUME IInv, NEW v \in Values, PushWriteEnd(v)
  PROVE  LogStep
<1>1. /\ tail' = tail /\ ptail' = ptail + 1 /\ log' = Append(log, v)
      /\ UNCHANGED <<consumers, last>>
  <2>1. pwritten # burst_amount
    BY ConstantFacts DEF PushWriteEnd, IInv, TypeOK, ProducerCursors
  <2> QED BY <2>1 DEF PushWriteEnd
<1>2. /\ tail \in Nat /\ ptail \in Nat /\ tail <= ptail /\ log \in Seq(Values)
      /\ Len(log) = ptail /\ Len(Pending) = ptail - tail /\ Pending \in Seq(Values)
  BY MappedLog
<1>3. /\ log' \in Seq(Values) /\ Len(log') = ptail + 1
      /\ \A i \in 1 .. Len(log) : log[i] = log'[i]
      /\ log'[ptail + 1] = v
  BY <1>1, <1>2, AppendFacts
<1>4. Published' = Published
  <2>1. SubSeq(log, 0 + 1, tail) = SubSeq(log', 0 + 1, tail)
    BY <1>2, <1>3, SameStretch
  <2>2. 0 + 1 = 1
    OBVIOUS
  <2> QED BY <1>1, <2>1, <2>2, Zenon DEF Published
<1>5. Pending' = Append(Pending, v)
  <2>1. SubSeq(log, tail + 1, ptail) = SubSeq(log', tail + 1, ptail)
    BY <1>2, <1>3, SameStretch
  <2>2. SubSeq(log', tail + 1, ptail + 1)
          = SubSeq(log', tail + 1, ptail) \o <<log'[ptail + 1]>>
    <3>1. log' \in Seq(Values) /\ ptail < Len(log')
      BY <1>2, <1>3
    <3> QED BY <1>2, <3>1, StretchLast
  <2>3. Pending' = Pending \o <<v>>
    BY <1>1, <1>3, <2>1, <2>2 DEF Pending
  <2> QED BY <1>2, <2>3
<1>6. Len(Pending) < burst_amount
  BY <1>2 DEF PushWriteEnd, IInv, ProducerCursors
<1>7. Cursor' = Cursor
  BY <1>1 DEF consumers, Cursor
<1> QED BY <1>1, <1>4, <1>5, <1>6, <1>7 DEF LogStep

\* What a step of consumer c makes of the mapped cursors.
LEMMA CursorMoves ==
  ASSUME IInv, NEW c \in Consumers, NEW pc, NEW h,
         cpc' = [cpc EXCEPT ![c] = pc], chead' = [chead EXCEPT ![c] = h]
  PROVE  /\ Cursor' = [Cursor EXCEPT ![c] = IF pc = "down" THEN -1 ELSE h]
         /\ Cursor[c] = IF cpc[c] = "down" THEN -1 ELSE chead[c]
         /\ Cursor[c] # -1 <=> cpc[c] # "down"
<1>1. chead[c] \in Nat
  BY ConsumerTypes
<1>2. cpc \in [Consumers -> {"down", "idle", "read", "reading", "validate", "retry"}]
      /\ chead \in [Consumers -> Nat]
  BY DEF IInv, TypeOK
<1>3. Cursor' = [Cursor EXCEPT ![c] = IF pc = "down" THEN -1 ELSE h]
  BY <1>2 DEF Cursor
<1> QED BY <1>1, <1>3 DEF Cursor

\* The steps of a pop that neither return nor reset are none of the log.
LEMMA PopStutters ==
  ASSUME IInv, NEW c \in Consumers,
         PopNone(c) \/ PopLoad(c) \/ PopReadBegin(c) \/ PopReadEnd(c)
  PROVE  Cursor' = Cursor
<1>1. PICK pc \in {"idle", "read", "reading", "validate"} :
        cpc' = [cpc EXCEPT ![c] = pc]
  BY DEF PopNone, PopLoad, PopReadBegin, PopReadEnd
<1>2. cpc[c] # "down" /\ chead' = chead
  BY DEF PopNone, PopLoad, PopReadBegin, PopReadEnd
<1>3. cpc \in [Consumers -> {"down", "idle", "read", "reading", "validate", "retry"}]
  BY DEF IInv, TypeOK
<1>4. \A d \in Consumers : (cpc'[d] = "down") <=> (cpc[d] = "down")
  BY <1>1, <1>2, <1>3
<1> QED BY <1>2, <1>4 DEF Cursor

\* A reset, wherever pop sees that it was overrun, moves the cursor up to the
\* oldest kept element of its share.
LEMMA ResetCatchesUp ==
  ASSUME IInv, NEW c \in Consumers, cpc[c] # "down", Overrun(tail, c),
         cpc' = [cpc EXCEPT ![c] = "retry"],
         chead' = [chead EXCEPT ![c] = ResetHead(tail, c)]
  PROVE  /\ Cursor[c] # -1 /\ tail > Cursor[c] + Window
         /\ \E q \in tail - Window .. tail - Window + Interval - 1 :
              q % Interval = c /\ Cursor' = [Cursor EXCEPT ![c] = q]
<1> DEFINE q == ResetHead(tail, c)
<1>1. tail \in Nat /\ chead[c] \in Nat /\ Window \in Nat /\ Interval \in Nat \ {0}
  BY ConsumerTypes, ConstantFacts
<1>2. tail - Window \in Nat
  BY <1>1 DEF Overrun
<1>3. /\ q \in Nat /\ tail - Window <= q /\ q < (tail - Window) + Interval
      /\ q % Interval = c
  BY <1>2, NextModuloFacts DEF ResetHead
<1> HIDE DEF q
<1>4. Cursor' = [Cursor EXCEPT ![c] = q] /\ Cursor[c] = chead[c] /\ Cursor[c] # -1
  BY CursorMoves DEF q
<1>5. q \in tail - Window .. tail - Window + Interval - 1
  BY <1>1, <1>2, <1>3
<1> QED BY <1>3, <1>4, <1>5 DEF Overrun

\* Every step of the channel does to the log what HeadlessLog allows.
LEMMA NextLog ==
  ASSUME Ordered, IInv, [Next]_vars
  PROVE  LogStep
<1>1. CASE UNCHANGED vars \/ ProducerCrash \/ PushWriteBegin
  <2>1. tail' = tail /\ ptail' = ptail /\ log' = log /\ UNCHANGED <<consumers, last>>
    BY <1>1, Zenon DEF vars, shared, producer, history, ProducerCrash, PushWriteBegin
  <2> QED BY <2>1 DEF LogStep, Published, Pending, Cursor, consumers
<1>2. CASE ProducerInitialize \/ ProducerJoin
  BY <1>2, ProducerRestartsLog
<1>3. CASE Sync \/ PushSync
  BY <1>3, SyncPublishesLog DEF Sync, PushSync
<1>4. ASSUME NEW v \in Values, PushWriteEnd(v) PROVE LogStep
  BY <1>4, PushAppendsLog
<1>5. ASSUME NEW c \in Consumers, ConsumerNext(c) PROVE LogStep
  <2>1. tail' = tail /\ ptail' = ptail /\ log' = log
    BY <1>5 DEF ConsumerNext, Pop, ConsumerJoin, ConsumerCrash, PopNone, PopReset,
       PopLoad, PopReadBegin, PopReadEnd, PopRetry, PopReturn, shared, producer,
       history
  <2>2. Published' = Published /\ Pending' = Pending
    BY <2>1 DEF Published, Pending
  <2>3. CASE PopNone(c) \/ PopLoad(c) \/ PopReadBegin(c) \/ PopReadEnd(c)
    <3>1. last' = last
      BY <2>3 DEF PopNone, PopLoad, PopReadBegin, PopReadEnd, history
    <3>2. Cursor' = Cursor
      BY <2>3, PopStutters
    <3> QED BY <2>2, <3>1, <3>2 DEF LogStep
  <2>4. CASE ConsumerJoin(c)
    <3> DEFINE h == next_modulo(tail, c, Interval)
    <3>1. /\ cpc[c] = "down" /\ last' = last /\ cpc' = [cpc EXCEPT ![c] = "idle"]
          /\ chead' = [chead EXCEPT ![c] = h]
      BY <2>4 DEF ConsumerJoin, history
    <3>2. h \in Nat /\ tail <= h /\ h < tail + Interval /\ h % Interval = c
      BY ConsumerTypes, NextModuloFacts
    <3> HIDE DEF h
    <3>3. Cursor[c] = -1 /\ Cursor' = [Cursor EXCEPT ![c] = h]
      BY <3>1, CursorMoves
    <3>4. h \in tail .. tail + Interval - 1
      BY <3>2, ConsumerTypes, ConstantFacts
    <3> QED BY <2>2, <3>1, <3>2, <3>3, <3>4 DEF LogStep
  <2>5. CASE ConsumerCrash(c)
    <3>1. last' = last /\ cpc' = [cpc EXCEPT ![c] = "down"] /\ chead' = chead
      BY <2>5 DEF ConsumerCrash, history
    <3>2. chead' = [chead EXCEPT ![c] = chead[c]]
      BY <3>1 DEF IInv, TypeOK
    <3>3. Cursor' = [Cursor EXCEPT ![c] = -1]
      BY <3>1, <3>2, CursorMoves
    <3> QED BY <2>2, <3>1, <3>3 DEF LogStep
  <2>6. CASE PopReset(c) \/ PopRetry(c)
    <3>1. /\ cpc[c] # "down" /\ Overrun(tail, c) /\ last' = last
          /\ cpc' = [cpc EXCEPT ![c] = "retry"]
          /\ chead' = [chead EXCEPT ![c] = ResetHead(tail, c)]
      BY <2>6 DEF PopReset, PopRetry, CurrentTail, history
    <3>2. /\ Cursor[c] # -1 /\ tail > Cursor[c] + Window
          /\ \E q \in tail - Window .. tail - Window + Interval - 1 :
               q % Interval = c /\ Cursor' = [Cursor EXCEPT ![c] = q]
      BY <3>1, ResetCatchesUp
    <3> QED BY <2>2, <3>1, <3>2 DEF LogStep
  <2>7. CASE PopReturn(c)
    <3>1. /\ cpc[c] = "validate" /\ ~Overrun(tail, c)
          /\ cpc' = [cpc EXCEPT ![c] = "idle"]
          /\ chead' = [chead EXCEPT ![c] = chead[c] + Interval]
          /\ last' = [last EXCEPT ![c] = [pos |-> chead[c], val |-> cval[c]]]
      BY <2>7 DEF PopReturn, CurrentTail
    <3>2. /\ tail \in Nat /\ chead[c] \in Nat /\ chead[c] < tail
          /\ cval[c] = log[chead[c] + 1] /\ tail <= chead[c] + Window
      BY <3>1, ConsumerTypes, ConstantFacts DEF ConsumerInv, Overrun
    <3>3. Published[chead[c] + 1] = cval[c]
      BY <3>2, MappedLog
    <3>4. /\ Cursor[c] = chead[c] /\ Cursor[c] # -1
          /\ Cursor' = [Cursor EXCEPT ![c] = chead[c] + Interval]
      BY <3>1, CursorMoves
    <3>5. Cursor' = [Cursor EXCEPT ![c] = @ + Interval]
      BY <3>4
    <3> QED BY <2>2, <3>1, <3>2, <3>3, <3>4, <3>5 DEF LogStep
  <2> QED BY <1>5, <2>3, <2>4, <2>5, <2>6, <2>7 DEF ConsumerNext, Pop
<1> QED BY <1>1, <1>2, <1>3, <1>4, <1>5 DEF Next, ProducerNext

\* A zeroed channel is an empty log without readers.
LEMMA InitLog == Init => Log!Init
<1> SUFFICES ASSUME Init PROVE Log!Init
  OBVIOUS
<1>1. /\ log = <<>> /\ tail = 0 /\ ptail = 0
      /\ cpc = [c \in Consumers |-> "down"] /\ last = [c \in Consumers |-> NoPop]
  BY DEF Init
<1>2. SubSeq(log, 0 + 1, 0) = <<>>
  BY EmptyStretch
<1>3. Cursor = [c \in Consumers |-> -1]
  BY <1>1 DEF Cursor
<1> QED BY <1>1, <1>2, <1>3 DEF Log!Init, Log!Readers, Log!Absent, Consumers

\* The headless channel is a log of which the last Window elements are kept:
\* every pop, with its unprotected read, its two checks and its retries, takes
\* effect at one moment, and there it returns the element that the log has at
\* the consumer's position, or moves a consumer that the log has outrun.
THEOREM ImplementsLogCorrect ==
  ASSUME Ordered, StoresOrdered
  PROVE  Spec => ImplementsLog
<1>1. IInv /\ [Next]_vars => [Log!Next]_(Log!vars)
  BY NextLog, LogStepIsStep
<1> QED BY <1>1, InitLog, Invariance, PTL DEF Spec, ImplementsLog, Log!Spec

-----------------------------------------------------------------------------
(***************************************************************************)
(* Why the loop of pop ends, whatever the producer does: the part of       *)
(* EveryPositionIsPassed that needs no fairness.                           *)
(***************************************************************************)

\* After a reset with the current tail the head is inside the window again.
LEMMA ResetIsInside ==
  ASSUME IInv, NEW c \in Consumers, Overrun(tail, c),
         chead' = [chead EXCEPT ![c] = ResetHead(tail, c)], tail' = tail
  PROVE  ~Overrun(tail, c)'
<1> DEFINE h == ResetHead(tail, c)
<1>1. tail \in Nat /\ chead[c] \in Nat /\ Window \in Nat
  BY ConsumerTypes, ConstantFacts
<1>2. tail - Window \in Nat
  BY <1>1 DEF Overrun
<1>3. h \in Nat /\ tail - Window <= h
  BY <1>2, NextModuloFacts DEF ResetHead
<1> HIDE DEF h
<1>4. chead'[c] = h
  BY DEF h, IInv, TypeOK
<1> QED BY <1>1, <1>3, <1>4 DEF Overrun

\* A pop of the headless channel returns within seven steps of its own unless
\* something is published meanwhile, and each publication costs it at most as
\* many again: no other consumer, no crash and no unpublished push delays it.
THEOREM PopIsBoundedCorrect ==
  ASSUME Ordered, StoresOrdered
  PROVE  Spec => PopIsBounded
<1> DEFINE Own(c)  == <<cpc[c], chead[c], ctail[c], cval[c]>>
           Step(c) == tail' = tail /\ cpc[c] # "down" /\ cpc'[c] \notin {"down", "idle"} =>
                        \/ StepsLeft(c)' < StepsLeft(c)
                        \/ Own(c)' = Own(c) /\ StepsLeft(c)' = StepsLeft(c)
<1>1. ASSUME IInv, [Next]_vars, NEW c \in Consumers PROVE Step(c)
  <2> SUFFICES ASSUME tail' = tail, cpc[c] # "down", cpc'[c] \notin {"down", "idle"}
               PROVE  \/ StepsLeft(c)' < StepsLeft(c)
                      \/ Own(c)' = Own(c) /\ StepsLeft(c)' = StepsLeft(c)
    OBVIOUS
  <2>0. /\ cpc \in [Consumers -> {"down", "idle", "read", "reading", "validate", "retry"}]
        /\ chead \in [Consumers -> Nat] /\ ctail \in [Consumers -> Nat]
        /\ cval \in [Consumers -> Values \cup {Junk}]
    BY <1>1 DEF IInv, TypeOK
  <2>1. ASSUME Own(c)' = Own(c)
        PROVE  StepsLeft(c)' = StepsLeft(c)
    <3>1. cpc'[c] = cpc[c] /\ chead'[c] = chead[c]
      BY <2>1
    <3> QED BY <3>1 DEF StepsLeft, Overrun
  <2>2. CASE ProducerNext \/ UNCHANGED vars
    <3>1. UNCHANGED consumers
      BY <2>2 DEF ProducerNext, ProducerInitialize, ProducerJoin, ProducerCrash,
         Sync, PushSync, Publish, PushWriteBegin, PushWriteEnd, vars
    <3>2. Own(c)' = Own(c)
      BY <3>1 DEF consumers
    <3> QED BY <2>1, <3>2
  <2>3. ASSUME NEW d \in Consumers, ConsumerNext(d), d # c
        PROVE  Own(c)' = Own(c)
    BY <2>0, <2>3 DEF ConsumerNext, Pop, ConsumerJoin, ConsumerCrash, PopNone,
       PopReset, PopLoad, PopReadBegin, PopReadEnd, PopRetry, PopReturn, DropLocals
  <2>4. CASE ConsumerJoin(c) \/ ConsumerCrash(c) \/ PopNone(c) \/ PopReturn(c)
    BY <2>0, <2>4 DEF ConsumerJoin, ConsumerCrash, PopNone, PopReturn
  <2>5. CASE PopLoad(c)
    <3>1. cpc[c] \in {"idle", "retry"} /\ ~Overrun(tail, c) /\ cpc'[c] = "read"
          /\ chead' = chead
      BY <2>0, <2>5 DEF PopLoad
    <3>2. ~Overrun(tail, c)'
      BY <3>1 DEF Overrun
    <3>3. StepsLeft(c) = 4 /\ StepsLeft(c)' = 3
      BY <3>1, <3>2 DEF StepsLeft
    <3> QED BY <3>3
  <2>6. CASE PopReadBegin(c) \/ PopReadEnd(c)
    <3>1. /\ chead' = chead
          /\ \/ cpc[c] = "read" /\ cpc'[c] = "reading"
             \/ cpc[c] = "reading" /\ cpc'[c] = "validate"
      BY <2>0, <2>6 DEF PopReadBegin, PopReadEnd
    <3>2. Overrun(tail, c)' <=> Overrun(tail, c)
      BY <3>1 DEF Overrun
    <3> QED BY <3>1, <3>2 DEF StepsLeft
  <2>7. CASE PopReset(c) \/ PopRetry(c)
    <3>1. /\ cpc[c] \in {"idle", "retry", "validate"} /\ cpc'[c] = "retry"
          /\ Overrun(tail, c) /\ chead' = [chead EXCEPT ![c] = ResetHead(tail, c)]
      BY <2>0, <2>7 DEF PopReset, PopRetry, CurrentTail
    <3>2. ~Overrun(tail, c)'
      BY <1>1, <3>1, ResetIsInside
    <3>3. StepsLeft(c) = 5 /\ StepsLeft(c)' = 4
      BY <3>1, <3>2 DEF StepsLeft
    <3> QED BY <3>3
  <2> QED BY <1>1, <2>1, <2>2, <2>3, <2>4, <2>5, <2>6, <2>7
          DEF Next, ConsumerNext, Pop
<1>2. IInv /\ [Next]_vars =>
        [\A c \in Consumers :
           tail' = tail /\ cpc[c] # "down" /\ cpc'[c] \notin {"down", "idle"} =>
             \/ StepsLeft(c)' < StepsLeft(c)
             \/ /\ UNCHANGED <<cpc[c], chead[c], ctail[c], cval[c]>>
                /\ StepsLeft(c)' = StepsLeft(c)]_vars
  BY <1>1
<1> QED BY <1>2, Invariance, PTL DEF Spec, PopIsBounded

=============================================================================
