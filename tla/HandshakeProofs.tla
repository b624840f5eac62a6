-------------------------- MODULE HandshakeProofs --------------------------
(***************************************************************************)
(* The header protocol for every set of capacities and every bound.        *)
(***************************************************************************)
EXTENDS Handshake, TLAPS

\* The zeroed or foreign region satisfies the invariant.
LEMMA InitIInv == Init => IInv
<1> SUFFICES ASSUME Init PROVE IInv
  OBVIOUS
<1> USE DEF Init
<1>1. TypeOK
  BY DEF TypeOK, Entries
<1>2. HeaderFacts
  BY DEF HeaderFacts, Initialising
<1>3. HeaderComplete /\ CapacityErrorIsTrue /\ BeatsAddUp /\ CursorsOrdered
  BY DEF HeaderComplete, CapacityErrorIsTrue, BeatsAddUp, CursorsOrdered,
     PAttached, CAttached
<1> QED BY <1>1, <1>2, <1>3 DEF IInv

-----------------------------------------------------------------------------
(***************************************************************************)
(* Every action preserves the invariant.                                   *)
(***************************************************************************)

\* A join begins: nothing of the header is touched.
LEMMA ProducerStartStep ==
  ASSUME IInv, NEW how \in Entries, NEW n \in Capacities, ProducerStart(how, n)
  PROVE  IInv'
<1> USE CapacitiesAssumption
    DEF IInv, ProducerStart, header, producer, consumer, phistory,
        chistory, TypeOK, Initialising, PAttached, CAttached
<1>1. TypeOK'
  BY DEF Entries
<1>2. HeaderFacts'
  BY DEF HeaderFacts, HeaderComplete
<1>3. HeaderComplete'
  BY DEF HeaderFacts, HeaderComplete
<1>4. CapacityErrorIsTrue'
  BY DEF HeaderFacts, HeaderComplete, CapacityErrorIsTrue
<1>5. BeatsAddUp'
  BY DEF HeaderFacts, BeatsAddUp
<1>6. CursorsOrdered'
  BY DEF HeaderFacts, HeaderComplete, CursorsOrdered
<1> QED BY <1>1, <1>2, <1>3, <1>4, <1>5, <1>6

\* A producer that goes away leaves the header as it is.
LEMMA ProducerCrashStep ==
  ASSUME IInv, ProducerCrash
  PROVE  IInv'
<1> USE CapacitiesAssumption
    DEF IInv, ProducerCrash, header, producer, consumer, phistory,
        chistory, TypeOK, Initialising, PAttached, CAttached
<1>1. TypeOK'
  BY DEF Entries
<1>2. HeaderFacts'
  BY DEF HeaderFacts, HeaderComplete
<1>3. HeaderComplete'
  BY DEF HeaderFacts, HeaderComplete
<1>4. CapacityErrorIsTrue'
  BY DEF HeaderFacts, HeaderComplete, CapacityErrorIsTrue
<1>5. BeatsAddUp'
  BY DEF HeaderFacts, BeatsAddUp
<1>6. CursorsOrdered'
  BY DEF HeaderFacts, HeaderComplete, CursorsOrdered
<1> QED BY <1>1, <1>2, <1>3, <1>4, <1>5, <1>6

\* The load of magic sends the producer to the right branch.
LEMMA ProducerLoadMagicStep ==
  ASSUME IInv, ProducerLoadMagic
  PROVE  IInv'
<1> USE CapacitiesAssumption
    DEF IInv, ProducerLoadMagic, header, producer, consumer, phistory,
        chistory, TypeOK, Initialising, PAttached, CAttached
<1>1. TypeOK'
  BY DEF Entries
<1>2. HeaderFacts'
  <2>1. CASE magic = "MAGIC"
    BY <2>1 DEF HeaderFacts, HeaderComplete
  <2>2. CASE magic = "zero" /\ entry # "join_"
    BY <2>2 DEF HeaderFacts, HeaderComplete
  <2>3. CASE ~(magic = "MAGIC") /\ ~(magic = "zero" /\ entry # "join_")
    BY <2>3 DEF HeaderFacts, HeaderComplete
  <2> QED BY <2>1, <2>2, <2>3
<1>3. HeaderComplete'
  BY DEF HeaderFacts, HeaderComplete
<1>4. CapacityErrorIsTrue'
  BY DEF HeaderFacts, HeaderComplete, CapacityErrorIsTrue
<1>5. BeatsAddUp'
  BY DEF HeaderFacts, BeatsAddUp
<1>6. CursorsOrdered'
  BY DEF HeaderFacts, HeaderComplete, CursorsOrdered
<1> QED BY <1>1, <1>2, <1>3, <1>4, <1>5, <1>6

\* The load of capacity lets only the capacity of the channel through.
LEMMA ProducerLoadCapacityStep ==
  ASSUME IInv, ProducerLoadCapacity
  PROVE  IInv'
<1> USE CapacitiesAssumption
    DEF IInv, ProducerLoadCapacity, header, producer, consumer, phistory,
        chistory, TypeOK, Initialising, PAttached, CAttached
<1>1. TypeOK'
  <2>1. reports' \subseteq Nat
    <3>1. reports' \subseteq reports \cup {capacity}
      OBVIOUS
    <3> QED BY <3>1
  <2>2. ppc' \in {"down", "magic", "capacity"} \cup Initialising \cup PAttached
    OBVIOUS
  <2>3. UNCHANGED <<magic, capacity, tail, head, producer_heartbeat,
                  consumer_heartbeat, cpc, entry, pN, ptail, cN, chead,
                  last_consumer_heartbeat, last_producer_heartbeat,
                  pmissed, cmissed, pcreated, pnoticed, acked>>
    OBVIOUS
  <2> HIDE DEF ProducerLoadCapacity
  <2> QED BY <2>1, <2>2, <2>3 DEF Entries
<1>2. HeaderFacts'
  BY DEF HeaderFacts, HeaderComplete
<1>3. HeaderComplete'
  BY DEF HeaderFacts, HeaderComplete
<1>4. CapacityErrorIsTrue'
  <2>1. magic = "MAGIC" /\ capacity \in Capacities
    BY DEF HeaderFacts
  <2>2. reports' \subseteq reports \cup {capacity}
    OBVIOUS
  <2>3. magic' = magic /\ capacity' = capacity
    OBVIOUS
  <2> QED BY <2>1, <2>2, <2>3 DEF CapacityErrorIsTrue
<1>5. BeatsAddUp'
  BY DEF HeaderFacts, BeatsAddUp
<1>6. CursorsOrdered'
  BY DEF HeaderFacts, HeaderComplete, CursorsOrdered
<1> QED BY <1>1, <1>2, <1>3, <1>4, <1>5, <1>6

\* The stores of an initialisation happen before anybody is attached: tail,
LEMMA StoreTailStep ==
  ASSUME IInv, StoreTail
  PROVE  IInv'
<1> USE CapacitiesAssumption
    DEF IInv, StoreTail, Goto, header, producer, consumer, phistory,
        chistory, TypeOK, Initialising, PAttached, CAttached
<1>1. TypeOK'
  BY DEF Entries
<1>2. HeaderFacts'
  BY DEF HeaderFacts, HeaderComplete
<1>3. HeaderComplete'
  BY DEF HeaderFacts, HeaderComplete
<1>4. CapacityErrorIsTrue'
  BY DEF HeaderFacts, HeaderComplete, CapacityErrorIsTrue
<1>5. BeatsAddUp'
  BY DEF HeaderFacts, BeatsAddUp
<1>6. CursorsOrdered'
  BY DEF HeaderFacts, HeaderComplete, CursorsOrdered
<1> QED BY <1>1, <1>2, <1>3, <1>4, <1>5, <1>6

\* producer_heartbeat,
LEMMA StoreProducerHeartbeatStep ==
  ASSUME IInv, StoreProducerHeartbeat
  PROVE  IInv'
<1> USE CapacitiesAssumption
    DEF IInv, StoreProducerHeartbeat, Goto, header, producer, consumer, phistory,
        chistory, TypeOK, Initialising, PAttached, CAttached
<1>1. TypeOK'
  BY DEF Entries
<1>2. HeaderFacts'
  BY DEF HeaderFacts, HeaderComplete
<1>3. HeaderComplete'
  BY DEF HeaderFacts, HeaderComplete
<1>4. CapacityErrorIsTrue'
  BY DEF HeaderFacts, HeaderComplete, CapacityErrorIsTrue
<1>5. BeatsAddUp'
  BY DEF HeaderFacts, BeatsAddUp
<1>6. CursorsOrdered'
  BY DEF HeaderFacts, HeaderComplete, CursorsOrdered
<1> QED BY <1>1, <1>2, <1>3, <1>4, <1>5, <1>6

\* consumer_heartbeat,
LEMMA StoreConsumerHeartbeatStep ==
  ASSUME IInv, StoreConsumerHeartbeat
  PROVE  IInv'
<1> USE CapacitiesAssumption
    DEF IInv, StoreConsumerHeartbeat, Goto, header, producer, consumer, phistory,
        chistory, TypeOK, Initialising, PAttached, CAttached
<1>1. TypeOK'
  BY DEF Entries
<1>2. HeaderFacts'
  BY DEF HeaderFacts, HeaderComplete
<1>3. HeaderComplete'
  BY DEF HeaderFacts, HeaderComplete
<1>4. CapacityErrorIsTrue'
  BY DEF HeaderFacts, HeaderComplete, CapacityErrorIsTrue
<1>5. BeatsAddUp'
  BY DEF HeaderFacts, BeatsAddUp
<1>6. CursorsOrdered'
  BY DEF HeaderFacts, HeaderComplete, CursorsOrdered
<1> QED BY <1>1, <1>2, <1>3, <1>4, <1>5, <1>6

\* capacity,
LEMMA StoreCapacityStep ==
  ASSUME IInv, StoreCapacity
  PROVE  IInv'
<1> USE CapacitiesAssumption
    DEF IInv, StoreCapacity, Goto, header, producer, consumer, phistory,
        chistory, TypeOK, Initialising, PAttached, CAttached
<1>1. TypeOK'
  BY DEF Entries
<1>2. HeaderFacts'
  BY DEF HeaderFacts, HeaderComplete
<1>3. HeaderComplete'
  BY DEF HeaderFacts, HeaderComplete
<1>4. CapacityErrorIsTrue'
  BY DEF HeaderFacts, HeaderComplete, CapacityErrorIsTrue
<1>5. BeatsAddUp'
  BY DEF HeaderFacts, BeatsAddUp
<1>6. CursorsOrdered'
  BY DEF HeaderFacts, HeaderComplete, CursorsOrdered
<1> QED BY <1>1, <1>2, <1>3, <1>4, <1>5, <1>6

\* and MAGIC, with the whole header in place.
LEMMA StoreMagicStep ==
  ASSUME IInv, StoreMagic
  PROVE  IInv'
<1> USE CapacitiesAssumption
    DEF IInv, StoreMagic, header, producer, consumer, phistory,
        chistory, TypeOK, Initialising, PAttached, CAttached
<1>1. TypeOK'
  BY DEF Entries
<1>2. HeaderFacts'
  BY DEF HeaderFacts, HeaderComplete
<1>3. HeaderComplete'
  BY DEF HeaderFacts, HeaderComplete
<1>4. CapacityErrorIsTrue'
  BY DEF HeaderFacts, HeaderComplete, CapacityErrorIsTrue
<1>5. BeatsAddUp'
  BY DEF HeaderFacts, BeatsAddUp
<1>6. CursorsOrdered'
  BY DEF HeaderFacts, HeaderComplete, CursorsOrdered
<1> QED BY <1>1, <1>2, <1>3, <1>4, <1>5, <1>6

\* A joining producer beats: one beat the consumer has not seen.
LEMMA JoinBeatStep ==
  ASSUME IInv, JoinBeat
  PROVE  IInv'
<1> USE CapacitiesAssumption
    DEF IInv, JoinBeat, header, producer, consumer, phistory,
        chistory, TypeOK, Initialising, PAttached, CAttached
<1>1. TypeOK'
  BY DEF Entries
<1>2. HeaderFacts'
  BY DEF HeaderFacts, HeaderComplete
<1>3. HeaderComplete'
  BY DEF HeaderFacts, HeaderComplete
<1>4. CapacityErrorIsTrue'
  BY DEF HeaderFacts, HeaderComplete, CapacityErrorIsTrue
<1>5. BeatsAddUp'
  BY DEF HeaderFacts, BeatsAddUp
<1>6. CursorsOrdered'
  BY DEF HeaderFacts, HeaderComplete, CursorsOrdered
<1> QED BY <1>1, <1>2, <1>3, <1>4, <1>5, <1>6

\* A joining producer takes over at the tail.
LEMMA LoadTailStep ==
  ASSUME IInv, LoadTail
  PROVE  IInv'
<1> USE CapacitiesAssumption
    DEF IInv, LoadTail, header, producer, consumer, phistory,
        chistory, TypeOK, Initialising, PAttached, CAttached
<1>1. TypeOK'
  BY DEF Entries
<1>2. HeaderFacts'
  BY DEF HeaderFacts, HeaderComplete
<1>3. HeaderComplete'
  BY DEF HeaderFacts, HeaderComplete
<1>4. CapacityErrorIsTrue'
  BY DEF HeaderFacts, HeaderComplete, CapacityErrorIsTrue
<1>5. BeatsAddUp'
  BY DEF HeaderFacts, BeatsAddUp
<1>6. CursorsOrdered'
  BY DEF HeaderFacts, HeaderComplete, CursorsOrdered
<1> QED BY <1>1, <1>2, <1>3, <1>4, <1>5, <1>6

\* The copy of the heartbeat starts out up to date.
LEMMA LoadConsumerHeartbeatStep ==
  ASSUME IInv, LoadConsumerHeartbeat
  PROVE  IInv'
<1> USE CapacitiesAssumption
    DEF IInv, LoadConsumerHeartbeat, header, producer, consumer, phistory,
        chistory, TypeOK, Initialising, PAttached, CAttached
<1>1. TypeOK'
  BY DEF Entries
<1>2. HeaderFacts'
  BY DEF HeaderFacts, HeaderComplete
<1>3. HeaderComplete'
  BY DEF HeaderFacts, HeaderComplete
<1>4. CapacityErrorIsTrue'
  BY DEF HeaderFacts, HeaderComplete, CapacityErrorIsTrue
<1>5. BeatsAddUp'
  BY DEF HeaderFacts, BeatsAddUp
<1>6. CursorsOrdered'
  BY DEF HeaderFacts, HeaderComplete, CursorsOrdered
<1> QED BY <1>1, <1>2, <1>3, <1>4, <1>5, <1>6

\* sync moves the tail forward.
LEMMA SyncStep ==
  ASSUME IInv, Sync
  PROVE  IInv'
<1> USE CapacitiesAssumption
    DEF IInv, Sync, header, producer, consumer, phistory,
        chistory, TypeOK, Initialising, PAttached, CAttached
<1>1. TypeOK'
  BY DEF Entries
<1>2. HeaderFacts'
  BY DEF HeaderFacts, HeaderComplete
<1>3. HeaderComplete'
  BY DEF HeaderFacts, HeaderComplete
<1>4. CapacityErrorIsTrue'
  BY DEF HeaderFacts, HeaderComplete, CapacityErrorIsTrue
<1>5. BeatsAddUp'
  BY DEF HeaderFacts, BeatsAddUp
<1>6. CursorsOrdered'
  BY DEF HeaderFacts, HeaderComplete, CursorsOrdered
<1> QED BY <1>1, <1>2, <1>3, <1>4, <1>5, <1>6

\* beat of the producer: one beat the consumer has not seen.
LEMMA ProducerBeatStep ==
  ASSUME IInv, ProducerBeat
  PROVE  IInv'
<1> USE CapacitiesAssumption
    DEF IInv, ProducerBeat, header, producer, consumer, phistory,
        chistory, TypeOK, Initialising, PAttached, CAttached
<1>1. TypeOK'
  BY DEF Entries
<1>2. HeaderFacts'
  BY DEF HeaderFacts, HeaderComplete
<1>3. HeaderComplete'
  BY DEF HeaderFacts, HeaderComplete
<1>4. CapacityErrorIsTrue'
  BY DEF HeaderFacts, HeaderComplete, CapacityErrorIsTrue
<1>5. BeatsAddUp'
  BY DEF HeaderFacts, BeatsAddUp
<1>6. CursorsOrdered'
  BY DEF HeaderFacts, HeaderComplete, CursorsOrdered
<1> QED BY <1>1, <1>2, <1>3, <1>4, <1>5, <1>6

\* consumer_heartbeat brings the copy up to date.
LEMMA ConsumerHeartbeatStep ==
  ASSUME IInv, ConsumerHeartbeat
  PROVE  IInv'
<1> USE CapacitiesAssumption
    DEF IInv, ConsumerHeartbeat, header, producer, consumer, phistory,
        chistory, TypeOK, Initialising, PAttached, CAttached
<1>1. TypeOK'
  BY DEF Entries
<1>2. HeaderFacts'
  BY DEF HeaderFacts, HeaderComplete
<1>3. HeaderComplete'
  BY DEF HeaderFacts, HeaderComplete
<1>4. CapacityErrorIsTrue'
  BY DEF HeaderFacts, HeaderComplete, CapacityErrorIsTrue
<1>5. BeatsAddUp'
  BY DEF HeaderFacts, BeatsAddUp
<1>6. CursorsOrdered'
  BY DEF HeaderFacts, HeaderComplete, CursorsOrdered
<1> QED BY <1>1, <1>2, <1>3, <1>4, <1>5, <1>6

\* A join begins: nothing of the header is touched.
LEMMA ConsumerStartStep ==
  ASSUME IInv, NEW n \in Capacities, ConsumerStart(n)
  PROVE  IInv'
<1> USE CapacitiesAssumption
    DEF IInv, ConsumerStart, header, producer, consumer, phistory,
        chistory, TypeOK, Initialising, PAttached, CAttached
<1>1. TypeOK'
  BY DEF Entries
<1>2. HeaderFacts'
  BY DEF HeaderFacts, HeaderComplete
<1>3. HeaderComplete'
  BY DEF HeaderFacts, HeaderComplete
<1>4. CapacityErrorIsTrue'
  BY DEF HeaderFacts, HeaderComplete, CapacityErrorIsTrue
<1>5. BeatsAddUp'
  BY DEF HeaderFacts, BeatsAddUp
<1>6. CursorsOrdered'
  BY DEF HeaderFacts, HeaderComplete, CursorsOrdered
<1> QED BY <1>1, <1>2, <1>3, <1>4, <1>5, <1>6

\* A consumer that goes away leaves the header as it is.
LEMMA ConsumerCrashStep ==
  ASSUME IInv, ConsumerCrash
  PROVE  IInv'
<1> USE CapacitiesAssumption
    DEF IInv, ConsumerCrash, header, producer, consumer, phistory,
        chistory, TypeOK, Initialising, PAttached, CAttached
<1>1. TypeOK'
  BY DEF Entries
<1>2. HeaderFacts'
  BY DEF HeaderFacts, HeaderComplete
<1>3. HeaderComplete'
  BY DEF HeaderFacts, HeaderComplete
<1>4. CapacityErrorIsTrue'
  BY DEF HeaderFacts, HeaderComplete, CapacityErrorIsTrue
<1>5. BeatsAddUp'
  BY DEF HeaderFacts, BeatsAddUp
<1>6. CursorsOrdered'
  BY DEF HeaderFacts, HeaderComplete, CursorsOrdered
<1> QED BY <1>1, <1>2, <1>3, <1>4, <1>5, <1>6

\* The load of magic turns away a consumer that comes before MAGIC.
LEMMA ConsumerLoadMagicStep ==
  ASSUME IInv, ConsumerLoadMagic
  PROVE  IInv'
<1> USE CapacitiesAssumption
    DEF IInv, ConsumerLoadMagic, header, producer, consumer, phistory,
        chistory, TypeOK, Initialising, PAttached, CAttached
<1>1. TypeOK'
  BY DEF Entries
<1>2. HeaderFacts'
  BY DEF HeaderFacts, HeaderComplete
<1>3. HeaderComplete'
  BY DEF HeaderFacts, HeaderComplete
<1>4. CapacityErrorIsTrue'
  BY DEF HeaderFacts, HeaderComplete, CapacityErrorIsTrue
<1>5. BeatsAddUp'
  BY DEF HeaderFacts, BeatsAddUp
<1>6. CursorsOrdered'
  BY DEF HeaderFacts, HeaderComplete, CursorsOrdered
<1> QED BY <1>1, <1>2, <1>3, <1>4, <1>5, <1>6

\* The load of capacity lets only the capacity of the channel through.
LEMMA ConsumerLoadCapacityStep ==
  ASSUME IInv, ConsumerLoadCapacity
  PROVE  IInv'
<1> USE CapacitiesAssumption
    DEF IInv, ConsumerLoadCapacity, header, producer, consumer, phistory,
        chistory, TypeOK, Initialising, PAttached, CAttached
<1>1. TypeOK'
  <2>1. reports' \subseteq Nat
    <3>1. reports' \subseteq reports \cup {capacity}
      OBVIOUS
    <3> QED BY <3>1
  <2>2. cpc' \in {"down", "magic", "capacity"} \cup CAttached
    OBVIOUS
  <2>3. UNCHANGED <<magic, capacity, tail, head, producer_heartbeat,
                  consumer_heartbeat, ppc, entry, pN, ptail, cN, chead,
                  last_consumer_heartbeat, last_producer_heartbeat,
                  pmissed, cmissed, pcreated, pnoticed, acked>>
    OBVIOUS
  <2> HIDE DEF ConsumerLoadCapacity
  <2> QED BY <2>1, <2>2, <2>3 DEF Entries
<1>2. HeaderFacts'
  BY DEF HeaderFacts, HeaderComplete
<1>3. HeaderComplete'
  BY DEF HeaderFacts, HeaderComplete
<1>4. CapacityErrorIsTrue'
  <2>1. magic = "MAGIC" /\ capacity \in Capacities
    BY DEF HeaderFacts
  <2>2. reports' \subseteq reports \cup {capacity}
    OBVIOUS
  <2>3. magic' = magic /\ capacity' = capacity
    OBVIOUS
  <2> QED BY <2>1, <2>2, <2>3 DEF CapacityErrorIsTrue
<1>5. BeatsAddUp'
  BY DEF HeaderFacts, BeatsAddUp
<1>6. CursorsOrdered'
  BY DEF HeaderFacts, HeaderComplete, CursorsOrdered
<1> QED BY <1>1, <1>2, <1>3, <1>4, <1>5, <1>6

\* A joining consumer starts at the tail,
LEMMA ConsumerLoadTailStep ==
  ASSUME IInv, ConsumerLoadTail
  PROVE  IInv'
<1> USE CapacitiesAssumption
    DEF IInv, ConsumerLoadTail, header, producer, consumer, phistory,
        chistory, TypeOK, Initialising, PAttached, CAttached
<1>1. TypeOK'
  BY DEF Entries
<1>2. HeaderFacts'
  BY DEF HeaderFacts, HeaderComplete
<1>3. HeaderComplete'
  BY DEF HeaderFacts, HeaderComplete
<1>4. CapacityErrorIsTrue'
  BY DEF HeaderFacts, HeaderComplete, CapacityErrorIsTrue
<1>5. BeatsAddUp'
  BY DEF HeaderFacts, BeatsAddUp
<1>6. CursorsOrdered'
  BY DEF HeaderFacts, HeaderComplete, CursorsOrdered
<1> QED BY <1>1, <1>2, <1>3, <1>4, <1>5, <1>6

\* and stores a head that is not beyond it.
LEMMA ConsumerStoreHeadStep ==
  ASSUME IInv, ConsumerStoreHead
  PROVE  IInv'
<1> USE CapacitiesAssumption
    DEF IInv, ConsumerStoreHead, header, producer, consumer, phistory,
        chistory, TypeOK, Initialising, PAttached, CAttached
<1>1. TypeOK'
  BY DEF Entries
<1>2. HeaderFacts'
  BY DEF HeaderFacts, HeaderComplete
<1>3. HeaderComplete'
  BY DEF HeaderFacts, HeaderComplete
<1>4. CapacityErrorIsTrue'
  BY DEF HeaderFacts, HeaderComplete, CapacityErrorIsTrue
<1>5. BeatsAddUp'
  BY DEF HeaderFacts, BeatsAddUp
<1>6. CursorsOrdered'
  BY DEF HeaderFacts, HeaderComplete, CursorsOrdered
<1> QED BY <1>1, <1>2, <1>3, <1>4, <1>5, <1>6

\* The copy of the heartbeat starts out up to date.
LEMMA LoadProducerHeartbeatStep ==
  ASSUME IInv, LoadProducerHeartbeat
  PROVE  IInv'
<1> USE CapacitiesAssumption
    DEF IInv, LoadProducerHeartbeat, header, producer, consumer, phistory,
        chistory, TypeOK, Initialising, PAttached, CAttached
<1>1. TypeOK'
  BY DEF Entries
<1>2. HeaderFacts'
  BY DEF HeaderFacts, HeaderComplete
<1>3. HeaderComplete'
  BY DEF HeaderFacts, HeaderComplete
<1>4. CapacityErrorIsTrue'
  BY DEF HeaderFacts, HeaderComplete, CapacityErrorIsTrue
<1>5. BeatsAddUp'
  BY DEF HeaderFacts, BeatsAddUp
<1>6. CursorsOrdered'
  BY DEF HeaderFacts, HeaderComplete, CursorsOrdered
<1> QED BY <1>1, <1>2, <1>3, <1>4, <1>5, <1>6

\* beat of the consumer: one beat the producer has not seen.
LEMMA ConsumerBeatStep ==
  ASSUME IInv, ConsumerBeat
  PROVE  IInv'
<1> USE CapacitiesAssumption
    DEF IInv, ConsumerBeat, header, producer, consumer, phistory,
        chistory, TypeOK, Initialising, PAttached, CAttached
<1>1. TypeOK'
  BY DEF Entries
<1>2. HeaderFacts'
  BY DEF HeaderFacts, HeaderComplete
<1>3. HeaderComplete'
  BY DEF HeaderFacts, HeaderComplete
<1>4. CapacityErrorIsTrue'
  BY DEF HeaderFacts, HeaderComplete, CapacityErrorIsTrue
<1>5. BeatsAddUp'
  BY DEF HeaderFacts, BeatsAddUp
<1>6. CursorsOrdered'
  BY DEF HeaderFacts, HeaderComplete, CursorsOrdered
<1> QED BY <1>1, <1>2, <1>3, <1>4, <1>5, <1>6

\* producer_heartbeat brings the copy up to date.
LEMMA ProducerHeartbeatStep ==
  ASSUME IInv, ProducerHeartbeat
  PROVE  IInv'
<1> USE CapacitiesAssumption
    DEF IInv, ProducerHeartbeat, header, producer, consumer, phistory,
        chistory, TypeOK, Initialising, PAttached, CAttached
<1>1. TypeOK'
  BY DEF Entries
<1>2. HeaderFacts'
  BY DEF HeaderFacts, HeaderComplete
<1>3. HeaderComplete'
  BY DEF HeaderFacts, HeaderComplete
<1>4. CapacityErrorIsTrue'
  BY DEF HeaderFacts, HeaderComplete, CapacityErrorIsTrue
<1>5. BeatsAddUp'
  BY DEF HeaderFacts, BeatsAddUp
<1>6. CursorsOrdered'
  BY DEF HeaderFacts, HeaderComplete, CursorsOrdered
<1> QED BY <1>1, <1>2, <1>3, <1>4, <1>5, <1>6

\* One step of either endpoint, or none, preserves the invariant.
LEMMA NextIInv == IInv /\ [Next]_vars => IInv'
<1> SUFFICES ASSUME IInv, [Next]_vars PROVE IInv'
  OBVIOUS
<1>1. CASE \E n \in Capacities :
             ConsumerStart(n) \/ \E how \in Entries : ProducerStart(how, n)
  BY <1>1, ConsumerStartStep, ProducerStartStep
<1>2. CASE ProducerProgress
  BY <1>2, ProducerLoadMagicStep, ProducerLoadCapacityStep, StoreTailStep,
     StoreProducerHeartbeatStep, StoreConsumerHeartbeatStep,
     StoreCapacityStep, StoreMagicStep, JoinBeatStep, LoadTailStep,
     LoadConsumerHeartbeatStep, ConsumerHeartbeatStep DEF ProducerProgress
<1>3. CASE ConsumerProgress
  BY <1>3, ConsumerLoadMagicStep, ConsumerLoadCapacityStep,
     ConsumerLoadTailStep, ConsumerStoreHeadStep, LoadProducerHeartbeatStep,
     ProducerHeartbeatStep DEF ConsumerProgress
<1>4. CASE ProducerCrash \/ ProducerBeat \/ Sync \/ ConsumerCrash \/ ConsumerBeat
  BY <1>4, ProducerCrashStep, ProducerBeatStep, SyncStep, ConsumerCrashStep,
     ConsumerBeatStep
<1>5. CASE UNCHANGED vars
  BY <1>5 DEF vars, header, producer, consumer, phistory, chistory,
     IInv, TypeOK, HeaderFacts, HeaderComplete, CapacityErrorIsTrue,
     BeatsAddUp, CursorsOrdered
<1> QED BY <1>1, <1>2, <1>3, <1>4, <1>5 DEF Next

-----------------------------------------------------------------------------
(***************************************************************************)
(* The theorems.                                                           *)
(***************************************************************************)

\* The inductive invariant holds in every reachable state.
THEOREM Invariance == Spec => []IInv
<1> QED BY InitIInv, NextIInv, PTL DEF Spec

\* Whoever has passed the checks of its join is on a complete header of its
\* own capacity (join_or_create_shmem, join_or_initialize_in_, join_, join).
THEOREM HeaderCompleteCorrect == Spec => []HeaderComplete
<1>1. IInv => HeaderComplete
  BY DEF IInv
<1> QED BY <1>1, Invariance, PTL

\* IncorrectCapacity reports the capacity the channel was initialised with.
THEOREM CapacityErrorIsTrueCorrect == Spec => []CapacityErrorIsTrue
<1>1. IInv => CapacityErrorIsTrue
  BY DEF IInv
<1> QED BY <1>1, Invariance, PTL

\* The heartbeat checks are true exactly when the other side has beaten since.
THEOREM BeatsAddUpCorrect == Spec => []BeatsAddUp
<1>1. IInv => BeatsAddUp
  BY DEF IInv
<1> QED BY <1>1, Invariance, PTL

\* Only sync and the beats touch a header that carries MAGIC, and they count up.
LEMMA NextKeepsHeader ==
  IInv /\ [Next]_vars /\ magic # "zero" =>
    /\ magic' = magic /\ capacity' = capacity /\ tail' >= tail
    /\ producer_heartbeat' >= producer_heartbeat
    /\ consumer_heartbeat' >= consumer_heartbeat
<1> SUFFICES ASSUME IInv, [Next]_vars, magic # "zero"
             PROVE  /\ magic' = magic /\ capacity' = capacity /\ tail' >= tail
                    /\ producer_heartbeat' >= producer_heartbeat
                    /\ consumer_heartbeat' >= consumer_heartbeat
  OBVIOUS
<1>0. /\ ppc \notin Initialising
      /\ tail \in Nat /\ producer_heartbeat \in Nat /\ consumer_heartbeat \in Nat
  BY DEF IInv, TypeOK, HeaderFacts
<1>1. CASE Sync
  <2>1. ptail = tail
    BY <1>1 DEF Sync, IInv, CursorsOrdered
  <2> QED BY <1>0, <1>1, <2>1 DEF Sync
<1>2. CASE JoinBeat \/ ProducerBeat \/ ConsumerBeat
  BY <1>0, <1>2 DEF JoinBeat, ProducerBeat, ConsumerBeat
<1>3. CASE UNCHANGED <<magic, capacity, tail, producer_heartbeat, consumer_heartbeat>>
  BY <1>0, <1>3
<1>4. CASE ProducerProgress /\ ~JoinBeat
  <2>1. UNCHANGED <<magic, capacity, tail, producer_heartbeat, consumer_heartbeat>>
    BY <1>0, <1>4 DEF ProducerProgress, ProducerLoadMagic,
       ProducerLoadCapacity, StoreTail, StoreProducerHeartbeat,
       StoreConsumerHeartbeat, StoreCapacity, StoreMagic, LoadTail, Goto,
       LoadConsumerHeartbeat, ConsumerHeartbeat, header, Initialising
  <2> QED BY <1>3, <2>1
<1>5. CASE ConsumerProgress \/ ConsumerCrash \/ ProducerCrash \/ UNCHANGED vars
  <2>1. UNCHANGED <<magic, capacity, tail, producer_heartbeat, consumer_heartbeat>>
    BY <1>5 DEF ConsumerProgress, ConsumerCrash, ProducerCrash, header, vars,
       ConsumerLoadMagic, ConsumerLoadCapacity, ConsumerLoadTail,
       ConsumerStoreHead, LoadProducerHeartbeat, ProducerHeartbeat
  <2> QED BY <1>3, <2>1
<1>6. CASE \E n \in Capacities :
             ConsumerStart(n) \/ \E how \in Entries : ProducerStart(how, n)
  <2>1. UNCHANGED <<magic, capacity, tail, producer_heartbeat, consumer_heartbeat>>
    BY <1>6 DEF ConsumerStart, ProducerStart, header
  <2> QED BY <1>3, <2>1
<1> QED BY <1>1, <1>2, <1>4, <1>5, <1>6 DEF Next

\* No step resets or rewinds a header that carries MAGIC.
THEOREM HeaderStableCorrect == Spec => HeaderStable
<1>1. IInv /\ [Next]_vars =>
        [magic # "zero" =>
           /\ magic' = magic /\ capacity' = capacity /\ tail' >= tail
           /\ producer_heartbeat' >= producer_heartbeat
           /\ consumer_heartbeat' >= consumer_heartbeat]_vars
  BY NextKeepsHeader
<1> QED BY <1>1, Invariance, PTL DEF Spec, HeaderStable

=============================================================================
