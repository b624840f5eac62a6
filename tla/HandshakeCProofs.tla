-------------------------- MODULE HandshakeCProofs --------------------------
(***************************************************************************)
(* The header with producers of both languages: in a build that keeps the  *)
(* order of the stores (ProgramOrder), every step of the mixed endpoints   *)
(* is a step of Handshake or none, under the mapping Place.  So what       *)
(* HandshakeProofs proves of the Rust endpoints holds with C among them.   *)
(***************************************************************************)
EXTENDS HandshakeC, TLAPS

\* The lemmas of HandshakeProofs under the same mapping.
Proofs == INSTANCE HandshakeProofs WITH ppc <- Place

-----------------------------------------------------------------------------
(***************************************************************************)
(* Handshake and HandshakeProofs instantiated are the same formulas.       *)
(***************************************************************************)

\* The inductive invariant is the same through either instance.
LEMMA SameIInv == Rust!IInv <=> Proofs!IInv
<1>1. Rust!TypeOK <=> Proofs!TypeOK
  BY DEF Rust!TypeOK, Rust!Initialising, Rust!PAttached, Rust!CAttached,
     Rust!Entries, Proofs!TypeOK, Proofs!Initialising, Proofs!PAttached,
     Proofs!CAttached, Proofs!Entries
<1>2. Rust!HeaderFacts <=> Proofs!HeaderFacts
  BY DEF Rust!HeaderFacts, Rust!Initialising, Proofs!HeaderFacts,
     Proofs!Initialising
<1>3. Rust!HeaderComplete <=> Proofs!HeaderComplete
  BY DEF Rust!HeaderComplete, Rust!PAttached, Rust!CAttached,
     Proofs!HeaderComplete, Proofs!PAttached, Proofs!CAttached
<1>4. /\ Rust!CapacityErrorIsTrue <=> Proofs!CapacityErrorIsTrue
      /\ Rust!BeatsAddUp <=> Proofs!BeatsAddUp
      /\ Rust!CursorsOrdered <=> Proofs!CursorsOrdered
  BY DEF Rust!CapacityErrorIsTrue, Rust!BeatsAddUp, Rust!CursorsOrdered,
     Proofs!CapacityErrorIsTrue, Proofs!BeatsAddUp, Proofs!CursorsOrdered
<1> QED BY <1>1, <1>2, <1>3, <1>4 DEF Rust!IInv, Proofs!IInv

\* A step of the one instance is a step of the other.
LEMMA SameNext == [Rust!Next]_(Rust!vars) => [Proofs!Next]_(Proofs!vars)
<1> USE DEF Rust!header, Rust!producer, Rust!consumer, Rust!phistory,
        Rust!chistory, Proofs!header, Proofs!producer, Proofs!consumer,
        Proofs!phistory, Proofs!chistory, Rust!Goto, Proofs!Goto
<1>1. Rust!vars = Proofs!vars /\ (Rust!vars)' = (Proofs!vars)'
  BY DEF Rust!vars, Proofs!vars
<1>2. Rust!ProducerProgress => Proofs!ProducerProgress
  BY DEF Rust!ProducerProgress, Rust!ProducerLoadMagic,
     Rust!ProducerLoadCapacity, Rust!StoreTail, Rust!StoreProducerHeartbeat,
     Rust!StoreConsumerHeartbeat, Rust!StoreCapacity, Rust!StoreMagic,
     Rust!JoinBeat, Rust!LoadTail, Rust!LoadConsumerHeartbeat,
     Rust!ConsumerHeartbeat,
     Proofs!ProducerProgress, Proofs!ProducerLoadMagic,
     Proofs!ProducerLoadCapacity, Proofs!StoreTail,
     Proofs!StoreProducerHeartbeat, Proofs!StoreConsumerHeartbeat,
     Proofs!StoreCapacity, Proofs!StoreMagic, Proofs!JoinBeat,
     Proofs!LoadTail, Proofs!LoadConsumerHeartbeat, Proofs!ConsumerHeartbeat
<1>3. Rust!ConsumerProgress => Proofs!ConsumerProgress
  BY DEF Rust!ConsumerProgress, Rust!ConsumerLoadMagic,
     Rust!ConsumerLoadCapacity, Rust!ConsumerLoadTail, Rust!ConsumerStoreHead,
     Rust!LoadProducerHeartbeat, Rust!ProducerHeartbeat,
     Proofs!ConsumerProgress, Proofs!ConsumerLoadMagic,
     Proofs!ConsumerLoadCapacity, Proofs!ConsumerLoadTail,
     Proofs!ConsumerStoreHead, Proofs!LoadProducerHeartbeat,
     Proofs!ProducerHeartbeat
<1>4. Rust!Next => Proofs!Next
  BY <1>2, <1>3
     DEF Rust!Next, Rust!ConsumerStart, Rust!ProducerStart, Rust!Entries,
     Rust!ProducerCrash, Rust!ProducerBeat, Rust!Sync, Rust!ConsumerCrash,
     Rust!ConsumerBeat,
     Proofs!Next, Proofs!ConsumerStart, Proofs!ProducerStart, Proofs!Entries,
     Proofs!ProducerCrash, Proofs!ProducerBeat, Proofs!Sync,
     Proofs!ConsumerCrash, Proofs!ConsumerBeat
<1> QED BY <1>1, <1>4

\* What HandshakeProofs says of a step.
LEMMA RustStep ==
  ASSUME Rust!IInv, [Rust!Next]_(Rust!vars)
  PROVE  /\ (Rust!IInv)'
         /\ magic # "zero" =>
              /\ magic' = magic /\ capacity' = capacity /\ tail' >= tail
              /\ producer_heartbeat' >= producer_heartbeat
              /\ consumer_heartbeat' >= consumer_heartbeat
<1>1. Proofs!IInv /\ [Proofs!Next]_(Proofs!vars)
  BY SameIInv, SameNext
<1>2. (Proofs!IInv)'
  BY <1>1, Proofs!NextIInv, CapacitiesAssumption, BoundsAssumption
<1>3. (Rust!IInv)'
  BY <1>2, SameIInv, PTL
<1>4. magic # "zero" =>
        /\ magic' = magic /\ capacity' = capacity /\ tail' >= tail
        /\ producer_heartbeat' >= producer_heartbeat
        /\ consumer_heartbeat' >= consumer_heartbeat
  BY <1>1, Proofs!NextKeepsHeader, CapacitiesAssumption, BoundsAssumption
<1> QED BY <1>3, <1>4

-----------------------------------------------------------------------------
(***************************************************************************)
(* Every step of the mixed endpoints is a step of the Rust ones or none.   *)
(***************************************************************************)

\* Outside its last stores a producer is where it says.
LEMMA PlainPlace ==
  /\ port # "c" \/ ppc # "store_capacity" => Place = ppc
  /\ port' # "c" \/ ppc' # "store_capacity" => Place' = ppc'
  BY DEF Place

\* The consumer does not move the producer.
LEMMA ConsumerMaps ==
  ASSUME MixedConsumer
  PROVE  Rust!Next
<1> USE DEF header, producer, consumer, phistory, chistory, Rust!header,
        Rust!producer, Rust!consumer, Rust!phistory, Rust!chistory
<1>1. ppc' = ppc /\ port' = port /\ pending' = pending
  BY DEF MixedConsumer, ConsumerStart, ConsumerProgress, ConsumerLoadMagic,
     ConsumerLoadCapacity, ConsumerLoadTail, ConsumerStoreHead,
     LoadProducerHeartbeat, ProducerHeartbeat, ConsumerCrash, ConsumerBeat
<1>2. Place' = Place
  BY <1>1 DEF Place
<1>3. ASSUME NEW n \in Capacities, ConsumerStart(n) PROVE Rust!ConsumerStart(n)
  BY <1>2, <1>3 DEF ConsumerStart, Rust!ConsumerStart
<1>4. ASSUME ConsumerProgress PROVE Rust!ConsumerProgress
  BY <1>2, <1>4 DEF ConsumerProgress, ConsumerLoadMagic, ConsumerLoadCapacity,
     ConsumerLoadTail, ConsumerStoreHead, LoadProducerHeartbeat,
     ProducerHeartbeat,
     Rust!ConsumerProgress, Rust!ConsumerLoadMagic, Rust!ConsumerLoadCapacity,
     Rust!ConsumerLoadTail, Rust!ConsumerStoreHead,
     Rust!LoadProducerHeartbeat, Rust!ProducerHeartbeat
<1>5. ASSUME ConsumerCrash PROVE Rust!ConsumerCrash
  BY <1>2, <1>5 DEF ConsumerCrash, Rust!ConsumerCrash
<1>6. ASSUME ConsumerBeat PROVE Rust!ConsumerBeat
  BY <1>2, <1>6 DEF ConsumerBeat, Rust!ConsumerBeat
<1> QED BY <1>3, <1>4, <1>5, <1>6 DEF MixedConsumer, Rust!Next

\* A producer's step outside the last stores of C is the same step.
LEMMA ProducerMaps ==
  ASSUME Place = ppc, Place' = ppc',
         \/ ProducerProgress \/ ProducerCrash \/ ProducerBeat \/ Sync
         \/ \E n \in Capacities, how \in Entries : ProducerStart(how, n)
  PROVE  Rust!Next
<1> USE DEF header, producer, consumer, phistory, chistory, Rust!header,
        Rust!producer, Rust!consumer, Rust!phistory, Rust!chistory, Goto,
        Rust!Goto
<1>1. ASSUME ProducerProgress PROVE Rust!ProducerProgress
  <2>1. ASSUME ProducerLoadMagic PROVE Rust!ProducerLoadMagic
    BY <2>1 DEF ProducerLoadMagic, Rust!ProducerLoadMagic
  <2>2. ASSUME ProducerLoadCapacity PROVE Rust!ProducerLoadCapacity
    BY <2>2 DEF ProducerLoadCapacity, Rust!ProducerLoadCapacity
  <2>3. ASSUME StoreTail PROVE Rust!StoreTail
    BY <2>3 DEF StoreTail, Rust!StoreTail
  <2>4. ASSUME StoreProducerHeartbeat PROVE Rust!StoreProducerHeartbeat
    BY <2>4 DEF StoreProducerHeartbeat, Rust!StoreProducerHeartbeat
  <2>5. ASSUME StoreConsumerHeartbeat PROVE Rust!StoreConsumerHeartbeat
    BY <2>5 DEF StoreConsumerHeartbeat, Rust!StoreConsumerHeartbeat
  <2>6. ASSUME StoreCapacity PROVE Rust!StoreCapacity
    BY <2>6 DEF StoreCapacity, Rust!StoreCapacity
  <2>7. ASSUME StoreMagic PROVE Rust!StoreMagic
    BY <2>7 DEF StoreMagic, Rust!StoreMagic
  <2>8. ASSUME JoinBeat PROVE Rust!JoinBeat
    BY <2>8 DEF JoinBeat, Rust!JoinBeat
  <2>9. ASSUME LoadTail PROVE Rust!LoadTail
    BY <2>9 DEF LoadTail, Rust!LoadTail
  <2>10. ASSUME LoadConsumerHeartbeat PROVE Rust!LoadConsumerHeartbeat
    BY <2>10 DEF LoadConsumerHeartbeat, Rust!LoadConsumerHeartbeat
  <2>11. ASSUME ConsumerHeartbeat PROVE Rust!ConsumerHeartbeat
    BY <2>11 DEF ConsumerHeartbeat, Rust!ConsumerHeartbeat
  <2> QED
    BY <1>1, <2>1, <2>2, <2>3, <2>4, <2>5, <2>6, <2>7, <2>8, <2>9, <2>10, <2>11
       DEF ProducerProgress, Rust!ProducerProgress
<1>2. ASSUME ProducerCrash PROVE Rust!ProducerCrash
  BY <1>2 DEF ProducerCrash, Rust!ProducerCrash
<1>3. ASSUME ProducerBeat PROVE Rust!ProducerBeat
  BY <1>3 DEF ProducerBeat, Rust!ProducerBeat
<1>4. ASSUME Sync PROVE Rust!Sync
  BY <1>4 DEF Sync, Rust!Sync
<1>5. ASSUME NEW n \in Capacities, NEW how \in Entries, ProducerStart(how, n)
      PROVE  Rust!ProducerStart(how, n)
  BY <1>5 DEF ProducerStart, Rust!ProducerStart
<1> QED BY <1>1, <1>2, <1>3, <1>4, <1>5 DEF Rust!Next, Rust!Entries, Entries

\* The start of a producer in either language.
LEMMA StartMaps ==
  ASSUME StartMixed
  PROVE  Rust!Next /\ StoresLeft'
<1>1. PICK n \in Capacities, how \in Entries : ProducerStart(how, n)
  BY DEF StartMixed
<1>2. ppc = "down" /\ ppc' = "magic"
  BY <1>1 DEF ProducerStart
<1>3. Place = ppc /\ Place' = ppc'
  BY <1>2, PlainPlace
<1>4. StoresLeft'
  BY <1>2 DEF StoresLeft
<1> QED BY <1>1, <1>3, <1>4, ProducerMaps

\* The Rust producer.
LEMMA RustMaps ==
  ASSUME RustNext
  PROVE  Rust!Next /\ StoresLeft'
<1>1. port = "rust" /\ port' = "rust"
  BY DEF RustNext
<1>2. Place = ppc /\ Place' = ppc'
  BY <1>1, PlainPlace
<1>3. StoresLeft'
  BY <1>1 DEF StoresLeft
<1> QED BY <1>2, <1>3, ProducerMaps DEF RustNext

\* The C producer, the step that leaves the last stores included.
LEMMA CMaps ==
  ASSUME ProgramOrder, MixedIInv, CNext
  PROVE  [Rust!Next]_(Rust!vars) /\ StoresLeft'
<1> USE DEF header, producer, consumer, phistory, chistory, Rust!header,
        Rust!producer, Rust!consumer, Rust!phistory, Rust!chistory, Goto,
        Rust!Goto
<1>1. CASE CLoadMagic
  <2>1. ppc = "magic" /\ ppc' # "store_capacity" /\ port' = port /\ ProducerProgress
    BY <1>1 DEF CLoadMagic, ProducerLoadMagic, ProducerProgress
  <2>2. Place = ppc /\ Place' = ppc'
    BY <2>1, PlainPlace
  <2>3. StoresLeft'
    BY <1>1, <2>1 DEF CLoadMagic, ProducerLoadMagic, StoresLeft
  <2> QED BY <2>1, <2>2, <2>3, ProducerMaps
<1>2. CASE CStoreHead
  <2>1. ppc = "store_pbeat" /\ ppc' = ppc /\ port' = port
    BY <1>2 DEF CStoreHead
  <2>2. Place = ppc /\ Place' = ppc'
    BY <2>1, PlainPlace
  <2>3. head = 0
    BY <2>1, <2>2 DEF MixedIInv, Rust!IInv, Rust!HeaderFacts, Rust!Initialising
  <2>4. UNCHANGED Rust!vars
    BY <1>2, <2>1, <2>2, <2>3 DEF CStoreHead, Rust!vars
  <2>5. StoresLeft'
    BY <1>2, <2>1 DEF CStoreHead, StoresLeft, MixedIInv
  <2> QED BY <2>4, <2>5
<1>3. CASE CStoreAtomic
  <2>1. port = "c" /\ port' = port /\ pending' = pending
    BY <1>3 DEF CStoreAtomic
  <2>2. \/ StoreTail /\ ppc = "store_tail" /\ ppc' = "store_pbeat"
        \/ StoreProducerHeartbeat /\ ppc = "store_pbeat" /\ ppc' = "store_cbeat"
        \/ StoreConsumerHeartbeat /\ ppc = "store_cbeat" /\ ppc' = "store_capacity"
    BY <1>3 DEF CStoreAtomic, StoreTail, StoreProducerHeartbeat,
       StoreConsumerHeartbeat
  <2>3. {"capacity", "magic"} \subseteq pending
    BY <2>1, <2>2 DEF MixedIInv, StoresLeft
  <2>4. Place = ppc /\ Place' = ppc'
    BY <2>1, <2>2, <2>3 DEF Place
  <2>5. StoresLeft'
    BY <2>1, <2>2, <2>3 DEF StoresLeft
  <2> QED BY <2>2, <2>4, <2>5, ProducerMaps DEF ProducerProgress
<1>4. CASE CStoreCapacity
  <2>1. /\ port = "c" /\ port' = "c" /\ ppc = "store_capacity" /\ ppc' = ppc
        /\ "capacity" \in pending /\ pending' = pending \ {"capacity"}
    BY <1>4 DEF CStoreCapacity, MayStore
  <2>2. "magic" \in pending
    BY <2>1 DEF MixedIInv, StoresLeft
  <2>3. Place = "store_capacity" /\ Place' = "store_magic"
    BY <2>1, <2>2 DEF Place
  <2>4. Rust!StoreCapacity
    BY <1>4, <2>3 DEF CStoreCapacity, Rust!StoreCapacity
  <2>5. StoresLeft'
    BY <2>1 DEF StoresLeft
  <2> QED BY <2>4, <2>5 DEF Rust!Next, Rust!ProducerProgress
<1>5. CASE CStoreMagic
  <2>1. /\ port = "c" /\ port' = "c" /\ ppc = "store_capacity" /\ ppc' = ppc
        /\ "magic" \in pending /\ "capacity" \notin pending
        /\ pending' = pending \ {"magic"}
    BY <1>5 DEF CStoreMagic, MayStore
  <2>2. Place = "store_magic" /\ Place' = "load_beat"
    BY <2>1 DEF Place
  <2>3. Rust!StoreMagic
    BY <1>5, <2>2 DEF CStoreMagic, Rust!StoreMagic
  <2>4. StoresLeft'
    BY <2>1 DEF StoresLeft
  <2> QED BY <2>3, <2>4 DEF Rust!Next, Rust!ProducerProgress
<1>6. CASE CStored
  <2>1. /\ port = "c" /\ port' = "c" /\ pending = {}
        /\ ppc = "store_capacity" /\ ppc' = "load_beat"
    BY <1>6 DEF CStored
  <2>2. Place = "load_beat" /\ Place' = "load_beat"
    BY <2>1 DEF Place
  <2>3. UNCHANGED Rust!vars
    BY <1>6, <2>2 DEF CStored, Rust!vars
  <2>4. StoresLeft'
    BY <2>1 DEF StoresLeft
  <2> QED BY <2>3, <2>4
<1>7. CASE /\ port = "c"
           /\ CJoinRest \/ CHeartbeat \/ CBeat \/ CSync \/ ProducerCrash
           /\ UNCHANGED <<port, pending>>
  <2>1. \/ ProducerCrash /\ ppc # "down" /\ ppc' = "down"
        \/ /\ ProducerProgress \/ ProducerBeat \/ Sync
           /\ ppc \in {"capacity", "beat", "load_tail", "load_beat", "joined"}
           /\ ppc' \in {"down", "beat", "load_tail", "load_beat", "joined"}
    BY <1>7 DEF CJoinRest, CHeartbeat, CBeat, CSync, ProducerCrash,
       ProducerProgress, ProducerLoadCapacity, JoinBeat, LoadTail,
       LoadConsumerHeartbeat, ConsumerHeartbeat, ProducerBeat, Sync
  <2>2. StoresLeft'
    BY <2>1 DEF StoresLeft
  <2>3. CASE ppc # "store_capacity"
    <3>1. Place = ppc /\ Place' = ppc'
      BY <2>1, <2>3, PlainPlace
    <3> QED BY <2>1, <2>2, <3>1, ProducerMaps
  <2>4. CASE ppc = "store_capacity"
    <3>1. Place # "down" /\ Place' = "down" /\ ProducerCrash
      BY <2>1, <2>4 DEF Place
    <3>2. Rust!ProducerCrash
      BY <3>1 DEF ProducerCrash, Rust!ProducerCrash
    <3> QED BY <2>2, <3>2 DEF Rust!Next
  <2> QED BY <2>3, <2>4
<1> QED BY <1>1, <1>2, <1>3, <1>4, <1>5, <1>6, <1>7 DEF CNext

\* Together.
LEMMA MixedMaps ==
  ASSUME ProgramOrder, MixedIInv, [MixedNext]_mixedVars
  PROVE  [Rust!Next]_(Rust!vars) /\ StoresLeft'
<1>1. CASE UNCHANGED mixedVars
  <2>1. Place' = Place
    BY <1>1 DEF mixedVars, vars, producer, Place
  <2>2. UNCHANGED Rust!vars
    BY <1>1, <2>1 DEF mixedVars, vars, header, producer, consumer, phistory,
       chistory, Rust!vars, Rust!header, Rust!producer, Rust!consumer,
       Rust!phistory, Rust!chistory
  <2>3. StoresLeft'
    BY <1>1 DEF mixedVars, vars, producer, MixedIInv, StoresLeft
  <2> QED BY <2>2, <2>3
<1>2. CASE MixedConsumer
  <2>1. ppc' = ppc /\ port' = port /\ pending' = pending
    BY <1>2 DEF MixedConsumer, ConsumerStart, ConsumerProgress,
       ConsumerLoadMagic, ConsumerLoadCapacity, ConsumerLoadTail,
       ConsumerStoreHead, LoadProducerHeartbeat, ProducerHeartbeat,
       ConsumerCrash, ConsumerBeat, producer
  <2>2. StoresLeft'
    BY <2>1 DEF MixedIInv, StoresLeft
  <2> QED BY <1>2, <2>2, ConsumerMaps
<1> QED BY <1>1, <1>2, StartMaps, RustMaps, CMaps DEF MixedNext

\* In the beginning nothing was started in either language.
LEMMA MixedInitMaps == MixedInit => Rust!Init /\ StoresLeft
  BY DEF MixedInit, Init, Rust!Init, StoresLeft, Place

\* The inductive invariant holds of a fresh region, under the mapping.
LEMMA RustInit == Rust!Init => Rust!IInv
<1>1. Rust!Init => Proofs!Init
  BY DEF Rust!Init, Proofs!Init
<1>2. Proofs!Init => Proofs!IInv
  BY Proofs!InitIInv, CapacitiesAssumption, BoundsAssumption
<1> QED BY <1>1, <1>2, SameIInv

-----------------------------------------------------------------------------
(***************************************************************************)
(* The theorems.                                                           *)
(***************************************************************************)

\* The invariant of the Rust endpoints holds with C producers among them.
THEOREM MixedInvariance ==
  ASSUME ProgramOrder
  PROVE  MixedSpec => []MixedIInv
<1>1. MixedInit => MixedIInv
  BY MixedInitMaps, RustInit DEF MixedIInv
<1>2. MixedIInv /\ [MixedNext]_mixedVars => MixedIInv'
  <2> SUFFICES ASSUME MixedIInv, [MixedNext]_mixedVars PROVE MixedIInv'
    OBVIOUS
  <2>1. [Rust!Next]_(Rust!vars) /\ StoresLeft'
    BY MixedMaps
  <2>2. Rust!IInv
    BY DEF MixedIInv
  <2>3. (Rust!IInv)'
    BY <2>1, <2>2, RustStep
  <2> QED BY <2>1, <2>3 DEF MixedIInv
<1> QED BY <1>1, <1>2, PTL DEF MixedSpec

\* C and Rust producers, started in any order and dying anywhere, implement the
\* handshake of the Rust producer alone.
THEOREM ImplementsHandshakeCorrect ==
  ASSUME ProgramOrder
  PROVE  MixedSpec => ImplementsHandshake
<1>1. MixedInit => Rust!Init
  BY MixedInitMaps
<1>2. MixedIInv /\ [MixedNext]_mixedVars => [Rust!Next]_(Rust!vars)
  BY MixedMaps
<1>3. MixedSpec => []MixedIInv
  BY MixedInvariance
<1> QED BY <1>1, <1>2, <1>3, PTL DEF MixedSpec, ImplementsHandshake, Rust!Spec

\* Who is past its checks is where it says.
LEMMA MixedProperties ==
  ASSUME MixedIInv
  PROVE  HeaderComplete /\ CapacityErrorIsTrue /\ BeatsAddUp
<1>1. ppc \in PAttached => Place = ppc
  BY PlainPlace DEF PAttached
<1>2. HeaderComplete
  BY <1>1 DEF MixedIInv, Rust!IInv, Rust!HeaderComplete, Rust!PAttached,
     Rust!CAttached, HeaderComplete, PAttached, CAttached
<1>3. CapacityErrorIsTrue
  BY DEF MixedIInv, Rust!IInv, Rust!CapacityErrorIsTrue, CapacityErrorIsTrue
<1>4. BeatsAddUp
  BY PlainPlace DEF MixedIInv, Rust!IInv, Rust!BeatsAddUp, BeatsAddUp
<1> QED BY <1>2, <1>3, <1>4

\* Whoever has passed the checks of its join is on a complete header of its own
\* capacity, whichever language initialised it.
THEOREM MixedHeaderComplete ==
  ASSUME ProgramOrder
  PROVE  MixedSpec => []HeaderComplete
<1>1. MixedIInv => HeaderComplete
  BY MixedProperties
<1>2. MixedSpec => []MixedIInv
  BY MixedInvariance
<1> QED BY <1>1, <1>2, PTL

\* IncorrectCapacity reports the capacity the channel was initialised with, in
\* C or in Rust.
THEOREM MixedCapacityErrorIsTrue ==
  ASSUME ProgramOrder
  PROVE  MixedSpec => []CapacityErrorIsTrue
<1>1. MixedIInv => CapacityErrorIsTrue
  BY MixedProperties
<1>2. MixedSpec => []MixedIInv
  BY MixedInvariance
<1> QED BY <1>1, <1>2, PTL

\* The heartbeat checks are true exactly when the other side has beaten since,
\* over changes of language too.
THEOREM MixedBeatsAddUp ==
  ASSUME ProgramOrder
  PROVE  MixedSpec => []BeatsAddUp
<1>1. MixedIInv => BeatsAddUp
  BY MixedProperties
<1>2. MixedSpec => []MixedIInv
  BY MixedInvariance
<1> QED BY <1>1, <1>2, PTL

\* No producer of either language resets or rewinds a header with MAGIC.
THEOREM MixedHeaderStable ==
  ASSUME ProgramOrder
  PROVE  MixedSpec => HeaderStable
<1>1. MixedIInv /\ [MixedNext]_mixedVars =>
        [magic # "zero" =>
           /\ magic' = magic /\ capacity' = capacity /\ tail' >= tail
           /\ producer_heartbeat' >= producer_heartbeat
           /\ consumer_heartbeat' >= consumer_heartbeat]_vars
  BY MixedMaps, RustStep DEF MixedIInv
<1>2. MixedSpec => []MixedIInv
  BY MixedInvariance
<1> QED BY <1>1, <1>2, PTL DEF MixedSpec, HeaderStable

=============================================================================
