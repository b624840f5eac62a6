----------------------------- MODULE Handshake -----------------------------
(***************************************************************************)
(* The header of a channel: how endpoints join one region and see each     *)
(* other alive (the joins, beat, consumer_heartbeat and producer_heartbeat *)
(* of que/src/lossless; the headless endpoints do the same without head).  *)
(*                                                                         *)
(* Each access to the header is a step, and either endpoint may die        *)
(* between any two of them and be started again, built for any capacity.   *)
(***************************************************************************)
EXTENDS Naturals

CONSTANTS
  Capacities,   \* the N the programs may be built with
  MaxTail,      \* bound: the positions published
  MaxBeats      \* bound: the value of either heartbeat word

ASSUME CapacitiesAssumption == Capacities \subseteq Nat \ {0}
ASSUME BoundsAssumption     == MaxTail \in Nat /\ MaxBeats \in Nat

VARIABLES
  \* Channel: the header
  magic,                \* "zero", "MAGIC", or "other"
  capacity, tail, head, producer_heartbeat, consumer_heartbeat,
  \* Producer
  ppc,                  \* the access the join makes next, "down", "joined"
  entry,                \* which of the three joins it is in
  pN,                   \* the N it was built with
  ptail,                \* Producer.tail
  last_consumer_heartbeat,
  \* Consumer
  cpc, cN, chead, last_producer_heartbeat,
  \* History, read by no guard
  reports,              \* the capacities IncorrectCapacity was returned with
  pmissed,              \* consumer beats since the producer last looked
  cmissed,              \* producer beats since the consumer last looked
  pcreated,             \* this producer initialised the channel
  pnoticed,             \* consumer_heartbeat() was true for this producer
  acked                 \* this consumer has beaten

header   == <<magic, capacity, tail, head, producer_heartbeat, consumer_heartbeat>>
producer == <<ppc, entry, pN, ptail, last_consumer_heartbeat>>
consumer == <<cpc, cN, chead, last_producer_heartbeat>>
phistory == <<pmissed, pcreated, pnoticed>>
chistory == <<cmissed, acked>>
vars     == <<header, producer, consumer, reports, phistory, chistory>>

Entries == {"join_or_create_shmem", "join_or_initialize_in_", "join_"}

\* The places of a producer that initialises, and of one that found MAGIC.
Initialising == {"store_tail", "store_pbeat", "store_cbeat", "store_capacity",
                 "store_magic"}
PAttached    == {"beat", "load_tail", "load_beat", "joined"}
CAttached    == {"load_tail", "store_head", "load_beat", "joined"}

\* Every word of the header and every local copy keeps its type.
TypeOK ==
  /\ magic \in {"zero", "MAGIC", "other"}
  /\ capacity \in Nat /\ tail \in Nat /\ head \in Nat
  /\ producer_heartbeat \in Nat /\ consumer_heartbeat \in Nat
  /\ ppc \in {"down", "magic", "capacity"} \cup Initialising \cup PAttached
  /\ entry \in Entries /\ pN \in Capacities \cup {0}
  /\ ptail \in Nat /\ last_consumer_heartbeat \in Nat
  /\ cpc \in {"down", "magic", "capacity"} \cup CAttached
  /\ cN \in Capacities \cup {0}
  /\ chead \in Nat /\ last_producer_heartbeat \in Nat
  /\ reports \subseteq Nat
  /\ pmissed \in Nat /\ cmissed \in Nat
  /\ pcreated \in BOOLEAN /\ pnoticed \in BOOLEAN /\ acked \in BOOLEAN

\* A zeroed region, or one some other program has left its own magic in.
Init ==
  /\ magic \in {"zero", "other"}
  /\ capacity = 0 /\ tail = 0 /\ head = 0
  /\ producer_heartbeat = 0 /\ consumer_heartbeat = 0
  /\ ppc = "down" /\ entry = "join_" /\ pN = 0 /\ ptail = 0
  /\ last_consumer_heartbeat = 0
  /\ cpc = "down" /\ cN = 0 /\ chead = 0 /\ last_producer_heartbeat = 0
  /\ reports = {}
  /\ pmissed = 0 /\ cmissed = 0
  /\ pcreated = FALSE /\ pnoticed = FALSE /\ acked = FALSE

-----------------------------------------------------------------------------
(***************************************************************************)
(* The producer's joins.                                                   *)
(***************************************************************************)

\* A process built for capacity n calls one of the joins.
ProducerStart(how, n) ==
  /\ ppc = "down"
  /\ ppc' = "magic" /\ entry' = how /\ pN' = n
  /\ ptail' = 0 /\ last_consumer_heartbeat' = 0
  /\ pmissed' = 0 /\ pcreated' = FALSE /\ pnoticed' = FALSE
  /\ UNCHANGED <<header, consumer, reports, chistory>>

\* The producer goes away, dropped, killed, or after an error.
ProducerCrash ==
  /\ ppc # "down"
  /\ ppc' = "down"
  /\ UNCHANGED <<header, entry, pN, ptail, last_consumer_heartbeat, consumer,
                 reports, phistory, chistory>>

\* The load of magic: MAGIC is joined, zero is initialised (join_ returns
\* Uninitialized instead), anything else is CorruptionDetected.
ProducerLoadMagic ==
  /\ ppc = "magic"
  /\ ppc' = CASE magic = "MAGIC" -> "capacity"
              [] magic = "zero" /\ entry # "join_" -> "store_tail"
              [] OTHER -> "down"
  /\ UNCHANGED <<header, entry, pN, ptail, last_consumer_heartbeat, consumer,
                 reports, phistory, chistory>>

\* The load of capacity.  Of the three joins of the lossless producer only
\* join_or_initialize_in_ beats when it joins.  join_or_create_shmem of the
\* headless producer beats too, so it makes the accesses that are named
\* join_or_initialize_in_ here.
ProducerLoadCapacity ==
  /\ ppc = "capacity"
  /\ IF capacity # pN
     THEN ppc' = "down" /\ reports' = reports \cup {capacity}
     ELSE /\ ppc' = IF entry = "join_or_initialize_in_"
                    THEN "beat" ELSE "load_tail"
          /\ UNCHANGED reports
  /\ UNCHANGED <<header, entry, pN, ptail, last_consumer_heartbeat, consumer,
                 phistory, chistory>>

\* The producer's join goes from one place to the next, its locals as they are.
Goto(from, to) ==
  /\ ppc = from /\ ppc' = to
  /\ UNCHANGED <<entry, pN, ptail, last_consumer_heartbeat, consumer, reports,
                 phistory, chistory>>

\* The stores that initialise the header, MAGIC last.  head is not stored.
\* join_or_initialize_in_ stores the two heartbeats in the other order: both are
\* zero before capacity is stored, and no one loads them before MAGIC.
StoreTail ==
  /\ Goto("store_tail", "store_pbeat")
  /\ tail' = 0
  /\ UNCHANGED <<magic, capacity, head, producer_heartbeat, consumer_heartbeat>>

StoreProducerHeartbeat ==
  /\ Goto("store_pbeat", "store_cbeat")
  /\ producer_heartbeat' = 0
  /\ UNCHANGED <<magic, capacity, tail, head, consumer_heartbeat>>

StoreConsumerHeartbeat ==
  /\ Goto("store_cbeat", "store_capacity")
  /\ consumer_heartbeat' = 0
  /\ UNCHANGED <<magic, capacity, tail, head, producer_heartbeat>>

StoreCapacity ==
  /\ Goto("store_capacity", "store_magic")
  /\ capacity' = pN
  /\ UNCHANGED <<magic, tail, head, producer_heartbeat, consumer_heartbeat>>

StoreMagic ==
  /\ ppc = "store_magic" /\ ppc' = "load_beat"
  /\ magic' = "MAGIC"
  /\ pcreated' = TRUE
  /\ UNCHANGED <<capacity, tail, head, producer_heartbeat, consumer_heartbeat,
                 entry, pN, ptail, last_consumer_heartbeat, consumer, reports,
                 pmissed, pnoticed, chistory>>

\* The rest of a join that found MAGIC: beat, and load the published tail.
JoinBeat ==
  /\ producer_heartbeat < MaxBeats
  /\ ppc = "beat" /\ ppc' = "load_tail"
  /\ producer_heartbeat' = producer_heartbeat + 1
  /\ cmissed' = cmissed + 1
  /\ UNCHANGED <<magic, capacity, tail, head, consumer_heartbeat, entry, pN,
                 ptail, last_consumer_heartbeat, consumer, reports, phistory,
                 acked>>

\* Mutant: a producer that joins starts at zero.
LoadTailForgotten ==
  /\ Goto("load_tail", "load_beat")
  /\ UNCHANGED header

LoadTail ==
  /\ ppc = "load_tail" /\ ppc' = "load_beat"
  /\ ptail' = tail
  /\ UNCHANGED <<header, entry, pN, last_consumer_heartbeat, consumer, reports,
                 phistory, chistory>>

\* The last access of every join: the heartbeat the first check compares with.
LoadConsumerHeartbeat ==
  /\ ppc = "load_beat" /\ ppc' = "joined"
  /\ last_consumer_heartbeat' = consumer_heartbeat
  /\ pmissed' = 0
  /\ UNCHANGED <<header, entry, pN, ptail, consumer, reports, pcreated, pnoticed,
                 chistory>>

-----------------------------------------------------------------------------
(***************************************************************************)
(* The producer, once joined.                                              *)
(***************************************************************************)

\* sync of the channel modules, as far as the header is concerned: some
\* elements were pushed, and the tail goes past them.
Sync ==
  /\ ppc = "joined" /\ ptail < MaxTail
  /\ ptail' = ptail + 1 /\ tail' = ptail'
  /\ UNCHANGED <<magic, capacity, head, producer_heartbeat, consumer_heartbeat,
                 ppc, entry, pN, last_consumer_heartbeat, consumer, reports,
                 phistory, chistory>>

\* beat.
ProducerBeat ==
  /\ ppc = "joined" /\ producer_heartbeat < MaxBeats
  /\ producer_heartbeat' = producer_heartbeat + 1
  /\ cmissed' = cmissed + 1
  /\ UNCHANGED <<magic, capacity, tail, head, consumer_heartbeat, producer,
                 consumer, reports, phistory, acked>>

\* Mutant: the heartbeat that was seen is not remembered.
ConsumerHeartbeatForgotten ==
  /\ ppc = "joined" /\ consumer_heartbeat # last_consumer_heartbeat
  /\ pmissed' = 0 /\ pnoticed' = TRUE
  /\ UNCHANGED <<header, producer, consumer, reports, pcreated, chistory>>

\* consumer_heartbeat, when it returns true.  Otherwise it changes nothing.
ConsumerHeartbeat ==
  /\ ppc = "joined" /\ consumer_heartbeat # last_consumer_heartbeat
  /\ last_consumer_heartbeat' = consumer_heartbeat
  /\ pmissed' = 0 /\ pnoticed' = TRUE
  /\ UNCHANGED <<header, ppc, entry, pN, ptail, consumer, reports, pcreated,
                 chistory>>

-----------------------------------------------------------------------------
(***************************************************************************)
(* The consumer.                                                           *)
(***************************************************************************)

ConsumerStart(n) ==
  /\ cpc = "down"
  /\ cpc' = "magic" /\ cN' = n
  /\ chead' = 0 /\ last_producer_heartbeat' = 0
  /\ cmissed' = 0 /\ acked' = FALSE
  /\ UNCHANGED <<header, producer, reports, phistory>>

ConsumerCrash ==
  /\ cpc # "down"
  /\ cpc' = "down"
  /\ UNCHANGED <<header, producer, cN, chead, last_producer_heartbeat, reports,
                 phistory, chistory>>

\* Only MAGIC is joined: Uninitialized or CorruptionDetected otherwise.
ConsumerLoadMagic ==
  /\ cpc = "magic"
  /\ cpc' = IF magic = "MAGIC" THEN "capacity" ELSE "down"
  /\ UNCHANGED <<header, producer, cN, chead, last_producer_heartbeat, reports,
                 phistory, chistory>>

\* Mutant: any capacity will do.
ConsumerLoadCapacityUnchecked ==
  /\ cpc = "capacity" /\ cpc' = "load_tail"
  /\ UNCHANGED <<header, producer, cN, chead, last_producer_heartbeat, reports,
                 phistory, chistory>>

ConsumerLoadCapacity ==
  /\ cpc = "capacity"
  /\ IF capacity # cN
     THEN cpc' = "down" /\ reports' = reports \cup {capacity}
     ELSE cpc' = "load_tail" /\ UNCHANGED reports
  /\ UNCHANGED <<header, producer, cN, chead, last_producer_heartbeat,
                 phistory, chistory>>

ConsumerLoadTail ==
  /\ cpc = "load_tail" /\ cpc' = "store_head"
  /\ chead' = tail
  /\ UNCHANGED <<header, producer, cN, last_producer_heartbeat, reports,
                 phistory, chistory>>

ConsumerStoreHead ==
  /\ cpc = "store_head" /\ cpc' = "load_beat"
  /\ head' = chead
  /\ UNCHANGED <<magic, capacity, tail, producer_heartbeat, consumer_heartbeat,
                 producer, cN, chead, last_producer_heartbeat, reports,
                 phistory, chistory>>

LoadProducerHeartbeat ==
  /\ cpc = "load_beat" /\ cpc' = "joined"
  /\ last_producer_heartbeat' = producer_heartbeat
  /\ cmissed' = 0
  /\ UNCHANGED <<header, producer, cN, chead, reports, phistory, acked>>

\* beat.
ConsumerBeat ==
  /\ cpc = "joined" /\ consumer_heartbeat < MaxBeats
  /\ consumer_heartbeat' = consumer_heartbeat + 1
  /\ pmissed' = pmissed + 1 /\ acked' = TRUE
  /\ UNCHANGED <<magic, capacity, tail, head, producer_heartbeat, producer,
                 consumer, reports, pcreated, pnoticed, cmissed>>

\* producer_heartbeat, when it returns true.
ProducerHeartbeat ==
  /\ cpc = "joined" /\ producer_heartbeat # last_producer_heartbeat
  /\ last_producer_heartbeat' = producer_heartbeat
  /\ cmissed' = 0
  /\ UNCHANGED <<header, producer, cpc, cN, chead, reports, phistory, acked>>

-----------------------------------------------------------------------------
ProducerProgress ==
  \/ ProducerLoadMagic \/ ProducerLoadCapacity
  \/ StoreTail \/ StoreProducerHeartbeat \/ StoreConsumerHeartbeat
  \/ StoreCapacity \/ StoreMagic
  \/ JoinBeat \/ LoadTail \/ LoadConsumerHeartbeat
  \/ ConsumerHeartbeat

ConsumerProgress ==
  \/ ConsumerLoadMagic \/ ConsumerLoadCapacity \/ ConsumerLoadTail
  \/ ConsumerStoreHead \/ LoadProducerHeartbeat
  \/ ProducerHeartbeat

Next ==
  \/ \E n \in Capacities :
       ConsumerStart(n) \/ \E how \in Entries : ProducerStart(how, n)
  \/ ProducerProgress \/ ProducerCrash \/ ProducerBeat \/ Sync
  \/ ConsumerProgress \/ ConsumerCrash \/ ConsumerBeat

Spec == Init /\ [][Next]_vars

\* A join that has begun goes on, and both sides keep asking for the other's
\* heartbeat (while !producer.consumer_heartbeat() {} in examples/interprocess).
FairSpec ==
  Spec /\ WF_vars(ProducerProgress) /\ WF_vars(ConsumerProgress)

-----------------------------------------------------------------------------
(***************************************************************************)
(* Properties.                                                             *)
(***************************************************************************)

\* Whoever is past the checks of its join is on a channel whose header is
\* complete and whose capacity is its own, so the two sides agree on N,
\* whatever died halfway through an initialisation for another capacity.
HeaderComplete ==
  /\ ppc \in PAttached => magic = "MAGIC" /\ capacity = pN
  /\ cpc \in CAttached => magic = "MAGIC" /\ capacity = cN

\* IncorrectCapacity(c) tells the truth: c is the capacity the channel has and
\* was initialised with, never a word read in the middle of an initialisation.
CapacityErrorIsTrue ==
  \A c \in reports : magic = "MAGIC" /\ c = capacity /\ c \in Capacities

\* Once MAGIC is there no join, however it interleaves or dies, resets or
\* rewinds the header under the endpoint that is attached.
HeaderStable ==
  [][magic # "zero" =>
       /\ magic' = magic /\ capacity' = capacity /\ tail' >= tail
       /\ producer_heartbeat' >= producer_heartbeat
       /\ consumer_heartbeat' >= consumer_heartbeat]_vars

\* The checks count right: what separates the heartbeat word from the copy is
\* what the other side has beaten since the last check, or since the join, so
\* consumer_heartbeat() and producer_heartbeat() are true if and only if the
\* other side has beaten, also when it was replaced meanwhile.
BeatsAddUp ==
  /\ ppc = "joined" => consumer_heartbeat = last_consumer_heartbeat + pmissed
  /\ cpc = "joined" => producer_heartbeat = last_producer_heartbeat + cmissed

\* The cursors a restarted endpoint takes over are in order: head does not
\* pass tail, although initialisation stores tail and never head.
CursorsOrdered ==
  /\ head <= tail
  /\ cpc \in {"store_head", "load_beat", "joined"} => chead <= tail
  /\ ppc \in {"load_beat", "joined"} => ptail = tail

\* "Can also be used to ... alert that we've joined" (beat): the producer that
\* created the channel and waits for a consumer is told of one that has joined
\* and beaten.
JoinIsNoticed ==
  (ppc = "joined" /\ pcreated /\ cpc = "joined" /\ acked)
    ~> (pnoticed \/ ppc = "down" \/ cpc = "down")

\* Before MAGIC nobody but an initialising producer is past the first load,
\* and when MAGIC is stored the capacity is there: the invariant that makes
\* the order of the stores matter.
HeaderFacts ==
  /\ magic # "MAGIC" =>
       /\ ppc \in {"down", "magic"} \cup Initialising
       /\ cpc \in {"down", "magic"}
       /\ reports = {} /\ tail = 0 /\ head = 0
  /\ magic = "MAGIC" => capacity \in Capacities
  /\ ppc \in Initialising => magic = "zero"
  /\ ppc \in {"magic"} \cup Initialising => ptail = 0
  /\ ppc # "down" => pN \in Capacities
  /\ ppc = "store_magic" => capacity = pN

\* The header, the errors and the beats are right under every step: together
\* inductive.
IInv ==
  /\ TypeOK /\ HeaderFacts /\ HeaderComplete /\ CapacityErrorIsTrue
  /\ BeatsAddUp /\ CursorsOrdered

=============================================================================
