----------------------------- MODULE HandshakeC -----------------------------
(***************************************************************************)
(* The header when the producer may be the C program: join_or_initialize   *)
(* and join of c/producer.c next to the Rust joins of Handshake.  The C    *)
(* consumer makes the accesses of the Rust one, but for a second load of   *)
(* magic when the first was not MAGIC: it only chooses the message, and    *)
(* prints "Corruption detected" when MAGIC is stored between the two.  The *)
(* join fails either way and has changed nothing.                          *)
(*                                                                         *)
(* C stores head as well, and capacity and magic are plain words: its      *)
(* compiler and its processor may make those two visible early, in either  *)
(* order, or late, until the next release store of the producer.           *)
(***************************************************************************)
EXTENDS Handshake

CONSTANT ProgramOrder   \* the build keeps the stores in the order of the text

ASSUME ProgramOrderAssumption == ProgramOrder \in BOOLEAN

VARIABLES
  port,      \* "rust" or "c": the producer's program
  pending    \* stores of a C initialisation that are not visible yet

mixedVars == <<vars, port, pending>>

MixedInit == Init /\ port = "rust" /\ pending = {}

\* A producer of either language; C has no join_or_create_shmem.
StartMixed ==
  /\ \E n \in Capacities, how \in Entries :
       /\ ProducerStart(how, n)
       /\ \/ port' = "rust"
          \/ port' = "c" /\ how # "join_or_create_shmem"
  /\ pending' = {}

\* magic == 0 in C: the stores below are to be made.
CLoadMagic ==
  /\ port = "c" /\ ProducerLoadMagic
  /\ pending' = IF ppc' = "store_tail" THEN {"head", "capacity", "magic"} ELSE {}
  /\ UNCHANGED port

\* The atomic stores, with release, in their order.
CStoreHead ==
  /\ port = "c" /\ ppc = "store_pbeat" /\ "head" \in pending
  /\ head' = 0 /\ pending' = pending \ {"head"}
  /\ UNCHANGED <<magic, capacity, tail, producer_heartbeat, consumer_heartbeat,
                 producer, consumer, reports, phistory, chistory, port>>

CStoreAtomic ==
  /\ port = "c"
  /\ \/ StoreTail \/ StoreConsumerHeartbeat
     \/ "head" \notin pending /\ StoreProducerHeartbeat
  /\ UNCHANGED <<port, pending>>

\* Mutant: magic is the first of the two in the text.
MayStoreMagicFirst(w) ==
  ProgramOrder => ppc = "store_capacity" /\ (w = "capacity" => "magic" \notin pending)

\* Mutant: nothing orders the plain stores.
MayStoreAnyTime(w) == w \in {"capacity", "magic"}

\* Which of the plain stores may become visible now.
MayStore(w) ==
  ProgramOrder => ppc = "store_capacity" /\ (w = "magic" => "capacity" \notin pending)

CStoreCapacity ==
  /\ port = "c" /\ "capacity" \in pending /\ ppc # "down" /\ MayStore("capacity")
  /\ capacity' = pN /\ pending' = pending \ {"capacity"}
  /\ UNCHANGED <<magic, tail, head, producer_heartbeat, consumer_heartbeat,
                 producer, consumer, reports, phistory, chistory, port>>

CStoreMagic ==
  /\ port = "c" /\ "magic" \in pending /\ ppc # "down" /\ MayStore("magic")
  /\ magic' = "MAGIC" /\ pcreated' = TRUE /\ pending' = pending \ {"magic"}
  /\ UNCHANGED <<capacity, tail, head, producer_heartbeat, consumer_heartbeat,
                 producer, consumer, reports, pmissed, pnoticed, chistory, port>>

\* On to the load of the consumer's heartbeat.
CStored ==
  /\ port = "c" /\ (ProgramOrder => pending = {})
  /\ Goto("store_capacity", "load_beat")
  /\ UNCHANGED <<header, port, pending>>

\* What C does as Rust does: the rest of a join that found MAGIC, the check of
\* the heartbeat, and sync and beat, whose release makes all earlier stores
\* visible.
CJoinRest  == ProducerLoadCapacity \/ JoinBeat \/ LoadTail \/ LoadConsumerHeartbeat
CHeartbeat == ConsumerHeartbeat
CBeat      == pending = {} /\ ProducerBeat
CSync      == pending = {} /\ Sync

CNext ==
  \/ CLoadMagic \/ CStoreHead \/ CStoreAtomic \/ CStoreCapacity \/ CStoreMagic
  \/ CStored
  \/ /\ port = "c"
     /\ CJoinRest \/ CHeartbeat \/ CBeat \/ CSync \/ ProducerCrash
     /\ UNCHANGED <<port, pending>>

RustNext ==
  /\ port = "rust"
  /\ ProducerProgress \/ ProducerCrash \/ ProducerBeat \/ Sync
  /\ UNCHANGED <<port, pending>>

MixedConsumer ==
  /\ \/ \E n \in Capacities : ConsumerStart(n)
     \/ ConsumerProgress \/ ConsumerCrash \/ ConsumerBeat
  /\ UNCHANGED <<port, pending>>

MixedNext == StartMixed \/ CNext \/ RustNext \/ MixedConsumer

MixedSpec == MixedInit /\ [][MixedNext]_mixedVars

-----------------------------------------------------------------------------
\* Where a C producer is among the steps of the Rust one: its last two stores
\* are one place in the C code, and what is left of them tells how far it is.
Place ==
  IF port # "c" \/ ppc # "store_capacity" THEN ppc
  ELSE IF "capacity" \in pending THEN "store_capacity"
  ELSE IF "magic" \in pending THEN "store_magic" ELSE "load_beat"

Rust == INSTANCE Handshake WITH ppc <- Place

\* "Serves as a marker to verify the integrity and type of the channel during
\* joining and initialization" (MAGIC, lib.rs): in a build that keeps the order
\* of the text, whatever a C producer does, dying halfway included, looks to
\* the other side like what a Rust producer does, store by store; that C stores
\* head too is not seen.
ImplementsHandshake == Rust!Spec

\* The stores of an initialisation that are still to come.
StoresLeft ==
  port = "c" =>
    /\ ppc \in {"store_tail", "store_pbeat", "store_cbeat"}
         => {"capacity", "magic"} \subseteq pending
    /\ ppc = "store_capacity" /\ "capacity" \in pending => "magic" \in pending

\* The invariant of the Rust endpoints holds with C producers among them.
MixedIInv == Rust!IInv /\ StoresLeft

=============================================================================
