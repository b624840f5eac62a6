----------------------------- MODULE LosslessC ------------------------------
(***************************************************************************)
(* The C port of the lossless endpoints (c/producer.c, c/consumer.c) and   *)
(* the Rust ones on one channel: each time an endpoint is started it may   *)
(* be either program.                                                      *)
(*                                                                         *)
(* The C consumer makes the accesses of the Rust one and has no            *)
(* pop_zerocopy.  The C producer differs where it initialises, where a     *)
(* slot is filled through a pointer, and in its commit.  Nothing there     *)
(* checks a Reservation: that no more than count slots are filled, each    *)
(* before its write_next, and that one reservation is open at a time, is   *)
(* left to the caller, whom the model lets do just that.                   *)
(***************************************************************************)
EXTENDS WriteIter

VARIABLES
  pport,    \* "rust" or "c": the program that runs as the producer
  cport,    \* the program that runs as the consumer
  filled    \* the caller has filled the slot that get_next handed out

port  == <<pport, cport, filled>>
cvars == <<vars, iterator, port>>

CInit == IterInit /\ pport = "rust" /\ cport = "rust" /\ filled = FALSE

-----------------------------------------------------------------------------
(***************************************************************************)
(* The C producer.                                                         *)
(***************************************************************************)

\* join_or_initialize on a zeroed region: head is stored too.
CInitialize ==
  /\ ppc = "down" /\ ~magic
  /\ magic' = TRUE /\ tail' = 0 /\ head' = 0
  /\ FreshProducer(0)
  /\ UNCHANGED <<buffer, consumer, got, cstart>>

\* Mutant: get_next takes the slot at the producer's tail each time.
CGetNextAtTail(v) ==
  /\ ppc = "reserved" /\ rwritten < rcount
  /\ buffer' = [buffer EXCEPT ![Index(ptail)] = v]
  /\ UNCHANGED <<magic, tail, head, producer, consumer, history>>

\* reservation_get_next, and the caller's write through the pointer.
CGetNext(v) ==
  /\ ppc = "reserved" /\ rwritten < rcount
  /\ buffer' = [buffer EXCEPT ![Index(ptail + rwritten)] = v]
  /\ UNCHANGED <<magic, tail, head, producer, consumer, history>>

\* reservation_write_next: the slot that was filled counts as written.
CWriteNext ==
  /\ ppc = "reserved" /\ rwritten < rcount
  /\ rwritten' = rwritten + 1
  /\ log' = Append(log, buffer[Index(ptail + rwritten)])
  /\ UNCHANGED <<shared, ppc, ptail, pwritten, rcount, consumer, got, cstart>>

\* reservation_commit: advance by what was written, and always sync.
CCommit ==
  /\ ppc = "reserved"
  /\ ppc' = "idle" /\ rcount' = 0 /\ rwritten' = 0
  /\ ptail' = ptail + rwritten
  /\ pwritten' = 0 /\ tail' = ptail'
  /\ UNCHANGED <<magic, head, buffer, consumer, history>>

\* The others make the accesses of the Rust code: join, push and sync, reserve,
\* reservation_write_all, reservation_cancel.
CJoin     == ProducerJoin
CPush     == PushCheck \/ Sync \/ \E v \in Values : PushWrite(v)
CReserve  == \E count \in 1 .. N : Reserve(count)
CWriteAll == \E k \in 1 .. N : \E values \in [1 .. k -> Values] : WriteAll(values)
CCancel   == Cancel

CProducerNext ==
  \/ /\ CInitialize \/ CJoin
     /\ pport' = "c" /\ filled' = FALSE /\ UNCHANGED cport
  \/ /\ pport = "c"
     /\ \/ \E v \in Values : CGetNext(v) /\ filled' = TRUE
        \/ filled /\ CWriteNext /\ filled' = FALSE
        \/ /\ CPush \/ CReserve \/ CWriteAll \/ CCommit \/ CCancel \/ ProducerCrash
           /\ filled' = FALSE
     /\ UNCHANGED <<pport, cport>>

\* The Rust producer, write_iter included.
RustProducerNext ==
  \/ /\ ProducerInitialize \/ ProducerJoin
     /\ pport' = "rust" /\ UNCHANGED <<iterator, cport, filled>>
  \/ pport = "rust" /\ ppc # "down" /\ IterProducerNext /\ UNCHANGED port

-----------------------------------------------------------------------------
\* join, and pop with its maybe_sync, of the C consumer.
CConsumerJoin == ConsumerJoinLoad
CPop          == PopCheck \/ PopRead \/ PopReturn

CConsumerNext ==
  \/ CConsumerJoin /\ cport' = "c" /\ UNCHANGED <<pport, filled>>
  \/ /\ cport = "c"
     /\ ConsumerJoinStore \/ CPop \/ ConsumerCrash
     /\ UNCHANGED port

RustConsumerNext ==
  \/ ConsumerJoinLoad /\ cport' = "rust" /\ UNCHANGED <<pport, filled>>
  \/ cport = "rust" /\ cpc # "down" /\ ConsumerNext /\ UNCHANGED port

CNext ==
  \/ RustProducerNext
  \/ CProducerNext /\ UNCHANGED iterator
  \/ (CConsumerNext \/ RustConsumerNext) /\ UNCHANGED iterator

CSpec == CInit /\ [][CNext]_cvars

-----------------------------------------------------------------------------
\* A slot that a C caller has filled holds its value until write_next counts
\* it, the consumer of either language and its own earlier writes
\* notwithstanding; no other operation finds it so.
FilledKept ==
  filled => /\ pport = "c" /\ ppc = "reserved" /\ rwritten < rcount
            /\ buffer[Index(ptail + rwritten)] \in Values

\* write_iter is a Rust call on an open reservation, and what the iterator still
\* holds is the rest of what it held when the call began.
IterKept ==
  /\ iter \in Seq(Values) /\ items \in Seq(Values) /\ Len(iter) <= Len(items)
  /\ \A i \in 1 .. Len(iter) : iter[i] = items[Taken + i]
  /\ ipc = "loop" => /\ pport = "rust" /\ ppc = "reserved"
                     /\ start_written \in 0 .. rwritten

\* What both languages' endpoints preserve together, write_iter included.
CIInv == IInv /\ FilledKept /\ IterKept /\ WritesInOrder

=============================================================================
