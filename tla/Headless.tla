------------------------------ MODULE Headless ------------------------------
(***************************************************************************)
(* The headless SPMC channel: que/src/headless_spmc/{producer,consumer}.rs *)
(* on one Channel<M, T, N> in shared memory.                               *)
(*                                                                         *)
(* Nothing holds the producer back: it laps slow consumers.  A consumer    *)
(* reads a slot without any lock and checks before and after, by the       *)
(* distance between the tail and its head, that the slot was not being     *)
(* written again meanwhile.  Interval consumers share the positions out by *)
(* residue: consumer c takes those that are c modulo Interval.             *)
(*                                                                         *)
(* A step makes one access to shared memory, and the accesses to a slot    *)
(* have a beginning and an end, since T may be any number of words.        *)
(*                                                                         *)
(* The header is the flag magic here; its stores one by one, the capacity  *)
(* word and the heartbeats, which no push or pop reads, are in Handshake.  *)
(***************************************************************************)
EXTENDS Channel, Sequences

CONSTANTS
  Interval,   \* how many consumers join (join_multi's consumers)
  Values,     \* what an application pushes
  Junk,       \* zeroed memory, or a slot in the middle of a write
  Ordered,    \* TRUE: the tail pop loads last is not older than the slot read
  StoresOrdered,  \* TRUE: nobody sees a slot written before the tail stored
                  \* ahead of it
  MaxPos      \* bound: the number of positions ever written

ASSUME IntervalAssumption == Interval \in 1 .. 64
ASSUME JunkAssumption     == Junk \notin Values
ASSUME OrderedAssumption  == Ordered \in BOOLEAN /\ StoresOrdered \in BOOLEAN
ASSUME MaxPosAssumption   == MaxPos \in Nat

Consumers == 0 .. Interval - 1      \* consumer_index

VARIABLES
  \* Channel: the shared region; head is not used in this mode
  magic,      \* TRUE once MAGIC is stored (the region starts zeroed)
  tail,       \* published end
  buffer,     \* Slots -> values
  \* Producer
  ppc,        \* "down", "idle", "synced" and "write" (inside push)
  ptail,      \* Producer.tail
  pwritten,   \* Producer.written
  \* Consumers
  cpc,        \* "down", "idle", "read", "reading", "validate", "retry"
  chead,      \* Consumer.head
  ctail,      \* initial_tail of the pop in progress
  cval,       \* the bytes the pop in progress has read
  \* History, read by no guard
  log,        \* log[p + 1]: the value last written for position p
  last        \* the position and the value of the last successful pop

shared    == <<magic, tail, buffer>>
producer  == <<ppc, ptail, pwritten>>
consumers == <<cpc, chead, ctail, cval>>
history   == <<log, last>>
vars      == <<shared, producer, consumers, history>>

NoPop == [pos |-> -1, val |-> Junk]

\* Every field keeps its type: the usize cursors never go below zero, not in
\* the tail - Window of a reset either, and a pop's values stay in their set.
TypeOK ==
  /\ magic \in BOOLEAN
  /\ tail \in Nat
  /\ buffer \in [Slots -> Values \cup {Junk}]
  /\ ppc \in {"down", "idle", "synced", "write"}
  /\ ptail \in Nat /\ pwritten \in Nat
  /\ cpc \in [Consumers -> {"down", "idle", "read", "reading", "validate", "retry"}]
  /\ chead \in [Consumers -> Nat] /\ ctail \in [Consumers -> Nat]
  /\ cval \in [Consumers -> Values \cup {Junk}]
  /\ log \in Seq(Values)
  /\ last \in [Consumers -> [pos : Nat, val : Values \cup {Junk}] \cup {NoPop}]

Init ==
  /\ magic = FALSE /\ tail = 0
  /\ buffer = [i \in Slots |-> Junk]
  /\ ppc = "down" /\ ptail = 0 /\ pwritten = 0
  /\ cpc = [c \in Consumers |-> "down"]
  /\ chead = [c \in Consumers |-> 0] /\ ctail = [c \in Consumers |-> 0]
  /\ cval = [c \in Consumers |-> Junk]
  /\ log = <<>> /\ last = [c \in Consumers |-> NoPop]

-----------------------------------------------------------------------------
(***************************************************************************)
(* Producer.                                                               *)
(***************************************************************************)

\* What the constructor leaves in a Producer whose tail starts at t.
FreshProducer(t) ==
  /\ ppc' = "idle"
  /\ ptail' = t /\ pwritten' = 0
  /\ log' = SubSeq(log, 1, t)

\* magic == 0: store the header, MAGIC last.
ProducerInitialize ==
  /\ ppc = "down" /\ ~magic
  /\ magic' = TRUE /\ tail' = 0
  /\ FreshProducer(0)
  /\ UNCHANGED <<buffer, consumers, last>>

\* magic == MAGIC: take over where the published tail stands.
ProducerJoin ==
  /\ ppc = "down" /\ magic
  /\ FreshProducer(tail)
  /\ UNCHANGED <<shared, consumers, last>>

\* The producer goes away, dropped or killed.  In the middle of a write the
\* slot stays torn.
ProducerCrash ==
  /\ ppc # "down"
  /\ ppc' = "down"
  /\ UNCHANGED <<shared, ptail, pwritten, consumers, history>>

\* Mutant: sync does not reset the count of unpublished elements.
PublishKeepsWritten(pc) ==
  /\ tail' = ptail
  /\ ppc' = pc
  /\ UNCHANGED <<magic, buffer, ptail, pwritten, consumers, history>>

\* The stores of sync, with pc the place the producer goes on from.
Publish(pc) ==
  /\ pwritten' = 0 /\ tail' = ptail
  /\ ppc' = pc
  /\ UNCHANGED <<magic, buffer, ptail, consumers, history>>

\* sync, called by the application.
Sync ==
  /\ ppc = "idle"
  /\ Publish("idle")

\* push, first part: a full burst is published before the next write.
PushSync ==
  /\ ppc = "idle" /\ ptail < MaxPos
  /\ pwritten = burst_amount
  /\ Publish("synced")

\* Mutant: a full burst need not be published before the next write.
PushWriteBeginUnsynced ==
  /\ ppc \in {"idle", "synced"}
  /\ ptail < MaxPos
  /\ buffer' = [buffer EXCEPT ![Index(ptail)] = Junk]
  /\ ppc' = "write"
  /\ UNCHANGED <<magic, tail, ptail, pwritten, consumers, history>>

\* push, second part: the write of the slot begins.  The tail was stored with
\* Release, which holds back what comes before the store, not the slot write
\* that follows it: unless the machine and the compiler do, a consumer may see
\* the slot change while it still loads the old tail.
PushWriteBegin ==
  /\ \/ ppc = "idle" /\ (StoresOrdered => pwritten # burst_amount)
     \/ ppc = "synced"
  /\ ptail < MaxPos
  /\ buffer' = [buffer EXCEPT ![Index(ptail)] = Junk]
  /\ ppc' = "write"
  /\ UNCHANGED <<magic, tail, ptail, pwritten, consumers, history>>

\* push, last part: the slot is written, the local cursor advances; the store
\* of a tail that the slot write has passed gets through.
PushWriteEnd(v) ==
  /\ ppc = "write"
  /\ buffer' = [buffer EXCEPT ![Index(ptail)] = v]
  /\ IF pwritten = burst_amount
       THEN tail' = ptail /\ pwritten' = 1
       ELSE tail' = tail /\ pwritten' = pwritten + 1
  /\ ptail' = ptail + 1
  /\ log' = Append(log, v)
  /\ ppc' = "idle"
  /\ UNCHANGED <<magic, consumers, last>>

-----------------------------------------------------------------------------
(***************************************************************************)
(* Consumer c.                                                             *)
(***************************************************************************)

\* The locals of a pop die with it.
DropLocals(c) ==
  /\ ctail' = [ctail EXCEPT ![c] = 0]
  /\ cval' = [cval EXCEPT ![c] = Junk]

\* The least position from head on that is target_mod modulo mod_value.
next_modulo(head, target_mod, mod_value) ==
  LET head_mod  == head % mod_value
      add_value == (target_mod + mod_value - head_mod) % mod_value
  IN  head + add_value

\* A consumer may be this far behind the tail.
Window == N - burst_amount

Overrun(t, c) == t > chead[c] + Window

\* Mutant: the oldest element of the window is left out.
ResetHeadPastOldest(t, c) == next_modulo(t - Window + 1, c, Interval)

\* The head after an overrun was seen with tail t.
ResetHead(t, c) == next_modulo(t - Window, c, Interval)

\* join_multi_: only a channel with MAGIC is joined, at the current tail.
ConsumerJoin(c) ==
  /\ cpc[c] = "down" /\ magic
  /\ cpc' = [cpc EXCEPT ![c] = "idle"]
  /\ chead' = [chead EXCEPT ![c] = next_modulo(tail, c, Interval)]
  /\ UNCHANGED <<shared, producer, ctail, cval, history>>

\* The consumer goes away, dropped or killed, wherever it stands.
ConsumerCrash(c) ==
  /\ cpc[c] # "down"
  /\ cpc' = [cpc EXCEPT ![c] = "down"]
  /\ DropLocals(c)
  /\ UNCHANGED <<shared, producer, chead, history>>

\* Pop's loop, top: initial_tail says there is nothing to read, return None.
PopNone(c) ==
  /\ cpc[c] \in {"idle", "retry"}
  /\ tail <= chead[c]
  /\ cpc' = [cpc EXCEPT ![c] = "idle"]
  /\ UNCHANGED <<shared, producer, chead, ctail, cval, history>>

\* Mutant: the loop is continued with the head it had.
PopResetForgotten(c) ==
  /\ cpc[c] \in {"idle", "retry"}
  /\ tail > chead[c] /\ Overrun(tail, c)
  /\ cpc' = [cpc EXCEPT ![c] = "retry"]
  /\ UNCHANGED <<shared, producer, chead, ctail, cval, history>>

\* Pop's loop, top: initial_tail says the head was overrun, reset it and loop.
PopReset(c) ==
  /\ cpc[c] \in {"idle", "retry"}
  /\ tail > chead[c] /\ Overrun(tail, c)
  /\ chead' = [chead EXCEPT ![c] = ResetHead(tail, c)]
  /\ cpc' = [cpc EXCEPT ![c] = "retry"]
  /\ UNCHANGED <<shared, producer, ctail, cval, history>>

\* Pop's loop, top: initial_tail says the head may be read.
PopLoad(c) ==
  /\ cpc[c] \in {"idle", "retry"}
  /\ tail > chead[c] /\ ~Overrun(tail, c)
  /\ ctail' = [ctail EXCEPT ![c] = tail]
  /\ cpc' = [cpc EXCEPT ![c] = "read"]
  /\ UNCHANGED <<shared, producer, chead, cval, history>>

\* The optimistic read begins ...
PopReadBegin(c) ==
  /\ cpc[c] = "read"
  /\ cval' = [cval EXCEPT ![c] = buffer[Index(chead[c])]]
  /\ cpc' = [cpc EXCEPT ![c] = "reading"]
  /\ UNCHANGED <<shared, producer, chead, ctail, history>>

\* ... and ends: a slot that changed meanwhile gives a mix of both contents.
PopReadEnd(c) ==
  /\ cpc[c] = "reading"
  /\ cval' = [cval EXCEPT ![c] =
                IF buffer[Index(chead[c])] = @ THEN @ ELSE Junk]
  /\ cpc' = [cpc EXCEPT ![c] = "validate"]
  /\ UNCHANGED <<shared, producer, chead, ctail, history>>

\* What the second load of the tail may return.  It is an Acquire load, which
\* does not keep the slot read before it: unless the machine and the compiler
\* do, it may return a tail from before the read, the initial one at worst.
CurrentTail(c) == IF Ordered THEN {tail} ELSE {tail, ctail[c]}

\* The second check fails: drop the value, reset the head and loop.
PopRetry(c) ==
  /\ cpc[c] = "validate"
  /\ \E current_tail \in CurrentTail(c) :
       /\ Overrun(current_tail, c)
       /\ chead' = [chead EXCEPT ![c] = ResetHead(current_tail, c)]
  /\ cpc' = [cpc EXCEPT ![c] = "retry"]
  /\ DropLocals(c)
  /\ UNCHANGED <<shared, producer, history>>

\* Mutant: the value is returned without the second check.
PopReturnUnchecked(c) ==
  /\ cpc[c] = "validate"
  /\ chead' = [chead EXCEPT ![c] = @ + Interval]
  /\ cpc' = [cpc EXCEPT ![c] = "idle"]
  /\ last' = [last EXCEPT ![c] = [pos |-> chead[c], val |-> cval[c]]]
  /\ DropLocals(c)
  /\ UNCHANGED <<shared, producer, log>>

\* Mutant: the head stays where it is.
PopReturnStays(c) ==
  /\ cpc[c] = "validate"
  /\ \E current_tail \in CurrentTail(c) : ~Overrun(current_tail, c)
  /\ cpc' = [cpc EXCEPT ![c] = "idle"]
  /\ last' = [last EXCEPT ![c] = [pos |-> chead[c], val |-> cval[c]]]
  /\ DropLocals(c)
  /\ UNCHANGED <<shared, producer, chead, log>>

\* The second check holds: advance by a stride and return the value.
PopReturn(c) ==
  /\ cpc[c] = "validate"
  /\ \E current_tail \in CurrentTail(c) : ~Overrun(current_tail, c)
  /\ chead' = [chead EXCEPT ![c] = @ + Interval]
  /\ cpc' = [cpc EXCEPT ![c] = "idle"]
  /\ last' = [last EXCEPT ![c] = [pos |-> chead[c], val |-> cval[c]]]
  /\ DropLocals(c)
  /\ UNCHANGED <<shared, producer, log>>

-----------------------------------------------------------------------------
ProducerNext ==
  \/ ProducerInitialize \/ ProducerJoin \/ ProducerCrash
  \/ Sync \/ PushSync \/ PushWriteBegin
  \/ \E v \in Values : PushWriteEnd(v)

Pop(c) ==
  \/ PopNone(c) \/ PopReset(c) \/ PopLoad(c)
  \/ PopReadBegin(c) \/ PopReadEnd(c) \/ PopRetry(c) \/ PopReturn(c)

ConsumerNext(c) == ConsumerJoin(c) \/ ConsumerCrash(c) \/ Pop(c)

Next == ProducerNext \/ \E c \in Consumers : ConsumerNext(c)

Spec == Init /\ [][Next]_vars

-----------------------------------------------------------------------------
(***************************************************************************)
(* Safety.                                                                 *)
(***************************************************************************)

\* What pop returned is what was pushed at that position, whole: not torn by
\* the producer writing the slot for the next lap, not the element of another
\* lap, not what a crashed producer left behind.
PopsPushed ==
  \A c \in Consumers :
    last[c] # NoPop =>
      /\ last[c].pos < tail
      /\ last[c].val = log[last[c].pos + 1]

\* Where a slot write does not pass the store of the tail before it, the
\* producer is never writing a slot a consumer would accept: the position it
\* writes is less than a lap ahead of every position in the window below
\* the tail, with at most a burst of unpublished elements (push, sync).
WindowUntouched ==
  /\ pwritten = ptail - tail
  /\ ptail - tail <= burst_amount
  /\ ppc = "write" =>
       \A p \in tail - Window .. tail - 1 : p >= 0 => Index(p) # Index(ptail)

\* No position is delivered twice.  Each return of pop with a value delivers a
\* position above all that this consumer, before and after its restarts, has
\* delivered, and outside the class of every other one (pop, join_multi_).
NoDuplicate ==
  [][\A c \in Consumers : cpc[c] = "validate" /\ cpc'[c] = "idle" =>
       /\ last'[c].pos > last[c].pos
       /\ \A d \in Consumers \ {c} : last[d] # NoPop =>
            last'[c].pos % Interval # last[d].pos % Interval]_vars

\* A running consumer moves its head over a position of its class only by
\* returning it, or because the producer has come so close behind it that the
\* slot may be overwritten: nothing else is lost (pop, next_modulo).
SkipsOnlyOverrun ==
  [][\A c \in Consumers : cpc[c] # "down" =>
       \A p \in chead[c] .. chead'[c] - 1 :
         p % Interval = c =>
           \/ last'[c].pos = p
           \/ tail > p + Window]_vars

\* A consumer's position, if there is a consumer.
Cursor == [c \in Consumers |-> IF cpc[c] = "down" THEN -1 ELSE chead[c]]

\* The channel implements the log.
Log == INSTANCE HeadlessLog
         WITH Elements <- Values, Retained <- Window, Burst <- burst_amount,
              Nothing  <- NoPop,
              published <- SubSeq(log, 1, tail),
              pending   <- SubSeq(log, tail + 1, ptail),
              cursor    <- Cursor,
              given     <- last

\* Each pop, with its two loads of the tail, its read that may be torn and its
\* retries, is one indivisible look at a log of which the last Window elements
\* can be read; and what every other step of either side does to that log.
ImplementsLog == Log!Spec

-----------------------------------------------------------------------------
(***************************************************************************)
(* The inductive invariant behind the proofs (HeadlessProofs).             *)
(***************************************************************************)

\* Nothing was ever written to a channel that is not initialised.
Uninitialized ==
  ~magic => /\ ppc = "down" /\ ptail = 0
            /\ \A c \in Consumers : cpc[c] = "down"

\* The producer publishes before it starts an element beyond the burst.
ProducerCursors ==
  /\ tail <= ptail /\ pwritten = ptail - tail /\ Len(log) = ptail
  /\ pwritten <= burst_amount
  /\ ppc \in {"synced", "write"} => pwritten < burst_amount

\* The slots of the window below the tail, and of what follows it, hold what
\* was pushed.
Content ==
  \A p \in tail - Window .. ptail - 1 :
    p >= 0 => buffer[Index(p)] = log[p + 1]

\* Consumer c stays in its class, and ahead of all it has delivered.
ConsumerCursors ==
  \A c \in Consumers :
    /\ last[c].pos < tail
    /\ last[c] # NoPop => last[c].pos % Interval = c
    /\ cpc[c] # "down" => chead[c] % Interval = c /\ last[c].pos < chead[c]
    /\ cpc[c] \in {"read", "reading", "validate"} =>
         chead[c] < ctail[c] /\ ctail[c] <= tail

\* What a consumer has read is right for as long as the tail has not passed
\* its window: the reason why the second check of pop is enough.
ReadIsValid ==
  \A c \in Consumers :
    cpc[c] \in {"reading", "validate"} /\ ~Overrun(tail, c)
      => cval[c] = log[chead[c] + 1]

\* The consumers' view of the window stays right under every step of the
\* producer, crashes included.
IInv ==
  /\ TypeOK
  /\ Uninitialized /\ ProducerCursors /\ Content
  /\ ConsumerCursors /\ ReadIsValid
  /\ Ordered => PopsPushed

-----------------------------------------------------------------------------
(***************************************************************************)
(* The end of pop's loop.                                                  *)
(***************************************************************************)

\* How many more steps the pop of consumer c makes if nothing is published
\* meanwhile: to the return from where it stands, and with another turn of the
\* loop if its head has been overrun.
StepsLeft(c) ==
  CASE cpc[c] \in {"idle", "retry"} -> IF Overrun(tail, c) THEN 5 ELSE 4
    [] cpc[c] = "read"              -> IF Overrun(tail, c) THEN 7 ELSE 3
    [] cpc[c] = "reading"           -> IF Overrun(tail, c) THEN 6 ELSE 2
    [] cpc[c] = "validate"          -> IF Overrun(tail, c) THEN 5 ELSE 1
    [] cpc[c] = "down"              -> 0

\* Only a publication adds to them: every step of pop that does not end it
\* leaves fewer, and every other step, of any process, that publishes nothing
\* leaves as many.  The loop of pop ends unless the producer laps it over and
\* over again.
PopIsBounded ==
  [][\A c \in Consumers :
       tail' = tail /\ cpc[c] # "down" /\ cpc'[c] \notin {"down", "idle"} =>
         \/ StepsLeft(c)' < StepsLeft(c)
         \/ /\ UNCHANGED <<cpc[c], chead[c], ctail[c], cval[c]>>
            /\ StepsLeft(c)' = StepsLeft(c)]_vars

-----------------------------------------------------------------------------
(***************************************************************************)
(* Liveness, for consumers that keep polling and, once gone, are started   *)
(* again.  Nothing is assumed of the producer.                             *)
(***************************************************************************)

FairSpec ==
  /\ Spec
  /\ \A c \in Consumers : WF_vars(ConsumerJoin(c) \/ Pop(c))

\* A polling consumer is never stuck behind something published: again and
\* again it is caught up or its head moves on, whatever resets, overruns and
\* restarts come in between.  A head never goes back, so every published
\* position is delivered, lost to an overrun or passed by a join, in the end.
EveryPositionIsPassed ==
  \A c \in Consumers :
    []<>(tail <= chead[c]) \/ []<><<chead'[c] > chead[c]>>_vars

=============================================================================
