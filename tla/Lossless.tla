------------------------------ MODULE Lossless ------------------------------
(***************************************************************************)
(* The lossless SPSC channel: que/src/lossless/{producer,consumer}.rs on   *)
(* one Channel<M, T, N> in shared memory.                                  *)
(*                                                                         *)
(* The producer and the consumer are two threads or processes.  A step of  *)
(* the model makes at most one access to memory the other side can see,    *)
(* so an operation that checks an index and then touches a slot takes two  *)
(* steps, and the other side, or a crash, may come in between.             *)
(*                                                                         *)
(* The header is the flag magic here; its stores one by one, the capacity  *)
(* word and the heartbeats, which no push or pop reads, are in Handshake.  *)
(***************************************************************************)
EXTENDS Channel, Sequences

CONSTANTS
  Values,   \* what an application pushes
  Junk,     \* bytes no push wrote as a whole: zeroed memory, a torn write
  MaxPos    \* bound: the number of positions ever written

ASSUME JunkAssumption   == Junk \notin Values
ASSUME MaxPosAssumption == MaxPos \in Nat

VARIABLES
  \* Channel: the shared region
  magic,      \* TRUE once MAGIC is stored (the region starts zeroed)
  tail,       \* published end: every position below it may be read
  head,       \* released end: every slot below it may be written again
  buffer,     \* Slots -> values
  \* Producer and its Reservation
  ppc,        \* "down", "idle", "write" (inside push), "reserved"
  ptail,      \* Producer.tail
  pwritten,   \* Producer.written
  rcount,     \* Reservation.count
  rwritten,   \* Reservation.written
  \* Consumer
  cpc,        \* "down", "joining", "idle", "read", "got" (inside pop), "elem"
  chead,      \* Consumer.head
  csince,     \* Consumer.items_since_last_sync
  cval,       \* the value pop has read and not yet returned
  \* History, read by no guard
  log,        \* log[p + 1]: the value last written for position p
  got,        \* the values handed out since the consumer joined
  cstart      \* the position at which the consumer joined

shared   == <<magic, tail, head, buffer>>
producer == <<ppc, ptail, pwritten, rcount, rwritten>>
consumer == <<cpc, chead, csince, cval>>
history  == <<log, got, cstart>>
vars     == <<shared, producer, consumer, history>>

\* Every field keeps its type: the usize cursors never go below zero (where the
\* code would wrap or panic), the buffer holds pushed values or junk.
TypeOK ==
  /\ magic \in BOOLEAN
  /\ tail \in Nat /\ head \in Nat
  /\ buffer \in [Slots -> Values \cup {Junk}]
  /\ ppc \in {"down", "idle", "write", "reserved"}
  /\ ptail \in Nat /\ pwritten \in Nat /\ rcount \in Nat /\ rwritten \in Nat
  /\ cpc \in {"down", "joining", "idle", "read", "got", "elem"}
  /\ chead \in Nat /\ csince \in Nat /\ cval \in Values \cup {Junk}
  /\ log \in Seq(Values) /\ got \in Seq(Values \cup {Junk}) /\ cstart \in Nat

Init ==
  /\ magic = FALSE /\ tail = 0 /\ head = 0
  /\ buffer = [i \in Slots |-> Junk]
  /\ ppc = "down" /\ ptail = 0 /\ pwritten = 0 /\ rcount = 0 /\ rwritten = 0
  /\ cpc = "down" /\ chead = 0 /\ csince = 0 /\ cval = Junk
  /\ log = <<>> /\ got = <<>> /\ cstart = 0

-----------------------------------------------------------------------------
(***************************************************************************)
(* Producer: joining, crashing.                                            *)
(***************************************************************************)

\* What the constructor leaves in a Producer whose tail starts at t.  The
\* positions beyond t that an earlier producer wrote are forgotten.
FreshProducer(t) ==
  /\ ppc' = "idle"
  /\ ptail' = t /\ pwritten' = 0
  /\ rcount' = 0 /\ rwritten' = 0
  /\ log' = SubSeq(log, 1, t)

\* magic == 0: store the header, MAGIC last, and start at zero.  head is not
\* among the fields the code stores.
ProducerInitialize ==
  /\ ppc = "down" /\ ~magic
  /\ magic' = TRUE /\ tail' = 0
  /\ FreshProducer(0)
  /\ UNCHANGED <<head, buffer, consumer, got, cstart>>

\* Mutant: a restarted producer takes over at the consumer's head.
ProducerJoinAtHead ==
  /\ ppc = "down" /\ magic
  /\ FreshProducer(head)
  /\ UNCHANGED <<shared, consumer, got, cstart>>

\* magic == MAGIC: take over where the published tail stands.
ProducerJoin ==
  /\ ppc = "down" /\ magic
  /\ FreshProducer(tail)
  /\ UNCHANGED <<shared, consumer, got, cstart>>

\* The end of the positions the producer may be writing right now, which
\* start at ptail + rwritten.
ClaimEnd == IF ppc = "write" THEN ptail + 1 ELSE ptail + rcount

\* The producer goes away, dropped or killed.  A kill in the middle of a copy
\* leaves any of the claimed slots torn.
ProducerCrash ==
  /\ ppc # "down"
  /\ ppc' = "down"
  /\ \E torn \in SUBSET (ptail + rwritten .. ClaimEnd - 1) :
       buffer' = [i \in Slots |->
                    IF \E p \in torn : Index(p) = i THEN Junk ELSE buffer[i]]
  /\ UNCHANGED <<magic, tail, head, ptail, pwritten, rcount, rwritten,
                 consumer, history>>

-----------------------------------------------------------------------------
(***************************************************************************)
(* Producer: push and sync.                                                *)
(***************************************************************************)

\* Mutant: the ring is taken for one slot larger than it is.
PushCheckOffByOne ==
  /\ ppc = "idle" /\ ptail < MaxPos
  /\ ptail # head + N + 1
  /\ ppc' = "write"
  /\ UNCHANGED <<shared, ptail, pwritten, rcount, rwritten, consumer, history>>

\* push, first half: load head and compare.  Full changes nothing.
PushCheck ==
  /\ ppc = "idle" /\ ptail < MaxPos
  /\ ptail # head + N
  /\ ppc' = "write"
  /\ UNCHANGED <<shared, ptail, pwritten, rcount, rwritten, consumer, history>>

\* push, second half: write the slot, advance the local cursor.
PushWrite(v) ==
  /\ ppc = "write"
  /\ buffer' = [buffer EXCEPT ![Index(ptail)] = v]
  /\ ptail' = ptail + 1 /\ pwritten' = pwritten + 1
  /\ log' = Append(log, v)
  /\ ppc' = "idle"
  /\ UNCHANGED <<magic, tail, head, rcount, rwritten, consumer, got, cstart>>

\* sync: publish the local tail.
Sync ==
  /\ ppc = "idle"
  /\ pwritten' = 0
  /\ tail' = ptail
  /\ UNCHANGED <<magic, head, buffer, ppc, ptail, rcount, rwritten, consumer,
                 history>>

-----------------------------------------------------------------------------
(***************************************************************************)
(* Producer: reserve, write, commit or cancel.  The Reservation borrows    *)
(* the Producer, so its start_tail is ptail for as long as it lives.       *)
(***************************************************************************)

\* Mutant: the free slots are counted from the published tail.
AvailableSpaceFromTail == N - (tail - head)

\* The free slots as reserve computes them from the loaded head.
AvailableSpace == N - (ptail - head)

\* reserve: InvalidSize unless count is in 1..N, Full unless it fits; both
\* change nothing.
Reserve(count) ==
  /\ ppc = "idle" /\ ptail + count <= MaxPos
  /\ count \in 1 .. N
  /\ count <= AvailableSpace
  /\ ppc' = "reserved" /\ rcount' = count /\ rwritten' = 0
  /\ UNCHANGED <<shared, ptail, pwritten, consumer, history>>

\* write_next: beyond the limit it panics, and nothing is written.
WriteNext(v) ==
  /\ ppc = "reserved" /\ rwritten < rcount
  /\ buffer' = [buffer EXCEPT ![Index(ptail + rwritten)] = v]
  /\ rwritten' = rwritten + 1
  /\ log' = Append(log, v)
  /\ UNCHANGED <<magic, tail, head, ppc, ptail, pwritten, rcount, consumer,
                 got, cstart>>

\* Mutant: the second copy starts at the beginning of the slice again.
CopyInRestarted(start_index, values) ==
  LET end_index      == start_index + Len(values)
      first_part_len == N - start_index
  IN  [i \in Slots |->
         IF i \in start_index .. end_index - 1
         THEN values[i - start_index + 1]
         ELSE IF i < Len(values) - first_part_len
              THEN values[i + 1] ELSE buffer[i]]

\* The two copies of write_all: one up to the end of the ring, the rest from
\* its beginning.
CopyIn(start_index, values) ==
  LET end_index      == start_index + Len(values)
      first_part_len == N - start_index
  IN  [i \in Slots |->
         IF end_index <= N
         THEN IF i \in start_index .. end_index - 1
              THEN values[i - start_index + 1] ELSE buffer[i]
         ELSE IF i >= start_index
              THEN values[i - start_index + 1]
              ELSE IF i < Len(values) - first_part_len
                   THEN values[first_part_len + i + 1] ELSE buffer[i]]

\* write_all: a slice that does not fit panics, an empty one changes nothing.
WriteAll(values) ==
  /\ ppc = "reserved"
  /\ Len(values) \in 1 .. rcount - rwritten
  /\ buffer' = CopyIn(Index(ptail + rwritten), values)
  /\ rwritten' = rwritten + Len(values)
  /\ log' = log \o values
  /\ UNCHANGED <<magic, tail, head, ppc, ptail, pwritten, rcount, consumer,
                 got, cstart>>

\* commit: advance by what was written, and publish only when a burst's worth
\* of elements is waiting.
Commit ==
  /\ ppc = "reserved"
  /\ ppc' = "idle" /\ rcount' = 0 /\ rwritten' = 0
  /\ ptail' = ptail + rwritten
  /\ IF pwritten + rwritten >= burst_amount
     THEN pwritten' = 0 /\ tail' = ptail'
     ELSE pwritten' = pwritten + rwritten /\ tail' = tail
  /\ UNCHANGED <<magic, head, buffer, consumer, history>>

\* cancel, or a Reservation that is just dropped.
Cancel ==
  /\ ppc = "reserved"
  /\ ppc' = "idle" /\ rcount' = 0 /\ rwritten' = 0
  /\ log' = SubSeq(log, 1, ptail)
  /\ UNCHANGED <<shared, ptail, pwritten, consumer, got, cstart>>

-----------------------------------------------------------------------------
(***************************************************************************)
(* Consumer: joining, crashing.                                            *)
(***************************************************************************)

\* Mutant: a restarted consumer resumes at the last released head.
ConsumerJoinAtHead ==
  /\ cpc = "down" /\ magic
  /\ cpc' = "joining"
  /\ chead' = head
  /\ cstart' = head /\ got' = <<>>
  /\ UNCHANGED <<shared, producer, csince, cval, log>>

\* join, first half: only a channel with MAGIC is joined, at the current tail
\* ("assume spsc is empty upon joining").
ConsumerJoinLoad ==
  /\ cpc = "down" /\ magic
  /\ cpc' = "joining"
  /\ chead' = tail
  /\ cstart' = tail /\ got' = <<>>
  /\ UNCHANGED <<shared, producer, csince, cval, log>>

\* Mutant: the joining consumer leaves head as it found it.
ConsumerJoinStoreForgotten ==
  /\ cpc = "joining"
  /\ cpc' = "idle" /\ csince' = 0
  /\ UNCHANGED <<shared, producer, chead, cval, history>>

\* join, second half: give the producer everything before that tail.
ConsumerJoinStore ==
  /\ cpc = "joining"
  /\ head' = chead
  /\ cpc' = "idle" /\ csince' = 0
  /\ UNCHANGED <<magic, tail, buffer, producer, chead, cval, history>>

\* The consumer goes away, dropped or killed, wherever it stands.  A kill in
\* the middle of an update through an Element leaves the slot torn.
ConsumerCrash ==
  /\ cpc # "down"
  /\ cpc' = "down"
  /\ \/ buffer' = buffer
     \/ cpc = "elem" /\ buffer' = [buffer EXCEPT ![Index(chead)] = Junk]
  /\ UNCHANGED <<magic, tail, head, producer, chead, csince, cval, history>>

-----------------------------------------------------------------------------
(***************************************************************************)
(* Consumer: pop and pop_zerocopy.                                         *)
(***************************************************************************)

\* Mutant: the last published element is taken for unpublished.
PopCheckOffByOne ==
  /\ cpc = "idle"
  /\ tail > chead + 1
  /\ cpc' = "read"
  /\ UNCHANGED <<shared, producer, chead, csince, cval, history>>

\* Load tail and compare.  Caught up returns None and changes nothing.
PopCheck ==
  /\ cpc = "idle"
  /\ tail > chead
  /\ cpc' = "read"
  /\ UNCHANGED <<shared, producer, chead, csince, cval, history>>

\* Copy the element out of its slot.
PopRead ==
  /\ cpc = "read"
  /\ cval' = buffer[Index(chead)]
  /\ cpc' = "got"
  /\ UNCHANGED <<shared, producer, chead, csince, history>>

\* Mutant: maybe_sync runs before the head is incremented.
AdvanceHeadStale ==
  /\ chead' = chead + 1
  /\ IF csince + 1 >= burst_amount
     THEN csince' = 0 /\ head' = chead
     ELSE csince' = csince + 1 /\ head' = head

\* One element is done with: head += 1, then maybe_sync, which releases the
\* slots only once per burst.
AdvanceHead ==
  /\ chead' = chead + 1
  /\ IF csince + 1 >= burst_amount
     THEN csince' = 0 /\ head' = chead'
     ELSE csince' = csince + 1 /\ head' = head

\* pop, last part: advance and return the value.
PopReturn ==
  /\ cpc = "got"
  /\ AdvanceHead
  /\ cpc' = "idle" /\ cval' = Junk
  /\ got' = Append(got, cval)
  /\ UNCHANGED <<magic, tail, buffer, producer, log, cstart>>

\* Mutant: the slot is released when the Element is created.
PopZerocopyReleases ==
  /\ cpc = "idle"
  /\ tail > chead
  /\ cpc' = "elem"
  /\ head' = chead + 1
  /\ UNCHANGED <<magic, tail, buffer, producer, chead, csince, cval, history>>

\* pop_zerocopy: the check of pop, but the element stays in its slot and the
\* caller holds a reference to it.
PopZerocopy ==
  /\ cpc = "idle"
  /\ tail > chead
  /\ cpc' = "elem"
  /\ UNCHANGED <<shared, producer, chead, csince, cval, history>>

\* DerefMut for Element: the caller updates the element in place.  The
\* history follows, since the holder owns the element.
ElementDerefMut(v) ==
  /\ cpc = "elem"
  /\ buffer' = [buffer EXCEPT ![Index(chead)] = v]
  /\ log' = [log EXCEPT ![chead + 1] = v]
  /\ UNCHANGED <<magic, tail, head, producer, consumer, got, cstart>>

\* Drop for Element.  What the holder had is what the slot shows at the end.
ElementDrop ==
  /\ cpc = "elem"
  /\ AdvanceHead
  /\ cpc' = "idle"
  /\ got' = Append(got, buffer[Index(chead)])
  /\ UNCHANGED <<magic, tail, buffer, producer, cval, log, cstart>>

-----------------------------------------------------------------------------
ProducerNext ==
  \/ ProducerInitialize \/ ProducerJoin \/ ProducerCrash
  \/ PushCheck \/ Sync \/ Commit \/ Cancel
  \/ \E v \in Values : PushWrite(v) \/ WriteNext(v)
  \/ \E count \in 1 .. N : Reserve(count)
  \/ \E k \in 1 .. N : \E values \in [1 .. k -> Values] : WriteAll(values)

ConsumerNext ==
  \/ ConsumerJoinLoad \/ ConsumerJoinStore \/ ConsumerCrash
  \/ PopCheck \/ PopRead \/ PopReturn
  \/ PopZerocopy \/ ElementDrop
  \/ \E v \in Values : ElementDerefMut(v)

Next == ProducerNext \/ ConsumerNext

Spec == Init /\ [][Next]_vars

-----------------------------------------------------------------------------
(***************************************************************************)
(* Safety.                                                                 *)
(***************************************************************************)

\* The consumer got exactly the values pushed at the positions from where it
\* joined up to its head, in order: none lost, repeated, torn or overtaken,
\* whatever the ring's wrap-around, the bursts and the crashes of the producer
\* did in between (pop, push, join_).
Fifo ==
  /\ Len(got) = chead - cstart
  /\ \A i \in 1 .. Len(got) : got[i] = log[cstart + i]

\* The cursors stay ordered, and no more than N positions lie between the
\* released head and the end of what the producer may write.  This is what
\* makes the equality test of push a fullness test, and keeps
\* N - (self.tail - head) of reserve from underflowing.
SpaceAccounting ==
  /\ head <= chead /\ chead <= tail /\ tail <= ptail
  /\ ClaimEnd - head <= N

\* While the consumer reads an element or holds a reference to it, the
\* producer is not writing the slot it is in, neither in push nor through a
\* reservation: the unsynchronised accesses to buffer never race.
NoSlotRace ==
  cpc \in {"read", "elem"} /\ ppc \in {"write", "reserved"}
    => \A p \in ptail + rwritten .. ClaimEnd - 1 : Index(p) # Index(chead)

\* maybe_sync holds back less than a burst, and exactly what
\* items_since_last_sync says, so a producer that is refused has more than
\* N - burst_amount unread elements in the channel.
HeadLag ==
  cpc \in {"idle", "read", "got", "elem"}
    => chead - head = csince /\ csince < burst_amount

\* What a step may never do: take back a publication (a restarted producer
\* included), or change a published element the consumer still has ahead of
\* it, other than the consumer itself through the Element it holds.
PublishedStable ==
  [][/\ tail' >= tail
     /\ \A p \in chead' .. tail - 1 :
          buffer'[Index(p)] # buffer[Index(p)] => cpc = "elem" /\ p = chead
    ]_vars

\* "Commit the reservation, publishing all written values" (the doc of commit,
\* producer.rs:499-501): after a commit that advanced the tail, what was written
\* is published.  The code publishes only once a burst is waiting.
CommitPublishes ==
  [][ppc = "reserved" /\ ppc' = "idle" /\ ptail' # ptail => tail' = ptail']_vars

\* The channel implements the bounded FIFO.  Elements of a reservation are
\* accepted when it commits.
Abstract == INSTANCE LosslessFifo
              WITH Capacity <- N, Elements <- Values,
                   pending  <- SubSeq(log, tail + 1, ptail),
                   queue    <- SubSeq(log, chead + 1, tail),
                   taken    <- got

\* Every step of the two endpoints is a step of the bounded FIFO, or none.
ImplementsFifo == Abstract!Spec

-----------------------------------------------------------------------------
(***************************************************************************)
(* The inductive invariant behind the proofs (LosslessProofs).             *)
(***************************************************************************)

\* The next position some consumer may read: a consumer that joins starts at
\* the tail, so what a crashed one left unread is nobody's.
ReadFrom == IF cpc = "down" THEN tail ELSE chead

\* Nothing was ever written to a channel that is not initialised.
Uninitialized ==
  ~magic => /\ ppc = "down" /\ cpc = "down"
            /\ ptail = 0 /\ rwritten = 0

\* Producer.written is what is waiting to be published, the local cursors of
\* push and of a reservation agree with the history.
ProducerCursors ==
  /\ pwritten = ptail - tail
  /\ Len(log) = ptail + rwritten
  /\ rwritten <= rcount
  /\ ppc \in {"idle", "write"} => rcount = 0

\* An element being read is a published one.
ConsumerCursors ==
  /\ cstart <= chead
  /\ cpc \in {"read", "got", "elem"} => chead < tail
  /\ cpc = "got" => cval = log[chead + 1]

\* Every slot from the next position to read to the last one written holds
\* the value the history has for it.
Content ==
  \A p \in ReadFrom .. ptail + rwritten - 1 : buffer[Index(p)] = log[p + 1]

\* Push and reservations stay inside the ring, the consumer releases no slot
\* it still reads, and every slot ahead of it holds what was pushed: together
\* what each operation of the two endpoints preserves.
IInv ==
  /\ TypeOK
  /\ Uninitialized /\ ProducerCursors /\ ConsumerCursors /\ Content
  /\ SpaceAccounting /\ HeadLag /\ Fifo

-----------------------------------------------------------------------------
(***************************************************************************)
(* Liveness, for a consumer that keeps polling and, once gone, is started  *)
(* again (the loops of examples/ and of the loom tests).  It may crash at  *)
(* any time, but not in the middle of every single join.  Nothing is       *)
(* assumed of the producer.                                                *)
(***************************************************************************)

ConsumerProgress ==
  \/ ConsumerJoinLoad \/ ConsumerJoinStore
  \/ PopCheck \/ PopRead \/ PopReturn \/ ElementDrop

FairSpec ==
  Spec /\ WF_vars(ConsumerProgress) /\ SF_vars(ConsumerJoinStore)

\* Every published position is eventually behind the consumer, taken or
\* skipped by a restart.
PublishedIsConsumed ==
  \A p \in 0 .. MaxPos - 1 : tail > p ~> chead > p

\* A producer that has published everything and retries reserve(k) is not
\* refused forever, for every k up to N - burst_amount + 1: the elements
\* maybe_sync holds back are fewer than a burst.
SpaceComesBack ==
  \A k \in 1 .. N - burst_amount + 1 :
    []<>~(ppc = "idle" /\ tail = ptail /\ AvailableSpace < k)

=============================================================================
