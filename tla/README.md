# que: a TLA+ verification project

`que` is a lock-free, bounded, single-producer channel for threads and processes.
One region of memory, `Channel<M, T, N>` (que/src/lib.rs:23), holds two published
cursors (`tail`, `head`), two heartbeat counters, a header (`capacity`, `magic`) and a
ring of `N` slots. Two sets of endpoints work on it:

* **lossless** (que/src/lossless): one producer, one consumer, backpressure, FIFO;
* **headless** (que/src/headless_spmc): one producer that never waits, up to 64
  consumers that share the positions out by residue and detect being overrun.

The region is allocated in an Arc for threads of one process (que/src/lossless/mod.rs,
headless_spmc/mod.rs) or mapped from a shared memory segment (que/src/shmem.rs) for
several. c/ is a port of the lossless endpoints that works on the same segments.

Positions are counters that only grow; position `p` lives in slot `p & (N - 1)`. Each
endpoint keeps its own cursor and publishes it now and then: a quarter of the ring is
the `burst_amount`. All correctness rests on how these cursors lag behind each other.

## Inventory

| Component | State | Operations | What makes it correct |
|---|---|---|---|
| lossless producer (producer.rs) | `tail`, `written`; a `Reservation`'s `count`, `written` | `push`, `sync`, `reserve`, `write_next`, `write_all`, `write_iter`, `commit`, `cancel`, three joins, drop | never writes a slot that may still be read; publishes only written slots; the space computation does not underflow |
| lossless consumer (consumer.rs) | `head`, `items_since_last_sync`; a held `Element` | `join`, `pop`, `pop_zerocopy`, `Element::deref_mut`, `Element::drop`, drop | returns what was pushed, in order; releases no slot it still reads; releases slots eventually |
| headless producer | `tail`, `written` | `push`, `sync`, joins, drop | never more than a burst ahead of the published tail |
| headless consumer | `head`, `interval`, `consumer_index` | `join_multi`, `pop`, drop | returns no torn or stale element; delivers nothing twice; skips only what was overrun |
| joining and heartbeats (all endpoints) | `magic`, `capacity`, the two heartbeats, `last_*_heartbeat` | the joins, `beat`, `consumer_heartbeat`, `producer_heartbeat` | nobody joins a half-initialised header; capacities agree; a beat is noticed |
| in-process pairs (mod.rs) | the Arc's strong count, the elements in the slots | `lossless_pair`, `headless_pair`, `headless_multi`, join through the raw pointer, drop | freed once, after the last endpoint; an element is dropped once |
| shared memory (shmem.rs, page_size.rs) | segment, its size, the mappings | `open_or_create`, `close`, `cleanup_shmem`, `mem_size` | who uses a mapping has memory behind it; everybody on a segment has its capacity |
| both modes on one region (lib.rs:19) | the cursors an earlier mode left | a restart in the other mode | backpressure works again after a headless session |
| C port (c/) | as the lossless endpoints | the lossless operations, `open_or_create_shmem`, `close_shmem` | agrees with the Rust endpoints on layout, order of stores and cursors |
| interprocess example (examples/interprocess, c/test_*.c) | the places of two programs | join, push, sync, reserve, ack | assertions hold, an ack means what it is taken for, both programs end |
| atomics, tests, other examples, benches, utils.rs | - | - | not part of the channel's logic |

How they interact: only through the region. The producer stores `tail` (Release) and
the consumer loads it (Acquire); in lossless mode the consumer stores `head` and the
producer loads it. Slots are read and written without synchronisation. There are no
locks, callbacks or messages. An endpoint may be dropped or killed at any point and
replaced by a new one that joins the same region.

The hard parts, each in PROJECT.json under `hazards` at its line: checks separated
from the access they guard; late publication and late release; wrap-around of
`write_all`; restarts of either side between any two accesses; the optimistic read of
the headless `pop`; the retry loop of `pop`; the arithmetic of residue classes at a
reset; the small capacities; the order of the memory accesses; processes that die or
whose calls fail between two system calls; two languages on one layout; counts and
elements that are released by whoever comes last; two programs that wait for each other.

## Modules

| Module | Models |
|---|---|
| `Channel` | `N` and its assumptions, `Index`, `Slots`, `burst_amount` |
| `Lossless` | both lossless endpoints and the region between them |
| `LosslessFifo` | what the lossless channel promises: a bounded FIFO with a publication step |
| `WriteIter` | `Reservation::write_iter` turn by turn, on top of `Lossless` |
| `LosslessC` | the C endpoints and the Rust ones on one channel, on top of `WriteIter` |
| `Toggle` | headless sessions and lossless endpoints, one after the other on one region, on top of `Lossless` |
| `Headless` | the headless producer and its consumers |
| `HeadlessLog` | what the headless channel promises: a log that keeps its newest elements, read by residue |
| `Handshake` | the header of the region: the joins store by store, the capacity word, the heartbeats |
| `HandshakeC` | the same with C producers, whose last two stores are plain, on top of `Handshake` |
| `LocalPair` | the strong count of the in-process pairs: construction, panic, drop, join through the raw pointer |
| `LocalElements` | which operation drops an element that owns something, on top of `LocalPair` |
| `PageSize` | page_size.rs and the size of `Channel` |
| `Shmem` | segments and mappings, system call by system call, in both languages |
| `Layout` | offsets, sizes and the masks of ring and page, as Rust and C compute them |
| `Interprocess` | the two programs of examples/interprocess, on top of `Lossless` |
| `InterprocessLayout` | the same programs on the memory of `Layout` |
| `ChannelProofs` | lemmas on ring indices, `burst_amount` and sequences |
| `LosslessProofs` | the theorems about `Lossless`, its refinement of `LosslessFifo` included |
| `LosslessUseProofs` | the lossless channel in use: `LosslessC`, `Toggle`, `Interprocess` and `InterprocessLayout` |
| `HandshakeProofs`, `HandshakeCProofs` | the theorems about `Handshake`, and `HandshakeC` as a refinement of it |
| `HeadlessProofs` | the theorems about `Headless`, its refinement of `HeadlessLog` included |
| `LocalProofs`, `ShmemProofs` | the theorems about the modules of those names |
| `MC...` | symmetry and instances for TLC |

### Granularity

A step makes at most one access to memory that the other side can see. `push` is
`PushCheck` (load `head`, compare) followed by `PushWrite` (write the slot, advance the
local cursor); `pop` is `PopCheck`, `PopRead`, `PopReturn`, the last with the trailing
`maybe_sync` (`AdvanceHead`). The consumer's join loads `tail` in one step and stores
`head` in another. Local computations belong to the step of the access they follow. An
operation that fails (`Full`, `InvalidSize`, `None`, a panic before any write) changes no
state and is a stuttering step, so its guard is the negation of the code's early return.

In `Headless` the slot accesses have a beginning and an end: `T` can be any number of
words, so a write makes the slot `Junk` until it ends, and a read that sees a slot change
returns `Junk`. The lossless endpoints do not need that: `NoSlotRace` shows that accesses
to one slot never overlap there, and a crash may leave any claimed slot torn.

In `WriteIter` a step is one turn of the loop; in `LocalPair` one change of the strong
count, with the load that precedes a free apart from it; in `Shmem` one system call.
`LocalElements` takes whole pushes and pops for steps, and `Shmem` a whole join on the
mapped header: that their accesses can be taken together is what `Lossless` and
`Handshake` show. In `HandshakeC` the stores of `capacity` and `magic` become visible one
by one, in the order of the text when `ProgramOrder` holds.

### Correspondence

Variables are named after the fields: `tail`, `head`, `buffer`, `magic` are the
region's, `ptail`, `pwritten`, `rcount`, `rwritten` the producer's and its
reservation's, `chead`, `csince` the consumer's, `ppc` and `cpc` the place in the
operation that is in progress. The history variables `log` (the value last written for
each position), `got`, `cstart` and `last` are read by no guard. PROJECT.json `map` gives
the lines of every definition.

`Init` is the zeroed region without endpoints. The pairs of mod.rs are the behaviours
that begin with `ProducerInitialize` and a consumer's join. In `Lossless` and `Headless`
the header is the flag `magic`, set by the one step `ProducerInitialize`, and the
heartbeats are left out: no push or pop reads them. `Handshake` has both in full, and
shows that a join sees either nothing or the whole header, which is what that one step
assumes. `CorruptionDetected` of the Rust joins needs a magic word that no code of the
repository stores. The C consumer reads `magic` a second time when it was not MAGIC
(c/consumer.c:31, :54), so it can print "Corruption detected" about a header that is just
being completed; its join fails with the same result either way. `join_or_create_shmem` of
the headless producer beats when it joins (headless_spmc/producer.rs:66), as
`join_or_initialize_in_` of the lossless one does: it makes the accesses of that entry.

**C.** `LosslessC` says at each start of an endpoint which language runs (`pport`,
`cport`), so every combination, and every change of language over a restart, is a
behaviour. Most C operations make the accesses of the Rust ones and are the same actions;
those with code of their own are `CInitialize` (stores `head` as well), `CGetNext` and
`CWriteNext` (a slot is filled through a pointer first and counted later, `filled`) and
`CCommit` (always publishes). C checks nothing of a reservation. The model's caller keeps
one open at a time, fills no more than `count` slots, and commits once.

**Toggle.** A headless session is one step that leaves what such a session can leave:
`tail` moved, `head` where it was, nothing known of the slots. `ReserveWraps` is the
subtraction of `reserve` on a `usize` (`Width` bits) when `tail` is more than `N` ahead.
`WaitForConsumer` is what the example does: push only after the consumer's first ack.
The run is without it, since nothing in the repository asks for it; the theorems are
with it.

**In-process pairs.** `handle` is the life of each endpoint, `keeper` the living endpoint
the caller of a join relies on (the pointer is only good while one lives), `lost` the
counts that nobody takes off any more: those of a constructor that panicked, and those
that the caller of `Consumer::join` added beforehand (`CountedBefore`: its doc asks for it,
and the callers in the repository do not do it, so either may happen). In `LocalElements` assignment to a slot drops the old content,
`pop` copies the element out and leaves it in the slot, and freeing the channel drops
every slot.

**Shared memory.** `name` is what the id refers to and `size` and `channel` belong to
segments, so a segment that was unlinked lives on under those who have it mapped.
`channel` is the capacity its header was initialised for, lost with an `ftruncate` below the
header (`Need` is never that small, which is a lemma of the proofs). There is one producer,
so that the accesses of its join can be taken together (`JoinHeader`). `cleanup_shmem` is
called by a program of its own or by an endpoint that is still attached, as the example's
producer does. The C port's
`open_or_create_shmem` differs in sizing huge pages with `ftruncate` too (`AfterOpen`), its
`close_shmem` in leaving the mapping (`CloseShmemC`). `shm_unlink` is given bytes without
a terminating zero, so which name it looks up depends on what follows in memory: both
outcomes are possible (`UnlinkShm`).

**Interprocess.** `prog` and `user` are the lines the two mains have reached; every access
to the channel is an action of `Lossless`. `MainInit` is a zeroed region or any that an
earlier run, killed anywhere, leaves (`EarlierRun`). The two languages differ only in how
the producer makes the region (`JoinOrCreate`, `UnlinkAndCreate`). Left out are what
several killed runs leave one on top of the other, and a C producer that unlinks the region
(or, with huge pages, where `shm_unlink` finds nothing, zeroes it) under a consumer that is
already on it. `SameLayout` of `Layout`
compares what the two languages compute, over all element types and capacities within its
bounds; an element type aligned to more than the 128 bytes of `Channel` is excluded: Rust
would then place the buffer elsewhere than C's offset 640. `Layout` has the code's masks; the operator `&` is its constant `BitAnd`, and
`MaskAssumption` says what the masks of powers of two do. In the run `BitAnd` is the `&` of
the community module Bitwise, so TLC checks the assumption on all ten-bit numbers.

### Abstractions and bounds

* `Values` are opaque; `Junk` stands for all bytes no push wrote as a whole.
* Positions are unbounded naturals: 64-bit counters do not wrap in practice.
  `SlotsInOrder` is about the mask of positions of `UsizeBits` bits that do.
* The bytes of a segment are `size` and the header's capacity; all `ShmemError`s are one.
* `MaxPos` caps the positions ever written; it appears as a guard of the writes only.
  The theorems hold for every `MaxPos`. `MaxItems`, `MaxSession`, `MaxTail`, `MaxBeats`,
  `MaxJoins`, `MaxElements`, `MaxFaults` and `MaxCleanups` bound what their names say.
* A `Reservation` that is dropped does what `cancel` does, a panic in `write_next` or
  `write_all` changes nothing and drops it.
* `Ordered` and `StoresOrdered` (Headless) are the two halves of the optimistic read, which
  no Release/Acquire pair orders. `Ordered`: the slot read of `pop` is performed before its
  second load of `tail`. The code asks for Acquire, which holds back later accesses only;
  `Ordered = FALSE` lets that load return the tail of the first load again.
  `StoresOrdered`: nobody sees the slot write of `push` before the store of `tail` that
  `push` made ahead of it. The code asks for Release, which holds back earlier accesses
  only; `StoresOrdered = FALSE` lets the write begin first and the store get through with
  its end. x86 keeps both orders if the compiler does; a weaker machine keeps neither.
* Everything else is sequentially consistent. For the lossless channel the Release/Acquire
  pairs on `tail` and `head` give the order: a slot is written before the `tail` that
  publishes it and read before the `head` that gives it back.

## Runs

| Run | Instance | Checks | Shows |
|---|---|---|---|
| `lossless_ring` | N = 4, 2 values, 6 positions | `IInv`, `Fifo`, `SpaceAccounting`, `NoSlotRace`, `PublishedStable`, `ImplementsFifo` | the invariants below and the refinement of `LosslessFifo`, with wrap-around, all reservations and crashes anywhere |
| `lossless_live` | N = 8, 1 value, 5 positions, fair | `PublishedIsConsumed`, `SpaceComesBack` | a polling consumer makes progress and gives the slots back |
| `lossless_commit` | N = 8, 1 value, 3 positions | `CommitPublishes` (violated) | a committed element stays invisible |
| `lossless_mixed` | N = 2, 2 values, 4 positions, iterators of 2 | `CIInv`, `WritesInOrder`, `StopsWhenDone` | C and Rust endpoints together, `write_iter` interrupted anywhere |
| `toggle` | N = 2, 2 values, 7 positions, sessions of 3, nobody waits | `Fifo` (violated) | lossless after headless, pushing too early |
| `headless` | N = 4, 2 consumers, 2 values, 5 positions, fair | `IInv`, `WindowUntouched`, `NoDuplicate`, `SkipsOnlyOverrun`, `PopIsBounded`, `ImplementsLog`, `EveryPositionIsPassed` | no torn or stale element (`PopsPushed` is a part of `IInv`); the consumers' shares; the loop of `pop` ends; the refinement of `HeadlessLog`; a polling consumer does not stay behind |
| `headless_unordered` | `Ordered = FALSE` | `PopsPushed` (violated) | a torn element |
| `handshake` | capacities 1 and 2, 1 position, 2 beats each, both languages | `MixedIInv`, `HeaderComplete`, `CapacityErrorIsTrue`, `BeatsAddUp`, `HeaderStable`, `ImplementsHandshake` | joins and heartbeats, crashes anywhere; C producers as a refinement of Rust ones |
| `handshake_join_ack` | one capacity, one beat, fair | `JoinIsNoticed` (violated) | a consumer's first beat is lost |
| `local` | N = 2, 4 elements, 3 more joins | `NoUseAfterFree`, `FreedExactlyOnce`, `CountExact`, `Custody` | who frees the channel and who drops its elements |
| `shmem` | a producer and a consumer, 2 capacities, all page sizes, 2 faults, 2 cleanups, fair | `Backed`, `CapacityAgreed`, `Meet` | opening, sizing, refusing, closing, with faults between any two calls |
| `interprocess` | N = 4 as in the programs, lines of 16 bytes, 10-bit positions, fair | `AssertionsHold`, `AcksMeanRead`, `LayoutsAgree`, `SlotsInOrder`, `BothEnd` | the composed programs, on new regions and on old ones |

The bounds. Four slots are the smallest ring where a reservation can wrap in more than
one way; with six positions every slot is written in at least one lap and some in two.
A burst has more than one element only from N = 8 on, so the lossless properties about
bursts run there, with one value, since they do not look at values. The headless run stays
at four slots, a burst of one: the bursts of `WindowUntouched` and the others are covered by
their theorems, which hold for every capacity. Five positions are enough for the producer
to overrun each consumer and to write a slot of the last lap while it is read. Two values suffice to tell a
stale element from a fresh one (they are symmetric). Two consumers are the smallest
number that can steal from each other. `lossless_mixed` has two slots, two laps, and
iterators shorter than, as long as, and longer than what a reservation has room for: both
exits of `write_iter` occur. In `toggle` a session of three is longer than the
ring of two, so the subtraction of `reserve` wraps: `ReserveWraps` is a step of the
counterexample. Three joins let each handle of a
pair die and come back while the other is being dropped. In `shmem` the two capacities
need segments of different sizes with standard and huge pages and of the same with
gigantic ones, and two faults are enough for a
process to die before it has sized what it created and for the next one to fail as well.
`interprocess` scales the machine down: ten bits hold the largest segment of the
`Layout` bounds, and the counters start in every lap, the last included.

### Fairness

`Lossless!FairSpec`: the consumer keeps polling and is started again when it is gone
(weak fairness on its steps), as in the loops of examples/interprocess and the loom
tests; and it does not die inside every single join (strong fairness on
`ConsumerJoinStore`). Nothing is assumed of the producer, which may stop for good.
`Headless!FairSpec`: each consumer keeps polling, weak fairness only. `MaxPos` ends the
producer's pushes, so `EveryPositionIsPassed` says that `pop` is never stuck, not that it
outruns a producer that never pauses: that it needs a pause is `PopIsBounded`.
`Handshake!FairSpec`: the steps of a join that has begun are taken, and both
sides poll the other's heartbeat, as the `while !...heartbeat() {}` loops of the
example do. Nothing makes an endpoint start, beat or stay alive.
`Shmem!FairSpec`: a call that has begun goes on, and a process that was refused or has
died is started again: the faults are finite, the retries are not.
`Interprocess!MainSpec`: two processes that run (weak fairness on each main), the consumer
started by hand once the producer waits for it (`StartAfter = "constructor"`), as the
example's README tells. All of its waiting is polling, which changes no state.

### What the violations say

* The second tail load of the headless `pop` (consumer.rs:207) is not ordered after the
  slot read by its Acquire ordering. The proofs assume `Ordered` and say so. The producer's
  half has the same effect: with `StoresOrdered = FALSE` and `Ordered = TRUE`, TLC finds
  `WindowUntouched` and `PopsPushed` violated, the slot of a position in the window being
  rewritten before the tail that takes it out (producer.rs:250, :265). A seqlock needs a
  fence on both sides.
* `commit` (producer.rs:511) publishes only when a burst is waiting; its documentation says
  "Commit the reservation, publishing all written values" (producer.rs:499), and the C port
  does. From eight slots on, one committed element stays invisible until something else is
  pushed or `sync` is called: a producer that commits and then waits for an answer waits.
* lib.rs:20 shares the type between the modes "so that a user can choose to toggle
  backpressure when restarting a system". A lossless producer that pushes or reserves before
  a lossless consumer has joined finds `head` laps behind: the test for equality
  (producer.rs:239) does not hold, the subtraction of `reserve` (producer.rs:352) wraps, and
  slots are overwritten that the consumer, which joins at the tail it has loaded, then
  reads. For an application that waits for the consumer's first ack it is right, which is
  proved (`FifoAcrossModes`).
* A producer that creates the channel loads `last_consumer_heartbeat` after it has
  stored MAGIC (producer.rs:86): a consumer that joins and beats between the two is
  never noticed, and a producer that waits for it waits forever. The consumer of the
  example beats again only after it has received something, which is why one beat is
  the bound of that run. `BothEnd` fails for the same reason when the consumer may be
  started earlier (`StartAfter = "process"`).

### Other divergences met while modelling

These are not runs; the model has the code's behaviour in each case unless the text says
otherwise, and the property named is stated so that it holds of it.

* With `N = 1` the headless window `N - burst_amount` is empty: `pop` never returns
  anything, although the joins accept that capacity. The log of `HeadlessLog` then keeps
  nothing, so the refinement holds; no property asks for more.
* `write_iter` takes an item, then looks at the limit (producer.rs:489): when the
  reservation is full one item is lost (`StopsWhenDone`).
* `Consumer::join` is documented as if the caller had incremented the strong count
  (consumer.rs:118), and increments it itself (:149): whoever follows the text leaks the
  channel. Both are behaviours of `LocalPair`, and `FreedExactlyOnce` says which of them
  frees: the channel goes with its last endpoint exactly when nothing is `lost`.
* `pop` reads an element out of its slot and leaves it there (consumer.rs:188), and the
  buffer is dropped with the channel: with elements that own something (LocalMode asks
  for `Send` only, lib.rs:51) they are dropped twice. `Custody` is about the elements `pop`
  has not handed out; those it has are dropped once more than that. Nothing in the
  repository says that such elements are meant.
* `open_or_create` sizes the segment before the join compares capacities (shmem.rs:78): a
  program built for less shrinks it under the others and is refused afterwards. `Backed`
  is about programs built alike (`Alike`) and does not cover this.
* `close` unlinks whoever created the segment (shmem.rs:128), gives `shm_unlink` an id
  without its terminating zero, and only prints the failure (shmem.rs:164). `Meet` asks
  that nobody cleans up; afterwards old and new endpoints are on two segments.
* `close_shmem` in C unmaps only a null pointer (c/shmem.c:97): the mapping stays.
* The documentation of `mem_size` leaves standard pages unrounded, the code rounds
  (page_size.rs:28).
* C stores `capacity` and `magic` as plain words after the atomic stores
  (c/producer.c:71): with `ProgramOrder = FALSE`, which the language permits,
  `HeaderComplete` fails. The run and the theorems of `HandshakeC` assume `ProgramOrder`.

## Proofs

All theorems hold for every capacity `N >= 1` (the power of two is needed only for the
mask to be the modulus), every set of values and every bound on the positions.

**Lossless.** `Invariance` shows `Spec => []IInv`. `Fifo` alone is not inductive: that a
pop returns the right value rests on the slot's content, which rests on no write having
touched it, which rests on the cursors being within one ring. `IInv` adds exactly that:
`Content` (each slot from the next position to be read up to the last written one holds
what the history says), `SpaceAccounting` (cursors ordered, claimed positions within `N`
of the released head), `ProducerCursors` and `ConsumerCursors`. The one non-linear fact,
two positions less than `N` apart have different slots, is `IndexDistinct` in
`ChannelProofs`. The point that needs care is the consumer's restart: while no consumer
is attached, what was unread belongs to nobody (`ReadFrom`), since the next one starts at
the tail; `SpaceAccounting` still counts from the old head.
From `IInv` follow `TypeCorrect`, `FifoCorrect`, `SpaceAccountingCorrect`,
`HeadLagCorrect`, `NoSlotRaceCorrect` and the action property `PublishedStableCorrect`. `RefusedMeansUnreadCorrect` is the safety half of `SpaceComesBack`:
whoever has published everything and is refused up to `N - burst_amount + 1` slots is
refused because of elements the consumer has still ahead of it, never because of slots
that `maybe_sync` holds back.

**The refinement.** `ImplementsFifoCorrect` shows `Spec => ImplementsFifo`: with `pending`
the stretch of the history between the published and the producer's tail, and `queue` the
stretch between the consumer's head and the published tail, each step of the endpoints is
one of `LosslessFifo` or none. The lemmas on stretches (equal where two histories agree,
joined where they meet, head and rest) reduce each action to equations between cursors;
that the capacity is kept is `SpaceAccounting`, that the element handed out is the head of
the queue is `Content`. Writes into a reservation are beyond the producer's tail and
invisible until it commits.

**Lossless in two languages.** `CInvariance` shows `CSpec => []CIInv`. The steps that both
languages share, and those of `write_iter`, are steps of `Lossless` and keep `IInv` by the
lemmas above; the four C actions get a lemma each. What the C producer adds is a slot that
holds a value before it is counted (`FilledKept`); a consumer's step that may write a slot
(`Element::deref_mut`) writes another one, because claimed and held positions are less than
`N` apart. `write_iter` is not inductive by its own property: `IterKept` says that what the
iterator still holds is the rest of what it held, and that the call is on the reservation
it began with. From these follow `WritesInOrderCorrect` and `StopsWhenDoneCorrect`.
`MixedStep` then says where the languages differ at all: every step of either is one of
the Rust endpoints, leaves the channel alone, or is `CCommit` or `CGetNext`. With one more
lemma for each, any mixture of the languages implements the bounded FIFO
(`MixedImplementsFifo`), has no race on a slot (`MixedNoSlotRace`), and takes nothing back
(`MixedPublishedStable`).

**One region in both modes.** `BackpressureRestoredCorrect` and `FifoAcrossModes` assume
`WaitForConsumer` (without it they are false: run `toggle`) and `ToggleConstants`. `BackpressureRestored` is
inductive as stated: `IInv` of `Lossless` splits into what a headless session keeps
(`Abandoned`: the order of the cursors, nothing unpublished, nobody reading) and what the
store of `head` in the consumer's join restores. While `IInv` holds, the subtraction of
`reserve` cannot wrap (`ReserveNeverWraps`).

**The interprocess example.** `AssertionsHoldCorrect` and `AcksMeanReadCorrect` hold for
every capacity, every region in `EarlierRun` and both values of `StartAfter`: where `BothEnd`
fails because a beat is missed, the programs wait, they do not go wrong. Neither property
is inductive. `MainIInv` (in `LosslessUseProofs`) adds to `IInv` where each endpoint is when
its program is at a place, the cursors counted from where the consumer joined
(`CursorsAt`), what was pushed since (`PushedAt`), and the count of beats: what the
producer has noticed was sent after it joined (`BeatsCounted`). TLC found no state of the
run's instance, nor of N = 1, 2 and 8 with `StartAfter = "process"`, that violates it.
The programs' steps on the channel are those of `Lossless`, so `IInv` is kept by
`NextIInv`; only `UnlinkAndCreate`, which replaces the region, needs an argument of its own.

`NobodyIsStuck` is the safety half of `BothEnd`: the loops of the two programs never both
wait before both are at their end. It assumes `StartAfter = "constructor"`, which `BothEnd`
needs too, and `burst_amount = 1`, which the four slots of the programs give: from eight
slots on, the commit of the one last element would not publish it and the consumer would
wait for ever. The strengthening `EveryBeatCounts` turns the inequality of `BeatsCounted`
into an equation: no beat is lost and none is taken for two, since the consumer cannot send
the next one before the producer has noticed the last.

**The memory under the programs.** `LayoutsAgreeCorrect` and `SlotsInOrderCorrect` hold for
every width of the counters, alignment, page size, capacity and element type that satisfies
`MaskAssumption` and `LayoutAssumption`. The arithmetic is about `get_upligned_size`: it is
the only multiple that is not below the size and less than a page above it (`RoundsUp`,
`RoundedUpUnique`), so a multiple stays, the mask of C computes the same, and rounding to
the alignment first makes no difference to a page (`RoundedTwice`). For the slots,
`MaskIsIndex` shows that the mask of a counter that has wrapped is the slot of its
position, because `N` divides the range of the counter. `IInv` has the content of the slots
only from the consumer's head on, as a crash may tear the element a consumer holds; the two
programs hold none, and for them `Unreleased` extends it to the released head.

**Headless.** `IInv` says that the window of `N - burst_amount` positions below the tail,
and the unpublished burst above it, hold what was pushed (`Content`), and that what a
consumer has read is right as long as its head is still inside the window
(`ReadIsValid`): a tail that has not passed the window proves that the producer had not
reached the slot, because it publishes before it starts an element beyond the burst
(`ProducerCursors`). That it publishes before, in the eyes of the others, is
`StoresOrdered`, which every theorem here assumes. From `IInv`: `PopsPushedCorrect`
(assuming `Ordered` too), `WindowUntouchedCorrect`, `NoDuplicateCorrect` (a head never goes
back and stays in its class, and the position returned is the head) and
`SkipsOnlyOverrunCorrect` (with the lemmas on `next_modulo`).

`ImplementsLogCorrect` (assuming `Ordered`) shows `Spec => ImplementsLog`: seen from outside,
a pop that reads, checks and retries hands out an element of `HeadlessLog` in one step. The
published part of the history is the log, what the producer has written since is `pending`,
and the step that counts is the one with the second load of the tail, `PopReturn`: there
`ReadIsValid` says that the value is the log's and the window that the log still keeps it.
The retries map to `CatchUp`, which takes a cursor to the oldest element of its share that
is kept, no further; all other steps of `pop`, and half-written slots, are invisible.
`PopIsBoundedCorrect` is the safety half of `EveryPositionIsPassed`: `StepsLeft` bounds the
steps a pop still needs, each of its steps makes it smaller, and only a publication can
make it larger: a reset puts the head back inside the window (`ResetIsInside`).

**Handshake.** `HandshakeProofs` proves `HeaderCompleteCorrect`,
`CapacityErrorIsTrueCorrect`, `BeatsAddUpCorrect` and `HeaderStableCorrect` for every set
of capacities and every bound on the beats. The strengthening is `HeaderFacts`: before
MAGIC only an absent or an initialising producer exists and no consumer is past its first
load, and when the last store is due the capacity word is the producer's own. With
`CursorsOrdered` (a joined producer's tail is the published one) it gives the stability
of the header.

**The header in two languages.** `HandshakeCProofs` shows that the mixed endpoints implement
`Handshake` (`ImplementsHandshakeCorrect`), assuming `ProgramOrder`. The C code has one
place where the Rust code has three, so the mapping `Place` reads the producer's place off
the stores that are left; `StoresLeft` says which those can be. The store of `head` that C
adds finds a zero and maps to no step. The lemmas of `HandshakeProofs` are instantiated
under the same mapping, which gives `MixedInvariance`, `MixedHeaderComplete`,
`MixedCapacityErrorIsTrue`, `MixedBeatsAddUp` and `MixedHeaderStable` without a second proof
of the invariant.

**In-process pairs.** For any finite set of consumers and any number of joins and
elements. `CountExact` is inductive as stated: the count is one for each living endpoint,
one for the constructor before it releases its own, and one for each that was lost to a
panic or to a caller that counted beforehand;
`OneMore` and `OneLess` are the cardinality facts. `NoUseAfterFreeCorrect` and
`FreedExactlyOnceCorrect` follow from it for the steps of both modules. `CustodyCorrect`
uses it once, for the step that frees: no endpoint is left to write a slot afterwards.
`ElementTypes` is the strengthening: elements not yet made are nowhere.

**Shared memory.** For one producer, any consumers, capacities, page sizes and numbers of
faults.
`Backed` carries its strengthening (sizes are 0 or the one size needed, and whoever is
about to map a standard segment has seen it sized), `OnSegment` says that everybody past
the open is on a segment, and `CapacityAgreed` is inductive with both because a header is
written once, by the one producer, and no resize reaches it: what is needed for a channel
is never less than its header (`NeedPositive`). The arithmetic is that rounding up is not
below what is rounded and the same for the same capacity.

Only model-checked: liveness (`PublishedIsConsumed`, `SpaceComesBack`,
`EveryPositionIsPassed`, `Meet`, `BothEnd`), which is out of the prover's reach; of three of
them the safety half is proved. That `&` is what `MaskAssumption` says is evaluated by TLC
for ten bits: the operator is recursive, and its induction is out of reach too.

## Not modelled

* C reservations used against their order: two at a time, a second commit, more slots
  filled than reserved. Nothing in C prevents them; in Rust ownership does.
* Counters of 32 bits that wrap: with a number of consumers that is no power of two
  `next_modulo` then changes classes.
* The kinds of `ShmemError`, c/util.c (arguments of the programs) and all printing.
* Padded atomics and the loom alias: an atomic word is what the variables are.
* Tests, the other examples and the benchmarks: drivers that push and pop in a loop;
  utils.rs, which is not compiled.
