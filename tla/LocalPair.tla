----------------------------- MODULE LocalPair ------------------------------
(***************************************************************************)
(* Who frees the channel of an in-process pair (LocalMode): lossless_pair, *)
(* headless_pair and headless_multi allocate it in an Arc, each join adds  *)
(* one to the strong count, and each endpoint takes one off when dropped.  *)
(* The endpoints live in threads of their own, and a dropped one may be    *)
(* joined again through the raw pointer while another still lives          *)
(* (test_restart_producer).                                                *)
(***************************************************************************)
EXTENDS Naturals, FiniteSets

CONSTANTS
  producer,          \* the producer's handle
  Consumers,         \* the consumers' handles
  MaxJoins           \* bound: the joins through the raw pointer

ASSUME HandlesAssumption ==
  IsFiniteSet(Consumers) /\ Consumers # {} /\ producer \notin Consumers
ASSUME LocalPairAssumption == MaxJoins \in Nat

VARIABLES
  mem,       \* the channel: "none", "live", "freed"
  strong,    \* the strong count of its Arc
  ctor,      \* the constructor: "alloc", "producer", "consumers", "done",
             \* "panic"
  handle,    \* each handle: "none", "joining", "live", "dropping", "gone"
  keeper,    \* whose life the caller of a join relies on
  joins,     \* joins through the raw pointer so far
  lost       \* history: counts nobody is left to take off

vars == <<mem, strong, ctor, handle, keeper, joins, lost>>

Handles == {producer} \cup Consumers
InState(s) == {h \in Handles : handle[h] = s}

\* The count does not go below zero and the handles go through their states.
TypeOK ==
  /\ mem \in {"none", "live", "freed"} /\ strong \in Nat
  /\ ctor \in {"alloc", "producer", "consumers", "done", "panic"}
  /\ handle \in [Handles -> {"none", "joining", "live", "dropping", "gone"}]
  /\ keeper \in [Handles -> Handles] /\ joins \in Nat /\ lost \in Nat

Init ==
  /\ mem = "none" /\ strong = 0 /\ ctor = "alloc"
  /\ handle = [h \in Handles |-> "none"]
  /\ keeper = [h \in Handles |-> h] /\ joins = 0 /\ lost = 0

-----------------------------------------------------------------------------
(***************************************************************************)
(* The constructors.                                                       *)
(***************************************************************************)

\* Arc::new_uninit, into_raw and the zeroing: the constructor owns one count.
Allocate ==
  /\ ctor = "alloc" /\ ctor' = "producer"
  /\ mem' = "live" /\ strong' = 1
  /\ UNCHANGED <<handle, keeper, joins, lost>>

\* join_or_initialize_in_ on the zeroed channel: initialised and counted.
MakeProducer ==
  /\ ctor = "producer" /\ ctor' = "consumers"
  /\ strong' = strong + 1
  /\ handle' = [handle EXCEPT ![producer] = "live"]
  /\ UNCHANGED <<mem, keeper, joins, lost>>

\* One turn of the loop over the consumers: join, or join_multi_.
MakeConsumer(c) ==
  /\ ctor = "consumers" /\ handle[c] = "none"
  /\ strong' = strong + 1
  /\ handle' = [handle EXCEPT ![c] = "live"]
  /\ UNCHANGED <<mem, ctor, keeper, joins, lost>>

\* The assertions of the joins fail (capacity, number of consumers): before the
\* producer exists, or before the first consumer does, when unwinding drops the
\* producer.  The constructor's own count is never taken off.
Panic ==
  /\ ctor = "producer" \/ (ctor = "consumers" /\ InState("live") = {producer})
  /\ ctor' = "panic" /\ lost' = lost + 1
  /\ IF ctor = "consumers"
     THEN strong' = strong - 1 /\ handle' = [handle EXCEPT ![producer] = "gone"]
     ELSE UNCHANGED <<strong, handle>>
  /\ UNCHANGED <<mem, keeper, joins>>

\* Mutant: the constructor forgets its own count.
ReleaseForgotten ==
  /\ ctor = "consumers" /\ \A c \in Consumers : handle[c] = "live"
  /\ ctor' = "done"
  /\ UNCHANGED <<mem, strong, handle, keeper, joins, lost>>

\* decrement_strong_count, and the pair is handed out.
Release ==
  /\ ctor = "consumers" /\ \A c \in Consumers : handle[c] = "live"
  /\ ctor' = "done"
  /\ strong' = strong - 1
  /\ UNCHANGED <<mem, handle, keeper, joins, lost>>

-----------------------------------------------------------------------------
(***************************************************************************)
(* Drop, in any thread and any order, and joining again.                   *)
(***************************************************************************)

\* Mutant: the endpoint goes and its count stays.
DropKeepsCount(h) ==
  /\ ctor = "done" /\ handle[h] = "live"
  /\ \A j \in InState("joining") : keeper[j] # h
  /\ handle' = [handle EXCEPT ![h] = "gone"]
  /\ UNCHANGED <<mem, strong, ctor, keeper, joins, lost>>

\* drop(Arc::from_raw(..)), first half: one off the count.  Whoever takes the
\* last one goes on to free the channel.  The caller of a join in progress
\* keeps the handle it relies on.
Drop(h) ==
  /\ ctor = "done" /\ handle[h] = "live"
  /\ \A j \in InState("joining") : keeper[j] # h
  /\ strong' = strong - 1
  /\ handle' = [handle EXCEPT ![h] = IF strong = 1 THEN "dropping" ELSE "gone"]
  /\ UNCHANGED <<mem, ctor, keeper, joins, lost>>

\* Second half: the memory goes back.
Free(h) ==
  /\ handle[h] = "dropping"
  /\ handle' = [handle EXCEPT ![h] = "gone"]
  /\ mem' = "freed"
  /\ UNCHANGED <<strong, ctor, keeper, joins, lost>>

\* What the caller of a join adds to the count beforehand: Consumer::join asks
\* for "a region allocated by an Arc with the strong count already incremented!"
\* (lossless/consumer.rs:118), and the caller may or may not do so.
CountedBefore(h) == IF h \in Consumers THEN {0, 1} ELSE {0}

\* join_ or Consumer::join with the raw pointer of a channel that handle k
\* keeps alive: the header is read first.  The join counts the endpoint itself,
\* so nobody ever takes off what the caller has counted.
Rejoin(h, k) ==
  /\ ctor = "done" /\ handle[h] = "gone" /\ handle[k] = "live"
  /\ joins < MaxJoins
  /\ joins' = joins + 1
  /\ handle' = [handle EXCEPT ![h] = "joining"]
  /\ keeper' = [keeper EXCEPT ![h] = k]
  /\ \E counted \in CountedBefore(h) :
       strong' = strong + counted /\ lost' = lost + counted
  /\ UNCHANGED <<mem, ctor>>

\* Mutant: an endpoint that joins again takes the place, and the count, of the
\* one that was dropped.
RejoinCountUncounted(h) ==
  /\ handle[h] = "joining"
  /\ handle' = [handle EXCEPT ![h] = "live"]
  /\ UNCHANGED <<mem, strong, ctor, keeper, joins, lost>>

\* increment_strong_count, and the endpoint is there.
RejoinCount(h) ==
  /\ handle[h] = "joining"
  /\ strong' = strong + 1
  /\ handle' = [handle EXCEPT ![h] = "live"]
  /\ UNCHANGED <<mem, ctor, keeper, joins, lost>>

Next ==
  \/ Allocate \/ MakeProducer \/ Panic \/ Release
  \/ \E c \in Consumers : MakeConsumer(c)
  \/ \E h \in Handles : Drop(h) \/ Free(h) \/ RejoinCount(h)
  \/ \E h, k \in Handles : Rejoin(h, k)

Spec == Init /\ [][Next]_vars

-----------------------------------------------------------------------------
\* Whoever may touch the channel - a living endpoint, a join in progress, the
\* constructor - finds it allocated: whichever endpoint is dropped last, in
\* whatever thread, and however often one has joined again.
NoUseAfterFree ==
  InState("live") \cup InState("joining") \cup InState("dropping") # {}
    \/ ctor \in {"producer", "consumers"}
    => mem = "live"

\* The channel is freed once: at most one endpoint is about to free it, when
\* nobody else lives or is counted.  When the last endpoint of a pair is gone it
\* has been freed, unless some caller did as the doc of Consumer::join says and
\* incremented the count beforehand: join increments it again
\* (lossless/consumer.rs:149), and the channel is never freed.
FreedExactlyOnce ==
  /\ InState("dropping") # {} => /\ Cardinality(InState("dropping")) = 1
                                 /\ strong = 0 /\ InState("live") = {}
  /\ ctor = "done" /\ (\A h \in Handles : handle[h] = "gone")
       => (mem = "freed" <=> lost = 0)

\* The constructor makes the endpoints one after the other, and nobody joins
\* again or is dropped before it has handed them out.
Stages ==
  /\ ctor \in {"alloc", "producer"} => \A h \in Handles : handle[h] = "none"
  /\ ctor = "consumers" => /\ handle[producer] = "live"
                           /\ \A h \in Handles : handle[h] \in {"none", "live"}
  /\ ctor = "done"  => \A h \in Handles : handle[h] # "none"
  /\ ctor = "panic" => \A h \in Handles : handle[h] \in {"none", "gone"}
  /\ ctor \notin {"panic", "done"} => lost = 0

\* The endpoints the count is of.
Living == Cardinality(InState("live"))

\* The strong count is the number of endpoints, of the counts that a panic or
\* the caller of a join has left behind, and of the constructor's own; the
\* channel is there exactly as long as the count is not zero or the last one is
\* being taken off: the invariant behind the others.
CountExact ==
  /\ TypeOK /\ Stages
  /\ strong = Living + lost + (IF ctor \in {"producer", "consumers"} THEN 1 ELSE 0)
  /\ mem = "none" <=> ctor = "alloc"
  /\ mem = "freed" => strong = 0 /\ \A h \in Handles : handle[h] # "dropping"
  /\ mem = "live" /\ strong = 0 => \E h \in Handles : handle[h] = "dropping"
  /\ \A h \in Handles : handle[h] = "dropping" =>
       strong = 0 /\ \A g \in Handles : handle[g] = "dropping" => g = h
  /\ \A j \in Handles : handle[j] = "joining" => handle[keeper[j]] = "live"

=============================================================================
