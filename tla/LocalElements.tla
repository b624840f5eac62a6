--------------------------- MODULE LocalElements ----------------------------
(***************************************************************************)
(* Who drops the elements of an in-process lossless channel, on top of who *)
(* frees it (LocalPair with one consumer).  LocalMode asks only T: Send of *)
(* the elements, so they may own something: writing a slot by assignment   *)
(* drops what the slot held, freeing the channel drops its whole buffer,   *)
(* and pop copies an element out (ptr::read) without taking it from the    *)
(* slot, while pop_zerocopy leaves it there.  A consumer that joins again  *)
(* starts at the tail and leaves what was unread where it is.              *)
(*                                                                         *)
(* Pushes and pops are atomic and released at once here; that they do not  *)
(* get in each other's way is what Lossless shows.                         *)
(***************************************************************************)
EXTENDS LocalPair, Channel

CONSTANT MaxElements   \* bound: the elements ever made, and the positions

ASSUME MaxElementsAssumption == MaxElements \in Nat

VARIABLES
  slot,      \* what each slot holds: an element, or 0 for zeroed memory
  tail,      \* Producer.tail
  head,      \* Consumer.head
  made,      \* elements the application has made, numbered from 1
  owned,     \* elements the application holds
  drops,     \* how often each element was dropped
  popped     \* history: the elements pop has handed out

elements    == <<slot, tail, head, made, owned, drops, popped>>
elementVars == <<vars, elements>>

Elements == 1 .. MaxElements

ElementsInit ==
  /\ Init
  /\ slot = [i \in Slots |-> 0] /\ tail = 0 /\ head = 0
  /\ made = 0 /\ owned = {}
  /\ drops = [e \in Elements |-> 0] /\ popped = {}

\* Threads use the endpoints of a pair that was handed out.
Live(h)  == ctor = "done" /\ handle[h] = "live"
Consumer == \E c \in Consumers : Live(c)

\* The application makes an element that it will send.
Make ==
  /\ Live(producer) /\ made < MaxElements
  /\ made' = made + 1 /\ owned' = owned \cup {made'}
  /\ UNCHANGED <<vars, slot, tail, head, drops, popped>>

\* Dropping the old content of a set of slots: zeroed memory counts for none.
DropContent(is) ==
  [e \in Elements |-> IF \E i \in is : slot[i] = e THEN drops[e] + 1 ELSE drops[e]]

\* Mutant: the value is written without dropping the old one (ptr::write).
WriteSlotNoDrop(p, e) ==
  /\ slot' = [slot EXCEPT ![Index(p)] = e]
  /\ owned' = owned \ {e}
  /\ drops' = drops

\* *buffer.add(index) = value: the element moves into the slot of p.
WriteSlot(p, e) ==
  /\ slot' = [slot EXCEPT ![Index(p)] = e]
  /\ owned' = owned \ {e}
  /\ drops' = DropContent({Index(p)})

\* push, or write_next and commit, where there is room.
Push(e) ==
  /\ Live(producer) /\ tail < MaxElements
  /\ tail # head + N
  /\ WriteSlot(tail, e)
  /\ tail' = tail + 1
  /\ UNCHANGED <<vars, head, made, popped>>

\* write_next in a reservation that is then cancelled.
WriteCancelled(e) ==
  /\ Live(producer) /\ tail # head + N
  /\ WriteSlot(tail, e)
  /\ UNCHANGED <<vars, tail, head, made, popped>>

\* pop: the caller gets an element, and the slot still holds it.
Pop ==
  /\ Consumer /\ head < tail
  /\ owned' = owned \cup {slot[Index(head)]}
  /\ popped' = popped \cup {slot[Index(head)]}
  /\ head' = head + 1
  /\ UNCHANGED <<vars, slot, tail, made, drops>>

\* pop_zerocopy and the end of the Element: nothing is moved or dropped.
PopZerocopy ==
  /\ Consumer /\ head < tail
  /\ head' = head + 1
  /\ UNCHANGED <<vars, slot, tail, made, owned, drops, popped>>

\* The application drops an element it holds.
ApplicationDrop(e) ==
  /\ e \in owned
  /\ owned' = owned \ {e}
  /\ drops' = [drops EXCEPT ![e] = @ + 1]
  /\ UNCHANGED <<vars, slot, tail, head, made, popped>>

\* The Arc frees the channel, and the buffer is dropped with it, every slot.
FreeElements(h) ==
  /\ Free(h)
  /\ drops' = DropContent(Slots)
  /\ UNCHANGED <<slot, tail, head, made, owned, popped>>

\* A consumer that joins starts at the tail; a producer goes on there.
JoinAtTail(h) ==
  /\ RejoinCount(h)
  /\ head' = IF h \in Consumers THEN tail ELSE head
  /\ UNCHANGED <<slot, tail, made, owned, drops, popped>>

\* The other steps of the pair.
PairStep ==
  /\ \/ Allocate \/ MakeProducer \/ Panic \/ Release
     \/ \E c \in Consumers : MakeConsumer(c)
     \/ \E h \in Handles : Drop(h)
     \/ \E h, k \in Handles : Rejoin(h, k)
  /\ UNCHANGED elements

ElementsNext ==
  \/ PairStep \/ Make \/ Pop \/ PopZerocopy
  \/ \E h \in Handles : FreeElements(h) \/ JoinAtTail(h)
  \/ \E e \in owned : Push(e) \/ WriteCancelled(e) \/ ApplicationDrop(e)

ElementsSpec == ElementsInit /\ [][ElementsNext]_elementVars

-----------------------------------------------------------------------------
\* The elements keep their types, those not made yet are nowhere, and none is
\* made before there is a channel.
ElementTypes ==
  /\ made \in 0 .. MaxElements /\ (mem = "none" => made = 0)
  /\ tail \in Nat /\ head \in Nat
  /\ slot \in [Slots -> 0 .. made] /\ owned \subseteq 0 .. made
  /\ drops \in [Elements -> Nat]
  /\ \A e \in Elements : e > made => drops[e] = 0

InRing(e) == mem = "live" /\ \E i \in Slots : slot[i] = e

\* An element that pop has not handed out is in exactly one place: with the
\* application, in one slot of the ring - unread, read in place, skipped by a
\* consumer that joined again, cancelled - or dropped, once.  So what
\* pop_zerocopy, cancel, the restarts and the end of the channel leave behind
\* is neither dropped twice nor forgotten.
Custody ==
  /\ ElementTypes
  /\ \A e \in (1 .. made) \ popped :
       \/ e \in owned /\ ~InRing(e) /\ drops[e] = 0
       \/ e \notin owned /\ InRing(e) /\ drops[e] = 0
       \/ e \notin owned /\ ~InRing(e) /\ drops[e] = 1
  /\ mem = "live" => \A i, j \in Slots :
       slot[i] = slot[j] /\ slot[i] \notin popped \cup {0} => i = j

=============================================================================
