----------------------------- MODULE WriteIter ------------------------------
(***************************************************************************)
(* Reservation::write_iter: the lossless channel, and an application that  *)
(* fills reservations from an iterator it keeps (write_iter borrows it).   *)
(* Each turn of the loop is a step, so the consumer runs in between and    *)
(* the producer may die in the middle of a call.                           *)
(***************************************************************************)
EXTENDS Lossless

CONSTANT MaxItems     \* bound: the items of an iterator

ASSUME MaxItemsAssumption == MaxItems \in Nat

VARIABLES
  ipc,            \* "none", or "loop": inside write_iter
  iter,           \* what the iterator still holds
  start_written,  \* Reservation.written when the call began
  items           \* history: what it held when the call began

iterator == <<ipc, iter, start_written, items>>
iterVars == <<vars, iterator>>

IterInit ==
  /\ Init
  /\ ipc = "none" /\ iter = <<>> /\ start_written = 0 /\ items = <<>>

\* The items the call has taken, and how many it has written.
Taken   == Len(items) - Len(iter)
Written == rwritten - start_written

\* The call, with a new iterator or with the one an earlier call left.
WriteIterCall(its) ==
  /\ ppc = "reserved" /\ ipc = "none"
  /\ ipc' = "loop"
  /\ iter' = its /\ items' = its
  /\ start_written' = rwritten
  /\ UNCHANGED vars

\* Mutant: the loop does not advance past the item it has written.
WriteIterTurnRepeats ==
  /\ ipc = "loop" /\ iter # <<>> /\ rwritten < rcount
  /\ WriteNext(items[1])
  /\ iter' = Tail(iter)
  /\ UNCHANGED <<ipc, start_written, items>>

\* A turn of the loop: the iterator hands out an item, which is written.
WriteIterTurn ==
  /\ ipc = "loop" /\ iter # <<>> /\ rwritten < rcount
  /\ WriteNext(Head(iter))
  /\ iter' = Tail(iter)
  /\ UNCHANGED <<ipc, start_written, items>>

\* Mutant: the limit is taken for one less than it is.
WriteIterBreakEarly ==
  /\ ipc = "loop" /\ iter # <<>> /\ rwritten + 1 >= rcount
  /\ ipc' = "none"
  /\ iter' = Tail(iter)
  /\ UNCHANGED <<vars, start_written, items>>

\* The last turn when the reservation is full: the item the iterator has
\* handed out by then is dropped.
WriteIterBreak ==
  /\ ipc = "loop" /\ iter # <<>> /\ rwritten >= rcount
  /\ ipc' = "none"
  /\ iter' = Tail(iter)
  /\ UNCHANGED <<vars, start_written, items>>

\* The iterator is exhausted.
WriteIterEnd ==
  /\ ipc = "loop" /\ iter = <<>>
  /\ ipc' = "none"
  /\ UNCHANGED <<vars, iter, start_written, items>>

\* The producer dies in the middle of the call, and the iterator with it.
WriteIterCrash ==
  /\ ipc = "loop" /\ ProducerCrash
  /\ ipc' = "none" /\ iter' = <<>> /\ items' = <<>> /\ start_written' = 0

\* What a producer with an iterator does: a call goes on until it is done.
IterProducerNext ==
  \/ \E k \in 0 .. MaxItems : \E its \in [1 .. k -> Values] : WriteIterCall(its)
  \/ WriteIterCall(iter)
  \/ WriteIterTurn \/ WriteIterBreak \/ WriteIterEnd \/ WriteIterCrash
  \/ ipc = "none" /\ ProducerNext /\ UNCHANGED iterator

-----------------------------------------------------------------------------
\* What the call has written so far, directly behind what the reservation held
\* before, are the iterator's items in their order, whatever the consumer did
\* meanwhile; and the reservation's limit is kept without write_next's panic.
WritesInOrder ==
  ipc = "loop" =>
    /\ Taken = Written /\ rwritten <= rcount
    /\ \A i \in 1 .. Written : log[ptail + start_written + i] = items[i]

\* write_iter returns with the iterator exhausted and all its items written, or
\* with every reserved slot written; the iterator then lost at most the one item
\* that the loop takes before it looks at the limit ("Stops when the reservation
\* is full or the iterator is exhausted").
StopsWhenDone ==
  [][ipc = "loop" /\ ipc' = "none" /\ ppc' = "reserved"
       => \/ iter = <<>> /\ Taken' = Written
          \/ rwritten = rcount /\ Taken' = Written + 1]_iterVars

=============================================================================
