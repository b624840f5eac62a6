---------------------------- MODULE LosslessFifo ----------------------------
(***************************************************************************)
(* What the lossless channel promises, without indices, slots or bursts: a *)
(* bounded FIFO with a publication step.  Elements are accepted, published *)
(* together, and taken in order.  A producer that restarts forgets what it *)
(* had not published; a consumer that joins starts from an empty queue.    *)
(***************************************************************************)
EXTENDS Naturals, Sequences

CONSTANTS
  Capacity,   \* how many accepted elements may wait
  Elements    \* the elements of the channel

VARIABLES
  pending,    \* accepted, not yet published
  queue,      \* published, not yet taken
  taken       \* taken since the consumer joined, oldest first

vars == <<pending, queue, taken>>

Init == pending = <<>> /\ queue = <<>> /\ taken = <<>>

\* push, or commit of a reservation: never more than the channel holds.
Accept(es) ==
  /\ Len(queue) + Len(pending) + Len(es) <= Capacity
  /\ pending' = pending \o es
  /\ UNCHANGED <<queue, taken>>

\* sync, alone or at the end of a commit.
AcceptAndPublish(es) ==
  /\ Len(queue) + Len(pending) + Len(es) <= Capacity
  /\ queue' = queue \o pending \o es
  /\ pending' = <<>>
  /\ UNCHANGED taken

\* pop, or the end of a zero-copy element.
Take ==
  /\ queue # <<>>
  /\ taken' = Append(taken, Head(queue))
  /\ queue' = Tail(queue)
  /\ UNCHANGED pending

\* The holder of a zero-copy element updates it in place.
Amend(e) ==
  /\ queue # <<>>
  /\ queue' = <<e>> \o Tail(queue)
  /\ UNCHANGED <<pending, taken>>

ProducerRestart ==
  /\ pending' = <<>>
  /\ UNCHANGED <<queue, taken>>

ConsumerRestart ==
  /\ queue' = <<>> /\ taken' = <<>>
  /\ UNCHANGED pending

Next ==
  \/ Take \/ ProducerRestart \/ ConsumerRestart
  \/ \E e \in Elements : Amend(e)
  \/ \E k \in 0 .. Capacity : \E es \in [1 .. k -> Elements] :
       Accept(es) \/ AcceptAndPublish(es)

Spec == Init /\ [][Next]_vars

=============================================================================
