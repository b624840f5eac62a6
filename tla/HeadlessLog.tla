----------------------------- MODULE HeadlessLog -----------------------------
(***************************************************************************)
(* What the headless channel promises, without slots, windows to check or  *)
(* retries: a log that only grows and of which the last Retained elements  *)
(* can still be read.  Interval readers share its positions out, reader c  *)
(* those that are c modulo Interval.  A reader is given the element at its *)
(* cursor in one indivisible step, and a cursor that the log has outrun    *)
(* moves up to the oldest element of its share that is still kept.         *)
(***************************************************************************)
EXTENDS Integers, Sequences

CONSTANTS
  Interval,   \* how many readers share the log
  Elements,   \* the elements of the log
  Retained,   \* how many published elements can still be read
  Burst,      \* how many elements may wait for publication
  Nothing     \* what a reader was given that has been given nothing

VARIABLES
  published,  \* the log
  pending,    \* appended by the producer, not yet published
  cursor,     \* each reader's next position, Absent if there is no reader
  given       \* the position and the element each share was given last

vars == <<published, pending, cursor, given>>

Absent  == -1
Readers == 0 .. Interval - 1

Init ==
  /\ published = <<>> /\ pending = <<>>
  /\ cursor = [c \in Readers |-> Absent]
  /\ given = [c \in Readers |-> Nothing]

\* push: nothing but the burst limits the producer.
Accept(e) ==
  /\ Len(pending) < Burst
  /\ pending' = Append(pending, e)
  /\ UNCHANGED <<published, cursor, given>>

\* sync, called or by push after a burst.
Publish ==
  /\ published' = published \o pending
  /\ pending' = <<>>
  /\ UNCHANGED <<cursor, given>>

\* A new producer: what the last one had not published is gone.
ProducerRestart ==
  /\ pending' = <<>>
  /\ UNCHANGED <<published, cursor, given>>

\* Reader c goes to the first position of its share from p on.
MoveTo(c, p) ==
  /\ \E q \in p .. p + Interval - 1 :
       q % Interval = c /\ cursor' = [cursor EXCEPT ![c] = q]
  /\ UNCHANGED <<published, pending, given>>

\* A reader starts with what is published after it has come.
Join(c) ==
  /\ cursor[c] = Absent
  /\ MoveTo(c, Len(published))

Leave(c) ==
  /\ cursor' = [cursor EXCEPT ![c] = Absent]
  /\ UNCHANGED <<published, pending, given>>

\* pop returns Some: a published element that is still kept.
Give(c) ==
  /\ cursor[c] # Absent
  /\ cursor[c] < Len(published) /\ Len(published) <= cursor[c] + Retained
  /\ given' = [given EXCEPT ![c] = [pos |-> cursor[c],
                                    val |-> published[cursor[c] + 1]]]
  /\ cursor' = [cursor EXCEPT ![c] = @ + Interval]
  /\ UNCHANGED <<published, pending>>

\* pop finds itself outrun.
CatchUp(c) ==
  /\ cursor[c] # Absent
  /\ Len(published) > cursor[c] + Retained
  /\ MoveTo(c, Len(published) - Retained)

Next ==
  \/ Publish \/ ProducerRestart
  \/ \E e \in Elements : Accept(e)
  \/ \E c \in Readers : Join(c) \/ Leave(c) \/ Give(c) \/ CatchUp(c)

Spec == Init /\ [][Next]_vars

=============================================================================
