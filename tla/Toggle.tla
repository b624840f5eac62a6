------------------------------- MODULE Toggle -------------------------------
(***************************************************************************)
(* One region, restarted in the other mode.  Channel is "shared by both    *)
(* the headless/lossless channel so that a user can choose to toggle       *)
(* backpressure when restarting a system" (que/src/lib.rs).  The headless  *)
(* endpoints never store head, so a headless session leaves it any number  *)
(* of laps behind tail; the lossless endpoints of Lossless then find the   *)
(* region in a state that they never produce themselves.                   *)
(***************************************************************************)
EXTENDS Lossless

CONSTANTS
  MaxSession,       \* bound: the elements of one headless session
  Width,            \* usize has Width bits
  WaitForConsumer   \* the application pushes only to a consumer that joined

\* The values the constants may have: a hypothesis of the theorems.
ToggleConstants ==
  /\ MaxSession \in Nat /\ WaitForConsumer \in BOOLEAN
  /\ Width \in Nat /\ 2^Width > MaxPos + MaxSession + N

VARIABLE adopted    \* a lossless consumer joined since the last session

toggleVars == <<vars, adopted>>

ToggleInit == Init /\ adopted = TRUE

\* A headless producer and its consumers run and stop: the header is there,
\* tail has moved on with no regard to head, and nobody may count on what the
\* slots hold.  Its cursors are the last the region has seen.
HeadlessSession(elements) ==
  /\ ppc = "down" /\ cpc = "down"
  /\ tail + Len(elements) <= MaxPos
  /\ magic' = TRUE
  /\ tail' = tail + Len(elements)
  /\ buffer' = [i \in Slots |-> Junk]
  /\ ptail' = tail' /\ pwritten' = 0 /\ rcount' = 0 /\ rwritten' = 0
  /\ log' = SubSeq(log, 1, tail) \o elements
  /\ adopted' = FALSE
  /\ UNCHANGED <<head, ppc, consumer, got, cstart>>

\* reserve when tail - head exceeds N, as it does after a session and before a
\* consumer has joined: N - (tail - head) wraps around to a huge number and the
\* reservation is granted.  (With overflow checks it panics, which is
\* ProducerCrash.)
ReserveWraps(count) ==
  /\ ppc = "idle" /\ ptail + count <= MaxPos
  /\ AvailableSpace < 0
  /\ count <= AvailableSpace % 2^Width
  /\ ppc' = "reserved" /\ rcount' = count /\ rwritten' = 0
  /\ UNCHANGED <<shared, ptail, pwritten, consumer, history>>

\* A step of the lossless endpoints.  An application that waits for the
\* consumer's first ack, as the one of examples/interprocess does, enters
\* neither push nor reserve before; the channel asks nobody to.
LosslessStep ==
  /\ Next \/ \E count \in 1 .. N : ReserveWraps(count)
  /\ WaitForConsumer /\ ~adopted => ppc' \in {"down", "idle"}
  /\ adopted' = (adopted \/ (cpc = "joining" /\ cpc' = "idle"))

ToggleNext ==
  \/ LosslessStep
  \/ \E k \in 1 .. MaxSession : \E es \in [1 .. k -> Values] :
       HeadlessSession(es)

ToggleSpec == ToggleInit /\ [][ToggleNext]_toggleVars

\* What a session leaves to endpoints that wait for each other, until a
\* consumer has stored head: nothing unpublished and nobody reading.  Head may
\* be any number of laps behind.
Abandoned ==
  /\ TypeOK /\ Fifo /\ magic
  /\ ppc \in {"down", "idle"} /\ cpc \in {"down", "joining"}
  /\ ptail = tail /\ pwritten = 0 /\ rcount = 0 /\ rwritten = 0
  /\ Len(log) = tail
  /\ cstart <= chead /\ head <= chead /\ chead <= tail
  /\ cpc = "joining" => chead = tail

\* For an application that waits: once a lossless consumer has joined after a
\* headless session, everything the lossless channel relies on holds again, the
\* cursors within one ring of each other included, however far the session went
\* and whoever crashes in between.  Its store of head restores the backpressure.
BackpressureRestored == IF adopted THEN IInv ELSE Abandoned

=============================================================================
