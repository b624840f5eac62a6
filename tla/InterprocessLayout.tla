------------------------- MODULE InterprocessLayout -------------------------
(***************************************************************************)
(* The programs of Interprocess on the memory of Layout: either of them    *)
(* may be the C or the Rust one, so what one puts into the segment is what *)
(* the other must find there.                                              *)
(***************************************************************************)
EXTENDS Interprocess, Layout

\* assert!(N.is_power_of_two()): the mask of the ring is the one of Layout.
ASSUME RingAssumption == N \in PowersOfTwo

\* "Channel struct matching Rust layout exactly" (c/spsc.c): either program may
\* be the C one or the Rust one, so whoever finds the magic number finds the
\* other fields and the buffer where the other language has put them, in a
\* segment of the size it would have asked for itself.
LayoutsAgree == magic => SameLayout

\* The masks of the two languages lead to what was published: each element not
\* yet released is in the slot its position is masked to, wherever the counters
\* of a run started, also where they wrap around between head and tail.
SlotsInOrder ==
  \A i \in head .. tail - 1, lap \in 0 .. (UsizeRange \div N) - 1 :
    buffer[RingSlot((lap * N) + i, N)] = log[i + 1]

=============================================================================
