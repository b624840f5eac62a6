--------------------------- MODULE MCInterprocess ---------------------------
(* The programs of examples/interprocess and c/ with their capacity, and   *)
(* the layout that those of two languages share, on a small machine.       *)
EXTENDS InterprocessLayout, Bitwise

MCBitAnd(x, y) == x & y

=============================================================================
