---------------------------- MODULE MCLosslessC -----------------------------
(* C and Rust endpoints on one channel, on small instances.                *)
EXTENDS LosslessC, TLC

\* Every definition treats the elements of Values alike.
ValueSymmetry == Permutations(Values)

=============================================================================
