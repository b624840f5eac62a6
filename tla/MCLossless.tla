----------------------------- MODULE MCLossless -----------------------------
(* The lossless channel on small instances.                                *)
EXTENDS Lossless, TLC

\* Every definition treats the elements of Values alike.
ValueSymmetry == Permutations(Values)

=============================================================================
