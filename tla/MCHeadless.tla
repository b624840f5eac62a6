----------------------------- MODULE MCHeadless -----------------------------
(* The headless channel on small instances.                                *)
EXTENDS Headless, TLC

\* Every definition treats the elements of Values alike.
ValueSymmetry == Permutations(Values)

=============================================================================
