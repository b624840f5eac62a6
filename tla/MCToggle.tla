------------------------------ MODULE MCToggle ------------------------------
(* A region that changes modes, on small instances.                        *)
EXTENDS Toggle, TLC

\* Every definition treats the elements of Values alike.
ValueSymmetry == Permutations(Values)

=============================================================================
