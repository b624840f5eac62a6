------------------------------ MODULE MCLocal -------------------------------
(* An in-process pair and its elements, on small instances.                *)
EXTENDS LocalElements

=============================================================================
