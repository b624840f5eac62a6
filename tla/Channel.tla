------------------------------ MODULE Channel ------------------------------
(***************************************************************************)
(* The arithmetic every endpoint of a que channel shares: the ring index   *)
(* of a position and the burst amount.                                     *)
(*                                                                         *)
(* Positions (tail, head) are usize counters that only grow; position p    *)
(* lives in slot Index(p) of the ring.  They are unbounded here: the code  *)
(* runs on 64-bit counters, which do not wrap in practice.                 *)
(***************************************************************************)
EXTENDS Integers

CONSTANT N      \* capacity: the const generic N of Channel<M, T, N>

ASSUME CapacityPositive == N \in Nat \ {0}

\* assert!(N > 0 && N.is_power_of_two()) of every join.  No proof needs it:
\* it is what makes the mask of the code the modulus of Index.
ASSUME CapacityPowerOfTwo == \E k \in 0 .. 30 : N = 2^k

\* p & MODULO_MASK, with MODULO_MASK = N - 1 and N a power of two.
Index(p) == p % N

Slots == 0 .. N - 1

\* A quarter of the buffer, at least one element.
burst_amount == IF N \div 4 = 0 THEN 1 ELSE N \div 4

=============================================================================
