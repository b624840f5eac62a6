---------------------------- MODULE MCHandshake ----------------------------
(* The header protocol on small instances.                                 *)
EXTENDS Handshake

=============================================================================
