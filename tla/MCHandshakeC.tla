---------------------------- MODULE MCHandshakeC ----------------------------
(* The header with a producer of either language, on small instances.      *)
EXTENDS HandshakeC

=============================================================================
