------------------------------ MODULE MCShmem -------------------------------
(* Segments on a small machine: pages of 128, 256 and 512 bytes.           *)
EXTENDS Shmem

=============================================================================
