------------------------------- MODULE FifoMC -------------------------------
(***************************************************************************)
(* Fifo with four cells, two byte values and enough bytes to wrap around   *)
(* the buffer more than twice.                                             *)
(***************************************************************************)
EXTENDS Fifo
=============================================================================
