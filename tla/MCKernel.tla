------------------------------ MODULE MCKernel ------------------------------
(***************************************************************************)
(* Kernel.tla with the three lines the kernel serves and two it does not:  *)
(* line 4 (a serial port) at the master, less urgent than the cascade, and *)
(* line 14 (the first IDE channel) at the slave.                           *)
(***************************************************************************)
EXTENDS Kernel

MCLines == {0, 1, 4, 12, 14}

=============================================================================
