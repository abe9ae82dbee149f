----------------------------- MODULE MCPointer -----------------------------
(***************************************************************************)
(* Pointer.tla on a page of two rows and three columns, with coordinates   *)
(* of three bits: every offset from every cell, text anywhere.             *)
(***************************************************************************)
EXTENDS Pointer
=============================================================================
