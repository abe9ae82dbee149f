---------------------------- MODULE MCInterrupts ----------------------------
(***************************************************************************)
(* Interrupts.tla with every order of constructing, registering and        *)
(* activating two managers and two handlers.  Of the lines, 0 and 12 are    *)
(* the timer and the mouse, which the IDT routes; 14 is a device (the      *)
(* first IDE channel) that it does not, less urgent than the mouse on the  *)
(* same controller.  The keyboard's line 1 takes the timer's path.         *)
(***************************************************************************)
EXTENDS Interrupts, TLC

MCLines == {0, 12, 14}

Interchangeable == Permutations(Managers) \cup Permutations(Handlers)

=============================================================================
