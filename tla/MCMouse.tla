------------------------------ MODULE MCMouse ------------------------------
(***************************************************************************)
(* Mouse.tla with bytes of three bits, a small page, and packets of a few  *)
(* buttons and changes of both signs.                                      *)
(***************************************************************************)
EXTENDS Mouse

MCFlags == {0, 1, 6}

MCChanges == {0, 1, 6}

=============================================================================
