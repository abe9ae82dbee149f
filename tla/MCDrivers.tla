----------------------------- MODULE MCDrivers -----------------------------
(***************************************************************************)
(* Drivers.tla with configurations in which the BIOS may leave the         *)
(* controller: both interfaces on or off, interrupts or none, translation  *)
(* of scan codes (bit 6) and the system flag (bit 2).                      *)
(***************************************************************************)
EXTENDS Drivers

MCConfigs == {{}, {0, 2, 6}, {2, 4, 5, 6}, {0, 1, 2, 5}}

(* The codes of a letter and of a shift key's release.                     *)
MCKeyBytes == {{1, 2, 3, 4}, {1, 3, 5, 7}}

=============================================================================
