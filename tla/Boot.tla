--------------------------------- MODULE Boot --------------------------------
(***************************************************************************)
(* What kernelMain does with the hardware before it enables interrupts and *)
(* besides activating the drivers: it makes the segment descriptors and    *)
(* the gates (Gdt.tla), scans the PCI buses (Pci.tla) and, in a build with *)
(* VGA_ENABLED, draws (Vga.tla).                                           *)
(***************************************************************************)
EXTENDS Gdt, Pci, Vga

VARIABLE stage  \* the object that kernelMain is busy with

vars == <<stage, gdtVars, pciVars, vgaVars>>

(* What the BIOS has left in the VGA adapter is of no importance before it *)
(* is first used: Scanned chooses it.                                      *)
Init ==
  /\ stage = "gdt"
  /\ GdtInit
  /\ PciInit
  /\ VgaInit
  /\ <<adapter, awaits, aliased>> = CHOOSE left \in Bios : TRUE

MakeInterrupts ==
  /\ stage = "gdt"
  /\ GdtNext
  /\ stage' = IF idt' = <<>> THEN "gdt" ELSE "PCIController"
  /\ UNCHANGED <<pciVars, vgaVars>>

Scan ==
  /\ stage = "PCIController"
  /\ SelectDrivers
  /\ UNCHANGED <<stage, gdtVars, vgaVars>>

(* SelectDrivers has returned.  What it has found is forgotten, so that    *)
(* the states of the scan and those of the drawing do not multiply.        *)
Scanned ==
  /\ stage = "PCIController" /\ scanning = "done"
  /\ stage' = "vga"
  /\ slots' = [p \in DOMAIN slots |-> NoDevice]
  /\ portBase' = Unset /\ report' = <<>>
  /\ \E left \in Bios :
       adapter' = left[1] /\ awaits' = left[2] /\ aliased' = left[3]
  /\ UNCHANGED <<gdtVars, scanning, loops, drivers, mode_set, registers, pixel,
                 writing, n, attribute>>

(* kernelMain sets one mode and then draws every pixel once.  Here modes   *)
(* and pixels come in any order.                                           *)
Draw ==
  /\ stage = "vga"
  /\ VgaStep
  /\ UNCHANGED <<stage, gdtVars, pciVars>>

Next == MakeInterrupts \/ Scan \/ Scanned \/ Draw

Spec == Init /\ [][Next]_vars

=============================================================================
