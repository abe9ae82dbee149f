------------------------------- MODULE MCBoot -------------------------------
(***************************************************************************)
(* Boot.tla with three stubs of interrupts and one for all others, far     *)
(* apart; two PCI buses of two devices, with up to two functions and six   *)
(* BARs each: ordinary devices with one function, of which one answers for *)
(* all of them, one with two, and a bridge, which has two BARs; a mode of  *)
(* the VGA driver and one that it does not support, and pixels in the      *)
(* corners of the screen and beyond its edge.                              *)
(***************************************************************************)
EXTENDS Boot

MCVectors == {0, \h20, \h21, \h28, \h2C}

MCEntry ==
  [ignore |-> \h100000, timer |-> \h10FFFF, keyboard |-> \h110000,
   mouse |-> \h3FFFFFF]

Memory(a) == [io |-> FALSE, address |-> a]
Io(a) == [io |-> TRUE, address |-> a]

SixBars(a, b, c) ==
  [i \in 0 .. 5 |-> <<a, Memory(0), b, Memory(0), c, Memory(2)>>[i + 1]]

Ids(a, b) == [f \in 0 .. 1 |-> IF f = 0 THEN a ELSE b]

MCKinds ==
  {[multi |-> FALSE, functions |-> {0}, alias |-> TRUE, header |-> 0,
    vendor |-> \h80EE, id |-> Ids(\hBEEF, \hBEEF),
    bars |-> SixBars(Io(1), Memory(2), Io(2))],
   [multi |-> FALSE, functions |-> {0}, alias |-> FALSE, header |-> 0,
    vendor |-> \h1022, id |-> Ids(\h2000, 0),
    bars |-> SixBars(Memory(1), Memory(0), Io(0))],
   [multi |-> TRUE, functions |-> {0, 1}, alias |-> FALSE, header |-> 0,
    vendor |-> \h8086, id |-> Ids(\h7000, \h7111),
    bars |-> SixBars(Io(2), Io(1), Memory(2))],
   [multi |-> TRUE, functions |-> {0}, alias |-> FALSE, header |-> 1,
    vendor |-> \h8086, id |-> Ids(\h0F0F, 0),
    bars |-> SixBars(Memory(0), Io(1), Memory(2))]}

MCModes == {<<320, 200, 8>>, <<800, 600, 8>>}

MCXs == {0, 319, 320}

MCYs == {0, 199}

=============================================================================
