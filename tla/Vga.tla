--------------------------------- MODULE Vga ---------------------------------
(***************************************************************************)
(* The VGA driver of alsrc/drivers/vga.cpp, compiled in with VGA_ENABLED.  *)
(*                                                                         *)
(* SetMode copies a table into the registers of the adapter, one by one;   *)
(* PutPixel asks the adapter where its memory is and writes there.         *)
(* An index port and the access to the data port behind it are one step:   *)
(* only kernelMain uses them, before interrupts are enabled.               *)
(*                                                                         *)
(* The attribute controller has one port, 0x3C0, for indices and data in   *)
(* turn; reading 0x3DA makes an index the next.  The driver writes indices *)
(* to 0x3C1, which some adapters take for 0x3C0 and others ignore.         *)
(***************************************************************************)
EXTENDS Integers, Sequences

CONSTANTS
  Modes,      \* what SetMode is asked for: width, height and colour depth
  Xs, Ys      \* the coordinates that PutPixel is called with

ASSUME VgaAssumption ==
  /\ Modes \subseteq Nat \X Nat \X Nat
  /\ Xs \subseteq Nat /\ Ys \subseteq Nat

VARIABLES
  mode_set,   \* the static of vga.cpp
  writing, n, \* where WriteRegisters is: a group of registers, an index
  registers,  \* the table that WriteRegisters copies
  adapter,    \* the adapter's registers
  awaits,     \* what port 0x3C0 takes next, "index" or "data"
  attribute,  \* the attribute controller's index, with bit 5: picture on
  aliased,    \* whether the adapter takes port 0x3C1 for 0x3C0
  pixel       \* history: where PutPixel has written last, and for which x, y

vgaDriver == <<mode_set, registers, pixel, aliased>>
vgaVars == <<vgaDriver, writing, n, adapter, awaits, attribute>>

g_320x200x256 ==
  [misc |-> <<\h63>>,
   seq |-> <<\h03, \h01, \h0F, \h00, \h0E>>,
   crtc |-> <<\h5F, \h4F, \h50, \h82, \h54, \h80, \hBF, \h1F,
              \h00, \h41, \h00, \h00, \h00, \h00, \h00, \h00,
              \h9C, \h0E, \h8F, \h28, \h40, \h96, \hB9, \hA3, \hFF>>,
   gc |-> <<\h00, \h00, \h00, \h00, \h00, \h40, \h05, \h0F, \hFF>>,
   ac |-> <<\h00, \h01, \h02, \h03, \h04, \h05, \h06, \h07,
            \h08, \h09, \h0A, \h0B, \h0C, \h0D, \h0E, \h0F,
            \h41, \h00, \h0F, \h00, \h00>>]

Groups == DOMAIN g_320x200x256

SupportsMode(mode) == mode \in {<<320, 200, 8>>, <<640, 480, 16>>}

(* How often the loops of WriteRegisters turn.                             *)
Count == [misc |-> 1, seq |-> 5, crtc |-> 25, gc |-> 9, ac |-> 21]

After == [misc |-> "seq", seq |-> "unlock", unlock |-> "crtc",
          crtc |-> "gc", gc |-> "ac", ac |-> "end"]

NoPixel == [x |-> 0, y |-> 0, address |-> -1]

(* What the BIOS may have left: registers unlike the table, CRT registers  *)
(* locked or not, text memory or none; the turn of port 0x3C0; and what    *)
(* kind of adapter it is.                                                  *)
Adapters ==
  {[g \in Groups |-> [k \in DOMAIN g_320x200x256[g] |->
      CASE g = "crtc" /\ k = 18 -> lock
        [] g = "gc" /\ k = 7 -> map
        [] OTHER -> \h77]] : lock \in {0, 128}, map \in {0, 14}}

Bios == Adapters \X {"index", "data"} \X BOOLEAN

VgaInit ==
  /\ mode_set = FALSE /\ writing = "idle" /\ n = 1
  /\ registers = g_320x200x256
  /\ \E left \in Bios :
       adapter = left[1] /\ awaits = left[2] /\ aliased = left[3]
  /\ attribute = 32 /\ pixel = NoPixel

-----------------------------------------------------------------------------
(* The adapter.                                                            *)

Bit7(byte) == byte >= 128
SetBit7(byte) == IF Bit7(byte) THEN byte ELSE byte + 128
ClearBit7(byte) == byte % 128

(* CRT registers 0 to 7 are read-only while bit 7 of register 0x11 is set. *)
CrtWrite(crtc, k, byte) ==
  IF k <= 8 /\ Bit7(crtc[18]) THEN crtc ELSE [crtc EXCEPT ![k] = byte]

(* A byte at port 0x3C0, when it takes an index or data.                   *)
AttributePort(s, byte) ==
  IF s.awaits = "index"
  THEN [s EXCEPT !.awaits = "data", !.index = byte % 64]
  ELSE [s EXCEPT !.awaits = "index",
                 !.ac = IF s.index % 32 < Len(s.ac)
                        THEN [s.ac EXCEPT ![(s.index % 32) + 1] = byte]
                        ELSE s.ac]

(* The same at port 0x3C1.                                                 *)
AttributeIndexPort(s, byte) == IF aliased THEN AttributePort(s, byte) ELSE s

Attributes == [awaits |-> awaits, index |-> attribute, ac |-> adapter.ac]

(* attributeControllerResetPort.Read()                                     *)
Reset(s) == [s EXCEPT !.awaits = "index"]

BecomeAttributes(s) ==
  /\ awaits' = s.awaits /\ attribute' = s.index
  /\ adapter' = [adapter EXCEPT !.ac = s.ac]

-----------------------------------------------------------------------------
(* SetMode, up to the call of WriteRegisters.  The table is the same for   *)
(* both modes.                                                             *)
SetMode(mode) ==
  /\ writing = "idle"
  /\ IF SupportsMode(mode)
     THEN /\ writing' = "misc" /\ registers' = g_320x200x256
          /\ UNCHANGED mode_set
     ELSE /\ mode_set' = FALSE
          /\ UNCHANGED <<writing, registers>>
  /\ UNCHANGED <<n, adapter, awaits, attribute, aliased, pixel>>

(* The next turn of a loop, or what comes after the loop.                  *)
Turn ==
  IF n < Count[writing] THEN n' = n + 1 /\ UNCHANGED writing
                        ELSE n' = 1 /\ writing' = After[writing]

(* miscPort, sequencer and graphics controller.                            *)
WriteGroup ==
  /\ writing \in {"misc", "seq", "gc"}
  /\ adapter' = [adapter EXCEPT ![writing][n] = registers[writing][n]]
  /\ Turn
  /\ UNCHANGED <<vgaDriver, awaits, attribute>>

BadUnlocked(crtc) == CrtWrite(crtc, 18, crtc[18])

(* Bit 7 of register 3 is set and of register 0x11 cleared.                *)
Unlocked(crtc) ==
  LET c == CrtWrite(crtc, 4, SetBit7(crtc[4]))
  IN  CrtWrite(c, 18, ClearBit7(c[18]))

(* In the adapter and in the table.                                        *)
Unlock ==
  /\ writing = "unlock"
  /\ adapter' = [adapter EXCEPT !.crtc = Unlocked(@)]
  /\ registers' = [registers EXCEPT !.crtc[4] = SetBit7(@),
                                    !.crtc[18] = ClearBit7(@)]
  /\ writing' = After[writing]
  /\ UNCHANGED <<n, mode_set, pixel, aliased, awaits, attribute>>

WriteCrtc ==
  /\ writing = "crtc"
  /\ adapter' = [adapter EXCEPT !.crtc = CrtWrite(@, n, registers.crtc[n])]
  /\ Turn
  /\ UNCHANGED <<vgaDriver, awaits, attribute>>

WriteAttribute ==
  /\ writing = "ac"
  /\ BecomeAttributes(
       AttributePort(AttributeIndexPort(Reset(Attributes), n - 1),
                     registers.ac[n]))
  /\ Turn
  /\ UNCHANGED vgaDriver

(* Index 0x20 switches the picture on; SetMode returns true.               *)
ModeSet ==
  /\ writing = "end"
  /\ BecomeAttributes(AttributeIndexPort(Reset(Attributes), 32))
  /\ mode_set' = TRUE
  /\ writing' = "idle"
  /\ UNCHANGED <<n, registers, pixel, aliased>>

WriteRegisters ==
  WriteGroup \/ Unlock \/ WriteCrtc \/ WriteAttribute \/ ModeSet

(* Bits 2 and 3 of graphics register 6 tell where the memory is.           *)
GetFrameBufferSegment ==
  <<0, \hA0000, \hB0000, \hB8000>>[((adapter.gc[7] \div 4) % 4) + 1]

Pixel(x, y) ==
  [x |-> x, y |-> y, address |-> GetFrameBufferSegment + 320 * y + x]

BadPutPixel(x, y) ==
  /\ writing = "idle"
  /\ pixel' = Pixel(x, y)
  /\ UNCHANGED <<mode_set, writing, n, registers, adapter, awaits, attribute,
                 aliased>>

PutPixel(x, y) ==
  /\ writing = "idle"
  /\ mode_set
  /\ pixel' = Pixel(x, y)
  /\ UNCHANGED <<mode_set, writing, n, registers, adapter, awaits, attribute,
                 aliased>>

VgaStep ==
  \/ \E mode \in Modes : SetMode(mode)
  \/ WriteRegisters
  \/ \E x \in Xs, y \in Ys : PutPixel(x, y)

-----------------------------------------------------------------------------
(* Whatever the registers held before, locked or not, after SetMode has    *)
(* succeeded they hold the table: no write to the CRT controller is lost   *)
(* to the lock.  On an adapter that takes port 0x3C1 for 0x3C0, the        *)
(* attribute controller holds the table too, and the picture is on,        *)
(* whether the port was about to take an index or data before.             *)
Loaded ==
  writing = "idle" /\ mode_set =>
    /\ \A g \in Groups \ {"ac"} : adapter[g] = g_320x200x256[g]
    /\ aliased => adapter.ac = g_320x200x256.ac /\ attribute >= 32

(* PutPixel with coordinates on the screen writes that pixel's byte in     *)
(* graphics memory: never text memory or the bytes from address zero on,   *)
(* which is where the adapter's own registers may point before SetMode.    *)
PixelInFrameBuffer ==
  pixel # NoPixel /\ pixel.x < 320 /\ pixel.y < 200 =>
    /\ \hA0000 <= pixel.address /\ pixel.address < \hB0000
    /\ pixel.address = \hA0000 + 320 * pixel.y + pixel.x

=============================================================================
