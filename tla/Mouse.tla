-------------------------------- MODULE Mouse --------------------------------
(***************************************************************************)
(* The mouse driver: MouseDriver::HandleInterrupt of                       *)
(* alsrc/drivers/mouse.cpp, which assembles packets of three bytes and     *)
(* hands them to the pointer (Pointer.tla).                                *)
(*                                                                         *)
(* Mouse and keyboard share the output register of their controller.  A    *)
(* byte that enters it latches the interrupt of the device it comes from.  *)
(* The keyboard's handler reads port 0x60 without asking whose byte it     *)
(* gets, and waits in loops that read on (Keyboard.tla): so bytes of the   *)
(* mouse get lost, and interrupts come for bytes that are gone.            *)
(* Activate does not wait for the mouse's acknowledgement of 0xF4: if it   *)
(* comes later, it is the first byte that HandleInterrupt puts into a      *)
(* packet.                                                                 *)
(***************************************************************************)
EXTENDS Pointer, Sequences, FiniteSets

CONSTANTS
  Flags,    \* first bytes of packets: the buttons in bits 0, 1 and 2
  Changes,  \* second and third bytes of packets
  MaxBytes  \* bound: bytes on their way

Byte == 0 .. (2 * Half - 1)

ASSUME MouseAssumption ==
  /\ Flags \subseteq Byte /\ Changes \subseteq Byte
  /\ MaxBytes \in Nat

VARIABLES
  offset, buffer, buttons,  \* MouseDriver's fields
  queue,    \* bytes on their way, the head in the output register
  latched,  \* the devices whose interrupt is latched
  pressed,  \* history: buttons the handler was told are down
  held,     \* history: the first byte of the mouse's last packet
  lost,     \* history: bytes of the mouse that the keyboard read, less the
            \* acknowledgement that came late, modulo 3
  whole     \* history: there are none such bytes

driver == <<offset, buffer, buttons, pressed>>
controller == <<queue, latched>>
vars == <<pointerVars, driver, controller, held, lost, whole>>

(* 0xFA, which precedes the first packet as the third byte of one would.   *)
Ack == [from |-> "mouse", value |-> 2 * Half - 6, part |-> 2]

(* MouseDriver::Activate, before interrupts are enabled.                   *)
Init ==
  /\ PointerInit
  /\ offset = 0 /\ buttons = 0
  /\ buffer = [i \in 0 .. 2 |-> 0]
  /\ pressed = {} /\ held = 0
  /\ \/ queue = <<>> /\ latched = {} /\ lost = 0 /\ whole = TRUE
     \/ /\ queue = <<Ack>> /\ latched = {"mouse"}
        /\ lost = 2 /\ whole = FALSE

-----------------------------------------------------------------------------
(* The devices and the controller.                                         *)

Send(device, bytes) ==
  /\ Len(queue) + Len(bytes) <= MaxBytes
  /\ queue' = queue \o [i \in DOMAIN bytes |->
                          [from |-> device, value |-> bytes[i], part |-> i - 1]]
  /\ latched' = IF queue = <<>> THEN latched \cup {device} ELSE latched

(* The mouse reports its buttons and how far it was moved.                 *)
Report(packet) ==
  /\ Send("mouse", packet)
  /\ held' = packet[1]
  /\ UNCHANGED <<pointerVars, driver, lost, whole>>

KeyMoves ==
  /\ Send("keyboard", <<0>>)
  /\ UNCHANGED <<pointerVars, driver, held, lost, whole>>

(* The next n bytes are read; those behind them enter the register.        *)
Read(device, n) ==
  /\ queue' = SubSeq(queue, n + 1, Len(queue))
  /\ latched' = (latched \ {device})
                  \cup {queue[i].from : i \in (2 .. Len(queue)) \cap (1 .. n + 1)}

OfMouse(n) == {i \in 1 .. n : queue[i].from = "mouse"}

(* The keyboard's handler runs: it reads one byte, or more if it waits.    *)
KeyboardHandles(n) ==
  /\ "keyboard" \in latched
  /\ IF queue = <<>> THEN n = 0 ELSE n \in 1 .. Len(queue)
  /\ Read("keyboard", n)
  /\ lost' = (lost + Cardinality(OfMouse(n))) % 3
  /\ whole' = (whole /\ OfMouse(n) = {})
  /\ UNCHANGED <<pointerVars, driver, held>>

-----------------------------------------------------------------------------
(* The driver.                                                             *)

(* byte & (0x1<<i), as 0 or 1, for the three buttons.                      *)
Bit(byte, i) == (byte \div <<1, 2, 4>>[i + 1]) % 2

BadStatusInverted == ~(queue # <<>> /\ Head(queue).from = "mouse")

BadStatusIgnored == queue # <<>>

(* Bit 0x20 of the status port: the byte in the register is the mouse's.   *)
Status == queue # <<>> /\ Head(queue).from = "mouse"

(* OnMouseUp and OnMouseDown for every button that differs.                *)
Changed(byte) == {i \in 0 .. 2 : Bit(byte, i) # Bit(buttons, i)}

Buttons(byte) ==
  /\ pressed' = (pressed \ {i \in Changed(byte) : Bit(buttons, i) = 1})
                  \cup {i \in Changed(byte) : Bit(buttons, i) = 0}
  /\ buttons' = byte

BadPacketSecondByte(bytes) ==
  /\ IF bytes[1] # 0 \/ bytes[2] # 0
     THEN OnMouseMove(Int8(bytes[1]), Int8(bytes[2]))
     ELSE UNCHANGED pointerVars
  /\ Buttons(bytes[1])

(* A packet is complete: the pointer moves, unless both changes are zero,  *)
(* and the buttons are compared with those of the packet before.           *)
Packet(bytes) ==
  /\ IF bytes[1] # 0 \/ bytes[2] # 0
     THEN OnMouseMove(Int8(bytes[1]), Int8(bytes[2]))
     ELSE UNCHANGED pointerVars
  /\ Buttons(bytes[0])

NextOffset == (offset + 1) % 3

(* MouseDriver::HandleInterrupt                                            *)
HandleInterrupt ==
  /\ "mouse" \in latched
  /\ IF Status
     THEN /\ Read("mouse", 1)
          /\ buffer' = [buffer EXCEPT ![offset] = Head(queue).value]
          /\ offset' = NextOffset
          /\ IF offset' = 0
             THEN Packet(buffer')
             ELSE UNCHANGED <<pointerVars, buttons, pressed>>
     ELSE /\ latched' = latched \ {"mouse"}
          /\ UNCHANGED <<pointerVars, driver, queue>>
  /\ UNCHANGED <<held, lost, whole>>

Next ==
  \/ \E flags \in Flags, dx, dy \in Changes : Report(<<flags, dx, dy>>)
  \/ KeyMoves
  \/ \E n \in 0 .. MaxBytes : KeyboardHandles(n)
  \/ HandleInterrupt

Spec == Init /\ [][Next]_vars

-----------------------------------------------------------------------------
(* The part of a packet that the mouse's next unread byte is.              *)
NextPart ==
  LET unread == OfMouse(Len(queue))
  IN  IF unread = {} THEN 0
      ELSE queue[CHOOSE i \in unread : \A j \in unread : i <= j].part

(* The driver puts the bytes of a packet into the right slots: it is out   *)
(* of step by exactly the number of bytes that the keyboard's handler took *)
(* away, the other way round if the acknowledgement came late, and never   *)
(* because of an interrupt whose byte is gone or is the keyboard's.        *)
(* Nothing but as many lost bytes as make three brings it back into step.  *)
InStep == offset = (NextPart + 3 - lost) % 3

(* As long as no byte was lost, the driver knows the buttons whenever it   *)
(* has read all there is, and the handler has been told: of each button    *)
(* that is held down, and of no other.                                     *)
KnowsButtons ==
  whole /\ OfMouse(Len(queue)) = {} =>
    buttons = held /\ pressed = {i \in 0 .. 2 : Bit(held, i) = 1}

(* A byte in the output register always has an interrupt to come for it;   *)
(* else the controller would wait for ever for it to be read, and both     *)
(* devices would fall silent.                                              *)
NoStuckByte == queue # <<>> => Head(queue).from \in latched

=============================================================================
