------------------------------- MODULE Drivers -------------------------------
(***************************************************************************)
(* The activation of the drivers: DriverManager of alsrc/drivers/driver.cpp *)
(* and the functions Activate of keyboard.cpp and mouse.cpp, which set up  *)
(* the 8042 controller that keyboard and mouse share.                      *)
(*                                                                         *)
(* Activate writes to and reads from the controller without ever testing   *)
(* whether it is ready.  The model takes the controller to be fast enough: *)
(* it carries out a command at once.  The devices behind it are slow: they *)
(* obey, and their bytes arrive, at any time.                              *)
(*                                                                         *)
(* Interrupts are disabled while drivers are activated.  Afterwards their  *)
(* handlers come for the bytes of the devices whose interrupt is enabled.  *)
(*                                                                         *)
(* A byte is the set of its bits that are one.                             *)
(***************************************************************************)
EXTENDS Integers, Sequences

CONSTANTS
  Configs,   \* configurations in which the BIOS leaves the controller
  KeyBytes,  \* scan codes
  MaxKeys,   \* bound: bytes of keys
  MaxMoves   \* bound: packets of the mouse, one byte standing for each

Devices == {"keyboard", "mouse"}
Bits == 0 .. 7

(* Bits of the configuration: a device's interrupt, and its interface off. *)
IrqBit == [keyboard |-> 0, mouse |-> 1]
OffBit == [keyboard |-> 4, mouse |-> 5]

AckByte == {1, 3, 4, 5, 6, 7}    \* 0xFA
MouseByte == {3}                 \* 0x08, the first byte of a packet

ASSUME DriversAssumption ==
  /\ Configs \subseteq SUBSET Bits
  /\ KeyBytes \subseteq SUBSET Bits
  /\ MaxKeys \in Nat /\ MaxMoves \in Nat

VARIABLES
  drivers,    \* DriverManager::drivers
  i, line,    \* ActivateAll's i, and the statement of drivers[i]->Activate()
  status,     \* Activate's local variable status
  config,     \* the controller's configuration
  expecting,  \* what the controller does with the next byte at port 0x60
  register,   \* the output register: what it holds and whether it was read
  answer,     \* the controller's own answers that wait for the register
  overwrites, \* whether they do not, but replace what it holds
  outbox,     \* bytes of each device on their way to the controller
  ordered,    \* devices that have been sent 0xF4 and have not obeyed
  reporting,  \* devices that report what the user does
  keys, moves,    \* bytes of keys, and packets of the mouse, still to come
  bios,       \* history: the configuration before the first driver
  got,        \* history: what each driver took for the configuration
  acked       \* history: the mouse's acknowledgement has been read

manager == <<drivers, i, line, status>>
controller == <<config, expecting, register, answer>>
device == <<outbox, ordered, reporting>>
user == <<keys, moves>>
machine == <<bios, overwrites>>
vars == <<manager, controller, device, user, machine, got, acked>>

-----------------------------------------------------------------------------
(* The statements of the functions Activate, by what they do.              *)

BadActivateGetFirst ==
  [keyboard |-> <<"drain", "enable", "get", "ask", "announce", "set",
                  "command">>,
   mouse |-> <<"enable", "get", "ask", "announce", "set", "address",
               "command", "ack">>]

Activate ==
  [keyboard |-> <<"drain", "enable", "ask", "get", "announce", "set",
                  "command">>,
   mouse |-> <<"enable", "ask", "get", "announce", "set", "address",
               "command", "ack">>]

Driver == drivers[i]

BadAdded == <<"mouse", "keyboard">>

(* kernelMain adds the keyboard's driver, then the mouse's; then it calls  *)
(* ActivateAll.                                                            *)
Added == <<"keyboard", "mouse">>

Activating == i \in 1 .. Len(drivers)

Done == i = Len(Added) + 1

At(statement) == Activating /\ Activate[Driver][line] = statement

Empty == [full |-> FALSE, byte |-> {}, from |-> "nobody"]

Full(byte, from) == [full |-> TRUE, byte |-> byte, from |-> from]

Init ==
  /\ drivers = <<>> /\ i = 0 /\ line = 1 /\ status = {}
  /\ config \in Configs /\ bios = config
  /\ expecting = "keyboard"
  /\ register \in {Empty} \cup {Full(byte, "keyboard") : byte \in KeyBytes}
  /\ answer = <<>> /\ overwrites \in BOOLEAN
  /\ outbox = [d \in Devices |-> <<>>]
  /\ ordered = {} /\ reporting = {"keyboard"}
  /\ keys = MaxKeys /\ moves = MaxMoves
  /\ got = [d \in Devices |-> "nothing"]
  /\ acked = FALSE

-----------------------------------------------------------------------------
(* The devices and the controller.                                         *)

(* The keyboard sends a scan code.                                         *)
Strike(byte) ==
  /\ keys > 0 /\ "keyboard" \in reporting
  /\ keys' = keys - 1
  /\ outbox' = [outbox EXCEPT !.keyboard = Append(@, byte)]
  /\ UNCHANGED <<manager, controller, ordered, reporting, moves, machine,
                 got, acked>>

(* The mouse sends a packet.                                               *)
Move ==
  /\ moves > 0 /\ "mouse" \in reporting
  /\ moves' = moves - 1
  /\ outbox' = [outbox EXCEPT !.mouse = Append(@, MouseByte)]
  /\ UNCHANGED <<manager, controller, ordered, reporting, keys, machine,
                 got, acked>>

(* A device obeys 0xF4: it forgets what it had to send, acknowledges the   *)
(* command and reports from then on.                                       *)
Obey(d) ==
  /\ d \in ordered
  /\ ordered' = ordered \ {d}
  /\ reporting' = reporting \cup {d}
  /\ outbox' = [outbox EXCEPT ![d] = <<AckByte>>]
  /\ UNCHANGED <<manager, controller, user, machine, got, acked>>

(* A device's byte arrives in the empty register, if its interface is on.  *)
Arrive(d) ==
  /\ outbox[d] # <<>>
  /\ ~register.full
  /\ OffBit[d] \notin config
  /\ register' = Full(Head(outbox[d]), d)
  /\ outbox' = [outbox EXCEPT ![d] = Tail(@)]
  /\ UNCHANGED <<manager, config, expecting, answer, ordered, reporting, user,
                 machine, got, acked>>

(* Port 0x60 is read.  An answer of the controller enters at once.         *)
Read ==
  /\ IF register.full /\ answer # <<>>
     THEN /\ register' = Full(Head(answer), "controller")
          /\ answer' = Tail(answer)
     ELSE register' = [register EXCEPT !.full = FALSE] /\ UNCHANGED answer
  /\ acked' = (acked \/ register = Full(AckByte, "mouse"))

(* Command 0x20.  If the register is full, some controllers write over it  *)
(* and some keep the answer until it has been read.                        *)
Answer ==
  IF register.full /\ ~overwrites
  THEN answer' = Append(answer, config) /\ UNCHANGED register
  ELSE register' = Full(config, "controller") /\ UNCHANGED answer

(* A byte is written to port 0x60.                                         *)
WriteData(byte) ==
  /\ expecting' = "keyboard"
  /\ IF expecting = "config"
     THEN config' = byte /\ UNCHANGED ordered
     ELSE ordered' = ordered \cup {expecting} /\ UNCHANGED config

-----------------------------------------------------------------------------
(* The driver manager.                                                     *)

AddDriver ==
  /\ i = 0 /\ Len(drivers) < Len(Added)
  /\ drivers' = Append(drivers, Added[Len(drivers) + 1])
  /\ UNCHANGED <<i, line, status, controller, device, user, machine, got,
                 acked>>

ActivateAll ==
  /\ i = 0 /\ Len(drivers) = Len(Added)
  /\ i' = 1
  /\ UNCHANGED <<drivers, line, status, controller, device, user, machine,
                 got, acked>>

(* The next statement, or the next driver.                                 *)
Advance ==
  /\ IF line < Len(Activate[Driver])
     THEN line' = line + 1 /\ i' = i
     ELSE line' = 1 /\ i' = i + 1
  /\ UNCHANGED drivers

(* while(commandport.Read() & 0x1) dataport.Read();                        *)
Drain ==
  /\ At("drain")
  /\ IF register.full
     THEN Read /\ UNCHANGED manager
     ELSE Advance /\ UNCHANGED <<status, register, answer, acked>>
  /\ UNCHANGED <<config, expecting, device, user, machine, got>>

(* commandport.Write(0xAE), (0xA8)                                         *)
Enable ==
  /\ At("enable")
  /\ config' = config \ {OffBit[Driver]}
  /\ Advance
  /\ UNCHANGED <<status, expecting, register, answer, device, user, machine,
                 got, acked>>

(* commandport.Write(0x20)                                                 *)
Ask ==
  /\ At("ask")
  /\ Answer
  /\ Advance
  /\ UNCHANGED <<status, config, expecting, device, user, machine, got,
                 acked>>

BadStatusNoIrq(byte) ==
  IF Driver = "keyboard" THEN byte \ {OffBit.keyboard}
                         ELSE byte \cup {IrqBit.mouse}

(* (dataport.Read() | 1) & ~0x10, dataport.Read() | 2                      *)
Status(byte) ==
  IF Driver = "keyboard"
  THEN (byte \cup {IrqBit.keyboard}) \ {OffBit.keyboard}
  ELSE byte \cup {IrqBit.mouse}

(* What the byte in the register is to a driver that takes it for the      *)
(* configuration.                                                          *)
Kind ==
  IF register.from # "controller" THEN register.from
  ELSE IF register.byte = config THEN "current" ELSE "stale"

Get ==
  /\ At("get")
  /\ Read
  /\ status' = Status(register.byte)
  /\ got' = [got EXCEPT ![Driver] = Kind]
  /\ Advance
  /\ UNCHANGED <<config, expecting, device, user, machine>>

(* commandport.Write(0x60), commandport.Write(0xD4)                        *)
Announce ==
  /\ \/ At("announce") /\ expecting' = "config"
     \/ At("address") /\ expecting' = "mouse"
  /\ Advance
  /\ UNCHANGED <<status, config, register, answer, device, user, machine,
                 got, acked>>

(* dataport.Write(status)                                                  *)
Set ==
  /\ At("set")
  /\ WriteData(status)
  /\ Advance
  /\ UNCHANGED <<status, register, answer, outbox, reporting, user, machine,
                 got, acked>>

(* dataport.Write(0xF4)                                                    *)
Command ==
  /\ At("command")
  /\ WriteData({2, 4, 5, 6, 7})
  /\ Advance
  /\ UNCHANGED <<status, register, answer, outbox, reporting, user, machine,
                 got, acked>>

(* dataport.Read()                                                         *)
AckRead ==
  /\ At("ack")
  /\ Read
  /\ Advance
  /\ UNCHANGED <<status, config, expecting, device, user, machine, got>>

Main ==
  \/ AddDriver \/ ActivateAll
  \/ Drain \/ Enable \/ Ask \/ Get \/ Announce \/ Set \/ Command \/ AckRead

(* Interrupts are enabled and a handler reads a byte.  A byte of the       *)
(* controller's own raises the keyboard's interrupt.                       *)
Handle ==
  /\ Done
  /\ register.full
  /\ IF register.from = "mouse" THEN IrqBit.mouse \in config
                                ELSE IrqBit.keyboard \in config
  /\ Read
  /\ UNCHANGED <<manager, config, expecting, device, user, machine, got>>

(* while(1);                                                               *)
Loop == Done /\ UNCHANGED vars

Next ==
  \/ \E byte \in KeyBytes : Strike(byte)
  \/ Move
  \/ \E d \in Devices : Obey(d) \/ Arrive(d)
  \/ Main \/ Handle \/ Loop

(* Interrupts are accepted.                                                *)
Spec == Init /\ [][Next]_vars /\ WF_vars(Handle)

-----------------------------------------------------------------------------
(* Every variable has its type; a driver always finds a byte in the        *)
(* register when it asks for the configuration.                            *)
TypeOK ==
  /\ drivers \in {SubSeq(Added, 1, n) : n \in 0 .. Len(Added)}
  /\ i \in 0 .. Len(Added) + 1
  /\ Activating => line \in 1 .. Len(Activate[Driver])
  /\ {status, config, bios, register.byte} \subseteq SUBSET Bits
  /\ expecting \in Devices \cup {"config"}
  /\ register.from \in Devices \cup {"controller", "nobody"}
  /\ Len(answer) <= 1
  /\ ordered \cup reporting \subseteq Devices
  /\ At("get") => register.full

(* Whatever the keyboard's driver takes for the configuration, both        *)
(* devices can send and interrupt after ActivateAll if the mouse's driver  *)
(* was given the current one; and if both were, the other bits are as the  *)
(* BIOS left them.  In any case both have been told to report.             *)
Armed ==
  /\ Done => ordered \cup reporting = Devices
  /\ Done /\ got.mouse = "current" =>
       /\ {0, 1} \subseteq config
       /\ {4, 5} \cap config = {}
       /\ got.keyboard = "current" => config = (bios \cup {0, 1}) \ {4, 5}

(* What Activate reads as the controller's state, to write it back with    *)
(* one bit changed, is the controller's state at that moment.              *)
ReadsState == \A d \in Devices : got[d] \in {"nothing", "current"}

(* The mouse's answer to 0xF4 is not lost: Activate reads it, or it is the *)
(* first byte of the mouse that its handler gets to see.                   *)
AckFirst ==
  LET unread == (IF register.full /\ register.from = "mouse"
                 THEN <<register.byte>> ELSE <<>>) \o outbox.mouse
  IN  ~acked /\ "mouse" \in reporting =>
        unread # <<>> /\ Head(unread) = AckByte

(* If the mouse's driver was given the current configuration, a byte in    *)
(* the output register does not stay there for ever, which would silence   *)
(* both devices.                                                           *)
NobodyStuck ==
  Done /\ register.full /\ got.mouse = "current" ~> ~register.full

=============================================================================
