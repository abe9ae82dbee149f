--------------------------------- MODULE Pci ---------------------------------
(***************************************************************************)
(* The scan of the PCI buses: PCInterconnectController::SelectDrivers of   *)
(* alsrc/hwcom/pci.cpp.  It asks every function of every device for its    *)
(* vendor, reads the base address registers (BARs) of those that answer,   *)
(* and reports them.                                                       *)
(*                                                                         *)
(* Interrupts are disabled, so that writing the address and reading the    *)
(* data of the configuration space is one step with what is made of it.    *)
(* What GetBaseAddressRegister leaves uninitialised may be anything.       *)
(***************************************************************************)
EXTENDS Integers, Sequences

CONSTANTS
  Buses,      \* the number of buses that are scanned: 8
  Slots,      \* the number of devices of a bus: 32
  Functions,  \* the number of functions of a device: 8
  Bars,       \* the number of BARs of a function: 6
  Kinds,      \* kinds of devices, see Kind
  NoDevice,   \* an empty slot
  Addresses   \* addresses in BARs and in memory that was not initialised

(* A device: whether bit 7 of its header type says that it has several     *)
(* functions, those that it has, whether function 0 answers for all the    *)
(* others, the type of the header, its vendor, the numbers of its          *)
(* functions, and its BARs.                                                *)
Kind ==
  [multi : BOOLEAN, functions : SUBSET (0 .. (Functions - 1)),
   alias : BOOLEAN, header : 0 .. 127, vendor : 1 .. \hFFFE,
   id : [0 .. (Functions - 1) -> 0 .. \hFFFF],
   bars : [0 .. (Bars - 1) -> [io : BOOLEAN, address : Addresses]]]

ASSUME PciAssumption ==
  /\ {Buses, Slots, Functions, Bars} \subseteq Nat \ {0}
  /\ Buses <= 256 /\ Slots <= 32 /\ Functions <= 8
  /\ \A k \in Kinds : k \in Kind /\ 0 \in k.functions
  /\ \A k \in Kinds : ~k.multi => k.functions = {0}
  /\ \A k \in Kinds : k.multi => ~k.alias
  /\ NoDevice \notin Kinds
  /\ 0 \in Addresses

VARIABLES
  slots,      \* what is plugged in, by bus and device
  scanning,   \* the loop that SelectDrivers is in
  bus, device, function, barNum,  \* its loop variables
  numFunctions,
  portBase,   \* dev.portBase, Unset if it was not assigned
  drivers,    \* drivers that were added
  report      \* history: the lines printed, with function and portBase

loops == <<bus, device, function, barNum, numFunctions>>
pciVars == <<slots, scanning, loops, portBase, drivers, report>>

Unset == -1
NoDriver == "none"

PciInit ==
  /\ slots \in [(0 .. (Buses - 1)) \X (0 .. (Slots - 1))
                -> Kinds \cup {NoDevice}]
  /\ scanning = "device"
  /\ bus = 0 /\ device = 0 /\ function = 0 /\ barNum = 0 /\ numFunctions = 0
  /\ portBase = Unset
  /\ drivers = <<>>
  /\ report = <<>>

-----------------------------------------------------------------------------
(* Read: the configuration space of function f of device d of bus b, of    *)
(* which the address has 3, 5 and 8 bits.  Where nobody answers it reads   *)
(* as ones.                                                                *)
Read(b, d, f) ==
  LET there == slots[<<b % 256, d % 32>>]
  IN  IF there # NoDevice /\ (f % 8 \in there.functions \/ there.alias)
      THEN [vendor |-> there.vendor, id |-> there.id[f % 8],
            multi |-> there.multi, header |-> there.header,
            bars |-> there.bars]
      ELSE [vendor |-> \hFFFF, id |-> \hFFFF, multi |-> TRUE]

(* Bit 7 of the header type of function 0.                                 *)
DeviceHasFunctions(b, d) == Read(b, d, 0).multi

BadNumFunctions(b, d) == Functions

NumFunctions(b, d) == IF DeviceHasFunctions(b, d) THEN Functions ELSE 1

MaxBARs(header) == Bars - 4 * header

(* What GetBaseAddressRegister may return: a BAR that the header does not  *)
(* have is not initialised at all, the address of a BAR in memory is not.  *)
GetBaseAddressRegister(dev, bar) ==
  IF bar >= MaxBARs(dev.header)
  THEN [io : BOOLEAN, address : Addresses]
  ELSE IF dev.bars[bar].io
       THEN {dev.bars[bar]}
       ELSE [io : {FALSE}, address : Addresses]

(* Every case of the switches over vendors and devices is empty,           *)
VendorDriver(dev) == NoDriver

(* and so are those over classes and subclasses.                           *)
GetDriver(dev) == VendorDriver(dev)

AddDriver(driver) ==
  drivers' = IF driver # NoDriver THEN Append(drivers, driver) ELSE drivers

-----------------------------------------------------------------------------
(* A device: how many of its functions are asked.                          *)
ScanDevice ==
  /\ scanning = "device"
  /\ numFunctions' = NumFunctions(bus, device)
  /\ function' = 0
  /\ scanning' = "function"
  /\ UNCHANGED <<slots, bus, device, barNum, portBase, drivers, report>>

GetDeviceDescriptor == Read(bus, device, function)

(* A vendor of 0x0000 or 0xFFFF is nobody.                                 *)
ScanFunction ==
  /\ scanning = "function"
  /\ function < numFunctions
  /\ IF GetDeviceDescriptor.vendor \notin {0, \hFFFF}
     THEN /\ scanning' = "bar" /\ barNum' = 0 /\ portBase' = Unset
          /\ UNCHANGED function
     ELSE /\ function' = function + 1
          /\ UNCHANGED <<scanning, barNum, portBase>>
  /\ UNCHANGED <<slots, bus, device, numFunctions, drivers, report>>

BadTaken(bar) == bar.address # 0

(* if(bar.address && (bar.type == InputOutput))                            *)
Taken(bar) == bar.address # 0 /\ bar.io

ScanBar ==
  /\ scanning = "bar"
  /\ barNum < Bars
  /\ \E bar \in GetBaseAddressRegister(GetDeviceDescriptor, barNum) :
       portBase' = IF Taken(bar) THEN bar.address ELSE portBase
  /\ AddDriver(GetDriver(GetDeviceDescriptor))
  /\ barNum' = barNum + 1
  /\ UNCHANGED <<slots, scanning, bus, device, function, numFunctions, report>>

(* printfhex: the two digits of a byte.                                    *)
Hex(byte) == <<(byte \div 16) % 16, byte % 16>>

HexWord(word) == Hex((word \div 256) % 256) \o Hex(word % 256)

(* "PCI BUS .., DEVICE .. = VENDOR .., DEVICE .."                          *)
Report ==
  /\ scanning = "bar"
  /\ barNum = Bars
  /\ report' = Append(report,
       [bus |-> Hex(bus), device |-> Hex(device),
        vendor |-> HexWord(GetDeviceDescriptor.vendor),
        id |-> HexWord(GetDeviceDescriptor.id),
        function |-> function, portBase |-> portBase])
  /\ function' = function + 1
  /\ scanning' = "function"
  /\ UNCHANGED <<slots, bus, device, barNum, numFunctions, portBase, drivers>>

(* The next device, the next bus, or the end of the scan.                  *)
NextDevice ==
  /\ scanning = "function"
  /\ function = numFunctions
  /\ device' = (device + 1) % Slots
  /\ bus' = IF device' = 0 THEN bus + 1 ELSE bus
  /\ scanning' = IF bus' = Buses THEN "done" ELSE "device"
  /\ UNCHANGED <<slots, function, barNum, numFunctions, portBase, drivers,
                 report>>

SelectDrivers ==
  ScanDevice \/ ScanFunction \/ ScanBar \/ Report \/ NextDevice

-----------------------------------------------------------------------------
(* What a reader takes the digits for.                                     *)
Number(digits) ==
  IF Len(digits) = 2
  THEN 16 * digits[1] + digits[2]
  ELSE 4096 * digits[1] + 256 * digits[2] + 16 * digits[3] + digits[4]

(* Where the k-th line says that it found something.                       *)
Slot(k) == <<Number(report[k].bus), Number(report[k].device)>>

Place(k) == (Slot(k)[1] * Slots + Slot(k)[2]) * Functions + report[k].function

(* The scan prints one line for each function that exists, in order, with  *)
(* its vendor and number, and nothing else: an empty slot, whose header    *)
(* reads as if it had functions, gets no line for them, and a device with  *)
(* one function that answers for all of them only one.                     *)
ReportsEachOnce ==
  /\ \A k \in DOMAIN report :
       /\ report[k].function \in slots[Slot(k)].functions
       /\ Number(report[k].vendor) = slots[Slot(k)].vendor
       /\ Number(report[k].id) = slots[Slot(k)].id[report[k].function]
  /\ \A k \in 2 .. Len(report) : Place(k - 1) < Place(k)
  /\ scanning = "done" =>
       \A p \in DOMAIN slots : slots[p] # NoDevice =>
         \A f \in slots[p].functions :
           \E k \in DOMAIN report : Slot(k) = p /\ report[k].function = f

IoBars(kind) ==
  {n \in 0 .. (Bars - 1) : kind.bars[n].io /\ kind.bars[n].address # 0}

(* The portBase of a device with an ordinary header is the address of its  *)
(* last I/O BAR, or was never assigned: uninitialised addresses do not get *)
(* into it.  (For a bridge, with fewer BARs, they do.)                     *)
PortBaseFromBar ==
  \A k \in DOMAIN report :
    LET kind == slots[Slot(k)]
        io == IoBars(kind)
    IN  kind.header = 0 =>
          IF io = {}
          THEN report[k].portBase = Unset
          ELSE \E n \in io : /\ \A m \in io : m <= n
                             /\ report[k].portBase = kind.bars[n].address

=============================================================================
