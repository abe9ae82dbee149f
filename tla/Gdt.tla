--------------------------------- MODULE Gdt ---------------------------------
(***************************************************************************)
(* The segment descriptors of alsrc/gdt.cpp and the gates that the         *)
(* constructor of InterruptManager makes for them (alsrc/hwcom/            *)
(* interrupts.cpp): an interrupt gets to its stub through both.            *)
(*                                                                         *)
(* A descriptor is the sequence of its eight bytes: limit, base, type,     *)
(* flags, as the processor reads them.  The constructor stores the lowest  *)
(* byte of the limit twice and its bits 16 to 19 not at all.               *)
(***************************************************************************)
EXTENDS Integers, Sequences

CONSTANTS
  Vectors,   \* entries of the interrupt descriptor table: 0 .. 255
  Entry      \* the addresses of the stubs

Stubs == {"ignore", "timer", "keyboard", "mouse"}

CodeSize == 64 * 1024 * 1024

DataSize == 64 * 2014 * 1024

(* The kernel lies within the segment that it asks for.                    *)
ASSUME GdtAssumption ==
  /\ Vectors \subseteq 0 .. 255 /\ {\h20, \h21, \h2C} \subseteq Vectors
  /\ Entry \in [Stubs -> 0 .. (CodeSize - 1)]

VARIABLES
  gdt,      \* the fields of GlobalDescriptorTable, <<>> before it is made
  gdtSize,  \* the table's limit, as lgdt has loaded it
  idt       \* interruptDescriptorTable, <<>> before it is filled

gdtVars == <<gdt, gdtSize, idt>>

Power16 == 256 * 256
Power24 == 256 * Power16

BadEncoded(limit) ==
  IF limit <= Power16 THEN limit ELSE limit \div 4096

(* The limit in bytes, or in pages of 4 KiB less one.                      *)
Encoded(limit) ==
  IF limit <= Power16 THEN limit
  ELSE IF limit % 4096 # 4095 THEN limit \div 4096 - 1
  ELSE limit \div 4096

SegmentDescriptor(base, limit, type) ==
  <<Encoded(limit) % 256, Encoded(limit) % 256,
    base % 256, (base \div 256) % 256, (base \div Power16) % 256,
    type,
    IF limit <= Power16 THEN \h40 ELSE \hC0,
    (base \div Power24) % 256>>

Base(d) == Power24 * d[8] + Power16 * d[5] + 256 * d[4] + d[3]

Limit(d) ==
  LET limit == Power16 * (d[7] % 16) + 256 * d[2] + d[1]
  IN  IF d[7] \div 64 = 3 THEN 4096 * limit + 4095 ELSE limit

CodeSegmentSelector == 2 * 8
DataSegmentSelector == 3 * 8

GdtInit == gdt = <<>> /\ gdtSize = 0 /\ idt = <<>>

-----------------------------------------------------------------------------
(* The null and the unused segment, code and data.                         *)
GlobalDescriptorTable ==
  /\ gdt = <<>>
  /\ gdt' = <<SegmentDescriptor(0, 0, 0), SegmentDescriptor(0, 0, 0),
              SegmentDescriptor(0, CodeSize, \h9A),
              SegmentDescriptor(0, DataSize, \h92)>>
  /\ gdtSize' = 4 * 8
  /\ UNCHANGED idt

(* A present interrupt gate of privilege 0.                                *)
Gate(selector, handler) ==
  [handlerAddressLowBits |-> handler % Power16,
   handlerAddressHighBits |-> (handler \div Power16) % Power16,
   gdt_codeSegmentSelector |-> selector,
   access |-> 128 + 14]

(* Every vector is ignored, except for three.                              *)
Handler(vector) ==
  CASE vector = \h20 -> "timer"
    [] vector = \h21 -> "keyboard"
    [] vector = \h2C -> "mouse"
    [] OTHER -> "ignore"

BadSetInterruptDescriptorTable ==
  /\ gdt # <<>> /\ idt = <<>>
  /\ idt' = [v \in Vectors |-> Gate(DataSegmentSelector, Entry[Handler(v)])]
  /\ UNCHANGED <<gdt, gdtSize>>

(* InterruptManager::InterruptManager, the part about the gates.           *)
SetInterruptDescriptorTable ==
  /\ gdt # <<>> /\ idt = <<>>
  /\ idt' = [v \in Vectors |-> Gate(CodeSegmentSelector, Entry[Handler(v)])]
  /\ UNCHANGED <<gdt, gdtSize>>

GdtNext == GlobalDescriptorTable \/ SetInterruptDescriptorTable

GdtSpec == GdtInit /\ [][GdtNext]_gdtVars

-----------------------------------------------------------------------------
(* The segments of code and data begin at address zero and have at least   *)
(* the sizes that were asked for, in spite of the bytes that are stored    *)
(* twice or not at all.                                                    *)
SegmentsCover ==
  gdt # <<>> =>
    /\ Base(gdt[3]) = 0 /\ Base(gdt[4]) = 0
    /\ Limit(gdt[3]) >= CodeSize - 1
    /\ Limit(gdt[4]) >= DataSize - 1

(* The descriptor that a selector names, if it lies within the table.      *)
Selects(selector, d) ==
  /\ selector % 8 = 0
  /\ selector + 7 <= gdtSize
  /\ selector \div 8 + 1 \in DOMAIN gdt
  /\ d = gdt[selector \div 8 + 1]

Address(gate) ==
  Power16 * gate.handlerAddressHighBits + gate.handlerAddressLowBits

(* An interrupt gets to the stub for its vector: its gate is present and   *)
(* names a present segment of executable code (type 0x98 to 0x9F) in the   *)
(* table, and the stub's address lies within that segment.                 *)
GatesReachStubs ==
  idt # <<>> =>
    \A v \in Vectors : \E k \in DOMAIN gdt :
      /\ Selects(idt[v].gdt_codeSegmentSelector, gdt[k])
      /\ gdt[k][6] \div 8 = 19
      /\ idt[v].access \div 128 = 1
      /\ Base(gdt[k]) + Address(idt[v]) = Entry[Handler(v)]
      /\ Address(idt[v]) <= Limit(gdt[k])

=============================================================================
