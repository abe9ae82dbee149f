------------------------------ MODULE BootProofs ------------------------------
(***************************************************************************)
(* Theorems about the parts of Boot.tla and about the whole.               *)
(*                                                                         *)
(* Gdt.tla: what a descriptor keeps of the base and of the limit it is     *)
(* made from, for every base and limit, and that interrupts get to their   *)
(* stubs wherever these are linked.  Pci.tla: for every number of buses,   *)
(* devices and functions that their addresses have room for, and whatever  *)
(* is plugged in, the scan reports what is there, once.  Vga.tla: for      *)
(* every mode and pixel that is asked for, the registers are loaded before *)
(* anything is drawn, those of the attribute controller only on adapters   *)
(* that take port 0x3C1 for 0x3C0.                                         *)
(***************************************************************************)
EXTENDS Boot, SequenceTheorems, TLAPS

-----------------------------------------------------------------------------
(* The segment descriptors and the gates.                                  *)

Uint32 == {k \in Nat : k < 256 * Power24}

-----------------------------------------------------------------------------
(* A number is a byte and a number of 256s.                                *)
LEMMA Quotient ==
  ASSUME NEW b \in Nat
  PROVE  /\ b \div 256 \in Nat /\ b % 256 \in 0 .. 255
         /\ b = 256 * (b \div 256) + (b % 256)
  BY SMT

(* A byte is its own lowest byte.                                          *)
LEMMA Small ==
  ASSUME NEW b \in 0 .. 255
  PROVE  b % 256 = b
<1>1. b \in Nat BY SMT
<1> DEFINE q == b \div 256
<1>2. q \in Nat /\ b % 256 \in 0 .. 255 /\ b = 256 * q + (b % 256)
  BY <1>1, Quotient
<1> HIDE DEF q
<1>3. q = 0 BY <1>2, SMT
<1> QED BY <1>2, <1>3, SMT

(* A number of 32 bits is the sum of its four bytes.                       *)
LEMMA FourBytes ==
  ASSUME NEW b \in Nat, b < 256 * 16777216
  PROVE  16777216 * ((b \div 16777216) % 256) + 65536 * ((b \div 65536) % 256)
           + 256 * ((b \div 256) % 256) + (b % 256) = b
<1> DEFINE q1 == b \div 256
           q2 == q1 \div 256
           q3 == q2 \div 256
<1>1. q1 \in Nat /\ b % 256 \in 0 .. 255 /\ b = 256 * q1 + (b % 256)
  BY Quotient
<1>2. q2 \in Nat /\ q1 % 256 \in 0 .. 255 /\ q1 = 256 * q2 + (q1 % 256)
  BY <1>1, Quotient
<1>3. q3 \in Nat /\ q2 % 256 \in 0 .. 255 /\ q2 = 256 * q3 + (q2 % 256)
  BY <1>2, Quotient
<1>4. b \div 65536 = q2 /\ b \div 16777216 = q3
  BY SMT
<1> HIDE DEF q1, q2, q3
<1>5. q3 \in 0 .. 255 BY <1>1, <1>2, <1>3, SMT
<1>6. q3 % 256 = q3 BY <1>5, Small
<1> QED BY <1>1, <1>2, <1>3, <1>4, <1>6, SMT DEF q1

(* The four bytes of the base, in their places in a descriptor, are enough *)
(* to get the base back: Base of SegmentDescriptor returns what the        *)
(* constructor was given, for every base of 32 bits.                       *)
THEOREM BaseRoundTrip ==
  ASSUME NEW base \in Uint32, NEW limit \in Uint32, NEW type \in 0 .. 255
  PROVE  Base(SegmentDescriptor(base, limit, type)) = base
<1> DEFINE d == SegmentDescriptor(base, limit, type)
<1>1. /\ d[3] = base % 256 /\ d[4] = (base \div 256) % 256
      /\ d[5] = (base \div Power16) % 256 /\ d[8] = (base \div Power24) % 256
  BY SMT DEF SegmentDescriptor
<1>2. Power16 = 65536 /\ Power24 = 16777216
  BY SMT DEF Power16, Power24
<1>3. base \in Nat /\ base < 256 * 16777216
  BY <1>2, SMT DEF Uint32
<1>4. 16777216 * ((base \div 16777216) % 256)
        + 65536 * ((base \div 65536) % 256)
        + 256 * ((base \div 256) % 256) + (base % 256) = base
  BY <1>3, FourBytes
<1> QED BY <1>1, <1>2, <1>4, SMT DEF Base

(* The limit is read back as it was given, if it is counted in bytes, only *)
(* if its two bytes are equal: the constructor stores the lowest one twice *)
(* and the other one never.                                                *)
THEOREM LimitRoundTrip ==
  ASSUME NEW base \in Uint32, NEW limit \in 0 .. (Power16 - 1),
         NEW type \in 0 .. 255
  PROVE  Limit(SegmentDescriptor(base, limit, type)) = limit
           <=> limit \div 256 = limit % 256
<1> DEFINE d == SegmentDescriptor(base, limit, type)
<1>1. limit \in Nat /\ limit < 65536 /\ limit <= Power16 /\ Power16 = 65536
  BY SMT DEF Power16
<1>2. /\ d[1] = limit % 256 /\ d[2] = limit % 256 /\ d[7] = 64
  BY <1>1, SMT DEF SegmentDescriptor, Encoded
<1>3. d[7] % 16 = 0 /\ d[7] \div 64 = 1
  BY <1>2, SMT
<1>4. limit \div 256 \in Nat /\ limit % 256 \in 0 .. 255
      /\ limit = 256 * (limit \div 256) + (limit % 256)
  BY <1>1, Quotient
<1>5. Limit(d) = Power16 * 0 + 256 * (limit % 256) + (limit % 256)
  BY <1>2, <1>3, SMT DEF Limit
<1> DEFINE q == limit \div 256
           r == limit % 256
<1>6. Limit(d) = 256 * r + r
  BY <1>1, <1>4, <1>5, SMT
<1>7. q \in Nat /\ r \in 0 .. 255 /\ limit = 256 * q + r
  BY <1>4
<1> HIDE DEF q, r, d
<1>8. Limit(d) = limit <=> q = r
  BY <1>6, <1>7, SMT
<1> QED BY <1>8 DEF q, r, d


-----------------------------------------------------------------------------
(* The table that the constructor of GlobalDescriptorTable makes.          *)
Table ==
  <<SegmentDescriptor(0, 0, 0), SegmentDescriptor(0, 0, 0),
    SegmentDescriptor(0, CodeSize, \h9A), SegmentDescriptor(0, DataSize, \h92)>>

Gates == [v \in Vectors |-> Gate(CodeSegmentSelector, Entry[Handler(v)])]

(* The inductive invariant: descriptors and gates are absent or as their   *)
(* constructors make them, the descriptors first.                          *)
Made ==
  /\ gdt = <<>> \/ (gdt = Table /\ gdtSize = 32)
  /\ idt = <<>> \/ (gdt = Table /\ idt = Gates)

(* The eight bytes of the descriptor of the segment of code.               *)
LEMMA CodeDescriptor ==
  SegmentDescriptor(0, CodeSize, \h9A) = <<255, 255, 0, 0, 0, 154, 192, 0>>
<1>1. CodeSize = 4096 * 16384
  BY SMT DEF CodeSize
<1>2. ~(CodeSize <= Power16) /\ CodeSize % 4096 = 0 /\ CodeSize \div 4096 = 16384
  BY <1>1, SMT DEF Power16
<1>3. Encoded(CodeSize) = 16383
  BY <1>2, SMT DEF Encoded
<1>4. Encoded(CodeSize) % 256 = 255
  BY <1>3, SMT
<1>5. 0 % 256 = 0 /\ (0 \div 256) % 256 = 0 /\ (0 \div Power16) % 256 = 0
      /\ (0 \div Power24) % 256 = 0
  BY SMT DEF Power16, Power24
<1> QED BY <1>2, <1>4, <1>5, SMT DEF SegmentDescriptor

(* The eight bytes of the descriptor of the segment of data.               *)
LEMMA DataDescriptor ==
  SegmentDescriptor(0, DataSize, \h92) = <<223, 223, 0, 0, 0, 146, 192, 0>>
<1>1. DataSize = 4096 * 32224
  BY SMT DEF DataSize
<1>2. ~(DataSize <= Power16) /\ DataSize % 4096 = 0 /\ DataSize \div 4096 = 32224
  BY <1>1, SMT DEF Power16
<1>3. Encoded(DataSize) = 32223
  BY <1>2, SMT DEF Encoded
<1>4. Encoded(DataSize) % 256 = 223
  BY <1>3, SMT
<1>5. 0 % 256 = 0 /\ (0 \div 256) % 256 = 0 /\ (0 \div Power16) % 256 = 0
      /\ (0 \div Power24) % 256 = 0
  BY SMT DEF Power16, Power24
<1> QED BY <1>2, <1>4, <1>5, SMT DEF SegmentDescriptor

(* Both begin at address zero, and cover what was asked for.               *)
LEMMA TableCovers ==
  /\ Base(Table[3]) = 0 /\ Base(Table[4]) = 0
  /\ Limit(Table[3]) >= CodeSize - 1
  /\ Limit(Table[4]) >= DataSize - 1
<1>1. Table[3] = <<255, 255, 0, 0, 0, 154, 192, 0>>
  BY CodeDescriptor, SMT DEF Table
<1>2. Table[4] = <<223, 223, 0, 0, 0, 146, 192, 0>>
  BY DataDescriptor, SMT DEF Table
<1>3. Base(Table[3]) = 0 /\ Base(Table[4]) = 0
  BY <1>1, <1>2, SMT DEF Base, Power16, Power24
<1>4. 192 \div 64 = 3 /\ 192 % 16 = 0
  BY SMT
<1>5. Limit(Table[3]) = 4096 * 65535 + 4095
  BY <1>1, <1>4, SMT DEF Limit, Power16
<1>6. Limit(Table[4]) = 4096 * 57311 + 4095
  BY <1>2, <1>4, SMT DEF Limit, Power16
<1> QED BY <1>3, <1>5, <1>6, SMT DEF CodeSize, DataSize

(* The size of the segment of code, known to be a number and by its value: *)
(* as two lemmas, so that a proof need not compute with it.                *)
LEMMA CodeSizeNat == CodeSize \in Nat
  BY SMT DEF CodeSize

(* 64 MiB.                                                                 *)
LEMMA CodeSizeValue == CodeSize = 65536 * 1024
  BY SMT DEF CodeSize

(* An address of 32 bits is put together again from the halves in a gate.  *)
LEMMA AddressRoundTrip ==
  ASSUME NEW handler \in Nat, handler < CodeSize, NEW selector
  PROVE  Address(Gate(selector, handler)) = handler
<1> DEFINE low == handler % 65536
           high == handler \div 65536
<1>1. Power16 = 65536
  BY SMT DEF Power16
<1> HIDE DEF low, high
<1>2. handler < 65536 * 1024
  BY CodeSizeValue, SMT
<1>3. high \in Nat /\ low \in Nat /\ handler = 65536 * high + low /\ low < 65536
  BY <1>2, SMT DEF low, high
<1>4. Address(Gate(selector, handler)) = 65536 * (high % 65536) + low
  BY <1>1, SMT DEF Address, Gate, low, high
<1>5. high < 1024
  BY <1>2, <1>3, SMT
<1>6. high % 65536 = high
  BY <1>3, <1>5, SMT
<1> QED BY <1>3, <1>4, <1>6, SMT

(* Each constructor runs once, and leaves what the other made alone.       *)
LEMMA MadeInvariant == GdtSpec => []Made
<1>1. GdtInit => Made
  BY SMT DEF GdtInit, Made
<1>2. Made /\ [GdtNext]_gdtVars => Made'
  <2> SUFFICES ASSUME Made, [GdtNext]_gdtVars PROVE Made'
    OBVIOUS
  <2>1. CASE GlobalDescriptorTable
    <3>1. Table # <<>>
      BY SMT DEF Table
    <3>2. idt = <<>>
      BY <2>1, <3>1, Zenon DEF GlobalDescriptorTable, Made
    <3>3. gdt' = Table /\ gdtSize' = 32 /\ idt' = idt
      BY <2>1, SMT DEF GlobalDescriptorTable, Table
    <3> QED BY <3>2, <3>3, Zenon DEF Made
  <2>2. CASE SetInterruptDescriptorTable
    <3>1. gdt' = gdt /\ gdtSize' = gdtSize /\ gdt # <<>> /\ idt' = Gates
      BY <2>2, Zenon DEF SetInterruptDescriptorTable, Gates
    <3> QED BY <3>1, Zenon DEF Made
  <2>3. CASE UNCHANGED gdtVars
    BY <2>3, Zenon DEF gdtVars, Made
  <2> QED BY <2>1, <2>2, <2>3, Zenon DEF GdtNext
<1> QED BY <1>1, <1>2, PTL DEF GdtSpec

(* The segments of code and data cover what was asked for.                 *)
THEOREM SegmentsCoverAlways == GdtSpec => []SegmentsCover
<1>1. Made => SegmentsCover
  BY TableCovers, Zenon DEF Made, SegmentsCover
<1> QED BY <1>1, MadeInvariant, PTL

(* Wherever the stubs are linked in the segment of code, and for every set *)
(* of vectors, an interrupt gets to the stub for its vector.               *)
THEOREM GatesReachStubsAlways == GdtSpec => []GatesReachStubs
<1>1. Made => GatesReachStubs
  <2> SUFFICES ASSUME Made, idt # <<>>, NEW v \in Vectors
               PROVE  \E k \in DOMAIN gdt :
                        /\ Selects(idt[v].gdt_codeSegmentSelector, gdt[k])
                        /\ gdt[k][6] \div 8 = 19
                        /\ idt[v].access \div 128 = 1
                        /\ Base(gdt[k]) + Address(idt[v]) = Entry[Handler(v)]
                        /\ Address(idt[v]) <= Limit(gdt[k])
    BY Zenon DEF GatesReachStubs
  <2> DEFINE stub == Entry[Handler(v)]
  <2>1. gdt = Table /\ gdtSize = 32 /\ idt = Gates
    <3>1. Table # <<>>
      BY SMT DEF Table
    <3> QED BY <3>1, Zenon DEF Made
  <2>2. idt[v] = Gate(CodeSegmentSelector, stub)
    BY <2>1, Zenon DEF Gates
  <2>3. Handler(v) \in Stubs
    BY Zenon DEF Handler, Stubs
  <2>4. stub \in 0 .. (CodeSize - 1)
    BY <2>3, GdtAssumption, Zenon
  <2> HIDE DEF stub
  <2>5. stub \in Nat /\ stub < CodeSize
    BY <2>4, CodeSizeNat, SMT
  <2>6. Address(idt[v]) = stub
    BY <2>2, <2>5, AddressRoundTrip, Zenon
  <2>7. /\ idt[v].gdt_codeSegmentSelector = 16 /\ idt[v].access = 142
    BY <2>2, SMT DEF Gate, CodeSegmentSelector
  <2>8. 3 \in DOMAIN gdt /\ gdt[3][6] = 154
    BY <2>1, CodeDescriptor, SMT DEF Table
  <2>9. Selects(idt[v].gdt_codeSegmentSelector, gdt[3])
    BY <2>1, <2>7, <2>8, SMT DEF Selects
  <2>10. Base(gdt[3]) = 0 /\ Limit(gdt[3]) >= CodeSize - 1
    BY <2>1, TableCovers, Zenon
  <2>11. gdt[3][6] \div 8 = 19 /\ idt[v].access \div 128 = 1
    BY <2>7, <2>8, SMT
  <2>12. Base(gdt[3]) + Address(idt[v]) = stub
    BY <2>5, <2>6, <2>10, SMT
  <2>13. Address(idt[v]) <= Limit(gdt[3])
    <3>1. Limit(gdt[3]) \in Int
      <4>1. gdt[3] = <<255, 255, 0, 0, 0, 154, 192, 0>>
        BY <2>1, CodeDescriptor, SMT DEF Table
      <4> QED BY <4>1, SMT DEF Limit, Power16
    <3> QED BY CodeSizeNat, <2>5, <2>6, <2>10, <3>1, SMT
  <2> QED BY <2>8, <2>9, <2>11, <2>12, <2>13, Zenon DEF stub
<1> QED BY <1>1, MadeInvariant, PTL

-----------------------------------------------------------------------------
(* The VGA driver.  The table is only known by what follows.               *)

(* As many registers as the loops turn; three of them matter.              *)
LEMMA TableLengths ==
  /\ Groups = {"misc", "seq", "crtc", "gc", "ac"}
  /\ DOMAIN Count = Groups
  /\ \A g \in Groups : /\ Count[g] \in 1 .. 25
                       /\ DOMAIN g_320x200x256[g] = 1 .. Count[g]
                       /\ \A k \in 1 .. Count[g] : g_320x200x256[g][k] \in Nat
<1>1. Groups = {"misc", "seq", "crtc", "gc", "ac"}
  BY DEF Groups, g_320x200x256
<1>2. DOMAIN Count = {"misc", "seq", "crtc", "gc", "ac"}
      /\ Count.misc = 1 /\ Count.seq = 5 /\ Count.crtc = 25 /\ Count.gc = 9
      /\ Count.ac = 21
  BY DEF Count
<1>3. g_320x200x256.misc \in Seq(Nat) /\ Len(g_320x200x256.misc) = 1
  BY DEF g_320x200x256
<1>4. g_320x200x256.seq \in Seq(Nat) /\ Len(g_320x200x256.seq) = 5
  BY DEF g_320x200x256
<1>5. g_320x200x256.crtc \in Seq(Nat) /\ Len(g_320x200x256.crtc) = 25
  BY DEF g_320x200x256
<1>6. g_320x200x256.gc \in Seq(Nat) /\ Len(g_320x200x256.gc) = 9
  BY DEF g_320x200x256
<1>7. g_320x200x256.ac \in Seq(Nat) /\ Len(g_320x200x256.ac) = 21
  BY DEF g_320x200x256
<1>8. ASSUME NEW g \in Groups
      PROVE  /\ Count[g] \in 1 .. 25
             /\ g_320x200x256[g] \in Seq(Nat)
             /\ Len(g_320x200x256[g]) = Count[g]
  <2>1. {1, 5, 25, 9, 21} \subseteq 1 .. 25 BY SMT
  <2>2. g = "misc" \/ g = "seq" \/ g = "crtc" \/ g = "gc" \/ g = "ac"
    BY <1>1
  <2> QED BY <1>2, <1>3, <1>4, <1>5, <1>6, <1>7, <2>1, <2>2, Zenon
<1>9. \A t \in Seq(Nat) : /\ DOMAIN t = 1 .. Len(t)
                          /\ \A k \in 1 .. Len(t) : t[k] \in Nat
  OBVIOUS
<1> QED BY <1>1, <1>2, <1>8, <1>9, Zenon

(* Bit 7 of registers 3 and 0x11, and where the memory is.                 *)
LEMMA TableBits ==
  /\ g_320x200x256.crtc[4] = 130 /\ g_320x200x256.crtc[18] = 14
  /\ g_320x200x256.gc[7] = 5
  BY DEF g_320x200x256

-----------------------------------------------------------------------------
(* The inductive invariant of the VGA driver.                              *)

Banks == {a \in [Groups -> Seq(Nat)] : \A g \in Groups : Len(a[g]) = Count[g]}

VgaTypes ==
  /\ mode_set \in BOOLEAN /\ aliased \in BOOLEAN
  /\ writing \in Groups \cup {"idle", "unlock", "end"}
  /\ n \in Nat
  /\ IF writing \in Groups THEN n \in 1 .. Count[writing] ELSE n = 1
  /\ adapter \in Banks
  /\ registers = g_320x200x256

(* The groups that WriteRegisters has written when it is at writing.       *)
Written ==
  CASE writing = "seq" -> {"misc"}
    [] writing \in {"unlock", "crtc"} -> {"misc", "seq"}
    [] writing = "gc" -> {"misc", "seq", "crtc"}
    [] writing = "ac" -> {"misc", "seq", "crtc", "gc"}
    [] writing = "end" \/ (writing = "idle" /\ mode_set) -> Groups
    [] OTHER -> {}

(* The first registers of a group, up to the m-th, are as in the table: of *)
(* the attribute controller, only if the adapter understands the driver.   *)
Right(g, m) ==
  g # "ac" \/ aliased =>
    \A k \in 1 .. m : adapter[g][k] = g_320x200x256[g][k]

VgaProgress ==
  /\ \A g \in Written : Right(g, Count[g])
  /\ writing \in Groups => Right(writing, n - 1)
  /\ writing = "crtc" => adapter.crtc[18] < 128
  /\ writing = "idle" /\ mode_set /\ aliased => attribute >= 32

VInv == VgaTypes /\ VgaProgress /\ PixelInFrameBuffer

(* A register of a bank is written, and no other changes.                  *)
LEMMA BankWrite ==
  ASSUME NEW a \in Banks, NEW g \in Groups, NEW m \in 1 .. Count[g],
         NEW v \in Nat
  PROVE  /\ [a[g] EXCEPT ![m] = v] \in Seq(Nat)
         /\ Len([a[g] EXCEPT ![m] = v]) = Count[g]
         /\ [a[g] EXCEPT ![m] = v][m] = v
         /\ \A k \in 1 .. Count[g] :
              k # m => [a[g] EXCEPT ![m] = v][k] = a[g][k]
<1>1. a[g] \in Seq(Nat) /\ Len(a[g]) = Count[g] BY DEF Banks
<1>2. m \in 1 .. Len(a[g]) BY <1>1
<1>3. /\ [a[g] EXCEPT ![m] = v] \in Seq(Nat)
      /\ Len([a[g] EXCEPT ![m] = v]) = Len(a[g])
      /\ \A j \in 1 .. Len(a[g]) :
           [a[g] EXCEPT ![m] = v][j] = IF j = m THEN v ELSE a[g][j]
  BY <1>1, <1>2, ExceptSeq
<1> QED BY <1>1, <1>2, <1>3, Zenon

(* A group of a bank is replaced.                                          *)
LEMMA BankReplace ==
  ASSUME NEW a \in Banks, NEW g \in Groups, NEW b \in Seq(Nat),
         Len(b) = Count[g], NEW c, c = [a EXCEPT ![g] = b]
  PROVE  /\ c \in Banks
         /\ c[g] = b
         /\ \A h \in Groups \ {g} : c[h] = a[h]
BY DEF Banks

(* What the BIOS leaves is a bank.                                         *)
LEMMA AdaptersAreBanks == Adapters \subseteq Banks
<1> SUFFICES ASSUME NEW a \in Adapters PROVE a \in Banks
  OBVIOUS
<1> DEFINE Left(l, m) ==
             [g \in Groups |-> [k \in DOMAIN g_320x200x256[g] |->
                CASE g = "crtc" /\ k = 18 -> l
                  [] g = "gc" /\ k = 7 -> m
                  [] OTHER -> \h77]]
<1>a. Adapters = {Left(l, m) : l \in {0, 128}, m \in {0, 14}}
  BY DEF Adapters
<1> HIDE DEF Left
<1>b. PICK lock \in {0, 128}, map \in {0, 14} : a = Left(lock, map)
  BY <1>a, SMT
<1> DEFINE F(g) == [k \in DOMAIN g_320x200x256[g] |->
                      CASE g = "crtc" /\ k = 18 -> lock
                        [] g = "gc" /\ k = 7 -> map
                        [] OTHER -> \h77]
<1>1. ASSUME NEW g \in Groups
      PROVE  F(g) \in Seq(Nat) /\ Len(F(g)) = Count[g]
  <2>1. Count[g] \in Nat /\ DOMAIN g_320x200x256[g] = 1 .. Count[g]
    <3>1. Count[g] \in 1 .. 25 /\ DOMAIN g_320x200x256[g] = 1 .. Count[g]
      BY TableLengths
    <3> QED BY <3>1
  <2>2. F(g) \in [1 .. Count[g] -> Nat]
    BY <2>1, SMT
  <2> HIDE DEF F
  <2> QED BY <2>1, <2>2, SMT
<1> HIDE DEF F
<1>2. a = [g \in Groups |-> F(g)] BY <1>b, Zenon DEF F, Left
<1> QED BY <1>1, <1>2, Zenon DEF Banks

(* The next turn of a loop, or the group after it.                         *)
LEMMA Turns ==
  ASSUME VgaTypes, writing \in Groups, Turn
  PROVE  \/ /\ n < Count[writing] /\ n' = n + 1 /\ writing' = writing
            /\ n' \in 1 .. Count[writing]
         \/ /\ n = Count[writing] /\ n' = 1
            /\ \/ writing = "misc" /\ writing' = "seq"
               \/ writing = "seq" /\ writing' = "unlock"
               \/ writing = "crtc" /\ writing' = "gc"
               \/ writing = "gc" /\ writing' = "ac"
               \/ writing = "ac" /\ writing' = "end"
<1>1. n \in 1 .. Count[writing] /\ Count[writing] \in 1 .. 25
  BY TableLengths DEF VgaTypes
<1>2. CASE n < Count[writing]
  BY <1>1, <1>2, SMT DEF Turn
<1>3. CASE ~(n < Count[writing])
  <2>1. n = Count[writing] BY <1>1, <1>3, SMT
  <2>2. n' = 1 /\ writing' = After[writing] BY <1>3 DEF Turn
  <2>3. \/ writing = "misc" \/ writing = "seq" \/ writing = "crtc"
        \/ writing = "gc" \/ writing = "ac"
    BY TableLengths
  <2> QED BY <2>1, <2>2, <2>3 DEF After
<1> QED BY <1>2, <1>3

(* A step that loads one register of the group that is being written.      *)
LEMMA RegisterLoaded ==
  ASSUME VInv, writing \in Groups, Turn,
         UNCHANGED <<vgaDriver>>, adapter' \in Banks,
         \A g \in Groups \ {writing} : adapter'[g] = adapter[g],
         writing # "ac" \/ aliased =>
           /\ adapter'[writing][n] = g_320x200x256[writing][n]
           /\ \A k \in 1 .. Count[writing] :
                k # n => adapter'[writing][k] = adapter[writing][k],
         writing = "crtc" => adapter'.crtc[18] < 128
  PROVE  VInv'
<1> USE DEF VInv
<1>1. UNCHANGED <<mode_set, registers, pixel, aliased>> BY DEF vgaDriver
<1>2. n \in 1 .. Count[writing] /\ Count[writing] \in 1 .. 25
  BY TableLengths DEF VgaTypes
<1>3. Groups = {"misc", "seq", "crtc", "gc", "ac"} /\ DOMAIN Count = Groups
      /\ \A g \in Groups : Count[g] \in 1 .. 25
  BY TableLengths
<1>4. VgaTypes'
  <2>1. CASE writing' = writing
    <3>1. n' \in 1 .. Count[writing] BY <2>1, <1>3, Turns
    <3> QED BY <1>1, <2>1, <3>1, SMT DEF VgaTypes
  <2>2. CASE writing' # writing
    <3>1. n' = 1 /\ writing' \in {"seq", "unlock", "gc", "ac", "end"}
      BY <2>2, Turns
    <3>2. writing' \in Groups \cup {"idle", "unlock", "end"}
      BY <1>3, <3>1
    <3>3. writing' \in Groups => n' \in 1 .. Count[writing']
      <4>1. \A c \in 1 .. 25 : 1 \in 1 .. c BY SMT
      <4> QED BY <1>3, <3>1, <4>1
    <3> QED BY <1>1, <3>1, <3>2, <3>3 DEF VgaTypes
  <2> QED BY <2>1, <2>2
<1>6. writing # "ac" \/ aliased =>
        \A k \in 1 .. n : adapter'[writing][k] = g_320x200x256[writing][k]
  <2> SUFFICES ASSUME writing # "ac" \/ aliased, NEW k \in 1 .. n
               PROVE  adapter'[writing][k] = g_320x200x256[writing][k]
    OBVIOUS
  <2>1. k = n \/ k \in 1 .. (n - 1) BY <1>2, SMT
  <2>2. k \in 1 .. Count[writing] BY <1>2, SMT
  <2>3. Right(writing, n - 1) BY DEF VgaProgress
  <2> QED BY <2>1, <2>2, <2>3 DEF Right
<1>7. writing \notin Written
  BY <1>3, Zenon DEF Written
<1>8. \A g \in Written : g \in Groups \ {writing} /\ Right(g, Count[g])'
  <2>1. Written \subseteq Groups
    BY <1>3 DEF Written
  <2> SUFFICES ASSUME NEW g \in Written
               PROVE  Right(g, Count[g])'
    BY <1>7, <2>1
  <2>2. Right(g, Count[g]) /\ adapter'[g] = adapter[g]
    BY <1>7, <2>1 DEF VgaProgress
  <2> QED BY <1>1, <2>2 DEF Right
<1>9. CASE writing' = writing
  <2>1. n' = n + 1 BY <1>3, <1>9, Turns
  <2>2. n' - 1 = n BY <1>2, <2>1, SMT
  <2>3. Written' = Written BY <1>1, <1>9 DEF Written
  <2>4. Right(writing, n - 1)' BY <1>1, <1>6, <1>9, <2>2 DEF Right
  <2>5. writing # "idle" BY <1>3
  <2> QED BY <1>1, <1>4, <1>8, <1>9, <2>3, <2>4, <2>5
          DEF VgaProgress, PixelInFrameBuffer
<1>10. CASE writing' # writing
  <2>1. /\ n = Count[writing] /\ n' = 1
        /\ \/ writing = "misc" /\ writing' = "seq"
           \/ writing = "seq" /\ writing' = "unlock"
           \/ writing = "crtc" /\ writing' = "gc"
           \/ writing = "gc" /\ writing' = "ac"
           \/ writing = "ac" /\ writing' = "end"
    BY <1>10, Turns
  <2>2. Written' \subseteq Written \cup {writing}
    BY <1>3, <2>1 DEF Written
  <2>3. \A g \in Written' : Right(g, Count[g])'
    BY <1>1, <1>6, <1>8, <2>1, <2>2 DEF Right
  <2>4. Right(writing, n - 1)'
    <3>1. 1 .. (n' - 1) = {} BY <2>1, SMT
    <3> QED BY <3>1 DEF Right
  <2>5. writing' # "crtc" /\ writing' # "idle" BY <2>1
  <2> QED BY <1>1, <1>4, <2>3, <2>4, <2>5
          DEF VgaProgress, PixelInFrameBuffer
<1> QED BY <1>9, <1>10

(* The three groups whose registers are simply written.                    *)
LEMMA WriteGroupKeeps == ASSUME VInv, WriteGroup PROVE VInv'
<1> DEFINE v == g_320x200x256[writing][n]
           b == [adapter[writing] EXCEPT ![n] = v]
<1>1. writing \in {"misc", "seq", "gc"} /\ writing \in Groups
  BY TableLengths DEF WriteGroup
<1>2. n \in 1 .. Count[writing] /\ adapter \in Banks
  BY <1>1 DEF VInv, VgaTypes
<1>3. v \in Nat BY <1>1, <1>2, TableLengths
<1>4. adapter' = [adapter EXCEPT ![writing] = b]
  BY DEF WriteGroup, VInv, VgaTypes
<1>5. /\ b \in Seq(Nat) /\ Len(b) = Count[writing] /\ b[n] = v
      /\ \A k \in 1 .. Count[writing] : k # n => b[k] = adapter[writing][k]
  BY <1>1, <1>2, <1>3, BankWrite
<1> HIDE DEF b
<1>6. /\ adapter' \in Banks /\ adapter'[writing] = b
      /\ \A g \in Groups \ {writing} : adapter'[g] = adapter[g]
  <2>1. b \in Seq(Nat) /\ Len(b) = Count[writing] BY <1>5
  <2> QED BY <1>1, <1>2, <1>4, <2>1 DEF Banks
<1>7. Turn /\ UNCHANGED vgaDriver BY DEF WriteGroup
<1> QED BY <1>1, <1>5, <1>6, <1>7, RegisterLoaded

(* The CRT controller, which has been unlocked and stays so.               *)
LEMMA WriteCrtcKeeps == ASSUME VInv, WriteCrtc PROVE VInv'
<1> DEFINE v == g_320x200x256.crtc[n]
           b == [adapter.crtc EXCEPT ![n] = v]
<1>1. writing = "crtc" /\ "crtc" \in Groups
  BY TableLengths DEF WriteCrtc
<1>2. n \in 1 .. Count.crtc /\ adapter \in Banks
  BY <1>1 DEF VInv, VgaTypes
<1>3. v \in Nat BY <1>1, <1>2, TableLengths
<1>4. adapter.crtc \in Seq(Nat) /\ Len(adapter.crtc) = Count.crtc
      /\ adapter.crtc[18] < 128
  BY <1>1, <1>2 DEF Banks, VInv, VgaProgress
<1>5. 18 \in 1 .. Count.crtc BY SMT DEF Count
<1>6. adapter.crtc[18] \in Nat
  <2>1. \A t \in Seq(Nat) : \A k \in 1 .. Len(t) : t[k] \in Nat OBVIOUS
  <2> QED BY <1>4, <1>5, <2>1
<1>7. ~Bit7(adapter.crtc[18]) BY <1>4, <1>6, SMT DEF Bit7
<1>8. CrtWrite(adapter.crtc, n, v) = b BY <1>7 DEF CrtWrite
<1>9. adapter' = [adapter EXCEPT !.crtc = b]
  BY <1>8 DEF WriteCrtc, VInv, VgaTypes
<1>10. /\ b \in Seq(Nat) /\ Len(b) = Count.crtc /\ b[n] = v
       /\ \A k \in 1 .. Count.crtc : k # n => b[k] = adapter.crtc[k]
  BY <1>1, <1>2, <1>3, BankWrite
<1>11. b[18] < 128
  <2>1. CASE n = 18
    <3>1. b[18] = 14 BY <1>10, <2>1, TableBits
    <3> QED BY <3>1, SMT
  <2>2. CASE n # 18 BY <1>4, <1>5, <1>10, <2>2
  <2> QED BY <2>1, <2>2
<1> HIDE DEF b
<1>12. /\ adapter' \in Banks /\ adapter'.crtc = b
       /\ \A g \in Groups \ {"crtc"} : adapter'[g] = adapter[g]
  BY <1>1, <1>2, <1>9, <1>10, BankReplace
<1>13. Turn /\ UNCHANGED vgaDriver BY DEF WriteCrtc
<1> QED BY <1>1, <1>10, <1>11, <1>12, <1>13, RegisterLoaded

(* The attribute controller: an adapter that takes the index loads the     *)
(* register, one that ignores it loads none.                               *)
LEMMA WriteAttributeKeeps == ASSUME VInv, WriteAttribute PROVE VInv'
<1> DEFINE v == g_320x200x256.ac[n]
           b == [adapter.ac EXCEPT ![n] = v]
           s0 == [awaits |-> "index", index |-> attribute, ac |-> adapter.ac]
           s1 == AttributeIndexPort(s0, n - 1)
           s == AttributePort(s1, v)
<1>1. writing = "ac" /\ "ac" \in Groups
  BY TableLengths DEF WriteAttribute
<1>2. n \in 1 .. Count.ac /\ adapter \in Banks /\ registers.ac[n] = v
  BY <1>1 DEF VInv, VgaTypes
<1>3. v \in Nat BY <1>1, <1>2, TableLengths
<1>4. adapter.ac \in Seq(Nat) /\ Len(adapter.ac) = Count.ac
  BY <1>1, <1>2 DEF Banks
<1>5. n \in 1 .. 21 /\ Count.ac = 21 BY <1>2 DEF Count
<1>6. Reset(Attributes) = s0 BY DEF Reset, Attributes
<1>7. adapter' = [adapter EXCEPT !.ac = s.ac]
  BY <1>2, <1>6 DEF WriteAttribute, BecomeAttributes
<1>8. /\ b \in Seq(Nat) /\ Len(b) = Count.ac /\ b[n] = v
      /\ \A k \in 1 .. Count.ac : k # n => b[k] = adapter.ac[k]
  BY <1>1, <1>2, <1>3, BankWrite
<1>9. CASE aliased
  <2>1. (n - 1) % 64 = n - 1 /\ (n - 1) % 32 = n - 1 /\ n - 1 < 21
        /\ (n - 1) + 1 = n
    BY <1>5, SMT
  <2>2. s1 = [awaits |-> "data", index |-> n - 1, ac |-> adapter.ac]
    BY <1>9, <2>1 DEF AttributeIndexPort, AttributePort
  <2> HIDE DEF s1
  <2>3. s.ac = b
    <3>1. /\ s1.awaits # "index" /\ s1.ac = adapter.ac
          /\ s1.index % 32 < Len(s1.ac) /\ (s1.index % 32) + 1 = n
      BY <1>4, <1>5, <2>1, <2>2
    <3>2. s = [s1 EXCEPT !.awaits = "index",
                         !.ac = [s1.ac EXCEPT ![(s1.index % 32) + 1] = v]]
      BY <3>1, Zenon DEF AttributePort
    <3>3. s = [s1 EXCEPT !.awaits = "index", !.ac = b]
      BY <3>1, <3>2, Zenon
    <3> HIDE DEF s, b
    <3> QED BY <2>2, <3>3
  <2> HIDE DEF b, s
  <2>4. /\ adapter' \in Banks /\ adapter'.ac = b
        /\ \A g \in Groups \ {"ac"} : adapter'[g] = adapter[g]
    BY <1>1, <1>2, <1>7, <1>8, <2>3, BankReplace
  <2>5. Turn /\ UNCHANGED vgaDriver BY DEF WriteAttribute
  <2> QED BY <1>1, <1>8, <2>4, <2>5, RegisterLoaded
<1>10. CASE ~aliased
  <2>1. s.ac = adapter.ac
    BY <1>10 DEF AttributeIndexPort, AttributePort
  <2> HIDE DEF s
  <2>2. /\ adapter' \in Banks
        /\ \A g \in Groups \ {"ac"} : adapter'[g] = adapter[g]
    BY <1>1, <1>2, <1>4, <1>7, <2>1, BankReplace
  <2>3. Turn /\ UNCHANGED vgaDriver BY DEF WriteAttribute
  <2> QED BY <1>1, <1>10, <2>2, <2>3, RegisterLoaded
<1> QED BY <1>9, <1>10

(* Unlocking the CRT controller does not change the table.                 *)
LEMMA UnlockKeeps == ASSUME VInv, Unlock PROVE VInv'
<1> DEFINE T == g_320x200x256
           a == adapter.crtc
           c == CrtWrite(a, 4, SetBit7(a[4]))
           d == CrtWrite(c, 18, ClearBit7(c[18]))
<1>1. writing = "unlock" /\ writing' = "crtc" /\ "crtc" \in Groups
  BY TableLengths DEF Unlock, After
<1>2. adapter \in Banks /\ n = 1 /\ registers = T
  <2>1. "unlock" \notin Groups BY TableLengths
  <2> QED BY <1>1, <2>1 DEF VInv, VgaTypes
<1>3. a \in Seq(Nat) /\ Len(a) = 25
  <2>1. Count.crtc = 25 BY DEF Count
  <2> QED BY <1>1, <1>2, <2>1 DEF Banks
<1>4. \A t \in Seq(Nat), e \in Nat : \A k \in 1 .. Len(t) :
         /\ t[k] \in Nat
         /\ [t EXCEPT ![k] = e] \in Seq(Nat)
         /\ Len([t EXCEPT ![k] = e]) = Len(t)
         /\ [t EXCEPT ![k] = e][k] = e
  <2> SUFFICES ASSUME NEW t \in Seq(Nat), NEW e \in Nat, NEW k \in 1 .. Len(t)
               PROVE  /\ t[k] \in Nat
                      /\ [t EXCEPT ![k] = e] \in Seq(Nat)
                      /\ Len([t EXCEPT ![k] = e]) = Len(t)
                      /\ [t EXCEPT ![k] = e][k] = e
    OBVIOUS
  <2>1. t[k] \in Nat OBVIOUS
  <2> QED BY <2>1, ExceptSeq
<1>5. 4 \in 1 .. 25 /\ 18 \in 1 .. 25 BY SMT
<1>6. a[4] \in Nat /\ SetBit7(a[4]) \in Nat
  <2>1. a[4] \in Nat BY <1>3, <1>4, <1>5
  <2> QED BY <2>1, SMT DEF SetBit7
<1>7. c \in Seq(Nat) /\ Len(c) = 25
  <2>1. c = a \/ c = [a EXCEPT ![4] = SetBit7(a[4])] BY DEF CrtWrite
  <2> QED BY <1>3, <1>4, <1>5, <1>6, <2>1
<1> HIDE DEF c
<1>8. c[18] \in Nat
  <2>1. 18 \in 1 .. Len(c) BY <1>5, <1>7, Zenon
  <2> QED BY <1>7, <2>1, ElementOfSeq, Zenon
<1>9. ClearBit7(c[18]) \in Nat /\ ClearBit7(c[18]) < 128
  BY <1>8, SMT DEF ClearBit7
<1>10. d = [c EXCEPT ![18] = ClearBit7(c[18])]
  <2>1. ~(18 <= 8) BY SMT
  <2> QED BY <2>1, Zenon DEF CrtWrite
<1>11. d \in Seq(Nat) /\ Len(d) = 25 /\ d[18] < 128
  <2>1. d[18] = ClearBit7(c[18]) BY <1>4, <1>5, <1>7, <1>9, <1>10
  <2>2. d \in Seq(Nat) /\ Len(d) = 25
    BY <1>4, <1>5, <1>7, <1>9, <1>10
  <2> QED BY <1>9, <2>1, <2>2
<1>12. adapter' = [adapter EXCEPT !.crtc = d]
  BY DEF Unlock, Unlocked, c
<1> HIDE DEF d
<1>13. /\ adapter' \in Banks /\ adapter'.crtc = d
       /\ \A g \in Groups \ {"crtc"} : adapter'[g] = adapter[g]
  <2>1. Count.crtc = 25 BY DEF Count
  <2>2. d \in Seq(Nat) /\ Len(d) = Count.crtc BY <1>11, <2>1
  <2> QED BY <1>1, <1>2, <1>12, <2>2, BankReplace
<1>14. registers' = T
  <2>1. SetBit7(T.crtc[4]) = T.crtc[4] /\ ClearBit7(T.crtc[18]) = T.crtc[18]
    BY TableBits, SMT DEF SetBit7, ClearBit7, Bit7
  <2>2. registers' = [T EXCEPT !.crtc[4] = SetBit7(@),
                               !.crtc[18] = ClearBit7(@)]
    BY <1>2 DEF Unlock
  <2>3. registers' = [T EXCEPT !.crtc = [T.crtc EXCEPT ![4] = T.crtc[4],
                                                     ![18] = T.crtc[18]]]
    BY <2>1, <2>2
  <2>4. [T.crtc EXCEPT ![4] = T.crtc[4], ![18] = T.crtc[18]] = T.crtc
    <3>1. T.crtc \in Seq(Nat) BY DEF T, g_320x200x256
    <3> HIDE DEF T
    <3> QED BY <3>1
  <2>5. T = [g \in Groups |-> T[g]] BY DEF T, g_320x200x256, Groups
  <2>6. [T EXCEPT !.crtc = T.crtc] = T BY <2>5
  <2> QED BY <2>3, <2>4, <2>6
<1>15. VgaTypes'
  <2>1. 1 \in 1 .. Count.crtc BY SMT DEF Count
  <2> QED BY <1>1, <1>2, <1>13, <1>14, <2>1 DEF VInv, VgaTypes, Unlock
<1>16. Written = {"misc", "seq"} /\ Written' = {"misc", "seq"}
  BY <1>1 DEF Written
<1>17. \A g \in Written' : Right(g, Count[g])'
  BY <1>13, <1>16, TableLengths DEF VInv, VgaProgress, Right, Unlock
<1>18. Right(writing, n - 1)'
  <2>1. 1 .. (n' - 1) = {} BY <1>2, SMT DEF Unlock
  <2> QED BY <2>1 DEF Right
<1>19. VgaProgress'
  BY <1>1, <1>11, <1>13, <1>17, <1>18 DEF VgaProgress
<1> QED BY <1>15, <1>19 DEF VInv, PixelInFrameBuffer, Unlock

(* SetMode begins, or refuses.                                             *)
LEMMA SetModeKeeps ==
  ASSUME VInv, NEW mode \in Modes, SetMode(mode)
  PROVE  VInv'
<1> USE DEF VInv
<1>1. /\ Groups = {"misc", "seq", "crtc", "gc", "ac"}
      /\ writing = "idle" /\ n = 1
  BY TableLengths DEF SetMode, VgaTypes
<1>2. UNCHANGED <<n, adapter, aliased, attribute, pixel>> BY DEF SetMode
<1>3. CASE SupportsMode(mode)
  <2>1. /\ writing' = "misc" /\ registers' = g_320x200x256
        /\ mode_set' = mode_set
    BY <1>3 DEF SetMode
  <2>2. 1 \in 1 .. Count.misc BY SMT DEF Count
  <2>3. VgaTypes' BY <1>1, <1>2, <2>1, <2>2 DEF VgaTypes
  <2>4. Written' = {} BY <2>1 DEF Written
  <2>5. Right(writing, n - 1)'
    <3>1. 1 .. (n' - 1) = {} BY <1>1, <1>2, SMT
    <3> QED BY <3>1 DEF Right
  <2> QED BY <1>2, <2>1, <2>3, <2>4, <2>5 DEF VgaProgress, PixelInFrameBuffer
<1>4. CASE ~SupportsMode(mode)
  <2>1. mode_set' = FALSE /\ UNCHANGED <<writing, registers>>
    BY <1>4 DEF SetMode
  <2>2. VgaTypes' BY <1>1, <1>2, <2>1 DEF VgaTypes
  <2>3. Written' = {} BY <1>1, <2>1 DEF Written
  <2> QED BY <1>1, <1>2, <2>1, <2>2, <2>3 DEF VgaProgress, PixelInFrameBuffer
<1> QED BY <1>3, <1>4

(* The picture is switched on, if the adapter takes the index.             *)
LEMMA ModeSetKeeps == ASSUME VInv, ModeSet PROVE VInv'
<1> USE DEF VInv
<1> DEFINE s0 == [awaits |-> "index", index |-> attribute, ac |-> adapter.ac]
           s == AttributeIndexPort(s0, 32)
<1>1. Groups = {"misc", "seq", "crtc", "gc", "ac"} BY TableLengths
<1>2. /\ writing = "end" /\ writing' = "idle" /\ n = 1 /\ mode_set' = TRUE
      /\ UNCHANGED <<n, registers, pixel, aliased>>
      /\ adapter \in Banks
  BY <1>1 DEF ModeSet, VgaTypes
<1>3. Reset(Attributes) = s0 BY DEF Reset, Attributes
<1>4. s.ac = adapter.ac /\ (aliased => s.index = 32)
  BY SMT DEF AttributeIndexPort, AttributePort
<1>5. adapter' = [adapter EXCEPT !.ac = adapter.ac] /\ attribute' = s.index
  BY <1>3, <1>4 DEF ModeSet, BecomeAttributes
<1>6. adapter' = adapter
  <2>1. adapter \in [Groups -> Seq(Nat)] BY <1>2 DEF Banks
  <2> QED BY <1>5, <2>1
<1>7. VgaTypes' BY <1>1, <1>2, <1>6 DEF VgaTypes
<1>8. Written = Groups /\ Written' = Groups BY <1>2 DEF Written
<1>9. \A g \in Written' : Right(g, Count[g])'
  BY <1>2, <1>6, <1>8 DEF VgaProgress, Right
<1>10. aliased' => attribute' >= 32 BY <1>2, <1>4, <1>5, SMT
<1> QED BY <1>1, <1>2, <1>7, <1>9, <1>10 DEF VgaProgress, PixelInFrameBuffer

(* A group whose registers are all right is that of the table.             *)
LEMMA GroupLoaded ==
  ASSUME VInv, NEW g \in Written, g # "ac" \/ aliased
  PROVE  adapter[g] = g_320x200x256[g]
<1>1. g \in Groups BY TableLengths DEF Written
<1>2. adapter[g] \in Seq(Nat) /\ Len(adapter[g]) = Count[g]
  BY <1>1 DEF VInv, VgaTypes, Banks
<1>3. g_320x200x256[g] \in Seq(Nat) /\ Len(g_320x200x256[g]) = Count[g]
  <2>1. /\ g_320x200x256.misc \in Seq(Nat) /\ Len(g_320x200x256.misc) = 1
        /\ g_320x200x256.seq \in Seq(Nat) /\ Len(g_320x200x256.seq) = 5
    BY DEF g_320x200x256
  <2>2. g_320x200x256.crtc \in Seq(Nat) /\ Len(g_320x200x256.crtc) = 25
    BY DEF g_320x200x256
  <2>3. g_320x200x256.gc \in Seq(Nat) /\ Len(g_320x200x256.gc) = 9
    BY DEF g_320x200x256
  <2>4. g_320x200x256.ac \in Seq(Nat) /\ Len(g_320x200x256.ac) = 21
    BY DEF g_320x200x256
  <2>5. g = "misc" \/ g = "seq" \/ g = "crtc" \/ g = "gc" \/ g = "ac"
    BY <1>1, TableLengths
  <2>6. Count.misc = 1 /\ Count.seq = 5 /\ Count.crtc = 25 /\ Count.gc = 9
        /\ Count.ac = 21
    BY DEF Count
  <2> QED BY <2>1, <2>2, <2>3, <2>4, <2>5, <2>6, Zenon
<1>4. \A k \in 1 .. Count[g] : adapter[g][k] = g_320x200x256[g][k]
  BY DEF VInv, VgaProgress, Right
<1> QED BY <1>2, <1>3, <1>4, SeqEqual, Zenon

(* With the memory at 0xA0000, a pixel of the screen lies in it.           *)
LEMMA PutPixelKeeps ==
  ASSUME VInv, NEW x \in Xs, NEW y \in Ys, PutPixel(x, y)
  PROVE  VInv'
<1> USE DEF VInv
<1>1. /\ writing = "idle" /\ mode_set /\ pixel' = Pixel(x, y)
      /\ UNCHANGED <<mode_set, writing, n, registers, adapter, awaits,
                     attribute, aliased>>
  BY DEF PutPixel
<1>2. "gc" \in Written BY <1>1, TableLengths DEF Written
<1>3. adapter.gc[7] = 5
  <2>1. adapter.gc = g_320x200x256.gc BY <1>2, GroupLoaded
  <2> QED BY <2>1, TableBits
<1>4. ((5 \div 4) % 4) + 1 = 2 BY SMT
<1>5. GetFrameBufferSegment = 655360 BY <1>3, <1>4 DEF GetFrameBufferSegment
<1>6. x \in Nat /\ y \in Nat BY VgaAssumption
<1>7. pixel' = [x |-> x, y |-> y, address |-> 655360 + 320 * y + x]
  BY <1>1, <1>5 DEF Pixel
<1>8. PixelInFrameBuffer'
  <2> SUFFICES ASSUME x < 320, y < 200
               PROVE  /\ 655360 <= 655360 + 320 * y + x
                      /\ 655360 + 320 * y + x < 720896
    BY <1>7 DEF PixelInFrameBuffer
  <2> QED BY <1>6, SMT
<1>9. VgaTypes' BY <1>1 DEF VgaTypes
<1>10. VgaProgress' BY <1>1 DEF VgaProgress, Right, Written
<1> QED BY <1>8, <1>9, <1>10

(* A step of the VGA driver keeps its invariant.                           *)
LEMMA VgaStepKeeps == ASSUME VInv, VgaStep PROVE VInv'
BY SetModeKeeps, WriteGroupKeeps, UnlockKeeps, WriteCrtcKeeps,
   WriteAttributeKeeps, ModeSetKeeps, PutPixelKeeps DEF VgaStep, WriteRegisters

(* So does leaving it alone, or exchanging the adapter before it is used.  *)
LEMMA VgaLeftAlone ==
  ASSUME VInv, UNCHANGED <<mode_set, writing, n, registers, pixel>>,
         \/ UNCHANGED vgaVars
         \/ /\ writing = "idle" /\ ~mode_set
            /\ \E left \in Bios :
                 adapter' = left[1] /\ awaits' = left[2] /\ aliased' = left[3]
  PROVE  VInv'
<1> USE DEF VInv
<1>1. PixelInFrameBuffer' BY DEF PixelInFrameBuffer
<1>2. CASE UNCHANGED vgaVars
  <2>1. UNCHANGED <<adapter, attribute, aliased>>
    BY <1>2 DEF vgaVars, vgaDriver
  <2>2. VgaTypes' BY <2>1 DEF VgaTypes
  <2>3. VgaProgress' BY <2>1 DEF VgaProgress, Right, Written
  <2> QED BY <1>1, <2>2, <2>3
<1>3. CASE /\ writing = "idle" /\ ~mode_set
           /\ \E left \in Bios :
                adapter' = left[1] /\ awaits' = left[2] /\ aliased' = left[3]
  <2>1. adapter' \in Banks /\ aliased' \in BOOLEAN
    BY <1>3, AdaptersAreBanks DEF Bios
  <2>2. Groups = {"misc", "seq", "crtc", "gc", "ac"} BY TableLengths
  <2>3. VgaTypes' BY <1>3, <2>1, <2>2 DEF VgaTypes
  <2>4. Written' = {} BY <1>3 DEF Written
  <2> QED BY <1>1, <1>3, <2>2, <2>3, <2>4 DEF VgaProgress
<1> QED BY <1>2, <1>3

(* The driver begins idle.                                                 *)
LEMMA VgaStarts == ASSUME VgaInit PROVE VInv
<1>1. Groups = {"misc", "seq", "crtc", "gc", "ac"} BY TableLengths
<1>2. adapter \in Banks /\ aliased \in BOOLEAN
  BY AdaptersAreBanks DEF VgaInit, Bios
<1>3. VgaTypes BY <1>1, <1>2 DEF VgaInit, VgaTypes
<1>4. Written = {} BY DEF Written, VgaInit
<1> QED BY <1>1, <1>3, <1>4
        DEF VInv, VgaProgress, VgaInit, PixelInFrameBuffer, NoPixel

(* When SetMode has succeeded, all is loaded.                              *)
LEMMA VgaIsLoaded == ASSUME VInv PROVE Loaded
<1> SUFFICES ASSUME writing = "idle", mode_set
             PROVE  /\ \A g \in Groups \ {"ac"} : adapter[g] = g_320x200x256[g]
                    /\ aliased => adapter.ac = g_320x200x256.ac
                                  /\ attribute >= 32
  BY DEF Loaded
<1>1. Written = Groups /\ "ac" \in Groups BY TableLengths DEF Written
<1> QED BY <1>1, GroupLoaded DEF VInv, VgaProgress

-----------------------------------------------------------------------------
(* The inductive invariant of the scan.                                    *)

Places == (0 .. (Buses - 1)) \X (0 .. (Slots - 1))

PciTypes ==
  /\ slots \in [Places -> Kinds \cup {NoDevice}]
  /\ scanning \in {"device", "function", "bar", "done"}
  /\ device \in 0 .. (Slots - 1) /\ function \in Nat
  /\ IF scanning = "done" THEN bus = Buses ELSE bus \in 0 .. (Buses - 1)
  /\ scanning = "bar" => barNum \in 0 .. Bars

(* What the loops over the functions of a device know.                     *)
Asked ==
  /\ scanning \in {"function", "bar"} =>
       numFunctions = NumFunctions(bus, device) /\ function <= numFunctions
  /\ scanning = "bar" =>
       /\ function < numFunctions
       /\ slots[<<bus, device>>] # NoDevice
       /\ function \in slots[<<bus, device>>].functions

(* Function f of the device at p comes before the place of the scan.       *)
Passed(p, f) ==
  \/ p[1] < bus
  \/ /\ p[1] = bus
     /\ \/ p[2] < device
        \/ p[2] = device /\ scanning \in {"function", "bar"} /\ f < function

(* Lines are about functions that exist, in order, and none has been left  *)
(* out so far.                                                             *)
Earlier(k, m) ==
  \/ Slot(k)[1] < Slot(m)[1]
  \/ /\ Slot(k)[1] = Slot(m)[1]
     /\ \/ Slot(k)[2] < Slot(m)[2]
        \/ Slot(k)[2] = Slot(m)[2] /\ report[k].function < report[m].function

LineIsTrue(k) ==
  /\ Slot(k) \in Places /\ slots[Slot(k)] # NoDevice
  /\ report[k].function \in slots[Slot(k)].functions
  /\ Number(report[k].vendor) = slots[Slot(k)].vendor
  /\ Number(report[k].id) = slots[Slot(k)].id[report[k].function]

Reported(p, f) ==
  \E k \in 1 .. Len(report) : Slot(k) = p /\ report[k].function = f

Lines ==
  /\ \E S : report \in Seq(S)
  /\ \A k \in 1 .. Len(report) :
       LineIsTrue(k) /\ Passed(Slot(k), report[k].function)
  /\ \A k \in 2 .. Len(report) : Earlier(k - 1, k)
  /\ \A p \in Places : slots[p] # NoDevice =>
       \A f \in slots[p].functions : Passed(p, f) => Reported(p, f)

(* The portBase that the first m BARs of an ordinary device lead to.       *)
PortBaseOf(kind, m, base) ==
  LET io == {i \in IoBars(kind) : i < m}
  IN  IF io = {}
      THEN base = Unset
      ELSE \E i \in io : (\A j \in io : j <= i) /\ base = kind.bars[i].address

Ports ==
  /\ scanning = "bar" /\ slots[<<bus, device>>].header = 0 =>
       PortBaseOf(slots[<<bus, device>>], barNum, portBase)
  /\ \A k \in 1 .. Len(report) :
       slots[Slot(k)].header = 0 =>
         PortBaseOf(slots[Slot(k)], Bars, report[k].portBase)

PInv == PciTypes /\ Asked /\ Lines /\ Ports

(* The whole: what is found is forgotten when drawing begins.              *)
BInv ==
  /\ stage \in {"gdt", "PCIController", "vga"}
  /\ VInv /\ (stage # "vga" => writing = "idle" /\ ~mode_set)
  /\ IF stage = "vga"
     THEN report = <<>> /\ \A p \in DOMAIN slots : slots[p] = NoDevice
     ELSE PInv

-----------------------------------------------------------------------------
(* Lemmas about what the scan reads and prints.                            *)

(* The constants are positive, and small enough for an address.            *)
LEMMA PciSizes ==
  /\ Buses \in Nat /\ Slots \in Nat /\ Functions \in Nat /\ Bars \in Nat
  /\ Buses > 0 /\ Slots > 0 /\ Functions > 0 /\ Bars > 0
  /\ Buses <= 256 /\ Slots <= 32 /\ Functions <= 8
BY PciAssumption, SMT

(* The provers only need these by name.                                    *)
Vendors == 1 .. \hFFFE
Words == 0 .. \hFFFF
Nobody == [vendor |-> \hFFFF, id |-> \hFFFF, multi |-> TRUE]

(* Whoever answers has another vendor than nobody, and numbers of 16 bits. *)
LEMMA WordFacts ==
  /\ \A v \in Vendors : v \in Nat /\ v < 65536 /\ v \notin {0, \hFFFF}
  /\ \A w \in Words : w \in Nat /\ w < 65536
  /\ Nobody.vendor \in {0, \hFFFF} /\ Nobody.multi
BY SMT DEF Vendors, Words, Nobody

(* What a device has.                                                      *)
LEMMA KindFacts ==
  ASSUME NEW k \in Kinds
  PROVE  /\ 0 \in k.functions /\ k.functions \subseteq 0 .. (Functions - 1)
         /\ k.multi \in BOOLEAN
         /\ ~k.multi => k.functions = {0}
         /\ k.multi => ~k.alias
         /\ k.vendor \in Vendors
         /\ \A f \in 0 .. (Functions - 1) : k.id[f] \in Words
<1>1. k \in Kind /\ 0 \in k.functions BY PciAssumption
<1>2. (~k.multi => k.functions = {0}) /\ (k.multi => ~k.alias)
  BY PciAssumption, Zenon
<1> DEFINE F == 0 .. (Functions - 1)
<1>3. Kind = [multi : BOOLEAN, functions : SUBSET F, alias : BOOLEAN,
              header : 0 .. 127, vendor : Vendors, id : [F -> Words],
              bars : [0 .. (Bars - 1) -> [io : BOOLEAN, address : Addresses]]]
  BY SMT DEF Kind, Vendors, Words
<1> HIDE DEF F
<1>4. /\ k.multi \in BOOLEAN /\ k.functions \in SUBSET F
      /\ k.vendor \in Vendors /\ k.id \in [F -> Words]
  BY <1>1, <1>3
<1> QED BY <1>1, <1>2, <1>4, Zenon DEF F

(* The header of a device.                                                 *)
LEMMA BarFacts ==
  ASSUME NEW k \in Kinds
  PROVE  /\ \A i \in 0 .. (Bars - 1) : k.bars[i].io \in BOOLEAN
         /\ k.header = 0 => MaxBARs(k.header) = Bars
<1>1. k.header = 0 => MaxBARs(k.header) = Bars
  <2>1. Bars - 4 * 0 = Bars BY PciSizes, SMT
  <2> QED BY <2>1 DEF MaxBARs
<1>2. k \in Kind BY PciAssumption
<1> DEFINE I == [0 .. (Functions - 1) -> Words]
           H == 0 .. 127
           R == [io : BOOLEAN, address : Addresses]
           B == 0 .. (Bars - 1)
           S == SUBSET (0 .. (Functions - 1))
<1>3. Kind = [multi : BOOLEAN, functions : S, alias : BOOLEAN,
              header : H, vendor : Vendors, id : I, bars : [B -> R]]
  BY SMT DEF Kind, Vendors, Words
<1> HIDE DEF I, H, S, B, R
<1>4. k.bars \in [B -> R] BY <1>2, <1>3
<1>5. \A i \in B : k.bars[i] \in R BY <1>4
<1> QED BY <1>1, <1>5 DEF B, R

(* Two digits are enough for a byte,                                       *)
LEMMA HexByte ==
  ASSUME NEW b \in Nat, b < 256
  PROVE  Number(Hex(b)) = b
<1>1. /\ Len(Hex(b)) = 2
      /\ Hex(b)[1] = (b \div 16) % 16 /\ Hex(b)[2] = b % 16
  BY DEF Hex
<1>2. Number(Hex(b)) = 16 * ((b \div 16) % 16) + (b % 16)
  BY <1>1 DEF Number
<1> DEFINE q == b \div 16
<1>3. q \in Nat /\ b % 16 \in 0 .. 15 /\ b = 16 * q + (b % 16) BY SMT
<1> HIDE DEF q
<1>4. q < 16 BY <1>3, SMT
<1>5. q % 16 = q BY <1>3, <1>4, SMT
<1> QED BY <1>2, <1>3, <1>5, SMT DEF q

(* and four for a word.                                                    *)
LEMMA HexWordNumber ==
  ASSUME NEW w \in Nat, w < 65536
  PROVE  Number(HexWord(w)) = w
<1> DEFINE high == (w \div 256) % 256
           low == w % 256
<1>1. high \in Nat /\ high < 256 /\ low \in Nat /\ low < 256
      /\ w = 256 * high + low
  <2> DEFINE q == w \div 256
  <2>1. q \in Nat /\ low \in 0 .. 255 /\ w = 256 * q + low
    BY SMT
  <2> HIDE DEF q
  <2>2. q < 256 BY <2>1, SMT
  <2>3. q % 256 = q BY <2>1, <2>2, SMT
  <2> QED BY <2>1, <2>2, <2>3, SMT DEF q
<1> HIDE DEF high, low
<1>2. /\ Hex(high) = <<(high \div 16) % 16, high % 16>>
      /\ Hex(low) = <<(low \div 16) % 16, low % 16>>
  BY DEF Hex
<1>3. HexWord(w) = Hex(high) \o Hex(low) BY DEF HexWord, high, low
<1>4. \A a, b, c, d : /\ Len(<<a, b>> \o <<c, d>>) = 4
                      /\ (<<a, b>> \o <<c, d>>)[1] = a
                      /\ (<<a, b>> \o <<c, d>>)[2] = b
                      /\ (<<a, b>> \o <<c, d>>)[3] = c
                      /\ (<<a, b>> \o <<c, d>>)[4] = d
  OBVIOUS
<1>5. /\ Len(HexWord(w)) = 4
      /\ HexWord(w)[1] = (high \div 16) % 16 /\ HexWord(w)[2] = high % 16
      /\ HexWord(w)[3] = (low \div 16) % 16 /\ HexWord(w)[4] = low % 16
  BY <1>2, <1>3, <1>4
<1>6. Number(HexWord(w)) = 4096 * ((high \div 16) % 16) + 256 * (high % 16)
                             + 16 * ((low \div 16) % 16) + (low % 16)
  BY <1>5 DEF Number
<1>7. 16 * ((high \div 16) % 16) + (high % 16) = high
  BY <1>1, SMT
<1>8. 16 * ((low \div 16) % 16) + (low % 16) = low
  BY <1>1, SMT
<1>9. /\ (high \div 16) % 16 \in Nat /\ high % 16 \in Nat
      /\ (low \div 16) % 16 \in Nat /\ low % 16 \in Nat
  BY <1>1, SMT
<1> QED BY <1>1, <1>6, <1>7, <1>8, <1>9, SMT

(* An address within the bounds reads from the device that it names.       *)
LEMMA ReadFacts ==
  ASSUME PciTypes, NEW b \in 0 .. (Buses - 1), NEW d \in 0 .. (Slots - 1),
         NEW f \in 0 .. (Functions - 1)
  PROVE  LET there == slots[<<b, d>>]
         IN  Read(b, d, f) =
               IF there # NoDevice /\ (f \in there.functions \/ there.alias)
               THEN [vendor |-> there.vendor, id |-> there.id[f],
                     multi |-> there.multi, header |-> there.header,
                     bars |-> there.bars]
               ELSE Nobody
<1>1. b % 256 = b /\ d % 32 = d /\ f % 8 = f
  BY PciSizes, SMT
<1> DEFINE there == slots[<<b, d>>]
<1>2. slots[<<b % 256, d % 32>>] = there BY <1>1
<1> HIDE DEF there
<1>3. Read(b, d, f) =
        IF there # NoDevice /\ (f \in there.functions \/ there.alias)
        THEN [vendor |-> there.vendor, id |-> there.id[f],
              multi |-> there.multi, header |-> there.header,
              bars |-> there.bars]
        ELSE Nobody
  BY <1>1, <1>2, SMT DEF Read, Nobody
<1> QED BY <1>3 DEF there

(* How many functions are asked.                                           *)
LEMMA FunctionsAsked ==
  ASSUME PciTypes, scanning # "done"
  PROVE  /\ NumFunctions(bus, device) \in 1 .. Functions
         /\ slots[<<bus, device>>] # NoDevice =>
              /\ slots[<<bus, device>>] \in Kinds
              /\ slots[<<bus, device>>].functions
                   \subseteq 0 .. (NumFunctions(bus, device) - 1)
              /\ slots[<<bus, device>>].alias => NumFunctions(bus, device) = 1
<1>1. bus \in 0 .. (Buses - 1) /\ device \in 0 .. (Slots - 1)
      /\ <<bus, device>> \in Places
  BY DEF PciTypes, Places
<1>2. 0 \in 0 .. (Functions - 1) BY PciSizes, SMT
<1>3. NumFunctions(bus, device) \in {1, Functions}
  BY DEF NumFunctions
<1>4. NumFunctions(bus, device) \in 1 .. Functions
  BY <1>3, PciSizes, SMT
<1>5. ASSUME slots[<<bus, device>>] # NoDevice
      PROVE  /\ slots[<<bus, device>>] \in Kinds
             /\ slots[<<bus, device>>].functions
                  \subseteq 0 .. (NumFunctions(bus, device) - 1)
             /\ slots[<<bus, device>>].alias => NumFunctions(bus, device) = 1
  <2> DEFINE there == slots[<<bus, device>>]
  <2>1. there \in Kinds BY <1>1, <1>5 DEF PciTypes
  <2>2. DeviceHasFunctions(bus, device) = there.multi
    <3>1. 0 \in there.functions BY <2>1, KindFacts
    <3> QED BY <1>1, <1>2, <1>5, <3>1, ReadFacts, WordFacts DEF DeviceHasFunctions
  <2> HIDE DEF there
  <2>3. CASE there.multi
    <3>1. NumFunctions(bus, device) = Functions
      BY <2>2, <2>3 DEF NumFunctions
    <3>2. there.functions \subseteq 0 .. (Functions - 1) /\ ~there.alias
      BY <2>1, <2>3, KindFacts
    <3> QED BY <2>1, <3>1, <3>2, Zenon DEF there
  <2>4. CASE ~there.multi
    <3>1. NumFunctions(bus, device) = 1 BY <2>2, <2>4 DEF NumFunctions
    <3>2. there.functions = {0} BY <2>1, <2>4, KindFacts
    <3>3. {0} \subseteq 0 .. (1 - 1) BY SMT
    <3> QED BY <2>1, <3>1, <3>2, <3>3, Zenon DEF there
  <2> QED BY <2>3, <2>4
<1> QED BY <1>4, <1>5

-----------------------------------------------------------------------------
(* Every step of the scan keeps the invariant.                             *)

(* The numbers of functions are natural numbers.                           *)
LEMMA FunctionNumbers ==
  ASSUME PciTypes, NEW p \in Places, slots[p] # NoDevice
  PROVE  slots[p] \in Kinds /\ slots[p].functions \subseteq Nat
<1>1. slots[p] \in Kinds BY DEF PciTypes
<1>2. 0 .. (Functions - 1) \subseteq Nat BY PciSizes, SMT
<1> QED BY <1>1, <1>2, KindFacts

(* The device that is asked, while one is.                                 *)
LEMMA Here ==
  ASSUME PciTypes, scanning # "done"
  PROVE  /\ bus \in 0 .. (Buses - 1) /\ device \in 0 .. (Slots - 1)
         /\ bus \in Nat /\ device \in Nat
         /\ <<bus, device>> \in Places
<1>1. bus \in 0 .. (Buses - 1) /\ device \in 0 .. (Slots - 1)
  BY DEF PciTypes
<1> QED BY <1>1, PciSizes, SMT DEF Places

(* A function that is asked has an address.                                *)
LEMMA FunctionAsked ==
  ASSUME PciTypes, Asked, scanning \in {"function", "bar"},
         function < numFunctions
  PROVE  function \in 0 .. (Functions - 1)
<1>1. numFunctions \in 1 .. Functions
  BY FunctionsAsked DEF Asked
<1> QED BY <1>1, PciSizes, SMT DEF PciTypes

(* A step that prints nothing and passes no function that exists.          *)
LEMMA LinesStay ==
  ASSUME PInv, UNCHANGED <<slots, report>>,
         \A p \in Places : slots[p] # NoDevice =>
           \A f \in slots[p].functions : Passed(p, f)' <=> Passed(p, f)
  PROVE  Lines'
<1> USE DEF PInv
<1>1. \A k : Slot(k)' = Slot(k) BY DEF Slot
<1>2. \A k : LineIsTrue(k)' <=> LineIsTrue(k) BY <1>1 DEF LineIsTrue
<1>3. \A k, m : Earlier(k, m)' <=> Earlier(k, m) BY <1>1 DEF Earlier
<1>4. \A p, f : Reported(p, f)' <=> Reported(p, f) BY <1>1 DEF Reported
<1>5. ASSUME NEW k \in 1 .. Len(report)
      PROVE  LineIsTrue(k)' /\ Passed(Slot(k), report[k].function)'
  <2>1. LineIsTrue(k) /\ Passed(Slot(k), report[k].function)
    BY DEF Lines
  <2>2. /\ Slot(k) \in Places /\ slots[Slot(k)] # NoDevice
        /\ report[k].function \in slots[Slot(k)].functions
    BY <2>1 DEF LineIsTrue
  <2>3. \A p \in Places : \A f :
          slots[p] # NoDevice /\ f \in slots[p].functions =>
            (Passed(p, f)' <=> Passed(p, f))
    OBVIOUS
  <2> DEFINE q == Slot(k)
             g == report[k].function
  <2>4. q' = q /\ g' = g BY <1>1
  <2>5. PICK p : p = q OBVIOUS
  <2>6. PICK f : f = g OBVIOUS
  <2>7. Passed(p, f)' BY <2>1, <2>2, <2>3, <2>5, <2>6
  <2>8. p = q' /\ f = g' BY <2>4, <2>5, <2>6
  <2> HIDE DEF q, g
  <2>9. Passed(q, g)' BY <2>7, <2>8 DEF Passed
  <2> QED BY <1>2, <2>1, <2>9 DEF q, g
<1>6. \A k \in 2 .. Len(report) : Earlier(k - 1, k)'
  BY <1>3 DEF Lines
<1> QED BY <1>4, <1>5, <1>6 DEF Lines

(* The lines that were printed keep their portBase.                        *)
LEMMA PortsStay ==
  ASSUME PInv, UNCHANGED <<slots, report>>,
         (scanning = "bar" /\ slots[<<bus, device>>].header = 0 =>
            PortBaseOf(slots[<<bus, device>>], barNum, portBase))'
  PROVE  Ports'
<1>1. \A k : Slot(k)' = Slot(k) BY DEF Slot
<1> QED BY <1>1 DEF PInv, Ports

(* How many functions a device has does not change.                        *)
LEMMA NumFunctionsStays ==
  ASSUME UNCHANGED <<slots, bus, device>>
  PROVE  NumFunctions(bus, device)' = NumFunctions(bus, device)
BY SMT DEF NumFunctions, DeviceHasFunctions, Read

(* A device is looked at, before its functions are.                        *)
LEMMA ScanDeviceKeeps == ASSUME PInv, ScanDevice PROVE PInv'
<1> USE DEF PInv
<1>1. /\ scanning = "device" /\ scanning' = "function" /\ function' = 0
      /\ numFunctions' = NumFunctions(bus, device)
      /\ UNCHANGED <<slots, bus, device, barNum, portBase, report>>
  BY DEF ScanDevice
<1>2. PciTypes' BY <1>1 DEF PciTypes
<1>3. NumFunctions(bus, device) \in 1 .. Functions
  BY <1>1, FunctionsAsked
<1>4. 0 <= NumFunctions(bus, device) BY <1>3, PciSizes, SMT
<1>5. Asked'
  <2>1. NumFunctions(bus, device)' = NumFunctions(bus, device)
    BY <1>1, NumFunctionsStays
  <2> QED BY <1>1, <1>4, <2>1 DEF Asked
<1>6. ASSUME NEW p \in Places, slots[p] # NoDevice,
             NEW f \in slots[p].functions
      PROVE  Passed(p, f)' <=> Passed(p, f)
  <2>1. f \in Nat BY <1>6, FunctionNumbers
  <2>2. ~(f < function') BY <1>1, <2>1, SMT
  <2> QED BY <1>1, <2>2 DEF Passed
<1>7. Lines' BY <1>1, <1>6, LinesStay
<1>8. Ports' BY <1>1, PortsStay
<1> QED BY <1>2, <1>5, <1>7, <1>8

(* A function that answers exists, and one that does not is none.          *)
LEMMA WhoAnswers ==
  ASSUME PInv, scanning \in {"function", "bar"}, function < numFunctions
  PROVE  LET there == slots[<<bus, device>>]
         IN  /\ GetDeviceDescriptor.vendor \notin {0, \hFFFF}
                  <=> there # NoDevice /\ function \in there.functions
             /\ there # NoDevice /\ function \in there.functions =>
                  GetDeviceDescriptor =
                    [vendor |-> there.vendor, id |-> there.id[function],
                     multi |-> there.multi, header |-> there.header,
                     bars |-> there.bars]
<1> USE DEF PInv
<1> DEFINE there == slots[<<bus, device>>]
           answer == [vendor |-> there.vendor, id |-> there.id[function],
                      multi |-> there.multi, header |-> there.header,
                      bars |-> there.bars]
<1>1. /\ bus \in 0 .. (Buses - 1) /\ device \in 0 .. (Slots - 1)
      /\ function \in 0 .. (Functions - 1)
  BY Here, FunctionAsked
<1>2. GetDeviceDescriptor =
        IF there # NoDevice /\ (function \in there.functions \/ there.alias)
        THEN answer ELSE Nobody
  BY <1>1, ReadFacts, Zenon DEF GetDeviceDescriptor
<1>3. there # NoDevice =>
        /\ there \in Kinds /\ 0 \in there.functions
        /\ there.alias => numFunctions = 1
  BY FunctionsAsked, KindFacts DEF Asked
<1>4. there # NoDevice /\ there.alias => function \in there.functions
  <2>1. numFunctions = 1 => function = 0 BY <1>1, PciSizes, SMT
  <2> QED BY <1>3, <2>1
<1>5. there # NoDevice => answer.vendor \notin {0, \hFFFF}
  <2>1. there # NoDevice => there.vendor \in Vendors BY <1>3, KindFacts
  <2>2. answer.vendor = there.vendor OBVIOUS
  <2> HIDE DEF there, answer
  <2> QED BY <2>1, <2>2, WordFacts, SMT
<1>6. Nobody.vendor \in {0, \hFFFF} BY WordFacts, SMT
<1> HIDE DEF there, answer
<1>7. CASE there # NoDevice /\ function \in there.functions
  <2>1. GetDeviceDescriptor = answer BY <1>2, <1>7
  <2> QED BY <1>5, <1>7, <2>1, SMT DEF there, answer
<1>8. CASE ~(there # NoDevice /\ function \in there.functions)
  <2>1. GetDeviceDescriptor = Nobody BY <1>2, <1>4, <1>8
  <2> QED BY <1>6, <1>8, <2>1, SMT DEF there, answer
<1> QED BY <1>7, <1>8

(* A function is asked for its vendor.                                     *)
LEMMA ScanFunctionKeeps == ASSUME PInv, ScanFunction PROVE PInv'
<1> USE DEF PInv
<1> DEFINE there == slots[<<bus, device>>]
<1>1. /\ scanning = "function" /\ function < numFunctions
      /\ UNCHANGED <<slots, bus, device, numFunctions, report>>
  BY DEF ScanFunction
<1>2. /\ numFunctions \in 1 .. Functions /\ function \in Nat
      /\ numFunctions = NumFunctions(bus, device)
      /\ <<bus, device>> \in Places
  BY <1>1, FunctionsAsked, Here DEF Asked, PciTypes
<1>3. NumFunctions(bus, device)' = numFunctions
  BY <1>1, <1>2, NumFunctionsStays
<1>4. GetDeviceDescriptor.vendor \notin {0, \hFFFF}
        <=> there # NoDevice /\ function \in there.functions
  BY <1>1, WhoAnswers
<1>5. CASE there # NoDevice /\ function \in there.functions
  <2>1. scanning' = "bar" /\ barNum' = 0 /\ portBase' = Unset
        /\ function' = function
    BY <1>4, <1>5, SMT DEF ScanFunction
  <2>2. 0 \in 0 .. Bars BY PciSizes, SMT
  <2>3. PciTypes' BY <1>1, <2>1, <2>2 DEF PciTypes
  <2>4. Asked' BY <1>1, <1>3, <1>5, <2>1 DEF Asked
  <2>5. \A p, f : Passed(p, f)' <=> Passed(p, f)
    BY <1>1, <2>1 DEF Passed
  <2>6. Lines' BY <1>1, <2>5, LinesStay
  <2>7. PortBaseOf(there, 0, Unset)
    <3>1. {i \in IoBars(there) : i < 0} = {} BY SMT DEF IoBars
    <3> QED BY <3>1 DEF PortBaseOf
  <2>8. Ports'
    <3>1. PortBaseOf(slots[<<bus, device>>], barNum, portBase)'
      BY <1>1, <2>1, <2>7 DEF PortBaseOf, IoBars
    <3> QED BY <1>1, <3>1, PortsStay
  <2> QED BY <2>3, <2>4, <2>6, <2>8
<1>6. CASE ~(there # NoDevice /\ function \in there.functions)
  <2>1. scanning' = "function" /\ function' = function + 1
    BY <1>1, <1>4, <1>6, SMT DEF ScanFunction
  <2>2. function' \in Nat /\ function' <= numFunctions
    BY <1>1, <1>2, <2>1, PciSizes, SMT
  <2>3. PciTypes' BY <1>1, <2>1, <2>2 DEF PciTypes
  <2>4. Asked' BY <1>1, <1>3, <2>1, <2>2 DEF Asked
  <2>5. ASSUME NEW p \in Places, slots[p] # NoDevice,
               NEW f \in slots[p].functions
        PROVE  Passed(p, f)' <=> Passed(p, f)
    <3>1. f \in Nat BY <2>5, FunctionNumbers
    <3>2. p[1] = bus /\ p[2] = device => f # function
      <4>1. p = <<p[1], p[2]>> BY DEF Places
      <4> QED BY <1>6, <2>5, <4>1
    <3>3. p[1] = bus /\ p[2] = device => (f < function' <=> f < function)
      BY <1>2, <2>1, <3>1, <3>2, SMT
    <3> QED BY <1>1, <2>1, <3>3 DEF Passed
  <2>6. Lines' BY <1>1, <2>5, LinesStay
  <2>7. Ports' BY <1>1, <2>1, PortsStay
  <2> QED BY <2>3, <2>4, <2>6, <2>7
<1> QED BY <1>5, <1>6

(* Another BAR of an ordinary device: the last I/O BAR so far counts.      *)
LEMMA NextBar ==
  ASSUME NEW k \in Kinds, NEW m \in Nat, m < Bars, NEW base, NEW bar,
         PortBaseOf(k, m, base),
         bar \in IF k.bars[m].io THEN {k.bars[m]}
                                 ELSE [io : {FALSE}, address : Addresses]
  PROVE  PortBaseOf(k, m + 1, IF Taken(bar) THEN bar.address ELSE base)
<1> DEFINE io == {i \in IoBars(k) : i < m}
           new == {i \in IoBars(k) : i < m + 1}
<1>1. m \in 0 .. (Bars - 1) BY PciSizes, SMT
<1>2. \A i \in IoBars(k) : i \in Nat BY SMT DEF IoBars
<1>3. Taken(bar) <=> k.bars[m].io /\ k.bars[m].address # 0
  BY DEF Taken
<1>4. m \in IoBars(k) <=> k.bars[m].io /\ k.bars[m].address # 0
  BY <1>1 DEF IoBars
<1>5. CASE Taken(bar)
  <2>1. m \in new BY <1>3, <1>4, <1>5, SMT
  <2>2. \A j \in new : j <= m BY <1>2, SMT
  <2>3. bar.address = k.bars[m].address BY <1>3, <1>5
  <2> HIDE DEF new
  <2>4. \E i \in new : (\A j \in new : j <= i)
                       /\ bar.address = k.bars[i].address
    BY <2>1, <2>2, <2>3
  <2>5. new # {} BY <2>1
  <2> QED BY <1>5, <2>4, <2>5 DEF PortBaseOf, new
<1>6. CASE ~Taken(bar)
  <2>1. m \notin IoBars(k) BY <1>3, <1>4, <1>6
  <2>2. \A i \in IoBars(k) : i < m + 1 <=> i < m
    <3> SUFFICES ASSUME NEW i \in IoBars(k) PROVE i < m + 1 <=> i < m
      OBVIOUS
    <3>1. i \in Nat /\ i # m BY <1>2, <2>1
    <3> QED BY <3>1, SMT
  <2>3. new = io BY <2>2
  <2> QED BY <1>6, <2>3 DEF PortBaseOf
<1> QED BY <1>5, <1>6

(* A base address register is read.                                        *)
LEMMA ScanBarKeeps == ASSUME PInv, ScanBar PROVE PInv'
<1> USE DEF PInv
<1> DEFINE there == slots[<<bus, device>>]
<1>1. /\ scanning = "bar" /\ scanning' = "bar"
      /\ barNum < Bars /\ barNum' = barNum + 1
      /\ UNCHANGED <<slots, bus, device, function, numFunctions, report>>
  BY DEF ScanBar
<1>2. /\ barNum \in Nat /\ barNum' \in 0 .. Bars
  BY <1>1, PciSizes, SMT DEF PciTypes
<1>3. PciTypes' BY <1>1, <1>2 DEF PciTypes
<1>4. NumFunctions(bus, device)' = NumFunctions(bus, device)
  BY <1>1, NumFunctionsStays
<1>5. Asked' BY <1>1, <1>4 DEF Asked
<1>6. \A p, f : Passed(p, f)' <=> Passed(p, f) BY <1>1 DEF Passed
<1>7. Lines' BY <1>1, <1>6, LinesStay
<1>8. there # NoDevice /\ function \in there.functions /\ there \in Kinds
      /\ function < numFunctions
  BY <1>1, FunctionsAsked DEF Asked
<1>9. there.header = 0 => PortBaseOf(there, barNum + 1, portBase')
  <2> SUFFICES ASSUME there.header = 0
               PROVE  PortBaseOf(there, barNum + 1, portBase')
    OBVIOUS
  <2>1. GetDeviceDescriptor.header = 0 /\ GetDeviceDescriptor.bars = there.bars
    <3>1. GetDeviceDescriptor =
            [vendor |-> there.vendor, id |-> there.id[function],
             multi |-> there.multi, header |-> there.header,
             bars |-> there.bars]
      BY <1>1, <1>8, WhoAnswers
    <3> HIDE DEF there
    <3> QED BY <3>1
  <2>2. ~(barNum >= MaxBARs(GetDeviceDescriptor.header))
    <3>1. MaxBARs(0) = Bars BY <1>8, BarFacts
    <3> QED BY <1>1, <1>2, <2>1, <3>1, PciSizes, SMT
  <2>3. GetBaseAddressRegister(GetDeviceDescriptor, barNum) =
          IF there.bars[barNum].io THEN {there.bars[barNum]}
                                   ELSE [io : {FALSE}, address : Addresses]
    BY <2>1, <2>2, Zenon DEF GetBaseAddressRegister
  <2>4. PICK bar \in GetBaseAddressRegister(GetDeviceDescriptor, barNum) :
          portBase' = IF Taken(bar) THEN bar.address ELSE portBase
    BY DEF ScanBar
  <2>5. PortBaseOf(there, barNum, portBase) BY <1>1 DEF Ports
  <2> HIDE DEF there
  <2>6. PortBaseOf(there, barNum + 1,
                   IF Taken(bar) THEN bar.address ELSE portBase)
    BY <1>1, <1>2, <1>8, <2>3, <2>4, <2>5, NextBar, Zenon
  <2> QED BY <2>4, <2>6
<1>10. Ports'
  <2>1. (slots[<<bus, device>>].header = 0 =>
           PortBaseOf(slots[<<bus, device>>], barNum, portBase))'
    BY <1>1, <1>9 DEF PortBaseOf, IoBars
  <2> QED BY <1>1, <2>1, PortsStay
<1> QED BY <1>3, <1>5, <1>7, <1>10

(* A line is printed.                                                      *)
LEMMA ReportKeeps == ASSUME PInv, Report PROVE PInv'
<1> USE DEF PInv
<1> DEFINE there == slots[<<bus, device>>]
           l == [bus |-> Hex(bus), device |-> Hex(device),
                 vendor |-> HexWord(GetDeviceDescriptor.vendor),
                 id |-> HexWord(GetDeviceDescriptor.id),
                 function |-> function, portBase |-> portBase]
<1>0. PICK z : z = Len(report) OBVIOUS
<1>1. /\ scanning = "bar" /\ barNum = Bars
      /\ report' = Append(report, l)
      /\ function' = function + 1 /\ scanning' = "function"
      /\ UNCHANGED <<slots, bus, device, numFunctions>>
  BY DEF Report
<1>2. /\ <<bus, device>> \in Places
      /\ bus \in Nat /\ device \in Nat
      /\ bus < 256 /\ device < 256
      /\ function \in Nat
  <2>1. bus \in 0 .. (Buses - 1) /\ device \in 0 .. (Slots - 1)
    BY <1>1, Here
  <2> QED BY <1>1, <2>1, PciSizes, Here, SMT DEF PciTypes
<1>3. /\ there # NoDevice /\ function \in there.functions /\ there \in Kinds
      /\ function < numFunctions /\ numFunctions = NumFunctions(bus, device)
      /\ numFunctions \in 1 .. Functions
  BY <1>1, FunctionsAsked DEF Asked
<1>4. /\ GetDeviceDescriptor.vendor = there.vendor
      /\ GetDeviceDescriptor.id = there.id[function]
  <2>1. GetDeviceDescriptor =
          [vendor |-> there.vendor, id |-> there.id[function],
           multi |-> there.multi, header |-> there.header,
           bars |-> there.bars]
    BY <1>1, <1>3, WhoAnswers
  <2> HIDE DEF there
  <2> QED BY <2>1
<1>5. /\ l.bus = Hex(bus) /\ l.device = Hex(device)
      /\ l.function = function /\ l.portBase = portBase
      /\ l.vendor = HexWord(there.vendor) /\ l.id = HexWord(there.id[function])
  BY <1>4
<1>6. Number(l.bus) = bus /\ Number(l.device) = device
  BY <1>2, <1>5, HexByte
<1>7. Number(l.vendor) = there.vendor
  <2>1. there.vendor \in Nat /\ there.vendor < 65536
    BY <1>3, KindFacts, WordFacts
  <2> QED BY <1>5, <2>1, HexWordNumber
<1>8. Number(l.id) = there.id[function]
  <2>1. function \in 0 .. (Functions - 1) BY <1>3, KindFacts
  <2>2. there.id[function] \in Nat /\ there.id[function] < 65536
    BY <1>3, <2>1, KindFacts, WordFacts
  <2> QED BY <1>5, <2>2, HexWordNumber
<1> HIDE DEF l
<1>9. PICK S : report \in Seq(S) BY DEF Lines
<1>10. /\ report' \in Seq(S \cup {l}) /\ Len(report') = z + 1
       /\ \A k \in 1 .. z : report'[k] = report[k]
       /\ report'[z + 1] = l
       /\ z \in Nat
  <2>1. report \in Seq(S \cup {l}) /\ z \in Nat BY <1>0, <1>9
  <2>2. l \in S \cup {l} OBVIOUS
  <2> QED BY <1>0, <1>1, <2>1, <2>2, AppendProperties
<1> HIDE DEF there
<1>11. /\ \A k \in 1 .. z : Slot(k)' = Slot(k)
       /\ Slot(z + 1)' = <<bus, device>>
  BY <1>6, <1>10, SMT DEF Slot
<1>12. \A k \in 1 .. z : LineIsTrue(k) /\ Passed(Slot(k), report[k].function)
  BY <1>0 DEF Lines
<1>13. \A k \in 1 .. z : LineIsTrue(k)'
  BY <1>1, <1>10, <1>11, <1>12 DEF LineIsTrue
<1>14. LineIsTrue(z + 1)'
  BY <1>1, <1>2, <1>3, <1>5, <1>7, <1>8, <1>10, <1>11 DEF LineIsTrue, there
<1>15. ASSUME NEW p, NEW f, Passed(p, f)
       PROVE  \/ p[1] < bus
              \/ p[1] = bus /\ p[2] < device
              \/ p[1] = bus /\ p[2] = device /\ f < function
  BY <1>15 DEF Passed
<1>16. ASSUME NEW p, NEW f \in Nat, Passed(p, f) PROVE Passed(p, f)'
  <2>1. f < function => f < function'
    BY <1>1, <1>2, SMT
  <2> QED BY <1>1, <1>16, <2>1 DEF Passed
<1>17. ASSUME NEW k \in 1 .. (z + 1)
       PROVE  LineIsTrue(k)' /\ Passed(Slot(k), report[k].function)'
  <2>1. CASE k = z + 1
    <3>1. function < function' BY <1>1, <1>2, SMT
    <3>2. Passed(<<bus, device>>, function)
            \/ /\ <<bus, device>>[1] = bus' /\ <<bus, device>>[2] = device'
               /\ scanning' = "function"
      BY <1>1
    <3>3. Slot(k)' = <<bus, device>> /\ (report[k].function)' = function
      BY <1>5, <1>10, <1>11, <2>1
    <3>4. /\ Slot(k)'[1] = bus' /\ Slot(k)'[2] = device'
          /\ (report[k].function)' < function'
      BY <1>1, <3>1, <3>3
    <3>5. Passed(Slot(k), report[k].function)'
      BY <1>1, <3>4, Zenon DEF Passed
    <3> QED BY <1>14, <2>1, <3>5
  <2>2. CASE k # z + 1
    <3>1. k \in 1 .. z BY <1>10, <2>2, SMT
    <3>2. Passed(Slot(k), report[k].function) BY <1>12, <3>1
    <3>3. /\ Slot(k)' = Slot(k)
          /\ (report[k].function)' = report[k].function
      BY <1>10, <1>11, <3>1
    <3>4. report[k].function \in Nat
      <4>1. LineIsTrue(k) BY <1>12, <3>1
      <4> QED BY <4>1, FunctionNumbers DEF LineIsTrue
    <3>5. report[k].function < function => report[k].function < function'
      BY <1>1, <1>2, <3>4, SMT
    <3>6. Passed(Slot(k), report[k].function)'
      BY <1>1, <3>2, <3>3, <3>5 DEF Passed
    <3> QED BY <1>13, <3>1, <3>6
  <2> QED BY <2>1, <2>2
<1>18. ASSUME NEW k \in 2 .. (z + 1) PROVE Earlier(k - 1, k)'
  <2>1. k - 1 \in 1 .. z BY <1>10, SMT
  <2>2. /\ Slot(k - 1)' = Slot(k - 1)
        /\ (report[k - 1].function)' = report[k - 1].function
    BY <1>10, <1>11, <2>1
  <2>3. CASE k = z + 1
    <3>1. Slot(k)' = <<bus, device>> /\ (report[k].function)' = function
      BY <1>5, <1>10, <1>11, <2>3
    <3>2. LET p == Slot(k - 1)
          IN  \/ p[1] < bus
              \/ p[1] = bus /\ p[2] < device
              \/ p[1] = bus /\ p[2] = device
                 /\ report[k - 1].function < function
      BY <1>12, <2>1 DEF Passed
    <3> QED BY <2>2, <3>1, <3>2 DEF Earlier
  <2>4. CASE k # z + 1
    <3>1. k \in 2 .. z /\ k \in 1 .. z BY <1>10, <2>4, SMT
    <3>2. /\ Slot(k)' = Slot(k) /\ (report[k].function)' = report[k].function
          /\ Earlier(k - 1, k)
      BY <1>10, <1>11, <1>0, <3>1 DEF Lines
    <3> QED BY <2>2, <3>2 DEF Earlier
  <2> QED BY <2>3, <2>4
<1>19. ASSUME NEW p \in Places, slots[p] # NoDevice,
              NEW f \in slots[p].functions, Passed(p, f)'
       PROVE  Reported(p, f)'
  <2>1. f \in Nat BY <1>19, FunctionNumbers
  <2>2. p = <<p[1], p[2]>> BY DEF Places
  <2>3. CASE p = <<bus, device>> /\ f = function
    <3>1. z + 1 \in 1 .. (z + 1) BY <1>10, SMT
    <3>2. Slot(z + 1)' = p /\ (report[z + 1].function)' = f
      <4>1. Slot(z + 1)' = p BY <1>11, <2>3
      <4>2. report'[z + 1].function = f BY <1>5, <1>10, <2>3
      <4> QED BY <1>5, <1>6, <1>10, <2>3, <4>1, <4>2
    <3> QED BY <1>10, <3>1, <3>2 DEF Reported
  <2>4. CASE ~(p = <<bus, device>> /\ f = function)
    <3>1. p[1] = bus /\ p[2] = device => f # function
      BY <2>2, <2>4
    <3>2. p[1] = bus /\ p[2] = device => (f < function' <=> f < function)
      BY <1>1, <1>2, <2>1, <3>1, SMT
    <3>3. Passed(p, f) BY <1>1, <1>19, <3>2 DEF Passed
    <3>4. PICK k \in 1 .. z : Slot(k) = p /\ report[k].function = f
      BY <1>19, <1>0, <3>3 DEF Lines, Reported
    <3>5. k \in 1 .. (z + 1) BY <1>10, SMT
    <3>6. Slot(k)' = p /\ report'[k].function = f
      BY <1>10, <1>11, <3>4
    <3> QED BY <1>10, <3>5, <3>6 DEF Reported
  <2> QED BY <2>3, <2>4
<1>20. Lines'
  <2>1. Len(report)' = z + 1 BY <1>10
  <2> QED BY <1>1, <1>10, <1>17, <1>18, <1>19, <2>1 DEF Lines
<1>21. function' \in Nat /\ function' <= numFunctions
  BY <1>1, <1>2, <1>3, PciSizes, SMT
<1>22. PciTypes' BY <1>1, <1>21 DEF PciTypes
<1>23. Asked'
  <2>1. NumFunctions(bus, device)' = NumFunctions(bus, device)
    BY <1>1, NumFunctionsStays
  <2> QED BY <1>1, <1>3, <1>21, <2>1 DEF Asked
<1>24. ASSUME NEW k \in 1 .. (z + 1), (slots[Slot(k)].header = 0)'
       PROVE  PortBaseOf(slots[Slot(k)], Bars, report[k].portBase)'
  <2>1. CASE k = z + 1
    <3>1. Slot(k)' = <<bus, device>> /\ report'[k].portBase = portBase
      BY <1>5, <1>10, <1>11, <2>1
    <3>2. there.header = 0 => PortBaseOf(there, Bars, portBase)
      BY <1>1 DEF Ports, there
    <3> QED BY <1>1, <1>24, <3>1, <3>2 DEF there, PortBaseOf
  <2>2. CASE k # z + 1
    <3>1. k \in 1 .. z BY <1>10, <2>2, SMT
    <3>2. Slot(k)' = Slot(k) /\ report'[k] = report[k]
      BY <1>10, <1>11, <3>1
    <3>3. slots[Slot(k)].header = 0 =>
            PortBaseOf(slots[Slot(k)], Bars, report[k].portBase)
      BY <1>0, <3>1 DEF Ports
    <3> QED BY <1>1, <1>24, <3>2, <3>3 DEF PortBaseOf
  <2> QED BY <2>1, <2>2
<1>25. Ports'
  <2>1. Len(report)' = z + 1 BY <1>10
  <2> QED BY <1>1, <1>24, <2>1 DEF Ports
<1> QED BY <1>20, <1>22, <1>23, <1>25

(* The next device: all functions of the one before have been asked.       *)
LEMMA NextDeviceKeeps == ASSUME PInv, NextDevice PROVE PInv'
<1> USE DEF PInv
<1>1. /\ scanning = "function" /\ function = numFunctions
      /\ device' = (device + 1) % Slots
      /\ bus' = IF device' = 0 THEN bus + 1 ELSE bus
      /\ scanning' = IF bus' = Buses THEN "done" ELSE "device"
      /\ UNCHANGED <<slots, function, report>>
  BY DEF NextDevice
<1>2. /\ bus \in 0 .. (Buses - 1) /\ device \in 0 .. (Slots - 1)
      /\ function = NumFunctions(bus, device)
  BY <1>1, Here DEF Asked
<1>3. /\ device + 1 < Slots => device' = device + 1 /\ bus' = bus
      /\ ~(device + 1 < Slots) => device = Slots - 1 /\ device' = 0
                                  /\ bus' = bus + 1
  <2>1. CASE device + 1 < Slots
    <3>1. (device + 1) % Slots = device + 1 /\ device + 1 # 0
      BY <1>2, <2>1, PciSizes, SMT
    <3> QED BY <1>1, <2>1, <3>1, Zenon
  <2>2. CASE ~(device + 1 < Slots)
    <3>1. device + 1 = Slots /\ device = Slots - 1
      BY <1>2, <2>2, PciSizes, SMT
    <3>2. Slots % Slots = 0 BY PciSizes, SMT
    <3> QED BY <1>1, <2>2, <3>1, <3>2, Zenon
  <2> QED BY <2>1, <2>2
<1>4. device' \in 0 .. (Slots - 1) BY <1>2, <1>3, PciSizes, SMT
<1>5. bus' # Buses => bus' \in 0 .. (Buses - 1)
  BY <1>2, <1>3, PciSizes, SMT
<1>6. PciTypes' BY <1>1, <1>4, <1>5 DEF PciTypes
<1>7. Asked' BY <1>1 DEF Asked
<1>8. ASSUME NEW p \in Places, slots[p] # NoDevice,
             NEW f \in slots[p].functions
      PROVE  Passed(p, f)' <=> Passed(p, f)
  <2>1. p[1] \in 0 .. (Buses - 1) /\ p[2] \in 0 .. (Slots - 1)
        /\ p = <<p[1], p[2]>>
    BY DEF Places
  <2>2. p[1] = bus /\ p[2] = device => f < function
    <3> SUFFICES ASSUME p = <<bus, device>> PROVE f < function
      BY <2>1
    <3>1. f \in 0 .. (NumFunctions(bus, device) - 1)
      BY <1>1, <1>8, FunctionsAsked
    <3>2. NumFunctions(bus, device) \in 1 .. Functions
      BY <1>1, FunctionsAsked
    <3> QED BY <1>2, <3>1, <3>2, PciSizes, SMT
  <2>3. Passed(p, f) <=> p[1] < bus \/ (p[1] = bus /\ p[2] <= device)
    <3>1. p[2] <= device <=> p[2] < device \/ p[2] = device
      BY <1>2, <2>1, SMT
    <3> QED BY <1>1, <2>2, <3>1 DEF Passed
  <2>4. Passed(p, f)' <=> p[1] < bus' \/ (p[1] = bus' /\ p[2] < device')
    BY <1>1 DEF Passed
  <2>5. CASE device + 1 < Slots
    <3>1. p[2] < device + 1 <=> p[2] <= device BY <1>2, <2>1, SMT
    <3> QED BY <1>3, <2>3, <2>4, <2>5, <3>1
  <2>6. CASE ~(device + 1 < Slots)
    <3>1. p[2] <= device /\ ~(p[2] < 0)
      BY <1>2, <1>3, <2>1, <2>6, PciSizes, SMT
    <3>2. p[1] < bus + 1 <=> p[1] < bus \/ p[1] = bus
      BY <1>2, <2>1, SMT
    <3> QED BY <1>3, <2>3, <2>4, <2>6, <3>1, <3>2
  <2> QED BY <2>5, <2>6
<1>9. Lines' BY <1>1, <1>8, LinesStay
<1>10. Ports' BY <1>1, PortsStay
<1> QED BY <1>6, <1>7, <1>9, <1>10

(* A step of the scan keeps its invariant.                                 *)
LEMMA ScanKeeps == ASSUME PInv, SelectDrivers PROVE PInv'
BY ScanDeviceKeeps, ScanFunctionKeeps, ScanBarKeeps, ReportKeeps,
   NextDeviceKeeps DEF SelectDrivers

(* So does anything else.                                                  *)
LEMMA ScanLeftAlone == ASSUME PInv, UNCHANGED pciVars PROVE PInv'
<1> USE DEF PInv
<1>1. UNCHANGED <<slots, scanning, bus, device, function, barNum,
                  numFunctions, portBase, report>>
  BY DEF pciVars, loops
<1>2. PciTypes' BY <1>1 DEF PciTypes
<1>3. NumFunctions(bus, device)' = NumFunctions(bus, device)
  BY <1>1, NumFunctionsStays
<1>4. Asked' BY <1>1, <1>3 DEF Asked
<1>5. \A p, f : Passed(p, f)' <=> Passed(p, f) BY <1>1 DEF Passed
<1>6. Lines' BY <1>1, <1>5, LinesStay
<1>7. (scanning = "bar" /\ slots[<<bus, device>>].header = 0 =>
         PortBaseOf(slots[<<bus, device>>], barNum, portBase))'
  BY <1>1 DEF Ports, PortBaseOf
<1>8. Ports' BY <1>1, <1>7, PortsStay
<1> QED BY <1>2, <1>4, <1>6, <1>8

(* The scan begins with the first device of the first bus.                 *)
LEMMA ScanStarts == ASSUME PciInit PROVE PInv
<1> USE DEF PciInit
<1>1. PciTypes
  <2>1. 0 \in 0 .. (Slots - 1) /\ 0 \in 0 .. (Buses - 1) /\ 0 \in Nat
    BY PciSizes, SMT
  <2> QED BY <2>1 DEF PciTypes, Places
<1>2. Asked BY DEF Asked
<1>3. Lines
  <2>1. report \in Seq({}) /\ Len(report) = 0 OBVIOUS
  <2>2. 1 .. 0 = {} /\ 2 .. 0 = {} BY SMT
  <2>3. ASSUME NEW p \in Places, NEW f PROVE ~Passed(p, f)
    <3>1. p[1] \in Nat /\ p[2] \in Nat BY PciSizes, SMT DEF Places
    <3>2. ~(p[1] < 0) /\ ~(p[2] < 0) BY <3>1, SMT
    <3> QED BY <3>2 DEF Passed
  <2> QED BY <2>1, <2>2, <2>3 DEF Lines
<1>4. Ports
  <2>1. 1 .. Len(report) = {} BY SMT
  <2> QED BY <2>1 DEF Ports
<1> QED BY <1>1, <1>2, <1>3, <1>4 DEF PInv

(* What comes earlier has the smaller number.                              *)
LEMMA SmallerPlace ==
  ASSUME NEW x \in Nat, NEW y \in Nat, NEW c \in Nat, NEW r \in 0 .. (c - 1),
         NEW s \in Nat, x < y
  PROVE  x * c + r < y * c + s
<1>1. PICK e \in Nat : y = x + 1 + e
  <2>1. y - x - 1 \in Nat /\ y = x + 1 + (y - x - 1) BY SMT
  <2> QED BY <2>1
<1>2. y * c = x * c + c + e * c BY <1>1, SMT
<1>3. x * c \in Nat /\ e * c \in Nat BY SMT
<1> QED BY <1>2, <1>3, SMT


(* A line that comes before another has the smaller place.                 *)
LEMMA EarlierIsSmaller ==
  ASSUME PciTypes, NEW k, NEW m, LineIsTrue(k), LineIsTrue(m), Earlier(k, m)
  PROVE  Place(k) < Place(m)
<1> DEFINE b == Slot(k)[1]  d == Slot(k)[2]  f == report[k].function
           c == Slot(m)[1]  e == Slot(m)[2]  g == report[m].function
<1>1. /\ Slot(k) \in Places /\ Slot(m) \in Places
      /\ slots[Slot(k)] \in Kinds /\ slots[Slot(m)] \in Kinds
  BY DEF PciTypes, LineIsTrue
<1>2. f \in 0 .. (Functions - 1) /\ g \in 0 .. (Functions - 1)
  BY <1>1, KindFacts DEF LineIsTrue
<1>3. b \in 0 .. (Buses - 1) /\ d \in 0 .. (Slots - 1)
  BY <1>1 DEF Places
<1>4. c \in 0 .. (Buses - 1) /\ e \in 0 .. (Slots - 1)
  BY <1>1 DEF Places
<1>5. b < c \/ (b = c /\ (d < e \/ (d = e /\ f < g)))
  BY DEF Earlier
<1>6. Place(k) = (b * Slots + d) * Functions + f
      /\ Place(m) = (c * Slots + e) * Functions + g
  BY DEF Place
<1> HIDE DEF b, c, d, e, f, g
<1>7. b \in Nat /\ c \in Nat /\ d \in Nat /\ e \in Nat /\ f \in Nat /\ g \in Nat
  BY <1>2, <1>3, <1>4, PciSizes, SMT
<1> DEFINE x == b * Slots + d  y == c * Slots + e
<1>8. x \in Nat /\ y \in Nat BY <1>7, PciSizes, SMT
<1>9. x < y \/ (x = y /\ f < g)
  <2>1. CASE b < c
    <3>1. x < y BY <2>1, <1>3, <1>7, PciSizes, SmallerPlace
    <3> QED BY <3>1
  <2>2. CASE b = c BY <2>2, <1>5, <1>7, PciSizes, SMT
  <2> QED BY <1>5, <2>1, <2>2
<1> HIDE DEF x, y
<1>10. x * Functions + f < y * Functions + g
  <2>1. CASE x < y BY <2>1, <1>2, <1>7, <1>8, PciSizes, SmallerPlace
  <2>2. CASE x = y /\ f < g
    <3>1. x * Functions \in Int BY <1>8, PciSizes, SMT
    <3> QED BY <2>2, <3>1, <1>7, SMT
  <2> QED BY <1>9, <2>1, <2>2
<1> QED BY <1>6, <1>10 DEF x, y

(* When the loops have ended, each function has had its line.              *)
LEMMA ScanReports == ASSUME PInv PROVE ReportsEachOnce
<1> USE DEF PInv
<1>1. DOMAIN report = 1 .. Len(report) /\ Len(report) \in Nat BY DEF Lines
<1>2. \A k \in DOMAIN report :
        /\ report[k].function \in slots[Slot(k)].functions
        /\ Number(report[k].vendor) = slots[Slot(k)].vendor
        /\ Number(report[k].id) = slots[Slot(k)].id[report[k].function]
  BY <1>1 DEF Lines, LineIsTrue
<1>3. ASSUME NEW k \in 2 .. Len(report) PROVE Place(k - 1) < Place(k)
  <2>1. k - 1 \in 1 .. Len(report) /\ k \in 1 .. Len(report) BY <1>1, SMT
  <2>2. LineIsTrue(k - 1) /\ LineIsTrue(k) /\ Earlier(k - 1, k)
    BY <2>1 DEF Lines
  <2> QED BY <2>2, EarlierIsSmaller
<1>4. ASSUME scanning = "done", NEW p \in DOMAIN slots, slots[p] # NoDevice,
             NEW f \in slots[p].functions
      PROVE  \E k \in DOMAIN report : Slot(k) = p /\ report[k].function = f
  <2>1. p \in Places /\ bus = Buses BY <1>4 DEF PciTypes
  <2>2. p[1] < bus
    <3>1. p[1] \in 0 .. (Buses - 1) BY <2>1 DEF Places
    <3> QED BY <2>1, <3>1, PciSizes, SMT
  <2>3. Reported(p, f) BY <1>4, <2>1, <2>2 DEF Lines, Passed
  <2> QED BY <1>1, <2>3 DEF Reported
<1> QED BY <1>2, <1>3, <1>4 DEF ReportsEachOnce

(* Each line has the portBase that all BARs lead to.                       *)
LEMMA ScanBases == ASSUME PInv PROVE PortBaseFromBar
<1>1. DOMAIN report = 1 .. Len(report) BY DEF PInv, Lines
<1>2. ASSUME NEW kind
      PROVE  {i \in IoBars(kind) : i < Bars} = IoBars(kind)
  BY PciSizes, SMT DEF IoBars
<1>3. ASSUME NEW k \in DOMAIN report, slots[Slot(k)].header = 0
      PROVE  PortBaseOf(slots[Slot(k)], Bars, report[k].portBase)
  BY <1>1, <1>3 DEF PInv, Ports
<1> QED BY <1>2, <1>3 DEF PortBaseFromBar, PortBaseOf

-----------------------------------------------------------------------------
(* The whole.                                                              *)

(* kernelMain begins with the interrupts.                                  *)
LEMMA BootStarts == Init => BInv
BY VgaStarts, ScanStarts DEF Init, BInv, VgaInit

(* Each step of kernelMain keeps the invariant: what is not busy is left   *)
(* alone.                                                                  *)
LEMMA BootKeeps == BInv /\ [Next]_vars => BInv'
<1> SUFFICES ASSUME BInv, [Next]_vars PROVE BInv'
  OBVIOUS
<1> USE DEF BInv
<1>1. ASSUME UNCHANGED vgaVars
      PROVE  VInv' /\ UNCHANGED <<writing, mode_set>>
  <2>1. UNCHANGED <<mode_set, writing, n, registers, pixel>>
    BY <1>1 DEF vgaVars, vgaDriver
  <2> QED BY <1>1, <2>1, VgaLeftAlone
<1>2. CASE MakeInterrupts
  <2>1. stage = "gdt" /\ stage' \in {"gdt", "PCIController"}
    BY <1>2 DEF MakeInterrupts
  <2>2. UNCHANGED pciVars /\ UNCHANGED vgaVars BY <1>2 DEF MakeInterrupts
  <2>3. PInv' BY <2>1, <2>2, ScanLeftAlone
  <2> QED BY <1>1, <2>1, <2>2, <2>3
<1>3. CASE Scan
  <2>1. /\ stage = "PCIController" /\ stage' = stage
        /\ SelectDrivers /\ UNCHANGED vgaVars
    BY <1>3 DEF Scan
  <2>2. PInv' BY <2>1, ScanKeeps
  <2> QED BY <1>1, <2>1, <2>2
<1>4. CASE Scanned
  <2>1. /\ stage = "PCIController" /\ stage' = "vga"
        /\ slots' = [p \in DOMAIN slots |-> NoDevice] /\ report' = <<>>
        /\ UNCHANGED <<mode_set, writing, n, registers, pixel>>
        /\ \E left \in Bios :
             adapter' = left[1] /\ awaits' = left[2] /\ aliased' = left[3]
    BY <1>4 DEF Scanned
  <2>2. VInv' BY <2>1, VgaLeftAlone
  <2> QED BY <2>1, <2>2
<1>5. CASE Draw
  <2>1. /\ stage = "vga" /\ stage' = stage
        /\ VgaStep /\ UNCHANGED pciVars
    BY <1>5 DEF Draw
  <2>2. VInv' BY <2>1, VgaStepKeeps
  <2>3. UNCHANGED <<slots, report>> BY <2>1 DEF pciVars
  <2> QED BY <2>1, <2>2, <2>3
<1>6. CASE UNCHANGED vars
  <2>1. stage' = stage /\ UNCHANGED pciVars /\ UNCHANGED vgaVars
    BY <1>6 DEF vars
  <2>2. VInv' /\ UNCHANGED <<writing, mode_set>> BY <1>1, <2>1
  <2>3. CASE stage = "vga"
    <3>1. UNCHANGED <<slots, report>> BY <2>1 DEF pciVars
    <3> QED BY <2>1, <2>2, <2>3, <3>1
  <2>4. CASE stage # "vga"
    <3>1. PInv' BY <2>1, <2>4, ScanLeftAlone
    <3> QED BY <2>1, <2>2, <2>4, <3>1
  <2> QED BY <2>3, <2>4
<1> QED BY <1>2, <1>3, <1>4, <1>5, <1>6 DEF Next

(* The inductive invariant of the boot: of each part while it is busy, and *)
(* that the parts whose turn it is not are as they began.                  *)
THEOREM BootInvariant == Spec => []BInv
BY BootStarts, BootKeeps, PTL DEF Spec

(* What has been forgotten was not reported wrongly.                       *)
LEMMA NothingReported ==
  ASSUME report = <<>>, \A p \in DOMAIN slots : slots[p] = NoDevice
  PROVE  ReportsEachOnce /\ PortBaseFromBar
<1>1. DOMAIN report = {} /\ Len(report) = 0 OBVIOUS
<1>2. 2 .. Len(report) = {} BY <1>1, SMT
<1> QED BY <1>1, <1>2 DEF ReportsEachOnce, PortBaseFromBar

(* For any number of buses, devices and functions, and whatever is plugged *)
(* in, SelectDrivers prints one line for each function that exists, in     *)
(* order, and none for what does not.                                      *)
THEOREM EveryDeviceReported == Spec => []ReportsEachOnce
<1>1. BInv => ReportsEachOnce BY ScanReports, NothingReported DEF BInv
<1> QED BY <1>1, BootInvariant, PTL

(* The portBase of an ordinary device is that of its last I/O BAR: what    *)
(* GetBaseAddressRegister leaves uninitialised never gets into it.         *)
THEOREM PortBaseIsLastIoBar == Spec => []PortBaseFromBar
<1>1. BInv => PortBaseFromBar BY ScanBases, NothingReported DEF BInv
<1> QED BY <1>1, BootInvariant, PTL

(* After SetMode has succeeded, all registers but the attribute            *)
(* controller's hold its table, whatever they and the lock were before; on *)
(* an adapter that takes port 0x3C1 for 0x3C0 the attribute controller's   *)
(* do too, wherever that port was in its turn.  On others they need not.   *)
THEOREM RegistersLoaded == Spec => []Loaded
<1>1. BInv => Loaded BY VgaIsLoaded DEF BInv
<1> QED BY <1>1, BootInvariant, PTL

(* PutPixel never writes outside graphics memory, for any pixel of the     *)
(* screen.                                                                 *)
THEOREM PixelsInFrameBuffer == Spec => []PixelInFrameBuffer
<1>1. BInv => PixelInFrameBuffer BY DEF BInv, VInv
<1> QED BY <1>1, BootInvariant, PTL

(* Scanning and drawing leave the descriptors alone: the boot is one of    *)
(* the behaviours of Gdt.tla, in which segments cover what was asked for   *)
(* and every gate reaches its stub.                                        *)
THEOREM BootMakesInterrupts ==
  Spec => GdtSpec /\ [](SegmentsCover /\ GatesReachStubs)
<1>1. Init => GdtInit BY DEF Init
<1>2. [Next]_vars => [GdtNext]_gdtVars
  BY DEF Next, vars, MakeInterrupts, Scan, Scanned, Draw
<1>3. Spec => GdtSpec BY <1>1, <1>2, PTL DEF Spec, GdtSpec
<1> QED BY <1>3, SegmentsCoverAlways, GatesReachStubsAlways, PTL
=============================================================================
