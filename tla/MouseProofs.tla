----------------------------- MODULE MouseProofs -----------------------------
(***************************************************************************)
(* Theorems about Pointer.tla, for every size of the page that an int8_t   *)
(* can address and every width of the coordinates, and about Mouse.tla,    *)
(* for every set of packets and every number of bytes on their way too.    *)
(***************************************************************************)
EXTENDS Mouse, FiniteSetTheorems, SequenceTheorems, WellFoundedInduction, TLAPS

-----------------------------------------------------------------------------
(* The pointer.                                                            *)

(* What an int8_t can hold is converted to itself.                         *)
LEMMA Int8Small ==
  ASSUME NEW n \in Offsets
  PROVE  Int8(n) = n
BY PointerAssumption, SMT DEF Offsets, Int8

(* A conversion to int8_t yields an int8_t.                                *)
LEMMA Int8Type ==
  ASSUME NEW n \in Int
  PROVE  Int8(n) \in Offsets
BY PointerAssumption, SMT DEF Offsets, Int8

(* The two comparisons of OnMouseMove put any integer inside the page.     *)
LEMMA ClampBounds ==
  ASSUME NEW n \in Int, NEW size \in Nat \ {0}
  PROVE  Clamp(n, size) \in 0 .. (size - 1)
BY DEF Clamp

(* The cell of a column and a row of the page is a cell of the page.       *)
LEMMA CellOnPage ==
  ASSUME NEW c \in 0 .. (Cols - 1), NEW r \in 0 .. (Rows - 1)
  PROVE  Cell(c, r) \in Page
<1>1. /\ Cols \in Nat /\ Rows \in Nat /\ c \in Nat /\ r \in Nat
      /\ c <= Cols - 1 /\ r <= Rows - 1
  BY PointerAssumption
<1>2. Cols * r <= Cols * (Rows - 1)
  BY <1>1, SMT
<1>3. Cols * (Rows - 1) = Rows * Cols - Cols
  BY <1>1, SMT
<1>4. Cols * r \in Nat /\ Rows * Cols \in Nat
  BY <1>1, SMT
<1> QED
  BY <1>1, <1>2, <1>3, <1>4, SMT DEF Cell, Page

(* The constructor puts the pointer in the middle of the page.             *)
LEMMA PointerInitOnPage == PointerInit => PointerOnPage
<1> SUFFICES ASSUME PointerInit PROVE PointerOnPage
  OBVIOUS
<1>1. x \in 0 .. (Cols - 1) /\ y \in 0 .. (Rows - 1)
  BY PointerAssumption, SMT DEF PointerInit
<1>2. Cell(x, y) \in Page
  BY <1>1, CellOnPage
<1> QED
  BY <1>1, <1>2 DEF PointerInit, PointerOnPage

(* A move, a printed cell and a wipe keep the pointer on the page.         *)
LEMMA PointerNextOnPage ==
  PointerOnPage /\ [PointerNext]_pointerVars => PointerOnPage'
<1> SUFFICES ASSUME PointerOnPage, [PointerNext]_pointerVars
             PROVE  PointerOnPage'
  OBVIOUS
<1>1. ASSUME NEW xoffset \in Offsets, NEW yoffset \in Offsets,
             OnMouseMove(xoffset, yoffset)
      PROVE  PointerOnPage'
  <2>1. x + xoffset \in Int /\ y - yoffset \in Int
    BY PointerAssumption DEF PointerOnPage, Offsets
  <2>2. Int8(x + xoffset) \in Int /\ Int8(y - yoffset) \in Int
    BY <2>1, Int8Type, PointerAssumption DEF Offsets
  <2>3. x' \in 0 .. (Cols - 1) /\ y' \in 0 .. (Rows - 1)
    BY <1>1, <2>2, ClampBounds, PointerAssumption DEF OnMouseMove, Column, Row
  <2>4. Cell(x, y) \in Page /\ Cell(x', y') \in Page
    BY <2>3, CellOnPage DEF PointerOnPage
  <2> QED
    BY <1>1, <2>3, <2>4 DEF PointerOnPage, OnMouseMove, Exchange, Page
<1>2. CASE Wipe
  BY <1>2 DEF Wipe, PointerOnPage, Page
<1>3. ASSUME NEW c \in Page, Overprint(c)
      PROVE  PointerOnPage'
  BY <1>3 DEF Overprint, PointerOnPage, Page
<1>4. CASE UNCHANGED pointerVars
  BY <1>4 DEF pointerVars, PointerOnPage, Page
<1> QED
  BY <1>1, <1>2, <1>3, <1>4 DEF PointerNext, Moves, Overwrites

(* MouseToConsole never writes outside the page, whatever the mouse sends: *)
(* its coordinates are clamped after the sum has wrapped, in every step.   *)
THEOREM PointerStaysOnPage == PointerSpec => []PointerOnPage
BY PointerInitOnPage, PointerNextOnPage, PTL DEF PointerSpec

(* A move exchanges the colours of the old and of the new cell: what is    *)
(* wrong with the page stays wrong, and nothing else becomes wrong.        *)
LEMMA MoveKeepsGhosts ==
  ASSUME NEW xoffset \in Offsets, NEW yoffset \in Offsets,
         OnMouseMove(xoffset, yoffset)
  PROVE  Ghosts' = Ghosts
<1> DEFINE old == Cell(x, y)
           new == Cell(x', y')
<1>1. inverted' = Exchange(Exchange(inverted, old), new)
  BY DEF OnMouseMove
<1>2. Ghosts = Exchange(inverted, old)
  BY DEF Ghosts, Exchange
<1>3. Ghosts' = Exchange(inverted', new)
  BY DEF Ghosts, Exchange, Cell
<1> HIDE DEF old, new
<1> QED
  BY <1>1, <1>2, <1>3 DEF Exchange

(* Only text makes the page differ from "the pointer's cell is inverted    *)
(* and no other".                                                          *)
THEOREM OnlyTextMakesGhosts == PointerSpec => GhostsOnlyFromText
<1>1. [PointerNext]_pointerVars =>
        [ \/ Ghosts' = Ghosts
          \/ UNCHANGED <<x, y>> /\ inverted' \subseteq inverted ]_pointerVars
  BY MoveKeepsGhosts DEF PointerNext, Moves, Overwrites, Wipe, Overprint
<1> QED
  BY <1>1, PTL DEF PointerSpec, GhostsOnlyFromText

(* A sum of a coordinate and an offset that does not exceed an int8_t puts *)
(* the pointer where the mouse points, up to the edge of the page.         *)
LEMMA MoveFollows ==
  ASSUME PointerOnPage,
         NEW xoffset \in Offsets, NEW yoffset \in Offsets,
         OnMouseMove(xoffset, yoffset)
  PROVE  Follows(xoffset, yoffset)
<1>1. /\ Cols \in Nat \ {0} /\ Rows \in Nat \ {0} /\ Half \in Nat
      /\ Rows <= Half /\ Cols <= Half
      /\ x \in 0 .. (Cols - 1) /\ y \in 0 .. (Rows - 1)
      /\ xoffset \in (-Half) .. (Half - 1) /\ yoffset \in (-Half) .. (Half - 1)
  BY PointerAssumption DEF PointerOnPage, Offsets
<1>2. ASSUME xoffset <= Half - Cols
      PROVE  x' = Clamp(x + xoffset, Cols)
  <2>1. x + xoffset \in Offsets
    BY <1>1, <1>2, SMT DEF Offsets
  <2> QED
    BY <2>1, Int8Small DEF OnMouseMove, Column
<1>3. ASSUME yoffset >= Rows - Half
      PROVE  y' = Clamp(y - yoffset, Rows)
  <2>1. y - yoffset \in Offsets
    BY <1>1, <1>3, SMT DEF Offsets
  <2> QED
    BY <2>1, Int8Small DEF OnMouseMove, Row
<1> QED
  BY <1>1, <1>2, <1>3, SMT DEF Follows, Clamp

(* The pointer follows the mouse except where the coordinate overflows.    *)
THEOREM PointerFollowsMouse == PointerSpec => MovesFollowMouse
<1> DEFINE Good == \A xoffset, yoffset \in Offsets :
                     OnMouseMove(xoffset, yoffset) => Follows(xoffset, yoffset)
<1>1. PointerOnPage => [Good]_pointerVars
  BY MoveFollows
<1> HIDE DEF Good
<1>2. PointerSpec => [][Good]_pointerVars
  BY <1>1, PointerStaysOnPage, PTL
<1> QED
  BY <1>2 DEF Good, MovesFollowMouse

-----------------------------------------------------------------------------
(* Numbers and sets of numbers.                                            *)

(* A set of natural numbers has a least element.                           *)
LEMMA LeastNatural ==
  ASSUME NEW S \in SUBSET Nat, S # {}
  PROVE  \E i \in S : \A j \in S : i <= j
<1>1. PICK i \in S : \A j \in S : ~ (<<j, i>> \in OpToRel(<, Nat))
  BY NatLessThanWellFounded, WFMin
<1>2. \A j \in S : ~ (j < i)
  BY <1>1 DEF OpToRel
<1> QED
  BY <1>2

(* Remainders modulo 3 of sums.                                            *)
LEMMA SumsModulo3 ==
  ASSUME NEW a \in Nat, NEW b \in Nat
  PROVE  /\ ((a % 3) + b) % 3 = (a + b) % 3
         /\ (a + (b % 3)) % 3 = (a + b) % 3
BY SMT

(* A bit is 0 or 1.                                                        *)
LEMMA BitIsBinary ==
  ASSUME NEW byte \in Int, NEW i \in 0 .. 2
  PROVE  Bit(byte, i) \in {0, 1}
<1>1. <<1, 2, 4>>[i + 1] \in {1, 2, 4}
  BY SMT
<1> QED
  BY <1>1, SMT DEF Bit

-----------------------------------------------------------------------------
(* The bytes on their way.                                                 *)

Entry == [from : {"keyboard", "mouse"}, value : Int, part : 0 .. 2]

MouseIn(q, n) == {i \in 1 .. n : q[i].from = "mouse"}

Count(q, n) == Cardinality(MouseIn(q, n))

(* The parts of the mouse's bytes in q go round, beginning with p, and the *)
(* last packet is complete.                                                *)
GoesRound(q, p) ==
  /\ \A i \in 1 .. Len(q) :
       q[i].from = "mouse" => q[i].part = (p + Count(q, i - 1)) % 3
  /\ (p + Count(q, Len(q))) % 3 = 0

(* There are finitely many bytes of the mouse among the first n.           *)
LEMMA CountType ==
  ASSUME NEW q, NEW n \in Nat
  PROVE  IsFiniteSet(MouseIn(q, n)) /\ Count(q, n) \in Nat
<1>1. IsFiniteSet(1 .. n)
  BY FS_Interval
<1>2. MouseIn(q, n) \in SUBSET (1 .. n)
  BY DEF MouseIn
<1> QED
  BY <1>1, <1>2, FS_Subset, FS_CardinalityType DEF Count

(* One byte more counts if it is the mouse's.                              *)
LEMMA CountNext ==
  ASSUME NEW q, NEW n \in Nat
  PROVE  Count(q, n + 1) = Count(q, n) + (IF q[n + 1].from = "mouse"
                                          THEN 1 ELSE 0)
<1>1. IsFiniteSet(MouseIn(q, n)) /\ n + 1 \notin MouseIn(q, n)
  <2>1. n + 1 \notin MouseIn(q, n)
    BY DEF MouseIn
  <2> QED
    BY <2>1, CountType
<1>2. CASE q[n + 1].from = "mouse"
  <2>1. MouseIn(q, n + 1) = MouseIn(q, n) \cup {n + 1}
    BY <1>2 DEF MouseIn
  <2> QED
    BY <1>1, <1>2, <2>1, FS_AddElement DEF Count
<1>3. CASE q[n + 1].from # "mouse"
  <2>1. MouseIn(q, n + 1) = MouseIn(q, n)
    BY <1>3 DEF MouseIn
  <2> QED
    BY <1>3, <2>1, CountType DEF Count
<1> QED
  BY <1>2, <1>3

(* The first bytes of two queues that agree on them count the same.        *)
LEMMA CountAgrees ==
  ASSUME NEW q, NEW r, NEW n \in Nat, \A i \in 1 .. n : r[i] = q[i]
  PROVE  Count(r, n) = Count(q, n)
<1>1. MouseIn(r, n) = MouseIn(q, n)
  BY DEF MouseIn
<1> QED
  BY <1>1 DEF Count

(* What is left when the first n bytes have been read.                     *)
LEMMA AfterRead ==
  ASSUME NEW q \in Seq(Entry), NEW n \in 0 .. Len(q)
  PROVE  LET r == SubSeq(q, n + 1, Len(q))
         IN  /\ r \in Seq(Entry)
             /\ Len(r) = Len(q) - n
             /\ \A i \in 1 .. Len(r) : r[i] = q[n + i]
OBVIOUS

(* Of the first n + k bytes, those not among the first n are the first k   *)
(* of what is left.                                                        *)
LEMMA CountAfterRead ==
  ASSUME NEW q \in Seq(Entry), NEW n \in 0 .. Len(q),
         NEW k \in 0 .. (Len(q) - n)
  PROVE  Count(q, n + k) = Count(q, n) + Count(SubSeq(q, n + 1, Len(q)), k)
<1> DEFINE r == SubSeq(q, n + 1, Len(q))
           A == MouseIn(q, n)
           B == MouseIn(r, k)
           C == {i + n : i \in B}
<1>1. Len(r) = Len(q) - n /\ \A i \in 1 .. Len(r) : r[i] = q[n + i]
  BY AfterRead
<1> HIDE DEF r
<1>2. IsFiniteSet(A) /\ IsFiniteSet(B)
      /\ Cardinality(A) \in Nat /\ Cardinality(B) \in Nat
  BY CountType DEF Count
<1>3. MouseIn(q, n + k) = A \cup C /\ A \cap C = {}
  <2>1. \A j \in C : j \in Int /\ j - n \in B
    BY DEF MouseIn
  <2>2. \A j \in (n + 1) .. (n + k) : j \in C <=> q[j].from = "mouse"
    BY <1>1 DEF MouseIn
  <2>3. C \subseteq (n + 1) .. (n + k)
    BY <2>1 DEF MouseIn
  <2> HIDE DEF C
  <2>4. A = {j \in 1 .. n : q[j].from = "mouse"}
        /\ MouseIn(q, n + k) = {j \in 1 .. (n + k) : q[j].from = "mouse"}
    BY DEF MouseIn
  <2> HIDE DEF A
  <2>5. ASSUME NEW j
        PROVE  j \in MouseIn(q, n + k) <=> j \in A \/ j \in C
    <3>1. j \in 1 .. (n + k) <=> j \in 1 .. n \/ j \in (n + 1) .. (n + k)
      OBVIOUS
    <3> QED
      BY <2>2, <2>3, <2>4, <3>1
  <2>6. A \cap C = {}
    BY <2>3, <2>4
  <2> QED
    BY <2>5, <2>6
<1>4. IsFiniteSet(C) /\ Cardinality(C) = Cardinality(B)
  <2> DEFINE f == [i \in B |-> i + n]
  <2>1. f \in Bijection(B, C)
    <3>1. f \in [B -> C]
      OBVIOUS
    <3>2. \A i, j \in B : f[i] = f[j] => i = j
      BY DEF MouseIn
    <3>3. \A c \in C : \E i \in B : f[i] = c
      OBVIOUS
    <3> QED
      BY <3>1, <3>2, <3>3 DEF Bijection, Injection, IsInjective, Surjection
  <2>2. ExistsBijection(B, C)
    BY <2>1 DEF ExistsBijection
  <2> QED
    BY <1>2, <2>2, FS_Bijection
<1>5. Cardinality(A \cup C)
        = Cardinality(A) + Cardinality(C) - Cardinality(A \cap C)
  BY <1>2, <1>4, FS_Union
<1>6. Cardinality(A \cap C) = 0
  BY <1>3, FS_EmptySet
<1>7. /\ Count(q, n + k) = Cardinality(A \cup C)
      /\ Count(q, n) = Cardinality(A) /\ Count(r, k) = Cardinality(B)
  BY <1>3 DEF Count
<1> HIDE DEF A, B, C
<1>8. Count(q, n + k) = Count(q, n) + Count(r, k)
  BY <1>2, <1>4, <1>5, <1>6, <1>7
<1> QED
  BY <1>8 DEF r

(* Reading takes the parts on by as many as it takes of the mouse's bytes. *)
LEMMA GoesRoundAfterRead ==
  ASSUME NEW q \in Seq(Entry), NEW p \in Nat, GoesRound(q, p),
         NEW n \in 0 .. Len(q)
  PROVE  GoesRound(SubSeq(q, n + 1, Len(q)), (p + Count(q, n)) % 3)
<1> DEFINE r == SubSeq(q, n + 1, Len(q))
<1>1. Len(r) = Len(q) - n /\ \A i \in 1 .. Len(r) : r[i] = q[n + i]
  BY AfterRead
<1>2. \A k \in 0 .. Len(r) : Count(q, n + k) = Count(q, n) + Count(r, k)
  BY <1>1, CountAfterRead
<1> HIDE DEF r
<1>3. \A k \in 0 .. Len(r) :
        (((p + Count(q, n)) % 3) + Count(r, k)) % 3
          = (p + Count(q, n + k)) % 3
  <2> SUFFICES ASSUME NEW k \in 0 .. Len(r)
               PROVE  (((p + Count(q, n)) % 3) + Count(r, k)) % 3
                        = (p + Count(q, n + k)) % 3
    OBVIOUS
  <2>1. Count(q, n) \in Nat /\ Count(r, k) \in Nat
    BY CountType
  <2>2. (((p + Count(q, n)) % 3) + Count(r, k)) % 3
          = ((p + Count(q, n)) + Count(r, k)) % 3
    BY <2>1, SumsModulo3
  <2> QED
    BY <1>2, <2>1, <2>2
<1>4. ASSUME NEW i \in 1 .. Len(r), r[i].from = "mouse"
      PROVE  r[i].part = (((p + Count(q, n)) % 3) + Count(r, i - 1)) % 3
  <2>1. n + i \in 1 .. Len(q) /\ i - 1 \in 0 .. Len(r) /\ r[i] = q[n + i]
        /\ (n + i) - 1 = n + (i - 1)
    BY <1>1
  <2>2. q[n + i].part = (p + Count(q, n + (i - 1))) % 3
    BY <1>4, <2>1 DEF GoesRound
  <2> QED
    BY <1>3, <2>1, <2>2
<1>5. (((p + Count(q, n)) % 3) + Count(r, Len(r))) % 3 = 0
  <2>1. Len(r) \in 0 .. Len(r) /\ n + Len(r) = Len(q)
    BY <1>1
  <2> QED
    BY <1>3, <2>1 DEF GoesRound
<1> QED
  BY <1>4, <1>5 DEF GoesRound, r

-----------------------------------------------------------------------------
(* The inductive invariant.                                                *)

MouseTypes ==
  /\ queue \in Seq(Entry)
  /\ offset \in 0 .. 2 /\ lost \in 0 .. 2 /\ whole \in BOOLEAN
  /\ buffer \in [0 .. 2 -> Int] /\ buttons \in Int /\ held \in Int

(* The part that the driver's slot and the lost bytes say comes next.      *)
Phase == (offset + lost) % 3

FirstBytes(q) == {i \in 1 .. Len(q) : q[i].from = "mouse" /\ q[i].part = 0}

(* The buttons of the last packet are on their way, the last first byte in *)
(* the queue; or else in the buffer; or else the driver has them.          *)
FlagsKnown ==
  whole =>
    /\ lost = 0
    /\ \A i \in FirstBytes(queue) :
         (\A j \in FirstBytes(queue) : j <= i) => queue[i].value = held
    /\ FirstBytes(queue) = {} =>
         IF offset = 0 THEN buttons = held ELSE buffer[0] = held

MInv ==
  /\ MouseTypes
  /\ GoesRound(queue, Phase)
  /\ FlagsKnown
  /\ pressed = {i \in 0 .. 2 : Bit(buttons, i) = 1}
  /\ NoStuckByte

(* A packet has three bytes.                                               *)
LEMMA PhaseType == MouseTypes => Phase \in 0 .. 2
BY SMT DEF MouseTypes, Phase

(* A late acknowledgement stands where the third byte of a packet would.   *)
LEMMA MouseStarts == Init => MInv
<1> SUFFICES ASSUME Init PROVE MInv
  OBVIOUS
<1>1. pressed = {i \in 0 .. 2 : Bit(buttons, i) = 1}
  <2>1. \A i \in 0 .. 2 : <<1, 2, 4>>[i + 1] \in {1, 2, 4}
    BY SMT
  <2>2. \A i \in 0 .. 2 : Bit(0, i) = 0
    BY <2>1, SMT DEF Bit
  <2> QED
    BY <2>2 DEF Init
<1>2. CASE queue = <<>> /\ latched = {} /\ lost = 0 /\ whole = TRUE
  <2>1. Count(queue, 0) = 0
    <3>1. MouseIn(queue, 0) = {}
      BY DEF MouseIn
    <3> QED
      BY <3>1, FS_EmptySet DEF Count
  <2>2. MouseTypes
    BY <1>2 DEF Init, MouseTypes
  <2>3. Phase = 0
    BY <1>2, SMT DEF Init, Phase
  <2>4. GoesRound(queue, Phase)
    BY <1>2, <2>1, <2>3 DEF GoesRound
  <2>5. FlagsKnown /\ NoStuckByte
    BY <1>2 DEF Init, FlagsKnown, NoStuckByte, FirstBytes
  <2> QED
    BY <1>1, <2>2, <2>4, <2>5 DEF MInv
<1>3. CASE queue = <<Ack>> /\ latched = {"mouse"} /\ lost = 2 /\ whole = FALSE
  <2>1. Count(queue, 0) = 0
    <3>1. MouseIn(queue, 0) = {}
      BY DEF MouseIn
    <3> QED
      BY <3>1, FS_EmptySet DEF Count
  <2>2. Len(queue) = 1 /\ queue[1] = Ack /\ Head(queue) = Ack
    BY <1>3
  <2>3. Ack \in Entry /\ Ack.from = "mouse" /\ Ack.part = 2
    BY PointerAssumption, SMT DEF Ack, Entry
  <2>4. Count(queue, 1) = 1
    <3>1. Count(queue, 0 + 1) = Count(queue, 0) + 1
      BY <2>2, <2>3, CountNext
    <3> QED
      BY <2>1, <3>1
  <2>5. MouseTypes
    <3>1. <<Ack>> \in Seq(Entry)
      BY <2>3
    <3>2. queue \in Seq(Entry)
      BY <1>3, <3>1
    <3>3. /\ offset = 0 /\ buttons = 0 /\ held = 0
          /\ buffer = [i \in 0 .. 2 |-> 0]
      BY DEF Init
    <3>4. lost \in 0 .. 2
      BY <1>3
    <3>5. whole \in BOOLEAN
      BY <1>3, Zenon
    <3> QED
      BY <3>2, <3>3, <3>4, <3>5 DEF MouseTypes
  <2>6. Phase = 2
    BY <1>3, SMT DEF Init, Phase
  <2>7. GoesRound(queue, Phase)
    BY <2>1, <2>2, <2>3, <2>4, <2>6 DEF GoesRound
  <2>8. FlagsKnown /\ NoStuckByte
    BY <1>3, <2>2, <2>3 DEF FlagsKnown, NoStuckByte
  <2> QED
    BY <1>1, <2>5, <2>7, <2>8 DEF MInv
<1> QED
  BY <1>2, <1>3 DEF Init

(* The bytes that are sent join the queue at its end.                      *)
LEMMA AfterSend ==
  ASSUME MouseTypes, NEW device \in {"keyboard", "mouse"},
         NEW bytes \in Seq(Int), Len(bytes) \in 1 .. 3, Send(device, bytes)
  PROVE  /\ queue' \in Seq(Entry)
         /\ Len(queue') = Len(queue) + Len(bytes)
         /\ \A i \in 1 .. Len(queue) : queue'[i] = queue[i]
         /\ \A k \in 1 .. Len(bytes) :
              queue'[Len(queue) + k]
                = [from |-> device, value |-> bytes[k], part |-> k - 1]
<1> DEFINE s == [i \in DOMAIN bytes |->
                   [from |-> device, value |-> bytes[i], part |-> i - 1]]
<1>1. DOMAIN bytes = 1 .. Len(bytes) /\ Len(bytes) \in Nat
  OBVIOUS
<1>2. s \in Seq(Entry) /\ Len(s) = Len(bytes)
  BY <1>1 DEF Entry
<1>3. queue' = queue \o s
  BY DEF Send
<1>4. \A k \in 1 .. Len(bytes) :
        s[k] = [from |-> device, value |-> bytes[k], part |-> k - 1]
  BY <1>1
<1>5. queue \in Seq(Entry)
  BY DEF MouseTypes
<1> HIDE DEF s
<1>6. /\ queue' \in Seq(Entry)
      /\ Len(queue') = Len(queue) + Len(s)
      /\ \A i \in 1 .. Len(queue) + Len(s) :
           queue'[i] = IF i <= Len(queue) THEN queue[i] ELSE s[i - Len(queue)]
  BY <1>2, <1>3, <1>5, ConcatProperties
<1>7. Len(queue) \in Nat
  BY <1>5
<1>8. ASSUME NEW i \in 1 .. Len(queue)
      PROVE  queue'[i] = queue[i]
  BY <1>2, <1>6, <1>7
<1>9. ASSUME NEW k \in 1 .. Len(bytes)
      PROVE  queue'[Len(queue) + k] = s[k]
  <2>1. /\ Len(queue) + k \in 1 .. Len(queue) + Len(s)
        /\ ~(Len(queue) + k <= Len(queue))
        /\ (Len(queue) + k) - Len(queue) = k
    BY <1>1, <1>2, <1>7
  <2> QED
    BY <1>6, <2>1
<1> QED
  BY <1>2, <1>4, <1>6, <1>8, <1>9

(* A packet, or a byte of the keyboard, keeps the parts going round: the   *)
(* last packet of the queue is complete.                                   *)
LEMMA SendGoesRound ==
  ASSUME MouseTypes, NEW p \in 0 .. 2, GoesRound(queue, p),
         NEW device \in {"keyboard", "mouse"},
         NEW bytes \in Seq(Int), Send(device, bytes),
         Len(bytes) = IF device = "mouse" THEN 3 ELSE 1
  PROVE  GoesRound(queue', p)
<1> DEFINE n == Len(queue)
           c == Count(queue, n)
           q == queue'
<1>1. /\ Len(q) = n + Len(bytes)
      /\ \A i \in 1 .. n : q[i] = queue[i]
      /\ \A k \in 1 .. Len(bytes) :
           q[n + k] = [from |-> device, value |-> bytes[k], part |-> k - 1]
  <2>1. Len(bytes) \in 1 .. 3
    OBVIOUS
  <2> QED
    BY <2>1, AfterSend
<1>2. n \in Nat
  BY DEF MouseTypes
<1>3. \A k \in 0 .. n : Count(q, k) = Count(queue, k)
  BY <1>1, <1>2, CountAgrees
<1>4. c \in Nat /\ (p + c) % 3 = 0
  BY <1>2, CountType DEF GoesRound
<1>5. ASSUME NEW i \in 1 .. n, q[i].from = "mouse"
      PROVE  q[i].part = (p + Count(q, i - 1)) % 3
  <2>1. q[i] = queue[i] /\ i - 1 \in 0 .. n
    BY <1>1, <1>2
  <2> QED
    BY <1>3, <1>5, <2>1 DEF GoesRound
<1>6. Count(q, n) = c
  BY <1>2, <1>3
<1> HIDE DEF n, c, q
<1>7. CASE device = "keyboard"
  <2>1. Len(q) = n + 1 /\ q[n + 1].from # "mouse"
    BY <1>1, <1>7
  <2>2. Count(q, n + 1) = c
    <3>1. Count(q, n + 1) = Count(q, n) + 0
      BY <1>2, <2>1, CountNext
    <3> QED
      BY <1>4, <1>6, <3>1
  <2> QED
    BY <1>2, <1>4, <1>5, <2>1, <2>2 DEF GoesRound, q
<1>8. CASE device = "mouse"
  <2>1. /\ Len(q) = n + 3
        /\ q[n + 1].from = "mouse" /\ q[n + 1].part = 0
        /\ q[n + 2].from = "mouse" /\ q[n + 2].part = 1
        /\ q[n + 3].from = "mouse" /\ q[n + 3].part = 2
    BY <1>1, <1>8
  <2>2. Count(q, n + 1) = c + 1
    BY <1>2, <1>6, <2>1, CountNext
  <2>3. Count(q, n + 2) = c + 2
    <3>1. Count(q, (n + 1) + 1) = Count(q, n + 1) + 1
      BY <1>2, <2>1, CountNext
    <3> QED
      BY <1>2, <1>4, <2>2, <3>1
  <2>4. Count(q, n + 3) = c + 3
    <3>1. Count(q, (n + 2) + 1) = Count(q, n + 2) + 1
      BY <1>2, <2>1, CountNext
    <3> QED
      BY <1>2, <1>4, <2>3, <3>1
  <2>5. /\ (p + (c + 1)) % 3 = 1 /\ (p + (c + 2)) % 3 = 2
        /\ (p + (c + 3)) % 3 = 0
    BY <1>4, SMT
  <2>6. ASSUME NEW i \in 1 .. Len(q), q[i].from = "mouse"
        PROVE  q[i].part = (p + Count(q, i - 1)) % 3
    <3>1. i \in 1 .. n \/ i = n + 1 \/ i = n + 2 \/ i = n + 3
      BY <1>2, <2>1
    <3>2. CASE i = n + 1
      <4>1. i - 1 = n
        BY <1>2, <3>2
      <4> QED
        BY <1>4, <1>6, <2>1, <3>2, <4>1
    <3>3. CASE i = n + 2
      <4>1. i - 1 = n + 1
        BY <1>2, <3>3
      <4> QED
        BY <2>1, <2>2, <2>5, <3>3, <4>1
    <3>4. CASE i = n + 3
      <4>1. i - 1 = n + 2
        BY <1>2, <3>4
      <4> QED
        BY <2>1, <2>3, <2>5, <3>4, <4>1
    <3> QED
      BY <1>5, <2>6, <3>1, <3>2, <3>3, <3>4
  <2> QED
    BY <2>1, <2>4, <2>5, <2>6 DEF GoesRound, q
<1> QED
  BY <1>7, <1>8

(* Whoever sends into an empty register latches an interrupt.              *)
LEMMA SendLatches ==
  ASSUME MouseTypes, NoStuckByte, NEW device \in {"keyboard", "mouse"},
         NEW bytes \in Seq(Int), Len(bytes) \in 1 .. 3, Send(device, bytes)
  PROVE  NoStuckByte'
<1>1. /\ Len(queue) \in Nat /\ Len(queue') = Len(queue) + Len(bytes)
      /\ \A i \in 1 .. Len(queue) : queue'[i] = queue[i]
      /\ queue'[Len(queue) + 1].from = device
  <2>1. 1 \in 1 .. Len(bytes)
    OBVIOUS
  <2>2. queue'[Len(queue) + 1]
          = [from |-> device, value |-> bytes[1], part |-> 1 - 1]
    BY <2>1, AfterSend
  <2>3. queue'[Len(queue) + 1].from = device
    BY <2>2
  <2>4. Len(queue) \in Nat
    BY DEF MouseTypes
  <2> QED
    BY <2>3, <2>4, AfterSend
<1>2. CASE queue = <<>>
  BY <1>1, <1>2 DEF Send, NoStuckByte
<1>3. CASE queue # <<>>
  <2>1. 1 \in 1 .. Len(queue)
    BY <1>3 DEF MouseTypes
  <2> QED
    BY <1>1, <1>3, <2>1 DEF Send, NoStuckByte
<1> QED
  BY <1>2, <1>3

-----------------------------------------------------------------------------
(* Steps.                                                                  *)

(* The mouse's packet carries the buttons that are now held.               *)
LEMMA ReportKeeps ==
  ASSUME MInv, NEW flags \in Flags, NEW dx \in Changes, NEW dy \in Changes,
         Report(<<flags, dx, dy>>)
  PROVE  MInv'
<1> DEFINE packet == <<flags, dx, dy>>
           n == Len(queue)
<1>1. MouseTypes /\ n \in Nat /\ UNCHANGED <<driver, lost, whole>>
      /\ held' = flags
  BY DEF MInv, MouseTypes, Report
<1>2. flags \in Int /\ dx \in Int /\ dy \in Int
  BY MouseAssumption, PointerAssumption DEF Byte
<1>3. packet \in Seq(Int) /\ Len(packet) = 3 /\ packet[1] = flags
      /\ Len(packet) \in 1 .. 3
  BY <1>2
<1>4. Send("mouse", packet)
  BY DEF Report
<1> HIDE DEF packet
<1>5. /\ queue' \in Seq(Entry) /\ Len(queue') = n + 3
      /\ \A k \in 1 .. 3 :
           queue'[n + k] = [from |-> "mouse", value |-> packet[k],
                            part |-> k - 1]
  BY <1>1, <1>3, <1>4, AfterSend
<1>6. MouseTypes'
  BY <1>1, <1>2, <1>5 DEF MouseTypes, driver
<1>7. GoesRound(queue', Phase')
  <2>1. Phase' = Phase /\ Phase \in 0 .. 2
    BY <1>1, PhaseType DEF Phase, driver
  <2> QED
    BY <1>1, <1>3, <1>4, <2>1, SendGoesRound DEF MInv
<1>8. FlagsKnown'
  <2>1. /\ queue'[n + 1].from = "mouse" /\ queue'[n + 1].part = 0
        /\ queue'[n + 1].value = flags
        /\ queue'[n + 2].part = 1 /\ queue'[n + 3].part = 2
    BY <1>3, <1>5
  <2>2. n + 1 \in FirstBytes(queue')
    BY <1>1, <1>5, <2>1 DEF FirstBytes
  <2>3. \A i \in FirstBytes(queue') : i <= n + 1
    <3> SUFFICES ASSUME NEW i \in 1 .. (n + 3), queue'[i].part = 0
                 PROVE  i <= n + 1
      BY <1>5 DEF FirstBytes
    <3>1. i # n + 2 /\ i # n + 3
      BY <2>1
    <3> QED
      BY <1>1, <3>1
  <2>4. ASSUME NEW i \in FirstBytes(queue'),
               \A j \in FirstBytes(queue') : j <= i
        PROVE  queue'[i].value = held'
    <3>1. i = n + 1
      <4>1. i <= n + 1 /\ n + 1 <= i /\ i \in Int
        BY <2>2, <2>3, <2>4 DEF FirstBytes
      <4> QED
        BY <1>1, <4>1
    <3> QED
      BY <1>1, <2>1, <3>1
  <2>5. whole' => lost' = 0
    BY <1>1 DEF MInv, FlagsKnown
  <2> QED
    BY <2>2, <2>4, <2>5 DEF FlagsKnown
<1>9. NoStuckByte'
  BY <1>1, <1>3, <1>4, SendLatches DEF MInv
<1>10. (pressed = {i \in 0 .. 2 : Bit(buttons, i) = 1})'
  BY <1>1 DEF MInv, driver, Bit
<1> QED
  BY <1>6, <1>7, <1>8, <1>9, <1>10 DEF MInv

(* A byte of the keyboard comes behind those of the mouse.                 *)
LEMMA KeyMovesKeeps == MInv /\ KeyMoves => MInv'
<1> SUFFICES ASSUME MInv, KeyMoves PROVE MInv'
  OBVIOUS
<1> DEFINE n == Len(queue)
           byte == <<0>>
<1>1. MouseTypes /\ n \in Nat /\ UNCHANGED <<driver, held, lost, whole>>
      /\ Send("keyboard", byte)
  BY DEF MInv, MouseTypes, KeyMoves
<1>2. byte \in Seq(Int) /\ Len(byte) = 1 /\ Len(byte) \in 1 .. 3
  OBVIOUS
<1> HIDE DEF byte
<1>3. /\ queue' \in Seq(Entry) /\ Len(queue') = n + 1
      /\ \A i \in 1 .. n : queue'[i] = queue[i]
      /\ \A k \in 1 .. 1 :
           queue'[n + k] = [from |-> "keyboard", value |-> byte[k],
                            part |-> k - 1]
  BY <1>1, <1>2, AfterSend
<1>4. MouseTypes'
  BY <1>1, <1>3 DEF MouseTypes, driver
<1>5. GoesRound(queue', Phase')
  <2>1. Phase' = Phase /\ Phase \in 0 .. 2
    BY <1>1, PhaseType DEF Phase, driver
  <2> QED
    BY <1>1, <1>2, <2>1, SendGoesRound DEF MInv
<1>6. FirstBytes(queue') = FirstBytes(queue)
  <2>1. queue'[n + 1].from = "keyboard"
    BY <1>3
  <2> QED
    BY <1>1, <1>3, <2>1 DEF FirstBytes
<1>7. FlagsKnown'
  <2>1. \A i \in FirstBytes(queue) : queue'[i] = queue[i]
    BY <1>3 DEF FirstBytes
  <2> QED
    BY <1>1, <1>6, <2>1 DEF MInv, FlagsKnown, driver
<1>8. NoStuckByte'
  BY <1>1, <1>2, SendLatches DEF MInv
<1>9. (pressed = {i \in 0 .. 2 : Bit(buttons, i) = 1})'
  BY <1>1 DEF MInv, driver, Bit
<1> QED
  BY <1>4, <1>5, <1>7, <1>8, <1>9 DEF MInv

(* The byte that enters the register behind those read latches an          *)
(* interrupt.                                                              *)
LEMMA ReadLatches ==
  ASSUME MouseTypes, NEW device, NEW n \in 1 .. Len(queue), Read(device, n)
  PROVE  NoStuckByte'
<1> SUFFICES ASSUME queue' # <<>> PROVE Head(queue').from \in latched'
  BY DEF NoStuckByte
<1>1. /\ queue' \in Seq(Entry) /\ Len(queue') = Len(queue) - n
      /\ \A i \in 1 .. Len(queue') : queue'[i] = queue[n + i]
  BY AfterRead DEF Read, MouseTypes
<1>2. 1 \in 1 .. Len(queue') /\ Head(queue') = queue[n + 1]
      /\ n + 1 \in (2 .. Len(queue)) \cap (1 .. n + 1)
  BY <1>1 DEF MouseTypes
<1> QED
  BY <1>2 DEF Read

(* The first bytes of packets that are left are those behind what was read.*)
LEMMA FirstBytesAfterRead ==
  ASSUME MouseTypes, NEW n \in 0 .. Len(queue),
         queue' = SubSeq(queue, n + 1, Len(queue))
  PROVE  /\ \A i \in 1 .. Len(queue') :
              i \in FirstBytes(queue') <=> n + i \in FirstBytes(queue)
         /\ (\A k \in 1 .. n : k \notin FirstBytes(queue)) =>
              (FirstBytes(queue') = {} => FirstBytes(queue) = {})
<1>1. /\ Len(queue) \in Nat /\ Len(queue') = Len(queue) - n
      /\ \A i \in 1 .. Len(queue') : queue'[i] = queue[n + i]
  BY AfterRead DEF MouseTypes
<1>2. \A i \in 1 .. Len(queue') :
        i \in FirstBytes(queue') <=> n + i \in FirstBytes(queue)
  BY <1>1 DEF FirstBytes
<1>3. ASSUME \A k \in 1 .. n : k \notin FirstBytes(queue),
             FirstBytes(queue') = {}, NEW k \in FirstBytes(queue)
      PROVE  FALSE
  <2>1. k \in (n + 1) .. Len(queue)
    BY <1>1, <1>3 DEF FirstBytes
  <2>2. k - n \in 1 .. Len(queue') /\ n + (k - n) = k
    BY <1>1, <2>1
  <2> QED
    BY <1>2, <1>3, <2>2
<1> QED
  BY <1>2, <1>3

(* Reading does not change which first byte is the last.                   *)
LEMMA LastFlagsAfterRead ==
  ASSUME MouseTypes, NEW n \in 0 .. Len(queue),
         queue' = SubSeq(queue, n + 1, Len(queue)),
         \A i \in FirstBytes(queue) :
           (\A j \in FirstBytes(queue) : j <= i) => queue[i].value = held,
         NEW i \in FirstBytes(queue'),
         \A j \in FirstBytes(queue') : j <= i
  PROVE  queue'[i].value = held
<1>1. /\ Len(queue) \in Nat /\ Len(queue') = Len(queue) - n
      /\ \A j \in 1 .. Len(queue') : queue'[j] = queue[n + j]
  BY AfterRead DEF MouseTypes
<1>2. i \in 1 .. Len(queue') /\ n + i \in FirstBytes(queue)
      /\ queue'[i] = queue[n + i]
  BY <1>1, FirstBytesAfterRead DEF FirstBytes
<1>3. ASSUME NEW k \in FirstBytes(queue)
      PROVE  k <= n + i
  <2>1. k \in 1 .. Len(queue)
    BY DEF FirstBytes
  <2>2. CASE k <= n
    BY <1>2, <2>1, <2>2
  <2>3. CASE ~(k <= n)
    <3>1. k - n \in 1 .. Len(queue') /\ n + (k - n) = k
      BY <1>1, <2>1, <2>3
    <3>2. k - n <= i
      BY <3>1, FirstBytesAfterRead
    <3> QED
      BY <1>2, <2>1, <3>2
  <2> QED
    BY <2>2, <2>3
<1> QED
  BY <1>2, <1>3

(* What the keyboard's handler reads of the mouse's puts the driver out of *)
(* step, and is counted.                                                   *)
LEMMA KeyboardHandlesKeeps ==
  ASSUME MInv, NEW n \in Nat, KeyboardHandles(n)
  PROVE  MInv'
<1> DEFINE c == Count(queue, n)
<1>1. /\ MouseTypes /\ UNCHANGED <<driver, held>>
      /\ n \in 0 .. Len(queue) /\ Len(queue) \in Nat
      /\ queue' = SubSeq(queue, n + 1, Len(queue))
      /\ lost' = (lost + c) % 3
      /\ whole' = (whole /\ OfMouse(n) = {})
  BY DEF MInv, MouseTypes, KeyboardHandles, Read, Count, OfMouse, MouseIn
<1>2. c \in Nat /\ lost \in 0 .. 2 /\ offset \in 0 .. 2
  BY <1>1, CountType DEF MouseTypes
<1>3. queue' \in Seq(Entry)
  BY <1>1, AfterRead DEF MouseTypes
<1> HIDE DEF c
<1>4. MouseTypes'
  <2>1. lost' \in 0 .. 2
    BY <1>1, <1>2, SMT
  <2>2. whole' \in BOOLEAN
    BY <1>1, Zenon
  <2> QED
    BY <1>1, <1>3, <2>1, <2>2 DEF MouseTypes, driver
<1>5. GoesRound(queue', Phase')
  <2>1. Phase' = (Phase + c) % 3
    <3>1. Phase' = (offset + ((lost + c) % 3)) % 3
      BY <1>1 DEF Phase, driver
    <3>2. (offset + ((lost + c) % 3)) % 3 = (offset + (lost + c)) % 3
      BY <1>2, SumsModulo3
    <3>3. (((offset + lost) % 3) + c) % 3 = ((offset + lost) + c) % 3
      BY <1>2, SumsModulo3
    <3>4. offset + (lost + c) = (offset + lost) + c
      BY <1>2
    <3> QED
      BY <3>1, <3>2, <3>3, <3>4 DEF Phase
  <2>2. Phase \in Nat /\ GoesRound(queue, Phase) /\ queue \in Seq(Entry)
    BY <1>1, PhaseType DEF MInv, MouseTypes
  <2>3. GoesRound(SubSeq(queue, n + 1, Len(queue)),
                  (Phase + Count(queue, n)) % 3)
    BY <1>1, <2>2, GoesRoundAfterRead
  <2> QED
    BY <1>1, <2>1, <2>3 DEF c
<1>6. FlagsKnown'
  <2> SUFFICES ASSUME whole'
               PROVE  /\ lost' = 0
                      /\ \A i \in FirstBytes(queue') :
                           (\A j \in FirstBytes(queue') : j <= i)
                             => queue'[i].value = held'
                      /\ FirstBytes(queue') = {} =>
                           IF offset' = 0 THEN buttons' = held'
                                          ELSE buffer'[0] = held'
    BY DEF FlagsKnown
  <2>1. whole /\ OfMouse(n) = {}
    BY <1>1
  <2>2. /\ lost = 0
        /\ \A i \in FirstBytes(queue) :
             (\A j \in FirstBytes(queue) : j <= i) => queue[i].value = held
        /\ FirstBytes(queue) = {} =>
             IF offset = 0 THEN buttons = held ELSE buffer[0] = held
    BY <2>1 DEF MInv, FlagsKnown
  <2>3. c = 0
    <3>1. MouseIn(queue, n) = {}
      BY <2>1 DEF MouseIn, OfMouse
    <3> QED
      BY <3>1, FS_EmptySet DEF c, Count
  <2>4. lost' = 0
    BY <1>1, <2>2, <2>3, SMT
  <2>5. \A k \in 1 .. n : k \notin FirstBytes(queue)
    BY <2>1 DEF OfMouse, FirstBytes
  <2>6. FirstBytes(queue') = {} => FirstBytes(queue) = {}
    BY <1>1, <2>5, FirstBytesAfterRead
  <2>7. \A i \in FirstBytes(queue') :
          (\A j \in FirstBytes(queue') : j <= i) => queue'[i].value = held
    BY <1>1, <2>2, LastFlagsAfterRead
  <2> QED
    BY <1>1, <2>2, <2>4, <2>6, <2>7 DEF driver
<1>7. NoStuckByte'
  <2>1. CASE queue = <<>>
    <3>1. queue' = <<>>
      BY <1>1, <2>1
    <3> QED
      BY <3>1 DEF NoStuckByte
  <2>2. CASE queue # <<>>
    BY <1>1, <2>2, ReadLatches DEF KeyboardHandles
  <2> QED
    BY <2>1, <2>2
<1>8. (pressed = {i \in 0 .. 2 : Bit(buttons, i) = 1})'
  BY <1>1 DEF MInv, driver, Bit
<1> QED
  BY <1>4, <1>5, <1>6, <1>7, <1>8 DEF MInv

(* OnMouseUp and OnMouseDown tell the handler of each button that differs. *)
LEMMA ButtonsTold ==
  ASSUME NEW byte \in Int, buttons \in Int, Buttons(byte),
         pressed = {i \in 0 .. 2 : Bit(buttons, i) = 1}
  PROVE  pressed' = {i \in 0 .. 2 : Bit(byte, i) = 1}
<1>1. \A i \in 0 .. 2 : Bit(byte, i) \in {0, 1} /\ Bit(buttons, i) \in {0, 1}
  BY BitIsBinary
<1>2. pressed' = (pressed \ {i \in Changed(byte) : Bit(buttons, i) = 1})
                   \cup {i \in Changed(byte) : Bit(buttons, i) = 0}
  BY DEF Buttons
<1>3. ASSUME NEW i
      PROVE  i \in pressed' <=> i \in 0 .. 2 /\ Bit(byte, i) = 1
  BY <1>1, <1>2 DEF Changed
<1> QED
  BY <1>3

(* The driver puts the byte where it belongs, as long as it is in step;    *)
(* and after the third byte it knows the buttons of the packet.            *)
LEMMA HandleInterruptKeeps == MInv /\ HandleInterrupt => MInv'
<1> SUFFICES ASSUME MInv, HandleInterrupt PROVE MInv'
  OBVIOUS
<1>1. MouseTypes /\ UNCHANGED <<held, lost, whole>>
  BY DEF MInv, HandleInterrupt
<1>2. CASE ~Status
  <2>1. UNCHANGED <<driver, queue>> /\ latched' = latched \ {"mouse"}
    BY <1>2 DEF HandleInterrupt
  <2>2. NoStuckByte'
    BY <1>2, <2>1 DEF MInv, NoStuckByte, Status
  <2> QED
    BY <1>1, <2>1, <2>2
       DEF MInv, MouseTypes, Phase, FlagsKnown, driver, Bit
<1>3. CASE Status
  <2> DEFINE part == queue[1].part
             value == queue[1].value
  <2>1. /\ Len(queue) \in Nat /\ 1 \in 0 .. Len(queue) /\ 1 \in 1 .. Len(queue)
        /\ Head(queue) = queue[1] /\ queue[1] \in Entry
        /\ queue[1].from = "mouse"
    BY <1>1, <1>3 DEF Status, MouseTypes
  <2>2. /\ queue' = SubSeq(queue, 1 + 1, Len(queue))
        /\ buffer' = [buffer EXCEPT ![offset] = value]
        /\ offset' = (offset + 1) % 3
        /\ Read("mouse", 1)
        /\ IF offset' = 0 THEN Buttons(buffer'[0])
                          ELSE UNCHANGED <<buttons, pressed>>
    BY <1>3, <2>1 DEF HandleInterrupt, Read, NextOffset, Packet
  <2>3. value \in Int /\ offset \in 0 .. 2 /\ lost \in 0 .. 2
        /\ buffer \in [0 .. 2 -> Int]
    BY <1>1, <2>1 DEF MouseTypes, Entry
  <2>4. part = Phase
    <3>1. MouseIn(queue, 0) = {}
      BY DEF MouseIn
    <3>2. Count(queue, 1 - 1) = 0
      BY <3>1, FS_EmptySet DEF Count
    <3>3. part = (Phase + Count(queue, 1 - 1)) % 3
      BY <2>1 DEF MInv, GoesRound
    <3>4. Phase \in 0 .. 2
      BY <1>1, PhaseType
    <3> QED
      BY <3>2, <3>3, <3>4, SMT
  <2> HIDE DEF part, value
  <2>5. GoesRound(queue', Phase')
    <3>1. Count(queue, 1) = 1
      <4>1. MouseIn(queue, 1) = {1}
        BY <2>1 DEF MouseIn
      <4> QED
        BY <4>1, FS_Singleton DEF Count
    <3>2. Phase' = (Phase + 1) % 3
      BY <1>1, <2>2, <2>3, SMT DEF Phase
    <3>3. Phase \in Nat /\ GoesRound(queue, Phase) /\ queue \in Seq(Entry)
      BY <1>1, PhaseType DEF MInv, MouseTypes
    <3>4. GoesRound(SubSeq(queue, 1 + 1, Len(queue)),
                    (Phase + Count(queue, 1)) % 3)
      BY <2>1, <3>3, GoesRoundAfterRead
    <3> QED
      BY <2>2, <3>1, <3>2, <3>4
  <2>6. offset' \in 0 .. 2 /\ buffer' \in [0 .. 2 -> Int]
        /\ buffer'[0] \in Int
        /\ buffer'[0] = IF offset = 0 THEN value ELSE buffer[0]
    BY <2>2, <2>3
  <2>7. offset' = IF offset = 2 THEN 0 ELSE offset + 1
    <3>1. offset' = (offset + 1) % 3 /\ offset \in 0 .. 2
      BY <2>2, <2>3
    <3> QED
      BY <3>1, SMT
  <2>8. buttons' = IF offset = 2 THEN buffer'[0] ELSE buttons
    BY <2>2, <2>3, <2>7 DEF Buttons
  <2>9. MouseTypes'
    <3>1. queue' \in Seq(Entry)
      BY <1>1, <2>1, <2>2, AfterRead DEF MouseTypes
    <3> QED
      BY <1>1, <2>6, <2>8, <3>1 DEF MouseTypes
  <2>10. (pressed = {i \in 0 .. 2 : Bit(buttons, i) = 1})'
    <3>1. CASE offset' = 0
      <4>1. pressed' = {i \in 0 .. 2 : Bit(buffer'[0], i) = 1}
        BY <1>1, <2>2, <2>6, <3>1, ButtonsTold DEF MInv, MouseTypes
      <4>2. buttons' = buffer'[0]
        BY <2>3, <2>7, <2>8, <3>1
      <4> QED
        BY <4>1, <4>2 DEF Bit
    <3>2. CASE offset' # 0
      BY <2>2, <3>2 DEF MInv, Bit
    <3> QED
      BY <3>1, <3>2
  <2>11. FlagsKnown'
    <3> SUFFICES ASSUME whole
                 PROVE  /\ lost' = 0
                        /\ \A i \in FirstBytes(queue') :
                             (\A j \in FirstBytes(queue') : j <= i)
                               => queue'[i].value = held'
                        /\ FirstBytes(queue') = {} =>
                             IF offset' = 0 THEN buttons' = held'
                                            ELSE buffer'[0] = held'
      BY <1>1 DEF FlagsKnown
    <3>1. /\ lost = 0
          /\ \A i \in FirstBytes(queue) :
               (\A j \in FirstBytes(queue) : j <= i) => queue[i].value = held
          /\ FirstBytes(queue) = {} =>
               IF offset = 0 THEN buttons = held ELSE buffer[0] = held
      BY DEF MInv, FlagsKnown
    <3>2. \A i \in FirstBytes(queue') :
            (\A j \in FirstBytes(queue') : j <= i) => queue'[i].value = held
      BY <1>1, <2>1, <2>2, <3>1, LastFlagsAfterRead
    <3>3. part = offset
      BY <2>3, <2>4, <3>1, SMT DEF Phase
    <3>4. ASSUME FirstBytes(queue') = {}
          PROVE  IF offset' = 0 THEN buttons' = held ELSE buffer'[0] = held
      <4>1. CASE offset = 0
        <5>1. 1 \in FirstBytes(queue)
          BY <2>1, <3>3, <4>1 DEF FirstBytes, part
        <5>2. \A j \in FirstBytes(queue) : j <= 1
          <6> SUFFICES ASSUME NEW j \in FirstBytes(queue), ~(j <= 1)
                       PROVE  FALSE
            BY DEF FirstBytes
          <6>1. j \in 1 .. Len(queue)
            BY DEF FirstBytes
          <6>2. Len(queue') = Len(queue) - 1
            BY <1>1, <2>1, <2>2, AfterRead DEF MouseTypes
          <6>3. j - 1 \in 1 .. Len(queue') /\ 1 + (j - 1) = j
            BY <2>1, <6>1, <6>2
          <6> QED
            BY <1>1, <2>1, <2>2, <3>4, <6>3, FirstBytesAfterRead
        <5>3. value = held
          BY <3>1, <5>1, <5>2 DEF value
        <5> QED
          BY <2>6, <2>7, <4>1, <5>3
      <4>2. CASE offset # 0
        <5>1. 1 \notin FirstBytes(queue)
          BY <2>1, <3>3, <4>2 DEF FirstBytes, part
        <5>2. \A k \in 1 .. 1 : k \notin FirstBytes(queue)
          BY <5>1
        <5>3. FirstBytes(queue) = {}
          BY <1>1, <2>1, <2>2, <3>4, <5>2, FirstBytesAfterRead
        <5> QED
          BY <2>3, <2>6, <2>7, <2>8, <3>1, <4>2, <5>3
      <4> QED
        BY <4>1, <4>2
    <3> QED
      BY <1>1, <3>1, <3>2, <3>4
  <2>12. NoStuckByte'
    BY <1>1, <2>1, <2>2, ReadLatches
  <2> QED
    BY <2>5, <2>9, <2>10, <2>11, <2>12 DEF MInv
<1> QED
  BY <1>2, <1>3

-----------------------------------------------------------------------------
(* The invariant, and what follows from it.                                *)

(* Every step of the devices and of their handlers keeps it.               *)
LEMMA MouseNext == MInv /\ [Next]_vars => MInv'
<1> SUFFICES ASSUME MInv, [Next]_vars PROVE MInv'
  OBVIOUS
<1>1. CASE UNCHANGED vars
  BY <1>1 DEF vars, driver, controller, MInv, MouseTypes, Phase, FlagsKnown,
              Bit, NoStuckByte
<1>2. ASSUME NEW n \in 0 .. MaxBytes, KeyboardHandles(n)
      PROVE  MInv'
  <2>1. n \in Nat
    BY MouseAssumption
  <2> QED
    BY <1>2, <2>1, KeyboardHandlesKeeps
<1> QED
  BY <1>1, <1>2, ReportKeeps, KeyMovesKeeps, HandleInterruptKeeps DEF Next

(* MInv holds in every reachable state of Mouse.tla.                       *)
THEOREM MouseInvariant == Spec => []MInv
<1>1. Init => MInv
  BY MouseStarts
<1>2. MInv /\ [Next]_vars => MInv'
  BY MouseNext
<1> QED
  BY <1>1, <1>2, PTL DEF Spec

(* The driver is out of step with the mouse's packets by exactly the bytes *)
(* that the keyboard's handler took, and by a late acknowledgement.        *)
THEOREM MouseInStep == Spec => []InStep
<1>1. MInv => InStep
  <2> SUFFICES ASSUME MInv PROVE InStep
    OBVIOUS
  <2>1. MouseTypes /\ Phase \in 0 .. 2 /\ GoesRound(queue, Phase)
        /\ Len(queue) \in Nat /\ offset \in 0 .. 2 /\ lost \in 0 .. 2
    BY PhaseType DEF MInv, MouseTypes
  <2> DEFINE unread == OfMouse(Len(queue))
  <2>2. unread = MouseIn(queue, Len(queue)) /\ unread \subseteq Nat
    BY <2>1 DEF OfMouse, MouseIn
  <2>3. NextPart = Phase
    <3>1. CASE unread = {}
      <4>1. Count(queue, Len(queue)) = 0
        BY <2>2, <3>1, FS_EmptySet DEF Count
      <4>2. (Phase + 0) % 3 = 0
        BY <2>1, <4>1 DEF GoesRound
      <4>3. Phase = 0
        BY <2>1, <4>2, SMT
      <4> QED
        BY <3>1, <4>3 DEF NextPart
    <3>2. CASE unread # {}
      <4> DEFINE i == CHOOSE i \in unread : \A j \in unread : i <= j
      <4>1. i \in unread /\ \A j \in unread : i <= j
        <5> HIDE DEF unread
        <5> QED
          BY <2>2, <3>2, LeastNatural
      <4>2. NextPart = queue[i].part
        BY <3>2 DEF NextPart
      <4> HIDE DEF i
      <4>3. i \in 1 .. Len(queue) /\ queue[i].from = "mouse"
        BY <4>1 DEF OfMouse
      <4>4. MouseIn(queue, i - 1) = {}
        BY <2>1, <4>1, <4>3 DEF MouseIn, OfMouse
      <4>5. Count(queue, i - 1) = 0
        BY <4>4, FS_EmptySet DEF Count
      <4>6. queue[i].part = (Phase + 0) % 3
        BY <2>1, <4>3, <4>5 DEF GoesRound
      <4> QED
        BY <2>1, <4>2, <4>6, SMT
    <3> QED
      BY <3>1, <3>2
  <2> QED
    BY <2>1, <2>3, SMT DEF InStep, Phase
<1> QED
  BY <1>1, MouseInvariant, PTL

(* While no byte of the mouse was lost, the driver knows the buttons that  *)
(* are held whenever it has read all there is.                             *)
THEOREM MouseKnowsButtons == Spec => []KnowsButtons
<1>1. MInv => KnowsButtons
  <2> SUFFICES ASSUME MInv, whole, OfMouse(Len(queue)) = {}
               PROVE  /\ buttons = held
                      /\ pressed = {i \in 0 .. 2 : Bit(held, i) = 1}
    BY DEF KnowsButtons
  <2>1. FirstBytes(queue) = {}
    BY DEF OfMouse, FirstBytes
  <2>2. Count(queue, Len(queue)) = 0
    <3>1. MouseIn(queue, Len(queue)) = {}
      BY DEF OfMouse, MouseIn
    <3> QED
      BY <3>1, FS_EmptySet DEF Count
  <2>3. Phase \in 0 .. 2 /\ (Phase + 0) % 3 = 0
    BY <2>2, PhaseType DEF MInv, GoesRound
  <2>4. Phase = 0
    BY <2>3, SMT
  <2>5. lost = 0 /\ offset \in 0 .. 2
    BY DEF MInv, FlagsKnown, MouseTypes
  <2>6. offset = 0
    BY <2>4, <2>5, SMT DEF Phase
  <2>7. buttons = held
    BY <2>1, <2>6 DEF MInv, FlagsKnown
  <2> QED
    BY <2>7 DEF MInv
<1> QED
  BY <1>1, MouseInvariant, PTL

(* No byte of either device stays in the output register for want of an    *)
(* interrupt.                                                              *)
THEOREM MouseNoStuckByte == Spec => []NoStuckByte
<1>1. MInv => NoStuckByte
  BY DEF MInv
<1> QED
  BY <1>1, MouseInvariant, PTL

(* What the driver makes of any bytes is a run of the pointer of           *)
(* Pointer.tla: even out of step it stays on the page.                     *)
THEOREM MouseMovesPointer == Spec => PointerSpec /\ []PointerOnPage
<1>1. Init => PointerInit
  BY DEF Init
<1>2. MInv /\ [Next]_vars => [PointerNext]_pointerVars
  <2> SUFFICES ASSUME MInv, [Next]_vars PROVE [PointerNext]_pointerVars
    OBVIOUS
  <2>1. CASE HandleInterrupt
    <3>1. CASE UNCHANGED pointerVars
      BY <3>1
    <3>2. CASE ~UNCHANGED pointerVars
      <4>1. OnMouseMove(Int8(buffer'[1]), Int8(buffer'[2]))
        BY <2>1, <3>2 DEF HandleInterrupt, Packet
      <4>2. MouseTypes'
        BY <2>1, HandleInterruptKeeps DEF MInv
      <4>3. buffer'[1] \in Int /\ buffer'[2] \in Int
        BY <4>2 DEF MouseTypes
      <4>4. Int8(buffer'[1]) \in Offsets /\ Int8(buffer'[2]) \in Offsets
        BY <4>3, Int8Type
      <4> QED
        BY <4>1, <4>4 DEF PointerNext, Moves
    <3> QED
      BY <3>1, <3>2
  <2>2. CASE ~HandleInterrupt
    BY <2>2 DEF Next, Report, KeyMoves, KeyboardHandles, vars
  <2> QED
    BY <2>1, <2>2
<1>3. Spec => PointerSpec
  BY <1>1, <1>2, MouseInvariant, PTL DEF Spec, PointerSpec
<1> QED
  BY <1>3, PointerStaysOnPage, PTL

=============================================================================
