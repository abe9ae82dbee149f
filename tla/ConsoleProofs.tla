---------------------------- MODULE ConsoleProofs ----------------------------
(***************************************************************************)
(* Theorems about Console.tla, for every size of the page and every        *)
(* message: that x and y stay in bounds wherever handlers print in the     *)
(* middle of a message, and that the console is the terminal of            *)
(* Terminal.tla where they do not.                                         *)
(***************************************************************************)
EXTENDS Console, SequenceTheorems, TLAPS

BackspacePlaces ==
  {"backspace", "backspace 0", "backspace x", "backspace x-1", "blank",
   "blank x", "blank cell"}

-----------------------------------------------------------------------------
(* Arithmetic of bytes and cells.                                          *)

(* The constants are positive; row and column numbers fit in a byte.       *)
LEMMA Sizes ==
  /\ Rows \in Nat /\ Cols \in Nat /\ Byte \in Nat
  /\ Rows > 0 /\ Cols > 0 /\ Rows + 2 < Byte /\ Cols + 2 < Byte
BY ConsoleAssumption, SMT

(* What fits in a byte is stored as it is.                                 *)
LEMMA FitsByte ==
  ASSUME NEW v \in Nat, v < Byte
  PROVE  v % Byte = v
BY Sizes, SMT

(* Quotient and remainder of a cell are its row and its column.            *)
LEMMA RowAndColumn ==
  ASSUME NEW r \in Nat, NEW c \in 0 .. (Cols - 1)
  PROVE  (r * Cols + c) \div Cols = r /\ (r * Cols + c) % Cols = c
BY Sizes, SMT

(* A cell has its row and its column.                                      *)
LEMMA CellOf ==
  ASSUME NEW p \in Nat
  PROVE  /\ p \div Cols \in Nat /\ p % Cols \in 0 .. (Cols - 1)
         /\ p = (p \div Cols) * Cols + (p % Cols)
BY Sizes, SMT

(* A cell is on the page exactly if its row is.                            *)
LEMMA RowOnPage ==
  ASSUME NEW r \in Nat, NEW c \in 0 .. (Cols - 1)
  PROVE  r * Cols + c \in Page <=> r < Rows
<1>1. r * Cols \in Nat /\ Rows * Cols \in Nat BY Sizes, SMT
<1>2. CASE r < Rows
  <2>1. PICK e \in Nat : Rows = r + 1 + e
    <3>1. Rows - r - 1 \in Nat /\ Rows = r + 1 + (Rows - r - 1)
      BY <1>2, Sizes, SMT
    <3> QED BY <3>1
  <2>2. Rows * Cols = r * Cols + Cols + e * Cols /\ e * Cols \in Nat
    BY <2>1, Sizes, SMT
  <2> QED BY <1>1, <1>2, <2>2, Sizes, SMT DEF Page
<1>3. CASE ~(r < Rows)
  <2>1. PICK e \in Nat : r = Rows + e
    <3>1. r - Rows \in Nat /\ r = Rows + (r - Rows)
      BY <1>3, Sizes, SMT
    <3> QED BY <3>1
  <2>2. r * Cols = Rows * Cols + e * Cols /\ e * Cols \in Nat
    BY <2>1, Sizes, SMT
  <2> QED BY <1>1, <1>3, <2>2, Sizes, SMT DEF Page
<1> QED BY <1>2, <1>3

(* The page is a part of the memory.                                       *)
LEMMA PageInMemory == Page \subseteq Memory
<1>1. Rows * Cols \in Nat /\ (Rows + 1) * Cols = Rows * Cols + Cols
  BY Sizes, SMT
<1> QED BY <1>1, Sizes DEF Page, Memory

-----------------------------------------------------------------------------
(* With handlers that print in the middle of a message.  What main may     *)
(* rely on is what every handler leaves true: it never makes x or y        *)
(* larger than the page allows.                                            *)

(* Where x may have passed the last column, and y the last row.            *)
PastColumns == {"check x", "wrap", "wrap y", "wrap x", "wipe rows", "wipe row",
                "wipe cols", "row done", "row next", "home"}
PastRows == {"newline x", "check x", "wrap x", "check y", "wipe", "wipe rows",
             "home", "home y"}

(* Where a row, or a column, has been loaded.                              *)
LoadedRow == {"newline y", "wrap y", "char x", "wipe cell x", "row next"}
LoadedColumn == {"advance x", "col next"}

(* Where no character of the message is being printed.                     *)
BetweenChars == {"idle", "next", "argument y", "argument x", "select low",
                 "low", "select high", "high"}

(* A character of the kernel's messages.                                   *)
MessageChars == (Chars \cup {Newline}) \ {Backspace}

BoundsAt(place, column, row, value, cell, text) ==
  /\ place \notin BackspacePlaces
  /\ column \in 0 .. Cols /\ row \in 0 .. Rows
  /\ place \notin PastColumns => column < Cols
  /\ place \notin PastRows => row < Rows
  /\ place = "check x" => column < Cols \/ row < Rows
  /\ place \in LoadedRow => value \in 0 .. (Rows - 1)
  /\ place \in LoadedColumn => value \in 0 .. (Cols - 1)
  /\ place \in Storing => cell \in Page
  /\ text \in Seq(MessageChars)
  /\ place \notin BetweenChars => text # <<>>

Bounds == BoundsAt(pc, x, y, loaded, address, rest)

(* What the loads and stores store is no larger than a byte.               *)
LEMMA Successors ==
  /\ 0 % Byte = 0
  /\ \A v \in 0 .. (Rows - 1) : (v + 1) % Byte = v + 1
  /\ \A v \in 0 .. (Cols - 1) : (v + 1) % Byte = v + 1
<1>1. 0 \in Nat /\ 0 < Byte BY Sizes
<1>2. ASSUME NEW v \in 0 .. (Rows - 1) PROVE v + 1 \in Nat /\ v + 1 < Byte
  BY Sizes
<1>3. ASSUME NEW v \in 0 .. (Cols - 1) PROVE v + 1 \in Nat /\ v + 1 < Byte
  BY Sizes
<1> QED BY <1>1, <1>2, <1>3, FitsByte

(* The cell of a row that was loaded and of a column is on the page.       *)
LEMMA LoadedCell ==
  ASSUME NEW v \in 0 .. (Rows - 1), NEW c \in 0 .. Cols, c < Cols
  PROVE  v * Cols + c \in Page
<1>1. v \in Nat /\ v < Rows /\ c \in 0 .. (Cols - 1) BY Sizes
<1> QED BY <1>1, RowOnPage

(* The steps of main: each leaves bounds that the place it goes to needs.  *)

(* A newline.                                                              *)
LEMMA NewlineBounds == ASSUME Bounds, NewlineCase PROVE Bounds'
<1> USE Sizes, Successors, LoadedCell
        DEF BoundsAt, BackspacePlaces, PastColumns, PastRows, LoadedRow,
            LoadedColumn, BetweenChars, Storing
<1>1. BoundsAt("newline", x, y, loaded, address, rest)
        => BoundsAt("newline y", x, y, y, address, rest)
  OBVIOUS
<1>2. BoundsAt("newline y", x, y, loaded, address, rest)
        => BoundsAt("newline x", x, (loaded + 1) % Byte, loaded, address, rest)
  OBVIOUS
<1>3. BoundsAt("newline x", x, y, loaded, address, rest)
        => BoundsAt("check x", 0 % Byte, y, loaded, address, rest)
  OBVIOUS
<1> HIDE Sizes, Successors, LoadedCell
         DEF BoundsAt, BackspacePlaces, PastColumns, PastRows, LoadedRow,
             LoadedColumn, BetweenChars, Storing
<1> QED
  BY <1>1, <1>2, <1>3
  DEF NewlineCase, Bounds, Load, StoreX, StoreY, Goto, shared, local

(* A character that is shown.                                              *)
LEMMA DefaultBounds == ASSUME Bounds, DefaultCase PROVE Bounds'
<1> USE Sizes, Successors, LoadedCell
        DEF BoundsAt, BackspacePlaces, PastColumns, PastRows, LoadedRow,
            LoadedColumn, BetweenChars, Storing
<1>1. BoundsAt("char", x, y, loaded, address, rest)
        => BoundsAt("char x", x, y, y, address, rest)
  OBVIOUS
<1>2. BoundsAt("char x", x, y, loaded, address, rest)
        => BoundsAt("char cell", x, y, loaded, loaded * Cols + x, rest)
  OBVIOUS
<1>3. BoundsAt("char cell", x, y, loaded, address, rest)
        => BoundsAt("advance", x, y, loaded, address, rest)
  OBVIOUS
<1>4. BoundsAt("advance", x, y, loaded, address, rest)
        => BoundsAt("advance x", x, y, x, address, rest)
  OBVIOUS
<1>5. BoundsAt("advance x", x, y, loaded, address, rest)
        => BoundsAt("check x", (loaded + 1) % Byte, y, loaded, address, rest)
  OBVIOUS
<1> HIDE Sizes, Successors, LoadedCell
         DEF BoundsAt, BackspacePlaces, PastColumns, PastRows, LoadedRow,
             LoadedColumn, BetweenChars, Storing
<1> QED
  BY <1>1, <1>2, <1>3, <1>4, <1>5
  DEF DefaultCase, Bounds, Load, AddX, StoreCell, StoreX, Goto, shared, local

(* The end of a row.                                                       *)
LEMMA CheckXBounds == ASSUME Bounds, CheckX PROVE Bounds'
<1> USE Sizes, Successors, LoadedCell
        DEF BoundsAt, BackspacePlaces, PastColumns, PastRows, LoadedRow,
            LoadedColumn, BetweenChars, Storing
<1>1. BoundsAt("check x", x, y, loaded, address, rest) /\ x >= Cols
        => BoundsAt("wrap", x, y, loaded, address, rest)
  OBVIOUS
<1>2. BoundsAt("check x", x, y, loaded, address, rest) /\ ~(x >= Cols)
        => BoundsAt("check y", x, y, loaded, address, rest)
  OBVIOUS
<1>3. BoundsAt("wrap", x, y, loaded, address, rest)
        => BoundsAt("wrap y", x, y, y, address, rest)
  OBVIOUS
<1>4. BoundsAt("wrap y", x, y, loaded, address, rest)
        => BoundsAt("wrap x", x, (loaded + 1) % Byte, loaded, address, rest)
  OBVIOUS
<1>5. BoundsAt("wrap x", x, y, loaded, address, rest)
        => BoundsAt("check y", 0 % Byte, y, loaded, address, rest)
  OBVIOUS
<1> HIDE Sizes, Successors, LoadedCell
         DEF BoundsAt, BackspacePlaces, PastColumns, PastRows, LoadedRow,
             LoadedColumn, BetweenChars, Storing
<1> QED
  BY <1>1, <1>2, <1>3, <1>4, <1>5
  DEF CheckX, Bounds, Branch, Load, StoreX, StoreY, Goto, shared, local

(* The end of the page: x and y are the variables of the loops that wipe it.*)
LEMMA CheckYBounds == ASSUME Bounds, CheckY PROVE Bounds'
<1> USE Sizes, Successors, LoadedCell
        DEF BoundsAt, BackspacePlaces, PastColumns, PastRows, LoadedRow,
            LoadedColumn, BetweenChars, Storing
<1>1. BoundsAt("check y", x, y, loaded, address, rest) /\ y >= Rows
        => BoundsAt("wipe", x, y, loaded, address, rest)
  OBVIOUS
<1>2. BoundsAt("check y", x, y, loaded, address, rest) /\ ~(y >= Rows)
        => BoundsAt("next", x, y, loaded, address, Tail(rest))
  OBVIOUS
<1>3. BoundsAt("wipe", x, y, loaded, address, rest)
        => BoundsAt("wipe rows", x, 0 % Byte, loaded, address, rest)
  OBVIOUS
<1>4. BoundsAt("wipe rows", x, y, loaded, address, rest) /\ y < Rows
        => BoundsAt("wipe row", x, y, loaded, address, rest)
  OBVIOUS
<1>5. BoundsAt("wipe rows", x, y, loaded, address, rest) /\ ~(y < Rows)
        => BoundsAt("home", x, y, loaded, address, rest)
  OBVIOUS
<1>6. BoundsAt("wipe row", x, y, loaded, address, rest)
        => BoundsAt("wipe cols", 0 % Byte, y, loaded, address, rest)
  OBVIOUS
<1>7. BoundsAt("wipe cols", x, y, loaded, address, rest) /\ x < Cols
        => BoundsAt("wipe cell", x, y, loaded, address, rest)
  OBVIOUS
<1>8. BoundsAt("wipe cols", x, y, loaded, address, rest) /\ ~(x < Cols)
        => BoundsAt("row done", x, y, loaded, address, rest)
  OBVIOUS
<1>9. BoundsAt("wipe cell", x, y, loaded, address, rest)
        => BoundsAt("wipe cell x", x, y, y, address, rest)
  OBVIOUS
<1>10. BoundsAt("wipe cell x", x, y, loaded, address, rest)
        => BoundsAt("wipe store", x, y, loaded, loaded * Cols + x, rest)
  OBVIOUS
<1>11. BoundsAt("wipe store", x, y, loaded, address, rest)
        => BoundsAt("col done", x, y, loaded, address, rest)
  OBVIOUS
<1>12. BoundsAt("col done", x, y, loaded, address, rest)
        => BoundsAt("col next", x, y, x, address, rest)
  OBVIOUS
<1>13. BoundsAt("col next", x, y, loaded, address, rest)
        => BoundsAt("wipe cols", (loaded + 1) % Byte, y, loaded, address, rest)
  OBVIOUS
<1>14. BoundsAt("row done", x, y, loaded, address, rest)
        => BoundsAt("row next", x, y, y, address, rest)
  OBVIOUS
<1>15. BoundsAt("row next", x, y, loaded, address, rest)
        => BoundsAt("wipe rows", x, (loaded + 1) % Byte, loaded, address, rest)
  OBVIOUS
<1>16. BoundsAt("home", x, y, loaded, address, rest)
        => BoundsAt("home y", 0 % Byte, y, loaded, address, rest)
  OBVIOUS
<1>17. BoundsAt("home y", x, y, loaded, address, rest)
        => BoundsAt("next", x, 0, loaded, address, Tail(rest))
  OBVIOUS
<1> HIDE Sizes, Successors, LoadedCell
         DEF BoundsAt, BackspacePlaces, PastColumns, PastRows, LoadedRow,
             LoadedColumn, BetweenChars, Storing
<1> QED
  BY <1>1, <1>2, <1>3, <1>4, <1>5, <1>6, <1>7, <1>8, <1>9, <1>10, <1>11,
      <1>12, <1>13, <1>14, <1>15, <1>16, <1>17
  DEF CheckY, Bounds, Branch, CharDone, Load, AddX, StoreCell, StoreX,
       StoreY, Goto, shared, local

(* The cursor.                                                             *)
LEMMA CursorUpdateBounds == ASSUME Bounds, CursorUpdate PROVE Bounds'
<1> USE Sizes, Successors, LoadedCell
        DEF BoundsAt, BackspacePlaces, PastColumns, PastRows, LoadedRow,
            LoadedColumn, BetweenChars, Storing
<1>1. BoundsAt("argument y", x, y, loaded, address, rest)
        => BoundsAt("argument x", x, y, y, address, rest)
  OBVIOUS
<1>2. BoundsAt("argument x", x, y, loaded, address, rest)
        => BoundsAt("select low", x, y, loaded, loaded * Cols + x, rest)
  OBVIOUS
<1>3. BoundsAt("select low", x, y, loaded, address, rest)
        => BoundsAt("low", x, y, loaded, address, rest)
  OBVIOUS
<1>4. BoundsAt("low", x, y, loaded, address, rest)
        => BoundsAt("select high", x, y, loaded, address, rest)
  OBVIOUS
<1>5. BoundsAt("select high", x, y, loaded, address, rest)
        => BoundsAt("high", x, y, loaded, address, rest)
  OBVIOUS
<1>6. BoundsAt("high", x, y, loaded, address, rest)
        => BoundsAt("idle", x, y, loaded, address, rest)
  OBVIOUS
<1> HIDE Sizes, Successors, LoadedCell
         DEF BoundsAt, BackspacePlaces, PastColumns, PastRows, LoadedRow,
             LoadedColumn, BetweenChars, Storing
<1> QED
  BY <1>1, <1>2, <1>3, <1>4, <1>5, <1>6
  DEF CursorUpdate, Bounds, Load, AddX, Select, WriteRegister, Goto, shared,
       local

(* The message has no backspace.                                           *)
LEMMA NextCharBounds == ASSUME Bounds, NextChar PROVE Bounds'
<1> USE DEF BoundsAt, BackspacePlaces, PastColumns, PastRows, LoadedRow,
            LoadedColumn, BetweenChars, Storing
<1>1. BoundsAt("next", x, y, loaded, address, rest) /\ rest = <<>>
        => BoundsAt("argument y", x, y, loaded, address, rest)
  OBVIOUS
<1>2. BoundsAt("next", x, y, loaded, address, rest) /\ rest # <<>>
        => /\ BoundsAt("newline", x, y, loaded, address, rest)
           /\ BoundsAt("char", x, y, loaded, address, rest)
  OBVIOUS
<1>3. BoundsAt("next", x, y, loaded, address, rest) /\ rest # <<>>
        => Head(rest) # Backspace
  BY DEF MessageChars
<1> HIDE DEF BoundsAt, BackspacePlaces, PastColumns, PastRows, LoadedRow,
             LoadedColumn, BetweenChars, Storing
<1> QED BY <1>1, <1>2, <1>3 DEF NextChar, Bounds, shared, local

(* A case that is never entered.                                           *)
LEMMA BackspaceBounds == ASSUME Bounds, BackspaceCase PROVE Bounds'
<1>1. pc \notin BackspacePlaces BY DEF Bounds, BoundsAt
<1> QED
  BY <1>1 DEF BackspaceCase, BackspacePlaces, Branch, StoreX, Load, AddX,
              StoreCell, Goto

(* Wherever a handler finds x and y, it leaves them on the page.           *)
LEMMA PrintedOnPage ==
  ASSUME x \in 0 .. Cols, y \in 0 .. Rows, NEW c
  PROVE  Printed(c).x \in 0 .. (Cols - 1) /\ Printed(c).y \in 0 .. (Rows - 1)
<1>1. Put(c).x \in 0 .. (Cols + 1) /\ Put(c).y \in 0 .. (Rows + 1)
      /\ (Put(c).x > Cols - 1 => Put(c).y \in 0 .. Rows)
  BY Sizes DEF Put, At
<1>2. /\ Wrapped(Put(c)).x \in 0 .. (Cols - 1)
      /\ Wrapped(Put(c)).y \in 0 .. (Rows + 1)
  BY <1>1, Sizes DEF Wrapped, At
<1> QED BY <1>2, Sizes DEF Printed, Wiped, At

(* So a handler's print keeps the bounds, wherever main is.                *)
LEMMA InterruptBounds == ASSUME Bounds, NEW c, Interrupt(c) PROVE Bounds'
<1>1. x' = Printed(c).x /\ y' = Printed(c).y
      /\ UNCHANGED <<pc, loaded, address, rest>>
  BY DEF Interrupt, local
<1>2. x' \in 0 .. (Cols - 1) /\ y' \in 0 .. (Rows - 1)
  BY <1>1, PrintedOnPage DEF Bounds, BoundsAt
<1>3. ASSUME NEW i \in 0 .. (Cols - 1), NEW j \in 0 .. (Rows - 1)
      PROVE  BoundsAt(pc, i, j, loaded, address, rest)
  <2>1. i \in 0 .. Cols /\ j \in 0 .. Rows /\ i < Cols /\ j < Rows BY Sizes
  <2> QED BY <2>1 DEF Bounds, BoundsAt
<1>4. BoundsAt(pc, x', y', loaded, address, rest) BY <1>2, <1>3
<1> QED BY <1>1, <1>4 DEF Bounds

(* What kernelMain prints.                                                 *)
NoBackspaces == Texts \subseteq Seq(MessageChars)

(* A message begins where the last one has ended.                          *)
LEMMA CallBounds ==
  ASSUME NoBackspaces, Bounds, NEW text \in Texts, Call(text)
  PROVE  Bounds'
<1>1. BoundsAt("idle", x, y, loaded, address, rest)
        => BoundsAt("next", x, y, loaded, address, text)
  BY DEF BoundsAt, BackspacePlaces, PastColumns, PastRows, LoadedRow,
         LoadedColumn, BetweenChars, Storing, NoBackspaces
<1> QED BY <1>1 DEF Call, Bounds, Goto, shared

(* Every step of main and every print of a handler keep the bounds.        *)
LEMMA BoundsKept == NoBackspaces /\ Bounds /\ [Next]_vars => Bounds'
<1> SUFFICES ASSUME NoBackspaces, Bounds, [Next]_vars PROVE Bounds'
  OBVIOUS
<1>1. CASE UNCHANGED vars
  BY <1>1 DEF vars, shared, local, Bounds
<1>2. CASE Main
  BY <1>2, NextCharBounds, NewlineBounds, BackspaceBounds, DefaultBounds,
     CheckXBounds, CheckYBounds, CursorUpdateBounds DEF Main
<1> QED BY <1>1, <1>2, CallBounds, InterruptBounds DEF Next

(* Wherever interrupts are enabled and however often handlers print, on a  *)
(* page of any size: x and y, which main and handlers share without a      *)
(* lock, stay in bounds, and main, whose messages contain no backspace,    *)
(* stores to no cell outside the page.                                     *)
THEOREM ConsoleStaysOnPage == ASSUME NoBackspaces PROVE Spec => []StaysOnPage
<1>1. Init => Bounds
  BY Sizes DEF Init, Bounds, BoundsAt, BackspacePlaces, PastColumns, PastRows,
               LoadedRow, LoadedColumn, BetweenChars, Storing
<1>2. Bounds /\ [Next]_vars => Bounds' BY BoundsKept
<1>3. Bounds => StaysOnPage
  BY Sizes DEF Bounds, BoundsAt, StaysOnPage, PastColumns, PastRows
<1> QED BY <1>1, <1>2, <1>3, PTL DEF Spec

-----------------------------------------------------------------------------
(* Without handlers in the middle of a message, the console is a terminal. *)
(* shown is the page and the position before the character that is being   *)
(* printed, and what follows says what main has made of them so far.       *)

Contents == Chars \cup {Blank}

Row(s) == s.pos \div Cols
Column(s) == s.pos % Cols

(* Where character c leads, and what is on the page then,                  *)
PutColumn(s, c) ==
  IF c = Newline THEN 0
  ELSE IF c = Backspace THEN IF Column(s) = 0 THEN 0 ELSE Column(s) - 1
  ELSE Column(s) + 1

PutRow(s, c) == IF c = Newline THEN Row(s) + 1 ELSE Row(s)

PutCells(s, c) ==
  IF c = Newline THEN s.cells
  ELSE IF c = Backspace
  THEN [s.cells EXCEPT ![Row(s) * Cols + PutColumn(s, c)] = Blank]
  ELSE [s.cells EXCEPT ![s.pos] = c]

(* once the end of the row has been seen to.                               *)
WrapColumn(s, c) == IF PutColumn(s, c) >= Cols THEN 0 ELSE PutColumn(s, c)
WrapRow(s, c) == IF PutColumn(s, c) >= Cols THEN PutRow(s,
                                                        c) + 1 ELSE PutRow(s,
                                                                           c)

(* The places where cursor_update is given the position.                   *)
CursorPlaces == {"select low", "low", "select high", "high"}

(* The places before x and y change.                                       *)
Unmoved ==
  {"newline", "newline y", "backspace", "backspace 0", "backspace x",
   "backspace x-1", "char", "char x", "char cell", "advance", "advance x"}

Position(s, place, column, row, c) ==
  /\ place \in BetweenChars \cup Unmoved => column = Column(s) /\ row = Row(s)
  /\ place = "newline x" => column = Column(s) /\ row = PutRow(s, c)
  /\ place \in {"blank", "blank x", "blank cell"} =>
       column = PutColumn(s, c) /\ row = Row(s)
  /\ place \in {"check x", "wrap", "wrap y"} =>
       column = PutColumn(s, c) /\ row = PutRow(s, c)
  /\ place \in {"wrap", "wrap y", "wrap x"} => PutColumn(s, c) >= Cols
  /\ place = "wrap x" => row = WrapRow(s, c)
  /\ place = "check y" => column = WrapColumn(s, c) /\ row = WrapRow(s, c)
  /\ place = "backspace 0" => Column(s) = 0
  /\ place \in {"backspace x", "backspace x-1"} => Column(s) > 0

Values(s, place, column, row, value, cell, c) ==
  /\ place \in {"newline y", "wrap y", "char x", "blank x", "argument x"} =>
       value = row
  /\ place \in {"advance x", "backspace x-1"} => value = column
  /\ place \in {"char cell"} \cup CursorPlaces => cell = s.pos
  /\ place = "blank cell" => cell = Row(s) * Cols + PutColumn(s, c)

(* What is printed where.                                                  *)
Printing(place, text) ==
  /\ text \in Seq(Chars \cup {Newline, Backspace})
  /\ place \notin BetweenChars => text # <<>>
  /\ place \in {"newline", "newline y", "newline x"} => Head(text) = Newline
  /\ place \in BackspacePlaces =>
       Head(text) = Backspace /\ Head(text) # Newline
  /\ place \in {"char", "char x", "char cell", "advance", "advance x"} =>
       Head(text) \notin {Newline, Backspace}

(* The page.                                                               *)
Same(contents, cells) == \A a \in Page : contents[a] = cells[a]

PageAt(s, place, contents, c) ==
  /\ contents \in [Memory -> Contents]
  /\ place \in BetweenChars \cup (Unmoved \ {"advance", "advance x"})
                 \cup {"newline x", "blank", "blank x", "blank cell"} =>
       Same(contents, s.cells)
  /\ place \in {"advance", "advance x", "check x", "wrap", "wrap y", "wrap x",
                "check y"} => Same(contents, PutCells(s, c))

(* The cursor's registers.                                                 *)
CursorAt(place, cell, register, registers) ==
  /\ registers \in [low : Nat, high : Nat]
  /\ place = "low" => register = "low"
  /\ place = "high" => register = "high"
  /\ place \in {"select high", "high"} => registers.low = cell % Byte

TerminalPlaces ==
  BetweenChars \cup Unmoved
    \cup {"newline x", "blank", "blank x", "blank cell", "check x", "wrap",
          "wrap y", "wrap x", "check y"}

(* Main at a place, with these values, printing the head of text.          *)
Doing(s, place, column, row, value, cell, contents, text) ==
  /\ place \in TerminalPlaces
  /\ Printing(place, text)
  /\ Position(s, place, column, row, Head(text))
  /\ Values(s, place, column, row, value, cell, Head(text))
  /\ PageAt(s, place, contents, Head(text))

(* The loops that wipe the page have wiped the cells below that of row and *)
(* column, which are their variables.                                      *)
InCell == {"wipe cell", "wipe cell x", "wipe store", "col done", "col next"}
InRow == InCell \cup {"wipe row", "wipe cols", "row done", "row next"}
InPage == InRow \cup {"wipe", "wipe rows", "home", "home y"}

BlankBelow(contents, cell) ==
  \A a \in Page : a < cell => contents[a] = Blank

(* The first cell of a row.                                                *)
First(row) == row * Cols

WipedSoFar(place, column, row, contents) ==
  /\ place \in {"wipe rows", "wipe row"} => BlankBelow(contents, First(row))
  /\ place \in {"wipe cols", "wipe cell", "wipe cell x", "wipe store"} =>
       BlankBelow(contents, First(row) + column)
  /\ place \in {"col done", "col next"} =>
       BlankBelow(contents, First(row) + column + 1)
  /\ place \in {"row done", "row next"} =>
       BlankBelow(contents, First(row + 1))
  /\ place \in {"home", "home y"} => BlankBelow(contents, First(Rows))

Wiping(s, place, column, row, value, cell, contents, text) ==
  /\ place \in InPage
  /\ text \in Seq(Chars \cup {Newline, Backspace}) /\ text # <<>>
  /\ WrapRow(s, Head(text)) >= Rows
  /\ contents \in [Memory -> Contents]
  /\ place = "wipe rows" => row \in 0 .. Rows
  /\ place \in InRow => row \in 0 .. (Rows - 1)
  /\ place = "wipe cols" => column \in 0 .. Cols
  /\ place \in InCell => column \in 0 .. (Cols - 1)
  /\ place = "home y" => column = 0
  /\ place \in {"wipe cell x", "row next"} => value = row
  /\ place = "col next" => value = column
  /\ place = "wipe store" => cell = First(row) + column
  /\ WipedSoFar(place, column, row, contents)

ShownType == shown \in [cells : [Page -> Contents], pos : Page, cursor : Nat]

(* Main where it is, with what x, y and the others are.                    *)
DoingAt(place) == Doing(shown, place, x, y, loaded, address, memory, rest)
WipingAt(place) == Wiping(shown, place, x, y, loaded, address, memory, rest)

USE DEF DoingAt, WipingAt

TInv ==
  /\ ShownType
  /\ \/ DoingAt(pc)
     \/ WipingAt(pc)
  /\ CursorAt(pc, address, index, crtc)

-----------------------------------------------------------------------------
(* Rows and columns of characters.                                         *)

(* The position that is shown has its row and its column.                  *)
LEMMA ShownPlace ==
  ASSUME ShownType
  PROVE  /\ Row(shown) \in 0 .. (Rows - 1) /\ Column(shown) \in 0 .. (Cols - 1)
         /\ shown.pos \in Page /\ shown.pos = Row(shown) * Cols + Column(shown)
         /\ shown.cells \in [Page -> Contents]
<1>1. shown.pos \in Page /\ shown.cells \in [Page -> Contents] BY DEF ShownType
<1>2. shown.pos \in Nat BY <1>1 DEF Page
<1>3. /\ Row(shown) \in Nat /\ Column(shown) \in 0 .. (Cols - 1)
      /\ shown.pos = Row(shown) * Cols + Column(shown)
  BY <1>2, CellOf DEF Row, Column
<1>4. Row(shown) < Rows BY <1>1, <1>3, RowOnPage
<1> QED BY <1>1, <1>3, <1>4, Sizes

(* Where a character leads, at most one row behind the page.               *)
LEMMA PutPlace ==
  ASSUME ShownType, NEW c
  PROVE  /\ PutColumn(shown, c) \in 0 .. Cols
         /\ PutRow(shown, c) \in 0 .. Rows
         /\ PutRow(shown, c) = Rows => PutColumn(shown, c) = 0
         /\ WrapColumn(shown, c) \in 0 .. (Cols - 1)
         /\ WrapRow(shown, c) \in 0 .. Rows
         /\ WrapRow(shown, c) >= Rows =>
              WrapRow(shown, c) = Rows /\ WrapColumn(shown, c) = 0
BY ShownPlace, Sizes DEF PutColumn, PutRow, WrapColumn, WrapRow

-----------------------------------------------------------------------------
(* The loops that wipe the page: what one step of main makes of what is    *)
(* wiped, from the place it is at to the place it goes to.                 *)

(* Where rows begin.                                                       *)
LEMMA FirstCells ==
  /\ First(0) = 0
  /\ \A r \in 0 .. Rows : First(r) \in Nat /\ First(r) + Cols = First(r + 1)
BY Sizes, SMT DEF First

(* y counts the rows.                                                      *)
LEMMA WipeRowSteps ==
  /\ WipingAt("wipe")
       => Wiping(shown, "wipe rows", x, 0 % Byte, loaded, address, memory,
                 rest)
  /\ WipingAt("wipe rows") /\ y < Rows
       => WipingAt("wipe row")
  /\ WipingAt("wipe rows") /\ ~(y < Rows)
       => WipingAt("home")
  /\ WipingAt("row done")
       => Wiping(shown, "row next", x, y, y, address, memory, rest)
  /\ WipingAt("row next")
       => Wiping(shown, "wipe rows", x, (loaded + 1) % Byte, loaded, address,
                 memory, rest)
  /\ WipingAt("home")
       => Wiping(shown, "home y", 0 % Byte, y, loaded, address, memory, rest)
<1> USE DEF Wiping, WipedSoFar, InPage, InRow, InCell
<1>1. ASSUME WipingAt("wipe")
      PROVE  Wiping(shown, "wipe rows", x, 0 % Byte, loaded, address, memory,
                    rest)
  <2>1. 0 % Byte = 0 /\ 0 \in 0 .. Rows BY Sizes, Successors
  <2>2. BlankBelow(memory, First(0)) BY FirstCells DEF BlankBelow, Page
  <2> QED BY <1>1, <2>1, <2>2
<1>2. ASSUME WipingAt("wipe rows"), y < Rows
      PROVE  WipingAt("wipe row")
  <2>1. y \in 0 .. (Rows - 1) BY <1>2, Sizes
  <2> QED BY <1>2, <2>1
<1>3. ASSUME WipingAt("wipe rows"),
             ~(y < Rows)
      PROVE  WipingAt("home")
  <2>1. y = Rows BY <1>3, Sizes
  <2> QED BY <1>3, <2>1
<1>4. ASSUME WipingAt("row done")
      PROVE  Wiping(shown, "row next", x, y, y, address, memory, rest)
  BY <1>4
<1>5. ASSUME WipingAt("row next")
      PROVE  Wiping(shown, "wipe rows", x, (loaded + 1) % Byte, loaded,
                    address, memory, rest)
  <2>1. loaded = y /\ y \in 0 .. (Rows - 1) BY <1>5
  <2>2. (loaded + 1) % Byte = y + 1 /\ y + 1 \in 0 .. Rows
    BY <2>1, Successors, Sizes
  <2>3. BlankBelow(memory, First((loaded + 1) % Byte)) BY <1>5, <2>2
  <2> QED BY <1>5, <2>2, <2>3
<1>6. ASSUME WipingAt("home")
      PROVE  Wiping(shown, "home y", 0 % Byte, y, loaded, address, memory,
                    rest)
  <2>1. 0 % Byte = 0 BY Successors
  <2> QED BY <1>6, <2>1
<1> QED BY <1>1, <1>2, <1>3, <1>4, <1>5, <1>6

(* x counts the cells of a row.                                            *)
LEMMA WipeCellSteps ==
  /\ WipingAt("wipe row")
       => Wiping(shown, "wipe cols", 0 % Byte, y, loaded, address, memory,
                 rest)
  /\ WipingAt("wipe cols") /\ x < Cols
       => WipingAt("wipe cell")
  /\ WipingAt("wipe cols") /\ ~(x < Cols)
       => WipingAt("row done")
  /\ WipingAt("wipe cell")
       => Wiping(shown, "wipe cell x", x, y, y, address, memory, rest)
  /\ WipingAt("wipe cell x")
       => Wiping(shown, "wipe store", x, y, loaded, loaded * Cols + x, memory,
                 rest)
  /\ WipingAt("wipe store")
       => Wiping(shown, "col done", x, y, loaded, address,
                 [memory EXCEPT ![address] = Blank], rest)
  /\ WipingAt("col done")
       => Wiping(shown, "col next", x, y, x, address, memory, rest)
  /\ WipingAt("col next")
       => Wiping(shown, "wipe cols", (loaded + 1) % Byte, y, loaded, address,
                 memory, rest)
<1> USE DEF Wiping, WipedSoFar, InPage, InRow, InCell
<1>0. ASSUME NEW r \in 0 .. (Rows - 1)
      PROVE  First(r) \in Nat /\ First(r) + Cols = First(r + 1)
  BY FirstCells, Sizes
<1>1. ASSUME WipingAt("wipe row")
      PROVE  Wiping(shown, "wipe cols", 0 % Byte, y, loaded, address, memory,
                    rest)
  <2>1. 0 % Byte = 0 /\ 0 \in 0 .. Cols BY Sizes, Successors
  <2>2. y \in 0 .. (Rows - 1) /\ BlankBelow(memory, First(y)) BY <1>1
  <2>3. First(y) + 0 = First(y) BY <2>2, <1>0
  <2>4. BlankBelow(memory, First(y) + (0 % Byte)) BY <2>1, <2>2, <2>3
  <2> QED BY <1>1, <2>1, <2>4
<1>2. ASSUME WipingAt("wipe cols"), x < Cols
      PROVE  WipingAt("wipe cell")
  <2>1. x \in 0 .. (Cols - 1) BY <1>2, Sizes
  <2> QED BY <1>2, <2>1
<1>3. ASSUME WipingAt("wipe cols"),
             ~(x < Cols)
      PROVE  WipingAt("row done")
  <2>1. x = Cols BY <1>3, Sizes
  <2>2. y \in 0 .. (Rows - 1) /\ BlankBelow(memory, First(y) + x) BY <1>3
  <2>3. BlankBelow(memory, First(y + 1)) BY <2>1, <2>2, <1>0
  <2> QED BY <1>3, <2>3
<1>4. ASSUME WipingAt("wipe cell")
      PROVE  Wiping(shown, "wipe cell x", x, y, y, address, memory, rest)
  BY <1>4
<1>5. ASSUME WipingAt("wipe cell x")
      PROVE  Wiping(shown, "wipe store", x, y, loaded, loaded * Cols + x,
                    memory, rest)
  <2>1. loaded * Cols + x = First(y) + x BY <1>5 DEF First
  <2> QED BY <1>5, <2>1
<1>6. ASSUME WipingAt("wipe store")
      PROVE  Wiping(shown, "col done", x, y, loaded, address,
                    [memory EXCEPT ![address] = Blank], rest)
  <2> DEFINE wiped == [memory EXCEPT ![address] = Blank]
  <2>1. /\ x \in 0 .. (Cols - 1) /\ y \in 0 .. (Rows - 1)
        /\ address = First(y) + x /\ BlankBelow(memory, First(y) + x)
        /\ memory \in [Memory -> Contents]
    BY <1>6
  <2>2. First(y) \in Nat BY <2>1, <1>0
  <2>3. wiped \in [Memory -> Contents] BY <2>1 DEF Contents
  <2>4. ASSUME NEW a \in Page, a < First(y) + x + 1 PROVE wiped[a] = Blank
    <3>1. a < First(y) + x \/ a = address
      BY <2>1, <2>2, <2>4, Sizes DEF Page
    <3>2. a \in Memory BY PageInMemory
    <3> QED BY <2>1, <3>1, <3>2 DEF BlankBelow
  <2>5. BlankBelow(wiped, First(y) + x + 1) BY <2>4 DEF BlankBelow
  <2> HIDE DEF wiped
  <2>6. Wiping(shown, "col done", x, y, loaded, address, wiped, rest)
    BY <1>6, <2>3, <2>5
  <2> QED BY <2>6 DEF wiped
<1>7. ASSUME WipingAt("col done")
      PROVE  Wiping(shown, "col next", x, y, x, address, memory, rest)
  BY <1>7
<1>8. ASSUME WipingAt("col next")
      PROVE  Wiping(shown, "wipe cols", (loaded + 1) % Byte, y, loaded,
                    address, memory, rest)
  <2>1. /\ loaded = x /\ x \in 0 .. (Cols - 1) /\ y \in 0 .. (Rows - 1)
        /\ BlankBelow(memory, First(y) + x + 1)
    BY <1>8
  <2>2. (loaded + 1) % Byte = x + 1 /\ x + 1 \in 0 .. Cols
    BY <2>1, Successors, Sizes
  <2>3. First(y) + x + 1 = First(y) + (x + 1) BY <2>1, <1>0, Sizes
  <2>4. BlankBelow(memory, First(y) + ((loaded + 1) % Byte))
    BY <2>1, <2>2, <2>3
  <2> QED BY <1>8, <2>2, <2>4
<1> QED BY <1>1, <1>2, <1>3, <1>4, <1>5, <1>6, <1>7, <1>8

-----------------------------------------------------------------------------
(* One character: what each step of main makes of it, from the place it is *)
(* at to the place it goes to.                                             *)

(* '\n'                                                                    *)
LEMMA NewlineSteps ==
  ASSUME ShownType
  PROVE  /\ DoingAt("newline")
              => Doing(shown, "newline y", x, y, y, address, memory, rest)
         /\ DoingAt("newline y")
              => Doing(shown, "newline x", x, (loaded + 1) % Byte, loaded,
                       address, memory, rest)
         /\ DoingAt("newline x")
              => Doing(shown, "check x", 0 % Byte, y, loaded, address, memory,
                       rest)
<1> USE ShownPlace, Sizes, Successors
    DEF Doing, Position, Values, PageAt, Printing, TerminalPlaces,
        BetweenChars, Unmoved, CursorPlaces, BackspacePlaces
<1>1. DoingAt("newline")
        => Doing(shown, "newline y", x, y, y, address, memory, rest)
  OBVIOUS
<1>2. DoingAt("newline y")
        => Doing(shown, "newline x", x, (loaded + 1) % Byte, loaded, address,
                 memory, rest)
  BY DEF PutRow
<1>3. DoingAt("newline x")
        => Doing(shown, "check x", 0 % Byte, y, loaded, address, memory, rest)
  BY DEF PutColumn, PutCells
<1> QED BY <1>1, <1>2, <1>3

(* The cell that a backspace blanks is on the page.                        *)
LEMMA BackspaceCell ==
  ASSUME ShownType
  PROVE  Row(shown) * Cols + PutColumn(shown, Backspace) \in Page
<1>1. PutColumn(shown, Backspace) \in 0 .. (Cols - 1) \/ Backspace = Newline
  BY ShownPlace, Sizes DEF PutColumn
<1>2. PutColumn(shown, Newline) = 0 /\ 0 \in 0 .. (Cols - 1)
  BY Sizes DEF PutColumn
<1>3. PutColumn(shown, Backspace) \in 0 .. (Cols - 1) BY <1>1, <1>2
<1>4. Row(shown) \in Nat /\ Row(shown) < Rows BY ShownPlace, Sizes
<1> QED BY <1>3, <1>4, RowOnPage

(* '\b'                                                                    *)
LEMMA BackspaceSteps ==
  ASSUME ShownType
  PROVE  /\ DoingAt("backspace") /\ x <= 0
              => DoingAt("backspace 0")
         /\ DoingAt("backspace") /\ ~(x <= 0)
              => DoingAt("backspace x")
         /\ DoingAt("backspace 0")
              => Doing(shown, "blank", 0 % Byte, y, loaded, address, memory,
                       rest)
         /\ DoingAt("backspace x")
              => Doing(shown, "backspace x-1", x, y, x, address, memory, rest)
         /\ DoingAt("backspace x-1")
              => Doing(shown, "blank", (loaded - 1) % Byte, y, loaded, address,
                       memory, rest)
         /\ DoingAt("blank")
              => Doing(shown, "blank x", x, y, y, address, memory, rest)
         /\ DoingAt("blank x")
              => Doing(shown, "blank cell", x, y, loaded, loaded * Cols + x,
                       memory, rest)
         /\ DoingAt("blank cell")
              => Doing(shown, "check x", x, y, loaded, address,
                       [memory EXCEPT ![address] = Blank], rest)
<1> USE DEF Doing, Position, Values, PageAt, Printing, TerminalPlaces,
            BetweenChars, Unmoved, CursorPlaces, BackspacePlaces
<1>0. Column(shown) \in 0 .. (Cols - 1) BY ShownPlace
<1>1. ASSUME DoingAt("backspace"), x <= 0
      PROVE  DoingAt("backspace 0")
  <2>1. x = Column(shown) BY <1>1
  <2>2. Column(shown) = 0 BY <1>0, <1>1, <2>1, Sizes
  <2> QED BY <1>1, <2>2
<1>2. ASSUME DoingAt("backspace"), ~(x <= 0)
      PROVE  DoingAt("backspace x")
  <2>1. x = Column(shown) BY <1>2
  <2>2. Column(shown) > 0 BY <1>0, <1>2, <2>1, Sizes
  <2> QED BY <1>2, <2>2
<1>3. ASSUME DoingAt("backspace 0")
      PROVE  Doing(shown, "blank", 0 % Byte, y, loaded, address, memory, rest)
  BY <1>3, Successors DEF PutColumn
<1>4. ASSUME DoingAt("backspace x")
      PROVE  Doing(shown, "backspace x-1", x, y, x, address, memory, rest)
  BY <1>4
<1>5. ASSUME DoingAt("backspace x-1")
      PROVE  Doing(shown, "blank", (loaded - 1) % Byte, y, loaded, address,
                   memory, rest)
  <2>1. /\ loaded = Column(shown) /\ Column(shown) > 0
        /\ Head(rest) = Backspace /\ Head(rest) # Newline
    BY <1>5
  <2>2. loaded - 1 \in Nat /\ loaded - 1 < Byte BY <2>1, <1>0, Sizes
  <2>3. (loaded - 1) % Byte = Column(shown) - 1 BY <2>1, <2>2, FitsByte
  <2>4. Column(shown) # 0 BY <2>1, <1>0, Sizes
  <2>5. (loaded - 1) % Byte = PutColumn(shown, Head(rest))
    BY <2>1, <2>3, <2>4 DEF PutColumn
  <2> QED BY <1>5, <2>5
<1>6. ASSUME DoingAt("blank")
      PROVE  Doing(shown, "blank x", x, y, y, address, memory, rest)
  BY <1>6
<1>7. ASSUME DoingAt("blank x")
      PROVE  Doing(shown, "blank cell", x, y, loaded, loaded * Cols + x,
                   memory, rest)
  BY <1>7
<1>8. ASSUME DoingAt("blank cell")
      PROVE  Doing(shown, "check x", x, y, loaded, address,
                   [memory EXCEPT ![address] = Blank], rest)
  <2> DEFINE blanked == [memory EXCEPT ![address] = Blank]
  <2>1. /\ Head(rest) = Backspace /\ Backspace # Newline
        /\ address = Row(shown) * Cols + PutColumn(shown, Backspace)
        /\ memory \in [Memory -> Contents] /\ Same(memory, shown.cells)
    BY <1>8
  <2>2. address \in Page BY <2>1, BackspaceCell
  <2>3. PutCells(shown, Head(rest)) = [shown.cells EXCEPT ![address] = Blank]
        /\ PutRow(shown, Head(rest)) = Row(shown)
    BY <2>1 DEF PutCells, PutRow
  <2>4. blanked \in [Memory -> Contents] BY <2>1 DEF Contents
  <2>5. Same(blanked, PutCells(shown, Head(rest)))
    BY <2>1, <2>2, <2>3, ShownPlace, PageInMemory DEF Same
  <2> HIDE DEF blanked
  <2>6. Doing(shown, "check x", x, y, loaded, address, blanked, rest)
    BY <1>8, <2>3, <2>4, <2>5
  <2> QED BY <2>6 DEF blanked
<1> QED BY <1>1, <1>2, <1>3, <1>4, <1>5, <1>6, <1>7, <1>8

(* Any other character.                                                    *)
LEMMA DefaultSteps ==
  ASSUME ShownType
  PROVE  /\ DoingAt("char")
              => Doing(shown, "char x", x, y, y, address, memory, rest)
         /\ DoingAt("char x")
              => Doing(shown, "char cell", x, y, loaded, loaded * Cols + x,
                       memory, rest)
         /\ DoingAt("char cell")
              => Doing(shown, "advance", x, y, loaded, address,
                       [memory EXCEPT ![address] = Head(rest)], rest)
         /\ DoingAt("advance")
              => Doing(shown, "advance x", x, y, x, address, memory, rest)
         /\ DoingAt("advance x")
              => Doing(shown, "check x", (loaded + 1) % Byte, y, loaded,
                       address, memory, rest)
<1> USE DEF Doing, Position, Values, PageAt, Printing, TerminalPlaces,
            BetweenChars, Unmoved, CursorPlaces, BackspacePlaces
<1>1. ASSUME DoingAt("char")
      PROVE  Doing(shown, "char x", x, y, y, address, memory, rest)
  BY <1>1
<1>2. ASSUME DoingAt("char x")
      PROVE  Doing(shown, "char cell", x, y, loaded, loaded * Cols + x, memory,
                   rest)
  <2>1. x = Column(shown) /\ loaded = Row(shown) BY <1>2
  <2>2. loaded * Cols + x = shown.pos BY <2>1, ShownPlace
  <2> QED BY <1>2, <2>2
<1>3. ASSUME DoingAt("char cell")
      PROVE  Doing(shown, "advance", x, y, loaded, address,
                   [memory EXCEPT ![address] = Head(rest)], rest)
  <2> DEFINE written == [memory EXCEPT ![address] = Head(rest)]
  <2>1. /\ Head(rest) \notin {Newline, Backspace}
        /\ rest \in Seq(Chars \cup {Newline, Backspace}) /\ rest # <<>>
        /\ address = shown.pos
        /\ memory \in [Memory -> Contents] /\ Same(memory, shown.cells)
    BY <1>3
  <2>2. Head(rest) \in Chars BY <2>1
  <2>3. written \in [Memory -> Contents] BY <2>1, <2>2 DEF Contents
  <2>4. PutCells(shown,
                 Head(rest)) = [shown.cells EXCEPT ![shown.pos] = Head(rest)]
    BY <2>1 DEF PutCells
  <2>5. Same(written, PutCells(shown, Head(rest)))
    BY <2>1, <2>4, ShownPlace, PageInMemory DEF Same
  <2> HIDE DEF written
  <2>6. Doing(shown, "advance", x, y, loaded, address, written, rest)
    BY <1>3, <2>3, <2>5
  <2> QED BY <2>6 DEF written
<1>4. ASSUME DoingAt("advance")
      PROVE  Doing(shown, "advance x", x, y, x, address, memory, rest)
  BY <1>4
<1>5. ASSUME DoingAt("advance x")
      PROVE  Doing(shown, "check x", (loaded + 1) % Byte, y, loaded, address,
                   memory, rest)
  <2>1. loaded = Column(shown) /\ Head(rest) \notin {Newline, Backspace}
    BY <1>5
  <2>2. (loaded + 1) % Byte = Column(shown) + 1 BY <2>1, ShownPlace, Successors
  <2>3. /\ PutColumn(shown, Head(rest)) = Column(shown) + 1
        /\ PutRow(shown, Head(rest)) = Row(shown)
    BY <2>1 DEF PutColumn, PutRow
  <2> QED BY <1>5, <2>2, <2>3
<1> QED BY <1>1, <1>2, <1>3, <1>4, <1>5

(* The end of the row.                                                     *)
LEMMA CheckXSteps ==
  ASSUME ShownType
  PROVE  /\ DoingAt("check x") /\ x >= Cols
              => DoingAt("wrap")
         /\ DoingAt("check x") /\ ~(x >= Cols)
              => DoingAt("check y")
         /\ DoingAt("wrap")
              => Doing(shown, "wrap y", x, y, y, address, memory, rest)
         /\ DoingAt("wrap y")
              => Doing(shown, "wrap x", x, (loaded + 1) % Byte, loaded,
                       address, memory, rest)
         /\ DoingAt("wrap x")
              => Doing(shown, "check y", 0 % Byte, y, loaded, address, memory,
                       rest)
<1> USE DEF Doing, Position, Values, PageAt, Printing, TerminalPlaces,
            BetweenChars, Unmoved, CursorPlaces, BackspacePlaces
<1>1. ASSUME DoingAt("check x"), x >= Cols
      PROVE  DoingAt("wrap")
  BY <1>1
<1>2. ASSUME DoingAt("check x"),
             ~(x >= Cols)
      PROVE  DoingAt("check y")
  <2>1. x = WrapColumn(shown, Head(rest)) /\ y = WrapRow(shown, Head(rest))
    BY <1>2 DEF WrapColumn, WrapRow
  <2> QED BY <1>2, <2>1
<1>3. ASSUME DoingAt("wrap")
      PROVE  Doing(shown, "wrap y", x, y, y, address, memory, rest)
  BY <1>3
<1>4. ASSUME DoingAt("wrap y")
      PROVE  Doing(shown, "wrap x", x, (loaded + 1) % Byte, loaded, address,
                   memory, rest)
  <2>1. loaded = PutRow(shown, Head(rest)) /\ PutColumn(shown,
                                                        Head(rest)) >= Cols
    BY <1>4
  <2>2. PutRow(shown, Head(rest)) \in 0 .. (Rows - 1)
    BY <2>1, PutPlace, Sizes
  <2>3. (loaded + 1) % Byte = PutRow(shown, Head(rest)) + 1
    BY <2>1, <2>2, Successors
  <2>4. WrapRow(shown, Head(rest)) = PutRow(shown,
                                            Head(rest)) + 1 BY <2>1 DEF WrapRow
  <2> QED BY <1>4, <2>3, <2>4
<1>5. ASSUME DoingAt("wrap x")
      PROVE  Doing(shown, "check y", 0 % Byte, y, loaded, address, memory,
                   rest)
  <2>1. WrapColumn(shown, Head(rest)) = 0 BY <1>5 DEF WrapColumn
  <2> QED BY <1>5, <2>1, Successors
<1> QED BY <1>1, <1>2, <1>3, <1>4, <1>5

(* The next character, and the end of the message.                         *)
LEMMA NextSteps ==
  ASSUME DoingAt("next")
  PROVE  /\ rest = <<>>
              => DoingAt("argument y")
         /\ rest # <<>> /\ Head(rest) = Newline
              => DoingAt("newline")
         /\ rest # <<>> /\ Head(rest) # Newline /\ Head(rest) = Backspace
              => DoingAt("backspace")
         /\ rest # <<>> /\ Head(rest) # Newline /\ Head(rest) # Backspace
              => DoingAt("char")
BY DEF Doing, Position, Values, PageAt, Printing, TerminalPlaces,
       BetweenChars, Unmoved, CursorPlaces, BackspacePlaces

(* The cursor.                                                             *)
LEMMA CursorSteps ==
  ASSUME ShownType
  PROVE  /\ DoingAt("argument y")
              => Doing(shown, "argument x", x, y, y, address, memory, rest)
         /\ DoingAt("argument x")
              => Doing(shown, "select low", x, y, loaded, loaded * Cols + x,
                       memory, rest)
         /\ DoingAt("select low")
              => DoingAt("low")
         /\ DoingAt("low")
              => DoingAt("select high")
         /\ DoingAt("select high")
              => DoingAt("high")
         /\ DoingAt("high")
              => DoingAt("idle")
<1> USE DEF Doing, Position, Values, PageAt, Printing, TerminalPlaces,
            BetweenChars, Unmoved, CursorPlaces, BackspacePlaces
<1>1. ASSUME DoingAt("argument x")
      PROVE  Doing(shown, "select low", x, y, loaded, loaded * Cols + x,
                   memory, rest)
  <2>1. x = Column(shown) /\ loaded = Row(shown) BY <1>1
  <2>2. loaded * Cols + x = shown.pos BY <2>1, ShownPlace
  <2> QED BY <1>1, <2>2
<1> QED BY <1>1

-----------------------------------------------------------------------------
(* The steps of main, none of which shows anything before a character is   *)
(* done or the cursor is moved.                                            *)

(* A place says which of the two parts of TInv holds.                      *)
LEMMA Phases ==
  ASSUME TInv
  PROVE  /\ pc \in TerminalPlaces =>
              DoingAt(pc)
         /\ pc \in InPage =>
              WipingAt(pc)
<1>1. TerminalPlaces \cap InPage = {}
  BY DEF TerminalPlaces, BetweenChars, Unmoved, InPage, InRow, InCell
<1> QED BY <1>1 DEF TInv, Doing, Wiping

(* The registers of the CRT controller are of no interest elsewhere.       *)
LEMMA RegistersKept ==
  ASSUME TInv, UNCHANGED crtc, pc' \notin {"low", "select high", "high"}
  PROVE  CursorAt(pc, address, index, crtc)'
BY DEF TInv, CursorAt

(* The case of a newline.                                                  *)
LEMMA NewlineKept == ASSUME TInv, NewlineCase PROVE TInv' /\ UNCHANGED shown
<1>1. UNCHANGED <<shown, crtc>> /\ pc' \notin {"low", "select high", "high"}
  BY DEF NewlineCase, Load, StoreX, StoreY, Goto, shared
<1>2. ShownType' /\ CursorAt(pc, address, index, crtc)'
  BY <1>1, RegistersKept DEF TInv, ShownType
<1>3. DoingAt(pc)'
  <2>1. pc \in TerminalPlaces
    BY DEF NewlineCase, Load, StoreX, StoreY, Goto, TerminalPlaces, Unmoved
  <2>2. DoingAt(pc) /\ ShownType
    BY <2>1, Phases DEF TInv
  <2> QED
    BY <1>1, <2>2, NewlineSteps
       DEF NewlineCase, Load, StoreX, StoreY, Goto, shared, local
<1> QED BY <1>1, <1>2, <1>3 DEF TInv

(* The case of a backspace.                                                *)
LEMMA BackspaceKept ==
  ASSUME TInv, BackspaceCase PROVE TInv' /\ UNCHANGED shown
<1>1. UNCHANGED <<shown, crtc>> /\ pc' \notin {"low", "select high", "high"}
  BY DEF BackspaceCase, Branch, Load, AddX, StoreX, StoreCell, Goto, shared,
         local
<1>2. ShownType' /\ CursorAt(pc, address, index, crtc)'
  BY <1>1, RegistersKept DEF TInv, ShownType
<1>3. DoingAt(pc)'
  <2>1. pc \in TerminalPlaces
    BY DEF BackspaceCase, Branch, Load, AddX, StoreX, StoreCell, Goto,
           TerminalPlaces, Unmoved
  <2>2. DoingAt(pc) /\ ShownType
    BY <2>1, Phases DEF TInv
  <2> QED
    BY <1>1, <2>2, BackspaceSteps
       DEF BackspaceCase, Branch, Load, AddX, StoreX, StoreCell, Goto, shared,
           local
<1> QED BY <1>1, <1>2, <1>3 DEF TInv

(* The case of any other character.                                        *)
LEMMA DefaultKept == ASSUME TInv, DefaultCase PROVE TInv' /\ UNCHANGED shown
<1>1. UNCHANGED <<shown, crtc>> /\ pc' \notin {"low", "select high", "high"}
  BY DEF DefaultCase, Load, AddX, StoreX, StoreCell, Goto, shared, local
<1>2. ShownType' /\ CursorAt(pc, address, index, crtc)'
  BY <1>1, RegistersKept DEF TInv, ShownType
<1>3. DoingAt(pc)'
  <2>1. pc \in TerminalPlaces
    BY DEF DefaultCase, Load, AddX, StoreX, StoreCell, Goto, TerminalPlaces,
           Unmoved
  <2>2. DoingAt(pc) /\ ShownType
    BY <2>1, Phases DEF TInv
  <2> QED
    BY <1>1, <2>2, DefaultSteps
       DEF DefaultCase, Load, AddX, StoreX, StoreCell, Goto, shared, local
<1> QED BY <1>1, <1>2, <1>3 DEF TInv

(* The end of the row.                                                     *)
LEMMA CheckXKept == ASSUME TInv, CheckX PROVE TInv' /\ UNCHANGED shown
<1>1. UNCHANGED <<shown, crtc>> /\ pc' \notin {"low", "select high", "high"}
  BY DEF CheckX, Branch, Load, StoreX, StoreY, Goto, shared, local
<1>2. ShownType' /\ CursorAt(pc, address, index, crtc)'
  BY <1>1, RegistersKept DEF TInv, ShownType
<1>3. DoingAt(pc)'
  <2>1. pc \in TerminalPlaces
    BY DEF CheckX, Branch, Load, StoreX, StoreY, Goto, TerminalPlaces
  <2>2. DoingAt(pc) /\ ShownType
    BY <2>1, Phases DEF TInv
  <2> QED
    BY <1>1, <2>2, CheckXSteps
       DEF CheckX, Branch, Load, StoreX, StoreY, Goto, shared, local
<1> QED BY <1>1, <1>2, <1>3 DEF TInv

(* The switch on the next character.                                       *)
LEMMA NextCharKept == ASSUME TInv, NextChar PROVE TInv' /\ UNCHANGED shown
<1>1. UNCHANGED <<shared, local, shown>> /\ pc = "next"
      /\ pc' \in {"argument y", "newline", "backspace", "char"}
  BY DEF NextChar
<1>2. ShownType' /\ CursorAt(pc, address, index, crtc)'
  BY <1>1, RegistersKept DEF TInv, ShownType, shared
<1>3. DoingAt(pc)'
  <2>1. pc \in TerminalPlaces BY <1>1 DEF TerminalPlaces, BetweenChars
  <2>2. DoingAt("next")
    BY <1>1, <2>1, Phases
  <2>3. Doing(shown, pc', x, y, loaded, address, memory, rest)
    <3>1. CASE rest = <<>> BY <2>2, <3>1, NextSteps DEF NextChar
    <3>2. CASE rest # <<>> /\ Head(rest) = Newline
      <4>1. pc' = "newline" BY <3>2, ConsoleAssumption DEF NextChar
      <4> QED BY <2>2, <3>2, <4>1, NextSteps
    <3>3. CASE rest # <<>> /\ Head(rest) # Newline /\ Head(rest) = Backspace
      <4>1. pc' = "backspace" BY <3>3, ConsoleAssumption DEF NextChar
      <4> QED BY <2>2, <3>3, <4>1, NextSteps
    <3>4. CASE rest # <<>> /\ Head(rest) # Newline /\ Head(rest) # Backspace
      <4>1. pc' = "char" BY <3>4 DEF NextChar
      <4> QED BY <2>2, <3>4, <4>1, NextSteps
    <3> QED BY <3>1, <3>2, <3>3, <3>4
  <2> QED BY <1>1, <2>3 DEF shared, local
<1> QED BY <1>1, <1>2, <1>3 DEF TInv

(* Wiping the page.                                                        *)
WipeStep == CheckY /\ pc \notin {"check y", "home y"}

(* The loops that wipe the page count y and x to their ends.               *)
LEMMA WipeKept == ASSUME TInv, WipeStep PROVE TInv' /\ UNCHANGED shown
<1>1. UNCHANGED <<shown, crtc>> /\ pc' \notin {"low", "select high", "high"}
  BY DEF WipeStep, CheckY, Branch, Load, AddX, StoreX, StoreY, StoreCell,
         Goto, shared, local
<1>2. ShownType' /\ CursorAt(pc, address, index, crtc)'
  BY <1>1, RegistersKept DEF TInv, ShownType
<1>3. WipingAt(pc)'
  <2>1. pc \in InPage
    BY DEF WipeStep, CheckY, Branch, Load, AddX, StoreX, StoreY, StoreCell,
           Goto, InPage, InRow, InCell
  <2>2. WipingAt(pc)
    BY <2>1, Phases
  <2>3. CASE pc \in {"wipe", "wipe rows", "row done", "row next", "home"}
    BY <1>1, <2>2, <2>3, WipeRowSteps
       DEF WipeStep, CheckY, Branch, Load, AddX, StoreX, StoreY, StoreCell,
           Goto, shared, local
  <2>4. CASE pc \in InCell \cup {"wipe row", "wipe cols"}
    BY <1>1, <2>2, <2>4, WipeCellSteps
       DEF WipeStep, CheckY, Branch, Load, AddX, StoreX, StoreY, StoreCell,
           Goto, shared, local, InCell
  <2> QED
    BY <2>1, <2>3, <2>4 DEF InPage, InRow, InCell, WipeStep
<1> QED BY <1>1, <1>2, <1>3 DEF TInv

(* The page is full: it is going to be wiped.                              *)
FullPage == CheckY /\ pc = "check y" /\ y >= Rows

(* They begin where the rows are used up.                                  *)
LEMMA FullPageKept == ASSUME TInv, FullPage PROVE TInv' /\ UNCHANGED shown
<1>1. /\ pc = "check y" /\ pc' = "wipe"
      /\ UNCHANGED <<shown, x, y, memory, index, crtc, rest, loaded, address>>
  BY DEF FullPage, CheckY, Branch, Load, AddX, StoreX, StoreY, StoreCell,
         Goto, shared, local
<1>2. ShownType' /\ CursorAt(pc, address, index, crtc)'
  BY <1>1, RegistersKept DEF TInv, ShownType
<1>3. DoingAt("check y")
  BY <1>1, Phases DEF TerminalPlaces
<1>4. /\ rest \in Seq(Chars \cup {Newline, Backspace}) /\ rest # <<>>
      /\ WrapRow(shown, Head(rest)) = y
      /\ memory \in [Memory -> Contents]
  BY <1>3 DEF Doing, Printing, Position, PageAt, BetweenChars
<1>5. WrapRow(shown, Head(rest)) >= Rows BY <1>4 DEF FullPage
<1>6. WipingAt("wipe")
  BY <1>4, <1>5 DEF Wiping, WipedSoFar, InPage, InRow, InCell
<1> QED BY <1>1, <1>2, <1>6 DEF TInv

-----------------------------------------------------------------------------
(* A character is done: the terminal has written it.                       *)

(* Where the next character goes.                                          *)
After(s, c) == WrapRow(s, c) * Cols + WrapColumn(s, c)

(* After a newline: the next row.                                          *)
LEMMA AfterNewline ==
  ASSUME ShownType
  PROVE  After(shown, Newline) = (shown.pos \div Cols + 1) * Cols
<1>1. PutColumn(shown, Newline) = 0 /\ PutRow(shown, Newline) = Row(shown) + 1
  BY DEF PutColumn, PutRow
<1>2. /\ WrapColumn(shown, Newline) = 0
      /\ WrapRow(shown, Newline) = Row(shown) + 1
  BY <1>1, Sizes DEF WrapColumn, WrapRow
<1>3. (Row(shown) + 1) * Cols \in Nat BY ShownPlace, Sizes, SMT
<1> QED BY <1>2, <1>3 DEF After, Row

(* After a backspace: one cell back in the same row, whose cell is         *)
(* blanked.                                                                *)
LEMMA AfterBackspace ==
  ASSUME ShownType
  PROVE  /\ After(shown, Backspace) = IF shown.pos % Cols = 0 THEN shown.pos
                                      ELSE shown.pos - 1
         /\ After(shown, Backspace)
              = Row(shown) * Cols + PutColumn(shown, Backspace)
         /\ WrapRow(shown, Backspace) < Rows
<1>1. Column(shown) \in 0 .. (Cols - 1) /\ Row(shown) \in 0 .. (Rows - 1)
      /\ shown.pos = Row(shown) * Cols + Column(shown)
  BY ShownPlace
<1>2. /\ PutColumn(shown, Backspace)
           = IF Column(shown) = 0 THEN 0 ELSE Column(shown) - 1
      /\ PutRow(shown, Backspace) = Row(shown)
  BY ConsoleAssumption DEF PutColumn, PutRow
<1>3. /\ WrapColumn(shown, Backspace) = PutColumn(shown, Backspace)
      /\ WrapRow(shown, Backspace) = Row(shown)
  BY <1>1, <1>2, Sizes DEF WrapColumn, WrapRow
<1>4. Row(shown) * Cols \in Nat BY <1>1, Sizes, SMT
<1>5. CASE Column(shown) = 0
  BY <1>1, <1>2, <1>3, <1>4, <1>5, Sizes DEF After, Column
<1>6. CASE Column(shown) # 0
  <2>1. PutColumn(shown, Backspace) = Column(shown) - 1 BY <1>2, <1>6
  <2>2. shown.pos % Cols # 0 BY <1>6 DEF Column
  <2>3. Row(shown) * Cols + (Column(shown) - 1) = shown.pos - 1
    BY <1>1, <1>4, Sizes
  <2> QED BY <1>1, <1>3, <2>1, <2>2, <2>3, Sizes DEF After
<1> QED BY <1>5, <1>6

(* After any other character: the next cell, which may be that of the next *)
(* row.                                                                    *)
LEMMA AfterOther ==
  ASSUME ShownType, NEW c, c # Newline, c # Backspace
  PROVE  After(shown, c) = shown.pos + 1
<1>1. Column(shown) \in 0 .. (Cols - 1) /\ Row(shown) \in 0 .. (Rows - 1)
      /\ shown.pos = Row(shown) * Cols + Column(shown)
  BY ShownPlace
<1>2. PutColumn(shown, c) = Column(shown) + 1 /\ PutRow(shown, c) = Row(shown)
  BY DEF PutColumn, PutRow
<1>3. Row(shown) * Cols \in Nat
      /\ (Row(shown) + 1) * Cols = Row(shown) * Cols + Cols
  BY <1>1, Sizes, SMT
<1>4. CASE Column(shown) + 1 >= Cols
  <2>1. Column(shown) + 1 = Cols BY <1>1, <1>4, Sizes
  <2>2. WrapColumn(shown, c) = 0 /\ WrapRow(shown, c) = Row(shown) + 1
    BY <1>2, <1>4 DEF WrapColumn, WrapRow
  <2> QED BY <1>1, <1>3, <2>1, <2>2, Sizes DEF After
<1>5. CASE ~(Column(shown) + 1 >= Cols)
  <2>1. /\ WrapColumn(shown, c) = Column(shown) + 1
        /\ WrapRow(shown, c) = Row(shown)
    BY <1>2, <1>5 DEF WrapColumn, WrapRow
  <2> QED BY <1>1, <1>3, <2>1, Sizes DEF After
<1> QED BY <1>4, <1>5

(* The page is full exactly if the row is behind it.                       *)
LEMMA AfterOnPage ==
  ASSUME ShownType, NEW c
  PROVE  After(shown, c) \in Page <=> WrapRow(shown, c) < Rows
<1>1. WrapRow(shown, c) \in Nat /\ WrapColumn(shown, c) \in 0 .. (Cols - 1)
  BY PutPlace, Sizes
<1> QED BY <1>1, RowOnPage DEF After

(* The page with the character, or an empty page if the rows are used up,  *)
(* is what the terminal shows after it.                                    *)
LEMMA Written ==
  ASSUME ShownType, NEW c \in Chars \cup {Newline, Backspace},
         \/ /\ WrapRow(shown, c) < Rows
            /\ shown'.cells = PutCells(shown, c)
            /\ shown'.pos = After(shown, c)
         \/ /\ WrapRow(shown, c) >= Rows
            /\ shown'.cells = [a \in Page |-> Blank]
            /\ shown'.pos = 0
  PROVE  Screen!Write(c)
<1> DEFINE contents == PutCells(shown, c)
<1>1. WrapRow(shown, c) \in Nat BY PutPlace, Sizes
<1>2. Screen!Continue(contents, After(shown, c))
  BY <1>1, AfterOnPage, Sizes
     DEF Screen!Continue, Screen!Page, Screen!EmptyPage, Page
<1>3. CASE c = Newline
  <2>1. contents = shown.cells BY <1>3 DEF PutCells
  <2> QED BY <1>2, <1>3, <2>1, AfterNewline DEF Screen!Write
<1>4. CASE c = Backspace
  <2>1. contents = [shown.cells EXCEPT ![After(shown, c)] = Blank]
    BY <1>4, AfterBackspace, ConsoleAssumption DEF PutCells
  <2> QED BY <1>2, <1>4, <2>1, AfterBackspace DEF Screen!Write
<1>5. CASE c # Newline /\ c # Backspace
  <2>1. contents = [shown.cells EXCEPT ![shown.pos] = c]
    BY <1>5 DEF PutCells
  <2>2. c \in Chars BY <1>5
  <2> QED BY <1>2, <1>5, <2>1, <2>2, AfterOther DEF Screen!Write
<1> QED BY <1>3, <1>4, <1>5

(* What is shown after a character is done is a page with a position, at   *)
(* the row and column where x and y are.                                   *)
LEMMA CharacterShown ==
  ASSUME ShownType, NEW c \in Chars \cup {Newline, Backspace},
         NEW contents \in [Memory -> Contents], NEW i, NEW j,
         \/ /\ WrapRow(shown, c) < Rows
            /\ j = WrapRow(shown, c) /\ i = WrapColumn(shown, c)
            /\ Same(contents, PutCells(shown, c))
         \/ /\ WrapRow(shown, c) >= Rows
            /\ j = 0 /\ i = 0
            /\ \A a \in Page : contents[a] = Blank,
         NEW at \in Nat,
         shown' = [cells |-> [a \in Page |-> contents[a]],
                   pos |-> j * Cols + i, cursor |-> at]
  PROVE  /\ ShownType' /\ Screen!Write(c)
         /\ Row(shown') = j /\ Column(shown') = i
         /\ Same(contents, shown'.cells)
<1> DEFINE page == [a \in Page |-> contents[a]]
<1>1. j \in Nat /\ j < Rows /\ i \in 0 .. (Cols - 1)
  BY PutPlace, Sizes
<1>2. j * Cols + i \in Page /\ j * Cols + i \in Nat
  BY <1>1, RowOnPage, Sizes DEF Page
<1>3. page \in [Page -> Contents]
  BY PageInMemory
<1>4. ShownType' BY <1>2, <1>3 DEF ShownType
<1>5. Row(shown') = j /\ Column(shown') = i
  BY <1>1, RowAndColumn DEF Row, Column
<1>6. Same(contents, shown'.cells) BY DEF Same
<1>7. Screen!Write(c)
  <2>1. CASE WrapRow(shown, c) < Rows
    <3>1. j = WrapRow(shown, c) /\ i = WrapColumn(shown, c)
          /\ Same(contents, PutCells(shown, c))
      BY <2>1, PutPlace, Sizes
    <3>2. DOMAIN PutCells(shown, c) = Page
          /\ PutCells(shown, c) = [a \in Page |-> PutCells(shown, c)[a]]
      BY ShownPlace DEF PutCells
    <3>3. page = PutCells(shown, c) BY <3>1, <3>2 DEF Same
    <3> QED BY <2>1, <3>1, <3>3, Written DEF After
  <2>2. CASE ~(WrapRow(shown, c) < Rows)
    <3>1. WrapRow(shown, c) >= Rows BY <2>2, PutPlace, Sizes
    <3>2. j = 0 /\ i = 0 /\ page = [a \in Page |-> Blank] BY <2>2
    <3>3. j * Cols + i = 0 BY <3>2, Sizes
    <3> QED BY <3>1, <3>2, <3>3, Written
  <2> QED BY <2>1, <2>2
<1> QED BY <1>4, <1>5, <1>6, <1>7

(* Main's last step for a character, on the page or back at its start.     *)
CharacterEnds ==
  CheckY /\ (pc = "check y" => ~(y >= Rows)) /\ pc \in {"check y", "home y"}

(* It is the terminal's step for the character that is done.               *)
LEMMA CharacterKept ==
  ASSUME TInv, CharacterEnds
  PROVE  TInv' /\ \E c \in Chars \cup {Newline, Backspace} : Screen!Write(c)
         /\ shown'.cursor = shown.cursor
<1> DEFINE c == Head(rest)
<1>1. /\ ShownType /\ shown.cursor \in Nat
      /\ shown = [cells |-> shown.cells, pos |-> shown.pos,
                  cursor |-> shown.cursor]
  BY DEF TInv, ShownType
<1>2. /\ rest \in Seq(Chars \cup {Newline, Backspace}) /\ rest # <<>>
      /\ memory \in [Memory -> Contents]
      /\ pc = "check y" => DoingAt(pc)
      /\ pc = "home y" => WipingAt(pc)
  <2>1. CASE pc = "check y"
    <3>1. DoingAt(pc)
      BY <2>1, Phases DEF TerminalPlaces
    <3> QED BY <2>1, <3>1 DEF Doing, Printing, PageAt, BetweenChars
  <2>2. CASE pc = "home y"
    <3>1. WipingAt(pc)
      BY <2>2, Phases DEF InPage
    <3> QED BY <2>2, <3>1 DEF Wiping
  <2> QED BY <2>1, <2>2 DEF CharacterEnds
<1>3. c \in Chars \cup {Newline, Backspace}
      /\ Tail(rest) \in Seq(Chars \cup {Newline, Backspace})
  BY <1>2, HeadTailProperties
<1>4. /\ pc' = "next" /\ rest' = Tail(rest)
      /\ UNCHANGED <<x, memory, index, crtc, loaded, address>>
      /\ y' = IF pc = "check y" THEN y ELSE 0
      /\ shown' = [cells |-> [a \in Page |-> memory[a]],
                   pos |-> y' * Cols + x, cursor |-> shown.cursor]
  BY <1>1 DEF CharacterEnds, CheckY, Branch, Load, AddX, StoreX, StoreY,
              StoreCell, Goto, CharDone
<1>5. \/ /\ WrapRow(shown, c) < Rows
         /\ y' = WrapRow(shown, c) /\ x = WrapColumn(shown, c)
         /\ Same(memory, PutCells(shown, c))
      \/ /\ WrapRow(shown, c) >= Rows
         /\ y' = 0 /\ x = 0
         /\ \A a \in Page : memory[a] = Blank
  <2>1. CASE pc = "check y"
    <3>1. y = WrapRow(shown, c) /\ x = WrapColumn(shown, c)
          /\ Same(memory, PutCells(shown, c))
      BY <1>2, <2>1 DEF Doing, Position, PageAt
    <3>2. ~(WrapRow(shown, c) >= Rows)
      BY <2>1, <3>1 DEF CharacterEnds
    <3>3. WrapRow(shown, c) \in 0 .. Rows BY <1>1, PutPlace
    <3>4. WrapRow(shown, c) < Rows BY <3>2, <3>3, Sizes
    <3> QED BY <1>4, <2>1, <3>1, <3>4
  <2>2. CASE pc = "home y"
    <3>1. x = 0 /\ WrapRow(shown, c) >= Rows
          /\ BlankBelow(memory, First(Rows))
      BY <1>2, <2>2 DEF Wiping, WipedSoFar
    <3>2. \A a \in Page : a < First(Rows)
      BY Sizes DEF Page, First
    <3> QED BY <1>4, <2>2, <3>1, <3>2 DEF BlankBelow
  <2> QED BY <2>1, <2>2 DEF CharacterEnds
<1> HIDE DEF c
<1>6. /\ ShownType' /\ Screen!Write(c)
      /\ Row(shown') = y' /\ Column(shown') = x
      /\ Same(memory, shown'.cells)
  BY <1>1, <1>2, <1>3, <1>4, <1>5, CharacterShown
<1>7. Doing(shown', "next", x, y', loaded, address, memory, Tail(rest))
  BY <1>2, <1>3, <1>6
     DEF Doing, Printing, Position, Values, PageAt, TerminalPlaces,
         BetweenChars, Unmoved, CursorPlaces, BackspacePlaces
<1>8. CursorAt(pc, address, index, crtc)' BY <1>4, RegistersKept
<1>9. TInv' BY <1>4, <1>6, <1>7, <1>8 DEF TInv
<1> QED BY <1>3, <1>4, <1>6, <1>9

-----------------------------------------------------------------------------
(* The cursor's two registers, written one after the other, end up with    *)
(* the two bytes of the position.                                          *)

(* A position on the page is made of two bytes.                            *)
LEMMA TwoBytes ==
  ASSUME NEW p \in Page
  PROVE  /\ p % Byte \in Nat /\ (p \div Byte) % Byte \in Nat
         /\ ((p \div Byte) % Byte) * Byte + (p % Byte) = p
<1>1. p \in Nat /\ p < Byte * Byte
  <2>1. Rows * Cols \in Nat /\ Byte * Byte \in Nat
        /\ Rows * Cols <= Byte * Byte
    <3>1. PICK e \in Nat : Byte = Rows + e
      <4>1. Byte - Rows \in Nat /\ Byte = Rows + (Byte - Rows) BY Sizes
      <4> QED BY <4>1
    <3>2. PICK f \in Nat : Byte = Cols + f
      <4>1. Byte - Cols \in Nat /\ Byte = Cols + (Byte - Cols) BY Sizes
      <4> QED BY <4>1
    <3>3. Byte * Byte = Rows * Cols + Rows * f + e * Byte
          /\ Rows * Cols \in Nat /\ Rows * f \in Nat /\ e * Byte \in Nat
      <4>1. Byte * Byte = (Rows + e) * Byte BY <3>1
      <4>2. (Rows + e) * Byte = Rows * Byte + e * Byte
        BY <3>1, Sizes, SMT
      <4>3. Rows * Byte = Rows * (Cols + f) BY <3>2
      <4>4. Rows * (Cols + f) = Rows * Cols + Rows * f
        BY <3>2, Sizes, SMT
      <4>5. Rows * Cols \in Nat /\ Rows * f \in Nat /\ e * Byte \in Nat
        BY <3>1, <3>2, Sizes, SMT
      <4> QED BY <4>1, <4>2, <4>3, <4>4, <4>5, SMT
    <3> QED BY <3>3, Sizes, SMT
  <2> QED BY <2>1 DEF Page
<1>2. /\ p % Byte \in 0 .. (Byte - 1) /\ p \div Byte \in Nat
      /\ p = (p \div Byte) * Byte + (p % Byte)
  BY <1>1, Sizes, SMT
<1>3. p \div Byte < Byte
  <2>1. SUFFICES ASSUME p \div Byte >= Byte PROVE FALSE
    BY <1>2, Sizes
  <2>2. PICK e \in Nat : p \div Byte = Byte + e
    <3>1. (p \div Byte) - Byte \in Nat
          /\ p \div Byte = Byte + ((p \div Byte) - Byte)
      BY <1>2, <2>1, Sizes
    <3> QED BY <3>1
  <2>3. (p \div Byte) * Byte = Byte * Byte + e * Byte /\ e * Byte \in Nat
        /\ Byte * Byte \in Nat
    <3>1. (p \div Byte) * Byte = (Byte + e) * Byte BY <2>2
    <3>2. (Byte + e) * Byte = Byte * Byte + e * Byte /\ e * Byte \in Nat
          /\ Byte * Byte \in Nat
      BY <2>2, Sizes, SMT
    <3> QED BY <3>1, <3>2
  <2> QED BY <1>1, <1>2, <2>3, SMT
<1>4. (p \div Byte) % Byte = p \div Byte BY <1>2, <1>3, FitsByte
<1> QED BY <1>2, <1>4

(* cursor_update keeps the invariant, and at its end the cursor is at the  *)
(* position.                                                               *)
LEMMA CursorKept ==
  ASSUME TInv, CursorUpdate
  PROVE  TInv' /\ \/ UNCHANGED shown
                  \/ /\ UNCHANGED <<shown.cells, shown.pos>>
                     /\ shown'.cursor = shown.pos
<1>1. pc \in TerminalPlaces
  BY DEF CursorUpdate, Load, AddX, Select, WriteRegister, Goto,
         TerminalPlaces, BetweenChars
<1>2. DoingAt(pc) /\ ShownType
      /\ CursorAt(pc, address, index, crtc)
  BY <1>1, Phases DEF TInv
<1>3. crtc \in [low : Nat, high : Nat] BY <1>2 DEF CursorAt
<1>4. CASE pc \in {"argument y", "argument x", "select low", "select high"}
  <2>1. UNCHANGED <<shown, crtc>>
    BY <1>4 DEF CursorUpdate, Load, AddX, Select, WriteRegister, Goto, shared,
                local
  <2>2. DoingAt(pc)'
    BY <1>2, <1>4, CursorSteps
       DEF CursorUpdate, Load, AddX, Select, WriteRegister, Goto, shared, local
  <2>3. CursorAt(pc, address, index, crtc)'
    BY <1>2, <1>4
       DEF CursorUpdate, Load, AddX, Select, WriteRegister, Goto, shared,
           local, CursorAt
  <2> QED BY <1>2, <2>1, <2>2, <2>3 DEF TInv, ShownType
<1>5. CASE pc = "low"
  <2>1. /\ pc' = "select high"
        /\ crtc' = [crtc EXCEPT ![index] = address % Byte]
        /\ UNCHANGED <<shown, x, y, memory, index, rest, loaded, address>>
    BY <1>5 DEF CursorUpdate, Load, AddX, Select, WriteRegister, Goto, local
  <2>2. index = "low" /\ address = shown.pos
    BY <1>2, <1>5 DEF CursorAt, Doing, Values, CursorPlaces
  <2>3. address % Byte \in Nat BY <1>2, <2>2, TwoBytes, ShownPlace
  <2>4. crtc' \in [low : Nat, high : Nat] /\ crtc'.low = address % Byte
    BY <1>3, <2>1, <2>2, <2>3
  <2>5. CursorAt(pc, address, index, crtc)' BY <2>1, <2>4 DEF CursorAt
  <2>6. DoingAt(pc)'
    BY <1>2, <1>5, <2>1, CursorSteps
  <2> QED BY <1>2, <2>1, <2>5, <2>6 DEF TInv, ShownType
<1>6. CASE pc = "high"
  <2>1. /\ pc' = "idle"
        /\ crtc' = [crtc EXCEPT ![index] = (address \div Byte) % Byte]
        /\ UNCHANGED <<x, y, memory, index, rest, loaded, address>>
        /\ shown' = [shown EXCEPT !.cursor = Cursor(crtc')]
    BY <1>6 DEF CursorUpdate, Load, AddX, Select, WriteRegister, Goto, local
  <2>2. index = "high" /\ address = shown.pos /\ crtc.low = address % Byte
    BY <1>2, <1>6 DEF CursorAt, Doing, Values, CursorPlaces
  <2>3. address \in Page BY <1>2, <2>2, ShownPlace
  <2>4. /\ crtc' \in [low : Nat, high : Nat]
        /\ crtc'.low = address % Byte
        /\ crtc'.high = (address \div Byte) % Byte
    BY <1>3, <2>1, <2>2, <2>3, TwoBytes
  <2>5. Cursor(crtc') = address BY <2>3, <2>4, TwoBytes DEF Cursor
  <2>6. /\ shown' = [shown EXCEPT !.cursor = shown.pos]
        /\ shown.pos \in Nat
    BY <1>2, <2>1, <2>2, <2>5, ShownPlace DEF Page
  <2>7. /\ ShownType' /\ shown'.cells = shown.cells
        /\ shown'.pos = shown.pos /\ shown'.cursor = shown.pos
    BY <1>2, <2>6 DEF ShownType
  <2>8. DoingAt("idle")
    BY <1>2, <1>6, CursorSteps
  <2>9. Doing(shown', "idle", x, y, loaded, address, memory, rest)
    BY <2>7, <2>8
       DEF Doing, Position, Values, PageAt, Printing, TerminalPlaces,
           BetweenChars, Unmoved, CursorPlaces, BackspacePlaces, Row, Column
  <2>10. CursorAt(pc, address, index, crtc)' BY <2>1, <2>4 DEF CursorAt
  <2>11. TInv' BY <2>1, <2>7, <2>9, <2>10 DEF TInv
  <2> QED BY <2>7, <2>11
<1> QED
  BY <1>4, <1>5, <1>6
     DEF CursorUpdate, Load, AddX, Select, WriteRegister, Goto

-----------------------------------------------------------------------------
(* What a handler prints in one go, a message's beginning and the start.   *)

(* Put, Wrapped and Wiped, which are how a handler prints, lead where the  *)
(* terminal does.                                                          *)
LEMMA PutIsPut ==
  ASSUME ShownType, NEW c \in Chars \cup {Newline, Backspace},
         x = Column(shown), y = Row(shown),
         memory \in [Memory -> Contents], Same(memory, shown.cells)
  PROVE  /\ Put(c).x = PutColumn(shown, c) /\ Put(c).y = PutRow(shown, c)
         /\ Put(c).memory \in [Memory -> Contents]
         /\ Same(Put(c).memory, PutCells(shown, c))
<1>1. CASE c = Newline
  <2>1. Put(c) = At(0, y + 1, memory)
    BY <1>1, ConsoleAssumption DEF Put
  <2> QED BY <1>1, <2>1 DEF At, PutColumn, PutRow, PutCells
<1>2. CASE c = Backspace
  <2> DEFINE left == IF x = 0 THEN 0 ELSE x - 1
             cell == y * Cols + left
  <2>1. Put(c) = At(left, y, [memory EXCEPT ![cell] = Blank])
    BY <1>2, ConsoleAssumption DEF Put
  <2>2. left = PutColumn(shown, c) /\ y = PutRow(shown, c)
    BY <1>2, ConsoleAssumption DEF PutColumn, PutRow
  <2>3. cell = Row(shown) * Cols + PutColumn(shown, Backspace)
    BY <1>2, <2>2
  <2>4. cell \in Page BY <2>3, BackspaceCell
  <2>5. PutCells(shown, c) = [shown.cells EXCEPT ![cell] = Blank]
    BY <1>2, <2>3, ConsoleAssumption DEF PutCells
  <2> HIDE DEF left, cell
  <2>6. /\ [memory EXCEPT ![cell] = Blank] \in [Memory -> Contents]
        /\ Same([memory EXCEPT ![cell] = Blank], PutCells(shown, c))
    BY <2>4, <2>5, ShownPlace, PageInMemory DEF Same, Contents
  <2> QED BY <2>1, <2>2, <2>6 DEF At
<1>3. CASE c # Newline /\ c # Backspace
  <2>1. Put(c) = At(x + 1, y, [memory EXCEPT ![shown.pos] = c])
    BY <1>3, ShownPlace DEF Put
  <2>2. PutColumn(shown, c) = x + 1 /\ PutRow(shown, c) = y
        /\ PutCells(shown, c) = [shown.cells EXCEPT ![shown.pos] = c]
    BY <1>3 DEF PutColumn, PutRow, PutCells
  <2>3. /\ [memory EXCEPT ![shown.pos] = c] \in [Memory -> Contents]
        /\ Same([memory EXCEPT ![shown.pos] = c], PutCells(shown, c))
    BY <1>3, <2>2, ShownPlace, PageInMemory DEF Same, Contents
  <2> QED BY <2>1, <2>2, <2>3 DEF At
<1> QED BY <1>1, <1>2, <1>3

(* A handler's print between messages is the terminal's step for its       *)
(* character, with the cursor.                                             *)
LEMMA InterruptKept ==
  ASSUME TInv, pc = "idle", NEW c \in Keys, Interrupt(c)
  PROVE  TInv' /\ Screen!Write(c) /\ shown'.cursor = shown'.pos
<1> DEFINE s == Printed(c)
<1>1. /\ ShownType /\ x = Column(shown) /\ y = Row(shown)
      /\ rest \in Seq(Chars \cup {Newline, Backspace})
      /\ memory \in [Memory -> Contents] /\ Same(memory, shown.cells)
  <2>1. DoingAt(pc) /\ ShownType
    BY Phases DEF TInv, TerminalPlaces, BetweenChars
  <2> QED BY <2>1 DEF Doing, Position, PageAt, Printing, BetweenChars
<1>2. c \in Chars \cup {Newline, Backspace} BY ConsoleAssumption
<1>3. /\ Put(c).x = PutColumn(shown, c) /\ Put(c).y = PutRow(shown, c)
      /\ Put(c).memory \in [Memory -> Contents]
      /\ Same(Put(c).memory, PutCells(shown, c))
  BY <1>1, <1>2, PutIsPut
<1>4. LET w == Wrapped(Put(c))
      IN  /\ w.x = WrapColumn(shown, c) /\ w.y = WrapRow(shown, c)
          /\ w.memory = Put(c).memory
  BY <1>3 DEF Wrapped, At, WrapColumn, WrapRow
<1>5. s.memory \in [Memory -> Contents]
  BY <1>3, <1>4 DEF Printed, Wiped, At, Contents
<1>6. \/ /\ WrapRow(shown, c) < Rows
         /\ s.y = WrapRow(shown, c) /\ s.x = WrapColumn(shown, c)
         /\ Same(s.memory, PutCells(shown, c))
      \/ /\ WrapRow(shown, c) >= Rows
         /\ s.y = 0 /\ s.x = 0
         /\ \A a \in Page : s.memory[a] = Blank
  <2>1. WrapRow(shown, c) \in 0 .. Rows BY <1>1, PutPlace
  <2>2. CASE WrapRow(shown, c) >= Rows
    BY <1>4, <2>2, PageInMemory DEF Printed, Wiped, At
  <2>3. CASE ~(WrapRow(shown, c) >= Rows)
    <3>1. s = Wrapped(Put(c)) BY <1>4, <2>3 DEF Printed, Wiped
    <3>2. WrapRow(shown, c) < Rows BY <2>1, <2>3, Sizes
    <3> QED BY <1>3, <1>4, <3>1, <3>2
  <2> QED BY <2>2, <2>3
<1> HIDE DEF s
<1>7. s.y * Cols + s.x \in Page
  <2>1. s.y \in Nat /\ s.y < Rows /\ s.x \in 0 .. (Cols - 1)
    BY <1>1, <1>6, PutPlace, Sizes
  <2> QED BY <2>1, RowOnPage
<1>8. /\ x' = s.x /\ y' = s.y /\ memory' = s.memory
      /\ UNCHANGED <<pc, rest, loaded, address>>
      /\ shown' = [cells |-> [a \in Page |-> s.memory[a]],
                   pos |-> s.y * Cols + s.x, cursor |-> s.y * Cols + s.x]
      /\ crtc' = [low |-> (s.y * Cols + s.x) % Byte,
                  high |-> (s.y * Cols + s.x) \div Byte]
  BY DEF Interrupt, s, local
<1>9. s.y * Cols + s.x \in Nat BY <1>7 DEF Page
<1>10. /\ ShownType' /\ Screen!Write(c)
       /\ Row(shown') = s.y /\ Column(shown') = s.x
       /\ Same(s.memory, shown'.cells)
  BY <1>1, <1>2, <1>5, <1>6, <1>8, <1>9, CharacterShown
<1>11. Doing(shown', "idle", s.x, s.y, loaded, address, s.memory, rest)
  BY <1>1, <1>5, <1>10
     DEF Doing, Printing, Position, Values, PageAt, TerminalPlaces,
         BetweenChars, Unmoved, CursorPlaces, BackspacePlaces
<1>12. CursorAt(pc, address, index, crtc)'
  <2>1. /\ (s.y * Cols + s.x) % Byte \in Nat
        /\ (s.y * Cols + s.x) \div Byte \in Nat
    BY <1>9, Sizes, SMT
  <2> QED BY <1>8, <2>1 DEF CursorAt
<1>13. TInv' BY <1>8, <1>10, <1>11, <1>12 DEF TInv
<1> QED BY <1>8, <1>10, <1>13

(* A message begins with the page as it is.                                *)
LEMMA CallKept ==
  ASSUME TInv, NEW text \in Texts, Call(text)
  PROVE  TInv' /\ UNCHANGED shown
<1>1. /\ pc = "idle" /\ pc' = "next" /\ rest' = text
      /\ UNCHANGED <<shown, x, y, memory, index, crtc, loaded, address>>
  BY DEF Call, Goto, shared
<1>2. text \in Seq(Chars \cup {Newline, Backspace}) BY ConsoleAssumption
<1>3. DoingAt("idle")
  BY <1>1, Phases DEF TerminalPlaces, BetweenChars
<1>4. Doing(shown, "next", x, y, loaded, address, memory, text)
  BY <1>2, <1>3
     DEF Doing, Printing, Position, Values, PageAt, TerminalPlaces,
         BetweenChars, Unmoved, CursorPlaces, BackspacePlaces
<1>5. CursorAt(pc, address, index, crtc)' BY <1>1, RegistersKept
<1> QED BY <1>1, <1>4, <1>5 DEF TInv, ShownType

(* The page is blank at the start, and main prints nothing.                *)
LEMMA TInvAtStart == Init => TInv
<1> SUFFICES ASSUME Init PROVE TInv OBVIOUS
<1>1. 0 \in Page
  <2>1. 0 \in Nat /\ 0 < Rows /\ 0 \in 0 .. (Cols - 1) BY Sizes
  <2>2. 0 * Cols + 0 = 0 BY Sizes
  <2> QED BY <2>1, <2>2, RowOnPage
<1>2. ShownType BY <1>1 DEF Init, ShownType, Contents, Page
<1>3. Row(shown) = 0 /\ Column(shown) = 0
  <2>1. 0 \in Nat /\ 0 \in 0 .. (Cols - 1) /\ 0 * Cols + 0 = 0 BY Sizes
  <2> QED BY <2>1, RowAndColumn DEF Init, Row, Column
<1>4. <<>> \in Seq(Chars \cup {Newline, Backspace}) OBVIOUS
<1>5. memory \in [Memory -> Contents] /\ Same(memory, shown.cells)
  BY PageInMemory DEF Init, Contents, Same
<1>6. Doing(shown, "idle", 0, 0, 0, 0, memory, <<>>)
  BY <1>3, <1>4, <1>5
     DEF Doing, Printing, Position, Values, PageAt, TerminalPlaces,
         BetweenChars, Unmoved, CursorPlaces, BackspacePlaces
<1>7. CursorAt(pc, address, index, crtc) BY DEF Init, CursorAt
<1> QED BY <1>2, <1>6, <1>7 DEF TInv, Init

-----------------------------------------------------------------------------
(* Handlers print only where main prints nothing.                          *)
Undisturbed == Interruptible \subseteq {"idle"}

(* Every step keeps TInv, and is a step of the terminal or changes nothing *)
(* of what is shown.                                                       *)
LEMMA TerminalStep ==
  Undisturbed /\ TInv /\ [Next]_vars => TInv' /\ [Screen!Next]_(Screen!vars)
<1> SUFFICES ASSUME Undisturbed, TInv, [Next]_vars
             PROVE  TInv' /\ [Screen!Next]_(Screen!vars)
  OBVIOUS
<1>1. ASSUME UNCHANGED shown PROVE UNCHANGED Screen!vars
  BY <1>1 DEF Screen!vars
<1>2. CASE UNCHANGED vars
  BY <1>1, <1>2 DEF vars, shared, local, TInv, ShownType
<1>3. ASSUME NEW text \in Texts, Call(text)
      PROVE  TInv' /\ UNCHANGED shown
  BY <1>3, CallKept
<1>4. ASSUME NEW c \in Keys, Interrupt(c)
      PROVE  TInv' /\ Screen!Next
  <2>1. pc = "idle" BY <1>4 DEF Interrupt, Undisturbed
  <2>2. TInv' /\ Screen!Write(c) /\ shown'.cursor = shown'.pos
    BY <1>4, <2>1, InterruptKept
  <2>3. c \in Chars \cup {Newline, Backspace} BY ConsoleAssumption
  <2> QED BY <2>2, <2>3 DEF Screen!Next
<1>5. ASSUME CheckY PROVE TInv' /\ (UNCHANGED shown \/ Screen!Next)
  <2>1. CASE WipeStep BY <2>1, WipeKept
  <2>2. CASE FullPage BY <2>2, FullPageKept
  <2>3. CASE CharacterEnds
    BY <2>3, CharacterKept DEF Screen!Next
  <2> QED
    BY <1>5, <2>1, <2>2, <2>3 DEF WipeStep, FullPage, CharacterEnds
<1>6. ASSUME CursorUpdate PROVE TInv' /\ (UNCHANGED shown \/ Screen!Next)
  BY <1>6, CursorKept DEF Screen!Next
<1>7. ASSUME Main PROVE TInv' /\ (UNCHANGED shown \/ Screen!Next)
  BY <1>5, <1>6, <1>7, NextCharKept, NewlineKept, BackspaceKept, DefaultKept,
     CheckXKept DEF Main
<1> QED BY <1>1, <1>2, <1>3, <1>4, <1>7 DEF Next

(* A step of the terminal leaves the page blank from the next position on. *)
LEMMA TerminalKeepsBlank ==
  ASSUME ShownType, ShownType', BlankAhead, [Screen!Next]_(Screen!vars)
  PROVE  BlankAhead'
<1>1. CASE UNCHANGED <<shown.cells, shown.pos>>
  BY <1>1 DEF BlankAhead
<1>2. ASSUME NEW c \in Chars \cup {Newline, Backspace}, Screen!Write(c)
      PROVE  BlankAhead'
  <2>1. /\ shown.pos \in Page /\ shown.pos \in Nat /\ Page \subseteq Nat
        /\ shown.cells \in [Page -> Contents]
    BY ShownPlace DEF Page
  <2>2. ASSUME NEW contents, NEW p, Screen!Continue(contents, p),
               \A a \in Page : a >= p => contents[a] = Blank
        PROVE  BlankAhead'
    BY <2>2 DEF Screen!Continue, Screen!Page, Screen!EmptyPage, Page,
                BlankAhead
  <2>3. CASE Screen!Continue([shown.cells EXCEPT ![shown.pos] = c],
                             shown.pos + 1)
    <3>1. \A a \in Page : a >= shown.pos + 1
            => [shown.cells EXCEPT ![shown.pos] = c][a] = Blank
      BY <2>1 DEF BlankAhead
    <3> QED BY <2>2, <2>3, <3>1
  <2>4. CASE Screen!Continue(shown.cells, (shown.pos \div Cols + 1) * Cols)
    <3> DEFINE row == shown.pos \div Cols
               p == (row + 1) * Cols
    <3>1. /\ row \in Nat /\ shown.pos % Cols \in 0 .. (Cols - 1)
          /\ shown.pos = row * Cols + (shown.pos % Cols)
      BY <2>1, CellOf
    <3> HIDE DEF row
    <3>2. p = row * Cols + Cols /\ row * Cols \in Nat
      BY <3>1, Sizes, SMT
    <3>3. p \in Nat /\ p >= shown.pos BY <3>1, <3>2, Sizes
    <3> HIDE DEF p
    <3>4. ASSUME NEW a \in Page, a >= p PROVE shown.cells[a] = Blank
      <4>1. a >= shown.pos BY <2>1, <3>3, <3>4
      <4> QED BY <4>1 DEF BlankAhead
    <3> QED BY <2>2, <2>4, <3>4 DEF p, row
  <2>5. ASSUME NEW p, p = IF shown.pos % Cols = 0 THEN shown.pos
                          ELSE shown.pos - 1,
               Screen!Continue([shown.cells EXCEPT ![p] = Blank], p)
        PROVE  BlankAhead'
    <3>1. \A a \in Page : a >= p
            => [shown.cells EXCEPT ![p] = Blank][a] = Blank
      BY <2>1, <2>5 DEF BlankAhead
    <3> QED BY <2>2, <2>5, <3>1
  <2> QED BY <1>2, <2>3, <2>4, <2>5 DEF Screen!Write
<1> QED BY <1>1, <1>2 DEF Screen!Next, Screen!vars

(* What main has made of x, y, the page and the cursor's registers when it *)
(* is at any place of _sysprintf.                                          *)
THEOREM ConsoleInvariant == ASSUME Undisturbed PROVE Spec => []TInv
<1>1. TInv /\ [Next]_vars => TInv' BY TerminalStep
<1> QED BY <1>1, TInvAtStart, PTL DEF Spec

(* The loads and stores of _sysprintf and cursor_update, on a page of any  *)
(* size, are the terminal of Terminal.tla: characters, newlines and        *)
(* backspaces one after the other, the page wiped when it is full, the     *)
(* cursor at the next position when the message is complete.               *)
THEOREM ConsoleIsTerminal == ASSUME Undisturbed PROVE Spec => TerminalSpec
<1>1. Init => Screen!Init
  BY DEF Init, Screen!Init, Screen!EmptyPage, Screen!Page, Page
<1>2. TInv /\ [Next]_vars => TInv' /\ [Screen!Next]_(Screen!vars)
  BY TerminalStep
<1> QED BY <1>1, <1>2, TInvAtStart, PTL DEF Spec, TerminalSpec, Screen!Spec

(* The console never prints over text.                                     *)
THEOREM ConsoleBlankAhead == ASSUME Undisturbed PROVE Spec => []BlankAhead
<1>1. Init => BlankAhead BY DEF Init, BlankAhead
<1>2. TInv /\ BlankAhead /\ [Next]_vars => TInv' /\ BlankAhead'
  BY TerminalStep, TerminalKeepsBlank DEF TInv
<1> QED BY <1>1, <1>2, TInvAtStart, PTL DEF Spec
=============================================================================
