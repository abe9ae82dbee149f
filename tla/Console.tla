------------------------------ MODULE Console ------------------------------
(***************************************************************************)
(* The text console: _sysprintf of alsrc/kernel.cpp and cursor_update of   *)
(* alinc/system/cursor.h.                                                  *)
(*                                                                         *)
(* Main prints messages; handlers of interrupts print too (putchar of the  *)
(* keyboard's characters).  Both use the static variables x and y, the     *)
(* video memory and the index register of the CRT controller.  A handler   *)
(* runs with interrupts disabled and is one step.  Main can be interrupted *)
(* anywhere: its steps are single loads and stores of what they share, as  *)
(* the build without optimisation emits them.                              *)
(***************************************************************************)
EXTENDS Integers, Sequences

CONSTANTS
  Rows, Cols,     \* 25 and 80
  Byte,           \* 256
  Chars, Blank, Newline, Backspace,
  Texts,          \* the strings that main prints
  Keys,           \* the characters that handlers print
  Interruptible,  \* the places of main where interrupts are enabled
  MaxKeys         \* bound: interrupts during one message of main

ASSUME ConsoleAssumption ==
  /\ Rows \in Nat \ {0} /\ Cols \in Nat \ {0} /\ Byte \in Nat
  /\ Rows + 2 < Byte /\ Cols + 2 < Byte
  /\ MaxKeys \in Nat
  /\ Blank \notin Chars /\ Newline # Backspace
  /\ Texts \subseteq Seq(Chars \cup {Newline, Backspace})
  /\ Keys \subseteq Chars \cup {Newline, Backspace}

VARIABLES
  x, y,    \* _sysprintf: static uint8_t x, y
  memory,  \* the video memory, one entry per cell
  index,   \* the CRT controller's register selected through port 0x3D4
  crtc,    \* its registers 0x0F (cursor low) and 0x0E (cursor high)
  pc,      \* where main is
  rest,    \* what main still has to print, the current character first
  loaded,  \* the value that main's current statement has loaded
  address, \* the cell that main is about to write; cursor_update's pos
  keys,    \* interrupts left during this message
  shown    \* history: page, position and cursor after the last character

shared == <<x, y, memory, index, crtc>>
local == <<rest, loaded, address>>
vars == <<shared, pc, local, keys, shown>>

(* The page, and as much of the video memory behind it as can be reached.  *)
Page == 0 .. (Rows * Cols - 1)
Memory == 0 .. ((Rows + 1) * Cols)

Cursor(c) == c.high * Byte + c.low

Init ==
  /\ x = 0 /\ y = 0
  /\ memory = [a \in Memory |-> Blank]
  /\ index = "high"
  /\ crtc = [low |-> 0, high |-> 0]
  /\ pc = "idle"
  /\ rest = <<>> /\ loaded = 0 /\ address = 0
  /\ keys = 0
  /\ shown = [cells |-> [a \in Page |-> Blank], pos |-> 0, cursor |-> 0]

-----------------------------------------------------------------------------
(* Single loads and stores of main.                                        *)

Goto(from, to) == pc = from /\ pc' = to

Branch(from, condition, yes, no) ==
  /\ Goto(from, IF condition THEN yes ELSE no)
  /\ UNCHANGED <<shared, local, keys, shown>>

Load(value, from, to) ==
  /\ Goto(from, to)
  /\ loaded' = value
  /\ UNCHANGED <<shared, rest, address, keys, shown>>

(* The second load of 80*y+x, after that of y.                             *)
AddX(from, to) ==
  /\ Goto(from, to)
  /\ address' = loaded * Cols + x
  /\ UNCHANGED <<shared, rest, loaded, keys, shown>>

StoreX(value, from, to) ==
  /\ Goto(from, to)
  /\ x' = value % Byte
  /\ UNCHANGED <<y, memory, index, crtc, local, keys, shown>>

StoreY(value, from, to) ==
  /\ Goto(from, to)
  /\ y' = value % Byte
  /\ UNCHANGED <<x, memory, index, crtc, local, keys, shown>>

StoreCell(c, from, to) ==
  /\ Goto(from, to)
  /\ memory' = [memory EXCEPT ![address] = c]
  /\ UNCHANGED <<x, y, index, crtc, local, keys, shown>>

Select(register, from, to) ==
  /\ Goto(from, to)
  /\ index' = register
  /\ UNCHANGED <<x, y, memory, crtc, local, keys, shown>>

WriteRegister(value, from, to) ==
  /\ Goto(from, to)
  /\ crtc' = [crtc EXCEPT ![index] = value]
  /\ UNCHANGED <<x, y, memory, index, local, keys>>

-----------------------------------------------------------------------------
(* _sysprintf(str) as main runs it.                                        *)

Call(str) ==
  /\ Goto("idle", "next")
  /\ rest' = str
  /\ keys' = MaxKeys
  /\ UNCHANGED <<shared, loaded, address, shown>>

(* for(int i = 0; str[i] != '\0'; i++) switch(str[i])                      *)
NextChar ==
  /\ pc = "next"
  /\ pc' = IF rest = <<>> THEN "argument y"
           ELSE CASE Head(rest) = Newline -> "newline"
                  [] Head(rest) = Backspace -> "backspace"
                  [] OTHER -> "char"
  /\ UNCHANGED <<shared, local, keys, shown>>

(* case '\n': y++; x = 0;                                                  *)
NewlineCase ==
  \/ Load(y, "newline", "newline y")
  \/ StoreY(loaded + 1, "newline y", "newline x")
  \/ StoreX(0, "newline x", "check x")

(* case '\b': if(x <= 0) x = 0; else x -= 1; and the cell is blanked.      *)
BackspaceCase ==
  \/ Branch("backspace", x <= 0, "backspace 0", "backspace x")
  \/ StoreX(0, "backspace 0", "blank")
  \/ Load(x, "backspace x", "backspace x-1")
  \/ StoreX(loaded - 1, "backspace x-1", "blank")
  \/ Load(y, "blank", "blank x")
  \/ AddX("blank x", "blank cell")
  \/ StoreCell(Blank, "blank cell", "check x")

(* default: the character is stored; x++;                                  *)
DefaultCase ==
  \/ Load(y, "char", "char x")
  \/ AddX("char x", "char cell")
  \/ StoreCell(Head(rest), "char cell", "advance")
  \/ Load(x, "advance", "advance x")
  \/ StoreX(loaded + 1, "advance x", "check x")

BadCheckXTooLate ==
  \/ Branch("check x", x > Cols, "wrap", "check y")
  \/ Load(y, "wrap", "wrap y")
  \/ StoreY(loaded + 1, "wrap y", "wrap x")
  \/ StoreX(0, "wrap x", "check y")

BadCheckXKeepsX ==
  \/ Branch("check x", x >= Cols, "wrap", "check y")
  \/ Load(y, "wrap", "wrap y")
  \/ StoreY(loaded + 1, "wrap y", "check y")

(* if(x >= 80) { y++; x = 0; }                                             *)
CheckX ==
  \/ Branch("check x", x >= Cols, "wrap", "check y")
  \/ Load(y, "wrap", "wrap y")
  \/ StoreY(loaded + 1, "wrap y", "wrap x")
  \/ StoreX(0, "wrap x", "check y")

BadCharDoneSameChar(row) ==
  /\ rest' = rest
  /\ shown' = [shown EXCEPT !.cells = [a \in Page |-> memory[a]],
                            !.pos = row * Cols + x]
  /\ UNCHANGED <<memory, x, index, crtc, loaded, address, keys>>

(* The loop's next turn: the character is done.                            *)
CharDone(row) ==
  /\ rest' = Tail(rest)
  /\ shown' = [shown EXCEPT !.cells = [a \in Page |-> memory[a]],
                            !.pos = row * Cols + x]
  /\ UNCHANGED <<memory, x, index, crtc, loaded, address, keys>>

(* if(y >= 25): the page is wiped with x and y as the loops' variables,    *)
(* and both start over.                                                    *)
CheckY ==
  \/ /\ Goto("check y", IF y >= Rows THEN "wipe" ELSE "next")
     /\ IF y >= Rows
        THEN UNCHANGED <<shared, local, keys, shown>>
        ELSE CharDone(y) /\ UNCHANGED y
  \/ StoreY(0, "wipe", "wipe rows")
  \/ Branch("wipe rows", y < Rows, "wipe row", "home")
  \/ StoreX(0, "wipe row", "wipe cols")
  \/ Branch("wipe cols", x < Cols, "wipe cell", "row done")
  \/ Load(y, "wipe cell", "wipe cell x")
  \/ AddX("wipe cell x", "wipe store")
  \/ StoreCell(Blank, "wipe store", "col done")
  \/ Load(x, "col done", "col next")
  \/ StoreX(loaded + 1, "col next", "wipe cols")
  \/ Load(y, "row done", "row next")
  \/ StoreY(loaded + 1, "row next", "wipe rows")
  \/ StoreX(0, "home", "home y")
  \/ Goto("home y", "next") /\ y' = 0 /\ CharDone(0)

(* cursor_update(x, y)                                                     *)
CursorUpdate ==
  \/ Load(y, "argument y", "argument x")
  \/ AddX("argument x", "select low")
  \/ Select("low", "select low", "low")
  \/ WriteRegister(address % Byte, "low", "select high") /\ UNCHANGED shown
  \/ Select("high", "select high", "high")
  \/ /\ WriteRegister((address \div Byte) % Byte, "high", "idle")
     /\ shown' = [shown EXCEPT !.cursor = Cursor(crtc')]

Main ==
  \/ NextChar \/ NewlineCase \/ BackspaceCase \/ DefaultCase
  \/ CheckX \/ CheckY \/ CursorUpdate

-----------------------------------------------------------------------------
(* _sysprintf of one character as a handler runs it, in one go.            *)

At(column, row, contents) == [x |-> column, y |-> row, memory |-> contents]

Put(c) ==
  LET left == IF x = 0 THEN 0 ELSE x - 1
  IN  CASE c = Newline -> At(0, y + 1, memory)
        [] c = Backspace ->
             At(left, y, [memory EXCEPT ![y * Cols + left] = Blank])
        [] OTHER -> At(x + 1, y, [memory EXCEPT ![y * Cols + x] = c])

Wrapped(s) == IF s.x >= Cols THEN At(0, s.y + 1, s.memory) ELSE s

BadWipedHomeOnly(s) == IF s.y >= Rows THEN At(0, 0, s.memory) ELSE s

Wiped(s) ==
  IF s.y >= Rows
  THEN At(0, 0, [a \in Memory |-> IF a \in Page THEN Blank ELSE s.memory[a]])
  ELSE s

Printed(c) == Wiped(Wrapped(Put(c)))

Interrupt(c) ==
  LET s == Printed(c)
      at == s.y * Cols + s.x
  IN  /\ pc \in Interruptible
      /\ IF pc = "idle" THEN UNCHANGED keys
                        ELSE keys > 0 /\ keys' = keys - 1
      /\ x' = s.x /\ y' = s.y /\ memory' = s.memory
      /\ index' = "high"
      /\ crtc' = [low |-> at % Byte, high |-> at \div Byte]
      /\ shown' = [cells |-> [a \in Page |-> s.memory[a]],
                   pos |-> at, cursor |-> at]
      /\ UNCHANGED <<pc, local>>

Next ==
  \/ \E str \in Texts : Call(str)
  \/ Main
  \/ \E c \in Keys : Interrupt(c)

Spec == Init /\ [][Next]_vars /\ WF_vars(Main)

-----------------------------------------------------------------------------
Storing == {"char cell", "blank cell", "wipe store"}

(* Main and handlers share x and y without any lock, and main loads and    *)
(* stores them in steps that handlers get between.  Still neither variable *)
(* ever passes the end of the page by more than one, main stores only to   *)
(* cells of the page, and between messages both are back on the page.      *)
(* (Messages of main that contain a backspace are excepted: none does.)    *)
StaysOnPage ==
  /\ x \in 0 .. Cols /\ y \in 0 .. Rows
  /\ pc \in Storing => address \in Page
  /\ pc = "idle" => x < Cols /\ y < Rows

(* The console never prints over text: from the position of the next       *)
(* character on, the page is blank.                                        *)
BlankAhead ==
  \A a \in Page : a >= shown.pos => shown.cells[a] = Blank

(* A message comes to its end, though handlers move x and y while main     *)
(* uses them as the variables of the loops that wipe the page.             *)
MessageEnds == pc # "idle" ~> pc = "idle"

(* The console is a terminal: whatever main's loads and stores and a       *)
(* handler's print make of x, y, the page and the cursor's registers is    *)
(* what Terminal.tla says of the characters printed.                       *)
Screen ==
  INSTANCE Terminal WITH cells <- shown.cells, pos <- shown.pos,
                         cursor <- shown.cursor

TerminalSpec == Screen!Spec

=============================================================================
