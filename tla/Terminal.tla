------------------------------ MODULE Terminal ------------------------------
(***************************************************************************)
(* What the text console shows, one character at a time: a page of cells   *)
(* filled from the top, wiped when it is full, with a blinking cursor that *)
(* is put where the next character goes when a message is complete.        *)
(*                                                                         *)
(* Console.tla, the model of _sysprintf in alsrc/kernel.cpp, implements    *)
(* this module.                                                            *)
(***************************************************************************)
EXTENDS Integers

CONSTANTS
  Rows, Cols,  \* the size of the page
  Chars,       \* printable characters
  Blank,       \* what an empty cell holds
  Newline,     \* '\n'
  Backspace    \* '\b'

VARIABLES
  cells,   \* the page
  pos,     \* where the next character goes
  cursor   \* where the cursor blinks

vars == <<cells, pos, cursor>>

Page == 0 .. (Rows * Cols - 1)

EmptyPage == [p \in Page |-> Blank]

Init ==
  /\ cells = EmptyPage
  /\ pos = 0
  /\ cursor = 0

(* The page goes on at p with these contents, or is full.                  *)
Continue(contents, p) ==
  IF p \in Page
  THEN cells' = contents /\ pos' = p
  ELSE cells' = EmptyPage /\ pos' = 0

Write(c) ==
  \/ c \in Chars /\ Continue([cells EXCEPT ![pos] = c], pos + 1)
  \/ c = Newline /\ Continue(cells, (pos \div Cols + 1) * Cols)
  \/ /\ c = Backspace
     /\ LET p == IF pos % Cols = 0 THEN pos ELSE pos - 1
        IN  Continue([cells EXCEPT ![p] = Blank], p)

Next ==
  \/ /\ \E c \in Chars \cup {Newline, Backspace} : Write(c)
     /\ cursor' \in {cursor, pos'}
  \/ cursor' = pos /\ UNCHANGED <<cells, pos>>

Spec == Init /\ [][Next]_vars
=============================================================================
