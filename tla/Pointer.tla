------------------------------- MODULE Pointer -------------------------------
(***************************************************************************)
(* The mouse pointer in text mode: class MouseToConsole of alsrc/kernel.cpp.*)
(*                                                                         *)
(* The pointer is a cell of the page whose two colours are exchanged: a    *)
(* move exchanges those of the old cell back and those of the new one.     *)
(* Text that is printed writes a cell's colours afresh.  The coordinates   *)
(* are of type int8_t: sums wrap before they are compared with the edges.  *)
(***************************************************************************)
EXTENDS Integers

CONSTANTS
  Rows, Cols,  \* 25 and 80
  Half         \* 128: an int8_t is one of -Half .. Half - 1

ASSUME PointerAssumption ==
  /\ Rows \in Nat \ {0} /\ Cols \in Nat \ {0} /\ Half \in Nat
  /\ Rows <= Half /\ Cols <= Half

VARIABLES
  x, y,     \* MouseToConsole::x, y
  inverted  \* the cells of the page whose colours are exchanged

pointerVars == <<x, y, inverted>>

Page == 0 .. (Rows * Cols - 1)

Offsets == (-Half) .. (Half - 1)

Cell(column, row) == Cols * row + column

(* MouseToConsole::MouseToConsole                                          *)
PointerInit ==
  /\ x = Cols \div 2 /\ y = Rows \div 2
  /\ inverted = {Cell(x, y)}

(* Conversion to int8_t.                                                   *)
Int8(n) == ((n + Half) % (2 * Half)) - Half

(* if(n >= size) n = size - 1; if(n < 0) n = 0;                            *)
Clamp(n, size) == IF n >= size THEN size - 1 ELSE IF n < 0 THEN 0 ELSE n

BadColumnNotClamped(xoffset) == Int8(x + xoffset)

Column(xoffset) == Clamp(Int8(x + xoffset), Cols)

Row(yoffset) == Clamp(Int8(y - yoffset), Rows)

(* The colours of a cell are exchanged.                                    *)
Exchange(cells, c) == IF c \in cells THEN cells \ {c} ELSE cells \cup {c}

BadOnMouseMoveNewCellOnly(xoffset, yoffset) ==
  /\ x' = Column(xoffset)
  /\ y' = Row(yoffset)
  /\ inverted' = Exchange(inverted, Cell(x', y'))

(* MouseToConsole::OnMouseMove                                             *)
OnMouseMove(xoffset, yoffset) ==
  /\ x' = Column(xoffset)
  /\ y' = Row(yoffset)
  /\ inverted' = Exchange(Exchange(inverted, Cell(x, y)), Cell(x', y'))

(* _sysprintf prints at cell c, or wipes the page.                         *)
Overprint(c) ==
  /\ inverted' = inverted \ {c}
  /\ UNCHANGED <<x, y>>

Wipe ==
  /\ inverted' = {}
  /\ UNCHANGED <<x, y>>

Moves == \E xoffset, yoffset \in Offsets : OnMouseMove(xoffset, yoffset)

Overwrites == Wipe \/ \E c \in Page : Overprint(c)

PointerNext == Moves \/ Overwrites

PointerSpec == PointerInit /\ [][PointerNext]_pointerVars

-----------------------------------------------------------------------------
(* The pointer stays on the page, and so does all it inverts, whatever the *)
(* mouse reports: x and y are compared with the edges only after the sums  *)
(* have wrapped.                                                           *)
PointerOnPage ==
  /\ x \in 0 .. (Cols - 1) /\ y \in 0 .. (Rows - 1)
  /\ inverted \subseteq Page

(* The cells that are not drawn as they should be: inverted without the    *)
(* pointer, or the pointer's cell when it is not.                          *)
Ghosts == (inverted \ {Cell(x, y)}) \cup ({Cell(x, y)} \ inverted)

(* Moves leave no trails and repair none: only text printed over the       *)
(* pointer makes a ghost, and only text printed over a ghost, or a wiped   *)
(* page, removes one.                                                      *)
GhostsOnlyFromText ==
  [][ \/ Ghosts' = Ghosts
      \/ UNCHANGED <<x, y>> /\ inverted' \subseteq inverted ]_pointerVars

(* The pointer moves the way the mouse does, up to the page's edge, as     *)
(* long as the sum is an int8_t: from any column and row if the offset is  *)
(* at most Half less the size of the page.  Beyond that the sum wraps and  *)
(* the pointer jumps to the opposite edge.                                 *)
Follows(xoffset, yoffset) ==
  /\ xoffset <= Half - Cols =>
       x' = IF x + xoffset < 0 THEN 0
            ELSE IF x + xoffset > Cols - 1 THEN Cols - 1 ELSE x + xoffset
  /\ yoffset >= Rows - Half =>
       y' = IF y - yoffset < 0 THEN 0
            ELSE IF y - yoffset > Rows - 1 THEN Rows - 1 ELSE y - yoffset

MovesFollowMouse ==
  [][ \A xoffset, yoffset \in Offsets :
        OnMouseMove(xoffset, yoffset) => Follows(xoffset, yoffset) ]_pointerVars

=============================================================================
