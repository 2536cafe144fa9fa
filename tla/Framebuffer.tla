----------------------------- MODULE Framebuffer -----------------------------
(***************************************************************************)
(* Text output as graphics.c does it: characters painted into a linear     *)
(* framebuffer, one cursor index, and scrolling by copying pixels.         *)
(*                                                                         *)
(* A character is painted over a square of Cell pixels (8 * scale in the   *)
(* code); what matters of the font is which character a pixel belongs to   *)
(* and which part of it.  The lines of the framebuffer are PixelsPerScan-  *)
(* Line long, of which the last ones, the back porch, are off the screen.  *)
(***************************************************************************)
EXTENDS Integers

CONSTANTS
  HorizontalResolution, VerticalResolution, PixelsPerScanLine,
  Cell,       \* width and height of a character in pixels
  Glyphs,     \* the characters printed
  Blank       \* the empty screen position of TextConsole

rowSize == VerticalResolution \div Cell
colSize == HorizontalResolution \div Cell

ASSUME FramebufferAssumption ==
  /\ HorizontalResolution \in Nat /\ VerticalResolution \in Nat /\ Cell \in Nat \ {0}
  /\ PixelsPerScanLine \in Nat /\ HorizontalResolution <= PixelsPerScanLine
  /\ Cell <= HorizontalResolution /\ 2 * Cell <= VerticalResolution
  /\ Blank \notin Glyphs

VARIABLES
  frame,   \* the pixels, by their place in the framebuffer
  index,   \* the cursor: cells from the top left corner
  ready    \* has InitializeDisplay run?

vars == <<frame, index, ready>>

Pixel == 0 .. PixelsPerScanLine * VerticalResolution - 1
Line(a) == a \div PixelsPerScanLine
Column(a) == a % PixelsPerScanLine

Background == <<"background">>
Noise == <<"noise">>   \* what the firmware left
Part(ch, a) == <<ch, Column(a) % Cell, Line(a) % Cell>>

InCell(a, r, c) == Line(a) \div Cell = r /\ Column(a) \div Cell = c

Init ==
  /\ frame = [a \in Pixel |-> Noise]
  /\ index = 0
  /\ ready = FALSE

(* Every pixel of the screen, but none of the porch. *)
ColorScreen ==
  [a \in Pixel |-> IF Column(a) < HorizontalResolution THEN Background ELSE frame[a]]

InitializeDisplay ==
  /\ ~ready
  /\ frame' = ColorScreen
  /\ index' = 0
  /\ ready' = TRUE

(***************************************************************************)
(* The copy runs upwards from the first pixel and reads one text row ahead *)
(* of what it writes; it counts the screen's pixels, not the framebuffer's,*)
(* and so stops short of the framebuffer's end by a porch for each line.   *)
(***************************************************************************)
(* Slip: one line short of a text row. *)
shortIncrementation == PixelsPerScanLine * (Cell - 1)

incrementation == PixelsPerScanLine * Cell
ScrolledPixels == VerticalResolution * HorizontalResolution
ScrollUp(f) ==
  [a \in Pixel |->
     IF a < ScrolledPixels - incrementation THEN f[a + incrementation]
     ELSE IF a < ScrolledPixels THEN Background
     ELSE f[a]]

Painted(ch) ==
  [a \in Pixel |->
     IF InCell(a, index \div colSize, index % colSize) THEN Part(ch, a) ELSE frame[a]]

PrintCharacter(ch) ==
  /\ ready
  /\ IF index = rowSize * colSize - 1
       THEN frame' = ScrollUp(Painted(ch)) /\ index' = (rowSize - 1) * colSize
       ELSE frame' = Painted(ch) /\ index' = index + 1
  /\ UNCHANGED ready

(* Slip: down a row, but not back to its start. *)
LineFeedOnly ==
  /\ ready
  /\ IF index \div colSize >= rowSize - 1
       THEN frame' = ScrollUp(frame) /\ index' = colSize * (rowSize - 1)
       ELSE index' = index + colSize /\ UNCHANGED frame
  /\ UNCHANGED ready

(* A newline in PrintString. *)
PrintNewline ==
  /\ ready
  /\ IF index \div colSize >= rowSize - 1
       THEN frame' = ScrollUp(frame) /\ index' = colSize * (rowSize - 1)
       ELSE index' = (index \div colSize + 1) * colSize /\ UNCHANGED frame
  /\ UNCHANGED ready

Next ==
  \/ InitializeDisplay
  \/ PrintNewline
  \/ \E ch \in Glyphs : PrintCharacter(ch)

Spec == Init /\ [][Next]_vars

------------------------------------------------------------------------------
Row == 0 .. rowSize - 1
Col == 0 .. colSize - 1
PixelValue == {Background, Noise} \cup (Glyphs \X (0 .. Cell - 1) \X (0 .. Cell - 1))

TypeOK ==
  /\ frame \in [Pixel -> PixelValue]
  /\ index \in 0 .. rowSize * colSize - 1
  /\ ready \in BOOLEAN

CellPixels(r, c) == {a \in Pixel : InCell(a, r, c)}

(* The character a position of the screen shows, whole and upright. *)
Shows(r, c, ch) ==
  \A a \in CellPixels(r, c) : frame[a] = IF ch = Blank THEN Background ELSE Part(ch, a)

(***************************************************************************)
(* Scrolling reaches every row of text: there is no porch, or the lines    *)
(* left over below the last row make up for it.  (Where it does not, the   *)
(* last row is cut off and what scrolls is half a character.)              *)
(***************************************************************************)
PorchFits == rowSize * Cell * PixelsPerScanLine <= ScrolledPixels

(***************************************************************************)
(* As long as scrolling reaches every row, every position shows one whole  *)
(* character or nothing, and the lines and columns that are no part of any *)
(* position stay empty: scrolling by pixels never leaves half a row behind,*)
(* brings the porch onto the screen, or lets the lines left over below the *)
(* last row creep up.                                                      *)
(***************************************************************************)
ScreenIsText ==
  PorchFits /\ ready =>
    /\ \A r \in Row, c \in Col : \E ch \in Glyphs \cup {Blank} : Shows(r, c, ch)
    /\ \A a \in Pixel :
         /\ Column(a) < HorizontalResolution
         /\ Line(a) >= rowSize * Cell \/ Column(a) >= colSize * Cell
         => frame[a] = Background

(***************************************************************************)
(* Where PorchFits, the framebuffer implements the grid of characters.     *)
(* Before the display is initialised the grid counts as empty.             *)
(***************************************************************************)
absGrid ==
  [r \in Row |-> [c \in Col |->
     IF ready /\ \E ch \in Glyphs : Shows(r, c, ch)
       THEN CHOOSE ch \in Glyphs : Shows(r, c, ch) ELSE Blank]]
absCursor == <<index \div colSize, index % colSize>>

Text == INSTANCE TextConsole WITH
          Rows <- rowSize, Cols <- colSize, grid <- absGrid, cursor <- absCursor

ImplementsTextConsole == Text!Spec
==============================================================================
