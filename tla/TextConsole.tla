----------------------------- MODULE TextConsole -----------------------------
(***************************************************************************)
(* What the kernel's text output promises: a grid of characters, filled    *)
(* from left to right and from top to bottom, whose rows move up by one    *)
(* when the last row is full or ended.                                     *)
(***************************************************************************)
EXTENDS Integers

CONSTANTS Rows, Cols, Glyphs, Blank

VARIABLES
  grid,    \* grid[r][c]: the character shown
  cursor   \* where the next one goes, as <<row, column>>

vars == <<grid, cursor>>

Row == 0 .. Rows - 1
Col == 0 .. Cols - 1
Empty == [r \in Row |-> [c \in Col |-> Blank]]

Init == grid = Empty /\ cursor = <<0, 0>>

RowsMovedUp(g) == [r \in Row |-> IF r = Rows - 1 THEN [c \in Col |-> Blank] ELSE g[r + 1]]

(* Go to the start of the next row of g, which is at the bottom if need be. *)
NextRow(g) ==
  IF cursor[1] = Rows - 1
    THEN grid' = RowsMovedUp(g) /\ cursor' = <<Rows - 1, 0>>
    ELSE grid' = g /\ cursor' = <<cursor[1] + 1, 0>>

Put(ch) ==
  LET g == [grid EXCEPT ![cursor[1]][cursor[2]] = ch]
  IN  IF cursor[2] = Cols - 1
        THEN NextRow(g)
        ELSE grid' = g /\ cursor' = <<cursor[1], cursor[2] + 1>>

Newline == NextRow(grid)

Next == Newline \/ \E ch \in Glyphs : Put(ch)

Spec == Init /\ [][Next]_vars
==============================================================================
