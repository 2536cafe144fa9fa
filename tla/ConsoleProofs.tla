---------------------------- MODULE ConsoleProofs ----------------------------
(***************************************************************************)
(* graphics.c.  The screen as text, for every resolution, size of the      *)
(* characters and font: a framebuffer whose scrolling reaches every row    *)
(* (one without a back porch, say) shows a grid of whole characters, and   *)
(* printing into it is printing into the grid of TextConsole.  Then PrintString, for every  *)
(* format and width: its two passes over the format agree on the arguments,*)
(* and the digits it prints of a number are those of the number.           *)
(***************************************************************************)
EXTENDS Framebuffer, PrintString, WellFoundedInduction, SequenceTheorems, TLAPS

------------------------------------------------------------------------------
(* Division. *)

LEMMA Divided ==
  ASSUME NEW n \in Nat \ {0}, NEW x \in Nat
  PROVE  x \div n \in Nat /\ x % n \in 0 .. n - 1 /\ x = n * (x \div n) + (x % n)
  BY SMT

LEMMA QuotientUnique ==
  ASSUME NEW n \in Nat \ {0}, NEW q \in Nat, NEW r \in 0 .. n - 1
  PROVE  (n * q + r) \div n = q /\ (n * q + r) % n = r
<1>1. PICK x \in Nat : x = n * q + r
  BY SMT
<1>2. PICK p \in Nat, s \in 0 .. n - 1 : p = x \div n /\ s = x % n /\ x = n * p + s
  BY <1>1, Divided
<1>3. p = q
  <2>1. n * (p - q) = r - s
    BY <1>1, <1>2, SMT
  <2>2. p > q => n * (p - q) >= n
    BY SMT
  <2>3. p < q => n * (q - p) >= n /\ n * (p - q) = -(n * (q - p))
    BY SMT
  <2> QED
    BY <2>1, <2>2, <2>3, SMT
<1> QED
  BY <1>1, <1>2, <1>3, SMT

LEMMA QuotientShift ==
  ASSUME NEW n \in Nat \ {0}, NEW x \in Nat, NEW k \in Nat
  PROVE  (x + n * k) \div n = x \div n + k /\ (x + n * k) % n = x % n
<1>1. PICK p \in Nat, s \in 0 .. n - 1 : p = x \div n /\ s = x % n /\ x = n * p + s
  BY Divided
<1>2. x + n * k = n * (p + k) + s
  BY <1>1, SMT
<1>3. (n * (p + k) + s) \div n = p + k /\ (n * (p + k) + s) % n = s
  BY QuotientUnique
<1> QED
  BY <1>1, <1>2, <1>3

(* Multiples of n separate what lies below from what lies above.            *)
LEMMA QuotientBound ==
  ASSUME NEW n \in Nat \ {0}, NEW x \in Nat, NEW k \in Nat
  PROVE  x < n * k <=> x \div n < k
<1>1. PICK p \in Nat, s \in 0 .. n - 1 : p = x \div n /\ s = x % n /\ x = n * p + s
  BY Divided
<1>2. p < k => n * (k - p) >= n /\ n * (k - p) = n * k - n * p
  BY SMT
<1>3. p >= k => n * (p - k) >= 0 /\ n * (p - k) = n * p - n * k
  BY SMT
<1> QED
  BY <1>1, <1>2, <1>3, SMT

------------------------------------------------------------------------------
(* Pixels, and the rows and columns of characters they lie in. *)

TextRow(a) == Line(a) \div Cell
TextCol(a) == Column(a) \div Cell

LEMMA SizesKnown ==
  /\ PixelsPerScanLine \in Nat \ {0} /\ VerticalResolution \in Nat /\ Cell \in Nat \ {0}
  /\ rowSize \in Nat /\ rowSize >= 2 /\ colSize \in Nat /\ colSize >= 1
  /\ Cell * rowSize <= VerticalResolution /\ VerticalResolution < Cell * rowSize + Cell
  /\ Cell * colSize <= HorizontalResolution
<1>1. /\ PixelsPerScanLine \in Nat \ {0} /\ VerticalResolution \in Nat /\ Cell \in Nat \ {0}
      /\ HorizontalResolution \in Nat
  BY FramebufferAssumption
<1>2. /\ rowSize \in Nat /\ VerticalResolution = Cell * rowSize + (VerticalResolution % Cell)
      /\ VerticalResolution % Cell \in 0 .. Cell - 1
  BY <1>1, Divided DEF rowSize
<1>3. /\ colSize \in Nat /\ HorizontalResolution = Cell * colSize + (HorizontalResolution % Cell)
      /\ HorizontalResolution % Cell \in 0 .. Cell - 1
  BY <1>1, Divided DEF colSize
<1>4. ~(VerticalResolution \div Cell < 2) /\ ~(HorizontalResolution \div Cell < 1)
  <2>1. ~(VerticalResolution < Cell * 2) /\ ~(HorizontalResolution < Cell * 1)
    BY FramebufferAssumption
  <2> QED
    BY <1>1, <2>1, QuotientBound
<1>5. rowSize >= 2 /\ colSize >= 1
  BY <1>2, <1>3, <1>4 DEF rowSize, colSize
<1>6. Cell * rowSize \in Nat /\ Cell * colSize \in Nat
  BY <1>1, <1>2, <1>3
<1> QED
  BY <1>1, <1>2, <1>3, <1>5, <1>6

LEMMA PixelPlace ==
  ASSUME NEW a \in Pixel
  PROVE  /\ a \in Nat
         /\ Line(a) \in 0 .. VerticalResolution - 1 /\ Column(a) \in 0 .. PixelsPerScanLine - 1
         /\ TextRow(a) \in 0 .. rowSize /\ TextCol(a) \in Nat
         /\ Line(a) % Cell \in 0 .. Cell - 1 /\ Column(a) % Cell \in 0 .. Cell - 1
<1>1. a \in Nat /\ a < PixelsPerScanLine * VerticalResolution
  BY SizesKnown DEF Pixel
<1>2. Line(a) \in Nat /\ Column(a) \in 0 .. PixelsPerScanLine - 1
  BY <1>1, SizesKnown, Divided DEF Line, Column
<1>3. Line(a) < VerticalResolution
  BY <1>1, SizesKnown, QuotientBound DEF Line
<1>4. TextRow(a) \in Nat /\ TextCol(a) \in Nat
        /\ Line(a) % Cell \in 0 .. Cell - 1 /\ Column(a) % Cell \in 0 .. Cell - 1
  <2>1. Column(a) \in Nat
    BY <1>2, SizesKnown
  <2> QED
    BY <1>2, <2>1, SizesKnown, Divided DEF TextRow, TextCol
<1>5. TextRow(a) < rowSize + 1
  <2>1. Line(a) < Cell * (rowSize + 1)
    BY <1>2, <1>3, SizesKnown
  <2> QED
    BY <1>2, <2>1, SizesKnown, QuotientBound DEF TextRow
<1> QED
  BY <1>1, <1>2, <1>3, <1>4, <1>5, SizesKnown

(* The first pixel of every position of the screen.                         *)
LEMMA PositionHasPixel ==
  ASSUME NEW r \in Row, NEW c \in Col
  PROVE  \E a \in Pixel : TextRow(a) = r /\ TextCol(a) = c
<1>1. PICK l \in Nat, k \in Nat : l = Cell * r /\ k = Cell * c
  BY SizesKnown DEF Row, Col
<1>2. l < VerticalResolution /\ k < PixelsPerScanLine
  <2>1. r + 1 <= rowSize /\ c + 1 <= colSize /\ r \in Nat /\ c \in Nat
    BY SizesKnown DEF Row, Col
  <2>2. Cell * (rowSize - r) >= Cell /\ Cell * (colSize - c) >= Cell
    BY <2>1, SizesKnown, SMT
  <2>3. Cell * (rowSize - r) = Cell * rowSize - Cell * r
          /\ Cell * (colSize - c) = Cell * colSize - Cell * c
    BY <2>1, SizesKnown, SMT
  <2>4. Cell * rowSize \in Nat /\ Cell * colSize \in Nat
    BY SizesKnown
  <2> QED
    BY <1>1, <2>2, <2>3, <2>4, SizesKnown, FramebufferAssumption
<1>3. PICK a \in Nat : a = PixelsPerScanLine * l + k
  BY SizesKnown, SMT
<1>4. a \div PixelsPerScanLine = l /\ a % PixelsPerScanLine = k
  <2>1. k \in 0 .. PixelsPerScanLine - 1
    BY <1>2, SizesKnown
  <2> QED
    BY <1>3, <2>1, SizesKnown, QuotientUnique
<1>5. a \in Pixel
  <2>1. a < PixelsPerScanLine * VerticalResolution
    BY <1>2, <1>4, SizesKnown, QuotientBound
  <2>2. PixelsPerScanLine * VerticalResolution \in Nat
    BY SizesKnown
  <2> QED
    BY <2>1, <2>2 DEF Pixel
<1>6. (Cell * r + 0) \div Cell = r /\ (Cell * c + 0) \div Cell = c
  <2>1. r \in Nat /\ c \in Nat /\ 0 \in 0 .. Cell - 1
    BY SizesKnown DEF Row, Col
  <2> QED
    BY <2>1, SizesKnown, QuotientUnique
<1>7. TextRow(a) = r /\ TextCol(a) = c
  BY <1>1, <1>4, <1>6 DEF TextRow, TextCol, Line, Column
<1> QED
  BY <1>5, <1>7

(* Scrolling fetches a pixel from the same place one text row down; those  *)
(* it clears lie in the last row or below it, and those it leaves below.   *)
LEMMA OneRowDown ==
  ASSUME PorchFits, NEW a \in Pixel
  PROVE  /\ a < ScrolledPixels - incrementation =>
              /\ a + incrementation \in Pixel
              /\ Line(a + incrementation) = Line(a) + Cell
              /\ Column(a + incrementation) = Column(a)
         /\ ~(a < ScrolledPixels - incrementation) => TextRow(a) >= rowSize - 1
         /\ ~(a < ScrolledPixels) => TextRow(a) >= rowSize
<1>1. PICK w \in Nat \ {0} : w = PixelsPerScanLine
  BY SizesKnown
<1>2. /\ rowSize \in Nat /\ rowSize - 1 \in Nat /\ Cell \in Nat \ {0}
      /\ a \in Nat /\ Line(a) \in Nat /\ Line(a) = a \div w /\ Column(a) = a % w
  BY <1>1, PixelPlace, SizesKnown DEF Line, Column
<1>3. PICK full \in Nat, most \in Nat : full = Cell * rowSize /\ most = Cell * (rowSize - 1)
  BY <1>2
<1>4. full = most + Cell
  BY <1>2, <1>3, SMT
<1>5. w * full = w * most + w * Cell /\ w * full \in Nat /\ w * most \in Nat /\ w * Cell \in Nat
  BY <1>2, <1>3, <1>4, SMT
<1>6. PICK top \in Nat, all \in Nat :
        top = ScrolledPixels /\ all = w * VerticalResolution /\ top <= all /\ w * full <= top
  <2>1. VerticalResolution * (PixelsPerScanLine - HorizontalResolution) >= 0
          /\ VerticalResolution * (PixelsPerScanLine - HorizontalResolution) =
               VerticalResolution * PixelsPerScanLine - VerticalResolution * HorizontalResolution
    BY FramebufferAssumption, SMT
  <2>2. VerticalResolution * PixelsPerScanLine = w * VerticalResolution
          /\ w * VerticalResolution \in Nat /\ VerticalResolution * HorizontalResolution \in Nat
    BY <1>1, FramebufferAssumption
  <2>3. rowSize * Cell * PixelsPerScanLine = w * full
    <3>1. rowSize * Cell = full
      BY <1>2, <1>3
    <3> QED
      BY <1>1, <1>3, <3>1
  <2> QED
    BY <1>1, <2>1, <2>2, <2>3 DEF ScrolledPixels, PorchFits
<1>7. incrementation = w * Cell
  BY <1>1 DEF incrementation
<1>8. (a + w * Cell) \div w = a \div w + Cell /\ (a + w * Cell) % w = a % w
  BY <1>1, <1>2, QuotientShift
<1>9. a < top - w * Cell => a + w * Cell \in Pixel
  BY <1>1, <1>2, <1>5, <1>6 DEF Pixel
<1>10. ~(a < top - w * Cell) => TextRow(a) >= rowSize - 1
  <2>1. a < w * most <=> Line(a) < most
    BY <1>1, <1>2, <1>3, QuotientBound
  <2>2. Line(a) < Cell * (rowSize - 1) <=> TextRow(a) < rowSize - 1
    BY <1>2, QuotientBound DEF TextRow
  <2> QED
    BY <1>2, <1>3, <1>5, <1>6, <2>1, <2>2, PixelPlace
<1>11. ~(a < top) => TextRow(a) >= rowSize
  <2>1. a < w * full <=> Line(a) < full
    BY <1>1, <1>2, <1>3, QuotientBound
  <2>2. Line(a) < Cell * rowSize <=> TextRow(a) < rowSize
    BY <1>2, QuotientBound DEF TextRow
  <2> QED
    BY <1>2, <1>3, <1>5, <1>6, <2>1, <2>2, PixelPlace
<1> QED
  BY <1>1, <1>2, <1>6, <1>7, <1>8, <1>9, <1>10, <1>11 DEF Line, Column

------------------------------------------------------------------------------
(* The frame as the picture of a grid of characters. *)

Grids == [Row -> [Col -> Glyphs \cup {Blank}]]

PixelOf(g, a) ==
  IF TextRow(a) \in Row /\ TextCol(a) \in Col /\ g[TextRow(a)][TextCol(a)] # Blank
    THEN Part(g[TextRow(a)][TextCol(a)], a) ELSE Background

Visible(a) == Column(a) < HorizontalResolution
Pictures(f, g) == g \in Grids /\ \A a \in Pixel : Visible(a) => f[a] = PixelOf(g, a)

IInv ==
  /\ TypeOK
  /\ ready => \E g : Pictures(frame, g)
  /\ ~ready => index = 0

(* The grid the refinement sees is the one in the picture, now and next.    *)
GridSeen == \A g : Pictures(frame, g) /\ ready => absGrid = g

LEMMA PartsApart ==
  ASSUME NEW ch, NEW other, NEW a
  PROVE  Part(ch, a) # Background /\ (Part(ch, a) = Part(other, a) => ch = other)
  BY DEF Part, Background

LEMMA PicturesShow ==
  ASSUME NEW g, Pictures(frame, g), NEW r \in Row, NEW c \in Col
  PROVE  /\ g[r][c] \in Glyphs \cup {Blank}
         /\ Shows(r, c, g[r][c])
         /\ \A ch \in Glyphs : Shows(r, c, ch) => ch = g[r][c]
<1>1. g[r][c] \in Glyphs \cup {Blank}
  BY DEF Pictures, Grids
<1>2. ASSUME NEW a \in CellPixels(r, c)
      PROVE  a \in Pixel /\ TextRow(a) = r /\ TextCol(a) = c /\ Visible(a)
  <2>1. a \in Pixel /\ TextRow(a) = r /\ TextCol(a) = c
    BY DEF CellPixels, InCell, TextRow, TextCol
  <2>2. Column(a) \in Nat /\ c < colSize /\ colSize \in Nat
    BY <2>1, PixelPlace, SizesKnown DEF Col
  <2>3. Column(a) < Cell * colSize
    BY <2>1, <2>2, SizesKnown, QuotientBound DEF TextCol
  <2>4. Cell * colSize \in Nat
    BY SizesKnown
  <2> QED
    BY <2>1, <2>2, <2>3, <2>4, SizesKnown, FramebufferAssumption DEF Visible
<1>3. \A a \in CellPixels(r, c) :
        frame[a] = IF g[r][c] # Blank THEN Part(g[r][c], a) ELSE Background
  BY <1>2 DEF Pictures, PixelOf
<1>4. Shows(r, c, g[r][c])
  BY <1>3 DEF Shows
<1>5. ASSUME NEW ch \in Glyphs, Shows(r, c, ch) PROVE ch = g[r][c]
  <2>1. PICK a \in Pixel : TextRow(a) = r /\ TextCol(a) = c
    BY PositionHasPixel
  <2>2. a \in CellPixels(r, c)
    BY <2>1 DEF CellPixels, InCell, TextRow, TextCol
  <2>3. ch # Blank
    BY FramebufferAssumption
  <2>4. frame[a] = Part(ch, a)
    BY <1>5, <2>2, <2>3 DEF Shows
  <2> QED
    BY <1>3, <2>2, <2>4, PartsApart
<1> QED
  BY <1>1, <1>4, <1>5

(* A picture shows its grid and nothing else, and so is the screen of it.   *)
LEMMA PictureIsText ==
  ASSUME NEW g, Pictures(frame, g)
  PROVE  ScreenIsText
<1>1. \A r \in Row, c \in Col : \E ch \in Glyphs \cup {Blank} : Shows(r, c, ch)
  BY PicturesShow
<1>2. ASSUME NEW a \in Pixel, Visible(a),
             Line(a) >= rowSize * Cell \/ Column(a) >= colSize * Cell
      PROVE  frame[a] = Background
  <2>1. Line(a) \in Nat /\ Column(a) \in Nat /\ TextRow(a) \in Nat /\ TextCol(a) \in Nat
    BY PixelPlace, SizesKnown
  <2>2. rowSize * Cell = Cell * rowSize /\ colSize * Cell = Cell * colSize
          /\ Cell * rowSize \in Nat /\ Cell * colSize \in Nat
    BY SizesKnown
  <2>3. Line(a) < Cell * rowSize <=> TextRow(a) < rowSize
    BY <2>1, SizesKnown, QuotientBound DEF TextRow
  <2>4. Column(a) < Cell * colSize <=> TextCol(a) < colSize
    BY <2>1, SizesKnown, QuotientBound DEF TextCol
  <2>5. TextRow(a) \notin Row \/ TextCol(a) \notin Col
    BY <1>2, <2>1, <2>2, <2>3, <2>4, SizesKnown DEF Row, Col
  <2> QED
    BY <1>2, <2>5 DEF Pictures, PixelOf
<1> QED
  BY <1>1, <1>2 DEF ScreenIsText, Visible

LEMMA PictureIsGrid ==
  ASSUME NEW g, Pictures(frame, g), ready
  PROVE  absGrid = g
<1>1. ASSUME NEW r \in Row, NEW c \in Col
      PROVE  (IF ready /\ \E ch \in Glyphs : Shows(r, c, ch)
                THEN CHOOSE ch \in Glyphs : Shows(r, c, ch) ELSE Blank) = g[r][c]
  <2>1. CASE g[r][c] \in Glyphs
    <3>1. \A ch \in Glyphs : Shows(r, c, ch) <=> ch = g[r][c]
      BY PicturesShow
    <3>2. \E ch \in Glyphs : Shows(r, c, ch)
      BY <2>1, <3>1
    <3>3. (CHOOSE ch \in Glyphs : Shows(r, c, ch)) = g[r][c]
      BY <3>1, <3>2
    <3> QED
      BY <3>2, <3>3
  <2>2. CASE g[r][c] \notin Glyphs
    <3>1. g[r][c] = Blank /\ ~\E ch \in Glyphs : Shows(r, c, ch)
      BY <2>2, PicturesShow
    <3> QED
      BY <3>1
  <2> QED
    BY <2>1, <2>2
<1>2. g = [r \in Row |-> [c \in Col |-> g[r][c]]]
  BY DEF Pictures, Grids
<1> QED
  BY <1>1, <1>2 DEF absGrid

LEMMA PictureIsSeen == GridSeen
  BY PictureIsGrid DEF GridSeen

LEMMA PictureSeenNext == GridSeen'
  BY PictureIsSeen, PTL

------------------------------------------------------------------------------
(* What painting and scrolling do to the grid. *)

LEMMA PaintedPicture ==
  ASSUME NEW g, Pictures(frame, g), NEW ch \in Glyphs,
         NEW r \in Row, NEW c \in Col, r = index \div colSize, c = index % colSize,
         NEW h, h = [g EXCEPT ![r][c] = ch]
  PROVE  Pictures(Painted(ch), h)
<1>1. ch # Blank
  BY FramebufferAssumption
<1>2. h \in Grids /\ \A i \in Row, j \in Col : h[i][j] = IF i = r /\ j = c THEN ch ELSE g[i][j]
  BY DEF Pictures, Grids
<1>3. ASSUME NEW a \in Pixel, Visible(a) PROVE Painted(ch)[a] = PixelOf(h, a)
  <2>1. Painted(ch)[a] = IF TextRow(a) = r /\ TextCol(a) = c THEN Part(ch, a) ELSE frame[a]
    BY DEF Painted, InCell, TextRow, TextCol
  <2>2. frame[a] = PixelOf(g, a)
    BY <1>3 DEF Pictures
  <2> QED
    BY <1>1, <1>2, <2>1, <2>2 DEF PixelOf
<1> QED
  BY <1>2, <1>3 DEF Pictures

LEMMA ScrolledPicture ==
  ASSUME PorchFits, NEW f, NEW g, Pictures(f, g)
  PROVE  Pictures(ScrollUp(f), Text!RowsMovedUp(g))
<1>1. PICK h : h = Text!RowsMovedUp(g)
  OBVIOUS
<1>2. Text!Row = Row /\ Text!Col = Col
  BY DEF Text!Row, Text!Col, Row, Col
<1>3. h \in Grids /\ \A i \in Row, j \in Col :
                        h[i][j] = IF i = rowSize - 1 THEN Blank ELSE g[i + 1][j]
  <2>1. h = [i \in Row |-> IF i = rowSize - 1 THEN [j \in Col |-> Blank] ELSE g[i + 1]]
    BY <1>1, <1>2 DEF Text!RowsMovedUp
  <2>2. \A i \in Row : i # rowSize - 1 => i + 1 \in Row
    BY SizesKnown DEF Row
  <2>3. \A i \in Row : (IF i = rowSize - 1 THEN [j \in Col |-> Blank] ELSE g[i + 1])
                         \in [Col -> Glyphs \cup {Blank}]
    BY <2>2 DEF Pictures, Grids
  <2> QED
    BY <2>1, <2>3 DEF Grids
<1>4. ASSUME NEW a \in Pixel, Visible(a) PROVE ScrollUp(f)[a] = PixelOf(h, a)
  <2>0. /\ Line(a) \in Nat /\ Line(a) < VerticalResolution /\ Column(a) \in Nat
        /\ TextRow(a) \in 0 .. rowSize /\ TextCol(a) \in Nat
    BY PixelPlace, SizesKnown
  <2>1. ScrollUp(f)[a] = IF a < ScrolledPixels - incrementation THEN f[a + incrementation]
                         ELSE IF a < ScrolledPixels THEN Background ELSE f[a]
    BY DEF ScrollUp
  <2>2. CASE a < ScrolledPixels - incrementation
    <3>1. PICK b \in Pixel : b = a + incrementation
      BY <2>2, OneRowDown
    <3>2. Line(b) = Line(a) + Cell /\ Column(b) = Column(a)
      BY <2>2, <3>1, OneRowDown
    <3>3. TextRow(b) = TextRow(a) + 1 /\ TextCol(b) = TextCol(a) /\ Line(b) % Cell = Line(a) % Cell
      <4>1. (Line(a) + Cell * 1) \div Cell = Line(a) \div Cell + 1
              /\ (Line(a) + Cell * 1) % Cell = Line(a) % Cell
        BY <2>0, SizesKnown, QuotientShift
      <4>2. Line(a) + Cell * 1 = Line(b)
        BY <3>2, SizesKnown
      <4> QED
        BY <3>2, <4>1, <4>2 DEF TextRow, TextCol
    <3>4. \A ch : Part(ch, b) = Part(ch, a)
      BY <3>2, <3>3 DEF Part
    <3>5. ScrollUp(f)[a] = PixelOf(g, b)
      BY <1>4, <2>1, <2>2, <3>1, <3>2 DEF Pictures, Visible
    <3>6. TextRow(b) \in Row <=> TextRow(a) \in Row /\ TextRow(a) # rowSize - 1
      BY <2>0, <3>3, SizesKnown DEF Row
    <3>7. CASE TextRow(b) \in Row /\ TextCol(a) \in Col
      <4>1. h[TextRow(a)][TextCol(a)] = g[TextRow(b)][TextCol(b)]
        BY <1>3, <3>3, <3>6, <3>7
      <4> QED
        BY <3>3, <3>4, <3>5, <3>6, <3>7, <4>1 DEF PixelOf
    <3>8. CASE ~(TextRow(b) \in Row /\ TextCol(a) \in Col)
      <4>1. PixelOf(g, b) = Background
        BY <3>3, <3>8 DEF PixelOf
      <4>2. PixelOf(h, a) = Background
        BY <1>3, <3>6, <3>8 DEF PixelOf
      <4> QED
        BY <3>5, <4>1, <4>2
    <3> QED
      BY <3>7, <3>8
  <2>3. CASE ~(a < ScrolledPixels - incrementation)
    <3>1. TextRow(a) \in Row => TextRow(a) = rowSize - 1
      BY <2>0, <2>3, OneRowDown, SizesKnown DEF Row
    <3>2. PixelOf(h, a) = Background
      BY <1>3, <3>1 DEF PixelOf
    <3>3. ~(a < ScrolledPixels) => PixelOf(g, a) = Background
      BY <2>0, OneRowDown, SizesKnown DEF Row, PixelOf
    <3>4. ~(a < ScrolledPixels) => f[a] = PixelOf(g, a)
      BY <1>4 DEF Pictures
    <3> QED
      BY <2>1, <2>3, <3>2, <3>3, <3>4
  <2> QED
    BY <2>2, <2>3
<1> QED
  BY <1>1, <1>3, <1>4 DEF Pictures

(* The cursor as a row and a column, and where it goes.                     *)
LEMMA CursorPlace ==
  ASSUME TypeOK
  PROVE  /\ index \in Nat /\ index \div colSize \in Row /\ index % colSize \in Col
         /\ index = colSize * (index \div colSize) + (index % colSize)
         /\ index = rowSize * colSize - 1 <=>
              index \div colSize = rowSize - 1 /\ index % colSize = colSize - 1
<1>0. index \in 0 .. rowSize * colSize - 1 /\ colSize \in Nat \ {0} /\ rowSize \in Nat \ {0}
  BY SizesKnown DEF TypeOK
<1>1. PICK r \in Nat, c \in 0 .. colSize - 1 :
        r = index \div colSize /\ c = index % colSize /\ index = colSize * r + c
  BY <1>0, Divided
<1>2. rowSize * colSize = colSize * rowSize /\ colSize * rowSize \in Nat
  BY <1>0
<1>3. r < rowSize
  BY <1>0, <1>1, <1>2, QuotientBound
<1>4. colSize * (rowSize - 1) = colSize * rowSize - colSize
  BY <1>0, SMT
<1>5. r <= rowSize - 1 => r = rowSize - 1 \/ r <= rowSize - 2
  BY <1>0, <1>1
<1>6. r <= rowSize - 2 => colSize * (rowSize - 1 - r) >= colSize
        /\ colSize * (rowSize - 1 - r) = colSize * (rowSize - 1) - colSize * r
  BY <1>0, <1>1, SMT
<1>7. index = rowSize * colSize - 1 <=> r = rowSize - 1 /\ c = colSize - 1
  <2>1. CASE r = rowSize - 1
    BY <1>0, <1>1, <1>2, <1>4, <2>1
  <2>2. CASE r # rowSize - 1
    <3>1. r <= rowSize - 2
      BY <1>0, <1>1, <1>3, <2>2
    <3>2. colSize * r + colSize <= colSize * rowSize - colSize
      BY <1>0, <1>1, <1>4, <1>6, <3>1
    <3> QED
      BY <1>0, <1>1, <1>2, <2>2, <3>2
  <2> QED
    BY <2>1, <2>2
<1> QED
  BY <1>0, <1>1, <1>3, <1>7 DEF Row, Col

LEMMA NextPlace ==
  ASSUME NEW r \in Row, NEW c \in Col
  PROVE  /\ colSize * r + c \in 0 .. rowSize * colSize - 1
         /\ (colSize * r + c) \div colSize = r /\ (colSize * r + c) % colSize = c
<1>0. colSize \in Nat \ {0} /\ rowSize \in Nat \ {0} /\ r \in 0 .. rowSize - 1
        /\ c \in 0 .. colSize - 1
  BY SizesKnown DEF Row, Col
<1>1. (colSize * r + c) \div colSize = r /\ (colSize * r + c) % colSize = c
  BY <1>0, QuotientUnique
<1>2. PICK x \in Nat : x = colSize * r + c
  BY <1>0, SMT
<1>3. x < colSize * rowSize
  BY <1>0, <1>1, <1>2, QuotientBound
<1>4. rowSize * colSize = colSize * rowSize /\ colSize * rowSize \in Nat
  BY <1>0
<1> QED
  BY <1>1, <1>2, <1>3, <1>4

(* The first position of a row, written either way round.                   *)
LEMMA RowStart ==
  ASSUME NEW r \in Row
  PROVE  /\ r * colSize = colSize * r /\ r * colSize \in 0 .. rowSize * colSize - 1
         /\ (r * colSize) \div colSize = r /\ (r * colSize) % colSize = 0
<1>1. r \in Nat /\ colSize \in Nat /\ 0 \in Col
  BY SizesKnown DEF Row, Col
<1>2. r * colSize = colSize * r + 0 /\ colSize * r \in Nat
  BY <1>1
<1>3. /\ colSize * r + 0 \in 0 .. rowSize * colSize - 1
      /\ (colSize * r + 0) \div colSize = r /\ (colSize * r + 0) % colSize = 0
  BY <1>1, NextPlace
<1> QED
  BY <1>1, <1>2, <1>3

------------------------------------------------------------------------------
(* Types. *)

LEMMA ScrolledType ==
  ASSUME NEW f \in [Pixel -> PixelValue]
  PROVE  ScrollUp(f) \in [Pixel -> PixelValue]
<1>1. Background \in PixelValue
  BY DEF PixelValue
<1>2. /\ PixelsPerScanLine * VerticalResolution \in Nat /\ incrementation \in Nat
      /\ ScrolledPixels \in Nat /\ ScrolledPixels <= PixelsPerScanLine * VerticalResolution
  <2>1. VerticalResolution * (PixelsPerScanLine - HorizontalResolution) >= 0
          /\ VerticalResolution * (PixelsPerScanLine - HorizontalResolution) =
               VerticalResolution * PixelsPerScanLine - VerticalResolution * HorizontalResolution
    BY FramebufferAssumption, SMT
  <2>2. VerticalResolution * PixelsPerScanLine = PixelsPerScanLine * VerticalResolution
          /\ PixelsPerScanLine * VerticalResolution \in Nat
          /\ VerticalResolution * HorizontalResolution \in Nat /\ PixelsPerScanLine * Cell \in Nat
    BY FramebufferAssumption
  <2> QED
    BY <2>1, <2>2 DEF ScrolledPixels, incrementation
<1>3. \A a \in Pixel : a < ScrolledPixels - incrementation => a + incrementation \in Pixel
  BY <1>2 DEF Pixel
<1> QED
  BY <1>1, <1>3 DEF ScrollUp

LEMMA PaintedType ==
  ASSUME TypeOK, NEW ch \in Glyphs
  PROVE  Painted(ch) \in [Pixel -> PixelValue]
<1>1. \A a \in Pixel : Part(ch, a) \in PixelValue
  BY PixelPlace DEF Part, PixelValue
<1> QED
  BY <1>1 DEF Painted, TypeOK

(***************************************************************************)
(* Printing does not depend on the screen's width being its pitch for the  *)
(* cursor to stay on the screen.                                           *)
(***************************************************************************)
LEMMA NextType == ASSUME TypeOK, [Next]_vars PROVE TypeOK'
<1>1. CASE InitializeDisplay
  <2>1. Background \in PixelValue /\ frame \in [Pixel -> PixelValue]
    BY DEF PixelValue, TypeOK
  <2>2. ColorScreen \in [Pixel -> PixelValue]
    BY <2>1 DEF ColorScreen
  <2>3. 0 \in 0 .. rowSize * colSize - 1
    BY CursorPlace, SizesKnown DEF TypeOK
  <2> QED
    BY <1>1, <2>2, <2>3 DEF InitializeDisplay, TypeOK
<1>2. rowSize - 1 \in Row
  BY SizesKnown DEF Row
<1>3. /\ (rowSize - 1) * colSize \in 0 .. rowSize * colSize - 1
      /\ (rowSize - 1) * colSize = colSize * (rowSize - 1)
  BY <1>2, RowStart
<1>4. CASE PrintNewline
  <2>1. PICK r \in Row : r = index \div colSize
    BY CursorPlace
  <2>2. r >= rowSize - 1 \/ r + 1 \in Row
    BY SizesKnown DEF Row
  <2>3. index' \in 0 .. rowSize * colSize - 1
    <3>1. CASE r >= rowSize - 1
      BY <1>3, <1>4, <2>1, <3>1 DEF PrintNewline
    <3>2. CASE ~(r >= rowSize - 1)
      BY <1>4, <2>1, <2>2, <3>2, RowStart DEF PrintNewline
    <3> QED
      BY <3>1, <3>2
  <2>4. frame' \in [Pixel -> PixelValue]
    BY <1>4, ScrolledType DEF PrintNewline, TypeOK
  <2> QED
    BY <1>4, <2>3, <2>4 DEF PrintNewline, TypeOK
<1>5. ASSUME NEW ch \in Glyphs, PrintCharacter(ch) PROVE TypeOK'
  <2>1. frame' \in [Pixel -> PixelValue]
    BY <1>5, PaintedType, ScrolledType DEF PrintCharacter
  <2>2. index' \in 0 .. rowSize * colSize - 1
    BY <1>3, <1>5, SizesKnown DEF PrintCharacter, TypeOK
  <2> QED
    BY <1>5, <2>1, <2>2 DEF PrintCharacter, TypeOK
<1>6. CASE UNCHANGED vars
  BY <1>6 DEF vars, TypeOK
<1> QED
  BY <1>1, <1>4, <1>5, <1>6 DEF Next

LEMMA InitType == Init => TypeOK
<1>1. 0 \in 0 .. rowSize * colSize - 1
  <2>1. colSize * 0 + 0 \in 0 .. rowSize * colSize - 1
    BY NextPlace, SizesKnown DEF Row, Col
  <2> QED
    BY <2>1, SizesKnown
<1> QED
  BY <1>1 DEF Init, TypeOK, PixelValue

(* The types, with or without a porch.                                      *)
THEOREM TypeCorrect == Spec => []TypeOK
  BY InitType, NextType, PTL DEF Spec

------------------------------------------------------------------------------
(* The steps: each changes the frame into the picture of TextConsole's next *)
(* grid, and the cursor likewise.                                           *)

LEMMA ClearedPicture ==
  ASSUME frame' = ColorScreen
  PROVE  Pictures(frame', Text!Empty)
<1>2. Text!Empty = [r \in Row |-> [c \in Col |-> Blank]]
  BY DEF Text!Empty, Text!Row, Text!Col, Row, Col
<1>3. Text!Empty \in Grids
  BY <1>2 DEF Grids
<1>4. \A a \in Pixel : PixelOf(Text!Empty, a) = Background
  BY <1>2 DEF PixelOf
<1> QED
  BY <1>3, <1>4 DEF ColorScreen, Pictures, Visible

LEMMA NewlinePicture ==
  ASSUME PorchFits, TypeOK, PrintNewline, NEW g, Pictures(frame, g)
  PROVE  \E h : /\ Pictures(frame', h)
                /\ absCursor[1] = rowSize - 1 =>
                     h = Text!RowsMovedUp(g) /\ absCursor' = <<rowSize - 1, 0>>
                /\ absCursor[1] # rowSize - 1 =>
                     h = g /\ absCursor' = <<absCursor[1] + 1, 0>>
<1>1. PICK r \in Row : r = index \div colSize /\ r = absCursor[1]
  BY CursorPlace DEF absCursor
<1>2. r \in 0 .. rowSize - 1 /\ rowSize \in Nat
  BY SizesKnown DEF Row
<1>3. CASE r = rowSize - 1
  <2>1. frame' = ScrollUp(frame) /\ index' = colSize * (rowSize - 1)
    BY <1>1, <1>2, <1>3 DEF PrintNewline
  <2>2. absCursor' = <<rowSize - 1, 0>>
    BY <1>3, <2>1, RowStart DEF absCursor
  <2>3. Pictures(frame', Text!RowsMovedUp(g))
    BY <2>1, ScrolledPicture
  <2> QED
    BY <1>1, <1>3, <2>2, <2>3
<1>4. CASE r # rowSize - 1
  <2>1. frame' = frame /\ index' = (r + 1) * colSize /\ r + 1 \in Row
    BY <1>1, <1>2, <1>4 DEF PrintNewline, Row
  <2>2. absCursor' = <<r + 1, 0>>
    BY <2>1, RowStart DEF absCursor
  <2> QED
    BY <1>1, <1>4, <2>1, <2>2
<1> QED
  BY <1>3, <1>4

LEMMA CharacterPicture ==
  ASSUME PorchFits, TypeOK, NEW ch \in Glyphs, PrintCharacter(ch), NEW g, Pictures(frame, g)
  PROVE  LET p == [g EXCEPT ![absCursor[1]][absCursor[2]] = ch]
         IN  \E h :
               /\ Pictures(frame', h)
               /\ absCursor[2] = colSize - 1 /\ absCursor[1] = rowSize - 1 =>
                    h = Text!RowsMovedUp(p) /\ absCursor' = <<rowSize - 1, 0>>
               /\ absCursor[2] = colSize - 1 /\ absCursor[1] # rowSize - 1 =>
                    h = p /\ absCursor' = <<absCursor[1] + 1, 0>>
               /\ absCursor[2] # colSize - 1 =>
                    h = p /\ absCursor' = <<absCursor[1], absCursor[2] + 1>>
<1>1. PICK r \in Row, c \in Col : /\ r = index \div colSize /\ c = index % colSize
                                  /\ r = absCursor[1] /\ c = absCursor[2]
  BY CursorPlace DEF absCursor
<1>2. PICK p : p = [g EXCEPT ![r][c] = ch] /\ p = [g EXCEPT ![absCursor[1]][absCursor[2]] = ch]
  BY <1>1
<1>3. Pictures(Painted(ch), p)
  BY <1>1, <1>2, PaintedPicture
<1>4. /\ r \in 0 .. rowSize - 1 /\ c \in 0 .. colSize - 1 /\ rowSize \in Nat /\ colSize \in Nat
      /\ index = colSize * r + c /\ colSize * r \in Nat
      /\ index = rowSize * colSize - 1 <=> r = rowSize - 1 /\ c = colSize - 1
  <2>1. r \in 0 .. rowSize - 1 /\ c \in 0 .. colSize - 1 /\ rowSize \in Nat /\ colSize \in Nat
    BY <1>1, SizesKnown DEF Row, Col
  <2>2. /\ index = colSize * r + c
        /\ index = rowSize * colSize - 1 <=> r = rowSize - 1 /\ c = colSize - 1
    BY <1>1, CursorPlace
  <2>3. colSize * r \in Nat
    BY <2>1
  <2> QED
    BY <2>1, <2>2, <2>3
<1>5. CASE r = rowSize - 1 /\ c = colSize - 1
  <2>1. frame' = ScrollUp(Painted(ch)) /\ index' = (rowSize - 1) * colSize
    BY <1>4, <1>5 DEF PrintCharacter
  <2>2. absCursor' = <<rowSize - 1, 0>>
    BY <1>5, <2>1, RowStart DEF absCursor
  <2>3. Pictures(frame', Text!RowsMovedUp(p))
    BY <1>3, <2>1, ScrolledPicture
  <2> QED
    BY <1>1, <1>2, <1>5, <2>2, <2>3
<1>6. CASE r # rowSize - 1 /\ c = colSize - 1
  <2>1. frame' = Painted(ch) /\ index' = index + 1 /\ r + 1 \in Row
    BY <1>4, <1>6 DEF PrintCharacter, Row
  <2>2. index + 1 = (r + 1) * colSize
    BY <1>4, <1>6
  <2>3. absCursor' = <<r + 1, 0>>
    BY <2>1, <2>2, RowStart DEF absCursor
  <2> QED
    BY <1>1, <1>2, <1>3, <1>6, <2>1, <2>3
<1>7. CASE c # colSize - 1
  <2>1. frame' = Painted(ch) /\ index' = index + 1 /\ c + 1 \in Col
    BY <1>4, <1>7 DEF PrintCharacter, Col
  <2>2. index + 1 = colSize * r + (c + 1)
    BY <1>4
  <2>3. absCursor' = <<r, c + 1>>
    BY <2>1, <2>2, NextPlace DEF absCursor
  <2> QED
    BY <1>1, <1>2, <1>3, <1>7, <2>1, <2>3
<1> QED
  BY <1>5, <1>6, <1>7

(* Before the display is initialised the grid counts as empty.              *)
LEMMA NothingSeen ==
  ASSUME ~ready, index = 0
  PROVE  absGrid = Text!Empty /\ absCursor = <<0, 0>>
<1>1. 0 \in Row
  BY SizesKnown DEF Row
<1>2. 0 * colSize = 0
  BY SizesKnown
<1>3. absCursor = <<0, 0>>
  BY <1>1, <1>2, RowStart DEF absCursor
<1> QED
  BY <1>3 DEF absGrid, Text!Empty, Text!Row, Text!Col, Row, Col

(* A step of the code, seen as one of the grid's.                           *)
LEMMA NextPicture ==
  ASSUME PorchFits, IInv, [Next]_vars
  PROVE  IInv' /\ [Text!Next]_Text!vars
<1>1. TypeOK /\ TypeOK'
  BY NextType DEF IInv
<1>2. CASE UNCHANGED vars
  <2>1. IInv'
    BY <1>1, <1>2 DEF vars, IInv, Pictures, PixelOf
  <2>2. UNCHANGED Text!vars
    BY <1>2 DEF vars, Text!vars, absGrid, absCursor, Shows
  <2> QED
    BY <2>1, <2>2
<1>3. CASE InitializeDisplay
  <2>1. Pictures(frame', Text!Empty) /\ ready' /\ index' = 0 /\ ~ready /\ index = 0
    BY <1>3, ClearedPicture DEF InitializeDisplay, IInv
  <2>2. IInv'
    BY <1>1, <2>1 DEF IInv
  <2>3. absGrid' = Text!Empty
    BY <2>1, PictureSeenNext DEF GridSeen
  <2>4. absCursor' = absCursor
    BY <2>1 DEF absCursor
  <2>5. UNCHANGED Text!vars
    BY <2>1, <2>3, <2>4, NothingSeen DEF Text!vars
  <2> QED
    BY <2>2, <2>5
<1>4. CASE PrintNewline
  <2>1. ready /\ ready' = ready
    BY <1>4 DEF PrintNewline
  <2>2. PICK g : Pictures(frame, g)
    BY <2>1 DEF IInv
  <2>3. absGrid = g
    BY <2>1, <2>2, PictureIsGrid
  <2>4. PICK h : /\ Pictures(frame', h)
                 /\ absCursor[1] = rowSize - 1 =>
                      h = Text!RowsMovedUp(g) /\ absCursor' = <<rowSize - 1, 0>>
                 /\ absCursor[1] # rowSize - 1 =>
                      h = g /\ absCursor' = <<absCursor[1] + 1, 0>>
    BY <1>1, <1>4, <2>2, NewlinePicture
  <2>5. absGrid' = h
    BY <2>1, <2>4, PictureSeenNext DEF GridSeen
  <2>6. Text!NextRow(absGrid)
    BY <2>3, <2>4, <2>5 DEF Text!NextRow
  <2>7. IInv'
    BY <1>1, <2>1, <2>4 DEF IInv
  <2> QED
    BY <2>6, <2>7 DEF Text!Next, Text!Newline
<1>5. ASSUME NEW ch \in Glyphs, PrintCharacter(ch)
      PROVE  IInv' /\ [Text!Next]_Text!vars
  <2>1. ready /\ ready' = ready
    BY <1>5 DEF PrintCharacter
  <2>2. PICK g : Pictures(frame, g)
    BY <2>1 DEF IInv
  <2>3. absGrid = g
    BY <2>1, <2>2, PictureIsGrid
  <2>4. PICK p : p = [g EXCEPT ![absCursor[1]][absCursor[2]] = ch]
    OBVIOUS
  <2>5. PICK h :
          /\ Pictures(frame', h)
          /\ absCursor[2] = colSize - 1 /\ absCursor[1] = rowSize - 1 =>
               h = Text!RowsMovedUp(p) /\ absCursor' = <<rowSize - 1, 0>>
          /\ absCursor[2] = colSize - 1 /\ absCursor[1] # rowSize - 1 =>
               h = p /\ absCursor' = <<absCursor[1] + 1, 0>>
          /\ absCursor[2] # colSize - 1 =>
               h = p /\ absCursor' = <<absCursor[1], absCursor[2] + 1>>
    BY <1>1, <1>5, <2>2, <2>4, CharacterPicture
  <2>6. absGrid' = h
    BY <2>1, <2>5, PictureSeenNext DEF GridSeen
  <2>7. Text!Put(ch)
    BY <2>3, <2>4, <2>5, <2>6 DEF Text!Put, Text!NextRow
  <2>8. IInv'
    BY <1>1, <2>1, <2>5 DEF IInv
  <2> QED
    BY <2>7, <2>8 DEF Text!Next
<1> QED
  BY <1>2, <1>3, <1>4, <1>5 DEF Next

LEMMA InitPicture == Init => IInv /\ Text!Init
<1> SUFFICES ASSUME Init PROVE IInv /\ Text!Init
  OBVIOUS
<1>1. IInv
  BY InitType DEF Init, IInv
<1>2. Text!Init
  BY NothingSeen DEF Init, Text!Init
<1> QED
  BY <1>1, <1>2

------------------------------------------------------------------------------
(***************************************************************************)
(* Where scrolling reaches every row (without a porch always) the screen   *)
(* shows whole characters, and nothing where no position is, whatever is   *)
(* printed and however often the screen scrolls (ScreenIsText).            *)
(***************************************************************************)
THEOREM ScreenCorrect == Spec => []ScreenIsText
<1>1. PorchFits \/ ~PorchFits
  OBVIOUS
<1>2. CASE PorchFits
  <2>1. Init => IInv
    BY InitPicture
  <2>2. IInv /\ [Next]_vars => IInv'
    BY <1>2, NextPicture
  <2>3. IInv => ScreenIsText
    BY PictureIsText DEF IInv, ScreenIsText
  <2> QED
    BY <2>1, <2>2, <2>3, PTL DEF Spec
<1>3. CASE ~PorchFits
  <2>1. ScreenIsText
    BY <1>3 DEF ScreenIsText
  <2> QED
    BY <2>1, PTL
<1> QED
  BY <1>2, <1>3

(* Without a porch, and with one that the lines left over make up for,     *)
(* scrolling reaches every row.                                            *)
LEMMA NoPorchFits == PixelsPerScanLine = HorizontalResolution => PorchFits
<1> SUFFICES ASSUME PixelsPerScanLine = HorizontalResolution PROVE PorchFits
  OBVIOUS
<1>1. PICK w \in Nat : w = PixelsPerScanLine
  BY SizesKnown
<1>2. PICK left \in Nat : VerticalResolution = Cell * rowSize + left
  <2>1. VerticalResolution - Cell * rowSize \in Nat
    BY SizesKnown
  <2> QED
    BY <2>1, SizesKnown
<1>3. PICK full \in Nat : full = Cell * rowSize /\ full = rowSize * Cell
  BY SizesKnown
<1>4. (full + left) * w = full * w + left * w /\ left * w \in Nat /\ full * w \in Nat
  BY <1>1, <1>2, <1>3, SMT
<1> QED
  BY <1>1, <1>2, <1>3, <1>4 DEF PorchFits, ScrolledPixels

(***************************************************************************)
(* Where scrolling reaches every row, painting and copying pixels is       *)
(* printing into the grid of TextConsole (ImplementsTextConsole).          *)
(***************************************************************************)
THEOREM Refinement == PorchFits => (Spec => ImplementsTextConsole)
<1> SUFFICES ASSUME PorchFits PROVE Spec => ImplementsTextConsole
  OBVIOUS
<1>1. Init => IInv /\ Text!Init
  BY InitPicture
<1>2. IInv /\ [Next]_vars => IInv' /\ [Text!Next]_Text!vars
  BY NextPicture
<1> QED
  BY <1>1, <1>2, PTL DEF Spec, ImplementsTextConsole, Text!Spec

------------------------------------------------------------------------------
(* The two passes of PrintString. *)

(* A turn over the format, of either pass: where it goes on and what it counts. *)
TurnTo(j) == IF At(j) # "%" THEN j + 1
             ELSE IF At(j + 1) \in {"h", "l"} THEN j + 3 ELSE j + 2
Counts(j) == IF At(j) = "%" /\ At(j + 1) \in Counted THEN 1 ELSE 0

(***************************************************************************)
(* The turns of the first pass, which the second one will follow: V are    *)
(* the positions it stopped at and c the arguments it had counted there.   *)
(***************************************************************************)
Turns(V, c) ==
  /\ V \in SUBSET (1 .. NUL) /\ c \in [1 .. NUL -> Nat]
  /\ 1 \in V /\ c[1] = 0
  /\ str_scanner \in V /\ c[str_scanner] = num_args
  /\ \A j \in V :
       /\ j <= str_scanner /\ 2 * c[j] <= j - 1
       /\ j # str_scanner =>
            /\ At(j) # "NUL"
            /\ TurnTo(j) \in V /\ c[TurnTo(j)] = c[j] + Counts(j)

SecondPass == {"print", "sign", "places", "digits", "tenths", "whole", "fraction"}

InStep(V, c) ==
  /\ pc = "count" => str = 1 /\ taken = 0 /\ takenDoubles = 0 /\ skipped = 0
  /\ pc \in SecondPass \cup {"done"} =>
       /\ At(str_scanner) = "NUL"
       /\ str \in V /\ c[str] = taken + takenDoubles + skipped
  /\ pc = "done" => At(str) = "NUL"

PassesInv ==
  /\ input \in Inputs
  /\ taken \in Nat /\ takenDoubles \in Nat /\ skipped \in Nat
  /\ pc \in SecondPass \cup {"count", "done", "overrun"}
  /\ pc # "overrun" => \E V, c : Turns(V, c) /\ InStep(V, c)

(* The counter of the arguments is a byte: fewer than 256 fit two to a conversion. *)
ShortFormats == \A i \in Inputs : Len(i.fmt) < 512

LEMMA FormatLength == ASSUME input \in Inputs PROVE NUL \in Nat \ {0}
  BY PrintAssumption DEF NUL

LEMMA PassesInit == ASSUME PrintInit PROVE PassesInv
<1>1. NUL \in Nat \ {0}
  BY FormatLength DEF PrintInit
<1>2. PICK c : c = [j \in 1 .. NUL |-> 0]
  OBVIOUS
<1>3. Turns({1}, c) /\ InStep({1}, c)
  BY <1>1, <1>2 DEF Turns, InStep, PrintInit, SecondPass
<1> QED
  BY <1>3 DEF PassesInv, PrintInit

LEMMA CountTurnInStep ==
  ASSUME ShortFormats, PassesInv, CountTurn PROVE PassesInv'
<1>1. NUL \in Nat \ {0} /\ NUL <= 512
  BY FormatLength DEF ShortFormats, PassesInv, NUL
<1>2. PICK V, c : Turns(V, c) /\ InStep(V, c)
  BY DEF PassesInv, CountTurn
<1>3. \A j : At(j)' = At(j)
  BY DEF At, NUL, CountTurn
<1>4. NUL' = NUL
  BY DEF NUL, CountTurn
<1>5. str_scanner \in 1 .. NUL /\ str_scanner < NUL /\ num_args \in Nat /\ 2 * num_args <= str_scanner - 1
  BY <1>1, <1>2 DEF Turns, CountTurn, At
<1>6. PICK w \in {0, 1}, t \in Nat :
        /\ w = Counts(str_scanner) /\ t = TurnTo(str_scanner)
        /\ t > str_scanner /\ 2 * w <= t - str_scanner
  BY <1>1, <1>5 DEF TurnTo, Counts
<1>7. str_scanner' = t
  BY <1>6 DEF CountTurn, TurnTo
<1>8. num_args' = (num_args + w) % 256
  <2>1. num_args \in 0 .. 255
    BY <1>1, <1>5
  <2>2. w = 0 => num_args = (num_args + w) % 256
    BY <2>1
  <2>3. At(str_scanner) # "%" => w = 0 /\ num_args' = num_args
    BY <1>6 DEF CountTurn, Counts
  <2>4. At(str_scanner) = "%" => num_args' = (num_args + w) % 256
    BY <1>6 DEF CountTurn, Counts
  <2> QED
    BY <2>2, <2>3, <2>4
<1>9. CASE t > NUL
  BY <1>7, <1>9 DEF PassesInv, CountTurn
<1>10. CASE t <= NUL
  <2>1. num_args' = num_args + w
    <3>1. num_args + w \in 0 .. 255
      BY <1>1, <1>5, <1>6, <1>10
    <3> QED
      BY <1>8, <3>1
  <2>2. PICK d : d = [c EXCEPT ![t] = num_args + w]
    OBVIOUS
  <2>3. /\ V \in SUBSET (1 .. NUL) /\ c \in [1 .. NUL -> Nat]
        /\ 1 \in V /\ c[1] = 0 /\ str_scanner \in V /\ c[str_scanner] = num_args
        /\ \A j \in V : j <= str_scanner /\ 2 * c[j] <= j - 1
    BY <1>2 DEF Turns
  <2>11. t \in 1 .. NUL
    BY <1>1, <1>5, <1>6, <1>10
  <2>12. \A j \in V : j \in 1 .. NUL /\ j < t /\ j # t
    <3> TAKE j \in V
    <3>1. j \in 1 .. NUL /\ j <= str_scanner
      BY ONLY <2>3, j \in V
    <3> QED
      BY ONLY <1>1, <1>5, <1>6, <3>1
  <2>4. d \in [1 .. NUL -> Nat] /\ d[t] = num_args + w /\ \A j \in V : d[j] = c[j]
    <3>1. num_args + w \in Nat
      BY <1>5, <1>6
    <3> QED
      BY <2>2, <2>3, <2>11, <2>12, <3>1
  <2>5. \A j \in V : At(j) # "NUL" /\ TurnTo(j) \in V \cup {t} /\ d[TurnTo(j)] = d[j] + Counts(j)
    BY <1>2, <1>5, <1>6, <2>3, <2>4 DEF Turns, CountTurn
  <2>6. \A j \in V \cup {t} : j <= t /\ 2 * d[j] <= j - 1
    <3>1. 2 * d[t] <= t - 1
      <4>1. PICK a \in Nat, m \in Nat : a = str_scanner /\ m = num_args
        BY <1>1, <1>5
      <4>2. 2 * m <= a - 1 /\ 2 * w <= t - a /\ d[t] = m + w
        BY <1>5, <1>6, <2>4, <4>1
      <4> QED
        BY ONLY <4>2, a \in Nat, m \in Nat, w \in {0, 1}, t \in Nat
    <3>2. \A j \in V : j <= t /\ 2 * d[j] <= j - 1
      <4> TAKE j \in V
      <4>1. j < t /\ d[j] = c[j] /\ 2 * c[j] <= j - 1
        BY ONLY <2>3, <2>4, <2>12, j \in V
      <4> QED
        BY <4>1, <2>12, <1>6
    <3> QED
      BY <1>6, <3>1, <3>2
  <2>7. /\ V \cup {t} \in SUBSET (1 .. NUL')
        /\ d \in [1 .. NUL' -> Nat]
        /\ 1 \in V \cup {t} /\ d[1] = 0
        /\ str_scanner' \in V \cup {t} /\ d[str_scanner'] = num_args'
    <3>1. V \cup {t} \in SUBSET (1 .. NUL) /\ 1 \in 1 .. NUL
      BY <2>3, <2>11
    <3>2. d[1] = c[1]
      BY <2>3, <2>4
    <3> QED
      BY <1>4, <1>7, <2>1, <2>3, <2>4, <3>1, <3>2
  <2>8. \A j : TurnTo(j)' = TurnTo(j) /\ Counts(j)' = Counts(j)
    BY <1>3 DEF TurnTo, Counts
  <2>9. Turns(V \cup {t}, d)'
    BY <1>3, <1>7, <2>5, <2>6, <2>7, <2>8 DEF Turns
  <2>10. InStep(V \cup {t}, d)'
    BY <1>2, <1>7, <1>10, <1>4 DEF InStep, CountTurn, SecondPass
  <2> QED
    BY <2>9, <2>10 DEF PassesInv, CountTurn
<1> QED
  BY <1>1, <1>6, <1>9, <1>10

(* What a step keeps of the turns when it leaves the first pass alone. *)
LEMMA TurnsKept ==
  ASSUME NEW V, NEW c, Turns(V, c), UNCHANGED <<input, pass1>>
  PROVE  Turns(V, c)' /\ \A j : At(j)' = At(j)
<1>1. NUL' = NUL /\ \A j : At(j)' = At(j)
  BY DEF At, NUL
<1>2. \A j : TurnTo(j)' = TurnTo(j) /\ Counts(j)' = Counts(j)
  BY <1>1 DEF TurnTo, Counts
<1> QED
  BY <1>1, <1>2 DEF Turns, pass1

LEMMA PrintTurnInStep ==
  ASSUME PassesInv, Printing, UNCHANGED <<input, pass1>>,
         taken' \in Nat, takenDoubles' \in Nat, skipped' \in Nat,
         str' = TurnTo(str), pc' \in SecondPass \cup {"overrun"},
         taken' + takenDoubles' + skipped' = taken + takenDoubles + skipped + Counts(str)
  PROVE  PassesInv'
<1>1. PICK V, c : Turns(V, c) /\ InStep(V, c)
  BY DEF PassesInv, Printing
<1>2. Turns(V, c)' /\ \A j : At(j)' = At(j)
  BY <1>1, TurnsKept
<1>3. str \in V /\ str # str_scanner /\ At(str_scanner) = "NUL"
      /\ c[str] = taken + takenDoubles + skipped
  BY <1>1 DEF InStep, Printing, SecondPass
<1>4. str' \in V /\ c[str'] = taken' + takenDoubles' + skipped'
  BY <1>1, <1>3 DEF Turns
<1>5. At(str_scanner)' = "NUL"
  BY <1>2, <1>3 DEF pass1
<1>6. InStep(V, c)'
  BY <1>4, <1>5 DEF InStep, SecondPass
<1>7. input' \in Inputs
  BY DEF PassesInv
<1> QED
  BY <1>2, <1>6, <1>7 DEF PassesInv, SecondPass

LEMMA NumberStepInStep ==
  ASSUME PassesInv, pc \in SecondPass, pc' \in SecondPass,
         UNCHANGED <<input, pass1, str, taken, takenDoubles, skipped>>
  PROVE  PassesInv'
<1>1. PICK V, c : Turns(V, c) /\ InStep(V, c)
  BY DEF PassesInv, SecondPass
<1>2. Turns(V, c)' /\ \A j : At(j)' = At(j)
  BY <1>1, TurnsKept
<1>3. InStep(V, c)'
  BY <1>1, <1>2 DEF InStep, SecondPass, pass1
<1> QED
  BY <1>2, <1>3 DEF PassesInv, SecondPass

(***************************************************************************)
(* What the second pass takes or passes over at a percent sign is what the *)
(* first one counted there.                                                *)
(***************************************************************************)
LEMMA PercentTurns ==
  ASSUME Percent
  PROVE  /\ AfterPercent = TurnTo(str)
         /\ Letter \in {"%"} => Counts(str) = 0
         /\ Letter \in {"c", "f", "g"} => Counts(str) = 1
         /\ IsNumber => Counts(str) = 1
         /\ (~IsNumber /\ Letter \notin {"%", "c", "f", "g"}) =>
              Counts(str) = (IF Unserved THEN 1 ELSE 0)
<1>1. AfterPercent = TurnTo(str)
  BY DEF AfterPercent, TurnTo, Percent, HasLength, Letter
<1>2. Counts(str) = (IF Letter \in Counted THEN 1 ELSE 0)
  BY DEF Counts, Percent, Letter
<1>3. "%" \notin Counted /\ "c" \in Counted /\ "f" \in Counted /\ "g" \in Counted
  BY DEF Counted
<1>4. IsNumber => Letter \in Counted
  <2>1. CASE HasLength
    BY <2>1 DEF HasLength, Counted
  <2>2. CASE ~HasLength
    BY <2>2 DEF HasLength, IsNumber, NumberLetter, Conversions, IntConversions, Counted
  <2> QED
    BY <2>1, <2>2
<1>5. (~IsNumber /\ Letter \notin {"%", "c", "f", "g"}) => (Letter \in Counted <=> Unserved)
  <2>1. CASE HasLength
    BY <2>1 DEF HasLength, Unserved, Counted
  <2>2. CASE ~HasLength
    BY <2>2 DEF HasLength, Unserved, IsNumber, NumberLetter, Conversions, IntConversions, Counted
  <2> QED
    BY <2>1, <2>2
<1> QED
  BY <1>1, <1>2, <1>3, <1>4, <1>5

LEMMA PrintActionsInStep ==
  ASSUME PassesInv,
         Literal \/ PrintPercent \/ PrintArgumentCharacter \/ Ignore \/ TakeNumber \/ TakeDouble
  PROVE  PassesInv'
<1> USE DEF Goes, SecondPass, Percent
<1>7. taken \in Nat /\ takenDoubles \in Nat /\ skipped \in Nat
  BY DEF PassesInv
<1>8. Counts(str) \in {0, 1}
  BY DEF Counts
<1>1. CASE Literal
  <2>1. TurnTo(str) = str + 1 /\ Counts(str) = 0
    BY <1>1 DEF Literal, TurnTo, Counts
  <2> QED
    BY <1>1, <1>7, <2>1, PrintTurnInStep DEF Literal
<1>2. CASE PrintPercent
  BY <1>2, <1>7, PercentTurns, PrintTurnInStep DEF PrintPercent
<1>3. CASE PrintArgumentCharacter
  BY <1>3, <1>7, PercentTurns, PrintTurnInStep DEF PrintArgumentCharacter
<1>4. CASE Ignore
  BY <1>4, <1>7, PercentTurns, PrintTurnInStep DEF Ignore
<1>5. CASE TakeNumber
  BY <1>5, <1>7, PercentTurns, PrintTurnInStep DEF TakeNumber
<1>6. CASE TakeDouble
  BY <1>6, <1>7, PercentTurns, PrintTurnInStep DEF TakeDouble
<1> QED
  BY <1>1, <1>2, <1>3, <1>4, <1>5, <1>6

LEMMA NumberActionsInStep ==
  ASSUME PassesInv,
         \/ PrintSign \/ CountPlace \/ PlacesCounted \/ PrintDigit
         \/ CountTenth \/ TenthsCounted \/ PrintWholeDigit \/ PrintFraction
  PROVE  PassesInv'
<1> USE NumberStepInStep DEF SecondPass
<1>1. CASE PrintSign
  BY <1>1 DEF PrintSign
<1>2. CASE CountPlace
  BY <1>2 DEF CountPlace
<1>3. CASE PlacesCounted
  BY <1>3 DEF PlacesCounted
<1>4. CASE PrintDigit
  BY <1>4 DEF PrintDigit
<1>5. CASE CountTenth
  BY <1>5 DEF CountTenth
<1>6. CASE TenthsCounted
  BY <1>6 DEF TenthsCounted
<1>7. CASE PrintWholeDigit
  BY <1>7 DEF PrintWholeDigit
<1>8. CASE PrintFraction
  BY <1>8 DEF PrintFraction
<1> QED
  BY <1>1, <1>2, <1>3, <1>4, <1>5, <1>6, <1>7, <1>8

LEMMA PassEndsInStep ==
  ASSUME PassesInv, CountEnds \/ Done PROVE PassesInv'
<1>1. PICK V, c : Turns(V, c) /\ InStep(V, c)
  BY DEF PassesInv, CountEnds, Done
<1>2. Turns(V, c)' /\ \A j : At(j)' = At(j)
  BY <1>1, TurnsKept DEF CountEnds, Done
<1>3. InStep(V, c)'
  <2>1. CASE CountEnds
    BY <1>1, <1>2, <2>1 DEF InStep, Turns, SecondPass, CountEnds, pass1
  <2>2. CASE Done
    BY <1>1, <1>2, <2>2 DEF InStep, SecondPass, Done, pass1
  <2> QED
    BY <2>1, <2>2
<1> QED
  BY <1>2, <1>3 DEF PassesInv, SecondPass, CountEnds, Done

LEMMA PassesNext ==
  ASSUME ShortFormats, PassesInv, [PrintNext]_printVars PROVE PassesInv'
<1>1. CASE UNCHANGED printVars
  <2>1. UNCHANGED <<input, pass1, str, taken, takenDoubles, skipped, pc>>
    BY <1>1 DEF printVars
  <2>2. CASE pc = "overrun"
    BY <2>1, <2>2 DEF PassesInv
  <2>3. CASE pc # "overrun"
    <3>1. PICK V, c : Turns(V, c) /\ InStep(V, c)
      BY <2>3 DEF PassesInv
    <3>2. Turns(V, c)' /\ \A j : At(j)' = At(j)
      BY <2>1, <3>1, TurnsKept
    <3>3. InStep(V, c)'
      BY <2>1, <3>1, <3>2 DEF InStep, pass1
    <3> QED
      BY <2>1, <3>2, <3>3 DEF PassesInv
  <2> QED
    BY <2>2, <2>3
<1>2. CASE Step
  BY <1>2, CountTurnInStep, PassEndsInStep, PrintActionsInStep, NumberActionsInStep DEF Step
<1> QED
  BY <1>1, <1>2 DEF PrintNext, Finished

LEMMA PassesAgree == ASSUME PassesInv PROVE ArgumentsInStep
<1> SUFFICES ASSUME pc = "done" PROVE num_args = taken + takenDoubles + skipped
  BY DEF ArgumentsInStep
<1>1. PICK V, c : Turns(V, c) /\ InStep(V, c)
  BY DEF PassesInv
<1>2. str = str_scanner
  BY <1>1 DEF Turns, InStep
<1> QED
  BY <1>1, <1>2 DEF Turns, InStep

(***************************************************************************)
(* The second pass takes the arguments that the first one counted, except  *)
(* for those of the conversions listed in Unserved, in every format of     *)
(* less than 512 characters (the count is a byte, and a longer one may be  *)
(* too much for it).                                                       *)
(***************************************************************************)
THEOREM ArgumentsCorrect == ShortFormats => (PrintSpec => []ArgumentsInStep)
<1> SUFFICES ASSUME ShortFormats PROVE PrintSpec => []ArgumentsInStep
  OBVIOUS
<1>1. PrintInit => PassesInv
  BY PassesInit
<1>2. PassesInv /\ [PrintNext]_printVars => PassesInv'
  BY PassesNext
<1>3. PassesInv => ArgumentsInStep
  BY PassesAgree
<1> QED
  BY <1>1, <1>2, <1>3, PTL DEF PrintSpec

------------------------------------------------------------------------------
(* Powers, and the digits of a number. *)

(* Induction, of a set of numbers. *)
LEMMA Induced ==
  ASSUME NEW S \in SUBSET Nat, 0 \in S, \A n \in S : n + 1 \in S
  PROVE  S = Nat
<1> SUFFICES ASSUME Nat \ S # {} PROVE FALSE
  OBVIOUS
<1>1. PICK m \in Nat \ S : \A k \in Nat \ S : ~(k < m)
  <2>1. \E m \in Nat \ S : \A k \in Nat \ S : <<k, m>> \notin OpToRel(<, Nat)
    <3>1. Nat \ S \subseteq Nat
      OBVIOUS
    <3> QED BY <3>1, WFMin, NatLessThanWellFounded, Zenon
  <2> QED BY <2>1, Zenon DEF OpToRel
<1>2. m # 0 /\ m - 1 \in Nat /\ m - 1 < m
  BY <1>1
<1>3. m - 1 \in S
  BY <1>1, <1>2
<1> QED BY <1>1, <1>2, <1>3

LEMMA NatTimes == ASSUME NEW a \in Nat, NEW b \in Nat PROVE a * b \in Nat
OBVIOUS

(* The products of b, up to the n-th. *)
Products(b, n, p) == p[0] = 1 /\ \A k \in 1 .. n : p[k] = p[k - 1] * b

LEMMA ProductsExist ==
  ASSUME NEW b \in Nat
  PROVE  \A n \in Nat : \E p \in [0 .. n -> Nat] : Products(b, n, p)
<1>1. PICK S \in SUBSET Nat : \A n \in Nat : n \in S <=> \E p \in [0 .. n -> Nat] : Products(b, n, p)
  <2>1. {n \in Nat : \E p \in [0 .. n -> Nat] : Products(b, n, p)} \in SUBSET Nat
    OBVIOUS
  <2> QED BY <2>1
<1>2. 0 \in S
  <2>1. PICK p \in [0 .. 0 -> Nat] : p = [k \in 0 .. 0 |-> 1]
    OBVIOUS
  <2>2. Products(b, 0, p)
    BY <2>1 DEF Products
  <2> QED BY <1>1, <2>1, <2>2
<1>3. ASSUME NEW n \in S PROVE n + 1 \in S
  <2>0. n \in Nat /\ n + 1 \in Nat
    OBVIOUS
  <2>1. PICK p \in [0 .. n -> Nat] : Products(b, n, p)
    BY <1>1, <2>0
  <2>2. PICK x \in Nat : x = p[n] * b
    BY <2>0, NatTimes
  <2>3. PICK q \in [0 .. n + 1 -> Nat] : q = [k \in 0 .. n + 1 |-> IF k = n + 1 THEN x ELSE p[k]]
    <3>1. \A k \in 0 .. n + 1 : k # n + 1 => k \in 0 .. n
      BY <2>0
    <3>2. \A k \in 0 .. n + 1 : (IF k = n + 1 THEN x ELSE p[k]) \in Nat
      BY <2>1, <2>2, <3>1
    <3> QED BY <3>2
  <2>4. ASSUME NEW k \in 1 .. n + 1 PROVE q[k] = q[k - 1] * b
    <3>1. CASE k = n + 1
      BY <2>0, <2>2, <2>3, <3>1
    <3>2. CASE k \in 1 .. n
      <4>1. p[k] = p[k - 1] * b
        BY <2>1, <3>2 DEF Products
      <4>2. k \in 0 .. n + 1 /\ k # n + 1 /\ k - 1 \in 0 .. n + 1 /\ k - 1 # n + 1
        BY <2>0, <3>2
      <4>3. q[k] = p[k] /\ q[k - 1] = p[k - 1]
        BY <2>3, <4>2
      <4> QED BY <4>1, <4>3
    <3> QED BY <2>0, <3>1, <3>2
  <2>5. q[0] = 1
    BY <2>0, <2>1, <2>3 DEF Products
  <2>6. Products(b, n + 1, q)
    BY <2>3, <2>4, <2>5 DEF Products
  <2> QED BY <1>1, <2>0, <2>6
<1>4. S = Nat
  BY <1>2, <1>3, Induced
<1> QED BY <1>1, <1>4

LEMMA ProductsUnique ==
  ASSUME NEW b \in Nat, NEW n \in Nat, NEW m \in Nat, m <= n,
         NEW p, Products(b, m, p), NEW q, Products(b, n, q)
  PROVE  \A k \in 0 .. m : p[k] = q[k]
<1>1. PICK S \in SUBSET Nat : \A k \in Nat : k \in S <=> (k <= m => p[k] = q[k])
  <2>1. {k \in Nat : k <= m => p[k] = q[k]} \in SUBSET Nat
    OBVIOUS
  <2> QED BY <2>1
<1>2. 0 \in S
  BY <1>1 DEF Products
<1>3. ASSUME NEW k \in S PROVE k + 1 \in S
  <2> SUFFICES ASSUME k + 1 <= m PROVE p[k + 1] = q[k + 1]
    BY <1>1
  <2>1. k \in 0 .. m /\ k + 1 \in 1 .. m /\ k + 1 \in 1 .. n /\ (k + 1) - 1 = k
    OBVIOUS
  <2>2. p[k + 1] = p[k] * b /\ q[k + 1] = q[k] * b
    BY <2>1 DEF Products
  <2> QED BY <1>1, <2>1, <2>2
<1>4. S = Nat
  BY <1>2, <1>3, Induced
<1> QED BY <1>1, <1>4

LEMMA PowerIsProduct ==
  ASSUME NEW b \in Nat, NEW n \in Nat
  PROVE  \E p \in [0 .. n -> Nat] : Products(b, n, p) /\ Power(b, n) = p[n]
<1>1. PICK q \in [0 .. n -> Nat] : Products(b, n, q)
  BY ProductsExist
<1>2. q = [k \in 0 .. n |-> IF k = 0 THEN 1 ELSE q[k - 1] * b]
  BY <1>1 DEF Products
<1>3. \E p : p = [k \in 0 .. n |-> IF k = 0 THEN 1 ELSE p[k - 1] * b]
  BY <1>2
<1>4. PICK p : p = [k \in 0 .. n |-> IF k = 0 THEN 1 ELSE p[k - 1] * b] /\ Power(b, n) = p[n]
  BY <1>3 DEF Power
<1>5. \A k \in 0 .. n : p[k] = IF k = 0 THEN 1 ELSE p[k - 1] * b
  BY <1>4
<1>6. Products(b, n, p)
  BY <1>5 DEF Products
<1>7. p[n] = q[n]
  BY <1>1, <1>6, ProductsUnique
<1> QED BY <1>1, <1>4, <1>7

LEMMA Powers ==
  ASSUME NEW b \in Nat
  PROVE  /\ Power(b, 0) = 1
         /\ \A n \in Nat : Power(b, n) \in Nat /\ Power(b, n + 1) = Power(b, n) * b
<1>1. Power(b, 0) = 1
  BY PowerIsProduct DEF Products
<1>2. ASSUME NEW n \in Nat PROVE Power(b, n) \in Nat /\ Power(b, n + 1) = Power(b, n) * b
  <2>1. PICK p \in [0 .. n -> Nat] : Products(b, n, p) /\ Power(b, n) = p[n]
    BY PowerIsProduct
  <2>2. n + 1 \in Nat /\ n <= n + 1
    OBVIOUS
  <2>3. PICK q \in [0 .. n + 1 -> Nat] : Products(b, n + 1, q) /\ Power(b, n + 1) = q[n + 1]
    BY <2>2, PowerIsProduct
  <2>7. p[n] = q[n]
    <3>1. \A k \in 0 .. n : p[k] = q[k]
      BY <2>1, <2>2, <2>3, ProductsUnique
    <3> QED BY <3>1
  <2>4. PICK m \in Nat : m = n + 1 /\ m \in 1 .. m /\ m - 1 = n
    OBVIOUS
  <2>5. \A k \in 1 .. m : q[k] = q[k - 1] * b
    BY <2>3, <2>4 DEF Products
  <2>6. q[m] = q[n] * b
    BY ONLY <2>4, <2>5
  <2> QED BY <2>1, <2>3, <2>4, <2>6, <2>7
<1> QED BY <1>1, <1>2

LEMMA PowersRise ==
  ASSUME NEW b \in Nat \ {0}
  PROVE  \A n \in Nat : /\ Power(b, n) \in Nat \ {0}
                        /\ \A k \in 0 .. n : Power(b, k) <= Power(b, n)
<1> DEFINE Rises(n) == Power(b, n) \in Nat \ {0} /\ \A k \in 0 .. n : Power(b, k) <= Power(b, n)
<1>1. PICK S \in SUBSET Nat : \A n \in Nat : n \in S <=> Rises(n)
  <2>1. {n \in Nat : Rises(n)} \in SUBSET Nat
    OBVIOUS
  <2> QED BY <2>1
<1>2. 0 \in S
  <2>1. Rises(0)
    BY Powers
  <2> QED BY <1>1, <2>1
<1>3. ASSUME NEW n \in S PROVE n + 1 \in S
  <2>1. n \in Nat /\ n + 1 \in Nat /\ Rises(n)
    BY <1>1
  <2>2. PICK x \in Nat \ {0}, y \in Nat : x = Power(b, n) /\ y = Power(b, n + 1) /\ y = x * b
    BY <2>1, Powers
  <2>3. y # 0 /\ x <= y
    <3>1. x * b = x * (b - 1) + x /\ x * (b - 1) >= 0
      BY ONLY x \in Nat \ {0}, b \in Nat \ {0}
    <3> QED BY <2>2, <3>1
  <2>4. ASSUME NEW k \in 0 .. n + 1 PROVE Power(b, k) <= Power(b, n + 1)
    <3>1. CASE k = n + 1
      BY <2>2, <3>1
    <3>2. CASE k \in 0 .. n
      <4>1. Power(b, k) <= Power(b, n)
        BY <2>1, <3>2
      <4>2. PICK z \in Nat : z = Power(b, k)
        BY <3>2, Powers
      <4>3. z <= x
        BY <2>2, <4>1, <4>2
      <4>4. z <= y
        BY ONLY <2>2, <2>3, <4>3, z \in Nat, x \in Nat, y \in Nat
      <4> QED BY <2>2, <4>2, <4>4
    <3> QED BY <2>1, <3>1, <3>2
  <2>5. Rises(n + 1)
    BY <2>2, <2>3, <2>4
  <2> QED BY <1>1, <2>1, <2>5
<1>4. S = Nat
  BY <1>2, <1>3, Induced
<1> QED BY <1>1, <1>4

LEMMA PowerOfSum ==
  ASSUME NEW b \in Nat \ {0}, NEW m \in Nat
  PROVE  \A n \in Nat : Power(b, m + n) = Power(b, m) * Power(b, n)
<1> DEFINE Splits(n) == Power(b, m + n) = Power(b, m) * Power(b, n)
<1>1. PICK S \in SUBSET Nat : \A n \in Nat : n \in S <=> Splits(n)
  <2>1. {n \in Nat : Splits(n)} \in SUBSET Nat
    OBVIOUS
  <2> QED BY <2>1
<1>2. 0 \in S
  <2>1. PICK x \in Nat : x = Power(b, m)
    BY Powers
  <2>2. Power(b, 0) = 1 /\ m + 0 = m /\ x = x * 1
    BY Powers
  <2>3. Splits(0)
    BY <2>1, <2>2
  <2> QED BY <1>1, <2>3
<1>3. ASSUME NEW n \in S PROVE n + 1 \in S
  <2>1. n \in Nat /\ n + 1 \in Nat /\ m + n \in Nat /\ m + (n + 1) = (m + n) + 1 /\ Splits(n)
    BY <1>1
  <2>2. PICK x \in Nat, y \in Nat : x = Power(b, m) /\ y = Power(b, n)
    BY <2>1, Powers
  <2>3. Power(b, n + 1) = y * b /\ Power(b, m + (n + 1)) = (x * y) * b
    BY <2>1, <2>2, Powers
  <2>4. (x * y) * b = x * (y * b)
    BY ONLY x \in Nat, y \in Nat, b \in Nat \ {0}
  <2>5. Splits(n + 1)
    BY <2>2, <2>3, <2>4
  <2> QED BY <1>1, <2>1, <2>5
<1>4. S = Nat
  BY <1>2, <1>3, Induced
<1> QED BY <1>1, <1>4

LEMMA PowerOfTwoLeast ==
  ASSUME NEW b \in Nat, b >= 2
  PROVE  \A n \in Nat : Power(2, n) <= Power(b, n)
<1> DEFINE Less(n) == Power(2, n) <= Power(b, n)
<1>1. PICK S \in SUBSET Nat : \A n \in Nat : n \in S <=> Less(n)
  <2>1. {n \in Nat : Less(n)} \in SUBSET Nat
    OBVIOUS
  <2> QED BY <2>1
<1>2. 0 \in S
  <2>1. Less(0)
    BY Powers
  <2> QED BY <1>1, <2>1
<1>3. ASSUME NEW n \in S PROVE n + 1 \in S
  <2>1. n \in Nat /\ n + 1 \in Nat /\ Less(n)
    BY <1>1
  <2>2. PICK x \in Nat, y \in Nat : x = Power(2, n) /\ y = Power(b, n) /\ x <= y
    BY <2>1, Powers
  <2>3. Power(2, n + 1) = x * 2 /\ Power(b, n + 1) = y * b
    BY <2>1, <2>2, Powers
  <2>4. x * 2 <= y * b
    <3>1. y * b = y * (b - 2) + y * 2 /\ y * (b - 2) >= 0
      BY ONLY y \in Nat, b \in Nat, b >= 2
    <3> QED BY ONLY <2>2, <3>1, x \in Nat, y \in Nat
  <2>5. Less(n + 1)
    BY <2>3, <2>4
  <2> QED BY <1>1, <2>1, <2>5
<1>4. S = Nat
  BY <1>2, <1>3, Induced
<1> QED BY <1>1, <1>4

LEMMA PowerOfEight == \A n \in Nat : Power(8, n) = Power(2, 3 * n)
<1> DEFINE Cube(n) == Power(8, n) = Power(2, 3 * n)
<1>1. PICK S \in SUBSET Nat : \A n \in Nat : n \in S <=> Cube(n)
  <2>1. {n \in Nat : Cube(n)} \in SUBSET Nat
    OBVIOUS
  <2> QED BY <2>1
<1>2. 0 \in S
  <2>1. Cube(0)
    BY Powers
  <2> QED BY <1>1, <2>1
<1>3. ASSUME NEW n \in S PROVE n + 1 \in S
  <2>1. n \in Nat /\ n + 1 \in Nat /\ Cube(n)
    BY <1>1
  <2>2. PICK m \in Nat : m = 3 * n /\ 3 * (n + 1) = ((m + 1) + 1) + 1 /\ m + 1 \in Nat /\ (m + 1) + 1 \in Nat
    BY <2>1
  <2>3. PICK x \in Nat : x = Power(2, m) /\ Power(8, n) = x
    BY <2>1, <2>2, Powers
  <2>4. Power(2, m + 1) = x * 2 /\ Power(2, (m + 1) + 1) = (x * 2) * 2
        /\ Power(2, ((m + 1) + 1) + 1) = ((x * 2) * 2) * 2
    BY <2>2, <2>3, Powers
  <2>5. Power(8, n + 1) = x * 8
    BY <2>1, <2>3, Powers
  <2>6. Cube(n + 1)
    BY <2>2, <2>4, <2>5
  <2> QED BY <1>1, <2>1, <2>6
<1>4. S = Nat
  BY <1>2, <1>3, Induced
<1> QED BY <1>1, <1>4

LEMMA DivisionUnique ==
  ASSUME NEW n \in Nat \ {0}, NEW x \in Nat, NEW q \in Nat, NEW r \in 0 .. n - 1, x = n * q + r
  PROVE  x \div n = q /\ x % n = r
<1>1. PICK p \in Nat, s \in 0 .. n - 1 : p = x \div n /\ s = x % n /\ x = n * p + s
  BY Divided
<1>2. n * (p - q) = r - s
  BY <1>1
<1>3. ~(p > q)
  <2> SUFFICES ASSUME p - q >= 1 PROVE FALSE
    OBVIOUS
  <2>1. n * (p - q) = n * (p - q - 1) + n /\ n * (p - q - 1) >= 0
    BY ONLY p - q >= 1, p \in Nat, q \in Nat, n \in Nat \ {0}
  <2> QED BY <1>2, <2>1
<1>4. ~(p < q)
  <2> SUFFICES ASSUME q - p >= 1 PROVE FALSE
    OBVIOUS
  <2>1. n * (q - p) = n * (q - p - 1) + n /\ n * (q - p - 1) >= 0
    BY ONLY q - p >= 1, p \in Nat, q \in Nat, n \in Nat \ {0}
  <2>2. n * (q - p) = s - r
    BY ONLY <1>2, p \in Nat, q \in Nat, n \in Nat \ {0}, r \in Int, s \in Int
  <2> QED BY <2>1, <2>2
<1>5. p = q
  BY <1>3, <1>4
<1> QED BY <1>1, <1>2, <1>5

(* Dividing by n and then by b. *)
ThenBy(x, n, b, m) == x \div n = (x \div m) * b + ((x \div n) % b)

LEMMA DividedTwice ==
  ASSUME NEW x \in Nat, NEW n \in Nat \ {0}, NEW b \in Nat \ {0}, NEW m \in Nat \ {0}, m = n * b
  PROVE  ThenBy(x, n, b, m)
<1>1. PICK q \in Nat, r \in 0 .. n - 1 : q = x \div n /\ x = n * q + r
  BY Divided
<1>2. PICK p \in Nat, s \in 0 .. b - 1 : p = q \div b /\ s = q % b /\ q = b * p + s
  BY Divided
<1>3. PICK t \in Nat : t = n * s + r
  <2>1. n * s \in Nat
    BY NatTimes
  <2> QED BY <2>1
<1>4. t < m
  <2>1. PICK k \in Nat : k = b - 1 - s
    OBVIOUS
  <2>2. n * (k + 1 + s) = n * k + n * s + n
    BY ONLY n \in Nat \ {0}, k \in Nat, s \in Nat
  <2>3. PICK y \in Nat, z \in Nat : y = n * s /\ z = n * k
    BY NatTimes
  <2>4. b = k + 1 + s
    BY <2>1
  <2>5. m = z + y + n
    BY ONLY m = n * b, <2>2, <2>3, <2>4
  <2>6. t = y + r
    BY <1>3, <2>3
  <2> QED BY ONLY <2>5, <2>6, m \in Nat, y \in Nat, z \in Nat, t \in Nat, n \in Nat, r \in 0 .. n - 1
<1>5. x = m * p + t
  <2>1. n * (b * p + s) = (n * b) * p + n * s
    BY ONLY n \in Nat, b \in Nat, p \in Nat, s \in Nat
  <2>2. x = (n * b) * p + n * s + r
    BY <1>1, <1>2, <2>1
  <2>3. PICK y \in Nat, z \in Nat : y = n * s /\ z = m * p
    BY NatTimes
  <2> QED BY <1>3, <2>2, <2>3
<1>6. x \div m = p
  BY <1>4, <1>5, DivisionUnique
<1>7. b * p = p * b
  OBVIOUS
<1> QED BY <1>1, <1>2, <1>6, <1>7 DEF ThenBy

(* The digits of a number make up a number again, as far as they go. *)
Horner(x, b, n, j) == (x \div Power(b, n - j)) - (x \div Power(b, n)) * Power(b, j)

LEMMA HornerSteps ==
  ASSUME NEW b \in Nat \ {0}, NEW x \in Nat, NEW n \in Nat
  PROVE  /\ Horner(x, b, n, 0) = 0
         /\ Horner(x, b, n, n) = x - (x \div Power(b, n)) * Power(b, n)
         /\ \A j \in 0 .. n : Horner(x, b, n, j) \in Int
         /\ \A j \in 1 .. n :
              Horner(x, b, n, j) = Horner(x, b, n, j - 1) * b + ((x \div Power(b, n - j)) % b)
<1>1. PICK m \in Nat \ {0} : m = Power(b, n)
  BY PowersRise
<1>2. PICK q \in Nat : q = x \div m
  BY Divided
<1>3. \A j \in 0 .. n : x \div Power(b, n - j) \in Nat /\ Power(b, j) \in Nat
  <2> TAKE j \in 0 .. n
  <2>1. n - j \in Nat /\ j \in Nat
    OBVIOUS
  <2>2. PICK y \in Nat \ {0} : y = Power(b, n - j)
    BY <2>1, PowersRise
  <2> QED BY <2>1, <2>2, Divided, Powers
<1>4. Horner(x, b, n, 0) = 0
  <2>1. n - 0 = n /\ q * 1 = q /\ q - q = 0
    OBVIOUS
  <2> QED BY <1>1, <1>2, <2>1, Powers DEF Horner
<1>5. Horner(x, b, n, n) = x - (x \div Power(b, n)) * Power(b, n)
  <2>1. n - n = 0 /\ x \div 1 = x
    OBVIOUS
  <2> QED BY <2>1, Powers DEF Horner
<1>6. \A j \in 0 .. n : Horner(x, b, n, j) \in Int
  <2> TAKE j \in 0 .. n
  <2>1. PICK y \in Nat, z \in Nat : y = x \div Power(b, n - j) /\ z = Power(b, j)
    BY <1>3
  <2>2. y - q * z \in Int
    OBVIOUS
  <2> QED BY <1>1, <1>2, <2>1, <2>2 DEF Horner
<1>7. ASSUME NEW j \in 1 .. n
      PROVE  Horner(x, b, n, j) = Horner(x, b, n, j - 1) * b + ((x \div Power(b, n - j)) % b)
  <2>1. n - j \in Nat /\ n - (j - 1) = (n - j) + 1 /\ j - 1 \in Nat /\ (j - 1) + 1 = j
    OBVIOUS
  <2>2. PICK w \in Nat \ {0}, z \in Nat : w = Power(b, n - j) /\ z = Power(b, j - 1)
    BY <2>1, PowersRise, Powers
  <2>3. PICK u \in Nat \ {0} : u = w * b /\ Power(b, n - (j - 1)) = u
    <3>1. Power(b, (n - j) + 1) = w * b /\ (n - j) + 1 \in Nat
      BY <2>1, <2>2, Powers
    <3>2. Power(b, (n - j) + 1) \in Nat \ {0}
      BY <3>1, PowersRise
    <3> QED BY <2>1, <3>1, <3>2
  <2>4. Power(b, j) = z * b
    BY <2>1, <2>2, Powers
  <2>5. PICK y \in Nat, v \in Nat : y = x \div w /\ v = x \div u
    BY Divided
  <2>6. PICK d \in Nat : d = y % b /\ y = v * b + d
    <3>1. y % b \in Nat
      BY Divided
    <3>2. x \div w = (x \div u) * b + ((x \div w) % b)
      <4>1. u = w * b
        BY <2>3
      <4>2. ThenBy(x, w, b, u)
        BY <4>1, DividedTwice
      <4> QED BY <4>2 DEF ThenBy
    <3> QED BY <2>5, <3>1, <3>2
  <2>7. y - q * (z * b) = (v - q * z) * b + d
    BY ONLY <2>6, y \in Nat, q \in Nat, z \in Nat, b \in Nat, v \in Nat, d \in Nat
  <2> QED BY <1>1, <1>2, <2>2, <2>3, <2>4, <2>5, <2>6, <2>7 DEF Horner
<1> QED BY <1>4, <1>5, <1>6, <1>7

(* A numeral is read digit by digit; the c[k]-th letter is worth one less. *)
Reads(b, n, c, g) == g[0] = 0 /\ \A k \in 1 .. n : g[k] = g[k - 1] * b + c[k] - 1

LEMMA ReadsUnique ==
  ASSUME NEW b, NEW n \in Nat, NEW c, NEW g, Reads(b, n, c, g), NEW h, Reads(b, n, c, h)
  PROVE  \A k \in 0 .. n : g[k] = h[k]
<1>1. PICK S \in SUBSET Nat : \A k \in Nat : k \in S <=> (k <= n => g[k] = h[k])
  <2>1. {k \in Nat : k <= n => g[k] = h[k]} \in SUBSET Nat
    OBVIOUS
  <2> QED BY <2>1
<1>2. 0 \in S
  BY <1>1 DEF Reads
<1>3. ASSUME NEW k \in S PROVE k + 1 \in S
  <2>1. k \in Nat /\ (k <= n => g[k] = h[k]) /\ k + 1 \in Nat
    BY <1>1
  <2>2. ASSUME k + 1 <= n PROVE g[k + 1] = h[k + 1]
    <3>1. k + 1 \in 1 .. n /\ (k + 1) - 1 = k /\ k <= n
      BY <2>1, <2>2
    <3>2. g[k + 1] = g[k] * b + c[k + 1] - 1 /\ h[k + 1] = h[k] * b + c[k + 1] - 1
      BY <3>1 DEF Reads
    <3> QED BY <2>1, <3>1, <3>2
  <2> QED BY <1>1, <2>1, <2>2
<1>4. S = Nat
  BY <1>2, <1>3, Induced
<1> QED BY <1>1, <1>4

LettersDiffer(b) ==
  b = field.conv.base /\ \A d, f \in 1 .. b : field.conv.letters[d] = field.conv.letters[f] => d = f
Spelt(digits, n, c) == Len(digits) = n /\ \A k \in 1 .. n : digits[k] = field.conv.letters[c[k]]

LEMMA ValueRead ==
  ASSUME NEW b \in Nat, LettersDiffer(b),
         NEW n \in Nat, NEW c \in [1 .. n -> 1 .. b], NEW digits, Spelt(digits, n, c),
         NEW g \in [0 .. n -> Int], Reads(b, n, c, g)
  PROVE  ValueOf(digits) = g[n]
<1> DEFINE D(k) == CHOOSE d \in 1 .. field.conv.base : field.conv.letters[d] = digits[k]
<1>0. /\ b = field.conv.base
      /\ \A d, f \in 1 .. b : field.conv.letters[d] = field.conv.letters[f] => d = f
      /\ Len(digits) = n
      /\ \A k \in 1 .. n : digits[k] = field.conv.letters[c[k]]
  BY DEF LettersDiffer, Spelt
<1>1. \A k \in 1 .. n : D(k) = c[k]
  <2> TAKE k \in 1 .. n
  <2>1. c[k] \in 1 .. b /\ field.conv.letters[c[k]] = digits[k]
    BY <1>0
  <2> QED BY <1>0, <2>1
<1> DEFINE Next1(v, k) == IF k = 0 THEN 0 ELSE v[k - 1] * field.conv.base + D(k) - 1
<1>2. \E v : v = [k \in 0 .. Len(digits) |-> Next1(v, k)]
  <2>1. ASSUME NEW k \in 0 .. n PROVE g[k] = Next1(g, k)
    <3>1. CASE k = 0
      BY <3>1 DEF Reads
    <3>2. CASE k \in 1 .. n
      <4> HIDE DEF D
      <4>1. k # 0 /\ g[k] = g[k - 1] * b + c[k] - 1
        BY <3>2 DEF Reads
      <4>2. D(k) = c[k] /\ b = field.conv.base
        BY <1>0, <1>1, <3>2
      <4> QED BY <4>1, <4>2
    <3> HIDE DEF Next1
    <3> QED BY <3>1, <3>2
  <2> HIDE DEF Next1
  <2> QED BY <1>0, <2>1
<1>3. PICK v : v = [k \in 0 .. Len(digits) |-> Next1(v, k)] /\ ValueOf(digits) = v[Len(digits)]
  BY <1>2 DEF ValueOf
<1>4. \A k \in 0 .. n : v[k] = Next1(v, k)
  <2> HIDE DEF Next1
  <2> QED BY <1>0, <1>3
<1>5. Reads(b, n, c, v)
  <2>1. v[0] = 0
    BY <1>4
  <2>2. ASSUME NEW k \in 1 .. n PROVE v[k] = v[k - 1] * b + c[k] - 1
    <3> HIDE DEF D
    <3>1. k \in 0 .. n /\ k # 0
      OBVIOUS
    <3>2. v[k] = v[k - 1] * field.conv.base + D(k) - 1
      BY <1>4, <3>1
    <3> QED BY <1>0, <1>1, <3>2
  <2> QED BY <2>1, <2>2 DEF Reads
<1>6. v[n] = g[n]
  <2>1. \A k \in 0 .. n : v[k] = g[k]
    BY <1>5, ReadsUnique
  <2> QED BY <2>1
<1> QED BY <1>0, <1>3, <1>6

------------------------------------------------------------------------------
Widths == {ShortBits, IntBits, LongBits}

(***************************************************************************)
(* NumbersFaithful.  What is known of a conversion, of the number that is  *)
(* being printed, and of what there is of it so far.                       *)
(***************************************************************************)
ConvKnown(c) ==
  /\ c.bits \in Widths
  /\ c.signed \in BOOLEAN /\ c.signedDigits \in BOOLEAN
  /\ c.base \in {8, 10, 16} /\ c.letters \in {Lower, Upper}
  /\ c.signed => c.signedDigits
  /\ (c.signedDigits /\ ~c.signed) => c.base = 8 /\ c.bits = IntBits

FieldKnown ==
  /\ field.kind = "integer"
  /\ ConvKnown(field.conv)
  /\ field.from \in Nat \ {0}
  /\ field.arg \in 0 .. Power(2, LongBits) - 1

Size == Abs(Meaning)
Lowest == field.conv.signed /\ Meaning = -Power(2, field.conv.bits - 1)
Start == IF Meaning < 0 THEN field.from + 1 ELSE field.from

(* The sign and k characters after it. *)
Signs(k) ==
  /\ Len(out) = Start - 1 + k
  /\ Meaning < 0 => out[field.from] = "-"

PlacesSeen(n, r, p) ==
  /\ r * Power(field.conv.base, p) <= n /\ n < (r + 1) * Power(field.conv.base, p)
  /\ p > 0 => Power(field.conv.base, p - 1) <= n

(* The digits are those of what the number is taken for. *)
TakenFor == IF field.conv.signedDigits THEN AsLong(Signed(Size, field.conv.bits)) ELSE Size
DigitAt(n, j) == ((TakenFor \div Power(field.conv.base, n - j)) % field.conv.base) + 1

HasPlaces(n) == Power(field.conv.base, n - 1) <= Size /\ Size < Power(field.conv.base, n)

(* The first k of the number's n digits. *)
Numeral(n, k) ==
  /\ Signs(k)
  /\ HasPlaces(n)
  /\ \A j \in 1 .. k : out[Start - 1 + j] = field.conv.letters[DigitAt(n, j)]

Zero ==
  /\ Signs(1)
  /\ out[Start] = "0"
  /\ Size = 0 \/ Lowest

Whole == Zero \/ (~Lowest /\ \E n \in 1 .. LongBits : Numeral(n, n))

SignInv ==
  pc = "sign" =>
    /\ field.conv.signed
    /\ Len(out) = field.from - 1
    /\ value = AsLong(Meaning) /\ places = 0

CountInv ==
  pc = "places" =>
    /\ Signs(0) /\ value = Size
    /\ IF Lowest THEN places = 0 /\ value_cpy = value
       ELSE value_cpy \in Nat /\ places \in 0 .. LongBits /\ PlacesSeen(Size, value_cpy, places)

DigitsInv ==
  pc = "digits" =>
    /\ ~Lowest /\ value = Size
    /\ \E n \in 1 .. LongBits : places \in 1 .. n /\ Numeral(n, n - places)

PrintedInv == (pc = "print" /\ field.kind = "integer") => FieldKnown /\ Whole

(* What may be printed. *)
Printable ==
  STRING \cup {"-", "lowest", "0", ".", "%", "chr", "digit"}
    \cup {Lower[d] : d \in 1 .. 16} \cup {Upper[d] : d \in 1 .. 16}

NumberPhases == {"sign", "places", "digits"}
DoublePhases == {"tenths", "whole", "fraction"}

FormatInv ==
  /\ input \in Inputs
  /\ pc \in NumberPhases \cup DoublePhases \cup {"count", "print", "done", "overrun"}
  /\ taken \in Nat /\ takenDoubles \in Nat
  /\ pc \notin {"done", "overrun"} =>
       str \in 1 .. NUL /\ 2 * taken <= str - 1 /\ 2 * takenDoubles <= str - 1
  /\ out \in Seq(Printable)
  /\ pc = "count" => field = NoField
  /\ pc \in NumberPhases => conv = field.conv /\ FieldKnown
  /\ pc \in DoublePhases => field.kind = "double"

NumbersInv == FormatInv /\ SignInv /\ CountInv /\ DigitsInv /\ PrintedInv

(***************************************************************************)
(* What is asked of the machine: the places of a long are counted in a     *)
(* byte, and the width of an int is no multiple of the three bits of an    *)
(* octal digit (it is 32).                                                 *)
(***************************************************************************)
NarrowLongs == LongBits < 256
OctalUneven == IntBits % 3 # 0

------------------------------------------------------------------------------
(* The casts. *)

LEMMA RemainderUnique ==
  ASSUME NEW n \in Nat \ {0}, NEW x \in Int, NEW q \in Int, NEW r \in 0 .. n - 1, x = n * q + r
  PROVE  x % n = r
<1>1. PICK p \in Int, s \in 0 .. n - 1 : p = x \div n /\ s = x % n /\ x = n * p + s
  OBVIOUS
<1>2. n * (p - q) = r - s
  BY <1>1
<1>3. ~(p > q)
  <2> SUFFICES ASSUME p - q >= 1 PROVE FALSE
    OBVIOUS
  <2>1. n * (p - q) = n * (p - q - 1) + n /\ n * (p - q - 1) >= 0
    BY ONLY p - q >= 1, p \in Int, q \in Int, n \in Nat \ {0}
  <2> QED BY <1>2, <2>1
<1>4. ~(p < q)
  <2> SUFFICES ASSUME q - p >= 1 PROVE FALSE
    OBVIOUS
  <2>1. n * (q - p) = n * (q - p - 1) + n /\ n * (q - p - 1) >= 0
    BY ONLY q - p >= 1, p \in Int, q \in Int, n \in Nat \ {0}
  <2>2. n * (q - p) = s - r
    BY ONLY <1>2, p \in Int, q \in Int, n \in Nat \ {0}, r \in Int, s \in Int
  <2> QED BY <2>1, <2>2
<1>5. p = q
  BY <1>3, <1>4
<1> QED BY <1>1, <1>2, <1>5

(* A long is a whole number of smaller numbers' ranges. *)
LEMMA WidthKnown ==
  ASSUME NEW bits \in Widths
  PROVE  \E h \in Nat \ {0}, k \in Nat \ {0} :
           /\ Power(2, bits - 1) = h /\ Power(2, bits) = h * 2
           /\ Power(2, LongBits) = (h * 2) * k
<1>1. bits - 1 \in Nat /\ LongBits - bits \in Nat /\ bits \in Nat
      /\ (bits - 1) + 1 = bits /\ bits + (LongBits - bits) = LongBits
  BY PrintAssumption DEF Widths
<1>2. PICK h \in Nat \ {0} : h = Power(2, bits - 1)
  BY <1>1, PowersRise
<1>3. PICK k \in Nat \ {0} : k = Power(2, LongBits - bits)
  BY <1>1, PowersRise
<1>4. Power(2, bits) = h * 2
  <2>1. Power(2, (bits - 1) + 1) = h * 2
    BY <1>1, <1>2, Powers
  <2> QED BY <1>1, <2>1
<1>5. Power(2, LongBits) = (h * 2) * k
  <2>1. Power(2, bits + (LongBits - bits)) = Power(2, bits) * Power(2, LongBits - bits)
    BY <1>1, PowerOfSum
  <2> QED BY <1>1, <1>3, <1>4, <2>1
<1> QED BY <1>2, <1>4, <1>5

LEMMA LongIsWidth == LongBits \in Widths
BY DEF Widths

LEMMA UnsignedCast ==
  ASSUME NEW bits \in Widths, NEW n \in Int
  PROVE  /\ Unsigned(n, bits) \in 0 .. Power(2, bits) - 1
         /\ n \in 0 .. Power(2, bits) - 1 => Unsigned(n, bits) = n
<1>1. PICK w \in Nat \ {0} : w = Power(2, bits)
  <2>1. PICK h \in Nat \ {0} : Power(2, bits) = h * 2
    BY WidthKnown
  <2>2. h * 2 \in Nat \ {0}
    OBVIOUS
  <2> QED BY <2>1, <2>2
<1>2. n % w \in 0 .. w - 1
  OBVIOUS
<1>3. n \in 0 .. w - 1 => n % w = n
  <2> SUFFICES ASSUME n \in 0 .. w - 1 PROVE n % w = n
    OBVIOUS
  <2>1. n = w * 0 + n
    OBVIOUS
  <2> QED BY <2>1, RemainderUnique
<1> QED BY <1>1, <1>2, <1>3 DEF Unsigned

(* The signed numbers of a width, and how they come back from a long. *)
SignedRange(bits) == -Power(2, bits - 1) .. Power(2, bits - 1) - 1

LEMMA SignedCast ==
  ASSUME NEW bits \in Widths, NEW n \in Int
  PROVE  Signed(n, bits) \in SignedRange(bits)
<1>1. PICK h \in Nat \ {0} : Power(2, bits - 1) = h /\ Power(2, bits) = h * 2
  BY WidthKnown
<1>2. PICK u \in 0 .. h * 2 - 1 : u = Unsigned(n, bits)
  BY <1>1, UnsignedCast
<1> QED BY <1>1, <1>2 DEF Signed, SignedRange

LEMMA SignedFromLong ==
  ASSUME NEW bits \in Widths, NEW s \in SignedRange(bits)
  PROVE  /\ s >= 0 => AsLong(s) = s
         /\ s < 0 => AsLong(s) = s + Power(2, LongBits)
         /\ Signed(AsLong(s), bits) = s
<1>1. PICK h \in Nat \ {0}, k \in Nat \ {0} :
        Power(2, bits - 1) = h /\ Power(2, bits) = h * 2 /\ Power(2, LongBits) = (h * 2) * k
  BY WidthKnown
<1>2. PICK w \in Nat \ {0}, l \in Nat \ {0} : w = h * 2 /\ l = w * k
  <2>1. PICK w \in Nat \ {0} : w = h * 2
    OBVIOUS
  <2>2. w * k \in Nat
    BY NatTimes
  <2>3. w * k = w * (k - 1) + w /\ w * (k - 1) >= 0
    BY ONLY w \in Nat \ {0}, k \in Nat \ {0}
  <2>4. w * k # 0
    BY <2>2, <2>3
  <2> QED BY <2>1, <2>2, <2>4
<1>3. l >= w
  <2>1. w * k = w * (k - 1) + w /\ w * (k - 1) >= 0
    BY ONLY w \in Nat \ {0}, k \in Nat \ {0}
  <2> QED BY <1>2, <2>1
<1>4. s \in Int /\ -h <= s /\ s < h
  BY <1>1 DEF SignedRange
<1>5. CASE s >= 0
  <2>1. s \in 0 .. l - 1 /\ s \in 0 .. w - 1
    BY <1>2, <1>3, <1>4, <1>5
  <2>2. AsLong(s) = s
    <3>1. s \in 0 .. Power(2, LongBits) - 1
      BY <1>1, <1>2, <2>1
    <3> QED BY <1>4, <3>1, UnsignedCast, LongIsWidth DEF AsLong
  <2>3. Unsigned(s, bits) = s
    <3>1. s \in 0 .. Power(2, bits) - 1
      BY <1>1, <1>2, <2>1
    <3> QED BY <1>4, <3>1, UnsignedCast
  <2> QED BY <1>1, <1>4, <1>5, <2>2, <2>3 DEF Signed
<1>6. CASE s < 0
  <2>1. s + l \in 0 .. l - 1 /\ s + w \in 0 .. w - 1 /\ s + w >= h /\ s + l \in Int
    BY <1>2, <1>3, <1>4, <1>6
  <2>2. AsLong(s) = s + l
    <3>1. s = l * (-1) + (s + l)
      BY <1>4
    <3>2. s % l = s + l
      BY <1>4, <2>1, <3>1, RemainderUnique
    <3> QED BY <1>1, <1>2, <3>2 DEF AsLong, Unsigned
  <2>3. Unsigned(s + l, bits) = s + w
    <3>1. s + l = w * (k - 1) + (s + w) /\ k - 1 \in Int
      BY <1>2, <1>4
    <3>2. (s + l) % w = s + w
      BY <2>1, <3>1, RemainderUnique
    <3> QED BY <1>1, <1>2, <3>2 DEF Unsigned
  <2>4. Signed(s + l, bits) = s
    BY <1>1, <1>2, <1>4, <2>1, <2>3 DEF Signed
  <2>5. Power(2, LongBits) = l
    BY <1>1, <1>2
  <2>6. AsLong(s) = s + Power(2, LongBits) /\ Signed(AsLong(s), bits) = s
    BY <2>2, <2>4, <2>5
  <2> QED BY <1>4, <1>6, <2>6
<1> QED BY <1>4, <1>5, <1>6

(***************************************************************************)
(* An int with its highest bit set, taken for a negative number, has other *)
(* digits in octal: the bits it gains begin within the digits printed.     *)
(***************************************************************************)
LEMMA OctalOff ==
  ASSUME IntBits % 3 # 0, NEW n \in Nat, NEW m \in Nat, NEW q \in Nat,
         n >= Power(2, IntBits - 1), n < Power(8, m)
  PROVE  Power(2, LongBits) - Power(2, IntBits) # q * Power(8, m)
<1>1. IntBits \in Nat /\ IntBits - 1 \in Nat /\ LongBits - (IntBits + 1) \in Nat
      /\ IntBits + 1 \in Nat /\ (IntBits + 1) + (LongBits - (IntBits + 1)) = LongBits
  BY PrintAssumption
<1>2. 3 * m \in Nat /\ 3 * m >= IntBits
  <2> SUFFICES ASSUME 3 * m <= IntBits - 1 PROVE FALSE
    BY <1>1
  <2>1. 3 * m \in Nat /\ 3 * m \in 0 .. IntBits - 1
    BY <1>1
  <2>2. PICK x \in Nat, y \in Nat : x = Power(2, 3 * m) /\ y = Power(2, IntBits - 1)
    BY <1>1, <2>1, Powers
  <2>3. x <= y
    BY <1>1, <2>1, <2>2, PowersRise
  <2>4. Power(8, m) = x
    BY <2>2, PowerOfEight
  <2> QED BY <2>2, <2>3, <2>4
<1>3. 3 * m # IntBits
  <2> SUFFICES ASSUME IntBits = 3 * m PROVE IntBits % 3 = 0
    OBVIOUS
  <2>1. IntBits = 3 * m + 0 /\ 0 \in 0 .. 3 - 1 /\ IntBits \in Int /\ m \in Int
    BY <1>1
  <2> QED BY ONLY <2>1, 3 \in Nat \ {0}, RemainderUnique
<1>4. PICK t \in Nat : t = 3 * m - (IntBits + 1) /\ (IntBits + 1) + t = 3 * m
  BY <1>1, <1>2, <1>3
<1>5. PICK w \in Nat \ {0} : w = Power(2, IntBits)
  BY <1>1, PowersRise
<1>6. PICK x \in Nat, y \in Nat : x = Power(2, t) /\ y = Power(2, LongBits - (IntBits + 1))
  BY <1>1, Powers
<1>7. Power(2, IntBits + 1) = w * 2
  BY <1>1, <1>5, Powers
<1>8. Power(8, m) = (w * 2) * x
  <2>1. Power(2, (IntBits + 1) + t) = (w * 2) * x
    BY <1>1, <1>6, <1>7, PowerOfSum
  <2> QED BY <1>4, <2>1, PowerOfEight
<1>9. Power(2, LongBits) = (w * 2) * y
  <2>1. Power(2, (IntBits + 1) + (LongBits - (IntBits + 1))) = (w * 2) * y
    BY <1>1, <1>6, <1>7, PowerOfSum
  <2> QED BY <1>1, <2>1
<1>10. (w * 2) * y - w # q * ((w * 2) * x)
  <2> SUFFICES ASSUME (w * 2) * y - w = q * ((w * 2) * x) PROVE FALSE
    OBVIOUS
  <2>1. PICK z \in Int : z = 2 * y - 1 - 2 * (q * x)
    OBVIOUS
  <2>2. w * (2 * y - 1 - 2 * (q * x)) = (w * 2) * y - w - q * ((w * 2) * x)
    BY ONLY w \in Nat, y \in Nat, q \in Nat, x \in Nat
  <2>3. w * z = 0
    BY <2>1, <2>2
  <2>4. z = 0
    BY ONLY <2>3, w \in Nat \ {0}, z \in Int
  <2>5. PICK u \in Nat : u = q * x
    BY NatTimes
  <2> QED BY <2>1, <2>4, <2>5
<1> QED BY <1>5, <1>8, <1>9, <1>10

------------------------------------------------------------------------------
(* The letters, the conversions, and the numbers they are given. *)

LEMMA LettersApart ==
  ASSUME NEW letters \in {Lower, Upper}
  PROVE  /\ \A d \in 1 .. 16 : letters[d] \in Printable /\ letters[d] # "-"
         /\ \A d, e \in 1 .. 16 : letters[d] = letters[e] => d = e
         /\ letters[1] = "0"
<1>1. \A d \in 1 .. 16 : \/ d = 1 \/ d = 2 \/ d = 3 \/ d = 4 \/ d = 5 \/ d = 6 \/ d = 7 \/ d = 8
                         \/ d = 9 \/ d = 10 \/ d = 11 \/ d = 12 \/ d = 13 \/ d = 14 \/ d = 15 \/ d = 16
  OBVIOUS
<1>2. /\ letters[1] = "0" /\ letters[2] = "1" /\ letters[3] = "2" /\ letters[4] = "3"
      /\ letters[5] = "4" /\ letters[6] = "5" /\ letters[7] = "6" /\ letters[8] = "7"
      /\ letters[9] = "8" /\ letters[10] = "9"
  BY DEF Lower, Upper
<1>3. \/ /\ letters[11] = "a" /\ letters[12] = "b" /\ letters[13] = "c"
         /\ letters[14] = "d" /\ letters[15] = "e" /\ letters[16] = "f"
      \/ /\ letters[11] = "A" /\ letters[12] = "B" /\ letters[13] = "C"
         /\ letters[14] = "D" /\ letters[15] = "E" /\ letters[16] = "F"
  BY DEF Lower, Upper
<1>4. ASSUME NEW d \in 1 .. 16 PROVE letters[d] \in Printable /\ letters[d] # "-"
  <2>1. d <= 10 => letters[d] # "-"
    BY <1>1, <1>2
  <2>2. d > 10 => letters[d] # "-"
    BY <1>1, <1>3
  <2>3. letters[d] \in Printable
    BY DEF Printable
  <2> QED BY <2>1, <2>2, <2>3
<1>5. ASSUME NEW d \in 1 .. 16, NEW e \in 1 .. 16, letters[d] = letters[e] PROVE d = e
  <2>1. d <= 10 /\ e <= 10 => d = e
    BY <1>1, <1>2, <1>5
  <2>2. d <= 10 /\ e > 10 => FALSE
    BY <1>1, <1>2, <1>3, <1>5
  <2>3. d > 10 /\ e <= 10 => FALSE
    BY <1>1, <1>2, <1>3, <1>5
  <2>4. d > 10 /\ e > 10 => d = e
    BY <1>1, <1>3, <1>5
  <2> QED BY <2>1, <2>2, <2>3, <2>4
<1> QED BY <1>2, <1>4, <1>5

LEMMA ConversionsKnown ==
  ASSUME NEW letter \in DOMAIN Conversions
  PROVE  ConvKnown(Conversions[letter])
<1>1. \A bits \in Widths : ConvKnown(DecimalOf(bits))
  BY DEF ConvKnown, Conversion, DecimalOf
<1>2. \A bits \in Widths, base \in {8, 10, 16}, letters \in {Lower, Upper} :
        ConvKnown(UnsignedOf(bits, base, letters))
  BY DEF ConvKnown, Conversion, UnsignedOf
<1>3. ConvKnown(Conversion(IntBits, FALSE, TRUE, 8, Lower))
  BY DEF ConvKnown, Conversion, Widths
<1>4. ShortBits \in Widths /\ IntBits \in Widths /\ LongBits \in Widths
  BY DEF Widths
<1>5. CASE Conversions = LongConversions
  <2>1. letter \in {"d", "o", "u", "x", "X"}
    BY <1>5 DEF LongConversions
  <2> QED BY <1>1, <1>2, <1>4, <1>5, <2>1 DEF LongConversions
<1>6. CASE Conversions = ShortConversions
  <2>1. letter \in {"d", "o", "s", "u", "x", "X"}
    BY <1>6 DEF ShortConversions
  <2> QED BY <1>1, <1>2, <1>4, <1>6, <2>1 DEF ShortConversions
<1>7. CASE Conversions = IntConversions
  <2>1. letter \in {"d", "o", "u", "x", "X"}
    BY <1>7 DEF IntConversions
  <2>2. /\ IntConversions["d"] = DecimalOf(IntBits)
        /\ IntConversions["o"] = Conversion(IntBits, FALSE, TRUE, 8, Lower)
        /\ IntConversions["u"] = UnsignedOf(IntBits, 10, Lower)
        /\ IntConversions["x"] = UnsignedOf(IntBits, 16, Lower)
        /\ IntConversions["X"] = UnsignedOf(IntBits, 16, Upper)
    BY DEF IntConversions
  <2> QED BY <1>1, <1>2, <1>3, <1>4, <1>7, <2>1, <2>2
<1> QED BY <1>5, <1>6, <1>7 DEF Conversions

LEMMA BasesKnown ==
  ASSUME NEW c, ConvKnown(c)
  PROVE  /\ c.base \in Nat \ {0} /\ c.base \in Nat /\ c.base >= 2 /\ c.base <= 16
         /\ 1 .. c.base \subseteq 1 .. 16
         /\ c.bits \in Widths /\ c.letters \in {Lower, Upper}
BY DEF ConvKnown

(* What an argument stands for. *)
StandsFor(c, arg) ==
  IF c.signed THEN Signed(arg, c.bits) ELSE Unsigned(arg, c.bits)

LEMMA ArgumentKnown ==
  ASSUME NEW c, ConvKnown(c), NEW arg \in 0 .. Power(2, LongBits) - 1,
         NEW m, m = StandsFor(c, arg), NEW s, s = Abs(m)
  PROVE  /\ m \in Int /\ s \in Nat /\ s < Power(2, LongBits)
         /\ m < 0 <=> m = -s /\ s > 0
         /\ m >= 0 <=> m = s
         /\ c.signed => m \in SignedRange(c.bits)
         /\ ~c.signed => m = s /\ s \in 0 .. Power(2, c.bits) - 1
         /\ (c.signed /\ m = -Power(2, c.bits - 1)) => s = Power(2, c.bits - 1) /\ m < 0
<1>1. c.bits \in Widths
  BY DEF ConvKnown
<1>2. PICK h \in Nat \ {0}, k \in Nat \ {0} :
        /\ Power(2, c.bits - 1) = h /\ Power(2, c.bits) = h * 2
        /\ Power(2, LongBits) = (h * 2) * k
  BY <1>1, WidthKnown
<1>3. PICK w \in Nat \ {0}, l \in Nat \ {0} : w = h * 2 /\ l = w * k /\ l >= w /\ l = Power(2, LongBits)
  <2>1. PICK w \in Nat \ {0} : w = h * 2
    OBVIOUS
  <2>2. w * k = w * (k - 1) + w /\ w * (k - 1) >= 0
    BY ONLY w \in Nat \ {0}, k \in Nat \ {0}
  <2>3. PICK l \in Nat : l = w * k
    BY NatTimes
  <2>4. l >= w
    BY <2>2, <2>3
  <2> QED BY <1>2, <2>1, <2>3, <2>4
<1>4. arg \in Int /\ arg >= 0 /\ arg < l
  BY <1>1, <1>3
<1>5. c.signed \in BOOLEAN
  BY DEF ConvKnown
<1>6. CASE c.signed
  <2>1. m \in SignedRange(c.bits)
    BY <1>1, <1>4, <1>6, SignedCast DEF StandsFor
  <2>2. m \in Int /\ -h <= m /\ m < h
    BY <1>2, <2>1 DEF SignedRange
  <2>3. h < w
    BY <1>3
  <2> QED BY <1>2, <1>3, <1>6, <2>1, <2>2, <2>3 DEF Abs
<1>7. CASE ~c.signed
  <2>1. m \in 0 .. w - 1
    BY <1>1, <1>2, <1>3, <1>4, <1>7, UnsignedCast DEF StandsFor
  <2> QED BY <1>2, <1>3, <1>7, <2>1 DEF Abs
<1> QED BY <1>5, <1>6, <1>7

LEMMA MeaningKnown ==
  ASSUME FieldKnown
  PROVE  /\ Meaning \in Int /\ Size \in Nat /\ Size < Power(2, LongBits)
         /\ Meaning < 0 <=> Meaning = -Size /\ Size > 0
         /\ Meaning >= 0 <=> Meaning = Size
         /\ field.conv.signed => Meaning \in SignedRange(field.conv.bits)
         /\ ~field.conv.signed => Meaning = Size /\ Size \in 0 .. Power(2, field.conv.bits) - 1
         /\ Lowest => Size = Power(2, field.conv.bits - 1) /\ Meaning < 0
<1>1. ConvKnown(field.conv) /\ field.arg \in 0 .. Power(2, LongBits) - 1
  BY DEF FieldKnown
<1>2. PICK arg \in 0 .. Power(2, LongBits) - 1, c \in {field.conv} : arg = field.arg /\ ConvKnown(c)
  BY <1>1
<1>3. PICK m, s : m = Meaning /\ m = StandsFor(c, arg) /\ s = Size /\ s = Abs(m)
  <2>1. Meaning = StandsFor(c, arg)
    BY <1>2 DEF Meaning, StandsFor
  <2>2. Size = Abs(Meaning)
    BY DEF Size
  <2> QED BY <2>1, <2>2
<1>4. Lowest <=> c.signed /\ m = -Power(2, c.bits - 1)
  BY <1>2, <1>3 DEF Lowest
<1> QED BY <1>2, <1>3, <1>4, ArgumentKnown

(* An int with its highest bit set, printed in octal. *)
OctalMisprint ==
  ~field.conv.signed /\ field.conv.signedDigits /\ Meaning >= Power(2, field.conv.bits - 1)

LEMMA MisprintedIs == Misprinted <=> (Lowest \/ OctalMisprint)
BY DEF Misprinted, Lowest, OctalMisprint

LEMMA TakenForKnown ==
  ASSUME FieldKnown, ~Lowest
  PROVE  /\ TakenFor \in Nat
         /\ ~OctalMisprint => TakenFor = Size
         /\ OctalMisprint => /\ field.conv.bits = IntBits /\ field.conv.base = 8
                             /\ TakenFor = Size - Power(2, IntBits) + Power(2, LongBits)
                             /\ Size >= Power(2, IntBits - 1)
                             /\ Power(2, LongBits) > Power(2, IntBits)
<1> DEFINE bits == field.conv.bits
<1>1. bits \in Widths /\ field.conv.signed \in BOOLEAN /\ field.conv.signedDigits \in BOOLEAN
      /\ (field.conv.signed => field.conv.signedDigits)
      /\ ((field.conv.signedDigits /\ ~field.conv.signed) => field.conv.base = 8 /\ bits = IntBits)
  BY DEF FieldKnown, ConvKnown
<1>2. PICK h \in Nat \ {0}, k \in Nat \ {0} :
        Power(2, bits - 1) = h /\ Power(2, bits) = h * 2 /\ Power(2, LongBits) = (h * 2) * k
  BY <1>1, WidthKnown
<1> HIDE DEF bits
<1>3. PICK n \in Nat : n = Size
  BY MeaningKnown
<1>4. ASSUME n < h, field.conv.signedDigits PROVE TakenFor = n
  <2>1. n \in SignedRange(bits) /\ n >= 0
    BY <1>2, <1>4 DEF SignedRange
  <2>2. AsLong(n) = n /\ Signed(AsLong(n), bits) = n
    BY <1>1, <2>1, SignedFromLong
  <2> QED BY <1>3, <1>4, <2>2 DEF TakenFor, bits
<1>5. CASE ~field.conv.signedDigits
  BY <1>1, <1>3, <1>5 DEF TakenFor, OctalMisprint
<1>6. CASE field.conv.signed
  <2>1. Meaning \in SignedRange(bits) /\ Meaning # -h
    BY <1>2, <1>6, MeaningKnown DEF Lowest, bits
  <2>2. Meaning \in Int /\ -h < Meaning /\ Meaning < h
    BY <1>2, <2>1 DEF SignedRange
  <2>3. n < h
    BY <1>3, <2>2 DEF Size, Abs
  <2> QED BY <1>1, <1>3, <1>4, <1>6, <2>3 DEF OctalMisprint
<1>7. CASE field.conv.signedDigits /\ ~field.conv.signed
  <2>1. Meaning = n /\ n \in 0 .. Power(2, bits) - 1 /\ bits = IntBits /\ field.conv.base = 8
    BY <1>1, <1>3, <1>7, MeaningKnown DEF bits
  <2>2. OctalMisprint <=> n >= h
    BY <1>2, <1>7, <2>1 DEF OctalMisprint, bits
  <2>3. CASE n < h
    BY <1>3, <1>4, <1>7, <2>2, <2>3
  <2>4. CASE n >= h
    <3>1. Unsigned(n, bits) = n
      BY <1>1, <2>1, UnsignedCast
    <3>2. Signed(n, bits) = n - h * 2
      BY <1>2, <2>4, <3>1 DEF Signed
    <3>3. n - h * 2 \in SignedRange(bits) /\ n - h * 2 < 0
      BY <1>2, <2>1, <2>4 DEF SignedRange
    <3>4. AsLong(n - h * 2) = n - h * 2 + Power(2, LongBits)
      BY <1>1, <3>3, SignedFromLong
    <3>5. TakenFor = n - h * 2 + Power(2, LongBits)
      BY <1>3, <1>7, <3>2, <3>4 DEF TakenFor, bits
    <3>6. Power(2, LongBits) \in Nat /\ Power(2, LongBits) > Power(2, IntBits)
      <4>1. LongBits \in Nat /\ IntBits \in Nat /\ IntBits + 1 \in 0 .. LongBits
        BY PrintAssumption
      <4>2. PICK x \in Nat \ {0} : x = Power(2, IntBits)
        BY <4>1, PowersRise
      <4>3. PICK y \in Nat : y = Power(2, IntBits + 1) /\ y = x * 2
        BY <4>1, <4>2, Powers
      <4>4. PICK z \in Nat : z = Power(2, LongBits) /\ y <= z
        BY <4>1, <4>3, PowersRise
      <4> QED BY <4>2, <4>3, <4>4
    <3>7. PICK l \in Nat : l = Power(2, LongBits) /\ l > h * 2
      BY <1>2, <2>1, <3>6
    <3>8. n - h * 2 + l \in Nat
      BY <3>7
    <3>9. h * 2 = Power(2, IntBits) /\ h = Power(2, IntBits - 1)
      BY <1>2, <2>1
    <3> QED BY <1>3, <2>1, <2>2, <2>4, <3>5, <3>6, <3>7, <3>8, <3>9 DEF bits
  <2> QED BY <1>2, <1>3, <2>3, <2>4
<1> QED BY <1>1, <1>5, <1>6, <1>7

(* Where the digits begin, and what they are. *)
LEMMA DigitsShown ==
  ASSUME FieldKnown, out \in Seq(Printable),
         NEW k \in Nat \ {0}, Signs(k), out[Start] # "-"
  PROVE  /\ Minus <=> Meaning < 0
         /\ Len(Digits) = k /\ Digits # <<>>
         /\ \A j \in 1 .. k : Digits[j] = out[Start - 1 + j]
<1>1. Meaning \in Int /\ field.from \in Nat \ {0}
  BY MeaningKnown DEF FieldKnown
<1>2. Minus <=> Meaning < 0
  <2>1. Meaning < 0 => Minus
    BY DEF Signs, Minus
  <2>2. ~(Meaning < 0) => ~Minus
    BY DEF Minus, Start
  <2> QED BY <2>1, <2>2
<1>3. PICK s \in Nat \ {0}, e \in Nat : s = Start /\ e = Len(out) /\ e = s - 1 + k
  <2>1. PICK s \in Nat \ {0} : s = Start
    BY <1>1 DEF Start
  <2>2. Len(out) = s - 1 + k
    BY <2>1 DEF Signs
  <2>3. s - 1 + k \in Nat
    BY <1>1
  <2> QED BY <2>1, <2>2, <2>3
<1>4. Digits = SubSeq(out, s, e)
  <2>1. s = IF Minus THEN field.from + 1 ELSE field.from
    BY <1>2, <1>3 DEF Start
  <2> QED BY <1>3, <2>1 DEF Digits
<1>5. \A j \in s .. e : out[j] \in Printable
  <2>1. Len(out) \in Nat
    BY LenProperties
  <2>2. \A j \in s .. e : j \in 1 .. Len(out)
    BY <1>1, <1>3, <2>1
  <2> QED BY <2>2, ElementOfSeq
<1>6. /\ SubSeq(out, s, e) \in Seq(Printable)
      /\ Len(SubSeq(out, s, e)) = e - s + 1
      /\ \A j \in 1 .. e - s + 1 : SubSeq(out, s, e)[j] = out[s + j - 1]
  <2>1. s <= e
    BY <1>3
  <2> QED BY <1>5, <2>1, SubSeqProperties
<1>7. e - s + 1 = k
  BY <1>3
<1>8. Digits # <<>>
  BY <1>4, <1>6, <1>7, EmptySeq
<1>9. \A j \in 1 .. k : Digits[j] = out[Start - 1 + j]
  <2> TAKE j \in 1 .. k
  <2>1. s + j - 1 = s - 1 + j
    OBVIOUS
  <2> QED BY <1>3, <1>4, <1>6, <1>7, <2>1
<1> QED BY <1>2, <1>4, <1>6, <1>7, <1>8, <1>9

------------------------------------------------------------------------------
(* A number that is printed to its end shows what it should, or is misprinted. *)

(* A single zero. *)
LEMMA ZeroFaithful ==
  ASSUME FieldKnown, out \in Seq(Printable),
         Zero
  PROVE  IsNumeralOf(Meaning) <=> ~Misprinted
<1>2. Signs(1) /\ out[Start] = "0" /\ (Size = 0 \/ Lowest)
  BY DEF Zero
<1>3. /\ Minus <=> Meaning < 0
      /\ Len(Digits) = 1 /\ Digits # <<>>
      /\ \A j \in 1 .. 1 : Digits[j] = out[Start - 1 + j]
  <2>1. out[Start] # "-" /\ 1 \in Nat \ {0}
    BY <1>2
  <2> QED BY <1>2, <2>1, DigitsShown
<1>4. Digits[1] = "0"
  <2>1. Start - 1 + 1 = Start
    BY MeaningKnown DEF Start, FieldKnown
  <2> QED BY <1>2, <1>3, <2>1
<1>5. PICK b \in Nat \ {0} : b = field.conv.base /\ b <= 16 /\ field.conv.letters \in {Lower, Upper}
  BY BasesKnown DEF FieldKnown
<1>6. field.conv.letters[1] = "0" /\ 1 \in 1 .. b
  <2>1. PICK letters \in {Lower, Upper} : letters = field.conv.letters
    BY <1>5
  <2>2. letters[1] = "0"
    BY LettersApart
  <2> QED BY <2>1, <2>2
<1>7. ValueOf(Digits) = 0
  <2>0. PICK n \in Nat : n = 1
    OBVIOUS
  <2>1. PICK c \in [1 .. n -> 1 .. b], g \in [0 .. n -> Int] :
          c = [j \in 1 .. n |-> 1] /\ g = [j \in 0 .. n |-> 0]
    <3>1. [j \in 1 .. n |-> 1] \in [1 .. n -> 1 .. b]
      BY <1>6
    <3>2. [j \in 0 .. n |-> 0] \in [0 .. n -> Int]
      OBVIOUS
    <3> QED BY <3>1, <3>2
  <2>2. Reads(b, n, c, g)
    <3>1. g[0] = 0 /\ g[1] = 0 /\ c[1] = 1 /\ 0 * b + 1 - 1 = 0 /\ 1 - 1 = 0
      BY <2>0, <2>1
    <3> QED BY <2>0, <3>1 DEF Reads
  <2>3. LettersDiffer(b)
    <3>1. \A d \in 1 .. b : d \in 1 .. 16
      BY <1>5
    <3>2. PICK letters \in {Lower, Upper} : letters = field.conv.letters
      BY <1>5
    <3>3. \A d, f \in 1 .. 16 : letters[d] = letters[f] => d = f
      BY LettersApart
    <3> QED BY <1>5, <3>1, <3>2, <3>3 DEF LettersDiffer
  <2>4. Spelt(Digits, n, c)
    BY <1>3, <1>4, <1>6, <2>0, <2>1 DEF Spelt
  <2>5. ValueOf(Digits) = g[n]
    BY <2>2, <2>3, <2>4, ValueRead
  <2> QED BY <2>0, <2>1, <2>5
<1>8. \A k \in 1 .. Len(Digits) : IsDigit(Digits[k])
  BY <1>3, <1>4, <1>5, <1>6 DEF IsDigit
<1>9. IsNumeralOf(Meaning) <=> Size = 0
  BY <1>3, <1>7, <1>8 DEF IsNumeralOf, Size
<1>10. PICK h \in Nat \ {0} : h = Power(2, field.conv.bits - 1)
  <2>1. field.conv.bits \in Widths
    BY DEF FieldKnown, ConvKnown
  <2> QED BY <2>1, WidthKnown
<1>11. Lowest => Size # 0
  BY <1>10, MeaningKnown
<1>12. Size = 0 => ~OctalMisprint
  BY <1>10, MeaningKnown DEF OctalMisprint
<1> QED BY <1>2, <1>9, <1>11, <1>12, MisprintedIs

(* A first digit is not 0. *)
LEMMA FirstDigit ==
  ASSUME NEW b \in Nat \ {0}, NEW n \in Nat \ {0}, NEW x \in Nat,
         Power(b, n - 1) <= x, x < Power(b, n)
  PROVE  (x \div Power(b, n - 1)) % b # 0 /\ x \div Power(b, n) = 0
<1>1. n - 1 \in Nat /\ (n - 1) + 1 = n
  OBVIOUS
<1>2. PICK y \in Nat \ {0} : y = Power(b, n - 1)
  BY <1>1, PowersRise
<1>3. PICK z \in Nat \ {0} : z = Power(b, n) /\ z = y * b
  <2>1. Power(b, n) = y * b
    BY <1>1, <1>2, Powers
  <2>2. Power(b, n) \in Nat \ {0}
    BY PowersRise
  <2> QED BY <2>1, <2>2
<1>4. x \div z = 0
  <2>1. x = z * 0 + x /\ x \in 0 .. z - 1
    BY <1>3
  <2> QED BY <2>1, DivisionUnique
<1>5. PICK q \in Nat, r \in 0 .. y - 1 : q = x \div y /\ x = y * q + r
  <2>1. x \div y \in Nat /\ x % y \in 0 .. y - 1 /\ x = y * (x \div y) + (x % y)
    BY Divided
  <2> QED BY ONLY <2>1
<1>6. q # 0
  BY <1>2, <1>5
<1>7. ThenBy(x, y, b, z)
  BY <1>3, DividedTwice
<1>8. q = q % b
  <2>1. q % b \in Int
    BY Divided
  <2>2. 0 * b = 0
    OBVIOUS
  <2> QED BY <1>4, <1>5, <1>7, <2>1, <2>2 DEF ThenBy
<1> QED BY <1>2, <1>3, <1>4, <1>5, <1>6, <1>8

LEMMA NumeralFaithful ==
  ASSUME OctalUneven, FieldKnown, out \in Seq(Printable), ~Lowest,
         NEW n \in Nat \ {0}, Numeral(n, n)
  PROVE  IsNumeralOf(Meaning) <=> ~Misprinted
<1>2. PICK b \in Nat \ {0} : b = field.conv.base /\ b <= 16
  BY BasesKnown DEF FieldKnown
<1>3. PICK letters \in {Lower, Upper} : letters = field.conv.letters
  BY BasesKnown DEF FieldKnown
<1>4. PICK x \in Nat, t \in Nat : x = Size /\ t = TakenFor
  BY MeaningKnown, TakenForKnown
<1>5. /\ Signs(n) /\ Power(b, n - 1) <= x /\ x < Power(b, n)
      /\ \A j \in 1 .. n : out[Start - 1 + j] = letters[((t \div Power(b, n - j)) % b) + 1]
  BY <1>2, <1>3, <1>4 DEF Numeral, HasPlaces, DigitAt
<1>6. PICK c \in [1 .. n -> 1 .. b] : c = [j \in 1 .. n |-> ((t \div Power(b, n - j)) % b) + 1]
  <2>1. ASSUME NEW j \in 1 .. n PROVE ((t \div Power(b, n - j)) % b) + 1 \in 1 .. b
    <3>1. PICK y \in Nat \ {0} : y = Power(b, n - j)
      <4>1. n - j \in Nat
        OBVIOUS
      <4> QED BY <4>1, PowersRise
    <3>2. PICK q \in Nat : q = t \div y
      BY Divided
    <3>3. q % b \in 0 .. b - 1
      BY Divided
    <3>4. (q % b) + 1 \in 1 .. b
      BY ONLY <3>3, b \in Nat \ {0}
    <3> QED BY ONLY <3>1, <3>2, <3>4
  <2> QED BY <2>1
<1>7. \A d \in 1 .. b : letters[d] # "-" /\ letters[d] \in Printable
  <2>1. \A d \in 1 .. b : d \in 1 .. 16
    BY <1>2
  <2> QED BY <2>1, LettersApart
<1>8. \A d, f \in 1 .. b : letters[d] = letters[f] => d = f
  <2>1. \A d \in 1 .. b : d \in 1 .. 16
    BY <1>2
  <2> QED BY <2>1, LettersApart
<1>9. \A j \in 1 .. n : out[Start - 1 + j] = letters[c[j]]
  BY <1>5, <1>6
<1>10. out[Start] # "-"
  <2>1. Start - 1 + 1 = Start /\ 1 \in 1 .. n
    BY MeaningKnown DEF Start, FieldKnown
  <2>2. out[Start] = letters[c[1]] /\ c[1] \in 1 .. b
    BY <1>9, <2>1
  <2> QED BY <1>7, <2>2
<1>11. /\ Minus <=> Meaning < 0
       /\ Len(Digits) = n /\ Digits # <<>>
       /\ \A j \in 1 .. n : Digits[j] = out[Start - 1 + j]
  BY <1>5, <1>10, DigitsShown
<1>12. \A j \in 1 .. n : Digits[j] = letters[c[j]] /\ c[j] \in 1 .. b
  BY <1>9, <1>11
<1>13. \A j \in 1 .. Len(Digits) : IsDigit(Digits[j])
  BY <1>2, <1>3, <1>11, <1>12 DEF IsDigit
<1>14. ValueOf(Digits) = t - (t \div Power(b, n)) * Power(b, n)
  <2>1. PICK g \in [0 .. n -> Int] : g = [j \in 0 .. n |-> Horner(t, b, n, j)]
    BY HornerSteps
  <2>2. Reads(b, n, c, g)
    <3>1. ASSUME NEW j \in 1 .. n PROVE g[j] = g[j - 1] * b + c[j] - 1
      <4>1. g[j] = g[j - 1] * b + ((t \div Power(b, n - j)) % b)
        <5>1. j \in 0 .. n /\ j - 1 \in 0 .. n
          OBVIOUS
        <5> QED BY <2>1, <5>1, HornerSteps
      <4>2. PICK d \in Int : d = (t \div Power(b, n - j)) % b /\ c[j] = d + 1
        <5>1. c[j] \in Int /\ c[j] = ((t \div Power(b, n - j)) % b) + 1
          BY <1>6
        <5>2. (t \div Power(b, n - j)) % b \in Int
          <6>1. PICK y \in Nat \ {0} : y = Power(b, n - j)
            <7>1. n - j \in Nat
              OBVIOUS
            <7> QED BY <7>1, PowersRise
          <6>2. PICK q \in Nat : q = t \div y
            BY Divided
          <6>3. q % b \in 0 .. b - 1
            BY Divided
          <6> QED BY <6>1, <6>2, <6>3
        <5> QED BY <5>1, <5>2
      <4>3. PICK u \in Int : u = g[j - 1] * b
        OBVIOUS
      <4> QED BY <4>1, <4>2, <4>3
    <3>2. g[0] = 0
      BY <2>1, HornerSteps
    <3> QED BY <3>1, <3>2 DEF Reads
  <2>3. ValueOf(Digits) = g[n]
    <3>1. LettersDiffer(b)
      BY <1>2, <1>3, <1>8 DEF LettersDiffer
    <3>2. Spelt(Digits, n, c)
      BY <1>3, <1>11, <1>12 DEF Spelt
    <3> QED BY <2>2, <3>1, <3>2, ValueRead
  <2>4. g[n] = t - (t \div Power(b, n)) * Power(b, n)
    BY <2>1, HornerSteps
  <2> QED BY <2>3, <2>4
<1>15. PICK m \in Nat \ {0} : m = Power(b, n)
  BY PowersRise
<1>16. CASE ~OctalMisprint
  <2>1. t = x
    BY <1>4, <1>16, TakenForKnown
  <2>2. (t \div Power(b, n - 1)) % b # 0 /\ t \div Power(b, n) = 0
    BY <1>5, <2>1, FirstDigit
  <2>3. ValueOf(Digits) = x
    <3>1. 0 * m = 0 /\ t - 0 = t
      OBVIOUS
    <3> QED BY <1>14, <1>15, <2>1, <2>2, <3>1
  <2>4. Digits[1] # "0"
    <3>1. 1 \in 1 .. n /\ 1 \in 1 .. b
      OBVIOUS
    <3>2. c[1] # 1
      <4>1. c[1] = ((t \div Power(b, n - 1)) % b) + 1 /\ c[1] \in Int
        <5>1. c[1] \in 1 .. b
          BY <3>1
        <5> QED BY <1>6, <3>1, <5>1
      <4>2. (t \div Power(b, n - 1)) % b = 0 <=> c[1] = 1
        <5>1. PICK y \in Nat \ {0} : y = Power(b, n - 1)
          <6>1. n - 1 \in Nat
            OBVIOUS
          <6> QED BY <6>1, PowersRise
        <5>2. PICK q \in Nat : q = t \div y
          BY Divided
        <5>3. q % b \in 0 .. b - 1
          BY Divided
        <5> QED BY <4>1, <5>1, <5>2, <5>3
      <4> QED BY <2>2, <4>2
    <3>3. letters[1] = "0"
      BY LettersApart
    <3> QED BY <1>8, <1>12, <3>1, <3>2, <3>3
  <2>5. IsNumeralOf(Meaning)
    BY <1>4, <1>11, <1>13, <2>3, <2>4 DEF IsNumeralOf, Size
  <2> QED BY <1>16, <2>5, MisprintedIs
<1>17. CASE OctalMisprint
  <2>1. /\ b = 8 /\ t = x - Power(2, IntBits) + Power(2, LongBits)
        /\ x >= Power(2, IntBits - 1)
    BY <1>2, <1>4, <1>17, TakenForKnown
  <2>2. PICK q \in Nat : q = t \div m
    BY Divided
  <2>3. Power(2, LongBits) - Power(2, IntBits) # q * m
    BY <1>5, <1>15, <2>1, OctalOff DEF OctalUneven
  <2>4. PICK w \in Nat, l \in Nat : w = Power(2, IntBits) /\ l = Power(2, LongBits)
    BY PrintAssumption, Powers
  <2>5. PICK y \in Int : y = q * m
    OBVIOUS
  <2>6. t - y # x
    <3>1. l - w # y /\ t = x - w + l
      BY <2>1, <2>3, <2>4, <2>5
    <3> QED BY ONLY <3>1, t \in Nat, x \in Nat, w \in Nat, l \in Nat, y \in Int
  <2>7. ValueOf(Digits) # Size
    BY <1>4, <1>14, <1>15, <2>2, <2>5, <2>6
  <2> QED BY <1>17, <2>7, MisprintedIs DEF IsNumeralOf, Size
<1> QED BY <1>16, <1>17

LEMMA NumbersAgree == ASSUME OctalUneven, NumbersInv PROVE NumbersFaithful
<1> SUFFICES ASSUME pc = "print", field.kind = "integer" PROVE IsNumeralOf(Meaning) <=> ~Misprinted
  BY DEF NumbersFaithful
<1>1. FieldKnown /\ Whole
  BY DEF NumbersInv, PrintedInv
<1>2. out \in Seq(Printable)
  BY DEF NumbersInv, FormatInv
<1>3. \A n \in 1 .. LongBits : n \in Nat \ {0}
  BY PrintAssumption
<1> QED BY <1>1, <1>2, <1>3, ZeroFaithful, NumeralFaithful DEF Whole

------------------------------------------------------------------------------
(* The steps, one by one. *)

LEMMA MeaningKept ==
  ASSUME UNCHANGED field
  PROVE  /\ FieldKnown' <=> FieldKnown
         /\ Lowest' <=> Lowest
         /\ Meaning' = Meaning /\ Size' = Size /\ Start' = Start /\ TakenFor' = TakenFor
BY DEF FieldKnown, Lowest, Meaning, Size, Start, TakenFor

LEMMA NumbersInit == ASSUME PrintInit PROVE NumbersInv
<1>1. NUL \in Nat \ {0}
  BY FormatLength DEF PrintInit
<1>2. FormatInv
  BY <1>1 DEF PrintInit, FormatInv, NumberPhases, DoublePhases
<1> QED BY <1>2 DEF PrintInit, NumbersInv, SignInv, CountInv, DigitsInv, PrintedInv, NoField

(* Nothing is being printed. *)
LEMMA NoNumber ==
  ASSUME FormatInv', pc' \notin NumberPhases, pc' = "print" => field'.kind # "integer"
  PROVE  NumbersInv'
BY DEF NumbersInv, SignInv, CountInv, DigitsInv, PrintedInv, NumberPhases

LEMMA PassesKeepNumbers ==
  ASSUME NumbersInv, CountTurn \/ CountEnds \/ Done
  PROVE  NumbersInv'
<1>1. /\ FormatInv /\ pc \in {"count", "print"} /\ pc' \in {"count", "overrun", "print", "done"}
      /\ UNCHANGED <<input, str, taken, takenDoubles, out, field>>
      /\ pc' \in {"count", "print"} => field = NoField
  <2>1. FormatInv
    BY DEF NumbersInv
  <2>2. CASE CountTurn
    BY <2>1, <2>2 DEF CountTurn, FormatInv
  <2>3. CASE CountEnds
    BY <2>1, <2>3 DEF CountEnds, FormatInv
  <2>4. CASE Done
    BY <2>1, <2>4 DEF Done
  <2> QED BY <2>2, <2>3, <2>4
<1>2. NUL' = NUL
  BY <1>1 DEF NUL
<1>3. FormatInv'
  BY <1>1, <1>2 DEF FormatInv, NumberPhases, DoublePhases
<1> QED BY <1>1, <1>3, NoNumber DEF NumberPhases, NoField

LEMMA FinishedKeepsNumbers ==
  ASSUME NumbersInv, UNCHANGED printVars
  PROVE  NumbersInv'
<1>1. UNCHANGED <<input, pc, str, taken, takenDoubles, conv, value, value_cpy, places, out, field>>
  BY DEF printVars, number
<1>2. /\ FieldKnown' <=> FieldKnown
      /\ Lowest' <=> Lowest
      /\ Meaning' = Meaning /\ Size' = Size /\ Start' = Start /\ TakenFor' = TakenFor
  BY <1>1, MeaningKept
<1>3. NUL' = NUL
  BY <1>1 DEF NUL
<1>4. FormatInv'
  BY <1>1, <1>2, <1>3 DEF NumbersInv, FormatInv
<1>5. \A k : Signs(k)' <=> Signs(k)
  BY <1>1, <1>2 DEF Signs
<1>6. \A n, k : Numeral(n, k)' <=> Numeral(n, k)
  BY <1>1, <1>2, <1>5 DEF Numeral, HasPlaces, DigitAt
<1>7. Whole' <=> Whole
  BY <1>1, <1>2, <1>5, <1>6 DEF Whole, Zero
<1>8. SignInv' /\ CountInv' /\ DigitsInv'
  BY <1>1, <1>2, <1>5, <1>6 DEF NumbersInv, SignInv, CountInv, DigitsInv, PlacesSeen
<1>9. PrintedInv'
  BY <1>1, <1>2, <1>7 DEF NumbersInv, PrintedInv
<1> QED BY <1>4, <1>8, <1>9 DEF NumbersInv

(* The second pass goes past what is not a number. *)
LEMMA GoesPast ==
  ASSUME FormatInv, Printing, NEW next \in {str + 1, str + 2, str + 3}, Goes(next),
         field' = NoField, input' = input, out' \in Seq(Printable),
         taken' = taken \/ (taken' = taken + 1 /\ next # str + 1),
         takenDoubles' = takenDoubles
  PROVE  NumbersInv'
<1>1. NUL' = NUL /\ NUL \in Nat \ {0}
  BY FormatLength DEF FormatInv, NUL
<1>2. /\ input \in Inputs /\ taken \in Nat /\ takenDoubles \in Nat
      /\ str \in 1 .. NUL /\ 2 * taken <= str - 1 /\ 2 * takenDoubles <= str - 1
  BY DEF FormatInv, Printing
<1>3. /\ pc' \in {"overrun", "print"} /\ str' = next
      /\ pc' = "print" => str' <= NUL
  BY <1>1, <1>2 DEF Goes
<1>4. pc' = "print" => str' \in 1 .. NUL /\ 2 * taken' <= str' - 1 /\ 2 * takenDoubles' <= str' - 1
  BY <1>1, <1>2, <1>3
<1>5. taken' \in Nat /\ takenDoubles' \in Nat
  BY <1>2
<1>6. FormatInv'
  BY <1>1, <1>2, <1>3, <1>4, <1>5 DEF FormatInv, NumberPhases, DoublePhases
<1> QED BY <1>3, <1>6, NoNumber DEF NumberPhases, NoField

LEMMA PercentKnown == ASSUME FormatInv PROVE AfterPercent \in {str + 2, str + 3}
BY DEF AfterPercent

LEMMA LiteralsKeepNumbers ==
  ASSUME NumbersInv, Literal \/ PrintPercent \/ PrintArgumentCharacter \/ Ignore
  PROVE  NumbersInv'
<1>1. FormatInv /\ out \in Seq(Printable) /\ AfterPercent \in {str + 2, str + 3}
  BY PercentKnown DEF NumbersInv, FormatInv
<1>2. CASE Literal
  <2>1. At(str) \in Printable
    <3>1. NUL \in Nat /\ str \in 1 .. NUL /\ str # NUL /\ NUL = Len(input.fmt) + 1
      BY <1>1, <1>2, FormatLength DEF Literal, Printing, FormatInv, At, NUL
    <3>2. input.fmt \in Seq(STRING)
      BY <1>1, PrintAssumption DEF FormatInv
    <3>3. str \in 1 .. Len(input.fmt)
      BY <3>1, <3>2, LenProperties
    <3>4. input.fmt[str] \in STRING
      BY <3>2, <3>3, ElementOfSeq
    <3> QED BY <3>1, <3>4 DEF At, Printable
  <2>2. out' \in Seq(Printable)
    BY <1>1, <1>2, <2>1, AppendProperties DEF Literal
  <2> QED BY <1>1, <1>2, <2>2, GoesPast DEF Literal
<1>3. CASE PrintPercent
  <2>1. out' \in Seq(Printable)
    <3>1. "%" \in Printable
      BY DEF Printable
    <3> QED BY <1>1, <1>3, <3>1, AppendProperties DEF PrintPercent
  <2> QED BY <1>1, <1>3, <2>1, GoesPast DEF PrintPercent, Percent
<1>4. CASE PrintArgumentCharacter
  <2>1. out' \in Seq(Printable)
    <3>1. "chr" \in Printable
      BY DEF Printable
    <3> QED BY <1>1, <1>4, <3>1, AppendProperties DEF PrintArgumentCharacter
  <2>2. AfterPercent # str + 1
    <3>1. NUL \in Nat /\ str \in 1 .. NUL
      BY <1>1, <1>4, FormatLength DEF FormatInv, PrintArgumentCharacter, Percent, Printing
    <3>2. str + 2 # str + 1 /\ str + 3 # str + 1
      BY <3>1
    <3> QED BY <1>1, <3>2
  <2> QED BY <1>1, <1>4, <2>1, <2>2, GoesPast DEF PrintArgumentCharacter, Percent
<1>5. CASE Ignore
  BY <1>1, <1>5, GoesPast DEF Ignore, Percent
<1> QED BY <1>2, <1>3, <1>4, <1>5

LEMMA FirstPlace ==
  ASSUME NEW b \in Nat, NEW n \in Nat
  PROVE  n * Power(b, 0) <= n /\ n < (n + 1) * Power(b, 0)
<1>1. Power(b, 0) = 1
  BY Powers
<1> QED BY <1>1

LEMMA HalfOf ==
  ASSUME NEW l \in Nat, NEW n \in Nat, 2 * n + 2 <= l
  PROVE  n + 1 <= l \div 2 /\ l \div 2 \in Nat
<1>1. PICK h \in Nat : h = l \div 2 /\ (l = 2 * h \/ l = 2 * h + 1)
  OBVIOUS
<1>2. ~(h <= n)
  BY <1>1
<1> QED BY <1>1, <1>2

(* A letter that takes something, and what is past it. *)
LEMMA TakenWithin ==
  ASSUME FormatInv, Percent, IsNumber \/ Letter \in {"c", "f", "g"}
  PROVE  /\ AfterPercent \in str + 2 .. NUL
         /\ str \in Nat /\ taken \in Nat /\ takenDoubles \in Nat /\ NUL \in Nat
         /\ 2 * taken <= str - 1 /\ 2 * takenDoubles <= str - 1
         /\ taken + 1 \in 1 .. Len(input.args)
         /\ takenDoubles + 1 \in 1 .. Len(input.doubles)
<1>1. /\ input \in Inputs /\ taken \in Nat /\ takenDoubles \in Nat
      /\ str \in 1 .. NUL /\ 2 * taken <= str - 1 /\ 2 * takenDoubles <= str - 1
      /\ At(str) # "NUL"
  BY DEF FormatInv, Percent, Printing
<1>2. NUL \in Nat \ {0} /\ NUL = Len(input.fmt) + 1 /\ str # NUL
  BY <1>1, FormatLength DEF At, NUL
<1>3. Letter # "NUL"
  <2>1. "NUL" \notin DOMAIN Conversions
    BY DEF Conversions, ShortConversions, LongConversions, IntConversions
  <2>2. CASE HasLength
    BY <2>2 DEF HasLength
  <2>3. CASE ~HasLength /\ IsNumber
    BY <2>1, <2>3 DEF IsNumber, NumberLetter
  <2> QED BY <2>2, <2>3
<1>4. str + 1 < NUL
  BY <1>1, <1>2, <1>3 DEF Letter, At
<1>5. HasLength => str + 2 < NUL
  <2> SUFFICES ASSUME HasLength PROVE str + 2 < NUL
    OBVIOUS
  <2>1. "NUL" \notin DOMAIN Conversions
    BY DEF Conversions, ShortConversions, LongConversions, IntConversions
  <2>2. IsNumber
    BY DEF HasLength
  <2>3. SecondLetter # "NUL"
    BY <2>1, <2>2 DEF IsNumber, NumberLetter
  <2> QED BY <1>1, <1>2, <1>4, <2>3 DEF SecondLetter, At
<1>6. AfterPercent \in str + 2 .. NUL
  BY <1>1, <1>2, <1>4, <1>5 DEF AfterPercent
<1>7. /\ input.fmt \in Seq(STRING)
      /\ input.args \in Seq(0 .. Power(2, LongBits) - 1)
      /\ input.doubles \in Seq(Double)
      /\ Len(input.args) >= Len(input.fmt) \div 2
      /\ Len(input.doubles) >= Len(input.fmt) \div 2
  BY <1>1, PrintAssumption
<1>8. PICK l \in Nat : l = Len(input.fmt) /\ str + 1 <= l
  BY <1>1, <1>2, <1>4, <1>7, LenProperties
<1>9. PICK h \in Nat : h = l \div 2 /\ taken + 1 <= h /\ takenDoubles + 1 <= h
  <2>1. PICK s \in Nat, t \in Nat, d \in Nat : s = str /\ t = taken /\ d = takenDoubles
    BY <1>1, <1>2
  <2>2. 2 * t + 2 <= l /\ 2 * d + 2 <= l
    <3>1. 2 * t <= s - 1 /\ 2 * d <= s - 1 /\ s + 1 <= l
      BY <1>1, <1>8, <2>1
    <3> QED BY ONLY <3>1, s \in Nat, t \in Nat, d \in Nat, l \in Nat
  <2> QED BY <2>1, <2>2, HalfOf
<1>10. Len(input.args) \in Nat /\ Len(input.doubles) \in Nat
  BY <1>7, LenProperties
<1>11. taken + 1 \in 1 .. Len(input.args) /\ takenDoubles + 1 \in 1 .. Len(input.doubles)
  <2>1. PICK d \in Nat, a \in Nat, t \in Nat, e \in Nat :
          d = Len(input.doubles) /\ a = Len(input.args) /\ t = taken /\ e = takenDoubles
    BY <1>1, <1>10
  <2>2. t + 1 <= h /\ e + 1 <= h /\ h <= a /\ h <= d
    BY <1>7, <1>8, <1>9, <2>1
  <2> QED BY <2>1, <2>2
<1> QED BY <1>1, <1>2, <1>6, <1>11

(* A number without a sign is about to be looked at. *)
LEMMA PlacesBegin ==
  ASSUME NEW c, ConvKnown(c), ~c.signed, NEW arg \in 0 .. Power(2, LongBits) - 1,
         field' = [kind |-> "integer", conv |-> c, arg |-> arg, from |-> Len(out) + 1],
         Len(out) \in Nat, UNCHANGED out,
         value' = StandsFor(c, arg), value_cpy' = value', places' = 0
  PROVE  CountInv'
<1>1. field'.conv = c /\ field'.arg = arg /\ field'.from = Len(out) + 1
  OBVIOUS
<1>2. PICK m, s : m = StandsFor(c, arg) /\ s = Abs(m)
  OBVIOUS
<1>3. s \in Nat /\ m = s
  BY <1>2, ArgumentKnown
<1>4. Meaning' = s
  BY <1>1, <1>2, <1>3 DEF StandsFor, Meaning
<1>5. Size' = s /\ value' = s /\ value_cpy' = s
  <2>1. Size' = s
    BY ONLY <1>3, <1>4 DEF Size, Abs
  <2>2. value' = s
    BY ONLY <1>2, <1>3, value' = StandsFor(c, arg), Zenon
  <2> QED BY <2>1, <2>2
<1>6. Signs(0)'
  BY <1>1, <1>3, <1>4 DEF Signs, Start
<1>7. ~Lowest'
  BY <1>1 DEF Lowest
<1>8. PlacesSeen(Size, value_cpy, places)'
  <2>1. c.base \in Nat
    BY BasesKnown
  <2>2. s * Power(c.base, 0) <= s /\ s < (s + 1) * Power(c.base, 0)
    BY <1>3, <2>1, FirstPlace
  <2> QED BY <1>1, <1>5, <2>2 DEF PlacesSeen
<1>9. 0 \in 0 .. LongBits
  BY PrintAssumption
<1> QED BY <1>3, <1>5, <1>6, <1>7, <1>8, <1>9 DEF CountInv

LEMMA TakeNumberKeepsNumbers == ASSUME NumbersInv, TakeNumber PROVE NumbersInv'
<1>1. FormatInv /\ out \in Seq(Printable) /\ input \in Inputs /\ Percent /\ IsNumber
  BY DEF NumbersInv, FormatInv, TakeNumber
<1>2. PICK c : c = Conversions[NumberLetter] /\ ConvKnown(c)
  BY <1>1, ConversionsKnown DEF IsNumber
<1>3. PICK arg \in 0 .. Power(2, LongBits) - 1 : arg = input.args[taken + 1]
  <2>1. input.args \in Seq(0 .. Power(2, LongBits) - 1)
    BY <1>1, PrintAssumption
  <2> QED BY <1>1, <2>1, TakenWithin, ElementOfSeq
<1>4. /\ conv' = c
      /\ value' = AsLong(IF c.signed THEN Signed(arg, c.bits) ELSE Unsigned(arg, c.bits))
      /\ value_cpy' = value'
      /\ field' = [kind |-> "integer", conv |-> c, arg |-> arg, from |-> Len(out) + 1]
      /\ pc' = IF c.signed THEN "sign" ELSE "places"
      /\ taken' = taken + 1 /\ places' = 0 /\ str' = AfterPercent
      /\ UNCHANGED <<input, takenDoubles, out>>
  BY <1>2, <1>3 DEF TakeNumber
<1>5. Len(out) \in Nat
  BY <1>1, LenProperties
<1>6. FieldKnown'
  <2>1. /\ field'.conv = c /\ field'.arg = arg /\ field'.from = Len(out) + 1
        /\ field'.kind = "integer"
    BY <1>4
  <2> QED BY <1>2, <1>3, <1>5, <2>1 DEF FieldKnown
<1>7. Meaning' = IF c.signed THEN Signed(arg, c.bits) ELSE Unsigned(arg, c.bits)
  BY <1>2, <1>4 DEF Meaning
<1>8. FormatInv'
  <2>1. NUL' = NUL
    BY <1>4 DEF NUL
  <2>2. /\ AfterPercent \in str + 2 .. NUL
        /\ str \in Nat /\ taken \in Nat /\ takenDoubles \in Nat /\ NUL \in Nat
        /\ 2 * taken <= str - 1 /\ 2 * takenDoubles <= str - 1
    BY <1>1, TakenWithin
  <2>3. AfterPercent \in 1 .. NUL /\ 2 * (taken + 1) <= AfterPercent - 1
        /\ 2 * takenDoubles <= AfterPercent - 1
    BY <2>2
  <2> QED BY <1>1, <1>4, <1>6, <2>1, <2>2, <2>3 DEF FormatInv, NumberPhases, DoublePhases
<1>9. SignInv'
  BY <1>4, <1>5, <1>7 DEF SignInv
<1>10. CountInv'
  <2> SUFFICES ASSUME ~c.signed PROVE CountInv'
    BY <1>4 DEF CountInv
  <2>1. PICK s \in 0 .. Power(2, LongBits) - 1 : s = StandsFor(c, arg)
    <3>1. PICK m, n : m = StandsFor(c, arg) /\ n = Abs(m)
      OBVIOUS
    <3>2. n \in Nat /\ n < Power(2, LongBits) /\ m = n
      BY <1>2, <3>1, ArgumentKnown
    <3>3. PICK p \in Nat : p = Power(2, LongBits)
      BY PrintAssumption, Powers
    <3>4. PICK l \in Nat : l = n /\ l < p
      BY ONLY <3>2, <3>3, Zenon
    <3>5. l \in 0 .. Power(2, LongBits) - 1
      BY ONLY <3>3, <3>4, p \in Nat, l \in Nat
    <3>6. l = StandsFor(c, arg)
      BY ONLY <3>1, <3>2, <3>4, Zenon
    <3> QED BY ONLY <3>5, <3>6
  <2>2. AsLong(s) = s
    BY <2>1, LongIsWidth, UnsignedCast DEF AsLong
  <2>3. value' = StandsFor(c, arg)
    BY <1>2, <1>4, <2>1, <2>2 DEF StandsFor
  <2>4. /\ field' = [kind |-> "integer", conv |-> c, arg |-> arg, from |-> Len(out) + 1]
        /\ UNCHANGED out /\ value_cpy' = value' /\ places' = 0
    BY <1>4
  <2> QED BY <1>2, <1>5, <1>6, <2>3, <2>4, PlacesBegin
<1> QED BY <1>4, <1>8, <1>9, <1>10 DEF NumbersInv, DigitsInv, PrintedInv

(* One more character of the number. *)
LEMMA OneMore ==
  ASSUME FieldKnown, UNCHANGED field, out \in Seq(Printable),
         NEW c \in Printable, out' = Append(out, c), NEW k \in Nat, Signs(k)
  PROVE  /\ Signs(k + 1)' /\ out' \in Seq(Printable)
         /\ \A j \in 1 .. k : out'[Start - 1 + j] = out[Start - 1 + j]
         /\ out'[Start + k] = c
<1>1. PICK s \in Nat \ {0} : s = Start /\ s - 1 \in Nat /\ field.from \in Nat \ {0}
                            /\ (Meaning < 0 => s = field.from + 1)
  <2>1. Meaning \in Int /\ field.from \in Nat \ {0}
    BY MeaningKnown DEF FieldKnown
  <2>2. PICK f \in Nat \ {0} : f = field.from
    BY <2>1
  <2> QED BY <2>1, <2>2 DEF Start
<1>2. PICK l \in Nat : l = Len(out) /\ l = s - 1 + k
  BY <1>1, LenProperties DEF Signs
<1>3. /\ out' \in Seq(Printable) /\ Len(out') = l + 1
      /\ \A j \in 1 .. l : out'[j] = out[j]
      /\ out'[l + 1] = c
  <2>1. /\ Append(out, c) \in Seq(Printable) /\ Len(Append(out, c)) = Len(out) + 1
        /\ \A j \in 1 .. Len(out) : Append(out, c)[j] = out[j]
        /\ Append(out, c)[Len(out) + 1] = c
    BY AppendProperties
  <2> QED BY <1>2, <2>1
<1>4. Start' = s /\ Meaning' = Meaning /\ field'.from = field.from
  <2>1. Start' = Start /\ Meaning' = Meaning
    BY MeaningKept
  <2> QED BY <1>1, <2>1
<1>5. Meaning < 0 => out'[field.from] = "-"
  <2> SUFFICES ASSUME Meaning < 0 PROVE out'[field.from] = "-"
    OBVIOUS
  <2>1. out[field.from] = "-"
    BY DEF Signs
  <2>2. field.from \in 1 .. l
    BY <1>1, <1>2
  <2> QED BY <1>3, <2>1, <2>2
<1>6. Signs(k + 1)'
  <2>1. l + 1 = s - 1 + (k + 1)
    BY <1>1, <1>2
  <2> QED BY <1>3, <1>4, <1>5, <2>1 DEF Signs
<1>7. \A j \in 1 .. k : out'[Start - 1 + j] = out[Start - 1 + j]
  <2> TAKE j \in 1 .. k
  <2>1. s - 1 + j \in 1 .. l
    BY <1>1, <1>2
  <2> QED BY <1>1, <1>3, <2>1
<1>8. s + k = l + 1
  BY <1>1, <1>2
<1> QED BY <1>1, <1>3, <1>6, <1>7, <1>8

(* A step within a number. *)
LEMMA WithinNumber ==
  ASSUME FormatInv, pc \in NumberPhases,
         UNCHANGED <<input, str, taken, takenDoubles, conv, field>>,
         pc' \in NumberPhases \cup {"print"}, out' \in Seq(Printable)
  PROVE  FormatInv'
<1>1. NUL' = NUL
  BY DEF NUL
<1>2. FieldKnown' <=> FieldKnown
  BY MeaningKept
<1> QED BY <1>1, <1>2 DEF FormatInv, NumberPhases, DoublePhases

LEMMA PrintSignKeepsNumbers == ASSUME NumbersInv, PrintSign PROVE NumbersInv'
<1>1. /\ FormatInv /\ pc \in NumberPhases /\ conv = field.conv /\ FieldKnown
      /\ field.conv.signed /\ Len(out) = field.from - 1
      /\ value = AsLong(Meaning) /\ places = 0 /\ out \in Seq(Printable)
  BY DEF NumbersInv, FormatInv, SignInv, PrintSign, NumberPhases
<1>2. PICK bits \in Widths : bits = field.conv.bits
  BY <1>1 DEF FieldKnown, ConvKnown
<1>3. PICK m \in SignedRange(bits), s \in Nat :
        /\ m = Meaning /\ s = Size /\ s < Power(2, LongBits)
        /\ (m < 0 <=> m = -s /\ s > 0) /\ (m >= 0 <=> m = s) /\ m \in Int
  BY <1>1, <1>2, MeaningKnown
<1>4. PICK h \in Nat \ {0}, k \in Nat \ {0} :
        Power(2, bits - 1) = h /\ Power(2, bits) = h * 2 /\ Power(2, LongBits) = (h * 2) * k
  BY WidthKnown
<1>5. Signed(value, bits) = m /\ (m >= 0 => value = m) /\ -h <= m /\ m < h
  <2>1. Signed(AsLong(m), bits) = m /\ (m >= 0 => AsLong(m) = m)
    BY SignedFromLong
  <2> QED BY <1>1, <1>3, <1>4, <2>1 DEF SignedRange
<1>6. AsLong(s) = s
  <2>1. PICK p \in Nat : p = Power(2, LongBits)
    BY PrintAssumption, Powers
  <2>2. s \in 0 .. Power(2, LongBits) - 1
    BY <1>3, <2>1
  <2> QED BY <2>2, UnsignedCast, LongIsWidth DEF AsLong
<1>7. value' = s /\ value_cpy' = s /\ places' = 0
  BY <1>1, <1>2, <1>3, <1>5, <1>6 DEF PrintSign
<1>8. m < 0 => Signed(s, bits) # 0
  <2> SUFFICES ASSUME m < 0 PROVE Signed(s, bits) # 0
    OBVIOUS
  <2>1. CASE s < h
    <3>1. s \in SignedRange(bits) /\ s # 0
      BY <1>3, <1>4, <2>1 DEF SignedRange
    <3> QED BY <1>6, <3>1, SignedFromLong
  <2>2. CASE s = h
    <3>1. s \in 0 .. Power(2, bits) - 1
      BY <1>4, <2>2
    <3>2. Unsigned(s, bits) = s
      BY <3>1, UnsignedCast
    <3> QED BY <1>4, <2>2, <3>2 DEF Signed
  <2> QED BY <1>3, <1>5, <2>1, <2>2
<1>9. /\ pc' = "places" /\ UNCHANGED <<input, str, taken, takenDoubles, conv, field>>
      /\ out' = IF m < 0 THEN Append(out, "-") ELSE out
  BY <1>1, <1>2, <1>3, <1>5, <1>7, <1>8 DEF PrintSign
<1>10. field.from \in Nat \ {0}
  BY <1>1 DEF FieldKnown
<1>11. out' \in Seq(Printable) /\ Signs(0)'
  <2>1. CASE m < 0
    <3>1. "-" \in Printable
      BY DEF Printable
    <3>2. /\ out' \in Seq(Printable) /\ Len(out') = Len(out) + 1
          /\ out'[Len(out) + 1] = "-"
      BY <1>1, <1>9, <2>1, <3>1, AppendProperties
    <3>3. Len(out) + 1 = field.from
      BY <1>1, <1>10
    <3>4. Meaning' = m /\ Start' = field.from + 1
      BY <1>3, <1>9, <2>1, MeaningKept DEF Start
    <3> QED BY <1>9, <1>10, <3>2, <3>3, <3>4 DEF Signs
  <2>2. CASE ~(m < 0)
    <3>1. Meaning' = m /\ Start' = field.from
      BY <1>3, <1>9, <2>2, MeaningKept DEF Start
    <3> QED BY <1>1, <1>9, <1>10, <2>2, <3>1 DEF Signs
  <2> QED BY <2>1, <2>2
<1>12. FormatInv'
  BY <1>1, <1>9, <1>11, WithinNumber DEF NumberPhases
<1>13. CountInv'
  <2>1. Size' = s /\ field'.conv.base = field.conv.base
    BY <1>2, <1>3, <1>9, MeaningKept
  <2>2. PlacesSeen(Size, value_cpy, places)'
    <3>1. field.conv.base \in Nat
      BY <1>1, BasesKnown DEF FieldKnown
    <3>2. s * Power(field.conv.base, 0) <= s /\ s < (s + 1) * Power(field.conv.base, 0)
      BY <3>1, FirstPlace
    <3> QED BY <1>7, <2>1, <3>2 DEF PlacesSeen
  <2>3. 0 \in 0 .. LongBits
    BY PrintAssumption
  <2> QED BY <1>7, <1>11, <2>1, <2>2, <2>3 DEF CountInv
<1> QED BY <1>9, <1>12, <1>13 DEF NumbersInv, SignInv, DigitsInv, PrintedInv

(* What is counted: the places are those of what has been divided away. *)
LEMMA RestSeen ==
  ASSUME NumbersInv, pc = "places"
  PROVE  IF Lowest THEN conv.signed /\ Rest < 0 /\ Rest # 0 ELSE Rest = value_cpy
<1>1. /\ FieldKnown /\ conv = field.conv
      /\ Signs(0) /\ value = Size
      /\ IF Lowest THEN places = 0 /\ value_cpy = value
         ELSE value_cpy \in Nat /\ places \in 0 .. LongBits /\ PlacesSeen(Size, value_cpy, places)
  BY DEF NumbersInv, FormatInv, CountInv, NumberPhases
<1>2. PICK bits \in Widths : bits = conv.bits /\ conv.base \in Nat \ {0} /\ conv.signed \in BOOLEAN
  BY <1>1, BasesKnown DEF FieldKnown, ConvKnown
<1>3. PICK h \in Nat \ {0}, k \in Nat \ {0} :
        Power(2, bits - 1) = h /\ Power(2, bits) = h * 2 /\ Power(2, LongBits) = (h * 2) * k
  BY WidthKnown
<1>4. CASE Lowest
  <2>1. value_cpy = h /\ conv.signed
    BY <1>1, <1>2, <1>3, <1>4, MeaningKnown DEF Lowest
  <2>2. h \in 0 .. Power(2, bits) - 1
    BY <1>3
  <2>3. Unsigned(h, bits) = h
    BY <2>2, UnsignedCast
  <2>4. Rest = h - h * 2
    BY <1>2, <1>3, <2>1, <2>3 DEF Rest, Signed
  <2> QED BY <1>4, <2>1, <2>4
<1>5. CASE ~Lowest
  <2>1. PICK n \in Nat, v \in Nat : n = Size /\ v = value_cpy /\ v <= n
    <3>1. PICK p \in Nat \ {0}, n \in Nat, v \in Nat :
            p = Power(conv.base, places) /\ n = Size /\ v = value_cpy
      <4>1. places \in Nat
        BY <1>1, <1>5
      <4> QED BY <1>1, <1>2, <1>5, <4>1, PowersRise, MeaningKnown
    <3>2. v * p <= n
      BY <1>1, <1>5, <3>1 DEF PlacesSeen
    <3>3. v * p = v * (p - 1) + v /\ v * (p - 1) >= 0
      BY ONLY p \in Nat \ {0}, v \in Nat
    <3>4. v <= n
      <4>1. PICK a \in Nat, c \in Nat : a = v * p /\ c = v * (p - 1)
        <5>1. p - 1 \in Nat
          OBVIOUS
        <5> QED BY <5>1, NatTimes
      <4> QED BY <3>2, <3>3, <4>1
    <3> QED BY <3>1, <3>4
  <2>3. CASE conv.signed
    <3>1. PICK m \in SignedRange(bits) : m = Meaning /\ m # -h
      BY <1>1, <1>2, <1>3, <1>5, <2>3, MeaningKnown DEF Lowest
    <3>2. n < h
      BY <1>1, <1>3, <2>1, <3>1, MeaningKnown DEF SignedRange
    <3>3. v \in SignedRange(bits) /\ v >= 0
      BY <1>3, <2>1, <3>2 DEF SignedRange
    <3>4. Signed(v, bits) = v
      BY <3>3, SignedFromLong
    <3> QED BY <1>2, <1>5, <2>1, <2>3, <3>4 DEF Rest
  <2>4. CASE ~conv.signed
    <3>1. n \in 0 .. Power(2, bits) - 1
      BY <1>1, <1>2, <2>1, <2>4, MeaningKnown
    <3>2. v \in 0 .. Power(2, bits) - 1
      BY <1>3, <2>1, <3>1
    <3>3. Unsigned(v, bits) = v
      BY <3>2, UnsignedCast
    <3> QED BY <1>2, <1>5, <2>1, <2>4, <3>3 DEF Rest
  <2> QED BY <1>2, <2>3, <2>4
<1> QED BY <1>4, <1>5

(* A place more is seen by dividing what is left. *)
LEMMA OnePlaceMore ==
  ASSUME NEW b \in Nat \ {0}, b >= 2, NEW n \in Nat, n < Power(2, LongBits),
         NEW p \in Nat, NEW v \in Nat \ {0},
         v * Power(b, p) <= n, n < (v + 1) * Power(b, p)
  PROVE  /\ v \div b \in Nat /\ p < LongBits
         /\ (v \div b) * Power(b, p + 1) <= n /\ n < (v \div b + 1) * Power(b, p + 1)
         /\ Power(b, p) <= n
<1>1. PICK z \in Nat \ {0} : z = Power(b, p)
  BY PowersRise
<1>2. PICK q \in Nat, r \in 0 .. b - 1 : q = v \div b /\ v = b * q + r
  BY Divided
<1>3. PICK y \in Nat : y = Power(b, p + 1) /\ y = z * b
  <2>1. Power(b, p + 1) \in Nat /\ Power(b, p + 1) = z * b
    BY <1>1, Powers
  <2> QED BY <2>1
<1>4. v * z <= n /\ n < (v + 1) * z
  BY <1>1
<1>5. z <= n
  <2>1. v * z = (v - 1) * z + z
    BY ONLY v \in Nat \ {0}, z \in Nat \ {0}
  <2>2. PICK w \in Nat : w = (v - 1) * z
    <3>1. v - 1 \in Nat
      OBVIOUS
    <3> QED BY <3>1, NatTimes
  <2>3. PICK u \in Nat : u = v * z
    BY NatTimes
  <2> QED BY <1>4, <2>1, <2>2, <2>3
<1>6. q * y <= n
  <2>1. v * z = q * y + r * z
    <3>1. q * y = q * (z * b) /\ v * z = (b * q + r) * z
      BY <1>2, <1>3
    <3>2. (b * q + r) * z = q * (z * b) + r * z
      BY ONLY b \in Nat, q \in Nat, r \in Int, z \in Nat
    <3> QED BY <3>1, <3>2
  <2>2. PICK w \in Nat, u \in Nat, x \in Nat : w = r * z /\ u = q * y /\ x = v * z
    <3>1. r \in Nat
      OBVIOUS
    <3> QED BY <3>1, NatTimes
  <2> QED BY <1>4, <2>1, <2>2
<1>7. n < (q + 1) * y
  <2>1. (q + 1) * y = (v + 1) * z + (b - r - 1) * z
    <3>1. (q + 1) * y = (q + 1) * (z * b) /\ (v + 1) * z = (b * q + r + 1) * z
      BY <1>2, <1>3
    <3>2. (q + 1) * (z * b) = (b * q + r + 1) * z + (b - r - 1) * z
      BY ONLY b \in Nat, q \in Nat, r \in Int, z \in Nat
    <3> QED BY <3>1, <3>2
  <2>2. PICK w \in Nat : w = (b - r - 1) * z
    <3>1. b - r - 1 \in Nat
      OBVIOUS
    <3> QED BY <3>1, NatTimes
  <2>3. PICK u \in Nat, x \in Nat : u = (q + 1) * y /\ x = (v + 1) * z
    BY NatTimes
  <2> QED BY <1>4, <2>1, <2>2, <2>3
<1>8. p < LongBits
  <2>1. LongBits \in Nat
    BY PrintAssumption
  <2> SUFFICES ASSUME p >= LongBits PROVE FALSE
    BY <2>1
  <2>2. PICK l \in Nat : l = Power(2, LongBits)
    BY <2>1, Powers
  <2>3. PICK t \in Nat : t = Power(2, p) /\ l <= t
    <3>1. LongBits \in 0 .. p
      BY <2>1
    <3> QED BY <2>2, <3>1, PowersRise
  <2>4. t <= z
    BY <1>1, <2>3, PowerOfTwoLeast
  <2> QED BY <1>5, <2>2, <2>3, <2>4
<1> QED BY <1>1, <1>2, <1>3, <1>5, <1>6, <1>7, <1>8

LEMMA CountPlaceKeepsNumbers == ASSUME NarrowLongs, NumbersInv, CountPlace PROVE NumbersInv'
<1>1. /\ FormatInv /\ pc = "places" /\ pc \in NumberPhases /\ conv = field.conv /\ FieldKnown
      /\ pc' = pc /\ out \in Seq(Printable)
      /\ UNCHANGED <<input, str, taken, takenDoubles, conv, value, out, field>>
      /\ Rest # 0 /\ ~(conv.signed /\ Rest < 0)
      /\ value_cpy' = Rest \div conv.base
      /\ places' = (places + 1) % 256
  BY DEF NumbersInv, FormatInv, CountPlace, NumberPhases
<1>2. FormatInv'
  BY <1>1, WithinNumber
<1>3. /\ Lowest' <=> Lowest
      /\ Meaning' = Meaning /\ Size' = Size /\ Start' = Start
  <2>1. UNCHANGED field
    BY <1>1
  <2> QED BY <2>1, MeaningKept
<1>4. ~Lowest /\ Rest = value_cpy
  BY <1>1, RestSeen
<1>5. PICK v \in Nat \ {0}, p \in Nat, n \in Nat :
        /\ v = value_cpy /\ p = places /\ n = Size /\ n < Power(2, LongBits)
        /\ p <= LongBits /\ PlacesSeen(n, v, p)
  BY <1>1, <1>4, MeaningKnown DEF NumbersInv, CountInv
<1>6. PICK b \in Nat \ {0} : b = conv.base /\ b >= 2
  BY <1>1, BasesKnown DEF FieldKnown
<1>7. v * Power(b, p) <= n /\ n < (v + 1) * Power(b, p)
  BY <1>1, <1>5, <1>6 DEF PlacesSeen
<1>8. /\ v \div b \in Nat /\ p < LongBits
      /\ (v \div b) * Power(b, p + 1) <= n /\ n < (v \div b + 1) * Power(b, p + 1)
      /\ Power(b, p) <= n
  BY <1>5, <1>6, <1>7, OnePlaceMore
<1>9. value_cpy' = v \div b
  BY <1>1, <1>4, <1>5, <1>6
<1>10. places' = p + 1 /\ p + 1 \in 0 .. LongBits
  <2>1. LongBits \in Nat /\ LongBits < 256
    BY PrintAssumption DEF NarrowLongs
  <2>2. p + 1 \in 0 .. 255
    BY <1>8, <2>1
  <2>3. (p + 1) % 256 = p + 1
    BY <2>2
  <2>4. p + 1 \in 0 .. LongBits
    BY <1>8, <2>1
  <2> QED BY <1>1, <1>5, <2>3, <2>4
<1>11. PlacesSeen(Size, value_cpy, places)'
  <2>1. (p + 1) - 1 = p
    OBVIOUS
  <2>2. Size' = n /\ field'.conv.base = b
    BY <1>1, <1>3, <1>5, <1>6
  <2> QED BY <1>8, <1>9, <1>10, <2>1, <2>2 DEF PlacesSeen
<1>12. Signs(0)' /\ value' = Size'
  BY <1>1, <1>3, <1>5 DEF NumbersInv, CountInv, Signs
<1>13. CountInv'
  BY <1>3, <1>5, <1>4, <1>8, <1>9, <1>10, <1>11, <1>12 DEF CountInv
<1> QED BY <1>1, <1>2, <1>13 DEF NumbersInv, SignInv, DigitsInv, PrintedInv

(* The digits of a number whose places are counted, from the first. *)
LEMMA DigitsBegin ==
  ASSUME FieldKnown, NEW p \in Nat \ {0}, p = places, PlacesSeen(Size, 0, p), Signs(0), Size \in Nat
  PROVE  Numeral(p, 0)
<1>1. PICK b \in Nat \ {0} : b = field.conv.base
  BY BasesKnown DEF FieldKnown
<1>2. PICK z \in Nat : z = Power(b, p)
  BY PowersRise
<1>3. HasPlaces(p)
  <2>1. (0 + 1) * z = z
    OBVIOUS
  <2> QED BY <1>1, <1>2, <2>1 DEF PlacesSeen, HasPlaces
<1>4. \A j \in 1 .. 0 : FALSE
  OBVIOUS
<1> QED BY <1>3, <1>4 DEF Numeral

LEMMA PlacesCountedKeepsNumbers == ASSUME NumbersInv, PlacesCounted PROVE NumbersInv'
<1>1. /\ FormatInv /\ pc = "places" /\ pc \in NumberPhases /\ conv = field.conv /\ FieldKnown
      /\ out \in Seq(Printable)
      /\ UNCHANGED <<input, str, taken, takenDoubles, conv, value, places, field>>
      /\ Rest = 0 \/ (conv.signed /\ Rest < 0)
      /\ IF places = 0 THEN out' = Append(out, "0") /\ pc' = "print"
                       ELSE pc' = "digits" /\ out' = out
  BY DEF NumbersInv, FormatInv, PlacesCounted, NumberPhases, number
<1>2. /\ Lowest' <=> Lowest
      /\ FieldKnown' <=> FieldKnown
      /\ Meaning' = Meaning /\ Size' = Size /\ Start' = Start /\ TakenFor' = TakenFor
  BY <1>1, MeaningKept
<1>4. Signs(0) /\ value = Size /\ (Lowest => places = 0)
      /\ (~Lowest => /\ value_cpy \in Nat /\ places \in 0 .. LongBits
                     /\ PlacesSeen(Size, value_cpy, places))
  BY <1>1 DEF NumbersInv, CountInv
<1>5. ~Lowest => value_cpy = 0
  <2> SUFFICES ASSUME ~Lowest PROVE value_cpy = 0
    OBVIOUS
  <2>1. Rest = value_cpy /\ value_cpy \in Nat
    BY <1>1, <1>4, RestSeen
  <2> QED BY <1>1, <2>1
<1>6. CASE places = 0
  <2>1. out' = Append(out, "0") /\ pc' = "print"
    BY <1>1, <1>6
  <2>2. "0" \in Printable
    BY DEF Printable
  <2>3. /\ Signs(1)' /\ out' \in Seq(Printable) /\ out'[Start] = "0"
    <3>1. PICK s \in Nat : s = Start
      BY <1>1, MeaningKnown DEF Start, FieldKnown
    <3>2. 0 \in Nat /\ 0 + 1 = 1 /\ s + 0 = s
      OBVIOUS
    <3>3. Signs(0 + 1)' /\ out' \in Seq(Printable) /\ out'[Start + 0] = "0"
      BY <1>1, <1>4, <2>1, <2>2, <3>2, OneMore
    <3> QED BY <3>1, <3>2, <3>3
  <2>4. Size = 0 \/ Lowest
    <3> SUFFICES ASSUME ~Lowest PROVE Size = 0
      OBVIOUS
    <3>1. PICK b \in Nat, n \in Nat : b = field.conv.base /\ n = Size
      BY <1>1, BasesKnown, MeaningKnown DEF FieldKnown
    <3>2. n < (0 + 1) * Power(b, 0) /\ Power(b, 0) = 1
      BY <1>4, <1>5, <1>6, <3>1, Powers DEF PlacesSeen
    <3> QED BY <3>1, <3>2
  <2>5. Whole'
    BY <1>2, <2>3, <2>4 DEF Zero, Whole
  <2>6. FormatInv'
    BY <1>1, <2>1, <2>3, WithinNumber DEF NumberPhases
  <2>7. PrintedInv'
    BY <1>1, <1>2, <2>5 DEF PrintedInv
  <2> QED BY <2>1, <2>6, <2>7 DEF NumbersInv, SignInv, CountInv, DigitsInv
<1>7. CASE places # 0
  <2>1. pc' = "digits" /\ out' = out /\ ~Lowest
    BY <1>1, <1>4, <1>7
  <2>2. PICK p \in Nat \ {0} : p = places /\ p \in 1 .. LongBits
    BY <1>4, <1>7, <2>1
  <2>3. Numeral(p, 0)
    BY <1>1, <1>4, <1>5, <2>1, <2>2, DigitsBegin, MeaningKnown
  <2>4. Numeral(p, 0)'
    BY <1>1, <1>2, <2>1, <2>3 DEF Numeral, HasPlaces, DigitAt, Signs
  <2>5. p - p = 0 /\ p \in 1 .. p
    OBVIOUS
  <2>6. FormatInv'
    BY <1>1, <2>1, WithinNumber DEF NumberPhases
  <2>7. DigitsInv'
    BY <1>1, <1>2, <1>4, <2>1, <2>2, <2>4, <2>5 DEF DigitsInv
  <2> QED BY <2>1, <2>6, <2>7 DEF NumbersInv, SignInv, CountInv, PrintedInv
<1> QED BY <1>6, <1>7

LEMMA PrintDigitKeepsNumbers == ASSUME NumbersInv, PrintDigit PROVE NumbersInv'
<1>1. /\ FormatInv /\ pc = "digits" /\ pc \in NumberPhases /\ conv = field.conv /\ FieldKnown
      /\ out \in Seq(Printable) /\ ~Lowest /\ value = Size
      /\ UNCHANGED <<input, str, taken, takenDoubles, conv, value, field>>
      /\ places' = places - 1
      /\ pc' = IF places' = 0 THEN "print" ELSE "digits"
  BY DEF NumbersInv, FormatInv, DigitsInv, PrintDigit, NumberPhases
<1>2. /\ Lowest' <=> Lowest
      /\ FieldKnown' <=> FieldKnown
      /\ Meaning' = Meaning /\ Size' = Size /\ Start' = Start /\ TakenFor' = TakenFor
  BY <1>1, MeaningKept
<1>3. PICK n \in Nat \ {0}, p \in Nat \ {0} :
        /\ n \in 1 .. LongBits /\ p = places /\ p <= n /\ n - p \in Nat /\ p - 1 \in Nat
        /\ p - 1 \in 0 .. n - 1 /\ n - 1 \in Nat /\ Numeral(n, n - p)
  <2>1. PICK n \in 1 .. LongBits : places \in 1 .. n /\ Numeral(n, n - places)
    BY <1>1 DEF NumbersInv, DigitsInv
  <2>2. n \in Nat \ {0}
    BY PrintAssumption
  <2>3. PICK p \in Nat \ {0} : p = places /\ p <= n
    BY <2>1, <2>2
  <2>4. n - p \in Nat /\ p - 1 \in Nat /\ n - 1 \in Nat /\ p - 1 \in 0 .. n - 1
    BY <2>2, <2>3
  <2> QED BY <2>1, <2>2, <2>3, <2>4
<1>4. PICK b \in Nat \ {0} : b = conv.base /\ b <= 16 /\ conv.letters \in {Lower, Upper}
  BY <1>1, BasesKnown DEF FieldKnown
<1>5. PICK z \in Nat \ {0} : z = Power(b, p - 1) /\ AsLong(z) = z
  <2>1. PICK z \in Nat \ {0}, y \in Nat \ {0} : z = Power(b, p - 1) /\ y = Power(b, n - 1) /\ z <= y
    BY <1>3, PowersRise
  <2>2. PICK s \in Nat, l \in Nat : s = Size /\ l = Power(2, LongBits) /\ s < l
    <3>1. Power(2, LongBits) \in Nat
      BY PrintAssumption, Powers
    <3> QED BY <1>1, <3>1, MeaningKnown
  <2>3. y <= s
    BY <1>1, <1>3, <1>4, <2>1, <2>2 DEF Numeral, HasPlaces
  <2>4. z \in 0 .. Power(2, LongBits) - 1
    BY <2>1, <2>2, <2>3
  <2>5. AsLong(z) = z
    BY <2>4, LongIsWidth, UnsignedCast DEF AsLong
  <2> QED BY <2>1, <2>5
<1>6. PICK t \in Nat : t = TakenFor
  BY <1>1, TakenForKnown
<1>7. PICK d \in 1 .. b : d = ((t \div z) % b) + 1
  <2>1. PICK q \in Nat : q = t \div z
    BY Divided
  <2>2. q % b \in 0 .. b - 1
    BY Divided
  <2> QED BY <2>1, <2>2
<1>8. out' = Append(out, conv.letters[d])
  <2>1. t = IF conv.signedDigits THEN AsLong(Signed(value, conv.bits)) ELSE value
    BY <1>1, <1>6 DEF TakenFor
  <2>2. divisor = z
    BY <1>3, <1>4, <1>5 DEF divisor
  <2> QED BY <1>4, <1>7, <2>1, <2>2 DEF PrintDigit
<1>9. conv.letters[d] \in Printable
  <2>1. d \in 1 .. 16
    BY <1>4
  <2> QED BY <1>4, <2>1, LettersApart
<1>10. /\ Signs(n - p) /\ HasPlaces(n)
       /\ \A j \in 1 .. n - p : out[Start - 1 + j] = field.conv.letters[DigitAt(n, j)]
  BY <1>3 DEF Numeral
<1>11. /\ Signs((n - p) + 1)' /\ out' \in Seq(Printable)
       /\ \A j \in 1 .. n - p : out'[Start - 1 + j] = out[Start - 1 + j]
       /\ out'[Start + (n - p)] = conv.letters[d]
  BY <1>1, <1>3, <1>8, <1>9, <1>10, OneMore
<1>12. PICK k \in Nat : k = (n - p) + 1 /\ n - k = p - 1
  BY <1>3
<1>13. Numeral(n, k)'
  <2>1. \A j : DigitAt(n, j)' = DigitAt(n, j)
    BY <1>1, <1>2 DEF DigitAt
  <2>2. HasPlaces(n)'
    BY <1>1, <1>2, <1>10 DEF HasPlaces
  <2>3. \A j \in 1 .. k : out'[Start - 1 + j] = field.conv.letters[DigitAt(n, j)]
    <3> TAKE j \in 1 .. k
    <3>1. CASE j = k
      <4>1. PICK s \in Nat : s = Start
        BY <1>1, MeaningKnown DEF Start, FieldKnown
      <4>2. s - 1 + k = s + (n - p)
        BY <1>3, <1>12
      <4>3. DigitAt(n, k) = d
        BY <1>1, <1>4, <1>5, <1>6, <1>7, <1>12 DEF DigitAt
      <4> QED BY <1>1, <1>11, <3>1, <4>1, <4>2, <4>3
    <3>2. CASE j # k
      <4>1. j \in 1 .. n - p
        BY <1>3, <1>12, <3>2
      <4> QED BY <1>10, <1>11, <4>1
    <3> QED BY <3>1, <3>2
  <2>4. Signs(k)'
    BY <1>11, <1>12
  <2> QED BY <1>1, <1>2, <2>1, <2>2, <2>3, <2>4 DEF Numeral
<1>14. CASE p = 1
  <2>1. pc' = "print" /\ k = n
    BY <1>1, <1>3, <1>12, <1>14
  <2>2. Whole'
    BY <1>1, <1>2, <1>3, <1>13, <2>1 DEF Whole
  <2>3. FormatInv'
    BY <1>1, <1>11, <2>1, WithinNumber DEF NumberPhases
  <2>4. PrintedInv'
    BY <1>1, <1>2, <2>2 DEF PrintedInv
  <2> QED BY <2>1, <2>3, <2>4 DEF NumbersInv, SignInv, CountInv, DigitsInv
<1>15. CASE p # 1
  <2>1. pc' = "digits" /\ places' = p - 1 /\ p - 1 \in 1 .. n /\ n - (p - 1) = k
    BY <1>1, <1>3, <1>12, <1>15
  <2>2. FormatInv'
    BY <1>1, <1>11, <2>1, WithinNumber DEF NumberPhases
  <2>3. DigitsInv'
    BY <1>1, <1>2, <1>3, <1>13, <2>1 DEF DigitsInv
  <2> QED BY <2>1, <2>2, <2>3 DEF NumbersInv, SignInv, CountInv, PrintedInv
<1> QED BY <1>14, <1>15

LEMMA FiveCharacters ==
  ASSUME NEW S, NEW d \in S, NEW z \in S
  PROVE  <<d, z, z, z, z>> \in Seq(S) /\ Len(<<d, z, z, z, z>>) = 5
OBVIOUS

(* A double is taken, and printed, with no number about. *)
LEMMA TakeDoubleKeepsNumbers == ASSUME NumbersInv, TakeDouble PROVE NumbersInv'
<1>1. /\ FormatInv /\ out \in Seq(Printable) /\ input \in Inputs
      /\ Percent /\ Letter \in {"c", "f", "g"}
  BY DEF NumbersInv, FormatInv, TakeDouble
<1>2. /\ takenDoubles' = takenDoubles + 1 /\ str' = AfterPercent /\ pc' = "tenths"
      /\ field'.kind = "double" /\ out' \in {out, Append(out, "-")}
      /\ UNCHANGED <<input, taken>>
  BY DEF TakeDouble
<1>3. out' \in Seq(Printable)
  <2>1. "-" \in Printable
    BY DEF Printable
  <2> QED BY <1>1, <1>2, <2>1, AppendProperties
<1>4. NUL' = NUL
  BY <1>2 DEF NUL
<1>5. /\ AfterPercent \in str + 2 .. NUL
      /\ str \in Nat /\ taken \in Nat /\ takenDoubles \in Nat /\ NUL \in Nat
      /\ 2 * taken <= str - 1 /\ 2 * takenDoubles <= str - 1
  BY <1>1, TakenWithin
<1>6. AfterPercent \in 1 .. NUL /\ 2 * (takenDoubles + 1) <= AfterPercent - 1
      /\ 2 * taken <= AfterPercent - 1
  BY <1>5
<1>7. FormatInv'
  BY <1>1, <1>2, <1>3, <1>4, <1>5, <1>6 DEF FormatInv, NumberPhases, DoublePhases
<1> QED BY <1>2, <1>7, NoNumber DEF NumberPhases

LEMMA DoubleStepsKeepNumbers ==
  ASSUME NumbersInv, CountTenth \/ TenthsCounted \/ PrintWholeDigit \/ PrintFraction
  PROVE  NumbersInv'
<1>1. FormatInv /\ out \in Seq(Printable)
  BY DEF NumbersInv, FormatInv
<1>2. /\ pc \in DoublePhases /\ pc' \in DoublePhases \cup {"print"}
      /\ UNCHANGED <<input, str, taken, takenDoubles, field>>
  BY DEF CountTenth, TenthsCounted, PrintWholeDigit, PrintFraction, DoublePhases
<1>3. out' \in Seq(Printable)
  <2>1. "0" \in Printable /\ "digit" \in Printable /\ "." \in Printable
    BY DEF Printable
  <2>2. PICK five : /\ five = <<".", "digit", "digit", "digit", "digit">>
                    /\ five \in Seq(Printable)
    BY <2>1, FiveCharacters
  <2>3. out' \in {out, Append(out, "0"), Append(out, "digit"), out \o five}
    BY <2>2 DEF CountTenth, TenthsCounted, PrintWholeDigit, PrintFraction
  <2>4. Append(out, "0") \in Seq(Printable) /\ Append(out, "digit") \in Seq(Printable)
    BY <1>1, <2>1, AppendProperties
  <2>5. out \o five \in Seq(Printable)
    BY <1>1, <2>2, ConcatProperties
  <2> QED BY <1>1, <2>3, <2>4, <2>5
<1>4. NUL' = NUL
  BY <1>2 DEF NUL
<1>5. field'.kind = "double"
  BY <1>1, <1>2 DEF FormatInv
<1>6. FormatInv'
  BY <1>1, <1>2, <1>3, <1>4, <1>5 DEF FormatInv, NumberPhases, DoublePhases
<1> QED BY <1>2, <1>5, <1>6, NoNumber DEF NumberPhases, DoublePhases

LEMMA NumbersNext ==
  ASSUME NarrowLongs, NumbersInv, [PrintNext]_printVars
  PROVE  NumbersInv'
<1>1. CASE Step
  BY <1>1, PassesKeepNumbers, LiteralsKeepNumbers, TakeNumberKeepsNumbers, TakeDoubleKeepsNumbers,
     PrintSignKeepsNumbers, CountPlaceKeepsNumbers, PlacesCountedKeepsNumbers,
     PrintDigitKeepsNumbers, DoubleStepsKeepNumbers
     DEF Step
<1>2. CASE UNCHANGED printVars
  BY <1>2, FinishedKeepsNumbers
<1> QED BY <1>1, <1>2 DEF PrintNext, Finished

(***************************************************************************)
(* Whatever the widths and whatever is printed before and after, the       *)
(* characters that PrintString shows for a number are its numeral, with    *)
(* its sign and without leading zeros, unless it is the lowest of its      *)
(* width or an int in octal that has its highest bit set; and these it     *)
(* never shows rightly.                                                    *)
(***************************************************************************)
THEOREM NumbersCorrect ==
  ASSUME NarrowLongs, OctalUneven
  PROVE  PrintSpec => []NumbersFaithful
<1>1. PrintInit => NumbersInv
  BY NumbersInit
<1>2. NumbersInv /\ [PrintNext]_printVars => NumbersInv'
  BY NumbersNext
<1>3. NumbersInv => NumbersFaithful
  BY NumbersAgree
<1> QED BY <1>1, <1>2, <1>3, PTL DEF PrintSpec

------------------------------------------------------------------------------
(***************************************************************************)
(* DoublesWhole.  What there is of a double so far: k characters after its *)
(* sign.                                                                   *)
(***************************************************************************)
DoubleKnown == field.arg \in Magnitude /\ field.from \in Nat \ {0}
DoubleSign == IF field.arg.negative THEN 1 ELSE 0

DoubleShown(k) ==
  /\ Len(out) = field.from - 1 + DoubleSign + k
  /\ field.arg.negative => out[field.from] = "-"
  /\ (~field.arg.negative /\ k > 0) => out[field.from] # "-"

(* The places that are left of n in a byte, and those that are shown. *)
Kept(n) == n % 256
ShownOf(n) == IF Kept(n) = 0 THEN 1 ELSE Kept(n)

TenthsInv ==
  pc = "tenths" =>
    /\ DoubleKnown /\ DoubleShown(0)
    /\ \/ field.arg.tenths = Infinity /\ tenths = Infinity
       \/ \E n \in Nat, left \in Nat, done \in Nat :
            /\ n = field.arg.tenths /\ tenths = left /\ n = left + done
            /\ places = Kept(done)

WholeInv ==
  pc = "whole" =>
    /\ DoubleKnown
    /\ \E n \in Nat, k \in Nat, left \in Nat \ {0} :
         /\ n = field.arg.tenths /\ places = left /\ Kept(n) = k + left /\ DoubleShown(k)

PointInv ==
  pc = "fraction" =>
    DoubleKnown /\ \E n \in Nat : n = field.arg.tenths /\ DoubleShown(ShownOf(n))

DoubleInv ==
  (pc = "print" /\ field.kind = "double") =>
    DoubleKnown /\ \E n \in Nat : n = field.arg.tenths /\ DoubleShown(ShownOf(n) + 5)

DoublesInv == TenthsInv /\ WholeInv /\ PointInv /\ DoubleInv

LEMMA KeptKnown == ASSUME NEW n \in Nat PROVE Kept(n) \in 0 .. 255 /\ ShownOf(n) \in 1 .. 255
BY DEF Kept, ShownOf

LEMMA DoubleLength ==
  ASSUME DoubleKnown, out \in Seq(Printable), NEW k \in Nat, DoubleShown(k)
  PROVE  \E l \in Nat, f \in Nat \ {0}, g \in {0, 1} :
           /\ l = Len(out) /\ f = field.from /\ g = DoubleSign
           /\ l = f - 1 + g + k
<1>1. PICK f \in Nat \ {0} : f = field.from
  BY DEF DoubleKnown
<1>2. PICK g \in {0, 1} : g = DoubleSign
  BY DEF DoubleSign
<1>3. PICK l \in Nat : l = Len(out)
  BY LenProperties
<1>4. l = f - 1 + g + k
  BY <1>1, <1>2, <1>3 DEF DoubleShown
<1> QED BY <1>1, <1>2, <1>3, <1>4

LEMMA DoublesAgree == ASSUME DoublesInv, out \in Seq(Printable) PROVE DoublesWhole
<1> SUFFICES ASSUME pc = "print", field.kind = "double" PROVE DoublesWhole
  BY DEF DoublesWhole
<1>1. PICK n \in Nat : DoubleKnown /\ n = field.arg.tenths /\ DoubleShown(ShownOf(n) + 5)
  <2>1. DoubleKnown /\ \E n \in Nat : n = field.arg.tenths /\ DoubleShown(ShownOf(n) + 5)
    BY Zenon DEF DoublesInv, DoubleInv
  <2> QED BY <2>1, Zenon
<1>2. PICK s \in 1 .. 255 : s = ShownOf(n) /\ s + 5 \in Nat
  <2>1. PICK s \in 1 .. 255 : s = ShownOf(n)
    BY KeptKnown, Zenon
  <2> QED BY <2>1
<1>3. PICK l \in Nat, f \in Nat \ {0}, g \in {0, 1} :
        /\ l = Len(out) /\ f = field.from /\ g = DoubleSign
        /\ l = f - 1 + g + (s + 5)
  <2>1. DoubleShown(s + 5)
    BY <1>1, <1>2
  <2> QED BY <1>1, <1>2, <2>1, DoubleLength
<1>4. PICK due \in Nat : due = IF n = 0 THEN 1 ELSE n
  OBVIOUS
<1>5. s = due <=> due < 256
  <2>1. CASE n < 256
    BY <1>2, <1>4, <2>1 DEF ShownOf, Kept
  <2>2. CASE n >= 256
    BY ONLY <1>4, <2>2, s \in 1 .. 255, n \in Nat, due \in Nat
  <2> QED BY <2>1, <2>2
<1>6. l - (f - 1) - g - 5 = s
  BY ONLY <1>3, l \in Nat, f \in Nat \ {0}, g \in {0, 1}, s \in 1 .. 255
<1>7. field.arg.negative <=> out[field.from] = "-"
  <2>1. s + 5 > 0
    OBVIOUS
  <2> QED BY <1>1, <1>2, <2>1 DEF DoubleShown
<1>8. /\ l = Len(out) /\ f = field.from /\ n = field.arg.tenths
      /\ g = IF field.arg.negative THEN 1 ELSE 0
  BY <1>1, <1>3 DEF DoubleSign
<1> QED BY <1>4, <1>5, <1>6, <1>7, <1>8 DEF DoublesWhole

(* No double is being printed. *)
LEMMA NoDouble ==
  ASSUME pc' \notin DoublePhases, pc' = "print" => field'.kind # "double"
  PROVE  DoublesInv'
BY DEF DoublesInv, TenthsInv, WholeInv, PointInv, DoubleInv, DoublePhases

LEMMA TakeDoubleShown == ASSUME FormatInv, TakeDouble PROVE DoublesInv'
<1>1. PICK d \in Double : d = input.doubles[takenDoubles + 1]
  <2>1. input.doubles \in Seq(Double)
    BY PrintAssumption DEF FormatInv
  <2>2. takenDoubles + 1 \in 1 .. Len(input.doubles)
    BY TakenWithin DEF TakeDouble
  <2> QED BY <2>1, <2>2, ElementOfSeq
<1>2. PICK asked \in Magnitude :
        /\ out' = (IF asked.negative THEN Append(out, "-") ELSE out)
        /\ tenths' = asked.tenths /\ places' = 0 /\ pc' = "tenths"
        /\ field'.arg = asked /\ field'.from = Len(out) + 1 /\ field'.kind = "double"
  <2>1. d.float \in Magnitude /\ d.double \in Magnitude
    BY <1>1 DEF Double
  <2> QED BY <1>1, <2>1 DEF TakeDouble
<1>3. out \in Seq(Printable) /\ "-" \in Printable
  BY DEF FormatInv, Printable
<1>4. PICK l \in Nat : l = Len(out)
  BY <1>3, LenProperties
<1>5. DoubleKnown'
  BY <1>2, <1>4 DEF DoubleKnown
<1>6. asked.negative \in BOOLEAN /\ asked.tenths \in Nat \cup {Infinity}
  BY <1>2 DEF Magnitude
<1>7. DoubleShown(0)'
  <2>1. CASE asked.negative
    <3>1. out' = Append(out, "-")
      BY <1>2, <2>1
    <3>2. Len(out') = l + 1 /\ out'[l + 1] = "-"
      BY <1>3, <1>4, <3>1, AppendProperties
    <3> QED BY <1>2, <1>4, <2>1, <3>2 DEF DoubleShown, DoubleSign
  <2>2. CASE ~asked.negative
    BY <1>2, <1>4, <2>2 DEF DoubleShown, DoubleSign
  <2> QED BY <2>1, <2>2
<1>8. TenthsInv'
  <2>1. CASE asked.tenths = Infinity
    BY <1>2, <1>5, <1>7, <2>1 DEF TenthsInv
  <2>2. CASE asked.tenths \in Nat
    <3>1. PICK n \in Nat, done \in Nat : n = asked.tenths /\ done = 0 /\ n = n + done
      BY <2>2
    <3>2. places' = Kept(done)
      BY <1>2, <3>1 DEF Kept
    <3> QED BY <1>2, <1>5, <1>7, <3>1, <3>2 DEF TenthsInv
  <2> QED BY <1>6, <2>1, <2>2
<1> QED BY <1>2, <1>8 DEF DoublesInv, WholeInv, PointInv, DoubleInv

(* One more character that is not a sign. *)
LEMMA OneShownMore ==
  ASSUME DoubleKnown, UNCHANGED field, out \in Seq(Printable), NEW k \in Nat, DoubleShown(k),
         NEW j \in Nat, j = k + 1, NEW c \in Printable, c # "-", out' = Append(out, c)
  PROVE  DoubleShown(j)' /\ DoubleKnown'
<1>1. PICK l \in Nat, f \in Nat \ {0}, g \in {0, 1} :
        /\ l = Len(out) /\ f = field.from /\ g = DoubleSign
        /\ l = f - 1 + g + k
  BY DoubleLength
<1>0. DoubleSign' = DoubleSign /\ field' = field
  BY DEF DoubleSign
<1>2. Len(out') = l + 1 /\ out'[l + 1] = c /\ \A i \in 1 .. l : out'[i] = out[i]
  <2>1. /\ Len(Append(out, c)) = Len(out) + 1 /\ Append(out, c)[Len(out) + 1] = c
        /\ \A i \in 1 .. Len(out) : Append(out, c)[i] = out[i]
    BY AppendProperties
  <2>2. l = Len(out)
    BY <1>1
  <2>3. /\ Len(Append(out, c)) = l + 1 /\ Append(out, c)[l + 1] = c
        /\ \A i \in 1 .. l : Append(out, c)[i] = out[i]
    BY <2>1, <2>2
  <2> QED BY <2>3, Zenon
<1>3. l + 1 = f - 1 + g + j
  BY ONLY <1>1, l \in Nat, f \in Nat \ {0}, g \in {0, 1}, k \in Nat, j \in Nat, j = k + 1
<1>4. field.arg.negative => out'[field.from] = "-"
  <2> SUFFICES ASSUME field.arg.negative PROVE out'[field.from] = "-"
    OBVIOUS
  <2>1. g = 1
    BY <1>1 DEF DoubleSign
  <2>2. f \in 1 .. l
    BY ONLY <1>1, <2>1, l \in Nat, f \in Nat \ {0}, k \in Nat
  <2>3. out[field.from] = "-"
    BY DEF DoubleShown
  <2> QED BY <1>1, <1>2, <2>2, <2>3
<1>5. ~field.arg.negative => out'[field.from] # "-"
  <2> SUFFICES ASSUME ~field.arg.negative PROVE out'[field.from] # "-"
    OBVIOUS
  <2>1. g = 0
    BY <1>1 DEF DoubleSign
  <2>2. CASE k = 0
    <3>1. f = l + 1
      BY ONLY <1>1, <2>1, <2>2, l \in Nat, f \in Nat \ {0}
    <3> QED BY <1>1, <1>2, <3>1
  <2>3. CASE k # 0
    <3>1. f \in 1 .. l /\ k > 0
      BY ONLY <1>1, <2>1, <2>3, l \in Nat, f \in Nat \ {0}, k \in Nat
    <3>2. out[field.from] # "-"
      BY <3>1 DEF DoubleShown
    <3> QED BY <1>1, <1>2, <3>1, <3>2
  <2> QED BY <2>2, <2>3
<1>6. Len(out') = field'.from - 1 + DoubleSign' + j
  BY <1>0, <1>1, <1>2, <1>3
<1>7. DoubleKnown'
  BY <1>0 DEF DoubleKnown
<1> QED BY <1>0, <1>4, <1>5, <1>6, <1>7 DEF DoubleShown

LEMMA CountTenthShown == ASSUME DoublesInv, CountTenth PROVE DoublesInv'
<1>1. pc = "tenths" /\ pc' = "tenths" /\ UNCHANGED <<out, field>> /\ tenths # 0
  BY DEF CountTenth
<1>2. DoubleKnown' /\ DoubleShown(0)'
  BY <1>1 DEF DoublesInv, TenthsInv, DoubleKnown, DoubleShown, DoubleSign
<1>3. CASE field.arg.tenths = Infinity /\ tenths = Infinity
  BY <1>1, <1>2, <1>3 DEF CountTenth, DoublesInv, TenthsInv, WholeInv, PointInv, DoubleInv
<1>4. CASE \E n \in Nat, left \in Nat, done \in Nat :
             /\ n = field.arg.tenths /\ tenths = left /\ n = left + done
             /\ places = Kept(done)
  <2>1. PICK n \in Nat, left \in Nat, done \in Nat :
          /\ n = field.arg.tenths /\ tenths = left /\ n = left + done
          /\ places = Kept(done)
    BY <1>4
  <2>2. PICK l \in Nat, e \in Nat : l = left - 1 /\ e = done + 1 /\ n = l + e
    BY <1>1, <2>1
  <2>3. tenths' = l
    BY <1>1, <2>1, <2>2 DEF CountTenth, Infinity
  <2>4. places' = Kept(e)
    <3>1. ((done % 256) + 1) % 256 = (done + 1) % 256
      OBVIOUS
    <3> QED BY <2>1, <2>2, <3>1 DEF CountTenth, Kept
  <2>5. TenthsInv'
    BY <1>1, <1>2, <2>1, <2>2, <2>3, <2>4 DEF TenthsInv
  <2> QED BY <1>1, <2>5 DEF DoublesInv, WholeInv, PointInv, DoubleInv
<1> QED BY <1>1, <1>3, <1>4 DEF DoublesInv, TenthsInv

LEMMA TenthsCountedShown ==
  ASSUME FormatInv, DoublesInv, TenthsCounted PROVE DoublesInv'
<1>1. pc = "tenths" /\ tenths = 0 /\ UNCHANGED <<field, places, tenths>>
  BY DEF TenthsCounted, number
<1>2. PICK n \in Nat : n = field.arg.tenths /\ places = Kept(n)
  <2>1. 0 # Infinity
    BY DEF Infinity
  <2>2. PICK n \in Nat, left \in Nat, done \in Nat :
          n = field.arg.tenths /\ left = 0 /\ n = left + done /\ places = Kept(done)
    BY <1>1, <2>1 DEF DoublesInv, TenthsInv
  <2> QED BY <2>2
<1>3. DoubleKnown /\ DoubleShown(0) /\ out \in Seq(Printable)
  BY <1>1 DEF DoublesInv, TenthsInv, FormatInv
<1>4. PICK left \in Nat : left = places /\ left = Kept(n)
  BY <1>2, KeptKnown
<1>5. CASE left = 0
  <2>1. out' = Append(out, "0") /\ pc' = "fraction" /\ ShownOf(n) = 1
    BY <1>1, <1>4, <1>5 DEF TenthsCounted, ShownOf
  <2>2. "0" \in Printable /\ "0" # "-"
    BY DEF Printable
  <2>3. PICK s \in Nat : s = 0 + 1 /\ s = ShownOf(n)
    BY <2>1
  <2>4. DoubleShown(s)' /\ DoubleKnown'
    BY <1>1, <1>3, <2>1, <2>2, <2>3, OneShownMore
  <2>5. DoubleShown(ShownOf(n))'
    BY <2>3, <2>4
  <2>6. PointInv'
    BY <1>1, <1>2, <2>4, <2>5 DEF PointInv
  <2> QED BY <2>1, <2>6 DEF DoublesInv, TenthsInv, WholeInv, DoubleInv
<1>6. CASE left # 0
  <2>1. out' = out /\ pc' = "whole"
    BY <1>1, <1>4, <1>6 DEF TenthsCounted
  <2>2. DoubleKnown' /\ DoubleShown(0)'
    BY <1>1, <1>3, <2>1 DEF DoubleKnown, DoubleShown, DoubleSign
  <2>3. PICK k \in Nat : k = 0 /\ Kept(n) = k + left
    BY <1>4
  <2>4. WholeInv'
    BY <1>1, <1>2, <1>4, <1>6, <2>2, <2>3 DEF WholeInv
  <2> QED BY <2>1, <2>4 DEF DoublesInv, TenthsInv, PointInv, DoubleInv
<1> QED BY <1>5, <1>6

LEMMA PrintWholeDigitShown ==
  ASSUME FormatInv, DoublesInv, PrintWholeDigit PROVE DoublesInv'
<1>1. /\ pc = "whole" /\ out' = Append(out, "digit") /\ places' = places - 1
      /\ pc' = (IF places' = 0 THEN "fraction" ELSE "whole") /\ UNCHANGED field
  BY DEF PrintWholeDigit
<1>2. PICK n \in Nat, k \in Nat, left \in Nat \ {0} :
        /\ n = field.arg.tenths /\ places = left /\ Kept(n) = k + left /\ DoubleShown(k)
  BY <1>1 DEF DoublesInv, WholeInv
<1>3. DoubleKnown /\ out \in Seq(Printable)
  BY <1>1 DEF DoublesInv, WholeInv, FormatInv
<1>4. PICK j \in Nat, l \in Nat : j = k + 1 /\ l = left - 1 /\ Kept(n) = j + l
  BY <1>2
<1>5. DoubleShown(j)' /\ DoubleKnown'
  <2>1. "digit" \in Printable /\ "digit" # "-"
    BY DEF Printable
  <2>2. UNCHANGED field /\ out' = Append(out, "digit")
    BY <1>1
  <2>3. j = k + 1 /\ DoubleShown(k)
    BY <1>2, <1>4
  <2> QED BY <1>3, <2>1, <2>2, <2>3, OneShownMore
<1>6. places' = l
  BY <1>1, <1>2, <1>4
<1>7. CASE l = 0
  <2>1. pc' = "fraction" /\ ShownOf(n) = j
    <3>1. pc' = "fraction"
      BY <1>1, <1>6, <1>7
    <3>2. PICK m \in Nat : m = Kept(n) /\ m = j /\ m # 0
      BY ONLY <1>4, <1>7, j \in Nat, k \in Nat
    <3> QED BY <3>1, <3>2 DEF ShownOf
  <2>2. PointInv'
    BY <1>1, <1>2, <1>5, <2>1 DEF PointInv
  <2> QED BY <2>1, <2>2 DEF DoublesInv, TenthsInv, WholeInv, DoubleInv
<1>8. CASE l # 0
  <2>1. pc' = "whole"
    BY <1>1, <1>6, <1>8
  <2>2. WholeInv'
    BY <1>1, <1>2, <1>4, <1>5, <1>6, <1>8 DEF WholeInv
  <2> QED BY <2>1, <2>2 DEF DoublesInv, TenthsInv, PointInv, DoubleInv
<1> QED BY <1>7, <1>8

LEMMA PrintFractionShown ==
  ASSUME FormatInv, DoublesInv, PrintFraction PROVE DoublesInv'
<1>1. pc = "fraction" /\ pc' = "print" /\ UNCHANGED field
  BY DEF PrintFraction
<1>2. PICK n \in Nat : n = field.arg.tenths /\ DoubleShown(ShownOf(n))
  BY <1>1 DEF DoublesInv, PointInv
<1>3. DoubleKnown /\ out \in Seq(Printable)
  BY <1>1 DEF DoublesInv, PointInv, FormatInv
<1>4. PICK five : /\ five = <<".", "digit", "digit", "digit", "digit">>
                  /\ five \in Seq(Printable) /\ Len(five) = 5
  <2>1. "digit" \in Printable /\ "." \in Printable
    BY DEF Printable
  <2> QED BY <2>1, FiveCharacters
<1>0. DoubleSign' = DoubleSign /\ field' = field
  BY <1>1 DEF DoubleSign
<1>13. PICK s \in 1 .. 255 : s = ShownOf(n) /\ s \in Nat
  BY KeptKnown
<1>5. PICK l \in Nat, f \in Nat \ {0}, g \in {0, 1} :
        /\ l = Len(out) /\ f = field.from /\ g = DoubleSign
        /\ l = f - 1 + g + s
  BY <1>2, <1>3, <1>13, DoubleLength
<1>6. out' = out \o five
  BY <1>4 DEF PrintFraction
<1>7. Len(out') = l + 5 /\ \A i \in 1 .. l : out'[i] = out[i]
  <2>1. /\ Len(out \o five) = Len(out) + Len(five)
        /\ \A i \in 1 .. Len(out) + Len(five) :
             (out \o five)[i] = IF i <= Len(out) THEN out[i] ELSE five[i - Len(out)]
    BY <1>3, <1>4, ConcatProperties
  <2>2. \A i \in 1 .. l : i \in 1 .. Len(out) + Len(five) /\ i <= Len(out)
    BY <1>4, <1>5
  <2> QED BY <1>4, <1>5, <1>6, <2>1, <2>2
<1>8. l + 5 = f - 1 + g + (s + 5) /\ f \in 1 .. l /\ s > 0
  BY <1>5
<1>9. out'[field.from] = out[field.from]
  BY <1>5, <1>7, <1>8
<1>10. DoubleShown(ShownOf(n) + 5)'
  <2>1. Len(out') = field'.from - 1 + DoubleSign' + (s + 5)
    BY <1>0, <1>5, <1>7, <1>8
  <2>2. /\ field.arg.negative => out[field.from] = "-"
        /\ ~field.arg.negative => out[field.from] # "-"
    BY <1>2, <1>13, <1>8 DEF DoubleShown
  <2>3. DoubleShown(s + 5)'
    BY <1>0, <1>9, <2>1, <2>2 DEF DoubleShown
  <2> QED BY <1>13, <2>3
<1>11. DoubleKnown'
  BY <1>0, <1>3 DEF DoubleKnown
<1>12. DoubleInv'
  BY <1>1, <1>2, <1>10, <1>11 DEF DoubleInv
<1> QED BY <1>1, <1>12 DEF DoublesInv, TenthsInv, WholeInv, PointInv

LEMMA DoublesNext ==
  ASSUME NumbersInv, DoublesInv, [PrintNext]_printVars PROVE DoublesInv'
<1>1. FormatInv
  BY DEF NumbersInv
<1>2. CASE CountTurn \/ CountEnds \/ Done
  <2>1. pc' \notin DoublePhases
    BY <1>2 DEF CountTurn, CountEnds, Done, DoublePhases
  <2>2. pc' = "print" => field'.kind # "double"
    BY <1>1, <1>2 DEF CountTurn, CountEnds, Done, FormatInv, NoField
  <2> QED BY <2>1, <2>2, NoDouble
<1>3. CASE Literal \/ PrintPercent \/ PrintArgumentCharacter \/ Ignore
  <2>1. pc' \in {"print", "overrun"} /\ field'.kind = "none"
    BY <1>3 DEF Literal, PrintPercent, PrintArgumentCharacter, Ignore, Goes, NoField
  <2> QED BY <2>1, NoDouble DEF DoublePhases
<1>4. CASE TakeNumber
  <2>1. pc' \in {"sign", "places"}
    BY <1>4 DEF TakeNumber
  <2> QED BY <2>1, NoDouble DEF DoublePhases
<1>5. CASE PrintSign \/ CountPlace \/ PlacesCounted \/ PrintDigit
  <2>1. pc \in NumberPhases /\ pc' \in NumberPhases \cup {"print"} /\ UNCHANGED field
    BY <1>5 DEF PrintSign, CountPlace, PlacesCounted, PrintDigit, NumberPhases
  <2>2. field.kind = "integer"
    BY <1>1, <2>1 DEF FormatInv, FieldKnown
  <2> QED BY <2>1, <2>2, NoDouble DEF DoublePhases, NumberPhases
<1>6. CASE UNCHANGED printVars
  <2>1. UNCHANGED <<pc, tenths, places, out, field>>
    BY <1>6 DEF printVars, number
  <2>2. (DoubleKnown' <=> DoubleKnown) /\ \A k : DoubleShown(k)' <=> DoubleShown(k)
    BY <2>1 DEF DoubleKnown, DoubleShown, DoubleSign
  <2> QED BY <2>1, <2>2 DEF DoublesInv, TenthsInv, WholeInv, PointInv, DoubleInv
<1> QED
  BY <1>1, <1>2, <1>3, <1>4, <1>5, <1>6, TakeDoubleShown, CountTenthShown, TenthsCountedShown,
     PrintWholeDigitShown, PrintFractionShown DEF PrintNext, Step, Finished

(***************************************************************************)
(* A double is printed with its sign, and with every place before its      *)
(* point exactly if there are fewer than 256 of them.                      *)
(***************************************************************************)
THEOREM DoublesCorrect ==
  ASSUME NarrowLongs
  PROVE  PrintSpec => []DoublesWhole
<1>1. PrintInit => NumbersInv /\ DoublesInv
  <2>1. PrintInit => DoublesInv
    BY DEF PrintInit, DoublesInv, TenthsInv, WholeInv, PointInv, DoubleInv
  <2> QED BY <2>1, NumbersInit
<1>2. NumbersInv /\ DoublesInv /\ [PrintNext]_printVars => NumbersInv' /\ DoublesInv'
  BY NumbersNext, DoublesNext
<1>3. NumbersInv /\ DoublesInv => DoublesWhole
  BY DoublesAgree DEF NumbersInv, FormatInv
<1> QED BY <1>1, <1>2, <1>3, PTL DEF PrintSpec

------------------------------------------------------------------------------
(* The types of PrintString. *)

Long == 0 .. Power(2, LongBits) - 1

LEMMA PrintTypeInit == ASSUME PrintInit PROVE PrintTypeOK
<1>1. NUL \in Nat \ {0} /\ 0 \in 0 .. Len(input.args) /\ 0 \in 0 .. Len(input.doubles)
  <2>1. input.args \in Seq(0 .. Power(2, LongBits) - 1) /\ input.doubles \in Seq(Double)
    BY PrintAssumption DEF PrintInit
  <2> QED BY <2>1, FormatLength, LenProperties DEF PrintInit
<1>2. 0 \in 0 .. Power(2, LongBits) - 1
  <2>1. Power(2, LongBits) \in Nat \ {0}
    BY PrintAssumption, PowersRise
  <2> QED BY <2>1
<1> QED BY <1>1, <1>2 DEF PrintInit, PrintTypeOK

LEMMA CountTurnType == ASSUME PrintTypeOK, CountTurn PROVE PrintTypeOK'
<1>1. /\ str_scanner \in 1 .. NUL /\ str_scanner # NUL /\ NUL \in Nat /\ str \in 1 .. NUL
      /\ num_args \in 0 .. 255
  BY FormatLength DEF PrintTypeOK, CountTurn, At
<1>2. /\ str_scanner' \in {str_scanner + 1, str_scanner + 2, str_scanner + 3}
      /\ pc' = (IF str_scanner' > NUL THEN "overrun" ELSE "count")
      /\ UNCHANGED <<input, str, taken, takenDoubles, conv, value, value_cpy, places, tenths, skipped>>
  BY DEF CountTurn, number
<1>3. num_args' \in 0 .. 255
  <2>1. (num_args + 1) % 256 \in 0 .. 255 /\ (num_args + 0) % 256 \in 0 .. 255
    BY <1>1
  <2> QED BY <1>1, <2>1 DEF CountTurn
<1>4. NUL' = NUL
  BY <1>2 DEF NUL
<1>5. pc' # "overrun" => str_scanner' \in 1 .. NUL
  BY <1>1, <1>2
<1> QED BY <1>1, <1>2, <1>3, <1>4, <1>5 DEF PrintTypeOK

(* The places in the string, and the arguments taken. *)
LEMMA SecondPassType ==
  ASSUME PrintTypeOK, Printing,
         pc' \in {"print", "sign", "places", "tenths", "overrun"},
         NEW next \in Nat \ {0}, str' = next, pc' # "overrun" => next <= NUL,
         UNCHANGED <<input, str_scanner, num_args>>,
         taken' \in 0 .. Len(input.args), takenDoubles' \in 0 .. Len(input.doubles),
         value' \in Long, value_cpy' \in Long,
         tenths' \in Nat \cup {Infinity}, places' \in 0 .. 255, skipped' \in Nat
  PROVE  PrintTypeOK'
<1>1. NUL' = NUL
  BY DEF NUL
<1>2. NUL \in Nat
  BY FormatLength DEF PrintTypeOK
<1>3. pc' # "overrun" => str' \in 1 .. NUL
  BY <1>2
<1>4. str_scanner \in 1 .. NUL
  BY DEF PrintTypeOK, Printing
<1> QED BY <1>1, <1>3, <1>4 DEF PrintTypeOK, Long

LEMMA SecondPassKeepsType ==
  ASSUME FormatInv, PrintTypeOK,
         Literal \/ PrintPercent \/ PrintArgumentCharacter \/ Ignore \/ TakeNumber \/ TakeDouble
  PROVE  PrintTypeOK'
<1>1. /\ taken \in 0 .. Len(input.args) /\ takenDoubles \in 0 .. Len(input.doubles)
      /\ value \in Long /\ value_cpy \in Long
      /\ places \in 0 .. 255 /\ tenths \in Nat \cup {Infinity} /\ skipped \in Nat
      /\ AfterPercent \in {str + 2, str + 3}
  BY PercentKnown DEF PrintTypeOK, Long
<1>2. str \in Nat \ {0} /\ AfterPercent \in Nat \ {0} /\ NUL \in Nat /\ str + 1 \in Nat \ {0}
  <2>1. str \in 1 .. NUL
    BY DEF FormatInv, Literal, PrintPercent, PrintArgumentCharacter, Ignore, TakeNumber, TakeDouble,
           Percent, Printing
  <2>2. NUL \in Nat
    BY FormatLength DEF FormatInv
  <2> QED BY <1>1, <2>1, <2>2
<1>3. CASE Literal
  <2>1. /\ Printing /\ str' = str + 1 /\ pc' = (IF str + 1 > NUL THEN "overrun" ELSE "print")
        /\ UNCHANGED <<input, str_scanner, num_args, taken, takenDoubles, value, value_cpy,
                       places, tenths, skipped>>
    BY <1>3 DEF Literal, Goes, pass1, number
  <2> QED BY <1>1, <1>2, <2>1, SecondPassType
<1>4. CASE PrintPercent
  <2>1. /\ Printing /\ str' = AfterPercent
        /\ pc' = (IF AfterPercent > NUL THEN "overrun" ELSE "print")
        /\ UNCHANGED <<input, str_scanner, num_args, taken, takenDoubles, value, value_cpy,
                       places, tenths, skipped>>
    BY <1>4 DEF PrintPercent, Percent, Goes, pass1, number
  <2> QED BY <1>1, <1>2, <2>1, SecondPassType
<1>5. CASE PrintArgumentCharacter
  <2>1. /\ Printing /\ str' = AfterPercent
        /\ pc' = (IF AfterPercent > NUL THEN "overrun" ELSE "print")
        /\ taken' = taken + 1 /\ taken + 1 \in 0 .. Len(input.args)
        /\ UNCHANGED <<input, str_scanner, num_args, takenDoubles, value, value_cpy,
                       places, tenths, skipped>>
    <3>1. taken + 1 \in 1 .. Len(input.args)
      BY <1>5, TakenWithin DEF PrintArgumentCharacter
    <3> QED BY <1>5, <3>1 DEF PrintArgumentCharacter, Percent, Goes, pass1, number
  <2> QED BY <1>1, <1>2, <2>1, SecondPassType
<1>6. CASE Ignore
  <2>1. /\ Printing /\ str' = AfterPercent
        /\ pc' = (IF AfterPercent > NUL THEN "overrun" ELSE "print")
        /\ skipped' \in {skipped, skipped + 1}
        /\ UNCHANGED <<input, str_scanner, num_args, taken, takenDoubles, value, value_cpy,
                       places, tenths>>
    BY <1>1, <1>6 DEF Ignore, Percent, Goes, pass1, number
  <2> QED BY <1>1, <1>2, <2>1, SecondPassType
<1>7. CASE TakeNumber
  <2>1. \A n \in Int : AsLong(n) \in Long
    BY LongIsWidth, UnsignedCast DEF AsLong, Long
  <2>2. PICK c : c = Conversions[NumberLetter] /\ ConvKnown(c)
    BY <1>7, ConversionsKnown DEF TakeNumber, IsNumber
  <2>3. taken + 1 \in 1 .. Len(input.args) /\ taken + 1 \in 0 .. Len(input.args)
        /\ AfterPercent <= NUL
    BY <1>7, TakenWithin DEF TakeNumber
  <2>4. PICK arg \in 0 .. Power(2, LongBits) - 1 : arg = input.args[taken + 1]
    <3>1. input.args \in Seq(0 .. Power(2, LongBits) - 1)
      BY PrintAssumption DEF FormatInv
    <3> QED BY <2>3, <3>1, ElementOfSeq
  <2>5. PICK n \in Int : n = IF c.signed THEN Signed(arg, c.bits) ELSE Unsigned(arg, c.bits)
    <3>1. PICK bits \in Widths : bits = c.bits
      BY <2>2 DEF ConvKnown
    <3>2. PICK h \in Nat \ {0}, k \in Nat \ {0} :
            Power(2, bits - 1) = h /\ Power(2, bits) = h * 2 /\ Power(2, LongBits) = (h * 2) * k
      BY WidthKnown
    <3>3. arg \in Int
      BY PrintAssumption, Powers
    <3>4. Signed(arg, bits) \in Int /\ Unsigned(arg, bits) \in Int
      BY <3>2, <3>3, SignedCast, UnsignedCast DEF SignedRange
    <3> QED BY <3>1, <3>4
  <2>6. /\ Printing /\ str' = AfterPercent /\ pc' \in {"sign", "places"}
        /\ value' = AsLong(n) /\ value_cpy' = AsLong(n) /\ places' = 0 /\ taken' = taken + 1
        /\ UNCHANGED <<input, str_scanner, num_args, takenDoubles, tenths, skipped>>
    BY <1>7, <2>2, <2>4, <2>5 DEF TakeNumber, Percent, pass1
  <2>7. value' \in Long /\ value_cpy' \in Long
    BY <2>1, <2>6
  <2> QED BY <1>1, <1>2, <2>3, <2>6, <2>7, SecondPassType
<1>8. CASE TakeDouble
  <2>1. /\ takenDoubles + 1 \in 1 .. Len(input.doubles) /\ takenDoubles + 1 \in 0 .. Len(input.doubles)
        /\ AfterPercent <= NUL
    BY <1>8, TakenWithin DEF TakeDouble
  <2>2. PICK d \in Double : d = input.doubles[takenDoubles + 1]
    <3>1. input.doubles \in Seq(Double)
      BY PrintAssumption DEF FormatInv
    <3> QED BY <2>1, <3>1, ElementOfSeq
  <2>3. /\ Printing /\ str' = AfterPercent /\ pc' = "tenths" /\ places' = 0
        /\ takenDoubles' = takenDoubles + 1 /\ tenths' \in {d.float.tenths, d.double.tenths}
        /\ UNCHANGED <<input, str_scanner, num_args, taken, value, value_cpy, skipped>>
    BY <1>8, <2>2 DEF TakeDouble, Percent, pass1
  <2>4. tenths' \in Nat \cup {Infinity}
    BY <2>3 DEF Double, Magnitude
  <2> QED BY <1>1, <1>2, <2>1, <2>3, <2>4, SecondPassType
<1> QED BY <1>3, <1>4, <1>5, <1>6, <1>7, <1>8

LEMMA NumberType ==
  ASSUME PrintTypeOK, pc # "overrun",
         UNCHANGED <<input, str_scanner, num_args, str, taken, takenDoubles, skipped>>,
         pc' \in {"print", "places", "digits", "tenths", "whole", "fraction", "done"},
         value' \in Long, value_cpy' \in Long, tenths' \in Nat \cup {Infinity},
         places' \in 0 .. 255, pc' \in {"digits", "whole"} => places' > 0
  PROVE  PrintTypeOK'
<1>1. NUL' = NUL
  BY DEF NUL
<1> QED BY <1>1 DEF PrintTypeOK, Long

LEMMA RestWithin ==
  ASSUME NEW bits \in Widths, NEW v \in Int
  PROVE  /\ Unsigned(v, bits) \in Nat /\ Unsigned(v, bits) < Power(2, LongBits)
         /\ Signed(v, bits) \in Int /\ Signed(v, bits) < Power(2, LongBits)
<1>1. PICK h \in Nat \ {0}, k \in Nat \ {0} :
        Power(2, bits - 1) = h /\ Power(2, bits) = h * 2 /\ Power(2, LongBits) = (h * 2) * k
  BY WidthKnown
<1>2. PICK l \in Nat : l = Power(2, LongBits) /\ l >= h * 2
  <2>1. PICK w \in Nat : w = h * 2
    OBVIOUS
  <2>2. w * k = w * (k - 1) + w
    BY ONLY w \in Nat, k \in Nat \ {0}
  <2>3. PICK l \in Nat, x \in Nat : l = w * k /\ x = w * (k - 1)
    <3>1. k - 1 \in Nat
      OBVIOUS
    <3> QED BY <3>1, NatTimes
  <2> QED BY <1>1, <2>1, <2>2, <2>3
<1>3. Unsigned(v, bits) \in 0 .. h * 2 - 1 /\ Signed(v, bits) \in -h .. h - 1
  BY <1>1, SignedCast, UnsignedCast DEF SignedRange
<1> QED BY <1>2, <1>3

LEMMA QuotientLess ==
  ASSUME NEW b \in Nat \ {0}, NEW n \in Nat
  PROVE  n \div b \in Nat /\ n \div b <= n
<1>1. PICK q \in Nat, r \in 0 .. b - 1 : q = n \div b /\ n = b * q + r
  BY Divided
<1>2. b * q = (b - 1) * q + q
  BY ONLY b \in Nat \ {0}, q \in Nat
<1>3. PICK x \in Nat, y \in Nat : x = (b - 1) * q /\ y = b * q
  <2>1. b - 1 \in Nat
    OBVIOUS
  <2> QED BY <2>1, NatTimes
<1> QED BY <1>1, <1>2, <1>3

LEMMA NumberStepsKeepType ==
  ASSUME NumbersInv, PrintTypeOK,
         CountEnds \/ PrintSign \/ CountPlace \/ PlacesCounted \/ PrintDigit \/ Done
  PROVE  PrintTypeOK'
<1>1. /\ value \in Long /\ value_cpy \in Long /\ tenths \in Nat \cup {Infinity}
      /\ places \in 0 .. 255 /\ (pc = "digits" => places > 0)
  BY DEF PrintTypeOK, Long
<1>2. pc \in NumberPhases => ConvKnown(conv) /\ conv.bits \in Widths
  BY DEF NumbersInv, FormatInv, FieldKnown, ConvKnown
<1>3. CASE CountEnds \/ Done
  BY <1>1, <1>3, NumberType DEF CountEnds, Done, pass1, number
<1>4. CASE PrintSign
  <2>1. PICK bits \in Widths : bits = conv.bits
    BY <1>2, <1>4 DEF PrintSign, NumberPhases
  <2>2. value \in Int
    <3>1. Power(2, LongBits) \in Nat
      BY PrintAssumption, Powers
    <3> QED BY <1>1, <3>1 DEF Long
  <2>3. PICK n \in Int : n = Signed(value, bits)
    <3>1. PICK h \in Nat \ {0}, k \in Nat \ {0} :
            Power(2, bits - 1) = h /\ Power(2, bits) = h * 2 /\ Power(2, LongBits) = (h * 2) * k
      BY WidthKnown
    <3> QED BY <2>2, <3>1, SignedCast DEF SignedRange
  <2>4. AsLong(-n) \in Long
    BY LongIsWidth, UnsignedCast DEF AsLong, Long
  <2>5. value' \in Long /\ value_cpy' = value'
    BY <1>1, <1>4, <2>1, <2>3, <2>4 DEF PrintSign
  <2> QED BY <1>1, <1>4, <2>5, NumberType DEF PrintSign, pass1
<1>5. CASE CountPlace
  <2>1. (places + 1) % 256 \in 0 .. 255
    BY <1>1
  <2>2. value_cpy' \in Long
    <3>1. PICK l \in Nat : l = Power(2, LongBits)
      BY PrintAssumption, Powers
    <3>2. ConvKnown(conv) /\ conv.signed \in BOOLEAN
      BY <1>2, <1>5 DEF CountPlace, ConvKnown, NumberPhases
    <3>3. PICK v \in Int, bits \in Widths, b \in Nat \ {0} :
            v = value_cpy /\ bits = conv.bits /\ b = conv.base
      BY <1>1, <3>1, <3>2, BasesKnown DEF Long
    <3>4. PICK n \in Nat : n = Rest /\ n < l
      BY <1>5, <3>1, <3>2, <3>3, RestWithin DEF CountPlace, Rest
    <3>5. PICK q \in Nat : q = n \div b /\ q <= n
      BY QuotientLess
    <3>6. value_cpy' = q
      BY <1>5, <3>3, <3>4, <3>5 DEF CountPlace
    <3> QED BY <3>1, <3>4, <3>5, <3>6 DEF Long
  <2> QED BY <1>1, <1>5, <2>1, <2>2, NumberType DEF CountPlace, pass1
<1>6. CASE PlacesCounted
  <2>1. /\ pc = "places" /\ pc' \in {"print", "digits"} /\ (pc' = "digits" => places > 0)
        /\ UNCHANGED <<input, str_scanner, num_args, str, taken, takenDoubles, value,
                       value_cpy, places, tenths, skipped>>
    BY <1>1, <1>6 DEF PlacesCounted, pass1, number
  <2> QED BY <1>1, <2>1, NumberType
<1>7. CASE PrintDigit
  <2>1. /\ pc = "digits" /\ places' = places - 1
        /\ pc' = (IF places' = 0 THEN "print" ELSE "digits")
        /\ UNCHANGED <<input, str_scanner, num_args, str, taken, takenDoubles, value,
                       value_cpy, tenths, skipped>>
    BY <1>7 DEF PrintDigit, pass1
  <2>2. places - 1 \in 0 .. 255 /\ (places - 1 # 0 => places - 1 > 0)
    BY <1>1, <2>1
  <2>3. pc' \in {"print", "digits"} /\ (pc' = "digits" => places' > 0)
    BY <2>1, <2>2
  <2> QED BY <1>1, <2>1, <2>2, <2>3, NumberType
<1> QED BY <1>3, <1>4, <1>5, <1>6, <1>7

LEMMA DoubleStepsKeepType ==
  ASSUME PrintTypeOK, CountTenth \/ TenthsCounted \/ PrintWholeDigit \/ PrintFraction
  PROVE  PrintTypeOK'
<1>1. /\ value \in Long /\ value_cpy \in Long /\ tenths \in Nat \cup {Infinity}
      /\ places \in 0 .. 255 /\ (pc = "whole" => places > 0)
  BY DEF PrintTypeOK, Long
<1>2. UNCHANGED <<input, str_scanner, num_args, str, taken, takenDoubles, value, value_cpy, skipped>>
  BY DEF CountTenth, TenthsCounted, PrintWholeDigit, PrintFraction, integer, number, pass1
<1>3. CASE CountTenth
  <2>1. (places + 1) % 256 \in 0 .. 255
    BY <1>1
  <2>2. tenths' \in Nat \cup {Infinity}
    BY <1>1, <1>3 DEF CountTenth
  <2> QED BY <1>1, <1>2, <1>3, <2>1, <2>2, NumberType DEF CountTenth
<1>4. CASE TenthsCounted
  <2>1. places' = places /\ tenths' = tenths
    BY <1>4 DEF TenthsCounted, number
  <2>2. pc = "tenths" /\ pc' \in {"whole", "fraction"} /\ (pc' = "whole" => places > 0)
    BY <1>1, <1>4 DEF TenthsCounted
  <2> QED BY <1>1, <1>2, <2>1, <2>2, NumberType
<1>5. CASE PrintWholeDigit
  <2>1. pc = "whole" /\ places' = places - 1 /\ tenths' = tenths
        /\ pc' = (IF places' = 0 THEN "fraction" ELSE "whole")
    BY <1>5 DEF PrintWholeDigit
  <2>2. places - 1 \in 0 .. 255 /\ (places - 1 # 0 => places - 1 > 0)
    BY <1>1, <2>1
  <2> QED BY <1>1, <1>2, <2>1, <2>2, NumberType
<1>6. CASE PrintFraction
  BY <1>1, <1>2, <1>6, NumberType DEF PrintFraction
<1> QED BY <1>3, <1>4, <1>5, <1>6

LEMMA PrintTypeNext ==
  ASSUME NumbersInv, PrintTypeOK, [PrintNext]_printVars
  PROVE  PrintTypeOK'
<1>1. CASE Step
  BY <1>1, CountTurnType, SecondPassKeepsType, NumberStepsKeepType, DoubleStepsKeepType
     DEF Step, NumbersInv
<1>2. CASE UNCHANGED printVars
  <2>1. UNCHANGED <<input, pc, str_scanner, num_args, str, taken, takenDoubles, value,
                    value_cpy, places, tenths, skipped>>
    BY <1>2 DEF printVars, pass1, number
  <2> QED BY <2>1 DEF PrintTypeOK, NUL
<1> QED BY <1>1, <1>2 DEF PrintNext, Finished

(***************************************************************************)
(* PrintString takes no argument past those of its format's conversions,   *)
(* and keeps every whole number in a long and every count of places in a   *)
(* byte, for every format, argument and width.                             *)
(***************************************************************************)
THEOREM PrintTypeCorrect ==
  ASSUME NarrowLongs
  PROVE  PrintSpec => []PrintTypeOK
<1>1. PrintInit => NumbersInv /\ PrintTypeOK
  BY NumbersInit, PrintTypeInit
<1>2. NumbersInv /\ PrintTypeOK /\ [PrintNext]_printVars => NumbersInv' /\ PrintTypeOK'
  BY NumbersNext, PrintTypeNext
<1> QED BY <1>1, <1>2, PTL DEF PrintSpec

------------------------------------------------------------------------------
(***************************************************************************)
(* Where a string may be left: at a percent sign or a length that is its   *)
(* last character.  Both passes step two or three characters from a        *)
(* percent sign, whatever they find behind it.                             *)
(***************************************************************************)
LeftInsideConversion ==
  pc = "overrun" => Len(input.fmt) > 0 /\ At(NUL - 1) \in {"%", "h", "l"}

StringInv ==
  /\ input \in Inputs
  /\ pc # "overrun" => str_scanner \in 1 .. NUL /\ str \in 1 .. NUL
  /\ LeftInsideConversion

LEMMA StringInit == ASSUME PrintInit PROVE StringInv
  BY FormatLength DEF PrintInit, StringInv, LeftInsideConversion

(* A turn from position j goes past the end only from inside a conversion. *)
LEMMA TurnWithin ==
  ASSUME input \in Inputs, NEW j \in 1 .. NUL, At(j) # "NUL"
  PROVE  /\ TurnTo(j) \in Nat \ {0}
         /\ TurnTo(j) > NUL => Len(input.fmt) > 0 /\ At(NUL - 1) \in {"%", "h", "l"}
<1>1. NUL \in Nat \ {0} /\ j < NUL /\ (j < NUL => Len(input.fmt) > 0)
  <2>1. NUL \in Nat \ {0} /\ Len(input.fmt) = NUL - 1
    BY FormatLength, PrintAssumption DEF NUL
  <2> QED BY <2>1 DEF At
<1>2. CASE At(j) # "%"
  BY <1>1, <1>2 DEF TurnTo
<1>3. CASE At(j) = "%" /\ At(j + 1) \in {"h", "l"}
  <2>1. TurnTo(j) = j + 3
    BY <1>3 DEF TurnTo
  <2>2. TurnTo(j) > NUL => NUL - 1 \in {j, j + 1}
    BY <1>1, <2>1
  <2> QED BY <1>1, <1>3, <2>1, <2>2
<1>4. CASE At(j) = "%" /\ At(j + 1) \notin {"h", "l"}
  <2>1. TurnTo(j) = j + 2
    BY <1>4 DEF TurnTo
  <2>2. TurnTo(j) > NUL => NUL - 1 = j
    BY <1>1, <2>1
  <2> QED BY <1>1, <1>4, <2>1, <2>2
<1> QED BY <1>2, <1>3, <1>4

LEMMA TurnKeepsString ==
  ASSUME StringInv, NEW j \in 1 .. NUL, At(j) # "NUL", input' = input, pc # "overrun",
         \/ str_scanner' = TurnTo(j) /\ str' = str
         \/ str' = TurnTo(j) /\ str_scanner' = str_scanner,
         TurnTo(j) > NUL => pc' = "overrun"
  PROVE  (pc' = "overrun" => TurnTo(j) > NUL) => StringInv'
<1>1. NUL' = NUL /\ NUL \in Nat /\ \A k : At(k)' = At(k)
  BY FormatLength DEF StringInv, NUL, At
<1>2. /\ TurnTo(j) \in Nat \ {0}
      /\ TurnTo(j) > NUL => Len(input.fmt) > 0 /\ At(NUL - 1) \in {"%", "h", "l"}
  BY TurnWithin DEF StringInv
<1>3. str_scanner \in 1 .. NUL /\ str \in 1 .. NUL
  BY DEF StringInv
<1> QED BY <1>1, <1>2, <1>3 DEF StringInv, LeftInsideConversion

LEMMA NumberTurnWithin ==
  ASSUME input \in Inputs, str \in 1 .. NUL,
         Percent, IsNumber \/ Letter \in {"f", "g"}
  PROVE  AfterPercent <= NUL
<1>1. NUL \in Nat \ {0} /\ str < NUL
  BY FormatLength DEF Percent, Printing, At
<1>2. CASE HasLength
  <2>1. IsNumber
    BY <1>2 DEF HasLength
  <2>2. SecondLetter # "NUL"
    BY <1>2, <2>1 DEF IsNumber, NumberLetter, Conversions, HasLength, ShortConversions, LongConversions
  <2>3. str + 2 < NUL
    BY <1>1, <2>2 DEF SecondLetter, At
  <2> QED BY <1>1, <1>2, <2>3 DEF AfterPercent
<1>3. CASE ~HasLength
  <2>1. Letter # "NUL"
    BY <1>3 DEF IsNumber, NumberLetter, Conversions, HasLength, IntConversions
  <2>2. str + 1 < NUL
    BY <1>1, <2>1 DEF Letter, At
  <2> QED BY <1>1, <1>3, <2>2 DEF AfterPercent
<1> QED BY <1>2, <1>3

LEMMA StringNext == ASSUME StringInv, [PrintNext]_printVars PROVE StringInv'
<1>1. CASE CountTurn
  <2>1. str_scanner \in 1 .. NUL /\ At(str_scanner) # "NUL" /\ input' = input /\ str' = str
        /\ str_scanner' = TurnTo(str_scanner) /\ pc # "overrun"
    BY <1>1 DEF CountTurn, TurnTo, StringInv
  <2>2. pc' = "overrun" <=> TurnTo(str_scanner) > NUL
    BY <1>1, <2>1 DEF CountTurn
  <2> QED BY <2>1, <2>2, TurnKeepsString
<1>2. CASE \/ Literal \/ PrintPercent \/ PrintArgumentCharacter \/ Ignore
           \/ TakeNumber \/ TakeDouble
  <2>1. str \in 1 .. NUL /\ At(str) # "NUL" /\ input' = input /\ str_scanner' = str_scanner
        /\ pc # "overrun" /\ input \in Inputs
    BY <1>2 DEF StringInv, Literal, PrintPercent, PrintArgumentCharacter, Ignore, TakeNumber,
                TakeDouble, Percent, Printing, pass1
  <2>2. str' = TurnTo(str) /\ (pc' = "overrun" <=> TurnTo(str) > NUL)
    <3>1. CASE Literal
      BY <3>1 DEF Literal, Goes, TurnTo
    <3>2. CASE PrintPercent \/ PrintArgumentCharacter \/ Ignore
      <4>1. Percent /\ str' = AfterPercent /\ pc' = (IF AfterPercent > NUL THEN "overrun" ELSE "print")
        BY <3>2 DEF PrintPercent, PrintArgumentCharacter, Ignore, Goes
      <4> QED BY <4>1, PercentTurns
    <3>3. CASE TakeNumber \/ TakeDouble
      <4>1. /\ Percent /\ str' = AfterPercent /\ pc' \in {"sign", "places", "tenths"}
            /\ IsNumber \/ Letter \in {"f", "g"}
        BY <3>3 DEF TakeNumber, TakeDouble
      <4>2. AfterPercent <= NUL /\ NUL \in Nat /\ AfterPercent \in Int
        <5>1. AfterPercent \in {str + 2, str + 3}
          BY DEF AfterPercent
        <5> QED BY <2>1, <4>1, <5>1, NumberTurnWithin, FormatLength
      <4> QED BY <4>1, <4>2, PercentTurns
    <3> QED BY <1>2, <3>1, <3>2, <3>3
  <2> QED BY <2>1, <2>2, TurnKeepsString
<1>3. CASE \/ CountEnds \/ PrintSign \/ CountPlace \/ PlacesCounted \/ PrintDigit \/ Done
           \/ CountTenth \/ TenthsCounted \/ PrintWholeDigit \/ PrintFraction
  <2>1. UNCHANGED <<input, str_scanner, str>> /\ pc # "overrun" /\ pc' # "overrun"
    BY <1>3 DEF CountEnds, PrintSign, CountPlace, PlacesCounted, PrintDigit, Done, CountTenth,
                TenthsCounted, PrintWholeDigit, PrintFraction, pass1
  <2> QED BY <2>1 DEF StringInv, LeftInsideConversion, NUL
<1>4. CASE UNCHANGED printVars
  <2>1. UNCHANGED <<input, str_scanner, str, pc>>
    BY <1>4 DEF printVars, pass1
  <2> QED BY <2>1 DEF StringInv, LeftInsideConversion, NUL, At
<1> QED BY <1>1, <1>2, <1>3, <1>4 DEF PrintNext, Step, Finished

(***************************************************************************)
(* Neither pass steps over the end of its string, for any format, unless   *)
(* the format ends inside a conversion: in '%', 'h' or 'l'.  (What it      *)
(* reads and prints from there on is beyond the model.)                    *)
(***************************************************************************)
THEOREM StringCorrect == PrintSpec => []LeftInsideConversion
<1>1. PrintInit => StringInv
  BY StringInit
<1>2. StringInv /\ [PrintNext]_printVars => StringInv'
  BY StringNext
<1>3. StringInv => LeftInsideConversion
  BY DEF StringInv
<1> QED BY <1>1, <1>2, <1>3, PTL DEF PrintSpec

=============================================================================
