--------------------------- MODULE KernelStartProofs ---------------------------
(***************************************************************************)
(* The kernel's screen, for every size of it, every text and any number of *)
(* handlers that interrupt one another: the cursor stays on the screen,    *)
(* and a report that nobody struck is whole.                               *)
(***************************************************************************)
EXTENDS KernelStart, TLAPS

(***************************************************************************)
(* What a printer that is about to store the cursor knows of the one it    *)
(* has read: it was not at the end of the screen, or of the last row.  The *)
(* cursor may have moved since.  And only a handler is woken from a halt.  *)
(***************************************************************************)
PrinterSafe(p) ==
  /\ (p.step = "store" /\ p.at <= Len(Text(p))) =>
       IF Text(p)[p.at] # Newline THEN p.seen < Last ELSE p.seen \div Cols < Rows - 1
  /\ p.step = "woken" => p.who # Kernel

(* kernel_main is at the bottom of the stack. *)
PrintersSafe(ps) ==
  /\ ps \in Seq(PrinterType) /\ ps # <<>>
  /\ \A d \in 1 .. Len(ps) : PrinterSafe(ps[d])
  /\ ps[1].who = Kernel

IInv ==
  /\ PrintersSafe(printers)
  /\ index \in 0 .. Last
  /\ started \in 0 .. 2 /\ events \in 0 .. MaxEvents

(* The row a newline goes to, and the first cell of the last row. *)
LEMMA RowsOnScreen ==
  /\ Last \in Nat
  /\ (Rows - 1) * Cols \in 0 .. Last
  /\ \A row \in 0 .. Rows - 1 : row * Cols \in 0 .. Last
<1> USE KernelStartAssumption DEF Last
<1>1. \A row \in 0 .. Rows - 1 : row * Cols \in 0 .. Rows * Cols - 1
  <2> SUFFICES ASSUME NEW row \in 0 .. Rows - 1 PROVE row * Cols \in 0 .. Rows * Cols - 1
    OBVIOUS
  <2>1. row * Cols >= 0 /\ (Rows - row) * Cols >= Cols
    BY SMT
  <2>2. (Rows - row) * Cols = Rows * Cols - row * Cols
    BY SMT
  <2> QED BY <2>1, <2>2
<1>2. Rows - 1 \in 0 .. Rows - 1
  OBVIOUS
<1>3. Rows * Cols - 1 \in Nat
  BY <1>1, <1>2
<1> QED BY <1>1, <1>2, <1>3

(* A printer's place, and the type of what replaces the top of the stack. *)
LEMMA TopChanges ==
  ASSUME IInv, NEW p \in PrinterType, PrinterSafe(p), p.who = Top.who, Becomes(p)
  PROVE  PrintersSafe(printers')
BY DEF IInv, PrintersSafe, Becomes, Depth, Top

(* The initial state satisfies the invariant. *)
LEMMA InitIInv == Init => IInv
BY RowsOnScreen, KernelStartAssumption
   DEF Init, IInv, PrintersSafe, Printer, At, Kernel, PrinterType, Steps, PrinterSafe, Pixels, RowPixels

(* Where a store may put the cursor. *)
LEMMA StoresOnScreen ==
  ASSUME NEW p \in PrinterType, PrinterSafe(p), p.step = "store", p.at <= Len(Text(p))
  PROVE  /\ Text(p)[p.at] # Newline => p.seen + 1 \in 0 .. Last
         /\ Text(p)[p.at] = Newline => (p.seen \div Cols + 1) * Cols \in 0 .. Last
<1> USE KernelStartAssumption, RowsOnScreen
<1>1. p.seen \in 0 .. Last
  BY DEF PrinterType
<1>2. CASE Text(p)[p.at] # Newline
  BY <1>1, <1>2 DEF PrinterSafe
<1>3. CASE Text(p)[p.at] = Newline
  <2>1. p.seen \div Cols < Rows - 1
    BY <1>3 DEF PrinterSafe
  <2>2. p.seen \div Cols \in Nat
    BY <1>1
  <2>3. p.seen \div Cols + 1 \in 0 .. Rows - 1
    BY <2>1, <2>2
  <2> QED BY <1>3, <2>3
<1> QED BY <1>2, <1>3

LEMMA PixelsNat == Pixels \in Nat
BY KernelStartAssumption DEF Pixels, RowPixels

(* A printer that has printed a character starts on the next. *)
LEMMA PrintedSafe ==
  ASSUME NEW p \in PrinterType
  PROVE  Printed(p) \in PrinterType /\ PrinterSafe(Printed(p)) /\ Printed(p).who = p.who
BY RowsOnScreen, PixelsNat DEF Printed, At, PrinterType, Steps, PrinterSafe

LEMMA WokenSafe ==
  ASSUME NEW p \in PrinterType, p.who # Kernel
  PROVE  Woken(p) \in PrinterType /\ PrinterSafe(Woken(p)) /\ Woken(p).who = p.who
BY DEF Woken, At, PrinterType, Steps, PrinterSafe

LEMMA TopSafe ==
  ASSUME IInv
  PROVE  Depth \in 1 .. Len(printers) /\ Top \in PrinterType /\ PrinterSafe(Top)
BY DEF IInv, PrintersSafe, Depth, Top

(* A printer that goes on with its character, but does not come to store. *)
LEMMA GoesSafe ==
  ASSUME IInv, NEW step \in {"paint", "scroll"}, NEW place \in 0 .. Pixels,
         NEW seen \in 0 .. Last, Goes(step, place, seen)
  PROVE  PrintersSafe(printers')
<1> DEFINE p == At(Top.who, Top.at, step, place, seen, Top.struck)
<1>1. p \in PrinterType /\ PrinterSafe(p) /\ p.who = Top.who
  BY TopSafe DEF At, PrinterType, Steps, PrinterSafe
<1>2. Becomes(p)
  BY DEF Goes
<1> HIDE DEF p
<1> QED BY <1>1, <1>2, TopChanges

(* It comes to store with a cursor it has just compared. *)
LEMMA GoesToStore ==
  ASSUME IInv, ~AtEnd, Goes("store", 0, index)
  PROVE  PrintersSafe(printers')
<1> DEFINE p == At(Top.who, Top.at, "store", 0, index, Top.struck)
<1>1. index \in 0 .. Last
  BY DEF IInv
<1>2. p \in PrinterType /\ p.who = Top.who
  BY <1>1, TopSafe, PixelsNat DEF At, PrinterType, Steps
<1>3. p.seen = index /\ p.at = Top.at /\ Text(p) = Text(Top) /\ p.step = "store"
  BY DEF At, Text
<1>4. PrinterSafe(p)
  BY <1>1, <1>3, KernelStartAssumption DEF PrinterSafe, AtEnd, AtCharacter, Last
<1>5. Becomes(p)
  BY DEF Goes
<1> HIDE DEF p
<1> QED BY <1>2, <1>4, <1>5, TopChanges

(***************************************************************************)
(* Every step preserves the invariant.                                     *)
(***************************************************************************)
LEMMA NextIInv == IInv /\ [Next]_vars => IInv'
<1> SUFFICES ASSUME IInv, [Next]_vars PROVE IInv'
  OBVIOUS
<1> USE TopSafe, RowsOnScreen, PixelsNat
<1>1. CASE InitializeSystem
  BY <1>1 DEF InitializeSystem, IInv
<1>2. CASE PaintPixel
  <2>1. Top.place + 1 \in 0 .. Pixels
    <3>1. Top.place \in 0 .. Pixels
      BY DEF PrinterType
    <3>2. Top.place < Parts /\ Parts <= Pixels
      <4>1. Cols * Parts >= Parts /\ Rows * (Cols * Parts) >= Cols * Parts
        BY KernelStartAssumption, SMT
      <4> QED BY <1>2, <4>1, KernelStartAssumption DEF PaintPixel, Pixels, RowPixels
    <3> QED BY <3>1, <3>2, KernelStartAssumption
  <2>2. Top.step = "paint" /\ Top.seen \in 0 .. Last /\ Goes("paint", Top.place + 1, Top.seen)
    BY <1>2 DEF PaintPixel, Doing, PrinterType
  <2> QED BY <1>2, <2>1, <2>2, GoesSafe DEF PaintPixel, Rest, IInv
<1>3. CASE TestCursor
  <2>1. CASE AtEnd
    <3>1. Goes("scroll", 0, index) /\ index \in 0 .. Last
      BY <1>3, <2>1 DEF TestCursor, IInv
    <3> QED BY <1>3, <3>1, GoesSafe DEF TestCursor, Rest, IInv
  <2>2. CASE ~AtEnd
    <3>1. Goes("store", 0, index)
      BY <1>3, <2>2 DEF TestCursor
    <3> QED BY <1>3, <2>2, <3>1, GoesToStore DEF TestCursor, Rest, IInv
  <2> QED BY <2>1, <2>2
<1>4. CASE ScrollPixel
  <2>1. /\ Top.place + 1 \in 0 .. Pixels /\ Top.seen \in 0 .. Last
        /\ Goes("scroll", Top.place + 1, Top.seen)
    BY <1>4 DEF ScrollPixel, Doing, PrinterType
  <2> QED BY <1>4, <2>1, GoesSafe DEF ScrollPixel, Rest, IInv
<1>5. CASE StoreCursor
  <2>1. index' \in 0 .. Last
    BY <1>5, StoresOnScreen DEF StoreCursor, Doing, AtCharacter
  <2> QED BY <1>5, <2>1, PrintedSafe, TopChanges DEF StoreCursor, Rest, IInv
<1>6. CASE StoreLastRow
  BY <1>6, PrintedSafe, TopChanges DEF StoreLastRow, Rest, IInv
<1>7. CASE Strike
  <2> DEFINE p == Struck
             h == Printer(events + 1)
  <2>1. p \in PrinterType /\ PrinterSafe(p) /\ p.who = Top.who
    BY WokenSafe DEF Struck, At, PrinterType, Steps, PrinterSafe, Text
  <2>2. h \in PrinterType /\ PrinterSafe(h)
    BY <1>7, PixelsNat, KernelStartAssumption
       DEF Strike, Printer, At, PrinterType, Steps, PrinterSafe, IInv
  <2>3. printers' = Append([printers EXCEPT ![Depth] = p], h)
    BY <1>7 DEF Strike
  <2> HIDE DEF p, h
  <2>4. PrintersSafe(printers')
    BY <2>1, <2>2, <2>3 DEF IInv, PrintersSafe, Depth, Top
  <2>5. events' \in 0 .. MaxEvents
    BY <1>7, KernelStartAssumption DEF Strike, IInv
  <2> QED BY <1>7, <2>4, <2>5 DEF Strike, IInv
<1>8. CASE Wake
  <2>1. events' \in 0 .. MaxEvents
    BY <1>8, KernelStartAssumption DEF Wake, IInv
  <2> QED BY <1>8, <2>1, WokenSafe, TopChanges DEF Wake, IInv
<1>9. CASE Return
  <2>1. Depth > 1
    BY <1>9 DEF Return, IInv, PrintersSafe, PrinterSafe, Depth, Top
  <2>2. printers \in Seq(PrinterType) /\ printers' = SubSeq(printers, 1, Len(printers) - 1)
    BY <1>9 DEF Return, IInv, PrintersSafe, Depth
  <2>3. /\ printers' \in Seq(PrinterType) /\ Len(printers') = Len(printers) - 1
        /\ \A d \in 1 .. Len(printers') : printers'[d] = printers[d]
    BY <2>1, <2>2 DEF Depth
  <2>4. PrintersSafe(printers')
    BY <2>1, <2>3 DEF IInv, PrintersSafe, Depth
  <2> QED BY <1>9, <2>4 DEF Return, Rest, IInv
<1>10. CASE UNCHANGED vars
  BY <1>10 DEF vars, IInv
<1>11. CASE Resting
  BY <1>10, <1>11 DEF Resting
<1> QED
  BY <1>1, <1>2, <1>3, <1>4, <1>5, <1>6, <1>7, <1>8, <1>9, <1>10, <1>11
     DEF Next, Run, PrintStep

(***************************************************************************)
(* The cursor is on the screen at every step, whoever else prints.         *)
(***************************************************************************)
THEOREM CursorStaysOnScreen == Spec => []CursorOnScreen
<1>1. IInv => CursorOnScreen
  BY DEF IInv, CursorOnScreen
<1> QED BY <1>1, InitIInv, NextIInv, PTL DEF Spec

(* The records, the stack of printers and the counters have their types. *)
THEOREM KernelStartTypes == Spec => []TypeOK
<1>1. IInv => TypeOK
  BY RowsOnScreen DEF IInv, PrintersSafe, TypeOK
<1> QED BY <1>1, InitIInv, NextIInv, PTL DEF Spec

------------------------------------------------------------------------------
(***************************************************************************)
(* A report that nobody struck.  A printer is excused when it is           *)
(* kernel_main, when it was struck, or when its halt has ended.            *)
(***************************************************************************)
Excused(p) == p.who = Kernel \/ p.struck \/ p.step = "woken"

(* The first n characters of p are in the cells up to the one it is at.    *)
ReportShown(p, n) == \A k \in 1 .. n : Shows(index - p.at + k, p, k)

(* While the screen is scrolled, a pixel of the report is still in its old *)
(* place, is already in the new one, or both.                              *)
PixelScrolled(p, k, part) ==
  LET b == (Last - p.at + k) * Parts + part IN
  /\ b >= p.place => frame[b] = <<p.who, k, part>>
  /\ b < p.place + RowPixels => frame[b - RowPixels] = <<p.who, k, part>>

PaintLegible(p) ==
  /\ p.place <= Parts
  /\ ReportShown(p, p.at - 1)
  /\ \A part \in 0 .. p.place - 1 : frame[index * Parts + part] = <<p.who, p.at, part>>

StoreLegible(p) == p.at <= ErrorLength /\ p.seen = index /\ ReportShown(p, p.at)

ScrollLegible(p) ==
  /\ p.at <= ErrorLength /\ index = Last
  /\ \A k \in 1 .. p.at : \A part \in 0 .. Parts - 1 : PixelScrolled(p, k, part)

Legible(p) ==
  /\ p.at \in 1 .. ErrorLength + 1 /\ p.at - 1 <= index
  /\ p.step = "paint" => PaintLegible(p)
  /\ p.step = "store" => StoreLegible(p)
  /\ p.step = "scroll" => ScrollLegible(p)

(***************************************************************************)
(* Only the printer on top of the stack changes the screen, so only its    *)
(* report can be whole; those below were struck when they were covered.    *)
(***************************************************************************)
ReportInv ==
  /\ DOMAIN frame = Pixel
  /\ started # 2 => Top.who = Kernel
  /\ \A d \in 1 .. Depth - 1 : Excused(printers[d])
  /\ ~Excused(Top) => Legible(Top)

RInv == IInv /\ ReportInv

(* A handler's text has no newline. *)
LEMMA ErrorTextKnown ==
  /\ Len(ErrorText) = ErrorLength
  /\ \A k \in 1 .. ErrorLength : ErrorText[k] # Newline
<1>1. PICK n \in Nat : n = ErrorLength
  BY KernelStartAssumption
<1>2. PICK t : t = [k \in 1 .. n |-> "character"]
  OBVIOUS
<1>3. t \in Seq({"character"}) /\ Len(t) = n /\ \A k \in 1 .. n : t[k] = "character"
  BY <1>2
<1> QED BY <1>1, <1>2, <1>3 DEF ErrorText, Characters, Newline

(* The kernel's lines are sequences of characters and newlines. *)
LEMMA LineIsText == PrintedLine \in Seq({"character", Newline})
<1>1. PICK n \in Nat : n = LineLength
  BY KernelStartAssumption
<1>2. [k \in 1 .. n |-> "character"] \in Seq({"character", Newline})
  OBVIOUS
<1> QED BY <1>1, <1>2 DEF PrintedLine, Characters

LEMMA HandlerText ==
  ASSUME NEW p, p.who # Kernel
  PROVE  Len(Text(p)) = ErrorLength /\ \A k \in 1 .. ErrorLength : Text(p)[k] # Newline
BY ErrorTextKnown DEF Text

(* The pixels of a cell, and of the cell a row above. *)
LEMMA CellPixels ==
  ASSUME NEW c \in 0 .. Last, NEW part \in 0 .. Parts - 1
  PROVE  /\ c * Parts \in Nat /\ c * Parts + part \in Pixel
         /\ c >= Cols => /\ c * Parts + part >= RowPixels
                         /\ (c * Parts + part) - RowPixels = (c - Cols) * Parts + part
<1> USE KernelStartAssumption
<1>1. PICK n \in Nat \ {0}, m \in Nat \ {0}, r \in Nat \ {0} : n = Parts /\ m = Cols /\ r = Rows
  OBVIOUS
<1>2. PICK cells \in Nat : cells = r * m
  OBVIOUS
<1>3. r * (m * n) = cells * n
  BY <1>2
<1>4. (cells - c) * n >= n /\ (cells - c) * n = cells * n - c * n
  <2>1. cells - c >= 1
    BY <1>1, <1>2 DEF Last
  <2>2. PICK d \in Nat \ {0} : d = cells - c
    BY <2>1
  <2>3. d * n >= n
    OBVIOUS
  <2> QED BY <2>2, <2>3
<1>5. c * n \in Nat
  BY <1>1
<1>6. c * n + part < cells * n
  BY <1>1, <1>4, <1>5
<1>7. c >= m => c * n >= m * n /\ c * n - m * n = (c - m) * n
  <2> SUFFICES ASSUME c >= m PROVE c * n >= m * n /\ c * n - m * n = (c - m) * n
    OBVIOUS
  <2>1. PICK d \in Nat : d = c - m
    BY <1>1
  <2>2. d * n >= 0 /\ c * n = d * n + m * n
    BY <2>1
  <2> QED BY <2>1, <2>2
<1>8. m * n \in Nat
  BY <1>1
<1> QED BY <1>1, <1>3, <1>5, <1>6, <1>7, <1>8 DEF Pixel, Pixels, RowPixels

(* Cells do not share pixels. *)
LEMMA CellsApart ==
  ASSUME NEW c \in Nat, NEW d \in Nat, c < d, NEW part \in 0 .. Parts - 1
  PROVE  c * Parts + part < d * Parts
<1>1. PICK n \in Nat \ {0}, e \in Nat \ {0} : n = Parts /\ e = d - c
  BY KernelStartAssumption
<1>2. e * n >= n /\ e * n = d * n - c * n
  BY <1>1
<1>3. c * n \in Nat /\ d * n \in Nat
  BY <1>1
<1> QED BY <1>1, <1>2, <1>3

(* Where the report ends, a row of the screen is above it. *)
LEMMA ReportBelowFirstRow ==
  ASSUME NEW at \in 1 .. ErrorLength, NEW k \in 1 .. at
  PROVE  Last - at + k \in Cols .. Last /\ (Rows - 1) * Cols = Last + 1 - Cols
         /\ at <= (Rows - 1) * Cols
<1>1. (Rows - 1) * Cols = Rows * Cols - Cols
  BY KernelStartAssumption
<1>2. Rows * Cols \in Nat
  BY KernelStartAssumption
<1> QED BY <1>1, <1>2, KernelStartAssumption DEF Last

(* kernel_main or the firmware: the start of the invariant. *)
LEMMA InitRInv == Init => RInv
BY InitIInv DEF Init, RInv, ReportInv, Top, Depth, Printer, At, Excused

(***************************************************************************)
(* One step of a printer that has not been excused.                        *)
(***************************************************************************)
LEMMA TopTypes ==
  ASSUME IInv
  PROVE  /\ Top \in PrinterType /\ Depth \in Nat \ {0} /\ Depth = Len(printers)
         /\ Top.at \in Nat \ {0} /\ Top.place \in 0 .. Pixels /\ Top.seen \in 0 .. Last
         /\ Top.who \in 0 .. MaxEvents /\ Top.step \in Steps /\ Top.struck \in BOOLEAN
         /\ index \in 0 .. Last /\ Last \in Nat /\ Pixels \in Nat
         /\ ErrorLength \in Nat /\ Parts \in Nat \ {0}
<1>1. ErrorLength \in Nat /\ Parts \in Nat \ {0}
  <2>1. (Rows - 1) * Cols \in Nat
    BY RowsOnScreen
  <2> QED BY <2>1, KernelStartAssumption
<1>2. /\ Depth \in Nat \ {0} /\ Depth = Len(printers)
  <2>1. printers \in Seq(PrinterType) /\ printers # <<>>
    BY DEF IInv, PrintersSafe
  <2> QED BY <2>1 DEF Depth
<1>3. Top \in PrinterType
  BY TopSafe
<1>4. /\ Top.at \in Nat \ {0} /\ Top.place \in 0 .. Pixels /\ Top.seen \in 0 .. Last
      /\ Top.who \in 0 .. MaxEvents /\ Top.step \in Steps /\ Top.struck \in BOOLEAN
  BY <1>3 DEF PrinterType
<1>5. index \in 0 .. Last /\ Last \in Nat /\ Pixels \in Nat
  BY PixelsNat, RowsOnScreen DEF IInv
<1> QED BY <1>1, <1>2, <1>3, <1>4, <1>5

(* What becomes of the invariant when the top of the stack goes on. *)
LEMMA TopGoesOn ==
  ASSUME RInv, started = 2, started' = 2, NEW p \in PrinterType, Becomes(p),
         DOMAIN frame' = Pixel,
         p.who = Top.who, p.struck = Top.struck, p.step # "woken", Top.step # "woken",
         ~Excused(Top) => Legible(p)'
  PROVE  ReportInv'
<1>1. printers \in Seq(PrinterType) /\ Len(printers) \in Nat \ {0}
  BY DEF RInv, IInv, PrintersSafe
<1>2. Len(printers') = Len(printers) /\ printers'[Depth] = p
      /\ \A d \in 1 .. Depth - 1 : printers'[d] = printers[d]
  BY <1>1 DEF Becomes, Depth
<1>3. Depth' = Depth /\ Top' = p
  BY <1>2 DEF Depth, Top
<1>4. \A d \in 1 .. Depth' - 1 : Excused(printers'[d])
  BY <1>2, <1>3 DEF RInv, ReportInv
<1>5. ~Excused(Top') => Legible(p)'
  BY <1>3 DEF Excused
<1> QED BY <1>3, <1>4, <1>5 DEF ReportInv, Excused, Legible

LEMMA PaintKeeps == ASSUME RInv, PaintPixel PROVE ReportInv'
<1>t. /\ Top \in PrinterType
      /\ Top.at \in Nat \ {0} /\ Top.place \in 0 .. Pixels /\ Top.seen \in 0 .. Last
      /\ index \in 0 .. Last /\ index \in Nat /\ Last \in Nat /\ Pixels \in Nat
      /\ ErrorLength \in Nat /\ Parts \in Nat \ {0}
  BY TopTypes DEF RInv
<1>0. PICK p : p = At(Top.who, Top.at, Top.step, Top.place + 1, Top.seen, Top.struck)
  OBVIOUS
<1>1. Top.step = "paint" /\ Becomes(p) /\ index' = index /\ started = 2 /\ started' = 2
      /\ Top.place < Parts /\ Top.at <= Len(Text(Top))
      /\ frame' = [frame EXCEPT ![index * Parts + Top.place] = <<Top.who, Top.at, Top.place>>]
  BY <1>0 DEF PaintPixel, Doing, Goes, Rest
<1>2. DOMAIN frame' = Pixel
  BY <1>1 DEF RInv, ReportInv
<1>3. Top.place \in 0 .. Parts - 1 /\ index * Parts + Top.place \in Pixel
      /\ index * Parts \in Nat
  <2>1. Top.place \in 0 .. Parts - 1
    BY <1>1, <1>t
  <2> QED BY <1>t, <2>1, CellPixels
<1>4. p \in PrinterType /\ p.who = Top.who /\ p.at = Top.at /\ p.step = "paint"
      /\ p.place = Top.place + 1 /\ p.seen = Top.seen /\ p.struck = Top.struck
  <2>1. Parts \in 0 .. Pixels
    <3>1. Cols * Parts >= Parts /\ Rows * (Cols * Parts) >= Cols * Parts
      BY KernelStartAssumption, SMT
    <3> QED BY <3>1, KernelStartAssumption DEF Pixels, RowPixels
  <2>2. Top.place + 1 \in 0 .. Pixels
    BY <1>t, <1>3, <2>1
  <2> QED BY <1>0, <1>1, <1>t, <2>2 DEF At, PrinterType, Steps
<1>5. ASSUME ~Excused(Top) PROVE Legible(p)'
  <2>1. /\ Top.at \in 1 .. ErrorLength + 1 /\ Top.at - 1 <= index
        /\ ReportShown(Top, Top.at - 1)
        /\ \A part \in 0 .. Top.place - 1 :
             frame[index * Parts + part] = <<Top.who, Top.at, part>>
    BY <1>1, <1>5 DEF RInv, ReportInv, Legible, PaintLegible
  <2>2. \A x \in Pixel : x # index * Parts + Top.place => frame'[x] = frame[x]
    BY <1>1 DEF RInv, ReportInv
  <2>3. frame'[index * Parts + Top.place] = <<Top.who, Top.at, Top.place>>
    BY <1>1, <1>3 DEF RInv, ReportInv
  <2>4. ASSUME NEW k \in 1 .. Top.at - 1, NEW part \in 0 .. Parts - 1
        PROVE  frame'[(index - Top.at + k) * Parts + part] = <<Top.who, k, part>>
    <3>1. PICK c \in 0 .. Last : c = index - Top.at + k /\ c < index
      BY <1>t, <2>1
    <3>2. frame[c * Parts + part] = <<Top.who, k, part>>
      BY <2>1, <3>1 DEF ReportShown, Shows
    <3>3. c * Parts + part \in Pixel /\ c * Parts + part < index * Parts
      <4>1. c \in Nat
        BY <1>t
      <4> QED BY <1>t, <3>1, <4>1, CellPixels, CellsApart
    <3>4. c * Parts + part # index * Parts + Top.place
      <4>1. PICK x \in Int : x = c * Parts + part
        BY <3>3, <1>t DEF Pixel
      <4> QED BY <1>3, <1>t, <3>3, <4>1
    <3> QED BY <2>2, <3>1, <3>2, <3>3, <3>4
  <2>5. ASSUME NEW part \in 0 .. Top.place
        PROVE  frame'[index * Parts + part] = <<Top.who, Top.at, part>>
    <3>1. CASE part = Top.place
      BY <2>3, <3>1
    <3>2. CASE part # Top.place
      <4>1. part \in 0 .. Parts - 1 /\ part \in 0 .. Top.place - 1
        BY <1>3, <1>t, <3>2
      <4>2. index * Parts + part \in Pixel
        BY <1>t, <4>1, CellPixels
      <4>3. index * Parts + part # index * Parts + Top.place
        BY <1>3, <1>t, <3>2
      <4> QED BY <2>1, <2>2, <4>1, <4>2, <4>3
    <3> QED BY <3>1, <3>2
  <2>6. ReportShown(p, p.at - 1)'
    BY <1>1, <1>4, <2>4 DEF ReportShown, Shows
  <2>7. PaintLegible(p)'
    <3>1. p.place - 1 = Top.place /\ p.place <= Parts
      BY <1>3, <1>4, <1>t
    <3> QED BY <1>1, <1>4, <2>5, <2>6, <3>1 DEF PaintLegible
  <2> QED BY <1>1, <1>4, <2>1, <2>7 DEF Legible
<1> QED BY <1>1, <1>2, <1>4, <1>5, TopGoesOn, <1>t

LEMMA TestKeeps == ASSUME RInv, TestCursor PROVE ReportInv'
<1>t. /\ Top \in PrinterType
      /\ Top.at \in Nat \ {0} /\ Top.place \in 0 .. Pixels /\ Top.seen \in 0 .. Last
      /\ index \in 0 .. Last /\ index \in Nat /\ Last \in Nat /\ Pixels \in Nat
      /\ ErrorLength \in Nat /\ Parts \in Nat \ {0}
  BY TopTypes DEF RInv
<1>0. PICK p : p = At(Top.who, Top.at, IF AtEnd THEN "scroll" ELSE "store", 0, index, Top.struck)
  OBVIOUS
<1>1. Top.step = "paint" /\ Becomes(p) /\ index' = index /\ started = 2 /\ started' = 2
      /\ Top.at <= Len(Text(Top)) /\ frame' = frame /\ (AtCharacter => Top.place = Parts)
  BY <1>0 DEF TestCursor, Doing, Goes, Rest
<1>2. p \in PrinterType /\ p.who = Top.who /\ p.at = Top.at
      /\ p.step = (IF AtEnd THEN "scroll" ELSE "store")
      /\ p.place = 0 /\ p.seen = index /\ p.struck = Top.struck
  BY <1>0, <1>t DEF At, PrinterType, Steps
<1>3. ASSUME ~Excused(Top) PROVE Legible(p)'
  <2>1. Top.at \in 1 .. ErrorLength /\ AtCharacter /\ Top.place = Parts
    <3>1. Len(Text(Top)) = ErrorLength /\ \A k \in 1 .. ErrorLength : Text(Top)[k] # Newline
      BY <1>3, HandlerText DEF Excused
    <3> QED BY <1>1, <1>t, <3>1 DEF AtCharacter
  <2>2. /\ Top.at - 1 <= index /\ ReportShown(Top, Top.at - 1)
        /\ \A part \in 0 .. Parts - 1 : frame[index * Parts + part] = <<Top.who, Top.at, part>>
    BY <1>1, <1>3, <2>1 DEF RInv, ReportInv, Legible, PaintLegible
  <2>3. ReportShown(Top, Top.at)
    <3>1. \A k \in 1 .. Top.at : k \in 1 .. Top.at - 1 \/ k = Top.at
      BY <1>t
    <3>2. index - Top.at + Top.at = index
      BY <1>t
    <3>3. Shows(index - Top.at + Top.at, Top, Top.at)
      <4>1. Shows(index, Top, Top.at)
        BY <2>2 DEF Shows
      <4> QED BY ONLY <3>2, <4>1, Zenon
    <3> QED BY <2>2, <3>1, <3>3 DEF ReportShown
  <2>4. ReportShown(p, p.at)'
    <3>1. index' = index /\ frame' = frame /\ p.who = Top.who /\ p.at = Top.at
      BY <1>1, <1>2
    <3> QED BY ONLY <2>3, <3>1, Zenon DEF ReportShown, Shows
  <2>5. AtEnd <=> index = Last
    BY <2>1 DEF AtEnd
  <2>6. CASE AtEnd
    <3>1. ASSUME NEW k \in 1 .. Top.at, NEW part \in 0 .. Parts - 1
          PROVE  PixelScrolled(p, k, part)'
      <4>1. PICK c \in Cols .. Last : c = Last - Top.at + k
        BY <2>1, ReportBelowFirstRow
      <4>2. c \in 0 .. Last /\ c >= Cols
        BY <1>t, KernelStartAssumption
      <4>3. PICK b \in Pixel : b = c * Parts + part /\ b >= RowPixels
        BY <4>2, CellPixels
      <4>4. frame[b] = <<Top.who, k, part>>
        BY <2>3, <2>5, <2>6, <4>1, <4>3 DEF ReportShown, Shows
      <4>5. ~(b < 0 + RowPixels)
        <5>1. RowPixels \in Nat
          BY KernelStartAssumption DEF RowPixels
        <5> QED BY <1>t, <4>3, <5>1 DEF Pixel
      <4> QED BY <1>1, <1>2, <4>1, <4>3, <4>4, <4>5 DEF PixelScrolled
    <3>2. ScrollLegible(p)'
      BY <1>1, <1>2, <2>1, <2>5, <2>6, <3>1 DEF ScrollLegible
    <3> QED BY <1>1, <1>2, <1>t, <2>1, <2>2, <2>6, <3>2 DEF Legible
  <2>7. CASE ~AtEnd
    <3>1. StoreLegible(p)'
      BY <1>1, <1>2, <2>1, <2>4 DEF StoreLegible
    <3> QED BY <1>1, <1>2, <1>t, <2>1, <2>2, <2>7, <3>1 DEF Legible
  <2> QED BY <2>6, <2>7
<1>4. DOMAIN frame' = Pixel
  BY <1>1 DEF RInv, ReportInv
<1> QED BY <1>1, <1>2, <1>3, <1>4, TopGoesOn

LEMMA ScrollKeeps == ASSUME RInv, ScrollPixel PROVE ReportInv'
<1>t. /\ Top \in PrinterType
      /\ Top.at \in Nat \ {0} /\ Top.place \in 0 .. Pixels /\ Top.seen \in 0 .. Last
      /\ index \in 0 .. Last /\ Last \in Nat /\ Pixels \in Nat /\ Parts \in Nat \ {0}
      /\ ErrorLength \in Nat /\ RowPixels \in Nat
  BY TopTypes, KernelStartAssumption DEF RInv, RowPixels
<1>0. PICK p : p = At(Top.who, Top.at, Top.step, Top.place + 1, Top.seen, Top.struck)
  OBVIOUS
<1>1. Top.step = "scroll" /\ Becomes(p) /\ index' = index /\ started = 2 /\ started' = 2
      /\ Top.place < Pixels
      /\ frame' = [frame EXCEPT ![Top.place] =
                     IF Top.place < Pixels - RowPixels
                       THEN frame[Top.place + RowPixels] ELSE Background]
  BY <1>0 DEF ScrollPixel, Doing, Goes, Rest
<1>2. DOMAIN frame = Pixel /\ DOMAIN frame' = Pixel
  BY <1>1 DEF RInv, ReportInv
<1>3. Top.place \in Pixel
  BY <1>1, <1>t DEF Pixel
<1>4. p \in PrinterType /\ p.who = Top.who /\ p.at = Top.at /\ p.step = "scroll"
      /\ p.place = Top.place + 1 /\ p.seen = Top.seen /\ p.struck = Top.struck
  <2>1. Top.place + 1 \in 0 .. Pixels
    BY <1>1, <1>t
  <2> QED BY <1>0, <1>1, <1>t, <2>1 DEF At, PrinterType, Steps
<1>5. ASSUME ~Excused(Top) PROVE Legible(p)'
  <2>1. /\ Top.at \in 1 .. ErrorLength + 1 /\ Top.at - 1 <= index
        /\ Top.at <= ErrorLength /\ index = Last
        /\ \A k \in 1 .. Top.at : \A part \in 0 .. Parts - 1 : PixelScrolled(Top, k, part)
    BY <1>1, <1>5 DEF RInv, ReportInv, Legible, ScrollLegible
  <2>2. \A x \in Pixel : x # Top.place => frame'[x] = frame[x]
    BY <1>1, <1>2
  <2>3. Top.place < Pixels - RowPixels => frame'[Top.place] = frame[Top.place + RowPixels]
    BY <1>1, <1>2, <1>3
  <2>4. ASSUME NEW k \in 1 .. Top.at, NEW part \in 0 .. Parts - 1
        PROVE  PixelScrolled(p, k, part)'
    <3>1. PICK c \in Cols .. Last : c = Last - Top.at + k
      <4>1. Top.at \in 1 .. ErrorLength
        BY <1>t, <2>1
      <4> QED BY <4>1, ReportBelowFirstRow
    <3>2. c \in 0 .. Last /\ c >= Cols
      BY <1>t, KernelStartAssumption
    <3>3. PICK b \in Pixel : b = c * Parts + part /\ b >= RowPixels
      BY <3>2, CellPixels
    <3>4. /\ b >= Top.place => frame[b] = <<Top.who, k, part>>
          /\ b < Top.place + RowPixels => frame[b - RowPixels] = <<Top.who, k, part>>
      BY <2>1, <3>1, <3>3 DEF PixelScrolled
    <3>5. b \in Nat /\ b < Pixels /\ b - RowPixels \in Pixel
      BY <1>t, <3>3 DEF Pixel
    <3>6. b >= Top.place + 1 => frame'[b] = <<Top.who, k, part>>
      BY <1>t, <2>2, <3>3, <3>4, <3>5
    <3>7. b < Top.place + 1 + RowPixels => frame'[b - RowPixels] = <<Top.who, k, part>>
      <4>1. CASE b < Top.place + RowPixels
        <5>1. b - RowPixels # Top.place
          BY <1>t, <3>5, <4>1
        <5> QED BY <2>2, <3>4, <3>5, <4>1, <5>1
      <4>2. CASE b = Top.place + RowPixels
        <5>1. Top.place < Pixels - RowPixels /\ b - RowPixels = Top.place /\ b >= Top.place
          BY <1>t, <3>5, <4>2
        <5> QED BY <2>3, <3>4, <4>2, <5>1
      <4>3. b < Top.place + 1 + RowPixels => b < Top.place + RowPixels \/ b = Top.place + RowPixels
        BY <1>t, <3>5
      <4> QED BY <4>1, <4>2, <4>3
    <3> QED BY <1>4, <3>1, <3>3, <3>6, <3>7 DEF PixelScrolled
  <2>5. ScrollLegible(p)'
    BY <1>1, <1>4, <2>1, <2>4 DEF ScrollLegible
  <2> QED BY <1>1, <1>4, <2>1, <2>5 DEF Legible
<1> QED BY <1>1, <1>2, <1>4, <1>5, TopGoesOn

(* What a printed character is followed by. *)
LEMMA PrintedNext ==
  ASSUME IInv, NEW p, p = Printed(Top)
  PROVE  p \in PrinterType /\ p.who = Top.who /\ p.at = Top.at + 1 /\ p.step = "paint"
         /\ p.place = 0 /\ p.seen = 0 /\ p.struck = Top.struck
<1>1. Top.at \in Nat \ {0}
  BY TopTypes
<1> QED BY <1>1, PrintedSafe, TopSafe DEF Printed, At

(* The character just stored is the last of those before the cursor. *)
LEMMA StoreKeeps == ASSUME RInv, StoreCursor PROVE ReportInv'
<1>t. /\ Top \in PrinterType
      /\ Top.at \in Nat \ {0} /\ index \in 0 .. Last /\ index \in Nat /\ Last \in Nat
      /\ ErrorLength \in Nat /\ Parts \in Nat \ {0}
  BY TopTypes DEF RInv
<1>0. PICK p : p = Printed(Top)
  OBVIOUS
<1>1. Top.step = "store" /\ Becomes(p) /\ started = 2 /\ started' = 2 /\ frame' = frame
      /\ Top.at <= Len(Text(Top))
      /\ index' = IF AtCharacter THEN Top.seen + 1 ELSE (Top.seen \div Cols + 1) * Cols
  BY <1>0 DEF StoreCursor, Doing, Rest
<1>2. p \in PrinterType /\ p.who = Top.who /\ p.at = Top.at + 1 /\ p.step = "paint"
      /\ p.place = 0 /\ p.struck = Top.struck
  BY <1>0, PrintedNext DEF RInv
<1>3. ASSUME ~Excused(Top) PROVE Legible(p)'
  <2>1. Top.at <= ErrorLength /\ Top.seen = index /\ ReportShown(Top, Top.at)
        /\ Top.at - 1 <= index
    BY <1>1, <1>3 DEF RInv, ReportInv, Legible, StoreLegible
  <2>2. index' = index + 1
    <3>1. \A k \in 1 .. ErrorLength : Text(Top)[k] # Newline
      BY <1>3, HandlerText DEF Excused
    <3>2. AtCharacter
      BY <1>t, <2>1, <3>1 DEF AtCharacter
    <3> QED BY <1>1, <2>1, <3>2
  <2>3. ReportShown(p, p.at - 1)'
    <3>1. p.at - 1 = Top.at
      BY <1>2, <1>t
    <3>2. ASSUME NEW k \in 1 .. Top.at
          PROVE  index' - p.at + k = index - Top.at + k
      BY <1>2, <1>t, <2>2
    <3>3. ASSUME NEW k \in 1 .. Top.at PROVE Shows(index - p.at + k, p, k)'
      <4>1. \A part \in 0 .. Parts - 1 :
              frame[(index - Top.at + k) * Parts + part] = <<Top.who, k, part>>
        BY <2>1 DEF ReportShown, Shows
      <4>2. PICK cell : cell = index - Top.at + k
        OBVIOUS
      <4>3. index' - p.at + k = cell /\ frame' = frame /\ p.who = Top.who
        BY <1>1, <1>2, <3>2, <4>2
      <4> QED BY <4>1, <4>2, <4>3 DEF Shows
    <3> QED BY <3>1, <3>3 DEF ReportShown
  <2>4. PaintLegible(p)'
    BY <1>2, <1>t, <2>3 DEF PaintLegible
  <2>5. p.at \in 1 .. ErrorLength + 1 /\ p.at - 1 <= index'
    BY <1>2, <1>t, <2>1, <2>2
  <2> QED BY <1>2, <2>4, <2>5 DEF Legible
<1>4. DOMAIN frame' = Pixel
  BY <1>1 DEF RInv, ReportInv
<1> QED BY <1>1, <1>2, <1>3, <1>4, TopGoesOn

(* After a scroll the report ends a row higher, before the last row. *)
LEMMA StoreLastRowKeeps == ASSUME RInv, StoreLastRow PROVE ReportInv'
<1>t. /\ Top \in PrinterType
      /\ Top.at \in Nat \ {0} /\ index \in 0 .. Last /\ index \in Nat /\ Last \in Nat
      /\ ErrorLength \in Nat /\ Parts \in Nat \ {0} /\ Pixels \in Nat /\ RowPixels \in Nat
  BY TopTypes, KernelStartAssumption DEF RInv, RowPixels
<1>0. PICK p : p = Printed(Top)
  OBVIOUS
<1>1. Top.step = "scroll" /\ Top.place = Pixels /\ Becomes(p) /\ started = 2 /\ started' = 2
      /\ frame' = frame /\ index' = (Rows - 1) * Cols
  BY <1>0 DEF StoreLastRow, Doing, Rest
<1>2. p \in PrinterType /\ p.who = Top.who /\ p.at = Top.at + 1 /\ p.step = "paint"
      /\ p.place = 0 /\ p.struck = Top.struck
  BY <1>0, PrintedNext DEF RInv
<1>3. ASSUME ~Excused(Top) PROVE Legible(p)'
  <2>1. Top.at <= ErrorLength /\ Top.at \in 1 .. ErrorLength
        /\ \A k \in 1 .. Top.at : \A part \in 0 .. Parts - 1 : PixelScrolled(Top, k, part)
    BY <1>1, <1>3, <1>t DEF RInv, ReportInv, Legible, ScrollLegible
  <2>2. index' = Last + 1 - Cols /\ Top.at <= index'
    <3>1. 1 \in 1 .. Top.at
      BY <1>t
    <3> QED BY <1>1, <2>1, <3>1, ReportBelowFirstRow
  <2>3. ASSUME NEW k \in 1 .. Top.at, NEW part \in 0 .. Parts - 1
        PROVE  frame'[(index' - p.at + k) * Parts + part] = <<Top.who, k, part>>
    <3>1. PICK c \in Cols .. Last : c = Last - Top.at + k
      BY <2>1, ReportBelowFirstRow
    <3>2. c \in 0 .. Last /\ c >= Cols /\ Cols \in Nat
      BY <1>t, KernelStartAssumption
    <3>3. PICK b \in Pixel : /\ b = c * Parts + part /\ b >= RowPixels
                             /\ b - RowPixels = (c - Cols) * Parts + part
      BY <3>2, CellPixels
    <3>4. b < Pixels + RowPixels
      BY <1>t, <3>3 DEF Pixel
    <3>5. frame[b - RowPixels] = <<Top.who, k, part>>
      BY <1>1, <2>1, <3>1, <3>3, <3>4 DEF PixelScrolled
    <3>6. index' - p.at + k = c - Cols
      BY <1>2, <1>t, <2>2, <3>1, <3>2
    <3> QED BY <1>1, <3>3, <3>5, <3>6
  <2>4. p.at - 1 = Top.at
    BY <1>2, <1>t
  <2>5. ReportShown(p, p.at - 1)'
    <3>1. ASSUME NEW k \in 1 .. Top.at PROVE Shows(index - p.at + k, p, k)'
      BY <1>2, <2>3 DEF Shows
    <3> QED BY <2>4, <3>1 DEF ReportShown
  <2>6. PaintLegible(p)'
    BY <1>2, <1>t, <2>5 DEF PaintLegible
  <2>7. p.at \in 1 .. ErrorLength + 1 /\ p.at - 1 <= index'
    BY <1>2, <1>t, <2>1, <2>2
  <2> QED BY <1>2, <2>6, <2>7 DEF Legible
<1>4. DOMAIN frame' = Pixel
  BY <1>1 DEF RInv, ReportInv
<1> QED BY <1>1, <1>2, <1>3, <1>4, TopGoesOn

(* Whoever is struck is excused from then on. *)
LEMMA StrikeKeeps == ASSUME RInv, Strike PROVE ReportInv'
<1>t. /\ Top \in PrinterType /\ index \in 0 .. Last /\ ErrorLength \in Nat
      /\ Parts \in Nat \ {0} /\ events \in Nat /\ Last \in Nat
      /\ printers \in Seq(PrinterType) /\ Len(printers) \in Nat \ {0}
  BY TopTypes DEF RInv, IInv, PrintersSafe
<1>1. PICK p, h : p = Struck /\ h = Printer(events + 1)
  OBVIOUS
<1>2. printers' = Append([printers EXCEPT ![Depth] = p], h) /\ started' = 2 /\ started = 2
      /\ frame' = frame /\ index' = index
  BY <1>1 DEF Strike
<1>3. p \in PrinterType /\ Excused(p)
  <2>1. CASE AtRest /\ Top.who # Kernel
    BY <1>1, <1>t, <2>1, WokenSafe DEF Struck, Woken, At, Excused
  <2>2. CASE ~(AtRest /\ Top.who # Kernel)
    <3>1. PICK s \in BOOLEAN : s = (Top.struck \/ Top.at <= Len(Text(Top)))
      OBVIOUS
    <3>2. p = At(Top.who, Top.at, Top.step, Top.place, Top.seen, s)
      BY <1>1, <2>2, <3>1 DEF Struck
    <3>3. p \in PrinterType /\ p.who = Top.who /\ p.step = Top.step /\ p.struck = s
      BY <1>t, <3>2 DEF At, PrinterType
    <3>4. Top.who = Kernel \/ Top.step = "woken" \/ s
      <4>1. Top.at <= Len(Text(Top)) \/ Top.at > Len(Text(Top))
        <5>1. Len(Text(Top)) \in Nat /\ Top.at \in Nat
          <6>1. Top.who # Kernel => Len(Text(Top)) = ErrorLength
            BY HandlerText
          <6>2. KernelText \in Seq({"character", Newline})
            BY LineIsText DEF KernelText, SystemText, MainText, DriversText
          <6>3. Top.who = Kernel => Len(Text(Top)) \in Nat
            BY <6>2 DEF Text
          <6> QED BY <1>t, <6>1, <6>3 DEF PrinterType
        <5> QED BY <5>1
      <4> QED BY <1>2, <2>2, <3>1, <4>1 DEF AtRest
    <3> QED BY <3>3, <3>4 DEF Excused
  <2> QED BY <2>1, <2>2
<1>4. h.at = 1 /\ h.step = "paint" /\ h.place = 0 /\ h.who = events + 1
  BY <1>1 DEF Printer, At
<1>5. Legible(h)'
  <2>1. PaintLegible(h)'
    BY <1>4, <1>t DEF PaintLegible, ReportShown
  <2> QED BY <1>2, <1>4, <1>t, <2>1 DEF Legible
<1>6. Depth' = Depth + 1 /\ Top' = h /\ printers'[Depth] = p
      /\ \A d \in 1 .. Depth - 1 : printers'[d] = printers[d]
  <2>1. h \in PrinterType
    <3>1. events + 1 \in 0 .. MaxEvents
      BY KernelStartAssumption DEF Strike, RInv, IInv
    <3> QED BY <1>1, <1>t, <3>1, PixelsNat DEF Printer, At, PrinterType, Steps
  <2> QED BY <1>2, <1>3, <1>t, <2>1 DEF Depth, Top
<1>7. \A d \in 1 .. Depth' - 1 : Excused(printers'[d])
  <2>1. \A d \in 1 .. Depth' - 1 : d = Depth \/ d \in 1 .. Depth - 1
    BY <1>6, <1>t DEF Depth
  <2>2. \A d \in 1 .. Depth - 1 : Excused(printers[d])
    BY DEF RInv, ReportInv
  <2> QED BY <1>3, <1>6, <2>1, <2>2
<1>8. Legible(Top)'
  BY <1>5, <1>6 DEF Legible, PaintLegible, StoreLegible, ScrollLegible, ReportShown, Shows, PixelScrolled
<1> QED BY <1>2, <1>7, <1>8 DEF RInv, ReportInv, Excused

(* Others on the stack, and a halt that ends, are excused already. *)
LEMMA WakeKeeps == ASSUME RInv, Wake PROVE ReportInv'
<1>1. PICK p : p = Woken(Top)
  OBVIOUS
<1>2. Becomes(p) /\ p.step = "woken" /\ started = 2 /\ started' = 2 /\ frame' = frame
  BY <1>1 DEF Wake, Woken, At, AtRest
<1>3. printers \in Seq(PrinterType) /\ Len(printers) \in Nat \ {0} /\ p \in PrinterType
  BY <1>1, WokenSafe, TopTypes DEF Wake, RInv, IInv, PrintersSafe
<1>4. Depth' = Depth /\ Top' = p /\ \A d \in 1 .. Depth - 1 : printers'[d] = printers[d]
  BY <1>2, <1>3 DEF Becomes, Depth, Top
<1> QED BY <1>2, <1>4 DEF RInv, ReportInv, Excused

LEMMA ReturnKeeps == ASSUME RInv, Return PROVE ReportInv'
<1>1. printers \in Seq(PrinterType) /\ Len(printers) \in Nat \ {0}
  BY DEF RInv, IInv, PrintersSafe
<1>2. Depth > 1
  BY DEF RInv, Return, IInv, PrintersSafe, PrinterSafe, Depth, Top
<1>3. Depth' = Depth - 1 /\ Top' = printers[Depth - 1]
      /\ \A d \in 1 .. Depth - 1 : printers'[d] = printers[d]
  BY <1>1, <1>2 DEF Return, Depth, Top
<1>4. started = 2
  BY TopSafe DEF RInv, ReportInv, Return, PrinterSafe
<1>5. Excused(printers[Depth - 1]) /\ \A d \in 1 .. Depth - 2 : Excused(printers[d])
  BY <1>1, <1>2 DEF RInv, ReportInv, Depth
<1> QED BY <1>1, <1>2, <1>3, <1>4, <1>5 DEF Return, Rest, RInv, ReportInv, Excused, Depth

LEMMA InitializeKeeps == ASSUME RInv, InitializeSystem PROVE ReportInv'
<1>1. started # 2 /\ Top.who = Kernel /\ printers' = printers
  BY DEF InitializeSystem, RInv, ReportInv
<1>2. Top' = Top /\ Depth' = Depth
  BY <1>1 DEF Top, Depth
<1>3. DOMAIN frame' = Pixel
  BY DEF InitializeSystem, RInv, ReportInv
<1> QED BY <1>1, <1>2, <1>3 DEF RInv, ReportInv, Excused

LEMMA IdleKeeps == ASSUME RInv, UNCHANGED vars PROVE ReportInv'
<1>1. Top' = Top /\ Depth' = Depth
  BY DEF vars, Top, Depth
<1> QED BY <1>1 DEF vars, RInv, ReportInv, Excused, Legible, PaintLegible, StoreLegible,
                    ScrollLegible, ReportShown, Shows, PixelScrolled

LEMMA NextRInv == RInv /\ [Next]_vars => RInv'
<1> SUFFICES ASSUME RInv, [Next]_vars PROVE RInv'
  OBVIOUS
<1>1. IInv'
  BY NextIInv DEF RInv
<1>2. ReportInv'
  BY InitializeKeeps, PaintKeeps, TestKeeps, ScrollKeeps, StoreKeeps, StoreLastRowKeeps,
     StrikeKeeps, WakeKeeps, ReturnKeeps, IdleKeeps DEF Next, Run, PrintStep, Resting
<1> QED BY <1>1, <1>2 DEF RInv

(***************************************************************************)
(* A handler that has halted and was never struck shows its whole report   *)
(* before the cursor, whatever was half painted or half scrolled when it   *)
(* struck, for every screen a report fits on with a row to spare.          *)
(***************************************************************************)
THEOREM ReportsLegible == Spec => []ErrorLegible
<1>1. RInv => ErrorLegible
  <2> SUFFICES ASSUME RInv, AtRest, Top.who # Kernel, ~Top.struck
               PROVE  \A k \in 1 .. ErrorLength : Shows(index - ErrorLength + k - 1, Top, k)
    BY DEF ErrorLegible
  <2>1. Legible(Top) /\ Top.at > ErrorLength /\ Top.step # "woken"
    BY HandlerText DEF RInv, ReportInv, Excused, AtRest
  <2>2. /\ index \in Nat /\ ErrorLength \in Nat /\ Top.step \in Steps
    BY TopTypes DEF RInv
  <2>3. Top.at = ErrorLength + 1
    BY <2>1, <2>2 DEF Legible
  <2>4. ReportShown(Top, ErrorLength)
    <3>1. Top.at - 1 = ErrorLength /\ ~(Top.at <= ErrorLength)
      BY <2>2, <2>3
    <3> QED BY <2>1, <2>2, <3>1 DEF Legible, PaintLegible, StoreLegible, ScrollLegible, Steps
  <2>5. \A k \in 1 .. ErrorLength : index - Top.at + k = index - ErrorLength + k - 1
    BY <2>2, <2>3
  <2> QED BY <2>4, <2>5 DEF ReportShown
<1> QED BY <1>1, InitRInv, NextRInv, PTL DEF Spec

==============================================================================
