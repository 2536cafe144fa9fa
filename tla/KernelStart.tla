----------------------------- MODULE KernelStart -----------------------------
(***************************************************************************)
(* The kernel's start (kernel_main, InitializeSystem, InitializeDrivers)   *)
(* and the text it prints, step by step and not by whole characters as in  *)
(* Framebuffer: once InitializeISR has run, a vector may strike between    *)
(* any two steps, and its handler prints to the same screen with the same  *)
(* cursor (Abort, PrintErrorCode).  What the handlers do besides is        *)
(* Interrupts.                                                             *)
(*                                                                         *)
(* A character is Parts pixels wide and one line tall, and the screen has  *)
(* no porch.  The cursor is read again for every pixel painted; the value  *)
(* that is compared with the end of the screen is the one that is counted  *)
(* up and stored, as an optimising compiler has it.                        *)
(***************************************************************************)
EXTENDS Integers, Sequences

CONSTANTS
  Rows, Cols, Parts,
  LineLength,      \* characters of a line that kernel_main prints
  ErrorLength,     \* characters of an error report
  MaxDepth,        \* handlers interrupted by one another
  MaxEvents        \* vectors that strike, and halts ended by the firmware

Newline == "newline"
RowPixels == Cols * Parts
Pixels == Rows * RowPixels
Pixel == 0 .. Pixels - 1
Last == Rows * Cols - 1

ASSUME KernelStartAssumption ==
  /\ Rows \in Nat \ {0, 1} /\ Cols \in Nat \ {0} /\ Parts \in Nat \ {0}
  /\ LineLength \in Nat
  /\ ErrorLength \in 1 .. (Rows - 1) * Cols
  /\ MaxDepth \in Nat /\ MaxEvents \in Nat

VARIABLES
  started,    \* how many steps of InitializeSystem have been executed
  frame,      \* the pixels
  index,      \* the cursor
  printers,   \* kernel_main, and the handlers that interrupt one another
  events

vars == <<started, frame, index, printers, events>>

Noise == <<"noise">>
Background == <<"background">>

(***************************************************************************)
(* A printer has come to character "at" of its text, and there to pixel    *)
(* "place" of painting or scrolling; "seen" is the cursor it has read.     *)
(* History: was it struck before it had printed all?                       *)
(***************************************************************************)
At(who, at, step, place, seen, struck) ==
  [who |-> who, at |-> at, step |-> step, place |-> place, seen |-> seen, struck |-> struck]

Printer(who) == At(who, 1, "paint", 0, 0, FALSE)
Printed(p) == At(p.who, p.at + 1, "paint", 0, 0, p.struck)
Woken(p) == At(p.who, p.at, "woken", p.place, p.seen, p.struck)

(* What is printed: one line by InitializeSystem, two by kernel_main, two  *)
(* by InitializeDrivers; by a handler the error code, without a newline.   *)
Characters(n) == [k \in 1 .. n |-> "character"]
PrintedLine == Append(Characters(LineLength), Newline)
SystemText == PrintedLine
MainText == PrintedLine \o PrintedLine
DriversText == PrintedLine \o PrintedLine
KernelText == SystemText \o MainText \o DriversText
ErrorText == Characters(ErrorLength)

Kernel == 0
Text(p) == IF p.who = Kernel THEN KernelText ELSE ErrorText

Depth == Len(printers)
Top == printers[Depth]
Doing(step) == started = 2 /\ Top.step = step /\ Top.at <= Len(Text(Top))
AtCharacter == Text(Top)[Top.at] # Newline

Becomes(p) == printers' = [printers EXCEPT ![Depth] = p]
Goes(step, place, seen) ==
  Becomes(At(Top.who, Top.at, step, place, seen, Top.struck))

Init ==
  /\ started = 0
  /\ frame = [a \in Pixel |-> Noise]
  /\ index = 0
  /\ printers = <<Printer(Kernel)>>
  /\ events = 0

(* InitializeDisplay and InitializeISR; the settings that InitializeMemory *)
(* stores before are read by nobody.                                       *)
InitializeSystem ==
  \/ /\ started = 0 /\ started' = 1
     /\ index' = 0
     /\ frame' = [a \in Pixel |-> Background]
     /\ UNCHANGED <<printers, events>>
  \/ /\ started = 1 /\ started' = 2
     /\ UNCHANGED <<frame, index, printers, events>>

------------------------------------------------------------------------------
(* Printing: PrintCharacter, and a newline in PrintString. *)

Rest == UNCHANGED <<started, events>>

PaintPixel ==
  /\ Doing("paint") /\ AtCharacter /\ Top.place < Parts
  /\ frame' = [frame EXCEPT ![index * Parts + Top.place] = <<Top.who, Top.at, Top.place>>]
  /\ Goes(Top.step, Top.place + 1, Top.seen)
  /\ UNCHANGED index /\ Rest

AtEnd == IF AtCharacter THEN index = Last ELSE index \div Cols >= Rows - 1

TestCursor ==
  /\ Doing("paint") /\ (AtCharacter => Top.place = Parts)
  /\ Goes(IF AtEnd THEN "scroll" ELSE "store", 0, index)
  /\ UNCHANGED <<frame, index>> /\ Rest

(* One pixel of ScrollUp, whose address is a variable of its own. *)
ScrollPixel ==
  /\ Doing("scroll") /\ Top.place < Pixels
  /\ frame' = [frame EXCEPT ![Top.place] =
                 IF Top.place < Pixels - RowPixels
                   THEN frame[Top.place + RowPixels] ELSE Background]
  /\ Goes(Top.step, Top.place + 1, Top.seen)
  /\ UNCHANGED index /\ Rest

(* Slip: the cursor is read once more. *)
StoreReread ==
  /\ Doing("store")
  /\ index' = IF AtCharacter THEN index + 1 ELSE (index \div Cols + 1) * Cols
  /\ Becomes(Printed(Top))
  /\ UNCHANGED frame /\ Rest

StoreCursor ==
  /\ Doing("store")
  /\ index' = IF AtCharacter THEN Top.seen + 1 ELSE (Top.seen \div Cols + 1) * Cols
  /\ Becomes(Printed(Top))
  /\ UNCHANGED frame /\ Rest

(* Slip: the cursor stays at the end. *)
StoreNothing ==
  /\ Doing("scroll") /\ Top.place = Pixels
  /\ Becomes(Printed(Top))
  /\ UNCHANGED <<index, frame>> /\ Rest

(* Slip: the character that made the screen scroll is taken again. *)
StoreAndRepeat ==
  /\ Doing("scroll") /\ Top.place = Pixels
  /\ index' = (Rows - 1) * Cols
  /\ Goes("paint", 0, 0)
  /\ UNCHANGED frame /\ Rest

StoreLastRow ==
  /\ Doing("scroll") /\ Top.place = Pixels
  /\ index' = (Rows - 1) * Cols
  /\ Becomes(Printed(Top))
  /\ UNCHANGED frame /\ Rest

PrintStep == PaintPixel \/ TestCursor \/ ScrollPixel \/ StoreCursor \/ StoreLastRow

------------------------------------------------------------------------------
(* Handlers. *)

(* kernel_main's loop, or the halt in Abort. *)
AtRest == started = 2 /\ Top.at > Len(Text(Top)) /\ Top.step # "woken"

(* The handler ends the halt of the one it strikes. *)
Struck ==
  IF AtRest /\ Top.who # Kernel THEN Woken(Top)
  ELSE At(Top.who, Top.at, Top.step, Top.place, Top.seen,
          Top.struck \/ Top.at <= Len(Text(Top)))

Strike ==
  /\ started = 2 /\ Depth <= MaxDepth /\ events < MaxEvents
  /\ events' = events + 1
  /\ printers' = Append([printers EXCEPT ![Depth] = Struck], Printer(events + 1))
  /\ UNCHANGED <<started, frame, index>>

(* A system management interrupt ends a halt without a handler. *)
Wake ==
  /\ AtRest /\ Top.who # Kernel /\ events < MaxEvents
  /\ events' = events + 1
  /\ Becomes(Woken(Top))
  /\ UNCHANGED <<started, frame, index>>

Return ==
  /\ Top.step = "woken"
  /\ printers' = SubSeq(printers, 1, Depth - 1)
  /\ UNCHANGED <<frame, index>> /\ Rest

Resting == AtRest /\ UNCHANGED vars

Run == InitializeSystem \/ PrintStep \/ Return

Next == Run \/ Strike \/ Wake \/ Resting

Spec == Init /\ [][Next]_vars

(* The processor goes on unless it is halted. *)
FairSpec == Spec /\ WF_vars(Run)

------------------------------------------------------------------------------
Steps == {"paint", "scroll", "store", "woken"}
PrinterType ==
  [who : 0 .. MaxEvents, at : Nat \ {0}, step : Steps, place : 0 .. Pixels,
   seen : 0 .. Last, struck : BOOLEAN]

TypeOK ==
  /\ started \in 0 .. 2
  /\ index \in Int
  /\ printers \in Seq(PrinterType) /\ printers # <<>>
  /\ events \in 0 .. MaxEvents

(***************************************************************************)
(* Wherever the cursor is read or stored between two steps of another      *)
(* printer, it stays on the screen, so that no pixel is painted outside    *)
(* the framebuffer: a store that comes late puts it back, never out.       *)
(***************************************************************************)
CursorOnScreen == index \in 0 .. Last

(* A cell shows the character k of what the printer p prints. *)
Shows(cell, p, k) ==
  \A part \in 0 .. Parts - 1 : frame[cell * Parts + part] = <<p.who, k, part>>

(***************************************************************************)
(* A handler that has halted without having been struck before shows its   *)
(* whole report, in the cells before the cursor, whatever it interrupted:  *)
(* half a character, a test of the cursor not yet acted upon, or a scroll. *)
(***************************************************************************)
ErrorLegible ==
  (AtRest /\ Top.who # Kernel /\ ~Top.struck) =>
    \A k \in 1 .. ErrorLength : Shows(index - ErrorLength + k - 1, Top, k)

(***************************************************************************)
(* Whatever strikes, the processor comes to rest in kernel_main's loop or  *)
(* in a handler's halt, and the one it rests in has printed all its text   *)
(* (those it interrupted may be in the middle of theirs).                  *)
(***************************************************************************)
ReportsEnd == <>[]AtRest
==============================================================================
