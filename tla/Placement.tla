------------------------------ MODULE Placement ------------------------------
(***************************************************************************)
(* What finding a place for the kernel promises the rest of the loader: a  *)
(* search that ends at most once, either with a run of free pages that is  *)
(* from then on the kernel's and nobody else's, or with an error.  How the *)
(* run is found, and what is allocated and given back on the way, is left  *)
(* to KernelPlacement, which implements this specification.                *)
(***************************************************************************)
EXTENDS Integers

CONSTANTS
  NumPages,     \* pages of physical memory
  KernelPages,  \* the size of the loaded image
  Layouts       \* the sets of pages that may be free to begin with

Page == 0 .. NumPages - 1
RunFrom(p) == p .. p + KernelPages - 1

VARIABLES
  outcome,  \* "searching", "placed" or "failed"
  base,     \* the first page of the run, NumPages while there is none
  usage     \* what each page is used for

vars == <<outcome, base, usage>>

Init ==
  /\ outcome = "searching"
  /\ base = NumPages
  /\ \E free \in Layouts :
       usage = [p \in Page |-> IF p \in free THEN "free" ELSE "taken"]

(* The firmware's own use of memory, the loader's scratch buffers included. *)
FirmwareUse ==
  /\ outcome = "searching"
  /\ usage' \in [Page -> {"free", "taken"}]
  /\ UNCHANGED <<outcome, base>>

Place ==
  /\ outcome = "searching"
  /\ \E p \in Page :
       /\ RunFrom(p) \subseteq {q \in Page : usage[q] = "free"}
       /\ base' = p
       /\ usage' = [q \in Page |-> IF q \in RunFrom(p) THEN "kernel" ELSE usage[q]]
  /\ outcome' = "placed"

(* Giving up may cost the pages the firmware would not take back. *)
GiveUp ==
  /\ outcome = "searching"
  /\ outcome' = "failed"
  /\ usage' \in [Page -> {"free", "taken"}]
  /\ UNCHANGED base

Next == FirmwareUse \/ Place \/ GiveUp

Spec == Init /\ [][Next]_vars
==============================================================================
