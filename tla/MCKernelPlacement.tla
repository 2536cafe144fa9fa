-------------------------- MODULE MCKernelPlacement --------------------------
(* Small memories for KernelPlacement: the kernel is wanted at page 2 of 5. *)
EXTENDS KernelPlacement

(* Every page free; holes below and above the kernel; the kernel's region  *)
(* starting exactly at its base, alone or with a free page at 0.           *)
MCLayouts == {0 .. 4, {1, 2, 3, 4}, {0, 2, 3, 4}, {0, 1, 2, 3}, {2, 3, 4}}

(* The kernel's first page can hold anything, the first page of another run *)
(* zeros, stuck bytes or an ELF image, and the last page zeros or stuck.     *)
MCRemains ==
  {c \in [Page -> Content] :
     /\ c[1] = "zero" /\ c[4] \in {"zero", "stuck"}
     /\ \A p \in {0, 3} : c[p] \in {"zero", "stuck", "elf"}}

(* A freed buffer reads as zeros, when the firmware clears pools, or as an  *)
(* odd address past the memory, when it fills them with a pattern.          *)
MCFreedRead == {0, 21}
MCNoFreedRead == {}

(* Memories of eight pages, wanted at page 4, for the page by page search. *)
MCWideLayouts == {0 .. 7, {4, 5, 6, 7}, {0, 2, 3, 4, 5, 6, 7}, {1, 2, 4, 5, 6, 7}, {0, 1, 2, 4, 5, 7}}
MCWideRemains == [Page -> {"zero", "stuck"}]
==============================================================================
