----------------------------- MODULE KernelImage -----------------------------
(***************************************************************************)
(* The kernel where it will run: SegmentLoader puts its segments into the  *)
(* pages it was given, then PageMapping maps those pages at the virtual    *)
(* address of the first program header (BootKernel in boot.c).  The two    *)
(* share the physical pages, which the firmware gives to either.           *)
(*                                                                         *)
(* The virtual address space is that of the segments: AddrSpace bytes are  *)
(* the pages that four levels of tables reach.                             *)
(***************************************************************************)
EXTENDS SegmentLoader

CONSTANTS
  Entries, cr3,
  FreeFrames,      \* the frames that are free to begin with
  FirmwareTables,  \* page tables the firmware may have set up, as functions from frames
  Remains          \* what every other frame would be as a page table

VARIABLES
  mapping,     \* MapVirtualPages: "waiting", "running" or "done"
  before,      \* history: what each virtual page was mapped to
  words, available, tables, strayed, failures, calls

mapVars == <<words, available, tables, strayed, failures, calls>>
imageVars == <<vars, mapping, before, mapVars>>

NumFrames == AddrSpace \div PageSize
M == INSTANCE PageMapping

VirtualPage == 0 .. Entries * Entries * Entries * Entries - 1
PageOf(address) == address \div PageSize

ASSUME ImageAssumption ==
  /\ Entries \in Nat \ {0}
  /\ cr3 \in M!Frame \ {M!NULL}
  /\ AddrSpace = PageSize * Entries * Entries * Entries * Entries
  /\ FreeFrames \subseteq M!Frame \ {cr3}

ImageInit ==
  /\ Init
  /\ mapping = "waiting"
  /\ \E given \in FirmwareTables :
       /\ words = [f \in M!Frame |-> IF f \in DOMAIN given THEN given[f] ELSE Remains]
       /\ tables = DOMAIN given
  /\ available = FreeFrames
  /\ strayed = {} /\ failures = 0 /\ calls = <<>>
  /\ before = [v \in VirtualPage |-> M!Translate(v)]

LoadStep ==
  /\ SizeSegment \/ LoadSegment \/ Loaded
  /\ UNCHANGED <<mapping, before, mapVars>>

KernelFrames == {PageOf(a) : a \in Inside}

(* The kernel's pages are a run that does not wrap, from page 0 on if the   *)
(* loader asks for that; they are no longer there for page tables.          *)
AllocateKernel ==
  /\ Allocate
  /\ AllocatedMemory' + pages' * PageSize <= AddrSpace
  /\ KernelFrames' \subseteq available
  /\ available' = available \ KernelFrames'
  /\ UNCHANGED <<mapping, before, words, tables, strayed, failures, calls>>

MapKernel ==
  /\ pc = "loaded" /\ mapping = "waiting"
  /\ M!MapVirtualPages(PageOf(AllocatedMemory), PageOf(headers[1].vaddr), pages)
  /\ mapping' = "running"
  /\ UNCHANGED <<vars, before>>

MapStep ==
  /\ M!Step
  /\ mapping' = IF calls' = <<>> THEN "done" ELSE mapping
  /\ UNCHANGED <<vars, before>>

ImageDone == (mapping = "done" \/ pc = "failed") /\ UNCHANGED imageVars

ImageNext == LoadStep \/ AllocateKernel \/ MapKernel \/ MapStep \/ ImageDone

ImageSpec == ImageInit /\ [][ImageNext]_imageVars

(* The loader runs alone; whatever the firmware answers, it goes on. *)
FairImageSpec == ImageSpec /\ WF_imageVars(MapStep)

------------------------------------------------------------------------------
FirstPage == PageOf(headers[1].vaddr)
Asked == {(FirstPage + k) % NumFrames : k \in 0 .. pages - 1}

(* A kernel that starts on a page of its own, as the linker script has it. *)
Aligned == headers[1].vaddr % PageSize = 0

(* One page table has room for the kernel, from its first page on. *)
OneTable == M!Index(1, FirstPage) + pages <= Entries

(* Nothing that matters was written past the end of a table. *)
Unharmed == strayed \cap (tables \cup KernelFrames) = {}

(* Page 0, where one table goes whose allocation failed, is nobody else's: *)
(* the firmware has given it neither to the kernel nor to another table.   *)
PageZeroSpare == M!NULL \in FreeFrames => M!NULL \in available
NothingCleared == failures = 0 \/ (failures = 1 /\ PageZeroSpare)

MapIsSound == mapping = "done" /\ (OneTable \/ Unharmed) /\ NothingCleared

(* The byte at a virtual address; in a page that was cleared to be a table, *)
(* or written to from the table before it, it is not what was loaded.       *)
At(address) ==
  LET frame == M!Translate(PageOf(address))
  IN  IF frame \in {M!Absent} \cup tables \cup strayed THEN Elsewhere
      ELSE memory[frame * PageSize + (address % PageSize)]

(***************************************************************************)
(* Once the tables are set up, every byte of every segment is found at the *)
(* virtual address its header gives: the file's bytes, as far as the file  *)
(* had them, then what the allocation held.  It takes a first header that  *)
(* starts lowest, on a page of its own, and two pieces of luck.  A kernel  *)
(* that needs a second page table overwrites the first word of the page    *)
(* behind the first one, which must be neither a table nor the kernel's.   *)
(* And of the allocations of tables one may fail, when page 0 is free to   *)
(* serve as the table: not when the kernel lies there, where it is the     *)
(* kernel's first page that is cleared.                                    *)
(***************************************************************************)
ImageFaithful ==
  (MapIsSound /\ FirstIsLowest /\ Aligned) =>
    \A s \in Loads : \A k \in 0 .. headers[s].memsz - 1 :
      At((headers[s].vaddr + k) % AddrSpace) = IF k < headers[s].infile THEN <<s, k>> ELSE fill

(* Whatever the firmware had mapped elsewhere, its own code and the loader *)
(* with it, stays mapped as it was, and nothing else becomes visible: new  *)
(* tables come up empty and the firmware's own are only added to, as long  *)
(* as page 0 is none of them and the page behind a full table is none.     *)
RestAsBefore ==
  MapIsSound => \A v \in VirtualPage \ Asked : M!Translate(v) = before[v]

(* The mapping comes to an end: the calls it makes of itself ask for less  *)
(* each time, though the loop that made them goes on after each.           *)
MappingEnds == mapping = "running" ~> mapping = "done"

==============================================================================
