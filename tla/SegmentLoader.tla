---------------------------- MODULE SegmentLoader ----------------------------
(***************************************************************************)
(* Loading the kernel's program segments (BootKernel in boot.c): the pass  *)
(* over the program headers that sizes the allocation, and the pass that   *)
(* reads each PT_LOAD segment to its place in it.                          *)
(*                                                                         *)
(* Virtual and physical addresses are bytes modulo AddrSpace.  Memory maps *)
(* an address to what is there: a byte <<i, k>> of the file's segment i,   *)
(* or one of the words below.  Finding the allocation is KernelPlacement;  *)
(* here it is any address and any content that module may settle on.       *)
(***************************************************************************)
EXTENDS Integers, Sequences

CONSTANTS
  AddrSpace, PageSize,
  Tables,     \* program header tables of the kernel file
  Places,     \* addresses the kernel's pages may be given
  Fills       \* what those pages may hold: <<"zero">> or <<"remains">>

Addr == 0 .. AddrSpace - 1
(* infile is what the file holds of the filesz bytes the header promises. *)
Header == [load : BOOLEAN, vaddr : Addr, filesz : Addr, memsz : Addr, infile : Addr]

ASSUME LoaderAssumption ==
  /\ AddrSpace \in Nat \ {0} /\ PageSize \in Nat \ {0}
  /\ Tables \subseteq Seq(Header) \ {<<>>}
  /\ \A t \in Tables : \A k \in 1 .. Len(t) : t[k].infile <= t[k].filesz
  /\ Places \subseteq Addr
  /\ Fills \subseteq {<<"zero">>, <<"remains">>}

VARIABLES
  pc,
  headers,    \* program_headers_table
  i,          \* the header a pass has come to
  virt_size, virt_min,
  pages,
  AllocatedMemory,
  fill,       \* what the allocation held
  memory

vars == <<pc, headers, i, virt_size, virt_min, pages, AllocatedMemory, fill, memory>>

Elsewhere == <<"elsewhere">>   \* memory that is not the kernel's

(* Slip: rounded down. *)
SizeToWholePages(size) == size \div PageSize

(* EFI_SIZE_TO_PAGES. *)
SizeToPages(size) ==
  (size \div PageSize) + (IF size % PageSize = 0 THEN 0 ELSE 1)

(* The addresses from a on, for n bytes. *)
Bytes(a, n) == {(a + k) % AddrSpace : k \in 0 .. n - 1}

Init ==
  /\ pc = "size"
  /\ headers \in Tables
  /\ i = 1
  /\ virt_size = 0
  /\ virt_min = AddrSpace - 1
  /\ pages = 0
  /\ AllocatedMemory = 0
  /\ fill \in Fills
  /\ memory = [a \in Addr |-> Elsewhere]

Header_i == headers[i]

SegmentEnd == (Header_i.vaddr + Header_i.memsz) % AddrSpace

(* One header of the first pass. *)
SizeSegment ==
  /\ pc = "size" /\ i <= Len(headers)
  /\ i' = i + 1
  /\ IF Header_i.load
       THEN /\ virt_size' = IF virt_size > SegmentEnd THEN virt_size ELSE SegmentEnd
            /\ virt_min' = IF virt_min < Header_i.vaddr THEN virt_min ELSE Header_i.vaddr
       ELSE UNCHANGED <<virt_size, virt_min>>
  /\ UNCHANGED <<pc, headers, pages, AllocatedMemory, fill, memory>>

(* The number of pages, and the search for them. *)
Allocate ==
  /\ pc = "size" /\ i > Len(headers)
  /\ pages' = SizeToPages((virt_size - virt_min) % AddrSpace)
  /\ AllocatedMemory' \in Places
  /\ memory' = [a \in Addr |->
                  IF a \in Bytes(AllocatedMemory', pages' * PageSize) THEN fill ELSE memory[a]]
  /\ i' = 1
  /\ pc' = "load"
  /\ UNCHANGED <<headers, virt_size, virt_min, fill>>

SectionAddress == (AllocatedMemory + (Header_i.vaddr - headers[1].vaddr)) % AddrSpace

(***************************************************************************)
(* One header of the second pass.  The firmware may fail to read the file, *)
(* and reads no further than its end, which nobody notices.                *)
(***************************************************************************)
LoadSegment ==
  /\ pc = "load" /\ i <= Len(headers)
  /\ \/ /\ i' = i + 1
        /\ memory' =
             IF ~Header_i.load THEN memory
             ELSE [a \in Addr |->
                     IF a \in Bytes(SectionAddress, Header_i.infile)
                       THEN <<i, (a - SectionAddress) % AddrSpace>> ELSE memory[a]]
        /\ UNCHANGED pc
     \/ Header_i.load /\ pc' = "failed" /\ UNCHANGED <<i, memory>>
  /\ UNCHANGED <<headers, virt_size, virt_min, pages, AllocatedMemory, fill>>

Loaded ==
  /\ pc = "load" /\ i > Len(headers)
  /\ pc' = "loaded"
  /\ UNCHANGED <<headers, i, virt_size, virt_min, pages, AllocatedMemory, fill, memory>>

Finished == pc \in {"loaded", "failed"} /\ UNCHANGED vars

Next == SizeSegment \/ Allocate \/ LoadSegment \/ Loaded \/ Finished

Spec == Init /\ [][Next]_vars

------------------------------------------------------------------------------
TypeOK ==
  /\ pc \in {"size", "load", "loaded", "failed"}
  /\ headers \in Tables
  /\ i \in 1 .. Len(headers) + 1
  /\ virt_size \in Addr /\ virt_min \in Addr
  /\ pages \in Nat
  /\ AllocatedMemory \in Places \cup {0}
  /\ fill \in Fills
  /\ memory \in [Addr -> {Elsewhere, fill} \cup (Nat \X Addr)]

Loads == {s \in 1 .. Len(headers) : headers[s].load}

(* A table in which the first header is the PT_LOAD segment that starts    *)
(* lowest, as it is when the kernel is linked with its linker script.      *)
FirstIsLowest ==
  /\ 1 \in Loads
  /\ \A s \in Loads : headers[1].vaddr <= headers[s].vaddr

Inside == Bytes(AllocatedMemory, pages * PageSize)

(***************************************************************************)
(* Loading a kernel whose first header is its lowest segment writes to     *)
(* none but the pages the first pass asked for: sizing and placing, two    *)
(* passes with different arithmetic, agree to the byte.                    *)
(***************************************************************************)
LoadsInsideAllocation ==
  (pc \in {"load", "loaded", "failed"} /\ FirstIsLowest) =>
    \A a \in Addr \ Inside : memory[a] = Elsewhere
==============================================================================
