----------------------------- MODULE PageMapping -----------------------------
(***************************************************************************)
(* Mapping pages at a virtual address (MapVirtualPages in boot.c): a walk  *)
(* down the four levels of page tables, which allocates the tables that    *)
(* are missing, and a loop that fills the entries of the last one.  When   *)
(* an entry lies beyond the end of that table it is written all the same,  *)
(* and the function calls itself for what is left; then the loop goes on.  *)
(*                                                                         *)
(* Addresses are counted in pages.  Memory is modelled as far as it is     *)
(* read as page tables: an entry is the frame it refers to, or Absent for  *)
(* a word of 0.  Whatever is mapped is present and writable.               *)
(***************************************************************************)
EXTENDS Integers, Sequences

CONSTANTS
  Entries,     \* entries of a page table, 512 in the processor's
  NumFrames,   \* pages of physical memory
  cr3          \* the frame of the table of level 4

Frame == 0 .. NumFrames - 1
Slot == 0 .. Entries - 1
Absent == -1
NULL == 0      \* what a pointer holds that AllocatePages did not set

VARIABLES
  words,      \* what each frame would be as a page table
  available,  \* the frames the firmware may still give away
  tables,     \* the frames that are page tables
  strayed,    \* the frames written to past the end of a table
  failures,   \* calls of AllocatePages that failed
  calls       \* the calls of MapVirtualPages at work, the innermost last

vars == <<words, available, tables, strayed, failures, calls>>

NoEntries == [k \in Slot |-> Absent]

(* pml4i, pml3i, pml2i and pml1i: the index of page virt at each level. *)
Index(level, virt) ==
  CASE level = 4 -> (virt \div (Entries * Entries * Entries)) % Entries
    [] level = 3 -> (virt \div (Entries * Entries)) % Entries
    [] level = 2 -> (virt \div Entries) % Entries
    [] level = 1 -> virt % Entries

Depth == Len(calls)
Top == calls[Depth]

(* A call has come to the table of some level, at first the one in cr3. *)
Call(physical, virt, pages) ==
  [physical |-> physical, virt |-> virt, pages |-> pages, level |-> 4, table |-> cr3, i |-> 0]

MapVirtualPages(physical, virt, pages) ==
  /\ calls = <<>>
  /\ calls' = <<Call(physical, virt, pages)>>
  /\ UNCHANGED <<words, available, tables, strayed, failures>>

Descend(table) == calls' = [calls EXCEPT ![Depth].table = table, ![Depth].level = @ - 1]

(* Slip: the page keeps what it held. *)
NewTableUncleared(table) ==
  /\ words' = [words EXCEPT ![Top.table][Index(Top.level, Top.virt)] = table]
  /\ tables' = tables \cup {table}
  /\ Descend(table)

(* The page is cleared, then entered in the table above it. *)
NewTable(table) ==
  /\ words' = [words EXCEPT ![table] = NoEntries,
                            ![Top.table][Index(Top.level, Top.virt)] = table]
  /\ tables' = tables \cup {table}
  /\ Descend(table)

(***************************************************************************)
(* One level of the walk.  Nobody looks at the status of AllocatePages:    *)
(* when it fails, the page at address 0 is cleared and made the table.     *)
(***************************************************************************)
Walk ==
  /\ calls # <<>> /\ Top.level > 1
  /\ LET entry == words[Top.table][Index(Top.level, Top.virt)] IN
     \/ /\ entry # Absent
        /\ Descend(entry)
        /\ UNCHANGED <<words, available, tables, failures>>
     \/ /\ entry = Absent
        /\ \E table \in available : NewTable(table) /\ available' = available \ {table}
        /\ UNCHANGED failures
     \/ /\ entry = Absent
        /\ NewTable(NULL)
        /\ failures' = failures + 1
        /\ UNCHANGED available
  /\ UNCHANGED strayed

(* Slip: the first entry that does not fit is given up, with all after it. *)
FillInsideOnly ==
  /\ calls # <<>> /\ Top.level = 1 /\ Top.i < Top.pages
  /\ LET place == Index(1, Top.virt) + Top.i IN
     IF place < Entries
       THEN /\ words' = [words EXCEPT ![Top.table][place] = Top.physical + Top.i]
            /\ calls' = [calls EXCEPT ![Depth].i = @ + 1]
       ELSE /\ calls' = [calls EXCEPT ![Depth].i = Top.pages]
            /\ UNCHANGED words
  /\ UNCHANGED <<available, tables, strayed, failures>>

(* Slip: the loop comes back to the entry whose rest it has handed on. *)
FillAgain ==
  /\ calls # <<>> /\ Top.level = 1 /\ Top.i < Top.pages
  /\ LET place == Index(1, Top.virt) + Top.i IN
     IF place < Entries
       THEN /\ words' = [words EXCEPT ![Top.table][place] = Top.physical + Top.i]
            /\ calls' = [calls EXCEPT ![Depth].i = @ + 1]
       ELSE /\ calls' = Append(calls, Call(Top.physical + Top.i, Top.virt + Top.i,
                                           Top.pages - Top.i))
            /\ UNCHANGED words
  /\ UNCHANGED <<available, tables, strayed, failures>>

(* One turn of the loop; what lies behind the table is the next frame. *)
FillEntry ==
  /\ calls # <<>> /\ Top.level = 1 /\ Top.i < Top.pages
  /\ LET place == Index(1, Top.virt) + Top.i
         frame == Top.table + place \div Entries
         turned == [calls EXCEPT ![Depth].i = @ + 1]
     IN  /\ words' = IF frame \in Frame
                       THEN [words EXCEPT ![frame][place % Entries] = Top.physical + Top.i]
                       ELSE words
         /\ strayed' = IF place < Entries THEN strayed ELSE strayed \cup ({frame} \cap Frame)
         /\ calls' = IF place < Entries THEN turned
                     ELSE Append(turned, Call(Top.physical + Top.i, Top.virt + Top.i,
                                              Top.pages - Top.i))
  /\ UNCHANGED <<available, tables, failures>>

Return ==
  /\ calls # <<>> /\ Top.level = 1 /\ Top.i = Top.pages
  /\ calls' = SubSeq(calls, 1, Depth - 1)
  /\ UNCHANGED <<words, available, tables, strayed, failures>>

Step == Walk \/ FillEntry \/ Return

(* What the processor finds: the frame of page virt, or Absent. *)
Entry(table, level, virt) ==
  IF table = Absent THEN Absent ELSE words[table][Index(level, virt)]
Translate(virt) ==
  Entry(Entry(Entry(Entry(cr3, 4, virt), 3, virt), 2, virt), 1, virt)
==============================================================================
