---------------------------- MODULE MCKernelImage ----------------------------
(* Sixteen pages of four bytes, and tables of two entries: a kernel at     *)
(* page 8 or later of one or two headers, which may overrun its table, and *)
(* whose pages are those from page 8 or from page 0 of memory on.          *)
EXTENDS KernelImage, FiniteSets, TLC

Segment(vaddr, filesz, infile, memsz) ==
  [load |-> TRUE, vaddr |-> vaddr, filesz |-> filesz, infile |-> infile, memsz |-> memsz]

Segments ==
  UNION {{Segment(a, 2, 2, 2), Segment(a, 2, 2, 5), Segment(a, 2, 1, 5), Segment(a, 0, 0, 2)} :
            a \in {33, 36, 43}}
  \cup {[Segment(36, 0, 0, 2) EXCEPT !.load = FALSE]}

Disjoint(h, g) ==
  h.load /\ g.load => h.vaddr + h.memsz <= g.vaddr \/ g.vaddr + g.memsz <= h.vaddr

MCTables ==
  {<<h>> : h \in Segments} \cup {t \in Segments \X Segments : Disjoint(t[1], t[2])}

MCPlaces == {0, 32}
MCFills == {<<"remains">>}

(* Frame 4 is the table of level 4; 5, 6 and 7 map page 0, or lie ready on *)
(* the kernel's way; 3 and 12 to 15 are in use.                           *)
MCFree == 0 .. 2 \cup 8 .. 11
T(a, b) == [k \in 0 .. 1 |-> IF k = 0 THEN a ELSE b]
MCFirmwareTables ==
  { (4 :> T(5, -1)) @@ (5 :> T(6, -1)) @@ (6 :> T(7, -1)) @@ (7 :> T(12, -1)),
    (4 :> T(-1, 5)) @@ (5 :> T(6, -1)) @@ (6 :> T(7, -1)) @@ (7 :> T(14, 15)) }
MCRemains == T(13, 15)
=============================================================================
