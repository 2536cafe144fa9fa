--------------------------- MODULE MCBootSequence ---------------------------
(* A three page memory for BootSequence, whose map's keys do the work. *)
EXTENDS BootSequence

MCLayouts == {0 .. 2, {1, 2}, {0, 2}}
MCFiles == {"elf64", "elfOther", "notElf"}
==============================================================================
