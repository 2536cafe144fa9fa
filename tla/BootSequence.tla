---------------------------- MODULE BootSequence ----------------------------
(***************************************************************************)
(* The boot loader from efi_main to the jump into the kernel (boot.c): the *)
(* firmware calls that lead to the kernel file, the claim on memory for it *)
(* (Placement), loading it, and the handshake in which the memory map's    *)
(* key must still be current when ExitBootServices is called.              *)
(*                                                                         *)
(* The firmware is external.  Any of its calls may fail, and its timers    *)
(* may change the memory map at any time until boot services are over.     *)
(***************************************************************************)
EXTENDS Integers, Sequences

CONSTANTS
  NumPages, KernelPages, Layouts,  \* as in Placement
  Files                            \* the kinds of kernel file on the disk

(* "elf64": for this machine; "elfOther": another ELF; "notElf": neither. *)
ASSUME BootAssumption ==
  /\ Files \subseteq {"elf64", "elfOther", "notElf"}
  /\ NumPages \in Nat /\ KernelPages \in Nat

VARIABLES
  pc,
  file,          \* the kind of file at \Pious\Kernel.exe
  pools,         \* pool buffers allocated and not freed
  outcome, base, usage,
  KernelBaseAddress,  \* first page of the kernel as handed over, -1 for 0x0
  Header_memory,      \* the address that will be jumped to
  loaded,        \* are the program segments in memory?
  MemMapKey,     \* "unset", "current" or "stale"
  MemMap,        \* what it points to: "none" (NULL), "unfilled", "current",
                 \* "stale", or "freed" memory
  mapFits,       \* would the memory map fit the buffer's size?
  sized,         \* history: did GetMemoryMap last say EFI_BUFFER_TOO_SMALL when asked?
  tries,         \* calls of ExitBootServices
  services       \* are boot services still there?

pageVars == <<outcome, base, usage>>
kernelVars == <<KernelBaseAddress, Header_memory, loaded>>
mapVars == <<MemMapKey, MemMap, mapFits, sized>>
vars == <<pc, file, pools, pageVars, kernelVars, mapVars, tries, services>>

P == INSTANCE Placement

Pools == {"Graphics", "ESPRootTemp", "ESPRoot", "FileInfo", "program_headers_table",
          "Loader_block", "MemMap", "first_MemMap"}

------------------------------------------------------------------------------
(* The straight-line parts: each call may fail, takes pools and returns some. *)

Call(gets, puts) == [gets |-> gets, puts |-> puts]
Plain == Call({}, {})

(* Slip: the copy of the path is freed, not the original. *)
OpeningCallsWrongFree == <<
  Call({"Graphics"}, {}), Plain, Call({"ESPRootTemp"}, {}),
  Call({"ESPRoot"}, {}), Call({}, {"ESPRoot"}),
  Plain, Plain, Plain, Call({"FileInfo"}, {}), Plain, Plain, Plain, Plain >>

(* Graphics, InitUEFI_GOP; then BootKernel: the loaded image (and its path *)
(* as text), the copy of that path, and the kernel file with its headers.  *)
OpeningCalls == <<
  Call({"Graphics"}, {}), Plain, Call({"ESPRootTemp"}, {}),
  Call({"ESPRoot"}, {}), Call({}, {"ESPRootTemp"}),
  Plain, Plain, Plain, Call({"FileInfo"}, {}), Plain, Plain, Plain, Plain >>

FirstCallOfBootKernel == 3

(* The program headers, read once the file has shown to be an ELF. *)
HeaderCalls == << Call({"program_headers_table"}, {}), Plain, Plain >>

CallPCs(name, calls) == {<<name, i>> : i \in 1 .. Len(calls)}

(* efi_main returns to the firmware before BootKernel and spins after it. *)
FailurePC(at) ==
  IF at[1] = "open" /\ at[2] < FirstCallOfBootKernel THEN <<"returned">> ELSE <<"hung">>

RunCalls(name, calls, then) ==
  /\ pc \in CallPCs(name, calls)
  /\ LET c == calls[pc[2]]
     IN  \/ /\ pools' = (pools \cup c.gets) \ c.puts
            /\ pc' = IF pc[2] = Len(calls) THEN then ELSE <<name, pc[2] + 1>>
         \/ UNCHANGED pools /\ pc' = FailurePC(pc)
  /\ UNCHANGED <<file, pageVars, kernelVars, mapVars, tries, services>>

------------------------------------------------------------------------------
Init ==
  /\ pc = <<"open", 1>>
  /\ file \in Files
  /\ pools = {}
  /\ P!Init
  /\ KernelBaseAddress = -1 /\ Header_memory = "0x40000000" /\ loaded = FALSE
  /\ MemMapKey = "unset" /\ MemMap = "none" /\ mapFits = FALSE /\ sized = FALSE
  /\ tries = 0
  /\ services = TRUE

Open == RunCalls("open", OpeningCalls, <<"check">>)

(* A file that is no ELF at all goes on as if it had been loaded. *)
CheckFile ==
  /\ pc = <<"check">>
  /\ pc' = CASE file = "elf64" -> <<"headers", 1>>
             [] file = "elfOther" -> <<"hung">>
             [] file = "notElf" -> <<"loaderBlock">>
  /\ UNCHANGED <<file, pools, pageVars, kernelVars, mapVars, tries, services>>

ReadHeaders == RunCalls("headers", HeaderCalls, <<"place">>)

FindPlace ==
  /\ pc = <<"place">>
  /\ P!Place \/ P!GiveUp
  /\ pc' = IF outcome' = "placed" THEN <<"load">> ELSE <<"hung">>
  /\ UNCHANGED <<file, pools, kernelVars, mapVars, tries, services>>

(* Slip: an error while reading a segment is not acted upon. *)
LoadUnchecked ==
  /\ pc = <<"load">>
  /\ loaded' \in BOOLEAN
  /\ pools' \in {pools, pools \ {"program_headers_table"}}
  /\ KernelBaseAddress' = base
  /\ Header_memory' = "e_entry"
  /\ pc' = <<"loaderBlock">>
  /\ UNCHANGED <<file, pageVars, mapVars, tries, services>>

(***************************************************************************)
(* Read every PT_LOAD segment, free the program headers whether or not the *)
(* firmware lets them go, and map the kernel at its virtual address.       *)
(***************************************************************************)
LoadSegments ==
  /\ pc = <<"load">>
  /\ \/ /\ loaded' = TRUE
        /\ pools' \in {pools, pools \ {"program_headers_table"}}
        /\ KernelBaseAddress' = base
        /\ Header_memory' = "e_entry"
        /\ pc' = <<"loaderBlock">>
     \/ pc' = <<"hung">> /\ UNCHANGED <<pools, kernelVars>>
  /\ UNCHANGED <<file, pageVars, mapVars, tries, services>>

AllocateLoaderBlock ==
  /\ pc = <<"loaderBlock">>
  /\ \/ pools' = pools \cup {"Loader_block"} /\ pc' = <<"sizeMap">>
     \/ UNCHANGED pools /\ pc' = <<"hung">>
  /\ UNCHANGED <<file, pageVars, kernelVars, mapVars, tries, services>>

------------------------------------------------------------------------------
(***************************************************************************)
(* The memory map.  GetMemoryMap with a buffer that is too small reports   *)
(* the size needed, and a firmware may or may not set the key as well.     *)
(* With any other status the loader allocates nothing and goes on to       *)
(* ExitBootServices with the key and the pointer it has: NULL on the first *)
(* attempt, on the second what FreePool left.                              *)
(***************************************************************************)
KeyOfShortCall == {MemMapKey, "current"}

SizeMap ==
  /\ pc = <<"sizeMap">>
  /\ \/ /\ MemMapKey' \in KeyOfShortCall
        /\ mapFits' = TRUE /\ sized' = TRUE
        /\ pc' = <<"allocMap">>
     \/ /\ sized' = FALSE
        /\ pc' = <<"exit">>
        /\ UNCHANGED <<MemMapKey, mapFits>>
  /\ UNCHANGED <<file, pools, pageVars, kernelVars, MemMap, tries, services>>

Outdated(x) == IF x = "current" THEN "stale" ELSE x

(* A buffer of exactly that size, whose allocation changes the map.  A     *)
(* first buffer that FreePool did not take back is lost.                   *)
AllocateMap ==
  /\ pc = <<"allocMap">>
  /\ \/ /\ pools' = pools \cup {"MemMap"} \cup {p \in {"first_MemMap"} : "MemMap" \in pools}
        /\ MemMap' = "unfilled"
        /\ MemMapKey' = Outdated(MemMapKey)
        /\ mapFits' \in BOOLEAN
        /\ pc' = <<"getMap">>
        /\ UNCHANGED sized
     \/ pc' = <<"hung">> /\ UNCHANGED <<pools, mapVars>>
  /\ UNCHANGED <<file, pageVars, kernelVars, tries, services>>

(* The second GetMemoryMap; nobody looks at its status. *)
GetMap ==
  /\ pc = <<"getMap">>
  /\ IF mapFits
       THEN MemMap' = "current" /\ MemMapKey' = "current"
       ELSE UNCHANGED MemMap /\ MemMapKey' \in KeyOfShortCall
  /\ pc' = <<"exit">>
  /\ UNCHANGED <<file, pools, pageVars, kernelVars, mapFits, sized, tries, services>>

(* ExitBootServices takes the current key; an unset one may happen to be it. *)
KeyAccepted ==
  CASE MemMapKey = "current" -> {TRUE}
    [] MemMapKey = "stale" -> {FALSE}
    [] MemMapKey = "unset" -> BOOLEAN

(* Slip: no look at the status. *)
ExitUnchecked ==
  /\ pc = <<"exit">>
  /\ tries' = tries + 1
  /\ \E accepted \in KeyAccepted : services' = ~accepted
  /\ pc' = <<"fill">>
  /\ UNCHANGED <<file, pools, pageVars, kernelVars, mapVars>>

ExitBootServices ==
  /\ pc = <<"exit">>
  /\ tries' = tries + 1
  /\ \E accepted \in KeyAccepted :
       IF accepted
         THEN services' = FALSE /\ pc' = <<"fill">>
         ELSE /\ pc' = IF tries = 0 THEN <<"again">> ELSE <<"giveUp">>
              /\ UNCHANGED services
  /\ UNCHANGED <<file, pools, pageVars, kernelVars, mapVars>>

(* FreePool: its status is not looked at either.  It changes the map, or it *)
(* is refused, as it is for NULL; the pointer stays the same in both cases. *)
FreeMap ==
  /\ \/ /\ "MemMap" \in pools
        /\ pools' = pools \ {"MemMap"}
        /\ MemMap' = "freed"
        /\ MemMapKey' = Outdated(MemMapKey)
        /\ mapFits' \in BOOLEAN
     \/ UNCHANGED <<pools, MemMap, MemMapKey, mapFits>>
  /\ UNCHANGED sized

(* Slip: the failure is forgotten. *)
TryAgainForgetful ==
  /\ pc = <<"again">>
  /\ FreeMap
  /\ tries' = 0
  /\ pc' = <<"sizeMap">>
  /\ UNCHANGED <<file, pageVars, kernelVars, services>>

(* The first failure: free the buffer and fetch the map once more. *)
TryAgain ==
  /\ pc = <<"again">>
  /\ FreeMap
  /\ pc' = <<"sizeMap">>
  /\ UNCHANGED <<file, pageVars, kernelVars, tries, services>>

(* The second failure: free the buffer and return to efi_main, which spins. *)
GiveUpExit ==
  /\ pc = <<"giveUp">>
  /\ FreeMap
  /\ pc' = <<"hung">>
  /\ UNCHANGED <<file, pageVars, kernelVars, tries, services>>

(* The loader block is filled with what the pools hold, then the jump. *)
Jump ==
  /\ pc = <<"fill">>
  /\ pc' = <<"jumped">>
  /\ UNCHANGED <<file, pools, pageVars, kernelVars, mapVars, tries, services>>

Done == pc \in {<<"returned">>, <<"hung">>, <<"jumped">>}

(* A timer of the firmware allocates or frees something. *)
FirmwareEvent ==
  /\ services /\ ~Done
  /\ IF outcome = "searching" THEN P!FirmwareUse ELSE UNCHANGED pageVars
  /\ MemMapKey' = Outdated(MemMapKey)
  /\ MemMap' = Outdated(MemMap)
  /\ mapFits' \in BOOLEAN
  /\ UNCHANGED <<pc, file, pools, kernelVars, sized, tries, services>>

LoaderStep ==
  \/ Open \/ CheckFile \/ ReadHeaders \/ LoadSegments \/ AllocateLoaderBlock
  \/ SizeMap \/ AllocateMap \/ GetMap \/ ExitBootServices \/ TryAgain \/ GiveUpExit \/ Jump

Finished == Done /\ UNCHANGED vars

Next == LoaderStep \/ FindPlace \/ FirmwareEvent \/ Finished

Spec == Init /\ [][Next]_vars

(* The loader goes on, but finding a place may take for ever. *)
FairSpec == Spec /\ WF_vars(LoaderStep)

------------------------------------------------------------------------------
PCs ==
  CallPCs("open", OpeningCalls) \cup CallPCs("headers", HeaderCalls)
  \cup {<<s>> : s \in {"check", "place", "load", "loaderBlock", "sizeMap", "allocMap", "getMap",
                       "exit", "again", "giveUp", "fill", "returned", "hung", "jumped"}}

TypeOK ==
  /\ pc \in PCs
  /\ file \in Files
  /\ pools \subseteq Pools
  /\ outcome \in {"searching", "placed", "failed"}
  /\ base \in 0 .. NumPages
  /\ usage \in [P!Page -> {"free", "taken", "kernel"}]
  /\ KernelBaseAddress \in -1 .. NumPages - 1
  /\ Header_memory \in {"0x40000000", "e_entry"}
  /\ loaded \in BOOLEAN
  /\ MemMapKey \in {"unset", "current", "stale"}
  /\ MemMap \in {"none", "unfilled", "current", "stale", "freed"}
  /\ mapFits \in BOOLEAN /\ sized \in BOOLEAN /\ services \in BOOLEAN
  /\ tries \in 0 .. 2

(***************************************************************************)
(* Everything the loader block points to is still allocated at the jump,   *)
(* whichever way the two attempts to exit went.  The memory map is the     *)
(* exception the code makes: when the GetMemoryMap that should tell its    *)
(* size failed with another status than EFI_BUFFER_TOO_SMALL, the pointer  *)
(* is NULL or what FreePool left of the first attempt's.  Of the other     *)
(* pools counted here only the program headers and a first memory map can  *)
(* be left, the two whose FreePool may fail unnoticed.                     *)
(***************************************************************************)
HandedOver == {"Graphics", "ESPRoot", "FileInfo", "Loader_block", "MemMap"}
HandedPointersLive ==
  pc = <<"jumped">> =>
    /\ HandedOver \ {"MemMap"} \subseteq pools
    /\ (sized \/ MemMap \notin {"none", "freed"}) => "MemMap" \in pools
    /\ pools \subseteq HandedOver \cup {"program_headers_table", "first_MemMap"}

(***************************************************************************)
(* No map the firmware has changed since it was fetched reaches the        *)
(* kernel: a timer between GetMemoryMap and ExitBootServices costs the     *)
(* loader an attempt, never a wrong map.                                   *)
(***************************************************************************)
NoStaleMapHandedOver == pc = <<"jumped">> => ~services /\ MemMap # "stale"

(***************************************************************************)
(* A kernel for this machine is entered only when it has been loaded, at   *)
(* its own entry point and with its own pages as base address.             *)
(***************************************************************************)
KernelLoadedBeforeJump ==
  (pc = <<"jumped">> /\ file = "elf64") =>
    /\ loaded /\ Header_memory = "e_entry"
    /\ KernelBaseAddress \in P!Page
    /\ P!RunFrom(KernelBaseAddress) = {p \in P!Page : usage[p] = "kernel"}

(***************************************************************************)
(* Even when timers change the map all the time the handshake ends: the    *)
(* loader tries twice and then stops.                                      *)
(***************************************************************************)
HandshakeEnds == pc = <<"sizeMap">> ~> pc \in {<<"hung">>, <<"jumped">>}

------------------------------------------------------------------------------
(* What the declarations of bootloader.h claim and the code does not do. *)

(* Memory_Map is "the system memory map as an array of descriptors"; this  *)
(* leaves aside the firmware that would not even tell the map's size.      *)
MapHandedOver == (pc = <<"jumped">> /\ sized) => MemMap = "current"

==============================================================================
