--------------------------- MODULE KernelPlacement ---------------------------
(***************************************************************************)
(* Where the boot loader puts the kernel: the part of BootKernel (boot.c)  *)
(* that claims the kernel's pages at 1 GiB and, when the firmware handed   *)
(* over memory that is not really free, looks for another place, first     *)
(* region by region (ActuallyFreeAddress) and then page by page            *)
(* (ActuallyFreeAddressByPage).                                            *)
(*                                                                         *)
(* Physical memory is an array of pages.  Addresses are bytes and wrap at  *)
(* AddrSpace (2^64 in the build), so that ~0ULL + 4096 is a small number   *)
(* here as it is in the loader.  The boot services that own the memory map *)
(* are external: they are modelled from how the loader calls them.         *)
(***************************************************************************)
EXTENDS Integers

CONSTANTS
  NumPages,       \* pages of physical memory
  PageSize,       \* EFI_PAGE_SIZE
  AddrSpace,      \* number of addresses: arithmetic is modulo this
  KernelBase,     \* 0x40000000, the address the loader asks for first
  KernelPages,    \* "pages", the size of the loaded image
  Layouts,        \* the sets of pages the firmware may report as free
  Remains,        \* the contents those pages may have at power up
  FreedRead,      \* what a read of a freed memory map buffer may return
  FirmwareErrors, \* may a boot service fail with anything but NOT_FOUND?
  PoolGrows,      \* may a memory map buffer need a fresh page?
  MaxEvents       \* how often the firmware's own timers touch the map

Page == 0 .. NumPages - 1
Addr == 0 .. AddrSpace - 1
NoAddress == AddrSpace - 1   \* ~0ULL

(***************************************************************************)
(* "zero"   reads as zeros                                                 *)
(* "used"   ordinary RAM with old bytes in it: ZeroMem clears it           *)
(* "stuck"  not RAM the loader may use, whatever the map says              *)
(* "elf"    begins with the ELF magic, and ZeroMem clears it               *)
(* "romelf" begins with the ELF magic and keeps it                         *)
(***************************************************************************)
Content == {"zero", "used", "stuck", "elf", "romelf"}
Owner == {"conventional", "reserved", "firmware", "pool", "loader"}
Status == {"SUCCESS", "NOT_FOUND", "ERROR"}

ASSUME PlacementAssumption ==
  /\ NumPages \in Nat \ {0} /\ PageSize \in Nat \ {0} /\ AddrSpace \in Nat
  /\ KernelPages \in Nat \ {0}
  /\ NumPages * PageSize < AddrSpace
  /\ KernelBase \in Addr /\ KernelBase + PageSize < AddrSpace
  /\ KernelBase # 0 /\ KernelBase % PageSize = 0
  /\ NoAddress % PageSize # 0
  /\ Layouts \subseteq SUBSET Page
  /\ Remains \subseteq [Page -> Content]
  /\ FreedRead \subseteq Addr \ {KernelBase}
  /\ FirmwareErrors \in BOOLEAN /\ PoolGrows \in BOOLEAN
  /\ MaxEvents \in Nat

VARIABLES
  pc,                  \* where BootKernel is
  owner,               \* the firmware's record of each page
  content,             \* what each page holds
  AllocatedMemory,
  OldAllocatedMemory,  \* the known bad address; 0 until it is assigned
  NewAddress,          \* 0 until it is assigned
  BootStatus,
  unfreed,             \* history: pages of map buffers FreePool did not take back
  events

loaderVars == <<AllocatedMemory, OldAllocatedMemory, NewAddress, BootStatus>>
vars == <<pc, owner, content, loaderVars, unfreed, events>>

------------------------------------------------------------------------------
(* Boot services: AllocatePages(AllocateAddress), FreePages, GetMemoryMap.  *)

PagesOf(own, who) == {p \in Page : own[p] = who}
Conventional(own) == PagesOf(own, "conventional")

(* The pages an allocation of the kernel's size at address a covers. *)
Run(a) == (a \div PageSize) .. (a \div PageSize) + KernelPages - 1

CanAllocate(own, a) == a % PageSize = 0 /\ Run(a) \subseteq Conventional(own)

Give(own, run, who) == [p \in Page |-> IF p \in run THEN who ELSE own[p]]

(* AllocatePages at address a: the status and the map it leaves. *)
AllocatePages(own, a) ==
  {IF CanAllocate(own, a)
     THEN [status |-> "SUCCESS", owner |-> Give(own, Run(a), "loader")]
     ELSE [status |-> "NOT_FOUND", owner |-> own]}
  \cup {r \in {[status |-> "ERROR", owner |-> own]} : FirmwareErrors}

FreePages(own, a) ==
  {[status |-> "SUCCESS", owner |-> Give(own, Run(a), "conventional")]}
  \cup {r \in {[status |-> "ERROR", owner |-> own]} : FirmwareErrors}

(* The EfiConventionalMemory descriptors of the memory map. *)
Regions(own) ==
  {r \in [first : Page, pages : 1 .. NumPages] :
     /\ r.first + r.pages - 1 \in Page
     /\ r.first .. r.first + r.pages - 1 \subseteq Conventional(own)
     /\ r.first - 1 \notin Conventional(own)
     /\ r.first + r.pages \notin Conventional(own)}

PhysicalStart(r) == r.first * PageSize

(* The map while the buffer that receives it is allocated: the buffer lies *)
(* in pool memory the firmware already has, or in a page of its own.       *)
WithMapBuffer(own) ==
  {own} \cup {o \in {Give(own, {p}, "pool") : p \in Conventional(own)} : PoolGrows}

(***************************************************************************)
(* The descriptors come in ascending order, as EDK2 lists them: the scan   *)
(* stops at the first that matches, so it finds the lowest.                *)
(***************************************************************************)
FirstOf(regions) ==
  {r \in regions : \A other \in regions : r.first <= other.first}

------------------------------------------------------------------------------
(* The two scans of the memory map.  Each returns the set of its possible  *)
(* outcomes: the address returned, the map it leaves behind and the pages  *)
(* of its buffer that FreePool refused to take back.                       *)

(* Slip: a region that starts at the old address is taken again. *)
SuitableAgain(own, old) ==
  {r \in Regions(own) : r.pages >= KernelPages /\ PhysicalStart(r) >= old}

Suitable(own, old) ==
  {r \in Regions(own) : r.pages >= KernelPages /\ PhysicalStart(r) > old}

(***************************************************************************)
(* A scan that finds nothing returns before it frees the buffer, and so    *)
(* does one whose second GetMemoryMap fails, which a buffer that itself    *)
(* lengthened the map can make it do.                                      *)
(***************************************************************************)
ScanFailures(own) ==
  {[addr |-> NoAddress, owner |-> o, unfreed |-> {}] : o \in WithMapBuffer(own) \ {own}}
  \cup {r \in {[addr |-> NoAddress, owner |-> own, unfreed |-> {}]} : FirmwareErrors}

(* Slip: the buffer is never freed. *)
ScanOutcomesLeaky(own, o, found, misread) ==
  IF found = {} THEN {[addr |-> NoAddress, owner |-> o, unfreed |-> {}]}
                ELSE {[addr |-> a, owner |-> o, unfreed |-> {}] : a \in found \cup misread}

(***************************************************************************)
(* With an address the buffer goes back to the pool.  A FreePool that      *)
(* fails is printed and no more: the address is returned all the same, and *)
(* the buffer stays.  An address read after the buffer was freed is what   *)
(* it was before or a member of misread.                                   *)
(***************************************************************************)
ScanOutcomes(own, o, found, misread) ==
  IF found = {} THEN {[addr |-> NoAddress, owner |-> o, unfreed |-> {}]}
  ELSE {[addr |-> a, owner |-> own, unfreed |-> {}] : a \in found \cup misread}
       \cup {r \in {[addr |-> a, owner |-> o,
                     unfreed |-> PagesOf(o, "pool") \ PagesOf(own, "pool")] : a \in found} :
              FirmwareErrors}

ActuallyFreeAddress(own, old) ==
  ScanFailures(own) \cup
  UNION {ScanOutcomes(own, o,
           {PhysicalStart(r) : r \in FirstOf(Suitable(o, old))}, FreedRead)
         : o \in WithMapBuffer(own)}

PhysicalEnd(r) == (PhysicalStart(r) + r.pages * PageSize - (PageSize - 1)) % AddrSpace

(* Slip: the bound forgets the kernel's size. *)
NextPageInside(r, old) == old >= PhysicalStart(r) /\ old < PhysicalEnd(r)

NextPageFits(r, old) ==
  /\ old >= PhysicalStart(r)
  /\ (old + KernelPages * PageSize) % AddrSpace < PhysicalEnd(r)

(* Slips: steps of two pages; and a sum wider than an address. *)
DiscoveredEveryOther(r, old) ==
  IF NextPageFits(r, old) THEN (old + 2 * PageSize) % AddrSpace ELSE PhysicalStart(r)
DiscoveredUnwrapped(r, old) ==
  IF NextPageFits(r, old) THEN old + PageSize ELSE PhysicalStart(r)

DiscoveredAddress(r, old) ==
  IF NextPageFits(r, old) THEN (old + PageSize) % AddrSpace ELSE PhysicalStart(r)

SuitableByPage(own, old) ==
  {r \in Regions(own) : /\ r.pages >= KernelPages
                        /\ NextPageFits(r, old) \/ PhysicalStart(r) > old}

ActuallyFreeAddressByPage(own, old) ==
  ScanFailures(own) \cup
  UNION {ScanOutcomes(own, o,
           {DiscoveredAddress(r, old) : r \in FirstOf(SuitableByPage(o, old))}, {})
         : o \in WithMapBuffer(own)}

Rescan(r, outcomes) == {[s EXCEPT !.unfreed = @ \cup r.unfreed] : s \in outcomes}

(* One search: scan, and scan again from the known bad address if the      *)
(* first scan came back with it.                                           *)
(* Slip: the known bad address is not looked out for. *)
SearchByRegionOnce == ActuallyFreeAddress(owner, NewAddress)

SearchByRegion ==
  UNION {IF r.addr = OldAllocatedMemory
           THEN Rescan(r, ActuallyFreeAddress(r.owner, r.addr)) ELSE {r}
         : r \in ActuallyFreeAddress(owner, NewAddress)}

SearchByPage ==
  UNION {IF r.addr = OldAllocatedMemory
           THEN Rescan(r, ActuallyFreeAddressByPage(r.owner, r.addr)) ELSE {r}
         : r \in ActuallyFreeAddressByPage(owner, NewAddress)}

------------------------------------------------------------------------------
(* What the loader reads back from pages it holds. *)

VerifyZeroMem(mem, a) == \E p \in Run(a) : mem[p] # "zero"
CompareELFMAG(mem, a) == mem[a \div PageSize] \in {"elf", "romelf"}
Usable(mem, a) == ~VerifyZeroMem(mem, a) \/ CompareELFMAG(mem, a)

ZeroMem(a) ==
  [p \in Page |-> IF p \in Run(a) /\ content[p] \in {"used", "elf"}
                    THEN "zero" ELSE content[p]]

------------------------------------------------------------------------------
Init ==
  /\ pc = "claim"
  /\ \E free \in Layouts :
       owner = [p \in Page |-> IF p \in free THEN "conventional" ELSE "reserved"]
  /\ content \in Remains
  /\ AllocatedMemory = KernelBase
  /\ OldAllocatedMemory = 0
  /\ NewAddress = 0
  /\ BootStatus = "SUCCESS"
  /\ unfreed = {}
  /\ events = 0

(* Slip: the status is not looked at. *)
TryUnchecked(to, again) ==
  \E r \in AllocatePages(owner, NewAddress) :
    BootStatus' = r.status /\ owner' = r.owner /\ pc' = to

(* AllocatePages at NewAddress; "to" if it succeeds, "again" if it does not. *)
TryNewAddress(to, again) ==
  \E r \in AllocatePages(owner, NewAddress) :
    /\ BootStatus' = r.status
    /\ owner' = r.owner
    /\ pc' = IF r.status = "SUCCESS" THEN to ELSE again

(* Claim: the kernel's pages at 1 GiB, or back to efi_main. *)
Claim ==
  /\ pc = "claim"
  /\ \E r \in AllocatePages(owner, KernelBase) :
       /\ BootStatus' = r.status
       /\ owner' = r.owner
       /\ pc' = IF r.status = "SUCCESS" THEN "zero" ELSE "failed"
  /\ UNCHANGED <<content, AllocatedMemory, OldAllocatedMemory, NewAddress, unfreed, events>>

(* Zero the pages, read them back, keep them unless something else shows. *)
ZeroAndVerify ==
  /\ pc = "zero"
  /\ content' = ZeroMem(AllocatedMemory)
  /\ pc' = IF Usable(content', AllocatedMemory) THEN "placed" ELSE "giveBack"
  /\ UNCHANGED <<owner, loaderVars, unfreed, events>>

(* Return the pages at 1 GiB, remember the address and start at 0. *)
GiveBack ==
  /\ pc = "giveBack"
  /\ \E r \in FreePages(owner, AllocatedMemory) :
       /\ BootStatus' = r.status
       /\ owner' = r.owner
       /\ IF r.status = "SUCCESS"
            THEN pc' = "tryZero" /\ OldAllocatedMemory' = AllocatedMemory
            ELSE pc' = "failed" /\ UNCHANGED OldAllocatedMemory
  /\ NewAddress' = 0
  /\ UNCHANGED <<content, AllocatedMemory, unfreed, events>>

TryAddressZero ==
  /\ pc = "tryZero"
  /\ TryNewAddress("save2", "search1")
  /\ UNCHANGED <<content, AllocatedMemory, OldAllocatedMemory, NewAddress, unfreed, events>>

(***************************************************************************)
(* A turn of a search loop up to its AllocatePages.  The loop gives up     *)
(* before it calls AllocatePages at one of the "stops".                    *)
(***************************************************************************)
SearchTurn(outcomes, stops, to) ==
  \/ /\ BootStatus = "ERROR"
     /\ pc' = "failed"
     /\ UNCHANGED <<owner, NewAddress, unfreed>>
  \/ /\ BootStatus = "NOT_FOUND"
     /\ \E r \in outcomes :
          /\ NewAddress' = r.addr
          /\ owner' = r.owner
          /\ unfreed' = unfreed \cup r.unfreed
          /\ pc' = IF r.addr \in stops THEN "failed" ELSE to

(* Lines 330-363: region by region until one can be allocated. *)
Search1 ==
  /\ pc = "search1"
  /\ SearchTurn(SearchByRegion, {NoAddress}, "alloc1")
  /\ UNCHANGED <<content, AllocatedMemory, OldAllocatedMemory, BootStatus, events>>

Alloc1 ==
  /\ pc = "alloc1"
  /\ TryNewAddress("save2", "search1")
  /\ UNCHANGED <<content, AllocatedMemory, OldAllocatedMemory, NewAddress, unfreed, events>>

Save2 ==
  /\ pc = "save2"
  /\ AllocatedMemory' = NewAddress
  /\ pc' = "check2"
  /\ UNCHANGED <<owner, content, OldAllocatedMemory, NewAddress, BootStatus, unfreed, events>>

(* Slip: rejected pages are not returned. *)
RejectUnreturned(to) ==
  /\ ~Usable(content, AllocatedMemory)
  /\ BootStatus' = "NOT_FOUND" /\ pc' = to
  /\ UNCHANGED owner

(* Read the pages back; return them when they are someone else's. *)
RejectPages(to) ==
  /\ ~Usable(content, AllocatedMemory)
  /\ \E r \in FreePages(owner, AllocatedMemory) :
       /\ owner' = r.owner
       /\ BootStatus' = IF r.status = "SUCCESS" THEN "NOT_FOUND" ELSE r.status
       /\ pc' = IF r.status = "SUCCESS" THEN to ELSE "failed"

KeepPages ==
  /\ Usable(content, AllocatedMemory)
  /\ pc' = "placed"
  /\ UNCHANGED <<owner, BootStatus>>

(* Lines 369-389. *)
Check2 ==
  /\ pc = "check2"
  /\ \/ /\ NewAddress = NoAddress
        /\ pc' = "bigGuns"
        /\ UNCHANGED <<owner, BootStatus>>
     \/ NewAddress # NoAddress /\ KeepPages
     \/ NewAddress # NoAddress /\ RejectPages("search2")
  /\ UNCHANGED <<content, AllocatedMemory, OldAllocatedMemory, NewAddress, unfreed, events>>

(* Lines 391-420: the loop ends when it has pages or no address is left. *)
Search2 ==
  /\ pc = "search2"
  /\ IF NewAddress = NoAddress
       THEN pc' = "save2" /\ UNCHANGED <<owner, NewAddress, unfreed>>
       ELSE SearchTurn(SearchByRegion, {}, "alloc2")
  /\ UNCHANGED <<content, AllocatedMemory, OldAllocatedMemory, BootStatus, events>>

Alloc2 ==
  /\ pc = "alloc2"
  /\ TryNewAddress("save2", "search2")
  /\ UNCHANGED <<content, AllocatedMemory, OldAllocatedMemory, NewAddress, unfreed, events>>

(* Lines 427-431: no region starts with usable pages, restart page by page. *)
BringBigGuns ==
  /\ pc = "bigGuns"
  /\ \E r \in ActuallyFreeAddress(owner, 0) :
       /\ NewAddress' = r.addr /\ owner' = r.owner
       /\ unfreed' = unfreed \cup r.unfreed
  /\ BootStatus' = "NOT_FOUND"
  /\ pc' = "search3"
  /\ UNCHANGED <<content, AllocatedMemory, OldAllocatedMemory, events>>

Search3 ==
  /\ pc = "search3"
  /\ SearchTurn(SearchByPage, {NoAddress}, "alloc3")
  /\ UNCHANGED <<content, AllocatedMemory, OldAllocatedMemory, BootStatus, events>>

Alloc3 ==
  /\ pc = "alloc3"
  /\ TryNewAddress("save4", "search3")
  /\ UNCHANGED <<content, AllocatedMemory, OldAllocatedMemory, NewAddress, unfreed, events>>

Save4 ==
  /\ pc = "save4"
  /\ AllocatedMemory' = NewAddress
  /\ pc' = "check4"
  /\ UNCHANGED <<owner, content, OldAllocatedMemory, NewAddress, BootStatus, unfreed, events>>

(* Lines 464-482. *)
Check4 ==
  /\ pc = "check4"
  /\ KeepPages \/ RejectPages("search4")
  /\ UNCHANGED <<content, AllocatedMemory, OldAllocatedMemory, NewAddress, unfreed, events>>

(***************************************************************************)
(* Lines 484-511.  The test that should end the loop when no address is    *)
(* left reads AllocatedMemory, which still holds the last rejected run.    *)
(***************************************************************************)
LastPagesLost == IF AllocatedMemory = NoAddress THEN Addr ELSE {}

Search4 ==
  /\ pc = "search4"
  /\ SearchTurn(SearchByPage, LastPagesLost, "alloc4")
  /\ UNCHANGED <<content, AllocatedMemory, OldAllocatedMemory, BootStatus, events>>

Alloc4 ==
  /\ pc = "alloc4"
  /\ TryNewAddress("save4", "search4")
  /\ UNCHANGED <<content, AllocatedMemory, OldAllocatedMemory, NewAddress, unfreed, events>>

Done == pc \in {"placed", "failed"}

(* A firmware timer takes a free page, or returns one with its bytes in it. *)
FirmwareEvent ==
  /\ ~Done
  /\ events < MaxEvents
  /\ events' = events + 1
  /\ \E p \in Page :
       \/ /\ owner[p] = "conventional"
          /\ owner' = Give(owner, {p}, "firmware")
          /\ UNCHANGED content
       \/ /\ owner[p] = "firmware"
          /\ owner' = Give(owner, {p}, "conventional")
          /\ content' = [content EXCEPT ![p] = IF @ = "zero" THEN "used" ELSE @]
  /\ UNCHANGED <<pc, loaderVars, unfreed>>

LoaderStep ==
  \/ Claim \/ ZeroAndVerify \/ GiveBack \/ TryAddressZero
  \/ Search1 \/ Alloc1 \/ Save2 \/ Check2 \/ Search2 \/ Alloc2
  \/ BringBigGuns \/ Search3 \/ Alloc3 \/ Save4 \/ Check4 \/ Search4 \/ Alloc4

Finished == Done /\ UNCHANGED vars

Next == LoaderStep \/ FirmwareEvent \/ Finished

Spec == Init /\ [][Next]_vars

(* The loader is the only thread: it goes on until it is done. *)
FairSpec == Spec /\ WF_vars(LoaderStep)

------------------------------------------------------------------------------
PCs == {"claim", "zero", "giveBack", "tryZero", "search1", "alloc1", "save2",
        "check2", "search2", "alloc2", "bigGuns", "search3", "alloc3", "save4",
        "check4", "search4", "alloc4", "placed", "failed"}

TypeOK ==
  /\ pc \in PCs
  /\ owner \in [Page -> Owner]
  /\ content \in [Page -> Content]
  /\ AllocatedMemory \in Addr /\ OldAllocatedMemory \in Addr /\ NewAddress \in Addr
  /\ BootStatus \in Status
  /\ unfreed \subseteq Page
  /\ events \in 0 .. MaxEvents

(* The pages BootKernel has been given and not returned at each point. *)
Examining ==
  \/ pc \in {"zero", "giveBack", "check4", "placed"}
  \/ pc = "check2" /\ NewAddress # NoAddress
Obtained == pc = "save4" \/ (pc = "save2" /\ NewAddress # NoAddress)
Held == IF Examining THEN Run(AllocatedMemory)
        ELSE IF Obtained THEN Run(NewAddress) ELSE {}

(***************************************************************************)
(* Through every allocate, reject and retry of the discovery loops the     *)
(* loader holds exactly the run it is looking at: no rejected run is kept, *)
(* none is returned twice, and a return to the firmware leaves nothing     *)
(* allocated unless FreePages itself refused.                              *)
(***************************************************************************)
LoaderOwnsOneRun ==
  \/ PagesOf(owner, "loader") = Held
  \/ /\ pc = "failed" /\ BootStatus = "ERROR"
     /\ PagesOf(owner, "loader") = Run(AllocatedMemory)

(***************************************************************************)
(* When the search is over the kernel's run is page aligned, lies in pages *)
(* the loader owns and reads as zeros, or begins with the remains of an    *)
(* earlier image: whichever of the five exits of the loops was taken.      *)
(***************************************************************************)
PlacedInOwnMemory ==
  pc = "placed" =>
    /\ AllocatedMemory % PageSize = 0
    /\ Run(AllocatedMemory) \subseteq PagesOf(owner, "loader")
    /\ Usable(content, AllocatedMemory)

(***************************************************************************)
(* The address that proved bad is never asked for again: each search scans *)
(* a second time when the first scan returns it, and the second scan never *)
(* does, whatever the firmware did to the map in between.  The one way it  *)
(* could is outside the constants: line 811 reads the address out of a     *)
(* freed buffer, and FreedRead does not contain that very address.         *)
(***************************************************************************)
KnownBadNotRetried ==
  pc \in {"tryZero", "alloc1", "alloc2", "alloc3", "alloc4"} =>
    NewAddress # OldAllocatedMemory

(***************************************************************************)
(* The page by page scan stays inside its region: as long as nobody else   *)
(* touches the map, an aligned address it returns can be allocated.        *)
(***************************************************************************)
ByPageStaysInRegion ==
  (events = 0 /\ pc \in {"alloc3", "alloc4"} /\ NewAddress % PageSize = 0) =>
    CanAllocate(owner, NewAddress)

(***************************************************************************)
(* As long as the region by region search has an address to go on with,    *)
(* the only pages its memory map buffers cost are those FreePool refused   *)
(* to take back: nothing else outlives its scan, through every retry and   *)
(* second scan.  (A scan that finds nothing keeps its buffer, and the      *)
(* address is then NoAddress.)                                             *)
(***************************************************************************)
BuffersReturned ==
  ( /\ pc \in {"tryZero", "search1", "alloc1", "save2", "check2", "search2", "alloc2"}
    /\ NewAddress # NoAddress ) => PagesOf(owner, "pool") = unfreed

(***************************************************************************)
(* The search implements Placement: the pages it tries out are free ones   *)
(* to the rest of the loader until it settles on a run, and the run it     *)
(* settles on was free until then.                                         *)
(***************************************************************************)
absOutcome == IF Done THEN pc ELSE "searching"
absBase == IF pc = "placed" THEN AllocatedMemory \div PageSize ELSE NumPages
absUsage ==
  [p \in Page |->
     IF owner[p] = "loader" /\ pc = "placed" THEN "kernel"
     ELSE IF owner[p] = "conventional" \/ (owner[p] = "loader" /\ ~Done) THEN "free"
     ELSE "taken"]

Abstract == INSTANCE Placement WITH outcome <- absOutcome, base <- absBase, usage <- absUsage

ImplementsPlacement == Abstract!Spec

(***************************************************************************)
(* The region by region search ends: it finds pages, gives up or hands     *)
(* over to the page by page search, because every scan comes back with a   *)
(* higher address.  The one thing that can keep it going for ever is the   *)
(* read of line 811: a freed buffer that again and again reads as an       *)
(* address no higher than the one the scan started from.                   *)
(***************************************************************************)
ByPagePhase == pc \in {"search3", "alloc3", "save4", "check4", "search4", "alloc4"}
MisreadBack ==
  /\ pc \in {"search1", "search2"} /\ pc' \in {"alloc1", "alloc2"}
  /\ NewAddress' \in FreedRead /\ NewAddress' <= NewAddress
RegionSearchEnds == <>(Done \/ ByPagePhase) \/ []<><<MisreadBack>>_vars

(***************************************************************************)
(* The page by page search reaches every usable run above the one it just  *)
(* rejected, in spite of its broken exit test.                             *)
(***************************************************************************)
UsableAhead ==
  \E a \in Addr : /\ a > NewAddress /\ a # OldAllocatedMemory
                  /\ CanAllocate(owner, a) /\ Usable(content, a)
FoundWhenAhead == (pc = "search4" /\ UsableAhead) ~> pc = "placed"
==============================================================================
