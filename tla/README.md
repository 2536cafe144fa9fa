# PiousOS in TLA+

PiousOS is a UEFI boot loader (`src/bootloader/boot.c`) and the kernel it
starts (`src/kernel`, `arch/kernel`).  These modules specify what the loader
and the kernel do, TLC checks them on small machines, and TLAPS proves the
central theorems for machines of every size.  Line numbers below are those of
`src/src/bootloader/boot.c` unless another file is named.

## 1. The system

| component | state | operations | hard behaviour |
|---|---|---|---|
| **efi_main / BootKernel** (23-50, 54-731) | pools, `MemMap`, `MemMapKey`, `KernelBaseAddress`, `Header_memory`, the loader block | find the boot volume, open and read the kernel file, load it, get the memory map, leave boot services, jump | every firmware call may fail; firmware timers change the memory map between two calls; after a failed ExitBootServices only memory services may be used |
| **Kernel placement** (278-526, 736-879) | `AllocatedMemory`, `OldAllocatedMemory`, `NewAddress`, `BootStatus`, the firmware's memory map | claim the pages at 1 GiB; if they do not read as zeros after being cleared, search region by region, then page by page | four nested retry loops that share their variables; address arithmetic modulo 2^64; buffers for the map change the map |
| **Segment loading** (233-287, 529-557) | program headers, `virt_size`, `virt_min`, the image | size pass, allocation, read pass | two passes whose arithmetic must agree; bytes left by an earlier boot |
| **Graphics set-up**, `InitUEFI_GOP` (890-1994) | pools, `DevNum`, `mode`, `Key`, `NameBuffer`, `Graphics->GPUArray` | name the devices, ask the user (90 s timeout), set modes, record framebuffers, free scratch pools | menus racing time-outs, partial failure between allocations, loops over drivers that leave state behind |
| **Page mapping**, `MapVirtualPages` (1999-2060) | the firmware's page tables | map the kernel's pages at its virtual address | allocations unchecked, a loop that runs past the end of a table and calls itself |
| **Text console** (`src/src/kernel/graphics.c`) | framebuffer, `index` | paint a character, newline, scroll, clear, `PrintString` conversions | pixel arithmetic with a back porch; edges of the screen |
| **Memory accounting** (`src/src/kernel/memory.c`) | `mainMemorySettings` | record the map's settings (walks over it exist, nothing calls them) | descriptor stride |
| **Interrupts** (`src/arch/kernel/x86_64/ISR.c`, `ISR_asm.S`) | GDT, TSS, IDT | install the tables, dispatch, abort | exceptions on bad stacks, nesting |
| **Kernel entry** (`kernel.c`, `system.c`, `drivers.c`) | the stack, the settings | `kernel_main`, `InitializeSystem`, `InitializeDrivers`, `Abort` | from `InitializeISR` on, handlers print between any two pixels of its own text |

The loader is one thread of control.  What runs beside it is the firmware:
its timer callbacks allocate and free memory between any two calls the loader
makes.  The loader hands the kernel one block of pointers (`LOADER_PARAMS`);
the kernel never returns.  What runs beside the kernel are its own interrupt
handlers, which share its screen, its cursor and nothing that would keep them
apart.


### What is hard here

There are no tests in the repository, and much of what could go wrong would
show only on machines nobody has on the desk:

- *the firmware moves the map*: a timer allocates or frees memory between the
  scan that found an address and the call that claims it, or between
  GetMemoryMap and ExitBootServices;
- *nested retries share variables*: the discovery loops keep `NewAddress`,
  `AllocatedMemory`, `OldAllocatedMemory` and `BootStatus` across four loops,
  two of which sit in the body of another;
- *partial failure*: nearly every call can fail after something was allocated;
- *state left by a loop*: `DevNum`, `mode` and `Key` are loop counter, menu
  answer and array index by turns, and the three names of a device are written
  by one driver after the other;
- *timeouts*: two menus count down while keys that are not in the menu make
  them ask again;
- *one cursor, many printers*: a handler prints in the middle of a character,
  a scroll, or a comparison of the cursor that has not been acted upon;
- *boundaries*: `~0ULL + 4096`, the last run of a region, the last cell of the
  screen, the first header of the file, entry 512 of a page table.

`PROJECT.json` lists each hazard at its line, with the properties that cover
it or the reason why none does yet.

## 2. The modules

| module | models | kind |
|---|---|---|
| `Placement` | what finding a place for the kernel promises | abstract specification |
| `KernelPlacement` | lines 278-526, 736-879 | component; implements `Placement` |
| `KernelPlacementProofs` | theorems about `KernelPlacement` | proofs |
| `SegmentLoader` | lines 233-287, 529-557 | component |
| `PageMapping` | lines 1999-2060 | component |
| `KernelImage` | lines 559-576 | composes `SegmentLoader` and `PageMapping` |
| `BootSequence` | lines 23-50, 78-731 | composes the boot with `Placement` |
| `DeviceNames` | lines 987-1341 | component |
| `GraphicsSetup` | lines 890-986, 1343-1994 | component |
| `PrintString` | `graphics.c` 140-811 | component |
| `Interrupts` | `ISR.c`, `ISR_asm.S`, `ISR.h`, the TSS of `system.h`, `Abort` | component |
| `TextConsole` | what printing text promises | abstract specification |
| `Framebuffer` | `graphics.c` 25-138, 794-802 | component; implements `TextConsole` |
| `KernelStart` | `kernel.c`, `drivers.c`, `system.c` 48-54, 202-216, and printing with interruptions, `graphics.c` 46-138, 794-802 | composes the kernel's start with its handlers |
| `KernelStartProofs` | theorems about `KernelStart` | proofs |
| `BootSequenceProofs` | theorems about `BootSequence` | proofs |
| `KernelImageProofs` | theorems about `SegmentLoader`, `PageMapping` and `KernelImage`, which implements `SegmentLoader` | proofs |
| `DeviceNamesProofs` | theorems about `DeviceNames` | proofs |
| `GraphicsSetupProofs` | theorems about `GraphicsSetup` | proofs |
| `InterruptsProofs` | theorems about `Interrupts` | proofs |
| `ConsoleProofs` | theorems about `Framebuffer`, which implements `TextConsole`, and `PrintString` | proofs |
| `MC...` | layouts, contents, tables for TLC | model-checking values |

In every component `pc` is the place in the function, a variable has the name
it has in the source, and an action is the code from one firmware call, or one
turn of a loop, to the next: the points at which somebody else can act.  A
definition that begins with *Slip* in its comment is a plausible mistake, kept
beside the definition it would replace; `PROJECT.json` names for every property
the slip that breaks it.  No specification uses the slips.

### KernelPlacement

Memory is `NumPages` pages.  The firmware's view of each is `owner`
(conventional, reserved, firmware, pool, loader) and its bytes are `content`:
zeros, old bytes that ZeroMem can clear, memory that does not keep what is
written ("stuck", what the comments call wrongly reported as free), and an ELF
image that can or cannot be cleared.  `AllocatePages`, `FreePages` and
`GetMemoryMap` are external: an allocation succeeds exactly on aligned
conventional pages, and with `FirmwareErrors` any of them may fail.
`ActuallyFreeAddress` and `ActuallyFreeAddressByPage` are operators that give
every possible outcome of a scan: the address returned and the map left behind,
which differs when the buffer for the map needed a page of its own
(`PoolGrows`) and was not freed: a scan that finds nothing does not free it, and
a FreePool that fails is printed and the address returned all the same
(805-809, 872-876; `unfreed` remembers those pages).  A region's address is read
after its buffer was freed (line 811); `FreedRead` is what such a read may
return besides.

| action | lines | | action | lines |
|---|---|---|---|---|
| `Claim`, `ZeroAndVerify` | 278-311 | | `Search2`, `Alloc2` | 391-419 |
| `GiveBack`, `TryAddressZero` | 312-330 | | `BringBigGuns` | 427-431 |
| `Search1`, `Alloc1` | 330-363 | | `Search3`, `Alloc3` | 432-462 |
| `Save2`, `Check2` | 365-390 | | `Save4`, `Check4`, `Search4`, `Alloc4` | 464-513 |

A search and the claim that follows it are two actions, so that a
`FirmwareEvent` can take the page found, or return another, between them.

Descriptors come in ascending order, as EDK2 lists them; the UEFI standard does
not say so.  Addresses are modulo `AddrSpace`.

### BootSequence

The two long chains of calls that either go on or fail are the sequences
`OpeningCalls` and `HeaderCalls`: what pools each call takes and returns.
What follows is one action per step.  `MemMapKey` and `MemMap` are "current" or
"stale": any `FirmwareEvent`, and any pool the loader allocates or frees
itself, makes them stale.  `mapFits` says whether the map would still fit the
buffer, which is allocated with the size the map had before.  When the call
that asks for that size returns anything but `EFI_BUFFER_TOO_SMALL` the code
allocates nothing and goes on (624, 645): the map's pointer is then NULL
("none") or the freed buffer of the first attempt, and `sized` is false.
Finding a place is
`Placement!Place` or `GiveUp`; `KernelPlacement` shows that the loops
behave so.  The conversion of errors into messages is left out; a function that
returns an error to `efi_main` leads to the spin of line 48 (`hung`), or
back to the firmware if it was raised before `BootKernel`.

### SegmentLoader

Memory is a map from byte addresses to what is there, so that two passes that
disagree by a byte are seen to.  Allocation may return any of `Places`, holding
any of `Fills`, the latter being what `KernelPlacement` may settle on: zeros,
or the remains of an earlier image.  A header's `infile` is what the file
really holds of the bytes the header promises: the firmware reads that much and
reports success, and line 549 does not compare the number.

### PageMapping and KernelImage

An entry of a page table is the frame it refers to, or `Absent`; `words` is what
each frame would be as a page table, whether it is one or not, since the loop
writes to the frame behind a table that is full.  `calls` is the stack of calls
`MapVirtualPages` makes of itself.

| action | lines |
|---|---|
| `MapVirtualPages` | the call, and the indices (2005-2020) |
| `Walk` | one of the three levels (2022-2046): follow the entry, or take a page, clear it and enter it; when the allocation fails the pointer is NULL and page 0 is cleared and entered |
| `FillEntry` | one turn of the loop (2048-2056): the entry is written wherever it falls, then the call for the rest, if it fell behind the table |
| `Return` | the end of a call, after which the loop of the caller goes on |

`KernelImage` runs `SegmentLoader` and then `PageMapping`, with the physical
pages in common: those the kernel was given are not there for tables.  The kernel
may lie at page 0, which the code asks for (326-330), and which is where a table
goes whose allocation failed.  `At` is
the byte the kernel will find at a virtual address, through the four levels, so
that `ImageFaithful` speaks of the loaded and mapped image as a whole.

The firmware's tables are taken to map the kernel's addresses, if at all, by
pages of 4 KiB: where it has a large page, the walk takes that page for a table.
The attributes of an entry, the write protection switched off before (58-77) and
`invlpg` are left out.  What strays into a frame of the kernel's, or of a table's,
is seen in `strayed`; the properties then claim nothing.

### DeviceNames and GraphicsSetup

These are the two halves of `InitUEFI_GOP`.  A display name is modelled by who
gave it, `[method, wall, controller, driver]`, which is all that the questions
about names turn on; `GetDriverName` and `GetControllerName` are asked in three
languages in turn and `Told` is what comes of it.  In `GraphicsSetup`, `pools`
holds the live pool allocations, `current` the mode every device is in, and
`asked` and `keys` are history variables: what the user chose, and how often a
key was pressed in a menu with a countdown.  The five nearly equal branches of
the code (lines 1432-1950) are one chain of actions with `option` as parameter;
where they differ the action asks for `option`.  The two loops over the
descriptions of modes allocate and free one buffer at a time and are one step.

### Framebuffer

A pixel is modelled by the character and the part of it that it shows, so that
a character cut in half is not mistaken for another.  `Cell` is 8 * scale.
`PrintCharacter` is the loop that paints and the scroll that may follow it, as
one action: nothing else draws.  A porch is part of the model: a line of the
framebuffer is `PixelsPerScanLine` long, and `ScrollUp` counts the pixels of the
screen, as the code does.

### KernelStart

`KernelStart` takes `Framebuffer`'s characters apart.  `printers` is the stack
of those that are printing, `kernel_main` at the bottom, each with the
character and the pixel it has come to and the cursor it has seen; `Strike` puts
a handler on top at any moment after `InitializeISR`.  A handler prints its
report, halts, and when something ends the halt it returns.

| action | lines (`graphics.c`) |
|---|---|
| `PaintPixel` | 87-110; the cursor is read again for every pixel |
| `TestCursor` | 112 and 796; reads the cursor into `seen` |
| `ScrollPixel` | 120-138; the address is the printer's own |
| `StoreCursor` | 117 and 801; stores what follows `seen` |
| `StoreLastRow` | 115 and 799 |

That the cursor compared is the cursor counted up (`seen`), and that the
pixels read it anew, is what an optimising gcc makes of these lines: the stores to the
framebuffer may alias `mainTextDisplaySettings`, so it is read again after
each, and between the comparison and the increment there is no store.  In a
build that reads it twice there (slip `StoreReread`) a handler can push the cursor
off the screen.  What a vector does to stacks and registers is `Interrupts`.

The fonts, and a porch, are left to `Framebuffer`: here a character is `Parts`
pixels wide and one line tall.

### PrintString

The format is a sequence of characters, and both passes over it are turns of a
loop: `CountTurn` for the first, and for the second one action for each thing a
character or a percent sign may lead to.  The sixteen nearly equal pieces of
code that print an integer are three tables, `IntConversions`,
`ShortConversions` and `LongConversions`, of the casts, base and letters each
uses, and one chain of steps: take the argument, look at the sign, count the
places, print them.  Casts are modelled with the widths `ShortBits`, `IntBits`
and `LongBits`; powers are `Power`, the product that the loop of lines 564-565
makes.  A double is what the code asks of it: whether it is below 0, and how
often it can be divided by ten until it is below 1 (`Magnitude`), once for the
float that `%f` casts it to, which may be infinite or 0 where the double is not, and
once for the double itself, which `%g` uses.  Which digits come of the rounded
divisions is left out (`"digit"`).
What `printf`'s letters stand for is stated the other way round from the code,
by the value of the numeral printed (`IsNumeralOf`).

### Interrupts

`InitializeISR` is the sequence of what it makes take effect, executed a step
at a time, so that a vector may be delivered between any two of them.  The
processor is external: `Deliver` does what an x86-64 does with an interrupt
gate, an interrupt stack number, an error code and the masking of NMIs.  The
current stack, how far it is filled, and what each word on it is and whose, are
state, since what the handlers rely on is that they find their own words again.
`contexts` is the stack of handlers at work; each goes through
"entered" (the processor has pushed), "saved" (the macro has), "printed" and
"halted" (both in `Abort`), and "woken" when something ended its single `hlt`.

| code | model |
|---|---|
| `SetInterruptEntry`, `SetNMIInterruptEntry`, ... (`ISR.c` 114-393, 409-487) | `IST`, `ClearsIF`, `HasGate` |
| `TSS64_STRUCT` and its four assignments (`ISR.c` 105-108) | `tss64`, a field later than the processor's |
| `CPU_ISR_MACRO`, `CPU_EXC_MACRO`, `USER_ISR_MACRO` | `Save`, `PusherWords`, `Pops`, `Return` |
| the handlers and `Abort` | `XsaveFaults`, `AbortPrints`, `AbortHalts` |

Whether the firmware leaves interrupts and `xsave` enabled is not in the
loader's or the kernel's hands (neither ever sets them), so both are chosen in
`Init`; where `xsave` is off, `User_ISR_handler` begins with an invalid opcode.

## 3. The runs

| run | what it asks | bounds, and why they are enough |
|---|---|---|
| `placement` | Does the loader own exactly the run it looks at; is the run it settles on its own, aligned and usable; is the known bad address avoided; are buffers returned; does the region search end unless it is misled again and again; does the search implement `Placement`? | Five pages, a kernel of two wanted at page 2: regions below, above and around it, of exactly its size and larger; an address space (32) that wraps just past the memory; errors anywhere, FreePool included, a pool that grows, one firmware event, and a freed buffer that reads as 0, below every region, or as an address past the memory. One event suffices to take a page between search and claim; two would only repeat it. All but liveness is also proved without bounds. |
| `placement_search` | Does the page by page scan stay in its region and reach every usable run above? | Eight pages, every combination of good and stuck pages, five layouts with one to three regions, a quiet firmware: off-by-one errors at both ends of a region show on regions of two to eight pages. |
| `boot` | Are the pointers handed over live, the map's when its size was told; can a stale map get to the kernel; is the kernel loaded before the jump; does the handshake end? | Three pages, as `Placement` is not what is asked about; no bound on firmware events, since the map is only current or stale. |
| `boot_map_filled` | *Fails:* the kernel gets an array of descriptors, when the map's size was told. | As above. |
| `segments` | Do the reads stay inside the allocation; is every byte of the image found at its virtual address, through the page tables; does everything else stay mapped as it was; does the mapping end? | Sixteen pages of four bytes, tables of two entries, kernels of one or two headers, on and off page boundaries, read whole or short, and of up to four pages: with two entries to a table, a kernel of two pages may overrun its table and one of three calls twice. Tables that lie ready and tables that are missing at each level; seven free pages for kernel and tables, page 0 and the ones around the kernel among them; the kernel in the middle of memory or at page 0; any allocation may fail. |
| `console` | Do pixels implement the grid of characters? | 7 by 7 pixels, a porch of one and cells of 2: three rows and columns with one line and one column left over, the line just enough to make up for the porch. Two characters tell a swap from a copy. |
| `conversions` | Which whole numbers are shown by their own numeral; which doubles with all their places; do both passes over the format agree, but for the conversions listed; does printing end inside its string? | Every format of up to four characters of nine, enough for two conversions after one another and for any that is cut off; every number of 4, 5 and 7 bits through every conversion: the widths stand to the octal and decimal places as 16, 32 and 64 do (an int does not fill its last octal digit), and the numbers have up to three places. Doubles below 0 or not, of 0 to 39 places, of 40 to 309 whose float is infinite, on both sides of 256, an infinite one, and one whose float is 0. |
| `names` | Do the names of a device come from one driver; is the Wall of Shame observed; are the interfaces closed? | Two devices, controllers and drivers, which answer as they like each time: enough for one to leave something for the next. |
| `graphics` | Is the kernel told the truth about its framebuffers; is the user's choice honoured; are modes and indices in range; is the scratch memory freed; does an unattended boot pass the menus? | Two devices of one or two modes, every choice of which are 1024x768 and which are direct; a countdown of two and two keys in counting menus: a wrong key, then a right one, or neither. |
| `interrupts` | Does every handler return to what it interrupted; is a stack in use ever used again; can two vectors from 32 up be at work; has every handler shown an error, or one that struck it, before it stops or returns? | One vector for each kind (NMI, breakpoint, double fault, machine check, reserved, user-defined), faults inside handlers, four handlers deep, five events: two suffice for a stack in use to be used again, and four for the handler that was on it to return astray. |
| `kernel` | Does the cursor stay on the screen; is the report of a handler that halts legible, whatever it interrupted; does all printing end? | Three rows of two characters of two pixels: five lines of two characters scroll on a character and on a newline, and so does a report of three. Handlers two deep and three events: a handler interrupted by another, or a halt ended and the interrupted printer resumed, at every pixel. |
| `interrupts_nmi` | *Fails:* an NMI starts on NMI_stack. | As above. |

Every property of a passing run comes with a slip that breaks it.  The other
modules' type invariants are not in the runs, as they say little; most of them
are proved (section 4).

Deadlock is checked in every run: a function that has returned, a hang and the
kernel running are explicit `Finished` steps.

### Fairness

The loader is the only thread, and nothing it calls blocks for ever, so
`WF_vars(LoaderStep)` is what its execution justifies in `KernelPlacement`,
`BootSequence` and `GraphicsSetup`, `WF_vars(Step)` in `PrintString`, and
`WF_imageVars(MapStep)` in `KernelImage`, and
`WF_vars(HandlerStep)` in `Interrupts` and `WF_vars(Run)` in `KernelStart`: a processor that is neither halted nor
out of control executes the handler it is in.  What is delivered to it
(`Deliver`, `Strike`, `Wake`) is not fair.  Firmware events are not fair, nor are
keys: `PressKey` and `KeyError` are outside `LoaderStep`, and `CountDown` is the
step taken when the second has gone by.  In `BootSequence`, `FindPlace` is not
fair either, because the search may go on for ever (section 5).
`MaxEvents` and `MaxKeys` bound events and keys; without a bound on the keys a
user who presses wrong ones for ever holds the menu up for ever, as the code
intends.  That a wrong key does not start the countdown again is the second
part of `TimedMenusEnd`, which does not need the bound.

## 4. What is proved

Every safety invariant and every action property of the runs is proved for every
value of the constants, and so are the refinements; only liveness is not.  Each proof has the same outline: a strengthening `IInv` (its parts
are named after what they know), `Init => IInv`, a lemma `...Keeps` or a step per
action for `IInv /\ [Next]_vars => IInv'`, and the properties from `IInv`.  TLC
checked each `IInv` on the run of its module before it was proved, those apart
that ask for something to exist (a grid, the ways through a tree of tables).

| module | theorem | property | beyond the module's assumption |
|---|---|---|---|
| `KernelPlacement` | `TypeCorrect`, `OwnershipCorrect`, `PlacementCorrect`, `KnownBadCorrect`, `BuffersCorrect` | `TypeOK`, `LoaderOwnsOneRun`, `PlacedInOwnMemory`, `KnownBadNotRetried`, `BuffersReturned` | |
| | `ByPageCorrect` | `ByPageStaysInRegion` | `WholePages`, `FreedReadSteps` |
| | `Refinement` | `ImplementsPlacement` | |
| `BootSequence` | `HandedPointersCorrect`, `MapCorrect`, `KernelCorrect` | `HandedPointersLive`, `NoStaleMapHandedOver`, `KernelLoadedBeforeJump` | |
| `SegmentLoader` | `TypeCorrect` | `TypeOK` | |
| | `LoadsCorrect` | `LoadsInsideAllocation` | `WellFormedTables` |
| `KernelImage` | `ImageImplementsLoader` | `SegmentLoader`'s `Spec` | |
| | `ImageLoadsInside` | `LoadsInsideAllocation` | `WellFormedTables` |
| | `RestCorrect` | `RestAsBefore` | `FirmwareTrees` |
| | `ImageCorrect` | `ImageFaithful` | `WellFormedTables`, `DisjointSegments`, `AlignedPlaces`, `FirmwareTrees` |
| `DeviceNames` | `TypeCorrect`, `NamesCorrect`, `WallCorrect`, `InterfacesCorrect`, `PciNamesCorrect` | `TypeOK`, `NamesFromOneDriver`, `WallNotHeard`, `InterfacesClosed`, `PciNamesStand` | |
| `GraphicsSetup` | `TypeCorrect`, `IndicesCorrect`, `FramebuffersCorrect`, `ChoiceCorrect`, `ScratchCorrect`, `UntimedCorrect` | `TypeOK`, `IndicesInRange`, `FramebuffersTrue`, `ChoiceHonoured`, `ScratchFreed`, `UntimedOnlyIfAttended` | |
| `Interrupts` | `TypeCorrect`, `ReturnsCorrect`, `StacksCorrect`, `UserHandlersCorrect` | `TypeOK`, `ReturnsToInterrupted`, `OwnStacks`, `UserHandlersAlone` | |
| `Framebuffer` | `TypeCorrect` | `TypeOK` | |
| | `ScreenCorrect`, `Refinement` | `ScreenIsText`, `ImplementsTextConsole` | `PorchFits` |
| `PrintString` | `PrintTypeCorrect` | `PrintTypeOK` | `NarrowLongs` |
| | `ArgumentsCorrect` | `ArgumentsInStep` | `ShortFormats` |
| | `NumbersCorrect` | `NumbersFaithful` | `NarrowLongs`, `OctalUneven` |
| | `DoublesCorrect` | `DoublesWhole` | `NarrowLongs` |
| | `StringCorrect` | `LeftInsideConversion`, the safety part of `PrintEnds` | |
| `KernelStart` | `KernelStartTypes`, `CursorStaysOnScreen`, `ReportsLegible` | `TypeOK`, `CursorOnScreen`, `ErrorLegible` | |

Each module states its assumption on the constants as an `ASSUME`, which TLC
evaluates in the module's run.  The conditions in the last column are hypotheses
of the theorem itself, as the component does not ensure them; every run that
checks the property satisfies them.

### KernelPlacement

`PlacementAssumption`: sizes are positive, the memory
ends below the address space, 1 GiB is page aligned and is not the address 0,
~0 is not page aligned, and a freed buffer does not by chance read as 1 GiB
(if it could, `KnownBadNotRetried` would fail by way of line 811).

None of the invariants is inductive by itself.  Ownership
says which run is held at each `pc` in terms of `AllocatedMemory` before it is
tested and `NewAddress` before it is saved, so it needs to know that the two
agree when one takes over from the other, and that an address obtained is
aligned and not ~0.  `Progress` records just that, and that
`OldAllocatedMemory` is 1 GiB from the moment the pages there are given back,
which is what makes the second scan avoid it.  `IInv` is `TypeOK`,
`LoaderOwnsOneRun`, `Progress` and `KnownBadNotRetried` together, and it is
preserved by each action (`ClaimKeeps`, ..., `FirmwareEventKeeps`).  Two lemmas
carry the address arithmetic: `FreeAddressSafe` (a region scan returns ~0, an
address above the one it started from, or what the freed buffer held) and
`FreeAddressByPageSafe` (~0, a higher address, or the next page modulo the
address space): a scan started from 1 GiB cannot return 1 GiB.
For the refinement, a step that claims or releases a run to try it out
maps to a stutter or to the firmware's use of memory (`SearchingRefines`), the
step that finds its run usable to `Place` (`PlacingRefines`), and those that
return an error to `GiveUp` (`FailingRefines`).

`BuffersReturned` adds to `IInv` that no page is the pool's before the first
scan, and what each scan adds to `unfreed` (`BuffersInv`).  `ByPageStaysInRegion` has two hypotheses.  The address space is
whole pages (2^64 is).  And no freed buffer reads as an aligned address
whose run would wrap (`FreedReadSteps`): the sum in the scan's test for the end of
a region is taken modulo the address space, so from such an address the scan
goes on past the end.  TLC shows that it matters: with 60 for what a freed buffer may
read as, in `placement_search`'s 64 bytes of addresses, the property fails.

### BootSequence

`BootAssumption`: the kinds of files, and natural numbers of pages.  `PoolsKnown`
says which pools are live at each call, or between which two sets when the
firmware may refuse to free the program headers or a map, and that the map is
one of them unless it is "none" or "freed", which it cannot be once it was `sized` and allocated; `KernelKnown` carries
`Placement`'s result from the search, through the two tries at the handshake, to
the jump; `MapKnown` has the point of the handshake: the map in the buffer is unfilled,
or as old as the key with it, and `ExitBootServices` succeeds with a current key
only.  `TriesKnown` is needed as the second try may not be followed by a third.
`Placement`'s own steps are used by their definition, not by its refinement.

### SegmentLoader

`IInv` follows what the first pass finds: it bounds the segments it has seen
(`SizedInv`), so that the pages asked for hold them all (`RoomInv`), and memory outside
those pages is as it was (`OutsideInv`).  `WellFormedTables` is what ELF asks of a
header and the code does not test: a segment ends inside the address space and
holds no more bytes of the file than its size in memory.  `LoadsInsideAllocation`
has `FirstIsLowest` for a premise (section 5).

### PageMapping and KernelImage

`FirmwareTrees` is what the paging of x86-64 needs of any tables that keep two addresses
apart, and what the walk relies on: to each table the firmware hands over leads one
way from `cr3` (`Tree`), their frames are not given away again, and frame 0 is none
of them (it may be the kernel's).  It is needed: a table that is entered twice is filled for
the kernel's addresses and seen through others.

`MapInv` says, as long as one allocation at most has failed, and that one while page 0
was not given away (`NothingCleared`), and nothing was written over a table (which is
what the premises of both properties say):

- `TreesInv`: the tables still make a tree, and no frame that may be given away is in it;
- `CallsInv`: each call of `MapVirtualPages` at work has come to the table on the way of
  its first page, what it was asked for ends where the first call's ends, the next
  one begins at the page that did not fit (`CallsGood`), and every page that a call has
  entered is seen at its frame (`Filled`);
- `OneTableInv`: a kernel that does not run over the end of a table never calls again;
- `SeenInv`: no page but the kernel's is seen elsewhere than before.

The tree is what makes a write local, and each of the three lemmas about writes says for
one of them which pages are seen differently after it: `TreeUntouched` (a frame that is no
table), `TreeFilled` (an entry of a table of the lowest level: the pages that lead to this
entry), `TreeGrown` (a new table that comes up empty: none), and page 0 that
serves as a table when an allocation fails is such a one the first time.

`ImageFaithful` joins this to the memory: `BytesInv` says that each byte of each segment
loaded so far is the file's, or what the allocation held, `FitInv` that the pages lie within
the address space.  A segment that overlapped another would be read over it (`DisjointSegments`),
and pages that did not start on a page frame would be mapped shifted (`AlignedPlaces`).
That the kernel's pages do not wrap around the address space is what `AllocateKernel`
has of the firmware: a run of pages ends where memory does.  `ImageImplementsLoader` is a refinement without a mapping:
to `SegmentLoader`, a step of the mapping is a stutter, so that
`ImageLoadsInside` is `LoadsCorrect` carried over.

### DeviceNames

`NamesAssumption`: there is a device.  `NamesFromOneDriver`
and `WallNotHeard` are preserved only if it is known whose names may be there:
none before the PCI method is through, and only the general method's while it
runs (`NamesInv`); otherwise a driver's name dropped and asked for again might
join another's controller name.  `IndexInv` keeps the loops in their lists,
`OpenedInv` says which interface is open at each step.

### GraphicsSetup

`GraphicsAssumption`: there are a device, a mode and a second to wait.  The
variables of `InitUEFI_GOP` serve several purposes in turn (`Key` is a choice of
branch, then of device, then of mode), so the parts of `IInv` say what they are
worth in each phase: before a branch is chosen (`Early`), while devices are
settled one by one (`Settling`), and afterwards (`Late`).  `ResultInv` is the one
that carries truth and choice: every entry of the array written so far (`Filled`) tells
the mode its device is in, and that mode is the one the user asked for; it holds because
each device is set once, which `IndexInv` has.  `AskedInv` says that only the
answer at hand may be outstanding, `PoolInv` what is allocated at each step.

### Interrupts

`InterruptsAssumption`: vectors are bytes, and a handler's code may raise any
exception but a breakpoint; NMI (2) and machine check (18) are not raised by
code.  `IInv` says of every handler at work that its words are within the
stack (`InBounds`: a handler takes four words at most), who may have started, and where
(`Started`), and, unless two have started on one stack, that its words are as
it left them (`Intact`) and that of two handlers on one stack the later one's
are further down (`Apart`).  `Apart` is what makes a push leave `Intact` of the
others alone, and `Started` what makes a switch to a stack in use set `shared`.

### Framebuffer

`FramebufferAssumption`: one column and two rows of characters at least.
`ScreenIsText` is not said of a changing grid but of there being one: `Pictures(frame, g)`
says that the frame shows the grid `g` and nothing where no position is, and
`IInv` that there is a `g`.  Each step takes a picture of `g` to one of what
`TextConsole` makes of `g`: `GridSeen` (the grid the refinement mapping reads off the pixels is that
`g`) turns this into the refinement.  `QuotientUnique` carries the arithmetic of lines,
columns and cells.  `PorchFits` is needed: the scroll copies as many pixels as the screen has, so that the
last row is out of its reach when there is a porch and too few lines are left over
below (section 5).

### PrintString

`ArgumentsInStep` compares the ends of two passes, so `PassesInv` has to remember the first
one: there are the set of positions it stopped at and the count it had at each
(`Turns`), and the second pass stops at the same positions, and has taken or passed
over at each what was counted there (`InStep`), also while it is within a number.
`ShortFormats`: a conversion is two characters at least and the count is a
byte (`graphics.c` 143), so below 512 characters it does not wrap.

`NumbersFaithful` looks at a number once it is printed, so `NumbersInv` says of every
stage what there is of it, in terms of the number that the argument stands for (`Size`,
its absolute value).  After the sign (`Signs`), `value` is `Size`.  While places are
counted, `value_cpy` is what dividing by the base has left and one place was
counted for each division (`PlacesSeen`).  While digits are printed, those so far
are the first ones (`Numeral`) of `Size`, or rather of what it is taken for after a
cast to a signed type (`TakenFor`).  That the digits add up to the number again is
`HornerSteps`, about the quotients by the powers of the base, and `ValueRead` says that
`ValueOf` reads a numeral so; that a misprinted octal is never right by chance
is `OctalOff`.  The casts rest on each width's range being a divisor of a long's
(`WidthKnown`, `SignedFromLong`).

`NumbersCorrect` has two hypotheses.  `NarrowLongs`: `places` is a byte, so a long has to have
fewer than 256 digits (it has 64 bits).  `OctalUneven`: the width of
an int is not a multiple of three (it is 32).  If it were, the bits that the cast in line 696 adds
would begin at a digit's edge, above the digits printed, and nothing would be
misprinted: with ints of six bits TLC finds `NumbersFaithful` violated.

`DoublesWhole` needs the same count for doubles, which may have 256 places and more (1e255 for
`%g`): `TenthsInv`, `WholeInv` and `PointInv` say, stage by stage, that what was printed is the sign and as
many characters as the byte kept of the count (`Kept`), which is all of them exactly if they are fewer than 256.

`StringCorrect` needs of a turn only where it goes (`TurnTo`): `TurnWithin` says from which last
characters a turn of two or three steps over the end.

`Power` and `ValueOf` are recursive functions.  What they compute is proved by induction
over a *set* of numbers (`Induced`, from the library's `WFMin`), as that needs no
theorem with an operator for a parameter: `ProductsExist` and
`ProductsUnique` for the powers, `ReadsUnique` for the value of a numeral.

### KernelStart

`KernelStartAssumption`: two rows at least, and an error report that fits on
the screen with a row to spare.
`CursorOnScreen` is not inductive: a printer that has been interrupted stores
what it saw long ago.  `PrinterSafe` says of every printer on the stack, not
only of the one at work, that what it is about to store follows a cursor that was
not at the end (of the screen for a character, of the last row for a newline);
`RowsOnScreen` has the arithmetic of rows.  A handler that returns needs to be
known not to be `kernel_main` (`PrintersSafe`).

`ErrorLegible` speaks of a report that is finished.  `ReportInv` says, pixel by pixel,
what there is of a report that is being printed: while a character is painted
(`PaintLegible`), before the cursor is stored (`StoreLegible`), and while the
screen scrolls (`ScrollLegible`: each pixel is still in its old place, is
already in the new one, or both).  It is claimed of the printer on top of the stack
only, and those below are `Excused`, because `Strike` marks what it covers; the
spare row is needed so that a report does not scroll its own start away.

### Only model-checked

Liveness (`RegionSearchEnds`, `FoundWhenAhead`, `HandshakeEnds`, `MappingEnds`,
`TimedMenusEnd`, `PrintEnds`, `NeverSilent`, `ReportsEnd`), which is beyond the
prover under fairness, and the absence of deadlock.

## 5. Where comments and code part

Two disagreements are shown by a run each (`findings` in `PROJECT.json`):

1. the kernel may get an unfilled memory map (`boot_map_filled`): the status of
   the GetMemoryMap at line 632 is overwritten;
2. the task state segment has a field `IST0` the processor does not know, so
   that an NMI finds no stack and breakpoints get the machine check's
   (`interrupts_nmi`): "TSS struct is 104 bytes" says `system.c:31`, it is 112.

Others show in a passing run, as an exception its property names:

- the lowest number of each width is printed "-0" and an int with its highest
  bit set wrongly in octal (`Misprinted` in `PrintString`): the tests at lines
  228, 386 and 544 of `graphics.c` ask for 0 and never succeed, and line 696
  casts to a signed int;
- `%s`, `%p`, `%n` and `%G` are counted by the first switch and served by none
  after it, so that the next conversion prints their argument (`Unserved`), and
  a format that ends in `%` is read past its end (`overrun`);
- a double that is infinite counts its places for ever, and so does a finite
  one above 3.4e38 under `%f`, which casts its copy to float (`graphics.c`
  587-591); a whole one above 2^24 is shown as the nearest float, 16777217.0 as
  16777216 (`DoublesWhole` counts the digits, `PrintEnds` excepts the infinite);
- a back porch that reaches the next row's characters breaks scrolling:
  `ScrollUp` counts screen pixels where it should count framebuffer pixels
  (`graphics.c` 128; `PorchFits` is the premise of `Framebuffer`'s properties);
- a FreePool that fails at the end of a scan keeps the buffer and the address
  is returned all the same (805-809, 872-876; `unfreed` in `BuffersReturned`);
- a region's address is read after its buffer was freed (811): as long as that
  misreads as a low address the region search starts again (`MisreadBack` in
  `RegionSearchEnds`);
- a first GetMemoryMap that fails otherwise than EFI_BUFFER_TOO_SMALL leaves
  `MemMap` NULL or freed, and the kernel is started with it if ExitBootServices
  succeeds (624, 645; `sized` in `HandedPointersLive`);
- the remains of an earlier image stay in the .bss of a kernel loaded over
  them (`ImageFaithful`), which line 303 calls safely overwritten;
- a file that is too short leaves a segment whose rest is whatever was there
  (`ImageFaithful`; line 549 has the number of bytes and does not look at it);
- a kernel that does not fit the rest of its page table is mapped right, but
  entries are written to the pages behind the table (`Unharmed` is a premise of
  `ImageFaithful` and `RestAsBefore`; line 2049 comes before the test of 2052);
- when a page table cannot be allocated, page 0 is cleared and serves as one:
  one failure is survived, after a second two tables are the same page
  (`MapIsSound`); with the kernel itself at page 0, the place lines 326-330 ask
  for, already the first clears the kernel's first page (`PageZeroSpare`);
- a first segment that does not start on a page is mapped with its pages
  shifted against its bytes (`Aligned`);
- a file that is no ELF is jumped to without having been loaded (the premise of
  `KernelLoadedBeforeJump`; line 220 has no else branch);
- double fault and machine check share a stack, so that one that strikes
  during the other returns astray (`OwnStacks`, `ReturnsToInterrupted`); a
  second machine check shuts the processor down, as its bit is never cleared;
- between `lgdt` and `lidt` the firmware's gates refer to a table that is gone
  (`TablesMixed`).

Others were met on the way and have no run, because a run would only restate a
line of the source:

- the page by page search never gives up: line 504 tests `AllocatedMemory`,
  which is not ~0ULL, where `NewAddress` is, and the next search starts again
  from the bottom of memory; "Something's up with the system memory" (506) is
  never said;
- the searches start with an address that must be exceeded (lines 429, 793), so
  a region that starts at address 0 is never considered by region;
- "no memory is free anywhere" is said (351-353) although the rest of the
  region that starts with the known bad address was not tried;
- `virt_min` is the lowest segment, segments are placed relative to the first
  header (273, 535): they agree for the repository's linker script, and
  `FirstIsLowest` is a premise of `SegmentLoader`'s properties;
- a device nobody names keeps the names of the last driver asked, not the
  defaults (1235, 1317);
- the error returns of `InitUEFI_GOP` leave their pools allocated, where the
  comment at 891 speaks of giving everything back;
- a name string that could not be allocated is NULL, freeing it fails, and the
  boot ends there with the framebuffers set up (1957-1964);
- a key event without a key stroke ends the boot (1402);
- `InitializeSystem` passes `Memory_Map_Size` for the descriptor size
  (`system.c:50`; "LP->Memory_Map_Descriptor_Size" says `memory.h:9`), and
  `GetMaxMappedPhysicalAddress` shifts the start together with the number of
  pages (`memory.c:63`); nothing calls the walks that would use either;
- after a failed ExitBootServices, when only the memory services may be used,
  the loader prints (650, 664);
- `%g` of a double of 10^255 or more counts its places in eight bits (also in
  `DoublesWhole`);
- a printer that was interrupted takes the cursor back to where it was, and its
  text runs over the report of the handler that has returned;
- vector 8 is given the machine check's entry though `SetDFInterruptEntry`
  exists (`ISR.c` 126, 454);
- `User_ISR_handler` saves the extended state and nothing restores it (493).

## 6. What is not modelled, and the plan

Left out for good: control registers (58-77), the text of messages, build
scripts, the format headers, `aarch64/ISR.c` (empty), `CompareMemory` and
`CopyMemory` (which nothing calls), the paging code that is commented out in
`system.c`, `Kernel_Options` (never set), a segment that ends at 2^64.
`DEBUG_PIOUS` is always defined in the repository and is assumed.

Of what keeps state, only `memory.c` has no module: `InitializeMemory` copies
four values that nothing reads again, because nothing calls the walks over the
map or `AdjustMemMapSize`. In `PrintString` a double is the number of its
places: which digits it is shown with, its fraction and its rounding are left
out. What could still be added: large pages and attributes in `PageMapping`;
the loader's stack and code under the new tables; `LOADER_PARAMS` read by the
kernel after its stack has changed (`kernel.c` 30-55).

The runs are kept few, one per distinct question; the newer ones have
taken the place of shallower ones.  `Interrupts` may grow by the
contents of the GDT entries and by what the handlers' code needs of the stack's
alignment (168 bytes are on it where there is no error code).

A theorem worth proving next is the safety part of `MappingEnds`: that the calls
`MapVirtualPages` makes of itself each begin where the last one's table ended.
