--------------------------- MODULE KernelPlacementProofs ---------------------------
(***************************************************************************)
(* Theorems about KernelPlacement, for every size of memory, every layout  *)
(* and content, and every firmware the assumptions admit.                  *)
(***************************************************************************)
EXTENDS KernelPlacement, TLAPS

LEMMA PageAddress ==
  ASSUME NEW p \in Page
  PROVE  p * PageSize \in Addr
<1>1. p * PageSize <= NumPages * PageSize
  BY PlacementAssumption DEF Page
<1>2. p * PageSize \in Nat
  BY PlacementAssumption DEF Page
<1> QED
  BY <1>1, <1>2, PlacementAssumption DEF Addr

LEMMA Modulo ==
  ASSUME NEW a \in Int
  PROVE  a % AddrSpace \in Addr
<1>1. AddrSpace \in Nat \ {0}
  BY PlacementAssumption
<1> QED
  BY <1>1 DEF Addr

LEMMA NoAddressIsAddr == NoAddress \in Addr /\ NoAddress # KernelBase
  BY PlacementAssumption DEF Addr, NoAddress

(* Giving pages away keeps the map a map. *)
LEMMA GiveType ==
  ASSUME NEW own \in [Page -> Owner], NEW run, NEW who \in Owner
  PROVE  Give(own, run, who) \in [Page -> Owner]
  BY DEF Give

(* A buffer for the memory map never costs the loader a page. *)
LEMMA WithMapBufferKeeps ==
  ASSUME NEW own \in [Page -> Owner], NEW o \in WithMapBuffer(own)
  PROVE  /\ o \in [Page -> Owner]
         /\ PagesOf(o, "loader") = PagesOf(own, "loader")
         /\ Conventional(o) \subseteq Conventional(own)
<1>1. CASE o = own
  BY <1>1
<1>2. CASE o # own
  <2>1. PICK p \in Conventional(own) : o = Give(own, {p}, "pool")
    BY <1>2 DEF WithMapBuffer
  <2> QED
    BY <2>1 DEF Give, Owner, PagesOf, Conventional
<1> QED
  BY <1>1, <1>2

(* What every outcome of a scan of the memory map leaves alone. *)
ScanSafe(own, r) ==
  /\ r.addr \in Addr
  /\ r.owner \in [Page -> Owner]
  /\ PagesOf(r.owner, "loader") = PagesOf(own, "loader")
  /\ r.unfreed \subseteq Page

LEMMA ScanFailuresSafe ==
  ASSUME NEW own \in [Page -> Owner], NEW r \in ScanFailures(own)
  PROVE  ScanSafe(own, r) /\ r.addr = NoAddress
<1>1. PICK o \in WithMapBuffer(own) : r = [addr |-> NoAddress, owner |-> o, unfreed |-> {}]
  BY DEF ScanFailures, WithMapBuffer
<1> QED
  BY <1>1, WithMapBufferKeeps, NoAddressIsAddr DEF ScanSafe

LEMMA ScanOutcomesSafe ==
  ASSUME NEW own \in [Page -> Owner], NEW o \in WithMapBuffer(own),
         NEW found \in SUBSET Addr, NEW misread \in SUBSET Addr,
         NEW r \in ScanOutcomes(own, o, found, misread)
  PROVE  ScanSafe(own, r) /\ (r.addr = NoAddress \/ r.addr \in found \cup misread)
<1>1. CASE found = {}
  BY <1>1, WithMapBufferKeeps, NoAddressIsAddr DEF ScanOutcomes, ScanSafe
<1>2. CASE \E a \in found \cup misread : r = [addr |-> a, owner |-> own, unfreed |-> {}]
  BY <1>2 DEF ScanSafe
<1>3. CASE \E a \in found :
             r = [addr |-> a, owner |-> o,
                  unfreed |-> PagesOf(o, "pool") \ PagesOf(own, "pool")]
  BY <1>3, WithMapBufferKeeps DEF ScanSafe, PagesOf
<1> QED
  BY <1>1, <1>2, <1>3 DEF ScanOutcomes

LEMMA RegionStart ==
  ASSUME NEW own, NEW r \in Regions(own)
  PROVE  PhysicalStart(r) \in Addr
<1>1. r.first \in Page
  BY DEF Regions
<1> QED
  BY <1>1, PageAddress DEF PhysicalStart

(***************************************************************************)
(* ActuallyFreeAddress returns an address above the one it starts from, or *)
(* ~0, or whatever the freed buffer holds.                                 *)
(***************************************************************************)
LEMMA FreeAddressSafe ==
  ASSUME NEW own \in [Page -> Owner], NEW old \in Addr,
         NEW r \in ActuallyFreeAddress(own, old)
  PROVE  /\ ScanSafe(own, r)
         /\ r.addr = NoAddress \/ r.addr > old \/ r.addr \in FreedRead
<1>1. CASE r \in ScanFailures(own)
  BY <1>1, ScanFailuresSafe
<1>2. CASE r \notin ScanFailures(own)
  <2> DEFINE found(o) == {PhysicalStart(q) : q \in FirstOf(Suitable(o, old))}
  <2>1. PICK o \in WithMapBuffer(own) : r \in ScanOutcomes(own, o, found(o), FreedRead)
    BY <1>2 DEF ActuallyFreeAddress
  <2>2. \A a \in found(o) : a \in Addr /\ a > old
    BY RegionStart DEF FirstOf, Suitable
  <2>3. found(o) \in SUBSET Addr /\ FreedRead \in SUBSET Addr
    BY <2>2, PlacementAssumption
  <2> HIDE DEF found
  <2> QED
    BY <2>1, <2>2, <2>3, ScanOutcomesSafe
<1> QED
  BY <1>1, <1>2

(* ActuallyFreeAddressByPage returns ~0, the next page, or a higher start. *)
LEMMA FreeAddressByPageSafe ==
  ASSUME NEW own \in [Page -> Owner], NEW old \in Addr,
         NEW r \in ActuallyFreeAddressByPage(own, old)
  PROVE  /\ ScanSafe(own, r)
         /\ \/ r.addr = NoAddress \/ r.addr > old
            \/ r.addr = (old + PageSize) % AddrSpace
<1>1. CASE r \in ScanFailures(own)
  BY <1>1, ScanFailuresSafe
<1>2. CASE r \notin ScanFailures(own)
  <2> DEFINE found(o) ==
               {DiscoveredAddress(q, old) : q \in FirstOf(SuitableByPage(o, old))}
  <2>1. PICK o \in WithMapBuffer(own) : r \in ScanOutcomes(own, o, found(o), {})
    BY <1>2 DEF ActuallyFreeAddressByPage
  <2>2. (old + PageSize) % AddrSpace \in Addr
    BY Modulo, PlacementAssumption DEF Addr
  <2>3. ASSUME NEW q \in FirstOf(SuitableByPage(o, old))
        PROVE  /\ DiscoveredAddress(q, old) \in Addr
               /\ \/ DiscoveredAddress(q, old) > old
                  \/ DiscoveredAddress(q, old) = (old + PageSize) % AddrSpace
    BY <2>2, RegionStart DEF FirstOf, SuitableByPage, DiscoveredAddress
  <2>4. found(o) \in SUBSET Addr
        /\ \A a \in found(o) : a > old \/ a = (old + PageSize) % AddrSpace
    BY <2>3
  <2> HIDE DEF found
  <2> QED
    BY <2>1, <2>4, ScanOutcomesSafe
<1> QED
  BY <1>1, <1>2

(* A scan's outcome is a record of these three fields. *)
LEMMA ActuallyFreeAddressRecord ==
  ASSUME NEW own, NEW old,
         NEW r \in ActuallyFreeAddress(own, old) \cup ActuallyFreeAddressByPage(own, old),
         NEW more
  PROVE  LET c == [r EXCEPT !.unfreed = @ \cup more]
         IN  c.addr = r.addr /\ c.owner = r.owner /\ c.unfreed = r.unfreed \cup more
<1>1. \E a, o, u : r = [addr |-> a, owner |-> o, unfreed |-> u]
  BY DEF ActuallyFreeAddress, ActuallyFreeAddressByPage, ScanFailures, ScanOutcomes
<1> QED
  BY <1>1

(* The two searches; the second scan is what steps over the bad address. *)
LEMMA SearchByRegionSafe ==
  ASSUME TypeOK, NEW r \in SearchByRegion
  PROVE  /\ ScanSafe(owner, r)
         /\ OldAllocatedMemory = KernelBase => r.addr # KernelBase
<1>0. owner \in [Page -> Owner] /\ NewAddress \in Addr /\ OldAllocatedMemory \in Addr
  BY DEF TypeOK
<1>1. PICK q \in ActuallyFreeAddress(owner, NewAddress) :
        r \in IF q.addr = OldAllocatedMemory
                THEN Rescan(q, ActuallyFreeAddress(q.owner, q.addr)) ELSE {q}
  BY DEF SearchByRegion
<1>2. ScanSafe(owner, q)
  BY <1>0, FreeAddressSafe
<1>3. CASE q.addr = OldAllocatedMemory
  <2>0. PICK s \in ActuallyFreeAddress(q.owner, q.addr) :
          r = [s EXCEPT !.unfreed = @ \cup q.unfreed]
    BY <1>1, <1>3 DEF Rescan
  <2>1. /\ ScanSafe(q.owner, s)
        /\ s.addr = NoAddress \/ s.addr > OldAllocatedMemory \/ s.addr \in FreedRead
    BY <1>0, <1>2, <1>3, FreeAddressSafe DEF ScanSafe
  <2>4. r.addr = s.addr /\ r.owner = s.owner /\ r.unfreed = s.unfreed \cup q.unfreed
    BY <2>0, ActuallyFreeAddressRecord
  <2>2. OldAllocatedMemory = KernelBase => r.addr # KernelBase
    BY <2>1, <2>4, NoAddressIsAddr, PlacementAssumption DEF Addr
  <2> QED
    BY <1>2, <2>1, <2>2, <2>4 DEF ScanSafe
<1>4. CASE q.addr # OldAllocatedMemory
  BY <1>1, <1>2, <1>4
<1> QED
  BY <1>3, <1>4

LEMMA SearchByPageSafe ==
  ASSUME TypeOK, NEW r \in SearchByPage
  PROVE  /\ ScanSafe(owner, r)
         /\ OldAllocatedMemory = KernelBase => r.addr # KernelBase
<1>0. owner \in [Page -> Owner] /\ NewAddress \in Addr /\ OldAllocatedMemory \in Addr
  BY DEF TypeOK
<1>1. PICK q \in ActuallyFreeAddressByPage(owner, NewAddress) :
        r \in IF q.addr = OldAllocatedMemory
                THEN Rescan(q, ActuallyFreeAddressByPage(q.owner, q.addr)) ELSE {q}
  BY DEF SearchByPage
<1>2. ScanSafe(owner, q)
  BY <1>0, FreeAddressByPageSafe
<1>3. CASE q.addr = OldAllocatedMemory
  <2>0. PICK s \in ActuallyFreeAddressByPage(q.owner, q.addr) :
          r = [s EXCEPT !.unfreed = @ \cup q.unfreed]
    BY <1>1, <1>3 DEF Rescan
  <2>1. /\ ScanSafe(q.owner, s)
        /\ \/ s.addr = NoAddress \/ s.addr > OldAllocatedMemory
           \/ s.addr = (OldAllocatedMemory + PageSize) % AddrSpace
    BY <1>0, <1>2, <1>3, FreeAddressByPageSafe DEF ScanSafe
  <2>4. r.addr = s.addr /\ r.owner = s.owner /\ r.unfreed = s.unfreed \cup q.unfreed
    BY <2>0, ActuallyFreeAddressRecord
  <2>2. (KernelBase + PageSize) % AddrSpace = KernelBase + PageSize
    BY PlacementAssumption DEF Addr
  <2>3. OldAllocatedMemory = KernelBase => r.addr # KernelBase
    BY <2>1, <2>2, <2>4, NoAddressIsAddr, PlacementAssumption DEF Addr
  <2> QED
    BY <1>2, <2>1, <2>3, <2>4 DEF ScanSafe
<1>4. CASE q.addr # OldAllocatedMemory
  BY <1>1, <1>2, <1>4
<1> QED
  BY <1>3, <1>4

(* The boot services on a well-formed map. *)
LEMMA AllocatePagesSafe ==
  ASSUME NEW own \in [Page -> Owner], NEW a \in Addr, NEW r \in AllocatePages(own, a)
  PROVE  /\ r.status \in Status /\ r.owner \in [Page -> Owner]
         /\ r.status # "SUCCESS" => r.owner = own
         /\ r.status = "SUCCESS" =>
              /\ CanAllocate(own, a)
              /\ PagesOf(r.owner, "loader") = PagesOf(own, "loader") \cup Run(a)
<1>1. CASE r = [status |-> "SUCCESS", owner |-> Give(own, Run(a), "loader")] /\ CanAllocate(own, a)
  <2>1. r.status = "SUCCESS" /\ r.owner = Give(own, Run(a), "loader")
    BY <1>1
  <2>2. Run(a) \subseteq Page
    BY <1>1 DEF CanAllocate, Conventional, PagesOf
  <2>3. PagesOf(r.owner, "loader") = PagesOf(own, "loader") \cup Run(a)
    BY <2>1, <2>2 DEF Give, PagesOf
  <2>4. r.owner \in [Page -> Owner]
    BY <2>1, GiveType DEF Owner
  <2> QED
    BY <1>1, <2>1, <2>3, <2>4 DEF Status
<1>2. CASE r = [status |-> "NOT_FOUND", owner |-> own] \/ r = [status |-> "ERROR", owner |-> own]
  BY <1>2 DEF Status
<1> QED
  BY <1>1, <1>2 DEF AllocatePages

LEMMA FreePagesSafe ==
  ASSUME NEW own \in [Page -> Owner], NEW a \in Addr, NEW r \in FreePages(own, a)
  PROVE  /\ r.owner \in [Page -> Owner]
         /\ \/ r.status = "ERROR" /\ r.owner = own
            \/ /\ r.status = "SUCCESS"
               /\ PagesOf(r.owner, "loader") = PagesOf(own, "loader") \ Run(a)
<1>1. CASE r = [status |-> "SUCCESS", owner |-> Give(own, Run(a), "conventional")]
  <2>1. PagesOf(r.owner, "loader") = PagesOf(own, "loader") \ Run(a)
    BY <1>1 DEF Give, PagesOf
  <2>2. r.owner \in [Page -> Owner]
    BY <1>1, GiveType DEF Owner
  <2> QED
    BY <1>1, <2>1, <2>2
<1>2. CASE r = [status |-> "ERROR", owner |-> own]
  BY <1>2
<1> QED
  BY <1>1, <1>2 DEF FreePages

------------------------------------------------------------------------------
(***************************************************************************)
(* The inductive invariant: besides the types and the ownership, what the  *)
(* loader's variables are worth at each point.                             *)
(***************************************************************************)
Progress ==
  /\ pc \in {"claim", "zero", "giveBack"} => AllocatedMemory = KernelBase
  /\ pc \in {"tryZero", "search1", "alloc1", "save2", "check2", "search2", "alloc2",
             "bigGuns", "search3", "alloc3", "save4", "check4", "search4", "alloc4"} =>
       OldAllocatedMemory = KernelBase
  /\ pc = "tryZero" => NewAddress = 0
  /\ (pc = "save2" /\ NewAddress # NoAddress) \/ pc = "save4" => NewAddress % PageSize = 0
  /\ pc = "check2" => AllocatedMemory = NewAddress
  /\ pc = "check2" /\ NewAddress # NoAddress => AllocatedMemory % PageSize = 0
  /\ pc \in {"check4", "placed"} => AllocatedMemory % PageSize = 0
  /\ pc = "placed" => Usable(content, AllocatedMemory)

IInv == TypeOK /\ LoaderOwnsOneRun /\ Progress /\ KnownBadNotRetried

THEOREM InitIInv == Init => IInv
<1> SUFFICES ASSUME Init PROVE IInv
  OBVIOUS
<1>1. PICK free \in Layouts :
        owner = [p \in Page |-> IF p \in free THEN "conventional" ELSE "reserved"]
  BY DEF Init
<1>2. TypeOK
  <2>1. owner \in [Page -> Owner]
    BY <1>1 DEF Owner
  <2>2. 0 \in Addr
    BY PlacementAssumption DEF Addr
  <2> QED
    BY <2>1, <2>2, PlacementAssumption DEF Init, TypeOK, PCs, Status
<1>3. PagesOf(owner, "loader") = {}
  BY <1>1 DEF PagesOf
<1>4. LoaderOwnsOneRun
  BY <1>3 DEF LoaderOwnsOneRun, Held, Examining, Obtained, Init
<1>5. Progress /\ KnownBadNotRetried
  BY DEF Init, Progress, KnownBadNotRetried
<1> QED
  BY <1>2, <1>4, <1>5 DEF IInv

(* An attempt to allocate at NewAddress, from a point that holds nothing. *)
LEMMA TryKeeps ==
  ASSUME IInv, NEW to, NEW again,
         pc \in {"tryZero", "alloc1", "alloc2", "alloc3", "alloc4"},
         TryNewAddress(to, again), to \in {"save2", "save4"},
         again \in {"search1", "search2", "search3", "search4"},
         UNCHANGED <<content, AllocatedMemory, OldAllocatedMemory, NewAddress, unfreed, events>>
  PROVE  IInv'
<1>1. PICK r \in AllocatePages(owner, NewAddress) :
        /\ BootStatus' = r.status /\ owner' = r.owner
        /\ pc' = IF r.status = "SUCCESS" THEN to ELSE again
  BY DEF TryNewAddress
<1>2. /\ r.status \in Status /\ r.owner \in [Page -> Owner]
      /\ r.status # "SUCCESS" => r.owner = owner
      /\ r.status = "SUCCESS" =>
           /\ CanAllocate(owner, NewAddress)
           /\ PagesOf(r.owner, "loader") = PagesOf(owner, "loader") \cup Run(NewAddress)
  BY <1>1, AllocatePagesSafe DEF IInv, TypeOK
<1>3. PagesOf(owner, "loader") = {}
  BY DEF IInv, LoaderOwnsOneRun, Held, Examining, Obtained
<1>4. TypeOK'
  BY <1>1, <1>2 DEF IInv, TypeOK, PCs
<1>5. r.status = "SUCCESS" => NewAddress % PageSize = 0 /\ NewAddress # NoAddress
  BY <1>2, PlacementAssumption DEF CanAllocate
<1>6. LoaderOwnsOneRun'
  <2>1. CASE r.status = "SUCCESS"
    <3>1. PagesOf(owner', "loader") = Run(NewAddress)
      BY <1>1, <1>2, <1>3, <2>1
    <3>2. Held' = Run(NewAddress)
      BY <1>1, <1>5, <2>1 DEF Held, Examining, Obtained, Run
    <3> QED
      BY <3>1, <3>2 DEF LoaderOwnsOneRun, PagesOf
  <2>2. CASE r.status # "SUCCESS"
    <3>1. PagesOf(owner', "loader") = {}
      BY <1>1, <1>2, <1>3, <2>2
    <3>2. Held' = {}
      BY <1>1, <2>2 DEF Held, Examining, Obtained
    <3> QED
      BY <3>1, <3>2 DEF LoaderOwnsOneRun, PagesOf
  <2> QED
    BY <2>1, <2>2
<1>7. Progress' /\ KnownBadNotRetried'
  BY <1>1, <1>5 DEF IInv, Progress, KnownBadNotRetried
<1> QED
  BY <1>4, <1>6, <1>7 DEF IInv

(* A turn of a search loop, which keeps the loader without pages. *)
LEMMA SearchKeeps ==
  ASSUME IInv, NEW outcomes, NEW stops, NEW to,
         pc \in {"search1", "search2", "search3", "search4"},
         SearchTurn(outcomes, stops, to),
         to \in {"alloc1", "alloc2", "alloc3", "alloc4"},
         \A r \in outcomes : /\ ScanSafe(owner, r)
                             /\ OldAllocatedMemory = KernelBase => r.addr # KernelBase,
         UNCHANGED <<content, AllocatedMemory, OldAllocatedMemory, BootStatus, events>>
  PROVE  IInv'
<1>1. pc' \in {to, "failed"}
  BY DEF SearchTurn
<1>2. /\ owner' \in [Page -> Owner] /\ NewAddress' \in Addr /\ unfreed' \subseteq Page
      /\ PagesOf(owner', "loader") = PagesOf(owner, "loader")
  BY DEF SearchTurn, ScanSafe, IInv, TypeOK
<1>3. PagesOf(owner, "loader") = {}
  BY DEF IInv, LoaderOwnsOneRun, Held, Examining, Obtained
<1>4. TypeOK'
  BY <1>1, <1>2 DEF IInv, TypeOK, PCs
<1>5. Held' = {}
  BY <1>1 DEF Held, Examining, Obtained
<1>6. LoaderOwnsOneRun'
  BY <1>2, <1>3, <1>5 DEF LoaderOwnsOneRun, PagesOf
<1>7. OldAllocatedMemory = KernelBase
  BY DEF IInv, Progress
<1>8. pc' = to => NewAddress' # KernelBase
  BY <1>7 DEF SearchTurn
<1>9. Progress' /\ KnownBadNotRetried'
  BY <1>1, <1>7, <1>8 DEF Progress, KnownBadNotRetried
<1> QED
  BY <1>4, <1>6, <1>9 DEF IInv

(* The end of a turn that keeps or rejects the run it examined. *)
LEMMA KeepOrRejectKeeps ==
  ASSUME IInv, NEW to, to \in {"search2", "search4"},
         (pc = "check2" /\ NewAddress # NoAddress) \/ pc = "check4",
         KeepPages \/ RejectPages(to),
         UNCHANGED <<content, AllocatedMemory, OldAllocatedMemory, NewAddress, unfreed, events>>
  PROVE  IInv'
<1>1. PagesOf(owner, "loader") = Run(AllocatedMemory)
  BY DEF IInv, LoaderOwnsOneRun, Held, Examining, Obtained
<1>2. CASE KeepPages
  <2>1. TypeOK'
    BY <1>2 DEF IInv, TypeOK, PCs, KeepPages
  <2>2. LoaderOwnsOneRun'
    BY <1>1, <1>2 DEF KeepPages, LoaderOwnsOneRun, Held, Examining, PagesOf, Run
  <2>3. Progress' /\ KnownBadNotRetried'
    BY <1>2 DEF KeepPages, IInv, Progress, KnownBadNotRetried, Usable, VerifyZeroMem,
                CompareELFMAG, Run
  <2> QED
    BY <2>1, <2>2, <2>3 DEF IInv
<1>3. CASE RejectPages(to)
  <2>1. PICK r \in FreePages(owner, AllocatedMemory) :
          /\ owner' = r.owner
          /\ BootStatus' = IF r.status = "SUCCESS" THEN "NOT_FOUND" ELSE r.status
          /\ pc' = IF r.status = "SUCCESS" THEN to ELSE "failed"
    BY <1>3 DEF RejectPages
  <2>2. /\ r.owner \in [Page -> Owner]
        /\ \/ r.status = "ERROR" /\ r.owner = owner
           \/ /\ r.status = "SUCCESS"
              /\ PagesOf(r.owner, "loader") = PagesOf(owner, "loader") \ Run(AllocatedMemory)
    BY FreePagesSafe DEF IInv, TypeOK
  <2>3. TypeOK'
    BY <2>1, <2>2 DEF IInv, TypeOK, PCs, Status
  <2>4. LoaderOwnsOneRun'
    <3>1. CASE r.status = "ERROR"
      BY <1>1, <2>1, <2>2, <3>1 DEF LoaderOwnsOneRun, PagesOf, Run
    <3>2. CASE r.status = "SUCCESS"
      <4>1. PagesOf(owner', "loader") = {}
        BY <1>1, <2>1, <2>2, <3>2
      <4>2. Held' = {}
        BY <2>1, <3>2 DEF Held, Examining, Obtained
      <4> QED
        BY <4>1, <4>2 DEF LoaderOwnsOneRun, PagesOf
    <3> QED
      BY <2>2, <3>1, <3>2
  <2>5. Progress' /\ KnownBadNotRetried'
    BY <2>1, <2>2 DEF IInv, Progress, KnownBadNotRetried
  <2> QED
    BY <2>3, <2>4, <2>5 DEF IInv
<1> QED
  BY <1>2, <1>3

------------------------------------------------------------------------------
LEMMA ClaimKeeps == ASSUME IInv, Claim PROVE IInv'
<1>1. PICK r \in AllocatePages(owner, KernelBase) :
        /\ BootStatus' = r.status /\ owner' = r.owner
        /\ pc' = IF r.status = "SUCCESS" THEN "zero" ELSE "failed"
  BY DEF Claim
<1>2. AllocatedMemory = KernelBase
  BY DEF IInv, Progress, Claim
<1>3. /\ r.status \in Status /\ r.owner \in [Page -> Owner]
      /\ r.status # "SUCCESS" => r.owner = owner
      /\ r.status = "SUCCESS" =>
           PagesOf(r.owner, "loader") = PagesOf(owner, "loader") \cup Run(KernelBase)
  BY AllocatePagesSafe, PlacementAssumption DEF IInv, TypeOK
<1>4. PagesOf(owner, "loader") = {}
  BY DEF Claim, IInv, LoaderOwnsOneRun, Held, Examining, Obtained
<1>5. TypeOK'
  BY <1>1, <1>3 DEF Claim, IInv, TypeOK, PCs
<1>6. LoaderOwnsOneRun'
  <2>1. CASE r.status = "SUCCESS"
    BY <1>1, <1>2, <1>3, <1>4, <2>1
       DEF Claim, LoaderOwnsOneRun, Held, Examining, PagesOf, Run
  <2>2. CASE r.status # "SUCCESS"
    BY <1>1, <1>3, <1>4, <2>2 DEF LoaderOwnsOneRun, Held, Examining, Obtained, PagesOf
  <2> QED
    BY <2>1, <2>2
<1>7. Progress' /\ KnownBadNotRetried'
  BY <1>1, <1>2 DEF Claim, Progress, KnownBadNotRetried
<1> QED
  BY <1>5, <1>6, <1>7 DEF IInv

LEMMA ZeroAndVerifyKeeps == ASSUME IInv, ZeroAndVerify PROVE IInv'
<1>1. content' \in [Page -> Content]
  BY DEF IInv, TypeOK, ZeroAndVerify, ZeroMem, Content
<1>2. TypeOK'
  BY <1>1 DEF ZeroAndVerify, loaderVars, IInv, TypeOK, PCs
<1>3. LoaderOwnsOneRun'
  BY DEF ZeroAndVerify, loaderVars, IInv, LoaderOwnsOneRun, Held, Examining, PagesOf, Run
<1>4. Progress'
  BY PlacementAssumption
     DEF ZeroAndVerify, loaderVars, IInv, Progress, Usable, VerifyZeroMem, CompareELFMAG, Run
<1>5. KnownBadNotRetried'
  BY DEF ZeroAndVerify, KnownBadNotRetried
<1> QED
  BY <1>2, <1>3, <1>4, <1>5 DEF IInv

LEMMA GiveBackKeeps == ASSUME IInv, GiveBack PROVE IInv'
<1>1. PICK r \in FreePages(owner, AllocatedMemory) :
        /\ BootStatus' = r.status /\ owner' = r.owner
        /\ IF r.status = "SUCCESS"
             THEN pc' = "tryZero" /\ OldAllocatedMemory' = AllocatedMemory
             ELSE pc' = "failed" /\ UNCHANGED OldAllocatedMemory
  BY DEF GiveBack
<1>2. /\ r.owner \in [Page -> Owner]
      /\ \/ r.status = "ERROR" /\ r.owner = owner
         \/ /\ r.status = "SUCCESS"
            /\ PagesOf(r.owner, "loader") = PagesOf(owner, "loader") \ Run(AllocatedMemory)
  BY FreePagesSafe DEF IInv, TypeOK
<1>3. AllocatedMemory = KernelBase /\ PagesOf(owner, "loader") = Run(AllocatedMemory)
  BY DEF GiveBack, IInv, Progress, LoaderOwnsOneRun, Held, Examining
<1>4. TypeOK'
  BY <1>1, <1>2, PlacementAssumption DEF GiveBack, IInv, TypeOK, PCs, Status, Addr
<1>5. LoaderOwnsOneRun'
  <2>1. CASE r.status = "ERROR"
    BY <1>1, <1>2, <1>3, <2>1 DEF GiveBack, LoaderOwnsOneRun, PagesOf, Run
  <2>2. CASE r.status = "SUCCESS"
    <3>1. PagesOf(owner', "loader") = {}
      BY <1>1, <1>2, <1>3, <2>2
    <3>2. Held' = {}
      BY <1>1, <2>2 DEF Held, Examining, Obtained
    <3> QED
      BY <3>1, <3>2 DEF LoaderOwnsOneRun, PagesOf
  <2> QED
    BY <1>2, <2>1, <2>2
<1>6. Progress' /\ KnownBadNotRetried'
  BY <1>1, <1>2, <1>3, PlacementAssumption DEF GiveBack, Progress, KnownBadNotRetried
<1> QED
  BY <1>4, <1>5, <1>6 DEF IInv

LEMMA SaveKeeps == ASSUME IInv, Save2 \/ Save4 PROVE IInv'
<1>1. TypeOK'
  BY DEF Save2, Save4, IInv, TypeOK, PCs
<1>2. LoaderOwnsOneRun'
  BY DEF Save2, Save4, IInv, LoaderOwnsOneRun, Held, Examining, Obtained, PagesOf, Run
<1>3. Progress' /\ KnownBadNotRetried'
  BY DEF Save2, Save4, IInv, Progress, KnownBadNotRetried
<1> QED
  BY <1>1, <1>2, <1>3 DEF IInv

LEMMA Check2Keeps == ASSUME IInv, Check2 PROVE IInv'
<1>1. CASE NewAddress # NoAddress
  BY <1>1, KeepOrRejectKeeps DEF Check2
<1>2. CASE NewAddress = NoAddress
  <2>1. pc = "check2" /\ pc' = "bigGuns"
        /\ UNCHANGED <<owner, BootStatus, content, AllocatedMemory, OldAllocatedMemory,
                       NewAddress, unfreed, events>>
    BY <1>2 DEF Check2
  <2>2. TypeOK'
    BY <2>1 DEF IInv, TypeOK, PCs
  <2>3. LoaderOwnsOneRun'
    BY <1>2, <2>1 DEF IInv, LoaderOwnsOneRun, Held, Examining, Obtained, PagesOf
  <2>4. Progress' /\ KnownBadNotRetried'
    BY <2>1 DEF IInv, Progress, KnownBadNotRetried
  <2> QED
    BY <2>2, <2>3, <2>4 DEF IInv
<1> QED
  BY <1>1, <1>2

LEMMA BringBigGunsKeeps == ASSUME IInv, BringBigGuns PROVE IInv'
<1>1. PICK r \in ActuallyFreeAddress(owner, 0) :
        NewAddress' = r.addr /\ owner' = r.owner /\ unfreed' = unfreed \cup r.unfreed
  BY DEF BringBigGuns
<1>2. ScanSafe(owner, r)
  BY FreeAddressSafe, PlacementAssumption DEF IInv, TypeOK, Addr
<1>3. PagesOf(owner, "loader") = {}
  BY DEF BringBigGuns, IInv, LoaderOwnsOneRun, Held, Examining, Obtained
<1>4. TypeOK'
  BY <1>1, <1>2 DEF BringBigGuns, ScanSafe, IInv, TypeOK, PCs, Status
<1>5. LoaderOwnsOneRun'
  BY <1>1, <1>2, <1>3
     DEF BringBigGuns, ScanSafe, LoaderOwnsOneRun, Held, Examining, Obtained, PagesOf
<1>6. Progress' /\ KnownBadNotRetried'
  BY DEF BringBigGuns, IInv, Progress, KnownBadNotRetried
<1> QED
  BY <1>4, <1>5, <1>6 DEF IInv

(* The end of the region by region search leaves the loader without pages. *)
LEMMA Search2Ends ==
  ASSUME IInv, pc = "search2", NewAddress = NoAddress, pc' = "save2",
         UNCHANGED <<owner, NewAddress, content, AllocatedMemory, OldAllocatedMemory,
                     BootStatus, unfreed, events>>
  PROVE  IInv'
<1>1. TypeOK'
  BY DEF IInv, TypeOK, PCs
<1>2. LoaderOwnsOneRun'
  BY DEF IInv, LoaderOwnsOneRun, Held, Examining, Obtained, PagesOf
<1>3. Progress' /\ KnownBadNotRetried'
  BY DEF IInv, Progress, KnownBadNotRetried
<1> QED
  BY <1>1, <1>2, <1>3 DEF IInv

LEMMA SearchesKeep == ASSUME IInv, Search1 \/ Search2 \/ Search3 \/ Search4 PROVE IInv'
<1>0. TypeOK
  BY DEF IInv
<1>1. CASE Search1
  BY <1>0, <1>1, SearchByRegionSafe, SearchKeeps DEF Search1
<1>2. CASE Search2
  BY <1>0, <1>2, SearchByRegionSafe, SearchKeeps, Search2Ends DEF Search2
<1>3. CASE Search3
  BY <1>0, <1>3, SearchByPageSafe, SearchKeeps DEF Search3
<1>4. CASE Search4
  BY <1>0, <1>4, SearchByPageSafe, SearchKeeps DEF Search4
<1> QED
  BY <1>1, <1>2, <1>3, <1>4

LEMMA FirmwareEventKeeps == ASSUME IInv, FirmwareEvent PROVE IInv'
<1>1. PICK p \in Page :
        \/ /\ owner[p] = "conventional"
           /\ owner' = Give(owner, {p}, "firmware")
           /\ UNCHANGED content
        \/ /\ owner[p] = "firmware"
           /\ owner' = Give(owner, {p}, "conventional")
           /\ content' = [content EXCEPT ![p] = IF @ = "zero" THEN "used" ELSE @]
  BY DEF FirmwareEvent
<1>2. owner \in [Page -> Owner] /\ content \in [Page -> Content]
  BY DEF IInv, TypeOK
<1>3. owner' \in [Page -> Owner]
  BY <1>1, <1>2, GiveType DEF Owner
<1>4. content' \in [Page -> Content]
  BY <1>1, <1>2 DEF Content
<1>5. PagesOf(owner', "loader") = PagesOf(owner, "loader")
  BY <1>1, <1>2 DEF Give, PagesOf
<1>6. TypeOK'
  BY <1>3, <1>4, PlacementAssumption DEF FirmwareEvent, loaderVars, IInv, TypeOK
<1>7. LoaderOwnsOneRun'
  BY <1>5 DEF FirmwareEvent, loaderVars, IInv, LoaderOwnsOneRun, Held, Examining, Obtained,
              PagesOf, Run
<1>8. Progress' /\ KnownBadNotRetried'
  BY DEF FirmwareEvent, Done, loaderVars, IInv, Progress, KnownBadNotRetried
<1> QED
  BY <1>6, <1>7, <1>8 DEF IInv

LEMMA StutterKeeps == ASSUME IInv, UNCHANGED vars PROVE IInv'
<1>1. TypeOK'
  BY DEF vars, loaderVars, IInv, TypeOK
<1>2. LoaderOwnsOneRun'
  BY DEF vars, loaderVars, IInv, LoaderOwnsOneRun, Held, Examining, Obtained, PagesOf, Run
<1>3. Progress' /\ KnownBadNotRetried'
  BY DEF vars, loaderVars, IInv, Progress, KnownBadNotRetried, Usable, VerifyZeroMem,
         CompareELFMAG, Run
<1> QED
  BY <1>1, <1>2, <1>3 DEF IInv

THEOREM NextIInv == IInv /\ [Next]_vars => IInv'
<1> SUFFICES ASSUME IInv, [Next]_vars PROVE IInv'
  OBVIOUS
<1>1. CASE Claim BY <1>1, ClaimKeeps
<1>2. CASE ZeroAndVerify BY <1>2, ZeroAndVerifyKeeps
<1>3. CASE GiveBack BY <1>3, GiveBackKeeps
<1>4. CASE TryAddressZero BY <1>4, TryKeeps DEF TryAddressZero
<1>5. CASE Search1 \/ Search2 \/ Search3 \/ Search4 BY <1>5, SearchesKeep
<1>6. CASE Alloc1 BY <1>6, TryKeeps DEF Alloc1
<1>7. CASE Alloc2 BY <1>7, TryKeeps DEF Alloc2
<1>8. CASE Alloc3 BY <1>8, TryKeeps DEF Alloc3
<1>9. CASE Alloc4 BY <1>9, TryKeeps DEF Alloc4
<1>10. CASE Save2 \/ Save4 BY <1>10, SaveKeeps
<1>11. CASE Check2 BY <1>11, Check2Keeps
<1>12. CASE BringBigGuns BY <1>12, BringBigGunsKeeps
<1>13. CASE Check4 BY <1>13, KeepOrRejectKeeps DEF Check4
<1>14. CASE FirmwareEvent BY <1>14, FirmwareEventKeeps
<1>15. CASE Finished \/ UNCHANGED vars BY <1>15, StutterKeeps DEF Finished
<1> QED
  BY <1>1, <1>2, <1>3, <1>4, <1>5, <1>6, <1>7, <1>8, <1>9, <1>10, <1>11, <1>12, <1>13,
     <1>14, <1>15 DEF Next, LoaderStep

THEOREM Inductive == Spec => []IInv
  BY InitIInv, NextIInv, PTL DEF Spec

------------------------------------------------------------------------------
(* Every variable of the search keeps its type: addresses stay in the      *)
(* address space and every page has exactly one owner.                     *)
THEOREM TypeCorrect == Spec => []TypeOK
<1>1. IInv => TypeOK
  BY DEF IInv
<1> QED
  BY <1>1, Inductive, PTL

(***************************************************************************)
(* Whatever the firmware does, the loader owns exactly the run it is       *)
(* looking at (LoaderOwnsOneRun).                                          *)
(***************************************************************************)
THEOREM OwnershipCorrect == Spec => []LoaderOwnsOneRun
<1>1. IInv => LoaderOwnsOneRun
  BY DEF IInv
<1> QED
  BY <1>1, Inductive, PTL

(* The kernel ends in an aligned run of its own that reads as it should. *)
THEOREM PlacementCorrect == Spec => []PlacedInOwnMemory
<1>1. IInv => PlacedInOwnMemory
  BY DEF IInv, Progress, PlacedInOwnMemory, LoaderOwnsOneRun, Held, Examining
<1> QED
  BY <1>1, Inductive, PTL

(* The address that proved bad is never allocated a second time. *)
THEOREM KnownBadCorrect == Spec => []KnownBadNotRetried
<1>1. IInv => KnownBadNotRetried
  BY DEF IInv
<1> QED
  BY <1>1, Inductive, PTL

------------------------------------------------------------------------------
(* The search implements Placement.                                        *)

LEMMA RunStartsInMemory ==
  ASSUME NEW a \in Addr, Run(a) \subseteq Page
  PROVE  a \div PageSize \in Page
<1>1. a \div PageSize \in Int
  BY PlacementAssumption DEF Addr
<1>2. a \div PageSize \in Run(a)
  BY <1>1, PlacementAssumption DEF Run
<1> QED
  BY <1>2

LEMMA InitRefines == ASSUME Init PROVE Abstract!Init
<1>1. PICK free \in Layouts :
        owner = [p \in Page |-> IF p \in free THEN "conventional" ELSE "reserved"]
  BY DEF Init
<1>2. absUsage = [p \in Abstract!Page |-> IF p \in free THEN "free" ELSE "taken"]
  BY <1>1 DEF absUsage, Page, Abstract!Page
<1>3. absOutcome = "searching" /\ absBase = NumPages
  BY DEF Init, absOutcome, absBase, Done
<1> QED
  BY <1>1, <1>2, <1>3 DEF Abstract!Init

(* While the search goes on no page is the kernel's. *)
LEMMA UsageWhileSearching ==
  ASSUME pc # "placed"
  PROVE  absUsage \in [Abstract!Page -> {"free", "taken"}]
  BY DEF absUsage, Page, Abstract!Page

(* A step that does not settle on a run is the firmware's use of memory. *)
LEMMA SearchingRefines ==
  ASSUME ~Done, pc' \notin {"placed", "failed"}
  PROVE  Abstract!Next
<1>1. absOutcome = "searching" /\ absOutcome' = "searching"
  BY DEF absOutcome, Done
<1>2. absBase = NumPages /\ absBase' = NumPages
  BY DEF absBase, Done
<1>3. absUsage' \in [Abstract!Page -> {"free", "taken"}]
  BY DEF absUsage, Page, Abstract!Page
<1> QED
  BY <1>1, <1>2, <1>3 DEF Abstract!Next, Abstract!FirmwareUse

LEMMA FailingRefines ==
  ASSUME ~Done, pc' = "failed"
  PROVE  Abstract!Next
<1>1. absOutcome = "searching" /\ absOutcome' = "failed"
  BY DEF absOutcome, Done
<1>2. absBase = NumPages /\ absBase' = NumPages
  BY DEF absBase, Done
<1>3. absUsage' \in [Abstract!Page -> {"free", "taken"}]
  BY DEF absUsage, Page, Abstract!Page
<1> QED
  BY <1>1, <1>2, <1>3 DEF Abstract!Next, Abstract!GiveUp

LEMMA PlacingRefines ==
  ASSUME IInv, ~Done, Examining, pc' = "placed", UNCHANGED <<owner, AllocatedMemory>>
  PROVE  Abstract!Next
<1> DEFINE b == AllocatedMemory \div PageSize
<1>1. PagesOf(owner, "loader") = Run(AllocatedMemory)
  BY DEF IInv, LoaderOwnsOneRun, Held, Done
<1>2. b \in Abstract!Page
  BY <1>1, RunStartsInMemory DEF PagesOf, IInv, TypeOK, Page, Abstract!Page
<1>3. Abstract!RunFrom(b) = Run(AllocatedMemory)
  BY DEF Abstract!RunFrom, Run
<1>4. absOutcome = "searching" /\ absOutcome' = "placed" /\ absBase' = b
  BY DEF absOutcome, absBase, Done
<1>5. \A q \in Page : absUsage[q] = IF owner[q] \in {"loader", "conventional"}
                                     THEN "free" ELSE "taken"
  BY DEF absUsage, Done
<1>6. Abstract!RunFrom(b) \subseteq {q \in Abstract!Page : absUsage[q] = "free"}
  BY <1>1, <1>3, <1>5 DEF PagesOf, Page, Abstract!Page
<1>7. absUsage' = [q \in Abstract!Page |->
                     IF q \in Abstract!RunFrom(b) THEN "kernel" ELSE absUsage[q]]
  <2>1. \A q \in Page : absUsage'[q] = IF q \in Run(AllocatedMemory) THEN "kernel"
                                        ELSE absUsage[q]
    BY <1>1, <1>5 DEF absUsage, PagesOf
  <2> QED
    BY <1>3, <2>1 DEF absUsage, Page, Abstract!Page
<1> QED
  BY <1>2, <1>4, <1>6, <1>7 DEF Abstract!Next, Abstract!Place

LEMMA StutterRefines ==
  ASSUME UNCHANGED vars
  PROVE  UNCHANGED Abstract!vars
  BY DEF vars, loaderVars, Abstract!vars, absOutcome, absBase, absUsage, Done

(* Only three actions settle on a run, and they leave the map as it is. *)
LEMMA PlacingActions ==
  ASSUME IInv, Next, ~Done, pc' = "placed"
  PROVE  Examining /\ UNCHANGED <<owner, AllocatedMemory>>
<1>1. CASE ZeroAndVerify \/ Check2 \/ Check4
  BY <1>1 DEF ZeroAndVerify, Check2, Check4, KeepPages, RejectPages, Examining, loaderVars
<1>2. CASE Claim \/ GiveBack \/ Save2 \/ Save4 \/ BringBigGuns \/ FirmwareEvent \/ Finished
  BY <1>2 DEF Claim, GiveBack, Save2, Save4, BringBigGuns, FirmwareEvent, Finished, Done
<1>3. CASE TryAddressZero \/ Alloc1 \/ Alloc2 \/ Alloc3 \/ Alloc4
  BY <1>3 DEF TryAddressZero, Alloc1, Alloc2, Alloc3, Alloc4, TryNewAddress
<1>4. CASE Search1 \/ Search2 \/ Search3 \/ Search4
  BY <1>4 DEF Search1, Search2, Search3, Search4, SearchTurn
<1> QED
  BY <1>1, <1>2, <1>3, <1>4 DEF Next, LoaderStep

LEMMA NextRefines == ASSUME IInv, [Next]_vars PROVE [Abstract!Next]_Abstract!vars
<1>1. CASE UNCHANGED vars
  BY <1>1, StutterRefines
<1>2. CASE Next /\ Done
  <2>1. Finished
    BY <1>2 DEF Next, LoaderStep, Done, FirmwareEvent, Claim, ZeroAndVerify, GiveBack,
                TryAddressZero, Search1, Alloc1, Save2, Check2, Search2, Alloc2,
                BringBigGuns, Search3, Alloc3, Save4, Check4, Search4, Alloc4
  <2> QED
    BY <2>1, StutterRefines DEF Finished
<1>3. CASE Next /\ ~Done
  BY <1>3, PlacingActions, PlacingRefines, FailingRefines, SearchingRefines
<1> QED
  BY <1>1, <1>2, <1>3

(***************************************************************************)
(* Every behaviour of the discovery loops is one of Placement: the kernel  *)
(* is placed at most once, in pages that were free until then, and they    *)
(* are nobody else's from then on (ImplementsPlacement).                   *)
(***************************************************************************)
THEOREM Refinement == Spec => ImplementsPlacement
<1>1. Init => Abstract!Init
  BY InitRefines
<1>2. IInv /\ [Next]_vars => [Abstract!Next]_Abstract!vars
  BY NextRefines
<1> QED
  BY <1>1, <1>2, Inductive, PTL DEF Spec, ImplementsPlacement, Abstract!Spec

------------------------------------------------------------------------------
(* The buffers of the memory map.                                          *)

RegionPhase == {"tryZero", "search1", "alloc1", "save2", "check2", "search2", "alloc2"}

(***************************************************************************)
(* The loader comes to the region by region search without a buffer, and a *)
(* scan that keeps its buffer returns ~0, unless FreePool refused it.  The *)
(* first loop never goes on with ~0, the second leaves as soon as it sees  *)
(* it.                                                                     *)
(***************************************************************************)
BuffersInv ==
  /\ pc \in {"claim", "zero", "giveBack"} => PagesOf(owner, "pool") = unfreed
  /\ pc \in {"tryZero", "search1", "alloc1"} => NewAddress # NoAddress
  /\ BuffersReturned

LEMMA FreeAddressReturnsBuffer ==
  ASSUME NEW own, NEW old, NEW r \in ActuallyFreeAddress(own, old), r.addr # NoAddress
  PROVE  PagesOf(r.owner, "pool") = PagesOf(own, "pool") \cup r.unfreed
<1>1. ASSUME NEW o \in WithMapBuffer(own)
      PROVE  PagesOf(own, "pool") \subseteq PagesOf(o, "pool")
  BY DEF WithMapBuffer, Give, PagesOf, Conventional
<1>2. PICK o \in WithMapBuffer(own) :
        \/ r.owner = own /\ r.unfreed = {}
        \/ r.owner = o /\ r.unfreed = PagesOf(o, "pool") \ PagesOf(own, "pool")
  BY DEF ActuallyFreeAddress, ScanFailures, ScanOutcomes
<1> QED
  BY <1>1, <1>2

LEMMA SearchReturnsBuffer ==
  ASSUME OldAllocatedMemory = KernelBase, NEW r \in SearchByRegion, r.addr # NoAddress
  PROVE  PagesOf(r.owner, "pool") = PagesOf(owner, "pool") \cup r.unfreed
<1>1. PICK q \in ActuallyFreeAddress(owner, NewAddress) :
        r \in IF q.addr = OldAllocatedMemory
                THEN Rescan(q, ActuallyFreeAddress(q.owner, q.addr)) ELSE {q}
  BY DEF SearchByRegion
<1>2. CASE q.addr = OldAllocatedMemory
  <2>1. PagesOf(q.owner, "pool") = PagesOf(owner, "pool") \cup q.unfreed
    BY <1>2, FreeAddressReturnsBuffer, NoAddressIsAddr
  <2>2. PICK s \in ActuallyFreeAddress(q.owner, q.addr) :
          r = [s EXCEPT !.unfreed = @ \cup q.unfreed]
    BY <1>1, <1>2 DEF Rescan
  <2>3. r.addr = s.addr /\ r.owner = s.owner /\ r.unfreed = s.unfreed \cup q.unfreed
    BY <2>2, ActuallyFreeAddressRecord
  <2>4. PagesOf(s.owner, "pool") = PagesOf(q.owner, "pool") \cup s.unfreed
    BY <2>3, FreeAddressReturnsBuffer
  <2> QED
    BY <2>1, <2>3, <2>4
<1>3. CASE q.addr # OldAllocatedMemory
  BY <1>1, <1>3, FreeAddressReturnsBuffer
<1> QED
  BY <1>2, <1>3

(* Allocating, freeing and the firmware's events leave the pool alone.      *)
LEMMA AllocatePagesPool ==
  ASSUME NEW own \in [Page -> Owner], NEW a, NEW r \in AllocatePages(own, a)
  PROVE  PagesOf(r.owner, "pool") = PagesOf(own, "pool")
<1>1. r.owner = own \/ (CanAllocate(own, a) /\ r.owner = Give(own, Run(a), "loader"))
  BY DEF AllocatePages
<1> QED
  BY <1>1 DEF PagesOf, Give, CanAllocate, Conventional

LEMMA FreePagesPool ==
  ASSUME NEW own \in [Page -> Owner], NEW a, PagesOf(own, "loader") = Run(a),
         NEW r \in FreePages(own, a)
  PROVE  PagesOf(r.owner, "pool") = PagesOf(own, "pool")
<1>1. r.owner = own \/ r.owner = Give(own, Run(a), "conventional")
  BY DEF FreePages
<1>2. Run(a) \cap PagesOf(own, "pool") = {}
  BY DEF PagesOf
<1> QED
  BY <1>1, <1>2 DEF PagesOf, Give

LEMMA BuffersNext == ASSUME IInv, BuffersInv, [Next]_vars PROVE BuffersInv'
<1>0. owner \in [Page -> Owner] /\ 0 # NoAddress
  BY PlacementAssumption DEF IInv, TypeOK, Addr, NoAddress
<1>1. CASE Claim
  <2>1. PICK r \in AllocatePages(owner, KernelBase) :
          owner' = r.owner /\ pc' = IF r.status = "SUCCESS" THEN "zero" ELSE "failed"
    BY <1>1 DEF Claim
  <2>2. PagesOf(owner', "pool") = unfreed'
    BY <1>0, <1>1, <2>1, AllocatePagesPool DEF Claim, BuffersInv
  <2> QED
    BY <2>1, <2>2 DEF BuffersInv, BuffersReturned, PagesOf
<1>2. CASE ZeroAndVerify
  BY <1>2 DEF ZeroAndVerify, loaderVars, BuffersInv, BuffersReturned, PagesOf
<1>3. CASE GiveBack
  <2>1. PICK r \in FreePages(owner, AllocatedMemory) : owner' = r.owner
    BY <1>3 DEF GiveBack
  <2>3. PagesOf(owner, "loader") = Run(AllocatedMemory)
    BY <1>3 DEF GiveBack, IInv, LoaderOwnsOneRun, Held, Examining
  <2>2. PagesOf(owner', "pool") = unfreed'
    BY <1>0, <1>3, <2>1, <2>3, FreePagesPool DEF GiveBack, BuffersInv
  <2> QED
    BY <1>0, <1>3, <2>2 DEF GiveBack, BuffersInv, BuffersReturned, PagesOf
<1>4. ASSUME NEW to \in {"save2", "save4"}, NEW again \in {"search1", "search2", "search3", "search4"},
             TryNewAddress(to, again), NewAddress' = NewAddress, unfreed' = unfreed,
             again = "search1" => pc \in {"tryZero", "alloc1"},
             (to = "save2" \/ again \in {"search1", "search2"}) => pc \in RegionPhase
      PROVE  BuffersInv'
  <2>1. PICK r \in AllocatePages(owner, NewAddress) :
          owner' = r.owner /\ pc' = IF r.status = "SUCCESS" THEN to ELSE again
    BY <1>4 DEF TryNewAddress
  <2>2. PagesOf(owner', "pool") = PagesOf(owner, "pool")
    BY <1>0, <2>1, AllocatePagesPool
  <2>3. pc' = again => (pc' = "search1" => NewAddress' # NoAddress)
    BY <1>4 DEF BuffersInv
  <2> QED
    BY <1>4, <2>1, <2>2, <2>3 DEF BuffersInv, BuffersReturned, RegionPhase, PagesOf
<1>5. CASE TryAddressZero \/ Alloc1 \/ Alloc2 \/ Alloc3 \/ Alloc4
  BY <1>4, <1>5 DEF TryAddressZero, Alloc1, Alloc2, Alloc3, Alloc4, RegionPhase
<1>6. ASSUME NEW stops, NEW to \in {"alloc1", "alloc2"}, pc \in {"search1", "search2"},
             SearchTurn(SearchByRegion, stops, to), NewAddress # NoAddress,
             to = "alloc1" => stops = {NoAddress}
      PROVE  BuffersInv'
  <2>1. PagesOf(owner, "pool") = unfreed /\ OldAllocatedMemory = KernelBase
    BY <1>6 DEF BuffersInv, BuffersReturned, IInv, Progress
  <2>2. CASE pc' = "failed"
    BY <2>2 DEF BuffersInv, BuffersReturned
  <2>3. CASE pc' # "failed"
    <3>1. PICK r \in SearchByRegion : NewAddress' = r.addr /\ owner' = r.owner
                                      /\ unfreed' = unfreed \cup r.unfreed
                                      /\ pc' = to /\ r.addr \notin stops
      BY <1>6, <2>3 DEF SearchTurn
    <3>2. NewAddress' # NoAddress => PagesOf(owner', "pool") = unfreed'
      BY <2>1, <3>1, SearchReturnsBuffer
    <3> QED
      BY <1>6, <3>1, <3>2 DEF BuffersInv, BuffersReturned, PagesOf
  <2> QED
    BY <2>2, <2>3
<1>7. CASE Search1
  BY <1>6, <1>7 DEF Search1, BuffersInv
<1>8. CASE Search2
  <2>1. CASE NewAddress = NoAddress
    BY <1>8, <2>1 DEF Search2, BuffersInv, BuffersReturned
  <2>2. CASE NewAddress # NoAddress
    BY <1>6, <1>8, <2>2 DEF Search2
  <2> QED
    BY <2>1, <2>2
<1>9. CASE Save2
  BY <1>9 DEF Save2, BuffersInv, BuffersReturned, PagesOf
<1>10. CASE Check2
  <2>1. CASE NewAddress = NoAddress
    BY <1>10, <2>1 DEF Check2, BuffersInv, BuffersReturned
  <2>2. CASE KeepPages
    BY <2>2 DEF KeepPages, BuffersInv, BuffersReturned
  <2>3. CASE NewAddress # NoAddress /\ RejectPages("search2")
    <3>1. PICK r \in FreePages(owner, AllocatedMemory) : owner' = r.owner
      BY <2>3 DEF RejectPages
    <3>4. PagesOf(owner, "loader") = Run(AllocatedMemory)
      BY <1>10, <2>3 DEF Check2, IInv, LoaderOwnsOneRun, Held, Examining
    <3>2. PagesOf(owner', "pool") = unfreed'
      BY <1>0, <1>10, <2>3, <3>1, <3>4, FreePagesPool DEF Check2, BuffersInv, BuffersReturned
    <3>3. pc' \in {"search2", "failed"} /\ NewAddress' = NewAddress
      BY <1>10, <2>3 DEF Check2, RejectPages
    <3> QED
      BY <3>2, <3>3 DEF BuffersInv, BuffersReturned, PagesOf
  <2> QED
    BY <1>10, <2>1, <2>2, <2>3 DEF Check2
<1>11. CASE BringBigGuns \/ Search3 \/ Search4 \/ Save4 \/ Check4
  BY <1>11 DEF BringBigGuns, Search3, Search4, SearchTurn, Save4, Check4, KeepPages,
               RejectPages, BuffersInv, BuffersReturned
<1>12. CASE FirmwareEvent
  <2>1. PICK p \in Page : /\ owner[p] # "pool"
                          /\ \/ owner' = Give(owner, {p}, "firmware")
                             \/ owner' = Give(owner, {p}, "conventional")
    BY <1>12 DEF FirmwareEvent
  <2>2. PagesOf(owner', "pool") = PagesOf(owner, "pool")
    BY <1>0, <2>1 DEF PagesOf, Give
  <2> QED
    BY <1>12, <2>2 DEF FirmwareEvent, loaderVars, BuffersInv, BuffersReturned, PagesOf
<1>13. CASE Finished \/ UNCHANGED vars
  BY <1>13 DEF Finished, vars, loaderVars, BuffersInv, BuffersReturned, PagesOf
<1> QED
  BY <1>1, <1>2, <1>3, <1>5, <1>7, <1>8, <1>9, <1>10, <1>11, <1>12, <1>13
     DEF Next, LoaderStep

(***************************************************************************)
(* Up to the run it finds, the region by region search costs no page but   *)
(* those of the buffers FreePool refused (BuffersReturned).                *)
(***************************************************************************)
THEOREM BuffersCorrect == Spec => []BuffersReturned
<1>1. Init => BuffersInv
  BY DEF Init, BuffersInv, BuffersReturned, PagesOf
<1>2. IInv /\ BuffersInv /\ [Next]_vars => BuffersInv'
  BY BuffersNext
<1>3. BuffersInv => BuffersReturned
  BY DEF BuffersInv
<1> QED
  BY <1>1, <1>2, <1>3, Inductive, PTL DEF Spec

------------------------------------------------------------------------------
(* The page by page scan.                                                  *)

LEMMA Divided ==
  ASSUME NEW n \in Nat \ {0}, NEW x \in Nat
  PROVE  x \div n \in Nat /\ x % n \in 0 .. n - 1 /\ x = n * (x \div n) + (x % n)
  BY SMT

LEMMA QuotientExists ==
  ASSUME NEW n \in Nat \ {0}, NEW x \in Nat
  PROVE  \E k \in Nat, s \in 0 .. n - 1 : s = x % n /\ x = n * k + s
<1>1. PICK k, s : k = x \div n /\ s = x % n
  OBVIOUS
<1>2. k \in Nat /\ s \in 0 .. n - 1 /\ x = n * k + s
  BY <1>1, Divided
<1> QED
  BY <1>1, <1>2

LEMMA Multiple ==
  ASSUME NEW n \in Nat \ {0}, NEW x \in Nat, x % n = 0
  PROVE  \E k \in Nat : x = n * k
<1>1. PICK k \in Nat, s \in 0 .. n - 1 : s = x % n /\ x = n * k + s
  BY QuotientExists
<1>2. x = n * k
  BY <1>1
<1> QED
  BY <1>2

LEMMA QuotientUnique ==
  ASSUME NEW n \in Nat \ {0}, NEW q \in Nat, NEW r \in 0 .. n - 1
  PROVE  (n * q + r) \div n = q /\ (n * q + r) % n = r
<1>1. PICK x \in Nat : x = n * q + r
  BY SMT
<1>2. PICK p \in Nat, s \in 0 .. n - 1 : p = x \div n /\ s = x % n /\ x = n * p + s
  BY <1>1, Divided
<1>3. p = q
  <2>1. n * (p - q) = r - s
    BY <1>1, <1>2, SMT
  <2>2. p > q => n * (p - q) >= n
    BY SMT
  <2>3. p < q => n * (q - p) >= n /\ n * (p - q) = -(n * (q - p))
    BY SMT
  <2> QED
    BY <2>1, <2>2, <2>3, SMT
<1> QED
  BY <1>1, <1>2, <1>3, SMT

LEMMA NoWrap ==
  ASSUME NEW x \in Addr
  PROVE  x % AddrSpace = x
<1>1. AddrSpace \in Nat \ {0} /\ x \in 0 .. AddrSpace - 1 /\ AddrSpace * 0 + x = x
  BY PlacementAssumption DEF Addr
<1> QED
  BY <1>1, QuotientUnique

(* The whole address space is pages, as 2^64 bytes are.                     *)
WholePages == AddrSpace % PageSize = 0

(***************************************************************************)
(* What the scan may start from: an aligned address not so near the end of *)
(* the address space that the sum of NextPageFits wraps.  The loader gets  *)
(* every other address out of the map; what a freed buffer holds it does   *)
(* not look at.                                                            *)
(***************************************************************************)
Steps(a) == a % PageSize = 0 => a + KernelPages * PageSize < AddrSpace
FreedReadSteps == \A a \in FreedRead : Steps(a)

(* Enough pages of a region from page p on: they can be allocated.          *)
LEMMA RegionHolds ==
  ASSUME NEW own, NEW r \in Regions(own), NEW p \in Nat,
         r.first <= p, p + KernelPages <= r.first + r.pages
  PROVE  CanAllocate(own, p * PageSize) /\ Steps(p * PageSize)
<1>1. /\ PageSize \in Nat \ {0} /\ KernelPages \in Nat \ {0} /\ NumPages \in Nat
      /\ NumPages * PageSize < AddrSpace /\ AddrSpace \in Nat
  BY PlacementAssumption
<1>2. /\ r.first \in 0 .. NumPages - 1 /\ r.pages \in 1 .. NumPages
      /\ r.first + r.pages <= NumPages
      /\ r.first .. r.first + r.pages - 1 \subseteq Conventional(own)
  BY <1>1 DEF Regions, Page
<1>3. p * PageSize = PageSize * p + 0 /\ 0 \in 0 .. PageSize - 1
  BY <1>1
<1>4. (p * PageSize) % PageSize = 0 /\ (p * PageSize) \div PageSize = p
  BY <1>1, <1>3, QuotientUnique
<1>5. p .. p + KernelPages - 1 \subseteq Conventional(own)
  BY <1>1, <1>2
<1>6. p * PageSize + KernelPages * PageSize <= NumPages * PageSize
  <2>1. PICK k \in Nat : NumPages = p + KernelPages + k
    <3>1. PICK k : k = NumPages - (p + KernelPages)
      OBVIOUS
    <3>2. k \in Nat /\ NumPages = p + KernelPages + k
      BY <1>1, <1>2, <3>1
    <3> QED
      BY <3>2
  <2>2. NumPages * PageSize = p * PageSize + KernelPages * PageSize + k * PageSize
    BY <1>1, <2>1
  <2>3. k * PageSize \in Nat /\ p * PageSize \in Nat /\ KernelPages * PageSize \in Nat
    BY <1>1
  <2> QED
    BY <2>2, <2>3
<1>7. p * PageSize \in Nat /\ KernelPages * PageSize \in Nat /\ NumPages * PageSize \in Nat
  BY <1>1
<1> QED
  BY <1>1, <1>4, <1>5, <1>6, <1>7 DEF CanAllocate, Run, Steps

(* A start with room for the kernel can be allocated.                       *)
LEMMA RegionStartHolds ==
  ASSUME NEW own, NEW r \in Regions(own), r.pages >= KernelPages
  PROVE  CanAllocate(own, PhysicalStart(r)) /\ Steps(PhysicalStart(r))
<1>1. r.first \in Nat /\ r.first <= r.first /\ r.first + KernelPages <= r.first + r.pages
  BY PlacementAssumption DEF Regions, Page
<1> QED
  BY <1>1, RegionHolds DEF PhysicalStart

(* Unaligned addresses stay unaligned, even when they wrap.                 *)
LEMMA AlignedBefore ==
  ASSUME WholePages, NEW old \in Addr, ((old + PageSize) % AddrSpace) % PageSize = 0
  PROVE  old % PageSize = 0
<1>1. /\ PageSize \in Nat \ {0} /\ AddrSpace \in Nat \ {0} /\ PageSize < AddrSpace
      /\ old \in 0 .. AddrSpace - 1 /\ old \in Nat
  BY PlacementAssumption DEF Addr
<1>2. PICK k \in Nat, s \in 0 .. PageSize - 1 :
        s = old % PageSize /\ old = PageSize * k + s
  BY ONLY <1>1, QuotientExists
<1>3. PICK m \in Nat : AddrSpace = PageSize * m
  BY <1>1, Multiple DEF WholePages
<1>4. CASE old + PageSize < AddrSpace
  <2>1. old + PageSize \in Addr
    BY <1>1, <1>4 DEF Addr
  <2>2. (old + PageSize) % AddrSpace = old + PageSize
    BY <2>1, NoWrap
  <2>3. old + PageSize = PageSize * (k + 1) + s
    BY <1>1, <1>2
  <2>4. (PageSize * (k + 1) + s) % PageSize = s
    BY <1>1, QuotientUnique
  <2> QED
    BY <1>2, <2>2, <2>3, <2>4
<1>5. CASE old + PageSize >= AddrSpace
  <2>1. PICK a \in Nat : a = old + PageSize - AddrSpace
    BY <1>1, <1>5
  <2>2. a \in 0 .. AddrSpace - 1 /\ old + PageSize = AddrSpace * 1 + a
    BY <1>1, <2>1
  <2>3. (old + PageSize) % AddrSpace = a
    BY <1>1, <2>2, QuotientUnique
  <2>4. a = PageSize * (k + 1 - m) + s
    BY <1>1, <1>2, <1>3, <2>1
  <2>5. k + 1 - m \in Nat
    <3>1. k + 1 - m < 0 => PageSize * (m - (k + 1)) >= PageSize
                           /\ PageSize * (m - (k + 1)) = -(PageSize * (k + 1 - m))
      BY <1>1, SMT
    <3>2. PageSize * (k + 1 - m) \in Int
      BY <1>1
    <3> QED
      BY <1>1, <2>4, <3>1, <3>2
  <2>6. (PageSize * (k + 1 - m) + s) % PageSize = s
    BY <1>1, <2>5, QuotientUnique
  <2> QED
    BY <1>2, <2>3, <2>4, <2>6
<1> QED
  BY <1>1, <1>4, <1>5

(***************************************************************************)
(* The next page, when it fits: the bound of the scan, which is a page     *)
(* less than the end of the region but for one byte, is exact.             *)
(***************************************************************************)
LEMMA NextPageHolds ==
  ASSUME WholePages, NEW own, NEW r \in Regions(own), NEW old \in Addr, Steps(old),
         NextPageFits(r, old), ((old + PageSize) % AddrSpace) % PageSize = 0
  PROVE  LET a == (old + PageSize) % AddrSpace IN CanAllocate(own, a) /\ Steps(a)
<1>1. /\ PageSize \in Nat \ {0} /\ AddrSpace \in Nat \ {0} /\ KernelPages \in Nat \ {0}
      /\ NumPages \in Nat /\ NumPages * PageSize < AddrSpace /\ old \in Nat
  BY PlacementAssumption DEF Addr
<1>2. PICK k \in Nat : old = PageSize * k
  <2>1. old % PageSize = 0
    BY AlignedBefore
  <2> QED
    BY <1>1, <2>1, Multiple
<1>3. old + KernelPages * PageSize < AddrSpace
  BY AlignedBefore DEF Steps
<1>4. KernelPages * PageSize \in Nat /\ KernelPages * PageSize >= PageSize
  BY <1>1
<1>5. (old + PageSize) % AddrSpace = (k + 1) * PageSize
  <2>1. old + PageSize \in Addr
    BY <1>1, <1>3, <1>4 DEF Addr
  <2>2. old + PageSize = (k + 1) * PageSize
    BY <1>1, <1>2
  <2> QED
    BY <2>1, <2>2, NoWrap
<1>6. (old + KernelPages * PageSize) % AddrSpace = old + KernelPages * PageSize
  <2>1. old + KernelPages * PageSize \in Addr
    BY <1>1, <1>3, <1>4 DEF Addr
  <2> QED
    BY <2>1, NoWrap
<1>7. /\ r.first \in Nat /\ r.pages \in Nat \ {0} /\ r.first + r.pages <= NumPages
  BY <1>1 DEF Regions, Page
<1>8. PICK e \in Nat : e = r.first + r.pages
  BY <1>7
<1>9. PhysicalEnd(r) = e * PageSize - (PageSize - 1)
  <2>1. r.first * PageSize + r.pages * PageSize - (PageSize - 1) = e * PageSize - (PageSize - 1)
    BY <1>1, <1>7, <1>8
  <2>2. e * PageSize <= NumPages * PageSize /\ e * PageSize >= PageSize
    <3>1. PICK d \in Nat : NumPages = e + d
      <4>1. PICK d : d = NumPages - e
        OBVIOUS
      <4>2. d \in Nat /\ NumPages = e + d
        BY <1>1, <1>7, <1>8, <4>1
      <4> QED
        BY <4>2
    <3>2. NumPages * PageSize = e * PageSize + d * PageSize /\ d * PageSize \in Nat
            /\ e * PageSize \in Nat
      BY <1>1, <3>1
    <3>3. e >= 1
      BY <1>7, <1>8
    <3>4. e * PageSize >= PageSize
      BY <1>1, <3>3
    <3> QED
      BY <3>2, <3>4
  <2>3. e * PageSize \in Nat /\ NumPages * PageSize \in Nat
    BY <1>1
  <2>4. e * PageSize - (PageSize - 1) \in Addr
    BY <1>1, <2>2, <2>3 DEF Addr
  <2> QED
    BY <2>1, <2>4, NoWrap DEF PhysicalEnd, PhysicalStart
<1>10. r.first <= k + 1
  <2>1. PageSize * k >= r.first * PageSize
    BY <1>2 DEF NextPageFits, PhysicalStart
  <2>2. k < r.first => PageSize * (r.first - k) >= PageSize
                       /\ PageSize * (r.first - k) = r.first * PageSize - PageSize * k
    BY <1>1, <1>7, SMT
  <2>3. PageSize * k \in Nat /\ r.first * PageSize \in Nat
    BY <1>1, <1>7
  <2> QED
    BY <1>1, <1>7, <2>1, <2>2, <2>3
<1>11. k + 1 + KernelPages <= r.first + r.pages
  <2>1. PageSize * k + KernelPages * PageSize < e * PageSize - (PageSize - 1)
    BY <1>2, <1>6, <1>9 DEF NextPageFits
  <2>2. PICK c \in Nat : c = k + 1 + KernelPages
    BY <1>1
  <2>3. c * PageSize = PageSize * k + KernelPages * PageSize + PageSize
    BY <1>1, <2>2
  <2>4. c > e => PageSize * (c - e) >= PageSize
                 /\ PageSize * (c - e) = c * PageSize - e * PageSize
    BY <1>1, SMT
  <2>5. c * PageSize \in Nat /\ e * PageSize \in Nat /\ PageSize * k \in Nat
    BY <1>1
  <2> QED
    BY <1>1, <1>4, <1>8, <2>1, <2>2, <2>3, <2>4, <2>5
<1> QED
  BY <1>5, <1>10, <1>11, RegionHolds

(* What a scan returns is ~0 or an address at which the kernel fits into   *)
(* the map the scan leaves.                                                *)
LEMMA ScanByPageHolds ==
  ASSUME WholePages, NEW own \in [Page -> Owner], NEW old \in Addr, Steps(old),
         NEW r \in ActuallyFreeAddressByPage(own, old)
  PROVE  Steps(r.addr) /\ (r.addr % PageSize = 0 => CanAllocate(r.owner, r.addr))
<1>0. NoAddress % PageSize # 0
  BY PlacementAssumption
<1>1. CASE r \in ScanFailures(own)
  BY <1>0, <1>1, ScanFailuresSafe DEF Steps
<1>2. CASE r \notin ScanFailures(own)
  <2> DEFINE found(o) ==
               {DiscoveredAddress(q, old) : q \in FirstOf(SuitableByPage(o, old))}
  <2>1. PICK o \in WithMapBuffer(own) : r \in ScanOutcomes(own, o, found(o), {})
    BY <1>2 DEF ActuallyFreeAddressByPage
  <2>2. CASE r.addr = NoAddress
    BY <1>0, <2>2 DEF Steps
  <2>3. CASE r.addr # NoAddress
    <3>1. r.owner \in {own, o} /\ r.addr \in found(o)
      BY <2>1, <2>3 DEF ScanOutcomes
    <3>2. PICK q \in FirstOf(SuitableByPage(o, old)) : r.addr = DiscoveredAddress(q, old)
      BY <3>1
    <3>3. q \in Regions(o) /\ q.pages >= KernelPages
      BY DEF FirstOf, SuitableByPage
    <3>4. ASSUME r.addr % PageSize = 0
          PROVE  CanAllocate(o, r.addr) /\ Steps(r.addr)
      <4>1. CASE NextPageFits(q, old)
        BY <3>2, <3>3, <3>4, <4>1, NextPageHolds DEF DiscoveredAddress
      <4>2. CASE ~NextPageFits(q, old)
        BY <3>2, <3>3, <4>2, RegionStartHolds DEF DiscoveredAddress
      <4> QED
        BY <4>1, <4>2
    <3>5. Conventional(o) \subseteq Conventional(own)
      BY WithMapBufferKeeps
    <3> QED
      BY <3>1, <3>4, <3>5 DEF CanAllocate, Steps
  <2> QED
    BY <2>2, <2>3
<1> QED
  BY <1>1, <1>2

LEMMA SearchByPageHolds ==
  ASSUME WholePages, TypeOK, Steps(NewAddress), NEW r \in SearchByPage
  PROVE  Steps(r.addr) /\ (r.addr % PageSize = 0 => CanAllocate(r.owner, r.addr))
<1>0. owner \in [Page -> Owner] /\ NewAddress \in Addr
  BY DEF TypeOK
<1>1. PICK q \in ActuallyFreeAddressByPage(owner, NewAddress) :
        r \in IF q.addr = OldAllocatedMemory
                THEN Rescan(q, ActuallyFreeAddressByPage(q.owner, q.addr)) ELSE {q}
  BY DEF SearchByPage
<1>2. q.owner \in [Page -> Owner] /\ q.addr \in Addr
  BY <1>0, FreeAddressByPageSafe DEF ScanSafe
<1>3. Steps(q.addr) /\ (q.addr % PageSize = 0 => CanAllocate(q.owner, q.addr))
  BY <1>0, ScanByPageHolds
<1>4. CASE q.addr = OldAllocatedMemory
  <2>1. PICK s \in ActuallyFreeAddressByPage(q.owner, q.addr) :
          r = [s EXCEPT !.unfreed = @ \cup q.unfreed]
    BY <1>1, <1>4 DEF Rescan
  <2>2. r.addr = s.addr /\ r.owner = s.owner
    BY <2>1, ActuallyFreeAddressRecord
  <2> QED
    BY <1>2, <1>3, <2>2, ScanByPageHolds
<1>5. CASE q.addr # OldAllocatedMemory
  BY <1>1, <1>3, <1>5
<1> QED
  BY <1>4, <1>5

(* The region by region scan from 0 that the page by page search starts at. *)
LEMMA FirstRegionSteps ==
  ASSUME FreedReadSteps, NEW own \in [Page -> Owner],
         NEW r \in ActuallyFreeAddress(own, 0)
  PROVE  Steps(r.addr)
<1>0. NoAddress % PageSize # 0
  BY PlacementAssumption
<1>1. CASE r.addr = NoAddress \/ r.addr \in FreedRead
  BY <1>0, <1>1 DEF Steps, FreedReadSteps
<1>2. CASE r.addr # NoAddress /\ r.addr \notin FreedRead
  <2> DEFINE found(o) == {PhysicalStart(q) : q \in FirstOf(Suitable(o, 0))}
  <2>1. r \notin ScanFailures(own)
    BY <1>2, ScanFailuresSafe
  <2>2. PICK o \in WithMapBuffer(own) : r \in ScanOutcomes(own, o, found(o), FreedRead)
    BY <2>1 DEF ActuallyFreeAddress
  <2>3. r.addr \in found(o)
    BY <1>2, <2>2 DEF ScanOutcomes
  <2>4. PICK q \in Suitable(o, 0) : r.addr = PhysicalStart(q)
    BY <1>2, <2>3 DEF FirstOf
  <2> QED
    BY <2>4, RegionStartHolds DEF Suitable
<1> QED
  BY <1>1, <1>2

(* The address at hand is one to step from all through this phase.          *)
ByPageInv ==
  /\ ByPagePhase => Steps(NewAddress)
  /\ ByPageStaysInRegion

LEMMA ByPageNext ==
  ASSUME WholePages, FreedReadSteps, IInv, ByPageInv, [Next]_vars
  PROVE  ByPageInv'
<1>0. TypeOK
  BY DEF IInv
<1>1. ASSUME pc \in {"search3", "search4"}, NEW stops, NEW to \in {"alloc3", "alloc4"},
             SearchTurn(SearchByPage, stops, to)
      PROVE  ByPageInv'
  <2>1. CASE pc' = "failed"
    BY <2>1 DEF ByPageInv, ByPagePhase, ByPageStaysInRegion
  <2>2. CASE pc' # "failed"
    <3>1. PICK r \in SearchByPage : NewAddress' = r.addr /\ owner' = r.owner /\ pc' = to
      BY <1>1, <2>2 DEF SearchTurn
    <3>2. Steps(r.addr) /\ (r.addr % PageSize = 0 => CanAllocate(r.owner, r.addr))
      BY <1>0, <1>1, SearchByPageHolds DEF ByPageInv, ByPagePhase
    <3>3. (ByPagePhase => Steps(NewAddress))'
      BY <3>1, <3>2 DEF Steps
    <3>4. ByPageStaysInRegion'
      BY <3>1, <3>2 DEF ByPageStaysInRegion, CanAllocate, Run, Conventional, PagesOf
    <3> QED
      BY <3>3, <3>4 DEF ByPageInv
  <2> QED
    BY <2>1, <2>2
<1>2. CASE Search3 \/ Search4
  BY <1>1, <1>2 DEF Search3, Search4
<1>3. CASE BringBigGuns
  <2>1. PICK r \in ActuallyFreeAddress(owner, 0) : NewAddress' = r.addr
    BY <1>3 DEF BringBigGuns
  <2>2. Steps(NewAddress')
    BY <1>0, <2>1, FirstRegionSteps DEF TypeOK
  <2> QED
    BY <1>3, <2>2 DEF BringBigGuns, ByPageInv, ByPageStaysInRegion, Steps
<1>4. CASE Alloc3 \/ Alloc4
  BY <1>4 DEF Alloc3, Alloc4, TryNewAddress, ByPageInv, ByPagePhase, ByPageStaysInRegion, Steps
<1>5. CASE Save4 \/ Check4
  BY <1>5 DEF Save4, Check4, KeepPages, RejectPages, ByPageInv, ByPagePhase,
              ByPageStaysInRegion, Steps
<1>6. CASE Claim \/ ZeroAndVerify \/ GiveBack \/ TryAddressZero \/ Search1 \/ Alloc1
             \/ Save2 \/ Check2 \/ Search2 \/ Alloc2
  <2>1. pc' \notin {"search3", "alloc3", "save4", "check4", "search4", "alloc4"}
    BY <1>6 DEF Claim, ZeroAndVerify, GiveBack, TryAddressZero, Search1, Alloc1, Save2, Check2,
                Search2, Alloc2, SearchTurn, TryNewAddress, KeepPages, RejectPages
  <2> QED
    BY <2>1 DEF ByPageInv, ByPagePhase, ByPageStaysInRegion
<1>7. CASE FirmwareEvent
  <2>1. events' # 0 /\ pc' = pc /\ NewAddress' = NewAddress
    BY <1>0, <1>7 DEF FirmwareEvent, loaderVars, TypeOK
  <2> QED
    BY <2>1 DEF ByPageInv, ByPagePhase, ByPageStaysInRegion, Steps
<1>8. CASE Finished \/ UNCHANGED vars
  BY <1>8 DEF Finished, vars, loaderVars, ByPageInv, ByPagePhase, ByPageStaysInRegion, Steps,
              CanAllocate, Run, Conventional, PagesOf
<1> QED
  BY <1>2, <1>3, <1>4, <1>5, <1>6, <1>7, <1>8 DEF Next, LoaderStep

(***************************************************************************)
(* The page by page scan stays inside its region, if the freed buffers the *)
(* search reads do not hold an aligned address at the very end of the      *)
(* address space: from there the sum of its bound would wrap.              *)
(***************************************************************************)
THEOREM ByPageCorrect ==
  ASSUME WholePages, FreedReadSteps
  PROVE  Spec => []ByPageStaysInRegion
<1>1. Init => ByPageInv
  BY DEF Init, ByPageInv, ByPagePhase, ByPageStaysInRegion
<1>2. IInv /\ ByPageInv /\ [Next]_vars => ByPageInv'
  BY ByPageNext
<1>3. ByPageInv => ByPageStaysInRegion
  BY DEF ByPageInv
<1> QED
  BY <1>1, <1>2, <1>3, Inductive, PTL DEF Spec

==============================================================================
