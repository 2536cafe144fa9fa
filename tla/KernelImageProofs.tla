-------------------------- MODULE KernelImageProofs --------------------------
(***************************************************************************)
(* The kernel where it will run, proved for every kernel file, every       *)
(* layout of memory and page tables of any size:                           *)
(*   - the two passes over the program headers (SegmentLoader) agree, and  *)
(*     nothing is loaded outside of the pages they asked for;              *)
(*   - what MapVirtualPages leaves of the firmware's page tables;          *)
(*   - what is to be read at the kernel's addresses in the end.            *)
(***************************************************************************)
EXTENDS KernelImage, SequenceTheorems, TLAPS

------------------------------------------------------------------------------
(***************************************************************************)
(* Kernels that ELF calls well-formed: no segment runs past the end of the *)
(* address space, and none has more bytes in the file than in memory.      *)
(***************************************************************************)
WellFormedTables ==
  \A t \in Tables : \A k \in 1 .. Len(t) :
    t[k].load => /\ t[k].vaddr + t[k].memsz < AddrSpace
                 /\ t[k].filesz <= t[k].memsz

LEMMA Divided ==
  ASSUME NEW x \in Int, NEW n \in Nat \ {0}
  PROVE  /\ x \div n \in Int /\ (x % n) \in 0 .. n - 1
         /\ x = n * (x \div n) + (x % n)
         /\ x >= 0 => x \div n \in Nat
OBVIOUS

(* A number below AddrSpace is its own remainder. *)
LEMMA NoWrap == ASSUME NEW x \in Addr PROVE (x % AddrSpace) = x
BY LoaderAssumption DEF Addr

LEMMA Wrapped == ASSUME NEW x \in Int PROVE (x % AddrSpace) \in Addr
BY LoaderAssumption DEF Addr

(* Adding before or after wrapping is the same. *)
LEMMA WrapTwice ==
  ASSUME NEW x \in Int, NEW y \in Int
  PROVE  (((x % AddrSpace) + y) % AddrSpace) = ((x + y) % AddrSpace)
<1>1. PICK n \in Nat \ {0} : n = AddrSpace
  BY LoaderAssumption
<1>2. PICK q \in Int, r \in 0 .. n - 1 : x = n * q + r /\ r = (x % n)
  BY Divided
<1>3. PICK z \in Int : z = r + y
  OBVIOUS
<1>4. PICK p \in Int, s \in 0 .. n - 1 : z = n * p + s /\ s = (z % n)
  BY Divided
<1>5. PICK w \in Int : w = x + y
  OBVIOUS
<1>6. PICK m \in Int, t \in 0 .. n - 1 : w = n * m + t /\ t = (w % n)
  BY Divided
<1>7. n * (m - (q + p)) = s - t
  <2>1. n * m + t = n * q + n * p + s
    BY <1>2, <1>3, <1>4, <1>5, <1>6
  <2>2. n * (m - (q + p)) = n * m - n * q - n * p
    OBVIOUS
  <2> QED BY <2>1, <2>2
<1>8. PICK d \in Int : d = m - (q + p)
  OBVIOUS
<1>9. s = t
  <2>1. ASSUME d >= 1 PROVE n * d >= n
    BY <2>1
  <2>2. ASSUME d <= -1 PROVE n * d <= -n
    BY <2>2
  <2> QED BY <1>7, <1>8, <2>1, <2>2
<1> QED BY <1>1, <1>2, <1>3, <1>4, <1>5, <1>6, <1>9

(* A file of size bytes fits in the pages it takes. *)
LEMMA PagesSuffice ==
  ASSUME NEW size \in Nat
  PROVE  /\ SizeToPages(size) \in Nat
         /\ SizeToPages(size) * PageSize >= size
<1>1. PICK n \in Nat \ {0} : n = PageSize
  BY LoaderAssumption
<1>2. PICK q \in Nat, r \in 0 .. n - 1 :
        size = n * q + r /\ r = (size % n) /\ q = size \div n
  BY Divided
<1>3. CASE r = 0
  <2>1. SizeToPages(size) = q
    BY <1>1, <1>2, <1>3 DEF SizeToPages
  <2> QED BY <1>1, <1>2, <1>3, <2>1
<1>4. CASE r # 0
  <2>1. SizeToPages(size) = q + 1
    BY <1>1, <1>2, <1>4 DEF SizeToPages
  <2>2. (q + 1) * n = n * q + n
    BY <1>2
  <2> QED BY <1>1, <1>2, <2>1, <2>2
<1> QED BY <1>3, <1>4

(* The bytes from an address on, the address wrapped or not. *)
LEMMA BytesMember ==
  ASSUME NEW a \in Int, NEW n \in Int, NEW k \in Int, 0 <= k, k < n
  PROVE  ((a + k) % AddrSpace) \in Bytes(a, n)
BY DEF Bytes

------------------------------------------------------------------------------
(***************************************************************************)
(* Types.                                                                  *)
(***************************************************************************)
LEMMA HeaderTypes ==
  ASSUME TypeOK
  PROVE  /\ headers \in Seq(Header) /\ headers # <<>> /\ Len(headers) \in Nat \ {0}
         /\ \A s \in 1 .. Len(headers) :
              /\ headers[s] \in Header
              /\ headers[s].vaddr \in Addr /\ headers[s].memsz \in Addr
              /\ headers[s].filesz \in Addr /\ headers[s].infile \in Addr
              /\ headers[s].infile <= headers[s].filesz
<1>1. headers \in Tables
  BY DEF TypeOK
<1>2. headers \in Seq(Header) /\ headers # <<>>
  BY <1>1, LoaderAssumption
<1>3. \A s \in 1 .. Len(headers) : headers[s].infile <= headers[s].filesz
  BY <1>1, LoaderAssumption
<1>4. \A s \in 1 .. Len(headers) : headers[s] \in Header
  BY <1>2
<1> QED BY <1>2, <1>3, <1>4 DEF Header

LEMMA InitType == Init => TypeOK
<1> SUFFICES ASSUME Init PROVE TypeOK
  OBVIOUS
<1>1. AddrSpace - 1 \in Addr /\ 0 \in Addr
  BY LoaderAssumption DEF Addr
<1>2. headers \in Seq(Header) \ {<<>>}
  BY LoaderAssumption DEF Init
<1>3. i \in 1 .. Len(headers) + 1
  BY <1>2 DEF Init
<1> QED BY <1>1, <1>3 DEF Init, TypeOK

LEMMA NextType == ASSUME TypeOK, [Next]_vars PROVE TypeOK'
<1> USE HeaderTypes
<1>1. CASE SizeSegment
  <2>1. i' \in 1 .. Len(headers') + 1
    BY <1>1 DEF SizeSegment, TypeOK
  <2>2. SegmentEnd \in Addr
    <3>1. Header_i.vaddr + Header_i.memsz \in Int
      BY <1>1 DEF SizeSegment, TypeOK, Header_i, Addr
    <3> QED BY <3>1, Wrapped DEF SegmentEnd
  <2>3. Header_i.vaddr \in Addr
    BY <1>1 DEF SizeSegment, TypeOK, Header_i
  <2> QED BY <1>1, <2>1, <2>2, <2>3 DEF SizeSegment, TypeOK
<1>2. CASE Allocate
  <2>1. pages' \in Nat
    <3>1. virt_size - virt_min \in Int
      BY DEF TypeOK, Addr
    <3>2. ((virt_size - virt_min) % AddrSpace) \in Nat
      BY <3>1, Wrapped DEF Addr
    <3> QED BY <1>2, <3>2, PagesSuffice DEF Allocate
  <2>2. memory' \in [Addr -> {Elsewhere, fill'} \cup (Nat \X Addr)]
    BY <1>2 DEF Allocate, TypeOK
  <2>3. i' \in 1 .. Len(headers') + 1
    BY <1>2 DEF Allocate, TypeOK
  <2> QED BY <1>2, <2>1, <2>2, <2>3 DEF Allocate, TypeOK
<1>3. CASE LoadSegment
  <2>1. i' \in 1 .. Len(headers') + 1
    <3>1. i \in 1 .. Len(headers) /\ headers' = headers /\ i' \in {i, i + 1}
      BY <1>3 DEF LoadSegment, TypeOK
    <3>2. PICK l \in Nat : l = Len(headers)
      BY HeaderTypes
    <3>3. i' \in 1 .. l + 1
      BY ONLY <3>1, <3>2
    <3> QED BY <3>1, <3>2, <3>3
  <2>2. memory' \in [Addr -> {Elsewhere, fill'} \cup (Nat \X Addr)]
    <3>1. SectionAddress \in Addr
      <4>1. AllocatedMemory \in Addr
        BY LoaderAssumption DEF TypeOK, Addr
      <4>2. i \in 1 .. Len(headers)
        BY <1>3 DEF LoadSegment, TypeOK
      <4>3. Header_i.vaddr \in Addr /\ headers[1].vaddr \in Addr
        BY <4>2 DEF Header_i
      <4>4. AllocatedMemory + (Header_i.vaddr - headers[1].vaddr) \in Int
        BY <4>1, <4>3 DEF Addr
      <4> QED BY <4>4, Wrapped DEF SectionAddress
    <3>2. \A a \in Addr : (a - SectionAddress) % AddrSpace \in Addr
      <4>1. \A a \in Addr : a - SectionAddress \in Int
        BY <3>1 DEF Addr
      <4> HIDE DEF SectionAddress
      <4> QED BY <4>1, Wrapped
    <3>3. i \in Nat
      BY DEF TypeOK
    <3>4. \A a \in Addr : <<i, (a - SectionAddress) % AddrSpace>> \in Nat \X Addr
      BY <3>2, <3>3
    <3> HIDE DEF SectionAddress
    <3> QED BY <1>3, <3>4 DEF LoadSegment, TypeOK
  <2> QED BY <1>3, <2>1, <2>2 DEF LoadSegment, TypeOK
<1>4. CASE Loaded
  BY <1>4 DEF Loaded, TypeOK
<1>5. CASE UNCHANGED vars
  BY <1>5 DEF vars, TypeOK
<1>6. CASE Finished
  BY <1>5, <1>6 DEF Finished
<1> QED BY <1>1, <1>2, <1>3, <1>4, <1>5, <1>6 DEF Next

(* The variables of both passes have their types. *)
THEOREM TypeCorrect == Spec => []TypeOK
BY InitType, NextType, PTL DEF Spec

------------------------------------------------------------------------------
(***************************************************************************)
(* What the first pass has found bounds the segments it has seen; with the *)
(* allocation sized from that, the lowest segment at its start and no      *)
(* segment past its end, a read stays inside.                              *)
(***************************************************************************)
Seen(s) == headers[s].load /\ (pc = "size" => s < i)

SizedInv ==
  /\ \A s \in 1 .. Len(headers) : Seen(s) =>
       virt_min <= headers[s].vaddr /\ headers[s].vaddr + headers[s].memsz <= virt_size
  /\ FirstIsLowest => headers[1].vaddr <= virt_min

RoomInv ==
  (pc # "size" /\ FirstIsLowest) => virt_size - headers[1].vaddr <= pages * PageSize

OutsideInv ==
  /\ pc = "size" => \A a \in Addr : memory[a] = Elsewhere
  /\ (pc # "size" /\ FirstIsLowest) => \A a \in Addr \ Inside : memory[a] = Elsewhere

IInv == TypeOK /\ SizedInv /\ RoomInv /\ OutsideInv

LEMMA InitIInv == Init => IInv
<1> SUFFICES ASSUME Init PROVE IInv
  OBVIOUS
<1>1. TypeOK
  BY InitType
<1>2. SizedInv
  <2>1. \A s \in 1 .. Len(headers) : ~Seen(s)
    BY DEF Init, Seen
  <2>2. headers[1].vaddr \in Addr
    BY <1>1, HeaderTypes
  <2> QED BY <2>1, <2>2, LoaderAssumption DEF Init, SizedInv, Addr
<1>3. RoomInv /\ OutsideInv
  BY DEF Init, RoomInv, OutsideInv
<1> QED BY <1>1, <1>2, <1>3 DEF IInv

(* A well-formed segment does not wrap. *)
LEMMA SegmentsEnd ==
  ASSUME WellFormedTables, TypeOK, NEW s \in 1 .. Len(headers), headers[s].load
  PROVE  /\ headers[s].vaddr + headers[s].memsz \in Addr
         /\ headers[s].infile <= headers[s].memsz
<1>1. headers[s].vaddr + headers[s].memsz < AddrSpace /\ headers[s].filesz <= headers[s].memsz
  BY DEF WellFormedTables, TypeOK
<1> QED BY <1>1, HeaderTypes, LoaderAssumption DEF Addr

(* One header of the first pass. *)
LEMMA SizeSegmentKeeps == ASSUME WellFormedTables, IInv, SizeSegment PROVE SizedInv'
<1> USE HeaderTypes DEF IInv
<1>1. i \in 1 .. Len(headers) /\ i' = i + 1 /\ headers' = headers /\ pc = "size" /\ pc' = "size"
  BY DEF SizeSegment, TypeOK
<1>2. \A s \in 1 .. Len(headers) : Seen(s)' => Seen(s) \/ (s = i /\ headers[s].load)
  BY <1>1 DEF Seen
<1>3. FirstIsLowest' <=> FirstIsLowest
  BY <1>1 DEF FirstIsLowest, Loads
<1>4. CASE headers[i].load
  <2>1. SegmentEnd = headers[i].vaddr + headers[i].memsz
    BY <1>1, <1>4, SegmentsEnd, NoWrap DEF SegmentEnd, Header_i
  <2>2. /\ virt_size' = IF virt_size > SegmentEnd THEN virt_size ELSE SegmentEnd
        /\ virt_min' = IF virt_min < headers[i].vaddr THEN virt_min ELSE headers[i].vaddr
    BY <1>4 DEF SizeSegment, Header_i
  <2>3. virt_size \in Int /\ virt_min \in Int
        /\ headers[i].vaddr \in Int /\ headers[i].vaddr + headers[i].memsz \in Int
    BY <1>1 DEF TypeOK, Addr
  <2>4. virt_size <= virt_size' /\ SegmentEnd <= virt_size'
        /\ virt_min' <= virt_min /\ virt_min' <= headers[i].vaddr
    BY <2>1, <2>2, <2>3
  <2>5. virt_size' \in Int /\ virt_min' \in Int
    BY <2>1, <2>2, <2>3
  <2>6. \A s \in 1 .. Len(headers) : Seen(s)' =>
          virt_min' <= headers[s].vaddr /\ headers[s].vaddr + headers[s].memsz <= virt_size'
    <3> SUFFICES ASSUME NEW s \in 1 .. Len(headers), Seen(s)'
                 PROVE  /\ virt_min' <= headers[s].vaddr
                        /\ headers[s].vaddr + headers[s].memsz <= virt_size'
      OBVIOUS
    <3>1. CASE Seen(s)
      <4>1. virt_min <= headers[s].vaddr /\ headers[s].vaddr + headers[s].memsz <= virt_size
        BY <3>1 DEF SizedInv
      <4>2. headers[s].vaddr \in Int /\ headers[s].vaddr + headers[s].memsz \in Int
        BY DEF Addr
      <4> QED BY <2>3, <2>4, <2>5, <4>1, <4>2
    <3>2. CASE ~Seen(s)
      BY <1>2, <2>1, <2>4, <3>2
    <3> QED BY <3>1, <3>2
  <2>7. FirstIsLowest => headers[1].vaddr <= virt_min'
    <3>1. FirstIsLowest => headers[1].vaddr <= headers[i].vaddr
      BY <1>1, <1>4 DEF FirstIsLowest, Loads
    <3> QED BY <2>2, <3>1 DEF SizedInv
  <2> QED BY <1>1, <1>3, <2>6, <2>7 DEF SizedInv
<1>5. CASE ~headers[i].load
  <2>1. virt_size' = virt_size /\ virt_min' = virt_min
    BY <1>5 DEF SizeSegment, Header_i
  <2>2. \A s \in 1 .. Len(headers) : Seen(s)' => Seen(s)
    BY <1>2, <1>5
  <2> QED BY <1>1, <1>3, <2>1, <2>2 DEF SizedInv
<1> QED BY <1>4, <1>5

(* The pages asked for hold all segments. *)
LEMMA AllocateKeeps ==
  ASSUME WellFormedTables, IInv, Allocate PROVE SizedInv' /\ RoomInv' /\ OutsideInv'
<1> USE HeaderTypes DEF IInv
<1>1. /\ headers' = headers /\ virt_size' = virt_size /\ virt_min' = virt_min
      /\ pc = "size" /\ pc' = "load"
  BY DEF Allocate
<1>2. \A s \in 1 .. Len(headers) : headers[s].load => Seen(s)
  <2>1. i > Len(headers) /\ i \in Nat /\ Len(headers) \in Nat
    BY DEF Allocate, TypeOK
  <2>2. \A s \in 1 .. Len(headers) : s < i
    BY <2>1
  <2> QED BY <2>2 DEF Seen
<1>3. FirstIsLowest' <=> FirstIsLowest
  BY <1>1 DEF FirstIsLowest, Loads
<1>4. SizedInv'
  <2>1. \A s \in 1 .. Len(headers) : Seen(s)' => Seen(s)
    BY <1>1, <1>2 DEF Seen
  <2> QED BY <1>1, <2>1, <1>3 DEF SizedInv
<1>5. RoomInv'
  <2> SUFFICES ASSUME FirstIsLowest PROVE virt_size - headers[1].vaddr <= pages' * PageSize
    BY <1>1, <1>3 DEF RoomInv
  <2>1. headers[1].load /\ Seen(1)
    <3>1. 1 \in 1 .. Len(headers)
      OBVIOUS
    <3>2. headers[1].load
      BY DEF FirstIsLowest, Loads
    <3> QED BY <1>2, <3>1, <3>2
  <2>2. virt_min <= headers[1].vaddr /\ headers[1].vaddr + headers[1].memsz <= virt_size
        /\ headers[1].vaddr <= virt_min
    BY <2>1 DEF SizedInv
  <2>3. PICK size \in Int : size = virt_size - virt_min
    BY DEF TypeOK, Addr
  <2>4. size \in Addr /\ size = virt_size - headers[1].vaddr
    BY <2>2, <2>3, LoaderAssumption DEF TypeOK, Addr
  <2>5. pages' = SizeToPages(size % AddrSpace)
    BY <2>3 DEF Allocate
  <2>6. size <= pages' * PageSize
    <3>1. size \in Nat
      BY <2>4 DEF Addr
    <3>2. pages' = SizeToPages(size)
      BY <2>4, <2>5, NoWrap
    <3> QED BY <3>1, <3>2, PagesSuffice, LoaderAssumption
  <2> QED BY <2>4, <2>6
<1>6. OutsideInv'
  <2>1. Inside' = Bytes(AllocatedMemory', pages' * PageSize)
    BY DEF Inside, Bytes
  <2>2. \A a \in Addr \ Inside' : memory'[a] = memory[a]
    BY <2>1 DEF Allocate
  <2> QED BY <1>1, <2>2 DEF OutsideInv
<1> QED BY <1>4, <1>5, <1>6

(* One header of the second pass. *)
LEMMA LoadSegmentKeeps == ASSUME WellFormedTables, IInv, LoadSegment PROVE OutsideInv'
<1> USE HeaderTypes DEF IInv
<1>1. i \in 1 .. Len(headers) /\ pc = "load" /\ pc' # "size" /\ headers' = headers
  BY DEF LoadSegment, TypeOK
<1>2. FirstIsLowest' <=> FirstIsLowest
  BY <1>1 DEF FirstIsLowest, Loads
<1>3. Inside' = Inside
  BY DEF LoadSegment, Inside, Bytes
<1>4. SUFFICES ASSUME FirstIsLowest, NEW a \in Addr \ Inside PROVE memory'[a] = memory[a]
  BY <1>1, <1>2, <1>3 DEF OutsideInv
<1>5. CASE memory' = memory
  BY <1>5
<1>6. CASE headers[i].load /\
           memory' = [b \in Addr |->
             IF b \in Bytes(SectionAddress, headers[i].infile)
               THEN <<i, (b - SectionAddress) % AddrSpace>> ELSE memory[b]]
  <2>1. a \notin Bytes(SectionAddress, headers[i].infile)
    <3> SUFFICES ASSUME NEW k \in 0 .. headers[i].infile - 1,
                        a = ((SectionAddress + k) % AddrSpace)
                 PROVE  FALSE
      BY DEF Bytes
    <3>1. PICK v \in Addr, first \in Addr : v = headers[i].vaddr /\ first = headers[1].vaddr
      <4>1. headers[i].vaddr \in Addr /\ headers[1].vaddr \in Addr
        BY <1>1
      <4> QED BY <4>1
    <3>2. AllocatedMemory \in Int /\ k \in Nat /\ v \in Int /\ first \in Int
      BY <1>1, LoaderAssumption DEF TypeOK, Addr
    <3>3. PICK x \in Int : x = AllocatedMemory + (v - first)
      BY <3>1, <3>2 DEF Addr
    <3>4. PICK j \in Int : j = (v - first) + k
      BY <3>1, <3>2 DEF Addr
    <3>5. a = ((x + k) % AddrSpace)
      <4>1. SectionAddress = (x % AddrSpace)
        BY <3>1, <3>3 DEF SectionAddress, Header_i
      <4>2. k \in Int
        BY <3>2
      <4> QED BY <4>1, <4>2, WrapTwice
    <3>6. a = ((AllocatedMemory + j) % AddrSpace)
      <4>1. x + k = AllocatedMemory + j
        BY ONLY <3>2, <3>3, <3>4, x \in Int, j \in Int, k \in Int
      <4> QED BY <3>5, <4>1
    <3>7. 0 <= j /\ j < pages * PageSize
      <4>1. first <= v
        BY <1>1, <1>4, <1>6, <3>1 DEF FirstIsLowest, Loads
      <4>2. v + headers[i].memsz <= virt_size
        BY <1>1, <1>6, <3>1 DEF SizedInv, Seen
      <4>3. virt_size - first <= pages * PageSize
        BY <1>1, <1>4, <3>1 DEF RoomInv
      <4>4. k < headers[i].infile /\ headers[i].infile <= headers[i].memsz
        BY <1>1, <1>6, SegmentsEnd DEF Addr
      <4>5. pages * PageSize \in Int /\ virt_size \in Int
        BY LoaderAssumption DEF TypeOK, Addr
      <4>6. PICK m \in Int, f \in Int, room \in Int :
              m = headers[i].memsz /\ f = headers[i].infile /\ room = pages * PageSize
        <5>1. headers[i].memsz \in Int /\ headers[i].infile \in Int
          BY <1>1 DEF Addr
        <5> QED BY <4>5, <5>1
      <4>7. k < f /\ f <= m /\ v + m <= virt_size /\ virt_size - first <= room
        BY <4>2, <4>3, <4>4, <4>6
      <4>8. 0 <= j /\ j < room
        BY ONLY <3>2, <3>4, <4>1, <4>5, <4>7, k \in Nat, j \in Int, m \in Int, f \in Int, room \in Int
      <4> QED BY <4>6, <4>8
    <3>8. pages * PageSize \in Int
      BY LoaderAssumption DEF TypeOK
    <3>9. a \in Inside
      BY <3>2, <3>6, <3>7, <3>8, BytesMember DEF Inside
    <3> QED BY <1>4, <3>9
  <2> QED BY <1>6, <2>1
<1> QED BY <1>5, <1>6 DEF LoadSegment, Header_i

(* Steps of the second pass leave the first pass's results alone. *)
LEMMA SecondPass ==
  ASSUME IInv, pc # "size", pc' # "size",
         UNCHANGED <<headers, virt_size, virt_min, pages, AllocatedMemory>>
  PROVE  /\ SizedInv' /\ RoomInv'
         /\ memory' = memory => OutsideInv'
<1>1. FirstIsLowest' <=> FirstIsLowest
  BY DEF FirstIsLowest, Loads
<1>2. \A s \in 1 .. Len(headers) : Seen(s)' => Seen(s)
  BY DEF Seen
<1>3. Inside' = Inside
  BY DEF Inside, Bytes
<1> QED BY <1>1, <1>2, <1>3 DEF IInv, SizedInv, RoomInv, OutsideInv

LEMMA NextIInv == ASSUME WellFormedTables, IInv, [Next]_vars PROVE IInv'
<1>1. TypeOK'
  BY NextType DEF IInv
<1>2. CASE SizeSegment
  <2>1. pc = "size" /\ pc' = "size" /\ memory' = memory
    BY <1>2 DEF SizeSegment
  <2> QED BY <1>1, <1>2, <2>1, SizeSegmentKeeps DEF IInv, RoomInv, OutsideInv
<1>3. CASE Allocate
  BY <1>1, <1>3, AllocateKeeps DEF IInv
<1>4. CASE LoadSegment
  BY <1>1, <1>4, SecondPass, LoadSegmentKeeps DEF IInv, LoadSegment
<1>5. CASE Loaded
  BY <1>1, <1>5, SecondPass DEF IInv, Loaded
<1>6. CASE UNCHANGED vars
  <2>1. FirstIsLowest' <=> FirstIsLowest
    BY <1>6 DEF vars, FirstIsLowest, Loads
  <2>2. \A s \in 1 .. Len(headers) : Seen(s)' => Seen(s)
    BY <1>6 DEF vars, Seen
  <2>3. Inside' = Inside
    BY <1>6 DEF vars, Inside, Bytes
  <2> QED BY <1>1, <1>6, <2>1, <2>2, <2>3 DEF vars, IInv, SizedInv, RoomInv, OutsideInv
<1>7. CASE Finished
  BY <1>6, <1>7 DEF Finished
<1> QED BY <1>2, <1>3, <1>4, <1>5, <1>6, <1>7 DEF Next

(***************************************************************************)
(* Of a well-formed kernel whose first header is its lowest segment,       *)
(* nothing is read to memory outside of the pages that were asked for,     *)
(* wherever they lie and however short the file is.                        *)
(***************************************************************************)
THEOREM LoadsCorrect ==
  ASSUME WellFormedTables PROVE Spec => []LoadsInsideAllocation
<1>1. IInv => LoadsInsideAllocation
  BY DEF IInv, OutsideInv, LoadsInsideAllocation
<1>2. IInv /\ [Next]_vars => IInv'
  BY NextIInv
<1> QED BY <1>1, <1>2, InitIInv, PTL DEF Spec

------------------------------------------------------------------------------
(* Indices: a page number is four digits in base Entries. *)

LEMMA QuotientAndRest ==
  ASSUME NEW x \in Nat, NEW n \in Nat \ {0}
  PROVE  \E q \in Nat, r \in 0 .. n - 1 : x = n * q + r /\ q = x \div n /\ r = (x % n)
BY Divided

LEMMA Product ==
  ASSUME NEW a \in Nat \ {0}, NEW b \in Nat \ {0} PROVE a * b \in Nat \ {0}
<1>1. a * b = (a - 1) * b + b /\ (a - 1) * b >= 0
  OBVIOUS
<1> QED BY <1>1

(* Dividing by n is dividing by a and then by b. *)
Twice(x, a, b, n) ==
  x \div n = (x \div a) \div b /\ (x % n) = a * ((x \div a) % b) + (x % a)

LEMMA DivideTwice ==
  ASSUME NEW x \in Nat, NEW a \in Nat \ {0}, NEW b \in Nat \ {0},
         NEW n \in Nat \ {0}, n = a * b
  PROVE  Twice(x, a, b, n)
<1>1. PICK q \in Nat, r \in 0 .. a - 1 : x = a * q + r /\ q = x \div a /\ r = (x % a)
  BY ONLY x \in Nat, a \in Nat \ {0}, QuotientAndRest
<1>2. PICK p \in Nat, s \in 0 .. b - 1 : q = b * p + s /\ p = q \div b /\ s = (q % b)
  BY ONLY q \in Nat, b \in Nat \ {0}, QuotientAndRest
<1>4. PICK m \in Nat : m = a * s + r
  OBVIOUS
<1>5. m < n
  <2>1. a * s <= a * (b - 1)
    <3>1. a * (b - 1) - a * s = a * (b - 1 - s) /\ a * (b - 1 - s) >= 0
      OBVIOUS
    <3> QED BY <3>1
  <2>2. a * (b - 1) = n - a
    OBVIOUS
  <2> QED BY <1>4, <2>1, <2>2
<1>6. x = n * p + m
  <2>1. a * q = a * (b * p) + a * s
    BY <1>2
  <2>2. a * (b * p) = n * p
    OBVIOUS
  <2> QED BY <1>1, <1>4, <2>1, <2>2
<1>7. x \div n = p /\ (x % n) = m
  <2>1. PICK p2 \in Nat, m2 \in 0 .. n - 1 : x = n * p2 + m2 /\ p2 = x \div n /\ m2 = (x % n)
    BY QuotientAndRest
  <2>2. n * (p2 - p) = m - m2
    <3>1. n * (p2 - p) = n * p2 - n * p
      OBVIOUS
    <3>2. n * p2 + m2 = n * p + m
      BY <1>6, <2>1
    <3>3. n * p2 \in Int /\ n * p \in Int
      OBVIOUS
    <3> QED BY ONLY <3>1, <3>2, <3>3, m \in Nat, m2 \in Int
  <2>3. PICK d \in Int : d = p2 - p
    OBVIOUS
  <2>4. d >= 1 => n * d >= n
    <3>1. d >= 1 => n * (d - 1) >= 0 /\ n * d = n * (d - 1) + n
      OBVIOUS
    <3> QED BY <3>1
  <2>5. d <= -1 => n * d <= -n
    <3>1. d <= -1 => n * (-1 - d) >= 0 /\ n * d = -(n * (-1 - d)) - n
      OBVIOUS
    <3> QED BY <3>1
  <2>6. d = 0
    BY <1>5, <2>2, <2>3, <2>4, <2>5
  <2> QED BY <2>1, <2>2, <2>3, <2>6
<1> QED BY <1>1, <1>2, <1>4, <1>7 DEF Twice

LEMMA SizesKnown ==
  /\ Entries \in Nat \ {0}
  /\ NumFrames = Entries * Entries * Entries * Entries
  /\ NumFrames \in Nat \ {0}
  /\ AddrSpace = PageSize * NumFrames
  /\ VirtualPage = 0 .. NumFrames - 1 /\ M!Frame = 0 .. NumFrames - 1
<1>1. PICK e \in Nat \ {0}, p \in Nat \ {0} : e = Entries /\ p = PageSize
  BY ImageAssumption, LoaderAssumption
<1>2. PICK n \in Nat : n = e * e * e * e
  OBVIOUS
<1>3. n # 0
  <2>1. e * e \in Nat \ {0} /\ e * e * e \in Nat \ {0} /\ e * e * e * e \in Nat \ {0}
    BY Product
  <2> QED BY <1>2, <2>1
<1>4. p * e * e * e * e = p * n
  BY <1>2
<1>5. AddrSpace = p * n
  BY <1>1, <1>4, ImageAssumption
<1>6. (p * n) \div p = n
  <2>1. PICK x \in Nat : x = p * n
    OBVIOUS
  <2>2. PICK q \in Nat, r \in 0 .. p - 1 : x = p * q + r /\ q = x \div p
    BY Divided
  <2>3. PICK d \in Int : d = n - q
    OBVIOUS
  <2>4. p * d = r
    BY <2>1, <2>2, <2>3
  <2>5. d >= 1 => p * d >= p
    <3>1. d >= 1 => p * (d - 1) >= 0 /\ p * d = p * (d - 1) + p
      OBVIOUS
    <3> QED BY <3>1
  <2>6. d <= -1 => p * d <= -p
    <3>1. d <= -1 => p * (-1 - d) >= 0 /\ p * d = -(p * (-1 - d)) - p
      OBVIOUS
    <3> QED BY <3>1
  <2> QED BY <2>1, <2>2, <2>3, <2>4, <2>5, <2>6
<1> QED BY <1>1, <1>2, <1>3, <1>5, <1>6 DEF NumFrames, VirtualPage, M!Frame

LEMMA Indices ==
  ASSUME NEW v \in Nat
  PROVE  /\ \A l \in 1 .. 4 : M!Index(l, v) \in M!Slot
         /\ M!Index(1, v) = (v % Entries)
         /\ M!Index(2, v) = ((v \div Entries) % Entries)
         /\ M!Index(3, v) = (((v \div Entries) \div Entries) % Entries)
         /\ M!Index(4, v) = ((((v \div Entries) \div Entries) \div Entries) % Entries)
         /\ (v % NumFrames) =
              Entries * Entries * Entries * M!Index(4, v) + Entries * Entries * M!Index(3, v)
                + Entries * M!Index(2, v) + M!Index(1, v)
<1>1. PICK e \in Nat \ {0} : e = Entries
  BY SizesKnown
<1>2. PICK v1 \in Nat, v2 \in Nat, v3 \in Nat : v1 = v \div e /\ v2 = v1 \div e /\ v3 = v2 \div e
  <2>1. PICK v1 \in Nat : v1 = v \div e
    BY Divided
  <2>2. PICK v2 \in Nat : v2 = v1 \div e
    BY Divided
  <2>3. PICK v3 \in Nat : v3 = v2 \div e
    BY Divided
  <2> QED BY <2>1, <2>2, <2>3
<1>3. PICK e2 \in Nat \ {0} : e2 = e * e
  BY Product
<1>4. PICK e3 \in Nat \ {0} : e3 = e2 * e
  BY Product
<1>11. NumFrames = e3 * e
  BY <1>1, <1>3, <1>4, SizesKnown
<1>5. v \div e2 = v2 /\ (v % e2) = e * (v1 % e) + (v % e)
  <2>1. Twice(v, e, e, e2)
    BY ONLY <1>3, DivideTwice, v \in Nat, e \in Nat \ {0}, e2 \in Nat \ {0}
  <2> QED BY ONLY <1>2, <2>1 DEF Twice
<1>6. v \div e3 = v3 /\ (v % e3) = e2 * (v2 % e) + (v % e2)
  <2>1. Twice(v, e2, e, e3)
    BY ONLY <1>4, DivideTwice, v \in Nat, e \in Nat \ {0}, e2 \in Nat \ {0}, e3 \in Nat \ {0}
  <2> QED BY ONLY <1>2, <1>5, <2>1 DEF Twice
<1>7. (v % NumFrames) = e3 * (v3 % e) + (v % e3)
  <2>1. PICK n \in Nat \ {0} : n = NumFrames /\ n = e3 * e
    BY <1>11, SizesKnown
  <2>2. Twice(v, e3, e, n)
    BY ONLY <2>1, DivideTwice, v \in Nat, e \in Nat \ {0}, e3 \in Nat \ {0}, n \in Nat \ {0}
  <2> QED BY ONLY <1>6, <2>1, <2>2 DEF Twice
<1>8. /\ M!Index(1, v) = (v % e) /\ M!Index(2, v) = (v1 % e)
      /\ M!Index(3, v) = (v2 % e) /\ M!Index(4, v) = (v3 % e)
  <2>1. M!Index(1, v) = (v % e)
    BY <1>1 DEF M!Index
  <2>2. M!Index(2, v) = (v1 % e)
    BY <1>1, <1>2 DEF M!Index
  <2>3. M!Index(3, v) = (v2 % e)
    BY <1>1, <1>3, <1>5 DEF M!Index
  <2>4. M!Index(4, v) = (v3 % e)
    BY <1>1, <1>3, <1>4, <1>6 DEF M!Index
  <2> QED BY <2>1, <2>2, <2>3, <2>4
<1>9. /\ (v % e) \in 0 .. e - 1 /\ (v1 % e) \in 0 .. e - 1
      /\ (v2 % e) \in 0 .. e - 1 /\ (v3 % e) \in 0 .. e - 1
  BY Divided
<1>10. \A l \in 1 .. 4 : l = 1 \/ l = 2 \/ l = 3 \/ l = 4
  OBVIOUS
<1>12. (v % NumFrames) = e3 * (v3 % e) + e2 * (v2 % e) + e * (v1 % e) + (v % e)
  <2>1. PICK a \in Nat, b \in Nat, c \in Nat, d \in Nat :
          a = (v3 % e) /\ b = (v2 % e) /\ c = (v1 % e) /\ d = (v % e)
    BY <1>9
  <2> QED BY <1>5, <1>6, <1>7, <1>11, <2>1
<1> QED BY <1>1, <1>2, <1>3, <1>4, <1>8, <1>9, <1>10, <1>12 DEF M!Slot

(* Pages that share the entries of one table of level 1. *)
LEMMA IndicesInTable ==
  ASSUME NEW v \in Nat, NEW k \in Nat, M!Index(1, v) + k < Entries
  PROVE  /\ M!Index(1, v + k) = M!Index(1, v) + k
         /\ \A l \in 2 .. 4 : M!Index(l, v + k) = M!Index(l, v)
<1>1. PICK e \in Nat \ {0} : e = Entries
  BY SizesKnown
<1>2. PICK q \in Nat, r \in 0 .. e - 1 : v = e * q + r /\ q = v \div e /\ r = (v % e)
  BY QuotientAndRest
<1>3. PICK w \in Nat : w = v + k
  OBVIOUS
<1>4. PICK p \in Nat, s \in 0 .. e - 1 : w = e * p + s /\ p = w \div e /\ s = (w % e)
  BY QuotientAndRest
<1>5. r + k < e
  BY <1>1, <1>2, Indices
<1>6. p = q /\ s = r + k
  <2>1. PICK d \in Int : d = p - q
    OBVIOUS
  <2>2. e * d = r + k - s
    <3>1. e * d = e * p - e * q
      BY <2>1
    <3>2. e * p + s = e * q + r + k
      BY <1>2, <1>3, <1>4
    <3>3. e * p \in Int /\ e * q \in Int
      OBVIOUS
    <3> QED BY ONLY <3>1, <3>2, <3>3, r \in Int, s \in Int, k \in Int
  <2>3. d >= 1 => e * d >= e
    <3>1. d >= 1 => e * (d - 1) >= 0 /\ e * d = e * (d - 1) + e
      OBVIOUS
    <3> QED BY <3>1
  <2>4. d <= -1 => e * d <= -e
    <3>1. d <= -1 => e * (-1 - d) >= 0 /\ e * d = -(e * (-1 - d)) - e
      OBVIOUS
    <3> QED BY <3>1
  <2> QED BY <1>5, <2>1, <2>2, <2>3, <2>4
<1>7. \A l \in 2 .. 4 : l = 2 \/ l = 3 \/ l = 4
  OBVIOUS
<1>8. M!Index(1, v + k) = (w % e) /\ M!Index(1, v) = (v % e)
  BY <1>1, <1>3, Indices
<1>9. /\ M!Index(2, w) = M!Index(2, v) /\ M!Index(3, w) = M!Index(3, v)
      /\ M!Index(4, w) = M!Index(4, v)
  <2>1. w \div Entries = v \div Entries
    BY <1>1, <1>2, <1>4, <1>6
  <2> QED BY <2>1, Indices
<1> QED BY <1>2, <1>3, <1>4, <1>6, <1>7, <1>8, <1>9

------------------------------------------------------------------------------
(***************************************************************************)
(* The tables on the way to a page, in memory W: At4 is cr3, and Page is   *)
(* what the processor finds.                                               *)
(***************************************************************************)
Below(W, t, l, v) == IF t = M!Absent THEN M!Absent ELSE W[t][M!Index(l, v)]
At3(W, v) == Below(W, cr3, 4, v)
At2(W, v) == Below(W, At3(W, v), 3, v)
At1(W, v) == Below(W, At2(W, v), 2, v)
Page(W, v) == Below(W, At1(W, v), 1, v)

TableAt(W, l, v) ==
  IF l = 4 THEN cr3 ELSE IF l = 3 THEN At3(W, v) ELSE IF l = 2 THEN At2(W, v) ELSE At1(W, v)

(***************************************************************************)
(* Page tables make a tree: to each leads one way, the slots from cr3 on.  *)
(* A table below two others, or below itself, would be filled for the one  *)
(* and seen through the other.                                             *)
(***************************************************************************)
Tree(W, T, way) ==
  /\ way \in [T -> Seq(M!Slot)]
  /\ cr3 \in T /\ way[cr3] = <<>>
  /\ \A t \in T : Len(way[t]) < 3 =>
       \A s \in M!Slot : W[t][s] # M!Absent =>
         W[t][s] \in T /\ way[W[t][s]] = Append(way[t], s)

Way(l, v) ==
  IF l = 4 THEN <<>>
  ELSE IF l = 3 THEN <<M!Index(4, v)>>
  ELSE IF l = 2 THEN <<M!Index(4, v), M!Index(3, v)>>
  ELSE <<M!Index(4, v), M!Index(3, v), M!Index(2, v)>>

LEMMA TranslateIsPage == \A v : M!Translate(v) = Page(words, v)
<1>1. cr3 # M!Absent
  BY ImageAssumption, SizesKnown DEF M!Absent
<1> QED BY <1>1 DEF M!Translate, M!Entry, Page, At1, At2, At3, Below

LEMMA TranslateIsPageNext == \A v : M!Translate(v)' = Page(words', v)
<1>1. cr3 # M!Absent
  BY ImageAssumption, SizesKnown DEF M!Absent
<1> QED BY <1>1 DEF M!Translate, M!Entry, Page, At1, At2, At3, Below

LEMMA Levels ==
  /\ \A l \in 1 .. 4 : l = 1 \/ l = 2 \/ l = 3 \/ l = 4
  /\ \A l \in 2 .. 4 : l = 2 \/ l = 3 \/ l = 4
OBVIOUS

LEMMA OneBelow ==
  ASSUME NEW W, NEW v, NEW l \in 2 .. 4
  PROVE  TableAt(W, l - 1, v) = Below(W, TableAt(W, l, v), l, v)
<1>1. cr3 # M!Absent
  BY ImageAssumption, SizesKnown DEF M!Absent
<1>2. 4 - 1 = 3 /\ 3 - 1 = 2 /\ 2 - 1 = 1
  OBVIOUS
<1>3. CASE l = 4
  BY <1>2, <1>3 DEF TableAt, At3
<1>4. CASE l = 3
  BY <1>2, <1>4 DEF TableAt, At2
<1>5. CASE l = 2
  BY <1>2, <1>5 DEF TableAt, At1
<1> QED BY <1>3, <1>4, <1>5, Levels

LEMMA ShortSequences ==
  ASSUME NEW S, NEW a \in S, NEW b \in S, NEW c \in S
  PROVE  /\ <<>> \in Seq(S) /\ Len(<<>>) = 0
         /\ <<a>> \in Seq(S) /\ Len(<<a>>) = 1 /\ Append(<<>>, a) = <<a>>
         /\ <<a, b>> \in Seq(S) /\ Len(<<a, b>>) = 2 /\ Append(<<a>>, b) = <<a, b>>
         /\ <<a, b, c>> \in Seq(S) /\ Len(<<a, b, c>>) = 3
         /\ Append(<<a, b>>, c) = <<a, b, c>>
<1>1. <<>> \in Seq(S) /\ Len(<<>>) = 0 /\ Append(<<>>, a) = <<a>>
  OBVIOUS
<1>2. <<a>> \in Seq(S) /\ Len(<<a>>) = 1
  OBVIOUS
<1>3. <<a, b>> \in Seq(S) /\ Len(<<a, b>>) = 2
  OBVIOUS
<1>4. <<a, b, c>> \in Seq(S) /\ Len(<<a, b, c>>) = 3
  OBVIOUS
<1>5. Append(<<a>>, b) = <<a, b>>
  <2>1. PICK r \in Seq(S) : r = Append(<<a>>, b)
    BY <1>2, AppendProperties
  <2>2. Len(r) = 2 /\ r[1] = a /\ r[2] = b
    BY <1>2, <2>1, AppendProperties
  <2>3. \A j \in 1 .. Len(r) : r[j] = <<a, b>>[j]
    BY <2>2
  <2> QED BY <1>3, <2>1, <2>2, <2>3, SeqEqual
<1>6. Append(<<a, b>>, c) = <<a, b, c>>
  <2>1. PICK r \in Seq(S) : r = Append(<<a, b>>, c)
    BY <1>3, AppendProperties
  <2>2. Len(r) = 3 /\ r[1] = a /\ r[2] = b /\ r[3] = c
    BY <1>3, <2>1, AppendProperties
  <2>3. \A j \in 1 .. Len(r) : r[j] = <<a, b, c>>[j]
    BY <2>2
  <2> QED BY <1>4, <2>1, <2>2, <2>3, SeqEqual
<1> QED BY <1>1, <1>2, <1>3, <1>4, <1>5, <1>6

LEMMA Ways ==
  ASSUME NEW v \in Nat
  PROVE  /\ \A l \in 1 .. 4 : Way(l, v) \in Seq(M!Slot) /\ Len(Way(l, v)) = 4 - l
         /\ \A l \in 2 .. 4 : Way(l - 1, v) = Append(Way(l, v), M!Index(l, v))
<1>1. PICK a \in M!Slot, b \in M!Slot, c \in M!Slot :
        a = M!Index(4, v) /\ b = M!Index(3, v) /\ c = M!Index(2, v)
  BY Indices
<1>2. /\ <<>> \in Seq(M!Slot) /\ Len(<<>>) = 0
      /\ <<a>> \in Seq(M!Slot) /\ Len(<<a>>) = 1 /\ Append(<<>>, a) = <<a>>
      /\ <<a, b>> \in Seq(M!Slot) /\ Len(<<a, b>>) = 2 /\ Append(<<a>>, b) = <<a, b>>
      /\ <<a, b, c>> \in Seq(M!Slot) /\ Len(<<a, b, c>>) = 3
      /\ Append(<<a, b>>, c) = <<a, b, c>>
  BY ShortSequences
<1>5. Way(4, v) = <<>> /\ Way(3, v) = <<a>> /\ Way(2, v) = <<a, b>> /\ Way(1, v) = <<a, b, c>>
  BY <1>1 DEF Way
<1>6. \A l \in 1 .. 4 : Way(l, v) \in Seq(M!Slot) /\ Len(Way(l, v)) = 4 - l
  <2> TAKE l \in 1 .. 4
  <2>1. 4 - 4 = 0 /\ 4 - 3 = 1 /\ 4 - 2 = 2 /\ 4 - 1 = 3
    OBVIOUS
  <2> QED BY <1>2, <1>5, <2>1, Levels
<1>7. 4 - 1 = 3 /\ 3 - 1 = 2 /\ 2 - 1 = 1
  OBVIOUS
<1> QED BY <1>1, <1>2, <1>5, <1>6, <1>7, Levels

LEMMA WaysShort ==
  ASSUME NEW v \in Nat
  PROVE  Len(Way(1, v)) = 3 /\ \A l \in 2 .. 4 : l \in 1 .. 4 /\ Len(Way(l, v)) < 3
<1>1. \A l \in 1 .. 4 : Len(Way(l, v)) = 4 - l
  BY Ways
<1>2. /\ 1 \in 1 .. 4 /\ 2 \in 1 .. 4 /\ 3 \in 1 .. 4 /\ 4 \in 1 .. 4
      /\ 4 - 1 = 3 /\ 4 - 2 = 2 /\ 4 - 3 = 1 /\ 4 - 4 = 0
  OBVIOUS
<1>3. Len(Way(1, v)) = 3
  BY <1>1, <1>2
<1>4. Len(Way(2, v)) = 2 /\ Len(Way(3, v)) = 1
  BY <1>1, <1>2
<1>5. Len(Way(4, v)) = 0
  BY <1>1, <1>2
<1>6. ASSUME NEW l \in 2 .. 4 PROVE l \in 1 .. 4 /\ Len(Way(l, v)) < 3
  <2>1. l = 2 \/ l = 3 \/ l = 4
    OBVIOUS
  <2>2. 0 < 3 /\ 1 < 3 /\ 2 < 3
    OBVIOUS
  <2>3. Len(Way(l, v)) < 3
    BY <1>4, <1>5, <2>1, <2>2
  <2> QED BY <2>3
<1> QED BY <1>3, <1>6

LEMMA LastTable == \A W, v : TableAt(W, 1, v) = At1(W, v)
BY DEF TableAt

(* The tables on the way to a page are tables, and have its slots as way. *)
LEMMA Reached ==
  ASSUME NEW W, NEW T, NEW way, Tree(W, T, way), NEW v \in Nat, NEW l \in 1 .. 4,
         TableAt(W, l, v) # M!Absent
  PROVE  TableAt(W, l, v) \in T /\ way[TableAt(W, l, v)] = Way(l, v)
<1> DEFINE R(k) == TableAt(W, k, v) # M!Absent =>
                     TableAt(W, k, v) \in T /\ way[TableAt(W, k, v)] = Way(k, v)
<1>1. R(4)
  BY DEF TableAt, Way, Tree
<1>2. ASSUME NEW k \in 2 .. 4, R(k) PROVE R(k - 1)
  <2> SUFFICES ASSUME TableAt(W, k - 1, v) # M!Absent
               PROVE  /\ TableAt(W, k - 1, v) \in T
                      /\ way[TableAt(W, k - 1, v)] = Way(k - 1, v)
    OBVIOUS
  <2>1. PICK t : t = TableAt(W, k, v)
    OBVIOUS
  <2>2. t # M!Absent /\ TableAt(W, k - 1, v) = W[t][M!Index(k, v)]
    BY <2>1, OneBelow DEF Below
  <2>3. t \in T /\ way[t] = Way(k, v)
    BY <1>2, <2>1, <2>2
  <2>4. Len(way[t]) < 3 /\ M!Index(k, v) \in M!Slot
    <3>1. k \in 1 .. 4 /\ 4 - k < 3
      OBVIOUS
    <3>2. Len(Way(k, v)) = 4 - k
      BY <3>1, Ways
    <3> QED BY <2>3, <3>1, <3>2, Indices
  <2>5. /\ W[t][M!Index(k, v)] \in T
        /\ way[W[t][M!Index(k, v)]] = Append(way[t], M!Index(k, v))
    BY <2>2, <2>3, <2>4 DEF Tree
  <2>6. Way(k - 1, v) = Append(Way(k, v), M!Index(k, v))
    BY Ways
  <2> QED BY <2>2, <2>3, <2>5, <2>6
<1> HIDE DEF R
<1>3. R(3) /\ R(2) /\ R(1)
  <2>1. 4 - 1 = 3 /\ 3 - 1 = 2 /\ 2 - 1 = 1 /\ 4 \in 2 .. 4 /\ 3 \in 2 .. 4 /\ 2 \in 2 .. 4
    OBVIOUS
  <2>2. R(3)
    BY <1>1, <1>2, <2>1
  <2>3. R(2)
    BY <1>2, <2>1, <2>2
  <2> QED BY <1>2, <2>1, <2>2, <2>3
<1>4. R(l)
  BY <1>1, <1>3, Levels
<1> QED BY <1>4 DEF R

(* What is seen through one slot of one table of level 1 is one page. *)
LEMMA OnePage ==
  ASSUME NEW W, NEW T, NEW way, Tree(W, T, way), NEW v \in Nat, NEW w \in Nat,
         At1(W, v) # M!Absent, At1(W, w) = At1(W, v), M!Index(1, v) = M!Index(1, w)
  PROVE  (v % NumFrames) = (w % NumFrames)
<1>1. TableAt(W, 1, v) = At1(W, v) /\ TableAt(W, 1, w) = At1(W, w)
  BY DEF TableAt
<1>2. Way(1, v) = Way(1, w)
  BY <1>1, Reached
<1>3. \A a, b, c, d, e, f : <<a, b, c>> = <<d, e, f>> => a = d /\ b = e /\ c = f
  OBVIOUS
<1>4. M!Index(4, v) = M!Index(4, w) /\ M!Index(3, v) = M!Index(3, w) /\ M!Index(2, v) = M!Index(2, w)
  BY <1>2, <1>3 DEF Way
<1> QED BY <1>4, Indices

------------------------------------------------------------------------------
(* What the writes do to the tree. *)

Kept(W, V) ==
  \A v \in Nat : \A l \in 1 .. 4 :
    TableAt(W, l, v) # M!Absent => TableAt(V, l, v) = TableAt(W, l, v)

(* A write to a frame that is no table. *)
LEMMA TreeUntouched ==
  ASSUME NEW W, NEW T, NEW way, Tree(W, T, way), NEW V, \A t \in T : V[t] = W[t]
  PROVE  Tree(V, T, way) /\ Kept(W, V) /\ \A v \in Nat : Page(V, v) = Page(W, v)
<1>1. Tree(V, T, way)
  <2>1. ASSUME NEW t \in T, Len(way[t]) < 3, NEW s \in M!Slot, V[t][s] # M!Absent
        PROVE  V[t][s] \in T /\ way[V[t][s]] = Append(way[t], s)
    <3>1. V[t][s] = W[t][s]
      OBVIOUS
    <3> QED BY <2>1, <3>1 DEF Tree
  <2>2. way \in [T -> Seq(M!Slot)] /\ cr3 \in T /\ way[cr3] = <<>>
    BY DEF Tree
  <2> QED BY <2>1, <2>2 DEF Tree
<1>2. \A v \in Nat : \A l \in 1 .. 4 : TableAt(V, l, v) = TableAt(W, l, v)
  <2> TAKE v \in Nat
  <2> DEFINE S(k) == TableAt(V, k, v) = TableAt(W, k, v)
  <2>1. S(4)
    BY DEF TableAt
  <2>2. ASSUME NEW k \in 2 .. 4, S(k) PROVE S(k - 1)
    <3>1. TableAt(W, k, v) # M!Absent => TableAt(W, k, v) \in T
      BY Reached
    <3> QED BY <2>2, <3>1, OneBelow DEF Below
  <2> HIDE DEF S
  <2>3. S(3) /\ S(2) /\ S(1)
    <3>1. 4 - 1 = 3 /\ 3 - 1 = 2 /\ 2 - 1 = 1 /\ 4 \in 2 .. 4 /\ 3 \in 2 .. 4 /\ 2 \in 2 .. 4
      OBVIOUS
    <3>2. S(3)
      BY <2>1, <2>2, <3>1
    <3>3. S(2)
      BY <2>2, <3>1, <3>2
    <3> QED BY <2>2, <3>1, <3>2, <3>3
  <2>4. \A l \in 1 .. 4 : S(l)
    BY <2>1, <2>3, Levels
  <2> QED BY <2>4 DEF S
<1>3. \A v \in Nat : Page(V, v) = Page(W, v)
  <2> TAKE v \in Nat
  <2>1. At1(V, v) = At1(W, v) /\ TableAt(W, 1, v) = At1(W, v)
    BY <1>2 DEF TableAt
  <2>2. At1(W, v) # M!Absent => At1(W, v) \in T
    BY <2>1, Reached
  <2> QED BY <2>1, <2>2 DEF Page, Below
<1> QED BY <1>1, <1>2, <1>3 DEF Kept

Words == [M!Frame -> [M!Slot -> Int]]

(* The two writes to page tables. *)
WithEntry(W, t, s, x) == [W EXCEPT ![t][s] = x]
WithTable(W, t, s, n) == [W EXCEPT ![n] = M!NoEntries, ![t][s] = n]

(* Page frame x is seen through slot s of table t, the rest as before. *)
Entry1(W, V, t, s, x) ==
  \A v \in Nat : Page(V, v) = IF At1(W, v) = t /\ M!Index(1, v) = s THEN x ELSE Page(W, v)

(* An entry of a table of level 1. *)
LEMMA TreeFilled ==
  ASSUME NEW W \in Words, NEW T \in SUBSET M!Frame, NEW way, Tree(W, T, way),
         NEW t \in T, Len(way[t]) = 3, NEW s \in M!Slot, NEW x \in Int,
         NEW V, V = WithEntry(W, t, s, x)
  PROVE  /\ V \in Words /\ Tree(V, T, way) /\ Kept(W, V)
         /\ Entry1(W, V, t, s, x)
<1>1. V \in Words
  BY DEF Words, WithEntry
<1>2. \A u \in T : u # t => V[u] = W[u]
  BY DEF Words, WithEntry
<1>3. \A k \in M!Slot : V[t][k] = IF k = s THEN x ELSE W[t][k]
  BY DEF Words, WithEntry
<1>4. Tree(V, T, way)
  <2>1. \A u \in T : Len(way[u]) < 3 => V[u] = W[u]
    <3> SUFFICES ASSUME NEW u \in T, Len(way[u]) < 3 PROVE V[u] = W[u]
      OBVIOUS
    <3>1. ~(3 < 3)
      OBVIOUS
    <3>2. u # t
      BY ONLY <3>1, Len(way[u]) < 3, Len(way[t]) = 3
    <3> QED BY <1>2, <3>2
  <2>2. ASSUME NEW u \in T, Len(way[u]) < 3, NEW k \in M!Slot, V[u][k] # M!Absent
        PROVE  V[u][k] \in T /\ way[V[u][k]] = Append(way[u], k)
    <3>1. V[u][k] = W[u][k]
      BY <2>1, <2>2
    <3> QED BY <2>2, <3>1 DEF Tree
  <2>3. way \in [T -> Seq(M!Slot)] /\ cr3 \in T /\ way[cr3] = <<>>
    BY DEF Tree
  <2> QED BY <2>2, <2>3 DEF Tree
<1>5. \A v \in Nat : \A l \in 1 .. 4 : TableAt(V, l, v) = TableAt(W, l, v)
  <2> TAKE v \in Nat
  <2> DEFINE S(k) == TableAt(V, k, v) = TableAt(W, k, v)
  <2>1. S(4)
    BY DEF TableAt
  <2>2. ASSUME NEW k \in 2 .. 4, S(k) PROVE S(k - 1)
    <3>1. TableAt(W, k, v) # M!Absent => TableAt(W, k, v) \in T /\ way[TableAt(W, k, v)] = Way(k, v)
      BY Reached
    <3>2. Len(Way(k, v)) < 3
      BY WaysShort
    <3>3. TableAt(W, k, v) # M!Absent => V[TableAt(W, k, v)] = W[TableAt(W, k, v)]
      <4> SUFFICES ASSUME TableAt(W, k, v) # M!Absent
                   PROVE  V[TableAt(W, k, v)] = W[TableAt(W, k, v)]
        OBVIOUS
      <4>1. PICK u \in T : u = TableAt(W, k, v) /\ way[u] = Way(k, v)
        BY <3>1
      <4>2. Len(way[u]) < 3
        BY <3>2, <4>1
      <4>3. u # t
        <5>1. ~(3 < 3)
          OBVIOUS
        <5> QED BY ONLY <4>2, <5>1, Len(way[t]) = 3
      <4> QED BY <1>2, <4>1, <4>3
    <3>4. /\ TableAt(W, k - 1, v) = Below(W, TableAt(W, k, v), k, v)
          /\ TableAt(V, k - 1, v) = Below(V, TableAt(V, k, v), k, v)
      BY OneBelow
    <3>5. TableAt(V, k, v) = TableAt(W, k, v)
      BY <2>2
    <3> QED BY <3>3, <3>4, <3>5 DEF Below
  <2> HIDE DEF S
  <2>3. S(3) /\ S(2) /\ S(1)
    <3>1. 4 - 1 = 3 /\ 3 - 1 = 2 /\ 2 - 1 = 1 /\ 4 \in 2 .. 4 /\ 3 \in 2 .. 4 /\ 2 \in 2 .. 4
      OBVIOUS
    <3>2. S(3)
      BY <2>1, <2>2, <3>1
    <3>3. S(2)
      BY <2>2, <3>1, <3>2
    <3> QED BY <2>2, <3>1, <3>2, <3>3
  <2>4. \A l \in 1 .. 4 : S(l)
    BY <2>1, <2>3, Levels
  <2> QED BY <2>4 DEF S
<1>6. ASSUME NEW v \in Nat
      PROVE  Page(V, v) = IF At1(W, v) = t /\ M!Index(1, v) = s THEN x ELSE Page(W, v)
  <2>1. At1(V, v) = At1(W, v) /\ TableAt(W, 1, v) = At1(W, v)
    <3>1. 1 \in 1 .. 4
      OBVIOUS
    <3>2. TableAt(V, 1, v) = TableAt(W, 1, v)
      BY <1>5, <3>1
    <3> QED BY <3>2, LastTable
  <2>2. At1(W, v) # M!Absent => At1(W, v) \in T
    BY <2>1, Reached
  <2>3. M!Index(1, v) \in M!Slot
    BY Indices
  <2>4. t # M!Absent
    BY SizesKnown DEF M!Absent
  <2> QED BY <1>2, <1>3, <2>1, <2>2, <2>3, <2>4 DEF Page, Below
<1> QED BY <1>1, <1>4, <1>5, <1>6 DEF Kept, Entry1

SamePages(W, V) == \A v \in Nat : Page(V, v) = Page(W, v)

(* A new table comes up empty: all that was seen is seen as before. *)
LEMMA TreeGrown ==
  ASSUME NEW W \in Words, NEW T \in SUBSET M!Frame, NEW way, Tree(W, T, way),
         NEW t \in T, Len(way[t]) < 3, NEW s \in M!Slot, W[t][s] = M!Absent,
         NEW n \in M!Frame \ T,
         NEW V, V = WithTable(W, t, s, n)
  PROVE  /\ V \in Words /\ V[t][s] = n
         /\ \E longer : Tree(V, T \cup {n}, longer)
         /\ Kept(W, V) /\ SamePages(W, V)
<1>1. M!NoEntries \in [M!Slot -> Int] /\ \A k \in M!Slot : M!NoEntries[k] = M!Absent
  BY DEF M!NoEntries, M!Absent
<1>2. n # t /\ n \in Int /\ n # M!Absent
  BY SizesKnown DEF M!Absent
<1>3. V \in Words
  <2>1. PICK U : U = [W EXCEPT ![n] = M!NoEntries]
    OBVIOUS
  <2>2. U \in Words
    BY <1>1, <2>1 DEF Words
  <2>3. V = [U EXCEPT ![t][s] = n]
    BY <2>1 DEF WithTable
  <2> QED BY <1>2, <2>2, <2>3 DEF Words
<1>4. /\ V[n] = M!NoEntries
      /\ \A k \in M!Slot : V[t][k] = IF k = s THEN n ELSE W[t][k]
      /\ \A u \in T : u # t => V[u] = W[u]
  BY <1>2 DEF Words, WithTable
<1>5. PICK longer : longer = [u \in T \cup {n} |-> IF u = n THEN Append(way[t], s) ELSE way[u]]
  OBVIOUS
<1>6. Tree(V, T \cup {n}, longer)
  <2>1. way[t] \in Seq(M!Slot) /\ Append(way[t], s) \in Seq(M!Slot)
    BY DEF Tree
  <2>2. longer \in [T \cup {n} -> Seq(M!Slot)]
    BY <1>5, <2>1 DEF Tree
  <2>3. longer[n] = Append(way[t], s) /\ \A u \in T : longer[u] = way[u]
    BY <1>5
  <2>4. ASSUME NEW u \in T \cup {n}, Len(longer[u]) < 3, NEW k \in M!Slot, V[u][k] # M!Absent
        PROVE  V[u][k] \in T \cup {n} /\ longer[V[u][k]] = Append(longer[u], k)
    <3>1. CASE u = n
      BY <1>1, <1>4, <2>4, <3>1
    <3>2. CASE u = t /\ k = s
      BY <1>2, <1>4, <2>3, <3>2
    <3>3. CASE u # n /\ ~(u = t /\ k = s)
      <4>1. u \in T /\ V[u][k] = W[u][k] /\ longer[u] = way[u]
        BY <1>4, <2>3, <3>3
      <4>2. W[u][k] \in T /\ way[W[u][k]] = Append(way[u], k)
        BY <2>4, <4>1 DEF Tree
      <4> QED BY <2>3, <4>1, <4>2
    <3> QED BY <3>1, <3>2, <3>3
  <2>5. cr3 \in T \cup {n} /\ longer[cr3] = <<>>
    BY <2>3 DEF Tree
  <2> QED BY <2>2, <2>4, <2>5 DEF Tree
<1>7. ASSUME NEW v \in Nat
      PROVE  /\ \A l \in 1 .. 4 : TableAt(W, l, v) # M!Absent => TableAt(V, l, v) = TableAt(W, l, v)
             /\ Page(V, v) = Page(W, v)
  <2> DEFINE S(k) == \/ TableAt(V, k, v) = TableAt(W, k, v)
                     \/ TableAt(W, k, v) = M!Absent /\ TableAt(V, k, v) = n
  <2>1. S(4)
    BY DEF TableAt
  <2>2. ASSUME NEW k \in 2 .. 4, S(k) PROVE S(k - 1)
    <3>1. M!Index(k, v) \in M!Slot
      BY Indices, WaysShort
    <3>4. /\ TableAt(W, k - 1, v) = Below(W, TableAt(W, k, v), k, v)
          /\ TableAt(V, k - 1, v) = Below(V, TableAt(V, k, v), k, v)
      BY OneBelow
    <3>2. CASE TableAt(W, k, v) = M!Absent
      <4>1. TableAt(W, k - 1, v) = M!Absent
        BY <3>2, <3>4 DEF Below
      <4>2. TableAt(V, k, v) = M!Absent \/ TableAt(V, k, v) = n
        BY <2>2, <3>2
      <4>3. TableAt(V, k - 1, v) = M!Absent
        BY <1>1, <1>2, <1>4, <3>1, <3>4, <4>2 DEF Below
      <4> QED BY <4>1, <4>3
    <3>3. CASE TableAt(W, k, v) # M!Absent
      <4>1. PICK u \in T : u = TableAt(W, k, v) /\ u = TableAt(V, k, v)
        BY <2>2, <3>3, Reached
      <4>2. /\ TableAt(W, k - 1, v) = W[u][M!Index(k, v)]
            /\ TableAt(V, k - 1, v) = V[u][M!Index(k, v)]
        BY <3>3, <3>4, <4>1 DEF Below
      <4>3. CASE u = t
        BY <1>4, <3>1, <4>2, <4>3
      <4>4. CASE u # t
        BY <1>4, <4>2, <4>4
      <4> QED BY <4>3, <4>4
    <3> QED BY <3>2, <3>3
  <2> HIDE DEF S
  <2>3. S(3) /\ S(2) /\ S(1)
    <3>1. 4 - 1 = 3 /\ 3 - 1 = 2 /\ 2 - 1 = 1 /\ 4 \in 2 .. 4 /\ 3 \in 2 .. 4 /\ 2 \in 2 .. 4
      OBVIOUS
    <3>2. S(3)
      BY <2>1, <2>2, <3>1
    <3>3. S(2)
      BY <2>2, <3>1, <3>2
    <3> QED BY <2>2, <3>1, <3>2, <3>3
  <2>4. \A l \in 1 .. 4 : S(l)
    BY <2>1, <2>3, Levels
  <2>5. \A l \in 1 .. 4 : TableAt(W, l, v) # M!Absent => TableAt(V, l, v) = TableAt(W, l, v)
    BY <2>4 DEF S
  <2>6. Page(V, v) = Page(W, v)
    <3>1. TableAt(W, 1, v) = At1(W, v) /\ TableAt(V, 1, v) = At1(V, v)
      BY DEF TableAt
    <3>2. M!Index(1, v) \in M!Slot
      BY Indices
    <3>3. CASE At1(W, v) = M!Absent
      <4>1. At1(V, v) = M!Absent \/ At1(V, v) = n
        BY <2>3, <3>1, <3>3 DEF S
      <4> QED BY <1>1, <1>4, <3>2, <3>3, <4>1 DEF Page, Below
    <3>4. CASE At1(W, v) # M!Absent
      <4>1. At1(V, v) = At1(W, v)
        BY <2>5, <3>1, <3>4
      <4>2. At1(W, v) \in T /\ way[At1(W, v)] = Way(1, v)
        BY <3>1, <3>4, Reached
      <4>3. Len(Way(1, v)) = 3
        BY WaysShort
      <4>4. At1(W, v) # t
        <5>1. CASE At1(W, v) = t
          <6>1. Len(way[t]) = 3
            BY <4>2, <4>3, <5>1
          <6> QED BY <6>1
        <5> QED BY <5>1
      <4>5. V[At1(W, v)] = W[At1(W, v)]
        BY <1>4, <4>2, <4>4
      <4> QED BY <4>1, <4>5 DEF Page, Below
    <3> QED BY <3>3, <3>4
  <2> QED BY <2>5, <2>6
<1> QED BY <1>3, <1>4, <1>6, <1>7 DEF Kept, SamePages

------------------------------------------------------------------------------
(***************************************************************************)
(* The calls of MapVirtualPages at work, when page f and the n - 1 after   *)
(* it are to be mapped to frame a and those after it: each call has come   *)
(* to the table on its first page's way, what it is asked for ends where   *)
(* the first one's ends, and the one after it starts at the page that it   *)
(* could not enter in its table.                                           *)
(***************************************************************************)
CallType == [physical : Nat, virt : Nat, pages : Nat, level : 1 .. 4, table : M!Frame, i : Nat]

CallGood(W, c, f, a, n) ==
  /\ c.virt >= f /\ c.virt + c.pages = f + n
  /\ c.physical = a + (c.virt - f)
  /\ c.i <= c.pages /\ (c.level > 1 => c.i = 0)
  /\ c.table = TableAt(W, c.level, c.virt)

CallsGood(W, cs, f, a, n) ==
  /\ cs \in Seq(CallType)
  /\ \A d \in 1 .. Len(cs) : CallGood(W, cs[d], f, a, n)
  /\ cs # <<>> => cs[1].virt = f
  /\ \A d \in 1 .. Len(cs) - 1 :
       cs[d].level = 1 /\ cs[d].i >= 1 /\ cs[d + 1].virt = cs[d].virt + cs[d].i - 1

(* What a call has entered, or the calls that have returned to it. *)
Entered(cs, d) == IF d = Len(cs) THEN cs[d].i ELSE cs[d].i - 1

Filled(W, cs, f, a, n) ==
  \A d \in 1 .. Len(cs) : \A x \in 0 .. n - 1 :
    (cs[d].virt <= f + x /\ f + x < cs[d].virt + Entered(cs, d)) => Page(W, f + x) = a + x

Complete(W, f, a, n) == \A x \in 0 .. n - 1 : Page(W, f + x) = a + x

(* What a step makes of the calls. *)
AfterTurn(cs) == [cs EXCEPT ![Len(cs)].i = @ + 1]
AfterDescent(cs, e) == [cs EXCEPT ![Len(cs)].table = e, ![Len(cs)].level = @ - 1]

LEMMA CallTypes ==
  ASSUME NEW cs \in Seq(CallType)
  PROVE  /\ Len(cs) \in Nat /\ (cs # <<>> => Len(cs) \in 1 .. Len(cs) /\ 1 \in 1 .. Len(cs))
         /\ \A d \in 1 .. Len(cs) :
              /\ cs[d] \in CallType
              /\ cs[d].physical \in Nat /\ cs[d].virt \in Nat /\ cs[d].pages \in Nat
              /\ cs[d].level \in 1 .. 4 /\ cs[d].table \in M!Frame /\ cs[d].i \in Nat
<1>1. Len(cs) \in Nat /\ (cs # <<>> => Len(cs) \in Nat \ {0})
  BY LenProperties, EmptySeq
<1>2. \A d \in 1 .. Len(cs) : cs[d] \in CallType
  BY ElementOfSeq
<1>3. \A c \in CallType :
        /\ c.physical \in Nat /\ c.virt \in Nat /\ c.pages \in Nat
        /\ c.level \in 1 .. 4 /\ c.table \in M!Frame /\ c.i \in Nat
  BY DEF CallType
<1>4. cs # <<>> => Len(cs) \in 1 .. Len(cs) /\ 1 \in 1 .. Len(cs)
  BY <1>1
<1> QED BY <1>1, <1>2, <1>3, <1>4

LEMMA FramesPresent == \A t \in M!Frame : t # M!Absent
BY SizesKnown DEF M!Absent

LEMMA TopChanged ==
  ASSUME NEW cs \in Seq(CallType), cs # <<>>, NEW c \in CallType,
         NEW ds, ds = [cs EXCEPT ![Len(cs)] = c]
  PROVE  /\ ds \in Seq(CallType) /\ Len(ds) = Len(cs) /\ ds # <<>> /\ ds[Len(cs)] = c
         /\ \A d \in 1 .. Len(cs) - 1 : ds[d] = cs[d]
<1>1. Len(cs) \in Nat /\ Len(cs) \in 1 .. Len(cs)
  BY CallTypes
<1>2. /\ ds \in Seq(CallType) /\ Len(ds) = Len(cs)
      /\ \A j \in 1 .. Len(cs) : ds[j] = IF j = Len(cs) THEN c ELSE cs[j]
  BY <1>1, ExceptSeq
<1>3. \A d \in 1 .. Len(cs) - 1 : d \in 1 .. Len(cs) /\ d # Len(cs)
  BY <1>1
<1>4. ds # <<>>
  <2>1. Len(<<>>) = 0
    BY EmptySeq
  <2> QED BY <1>1, <1>2, <2>1
<1> QED BY <1>1, <1>2, <1>3, <1>4

(* When nothing on the way to a page and no page changes. *)
LEMMA CallsKept ==
  ASSUME NEW W, NEW V, Kept(W, V), \A v \in Nat : Page(V, v) = Page(W, v),
         NEW cs, NEW f \in Nat, NEW a \in Nat, NEW n \in Nat,
         CallsGood(W, cs, f, a, n), Filled(W, cs, f, a, n)
  PROVE  CallsGood(V, cs, f, a, n) /\ Filled(V, cs, f, a, n)
<1>1. cs \in Seq(CallType)
  BY DEF CallsGood
<1>2. ASSUME NEW d \in 1 .. Len(cs) PROVE CallGood(V, cs[d], f, a, n)
  <2>1. CallGood(W, cs[d], f, a, n)
    BY DEF CallsGood
  <2>2. cs[d].virt \in Nat /\ cs[d].level \in 1 .. 4 /\ cs[d].table # M!Absent
    BY <1>1, CallTypes, FramesPresent
  <2>3. TableAt(V, cs[d].level, cs[d].virt) = TableAt(W, cs[d].level, cs[d].virt)
    BY <2>1, <2>2 DEF Kept, CallGood
  <2> QED BY <2>1, <2>3 DEF CallGood
<1>3. \A x \in 0 .. n - 1 : Page(V, f + x) = Page(W, f + x)
  OBVIOUS
<1> QED BY <1>2, <1>3 DEF CallsGood, Filled

LEMMA CallsDescended ==
  ASSUME NEW W, NEW cs, NEW f \in Nat, NEW a \in Nat, NEW n \in Nat,
         CallsGood(W, cs, f, a, n), Filled(W, cs, f, a, n),
         cs # <<>>, NEW top, top = cs[Len(cs)], top.level > 1,
         NEW e \in M!Frame, e = W[top.table][M!Index(top.level, top.virt)],
         NEW ds, ds = AfterDescent(cs, e)
  PROVE  /\ CallsGood(W, ds, f, a, n) /\ Filled(W, ds, f, a, n)
         /\ ds # <<>> /\ Len(ds) = Len(cs)
<1>1. cs \in Seq(CallType) /\ Len(cs) \in 1 .. Len(cs) /\ Len(cs) \in Nat
  BY CallTypes DEF CallsGood
<1>2. top \in CallType /\ top.level \in 2 .. 4 /\ top.virt \in Nat /\ top.table \in M!Frame
  <2>1. top \in CallType /\ top.level \in 1 .. 4 /\ top.virt \in Nat /\ top.table \in M!Frame
    BY <1>1, CallTypes
  <2> QED BY <2>1
<1>3. PICK c : c = [top EXCEPT !.table = e, !.level = @ - 1]
  OBVIOUS
<1>4. /\ c \in CallType /\ c.level = top.level - 1 /\ c.table = e
      /\ c.virt = top.virt /\ c.pages = top.pages /\ c.physical = top.physical /\ c.i = top.i
  <2>1. top.level - 1 \in 1 .. 4
    BY <1>2
  <2> QED BY <1>2, <1>3, <2>1 DEF CallType
<1>5. ds = [cs EXCEPT ![Len(cs)] = c]
  BY <1>1, <1>3 DEF AfterDescent
<1>6. /\ ds \in Seq(CallType) /\ Len(ds) = Len(cs) /\ ds # <<>> /\ ds[Len(cs)] = c
      /\ \A d \in 1 .. Len(cs) - 1 : ds[d] = cs[d]
  BY ONLY <1>1, <1>4, <1>5, cs # <<>>, TopChanged
<1>7. CallGood(W, top, f, a, n)
  BY <1>1 DEF CallsGood
<1>8. CallGood(W, c, f, a, n)
  <2>1. TableAt(W, top.level - 1, top.virt) = e
    <3>1. TableAt(W, top.level, top.virt) = top.table
      BY <1>7 DEF CallGood
    <3>2. TableAt(W, top.level - 1, top.virt) = Below(W, top.table, top.level, top.virt)
      BY <1>2, <3>1, OneBelow
    <3> QED BY <1>2, <3>2, FramesPresent DEF Below
  <2>2. top.i = 0
    BY <1>7 DEF CallGood
  <2> QED BY <1>4, <1>7, <2>1, <2>2 DEF CallGood
<1>9. \A d \in 1 .. Len(cs) : ds[d].virt = cs[d].virt /\ ds[d].i = cs[d].i /\ CallGood(W, ds[d], f, a, n)
  <2> TAKE d \in 1 .. Len(cs)
  <2>1. CASE d = Len(cs)
    BY <1>4, <1>6, <1>8, <2>1
  <2>2. CASE d # Len(cs)
    <3>1. d \in 1 .. Len(cs) - 1
      BY <1>1, <2>2
    <3> QED BY <1>6, <3>1 DEF CallsGood
  <2> QED BY <2>1, <2>2
<1>10. \A d \in 1 .. Len(cs) - 1 : d + 1 \in 1 .. Len(cs) /\ d \in 1 .. Len(cs)
  BY <1>1
<1>11. CallsGood(W, ds, f, a, n)
  <2>1. ds[1].virt = f
    <3>1. 1 \in 1 .. Len(cs) /\ cs[1].virt = f
      BY <1>1 DEF CallsGood
    <3> QED BY <1>9, <3>1
  <2>2. \A d \in 1 .. Len(ds) - 1 :
          ds[d].level = 1 /\ ds[d].i >= 1 /\ ds[d + 1].virt = ds[d].virt + ds[d].i - 1
    <3> SUFFICES ASSUME NEW d \in 1 .. Len(cs) - 1
                 PROVE  /\ ds[d].level = 1 /\ ds[d].i >= 1
                        /\ ds[d + 1].virt = ds[d].virt + ds[d].i - 1
      BY <1>6
    <3>1. ds[d] = cs[d] /\ ds[d + 1].virt = cs[d + 1].virt
      BY <1>6, <1>9, <1>10
    <3>2. cs[d].level = 1 /\ cs[d].i >= 1 /\ cs[d + 1].virt = cs[d].virt + cs[d].i - 1
      BY DEF CallsGood
    <3> QED BY <3>1, <3>2
  <2> QED BY <1>6, <1>9, <2>1, <2>2 DEF CallsGood
<1>12. Filled(W, ds, f, a, n)
  <2>1. ASSUME NEW d \in 1 .. Len(cs) PROVE Entered(ds, d) = Entered(cs, d)
    <3>1. ds[d].i = cs[d].i
      BY <1>9
    <3> QED BY <1>6, <3>1 DEF Entered
  <2> SUFFICES ASSUME NEW d \in 1 .. Len(cs), NEW x \in 0 .. n - 1,
                      ds[d].virt <= f + x, f + x < ds[d].virt + Entered(ds, d)
               PROVE  Page(W, f + x) = a + x
    <3>1. 1 .. Len(ds) = 1 .. Len(cs)
      BY <1>6
    <3> QED BY <3>1 DEF Filled
  <2>2. ds[d].virt = cs[d].virt
    BY <1>9
  <2>3. cs[d].virt <= f + x /\ f + x < cs[d].virt + Entered(cs, d)
    BY <2>1, <2>2
  <2> QED BY <2>3 DEF Filled
<1> QED BY <1>6, <1>11, <1>12

(* One turn of the loop of the innermost call. *)
LEMMA TopTypes ==
  ASSUME NEW cs \in Seq(CallType), cs # <<>>, NEW top, top = cs[Len(cs)]
  PROVE  /\ Len(cs) \in 1 .. Len(cs) /\ Len(cs) \in Nat \ {0}
         /\ top \in CallType /\ top.virt \in Nat /\ top.i \in Nat /\ top.pages \in Nat
         /\ top.physical \in Nat /\ top.table \in M!Frame /\ top.level \in 1 .. 4
<1>1. Len(cs) \in 1 .. Len(cs) /\ Len(cs) \in Nat
  BY CallTypes
<1>2. Len(cs) \in Nat \ {0}
  BY <1>1
<1> QED BY <1>1, <1>2, CallTypes

LEMMA TurnedCalls ==
  ASSUME NEW cs \in Seq(CallType), cs # <<>>,
         NEW top, top = cs[Len(cs)], top.level = 1,
         NEW ds, ds = AfterTurn(cs)
  PROVE  /\ ds \in Seq(CallType) /\ ds # <<>> /\ Len(ds) = Len(cs)
         /\ ds[Len(cs)] = [top EXCEPT !.i = top.i + 1]
         /\ \A d \in 1 .. Len(cs) - 1 : ds[d] = cs[d]
<1>1. Len(cs) \in 1 .. Len(cs) /\ Len(cs) \in Nat
  BY TopTypes
<1>2. /\ top \in CallType /\ top.virt \in Nat /\ top.table \in M!Frame /\ top.i \in Nat
      /\ top.pages \in Nat /\ top.physical \in Nat
  BY <1>1, TopTypes
<1>3. PICK c : c = [top EXCEPT !.i = top.i + 1]
  OBVIOUS
<1>4. c \in CallType
  BY <1>2, <1>3 DEF CallType
<1>5. ds = [cs EXCEPT ![Len(cs)] = c]
  BY <1>1, <1>3 DEF AfterTurn
<1>6. /\ ds \in Seq(CallType) /\ Len(ds) = Len(cs) /\ ds # <<>> /\ ds[Len(cs)] = c
      /\ \A d \in 1 .. Len(cs) - 1 : ds[d] = cs[d]
  BY ONLY <1>1, <1>4, <1>5, cs \in Seq(CallType), cs # <<>>, TopChanged
<1> QED BY <1>3, <1>6

LEMMA Turned ==
  ASSUME NEW W, NEW cs, NEW f \in Nat, NEW a \in Nat, NEW n \in Nat,
         CallsGood(W, cs, f, a, n),
         cs # <<>>, NEW top, top = cs[Len(cs)], top.level = 1, top.i < top.pages,
         NEW ds, ds = AfterTurn(cs)
  PROVE  CallsGood(W, ds, f, a, n)
<1>1. cs \in Seq(CallType) /\ Len(cs) \in 1 .. Len(cs) /\ Len(cs) \in Nat
  BY TopTypes DEF CallsGood
<1>2. /\ top \in CallType /\ top.virt \in Nat /\ top.table \in M!Frame /\ top.i \in Nat
      /\ top.pages \in Nat /\ top.physical \in Nat
  BY <1>1, TopTypes
<1>3. PICK c : c = [top EXCEPT !.i = top.i + 1]
  OBVIOUS
<1>4. /\ c \in CallType /\ c.level = 1 /\ c.table = top.table /\ c.virt = top.virt
      /\ c.pages = top.pages /\ c.physical = top.physical /\ c.i = top.i + 1
  BY <1>2, <1>3 DEF CallType
<1>6. /\ ds \in Seq(CallType) /\ Len(ds) = Len(cs) /\ ds # <<>> /\ ds[Len(cs)] = c
      /\ \A d \in 1 .. Len(cs) - 1 : ds[d] = cs[d]
  BY <1>1, <1>3, TurnedCalls
<1>7. CallGood(W, top, f, a, n)
  BY <1>1 DEF CallsGood
<1>8. CallGood(W, c, f, a, n)
  <2>1. c.i <= c.pages
    BY <1>2, <1>4
  <2> QED BY <1>4, <1>7, <2>1 DEF CallGood
<1>9. \A d \in 1 .. Len(cs) : ds[d].virt = cs[d].virt /\ CallGood(W, ds[d], f, a, n)
  <2> TAKE d \in 1 .. Len(cs)
  <2>1. CASE d = Len(cs)
    BY <1>4, <1>6, <1>8, <2>1
  <2>2. CASE d # Len(cs)
    <3>1. d \in 1 .. Len(cs) - 1
      BY <1>1, <2>2
    <3> QED BY <1>6, <3>1 DEF CallsGood
  <2> QED BY <2>1, <2>2
<1>10. \A d \in 1 .. Len(cs) - 1 : d + 1 \in 1 .. Len(cs) /\ d \in 1 .. Len(cs)
  BY <1>1
<1>11. CallsGood(W, ds, f, a, n)
  <2>1. ds[1].virt = f
    <3>1. 1 \in 1 .. Len(cs) /\ cs[1].virt = f
      BY <1>1 DEF CallsGood
    <3> QED BY <1>9, <3>1
  <2>2. \A d \in 1 .. Len(ds) - 1 :
          ds[d].level = 1 /\ ds[d].i >= 1 /\ ds[d + 1].virt = ds[d].virt + ds[d].i - 1
    <3> SUFFICES ASSUME NEW d \in 1 .. Len(cs) - 1
                 PROVE  /\ ds[d].level = 1 /\ ds[d].i >= 1
                        /\ ds[d + 1].virt = ds[d].virt + ds[d].i - 1
      BY <1>6
    <3>1. ds[d] = cs[d] /\ ds[d + 1].virt = cs[d + 1].virt
      BY <1>6, <1>9, <1>10
    <3>2. cs[d].level = 1 /\ cs[d].i >= 1 /\ cs[d + 1].virt = cs[d].virt + cs[d].i - 1
      BY DEF CallsGood
    <3> QED BY <3>1, <3>2
  <2> QED BY <1>6, <1>9, <2>1, <2>2 DEF CallsGood
<1> QED BY <1>11

(* Two of the kernel's pages are not the same page of the address space. *)
LEMMA PagesApart ==
  ASSUME NEW f \in Nat, NEW n \in Nat, n <= NumFrames, NEW x \in 0 .. n - 1, NEW y \in 0 .. n - 1,
         ((f + x) % NumFrames) = ((f + y) % NumFrames)
  PROVE  x = y
<1>1. PICK m \in Nat \ {0} : m = NumFrames
  BY SizesKnown
<1>2. PICK v \in Nat, w \in Nat : v = f + x /\ w = f + y
  OBVIOUS
<1>3. PICK q \in Nat, r \in 0 .. m - 1 : v = m * q + r /\ q = v \div m /\ r = (v % m)
  BY QuotientAndRest
<1>4. PICK p \in Nat, s \in 0 .. m - 1 : w = m * p + s /\ p = w \div m /\ s = (w % m)
  BY QuotientAndRest
<1>5. r = s
  BY <1>1, <1>2, <1>3, <1>4
<1>6. PICK d \in Int : d = q - p
  OBVIOUS
<1>7. m * d = x - y
  <2>1. m * d = m * q - m * p
    BY <1>6
  <2>2. m * q + r = f + x /\ m * p + r = f + y
    BY <1>2, <1>3, <1>4, <1>5
  <2>3. m * q \in Int /\ m * p \in Int
    OBVIOUS
  <2> QED BY ONLY <2>1, <2>2, <2>3, f \in Int, x \in Int, y \in Int, r \in Int
<1>8. d >= 1 => m * d >= m
  <2>1. d >= 1 => m * (d - 1) >= 0 /\ m * d = m * (d - 1) + m
    OBVIOUS
  <2> QED BY <2>1
<1>9. d <= -1 => m * d <= -m
  <2>1. d <= -1 => m * (-1 - d) >= 0 /\ m * d = -(m * (-1 - d)) - m
    OBVIOUS
  <2> QED BY <2>1
<1>10. x - y < m /\ x - y > -m
  BY <1>1
<1> QED BY <1>1, <1>6, <1>7, <1>8, <1>9, <1>10

LEMMA SameTable ==
  ASSUME NEW W, NEW v \in Nat, NEW k \in Nat, M!Index(1, v) + k < Entries
  PROVE  At1(W, v + k) = At1(W, v) /\ M!Index(1, v + k) = M!Index(1, v) + k
<1>1. \A l \in 2 .. 4 : M!Index(l, v + k) = M!Index(l, v)
  BY IndicesInTable
<1>2. M!Index(2, v + k) = M!Index(2, v) /\ M!Index(3, v + k) = M!Index(3, v)
      /\ M!Index(4, v + k) = M!Index(4, v)
  <2>1. 2 \in 2 .. 4 /\ 3 \in 2 .. 4 /\ 4 \in 2 .. 4
    OBVIOUS
  <2> QED BY <1>1, <2>1
<1>3. M!Index(1, v + k) = M!Index(1, v) + k
  BY IndicesInTable
<1> QED BY <1>2, <1>3 DEF At1, At2, At3, Below

(* The loop enters a page in the table it has come to. *)
LEMMA CallsTurned ==
  ASSUME NEW W \in Words, NEW T \in SUBSET M!Frame, NEW way, Tree(W, T, way),
         NEW cs, NEW f \in Nat, NEW a \in Nat, NEW n \in Nat, n <= NumFrames,
         CallsGood(W, cs, f, a, n), Filled(W, cs, f, a, n),
         cs # <<>>, NEW top, top = cs[Len(cs)], top.level = 1, top.i < top.pages,
         M!Index(1, top.virt) + top.i < Entries,
         NEW V, V = WithEntry(W, top.table, M!Index(1, top.virt) + top.i, top.physical + top.i),
         NEW ds, ds = AfterTurn(cs)
  PROVE  /\ V \in Words /\ Tree(V, T, way)
         /\ CallsGood(V, ds, f, a, n) /\ Filled(V, ds, f, a, n)
         /\ ds # <<>> /\ Len(ds) = Len(cs)
         /\ \A v \in Nat : \/ Page(V, v) = Page(W, v)
                           \/ \E x \in 0 .. n - 1 : (v % NumFrames) = ((f + x) % NumFrames)
<1>1. /\ CallsGood(W, ds, f, a, n) /\ ds # <<>> /\ Len(ds) = Len(cs) /\ Len(cs) \in Nat \ {0}
      /\ ds[Len(cs)] = [top EXCEPT !.i = top.i + 1]
      /\ \A d \in 1 .. Len(cs) - 1 : ds[d] = cs[d]
      /\ top \in CallType /\ top.virt \in Nat /\ top.i \in Nat /\ top.pages \in Nat
      /\ top.physical \in Nat /\ top.table \in M!Frame
      /\ CallGood(W, top, f, a, n)
  <2>1. cs \in Seq(CallType)
    BY DEF CallsGood
  <2>2. /\ Len(cs) \in 1 .. Len(cs) /\ Len(cs) \in Nat \ {0}
        /\ top \in CallType /\ top.virt \in Nat /\ top.i \in Nat /\ top.pages \in Nat
        /\ top.physical \in Nat /\ top.table \in M!Frame
    BY <2>1, TopTypes
  <2>3. CallGood(W, top, f, a, n)
    BY <2>2 DEF CallsGood
  <2>4. CallsGood(W, ds, f, a, n)
    BY Turned
  <2>5. /\ ds # <<>> /\ Len(ds) = Len(cs) /\ ds[Len(cs)] = [top EXCEPT !.i = top.i + 1]
        /\ \A d \in 1 .. Len(cs) - 1 : ds[d] = cs[d]
    BY <2>1, TurnedCalls
  <2> QED BY <2>2, <2>3, <2>4, <2>5
<1>2. PICK t \in M!Frame : t = top.table /\ t = At1(W, top.virt)
  BY <1>1, LastTable DEF CallGood
<1>3. t \in T /\ Len(way[t]) = 3
  <2>1. 1 \in 1 .. 4 /\ TableAt(W, 1, top.virt) = t /\ t # M!Absent
    BY <1>2, LastTable, FramesPresent
  <2>2. t \in T /\ way[t] = Way(1, top.virt)
    BY <1>1, <2>1, Reached
  <2> QED BY <1>1, <2>2, WaysShort
<1>4. PICK s \in M!Slot : s = M!Index(1, top.virt) + top.i
  <2>1. M!Index(1, top.virt) \in M!Slot
    BY <1>1, Indices
  <2>2. PICK k \in Int : k = M!Index(1, top.virt)
    BY <2>1 DEF M!Slot
  <2>3. k >= 0 /\ k + top.i < Entries /\ top.i \in Nat
    BY <1>1, <2>1, <2>2 DEF M!Slot
  <2>4. k + top.i \in 0 .. Entries - 1
    BY <2>3, SizesKnown
  <2> QED BY <2>2, <2>4 DEF M!Slot
<1>5. PICK p \in Nat, x0 \in 0 .. n - 1 :
        p = top.virt + top.i /\ p = f + x0 /\ top.physical + top.i = a + x0
  <2>1. top.virt >= f /\ top.virt + top.pages = f + n /\ top.physical = a + (top.virt - f)
    BY <1>1 DEF CallGood
  <2>2. PICK tv \in Nat, ti \in Nat, tp \in Nat, th \in Nat :
          tv = top.virt /\ ti = top.i /\ tp = top.pages /\ th = top.physical
    BY <1>1
  <2>3. tv + ti \in Nat /\ tv + ti - f \in 0 .. n - 1
        /\ tv + ti = f + (tv + ti - f) /\ th + ti = a + (tv + ti - f)
    <3>1. tv >= f /\ tv + tp = f + n /\ th = a + (tv - f) /\ ti < tp
      BY <2>1, <2>2
    <3> QED BY ONLY <3>1, tv \in Nat, ti \in Nat, tp \in Nat, th \in Nat, f \in Nat, n \in Nat,
            a \in Nat
  <2>4. PICK x0 \in 0 .. n - 1 : x0 = tv + ti - f
    BY <2>3
  <2>5. tv + ti = f + x0 /\ th + ti = a + x0
    BY <2>3, <2>4
  <2>6. PICK p \in Nat : p = tv + ti
    BY <2>3
  <2>7. p = top.virt + top.i /\ p = f + x0 /\ top.physical + top.i = a + x0
    BY <2>2, <2>5, <2>6
  <2> QED BY <2>7
<1>6. At1(W, p) = t /\ M!Index(1, p) = s
  <2>1. PICK tv \in Nat, ti \in Nat : tv = top.virt /\ ti = top.i /\ M!Index(1, tv) + ti < Entries
    BY <1>1
  <2>2. At1(W, tv + ti) = At1(W, tv) /\ M!Index(1, tv + ti) = M!Index(1, tv) + ti
    BY ONLY <2>1, tv \in Nat, ti \in Nat, SameTable
  <2> QED BY <1>2, <1>4, <1>5, <2>1, <2>2
<1>7. /\ V \in Words /\ Tree(V, T, way) /\ Kept(W, V)
      /\ \A v \in Nat : Page(V, v) = IF At1(W, v) = t /\ M!Index(1, v) = s THEN a + x0
                                     ELSE Page(W, v)
  <2>1. V = WithEntry(W, t, s, a + x0) /\ a + x0 \in Int
    BY <1>2, <1>4, <1>5
  <2>2. V \in Words
    BY ONLY <2>1, <1>3, s \in M!Slot, W \in Words, T \in SUBSET M!Frame, Tree(W, T, way), TreeFilled
  <2>3. Tree(V, T, way)
    BY ONLY <2>1, <1>3, s \in M!Slot, W \in Words, T \in SUBSET M!Frame, Tree(W, T, way), TreeFilled
  <2>4. Kept(W, V)
    BY ONLY <2>1, <1>3, s \in M!Slot, W \in Words, T \in SUBSET M!Frame, Tree(W, T, way), TreeFilled
  <2>5. Entry1(W, V, t, s, a + x0)
    BY ONLY <2>1, <1>3, s \in M!Slot, W \in Words, T \in SUBSET M!Frame, Tree(W, T, way), TreeFilled
  <2> QED BY <2>2, <2>3, <2>4, <2>5 DEF Entry1
<1>8. ASSUME NEW v \in Nat, At1(W, v) = t, M!Index(1, v) = s
      PROVE  (v % NumFrames) = ((f + x0) % NumFrames)
  BY <1>2, <1>5, <1>6, <1>8, OnePage, FramesPresent
<1>9. ASSUME NEW x \in 0 .. n - 1 PROVE Page(V, f + x) = IF x = x0 THEN a + x0 ELSE Page(W, f + x)
  <2>1. f + x \in Nat
    OBVIOUS
  <2>2. CASE At1(W, f + x) = t /\ M!Index(1, f + x) = s
    <3>1. x = x0
      BY <1>8, <2>1, <2>2, PagesApart
    <3> QED BY <1>7, <2>1, <2>2, <3>1
  <2>3. CASE ~(At1(W, f + x) = t /\ M!Index(1, f + x) = s)
    <3>1. x # x0
      BY <1>5, <1>6, <2>3
    <3> QED BY <1>7, <2>1, <2>3, <3>1
  <2> QED BY <2>2, <2>3
<1>10. CallsGood(V, ds, f, a, n)
  <2>1. ds \in Seq(CallType)
    BY <1>1 DEF CallsGood
  <2>2. ASSUME NEW d \in 1 .. Len(ds) PROVE CallGood(V, ds[d], f, a, n)
    <3>1. CallGood(W, ds[d], f, a, n)
      BY <1>1 DEF CallsGood
    <3>2. ds[d].virt \in Nat /\ ds[d].level \in 1 .. 4 /\ ds[d].table # M!Absent
      BY <2>1, CallTypes, FramesPresent
    <3>3. TableAt(V, ds[d].level, ds[d].virt) = TableAt(W, ds[d].level, ds[d].virt)
      BY <1>7, <3>1, <3>2 DEF Kept, CallGood
    <3> QED BY <3>1, <3>3 DEF CallGood
  <2> QED BY <1>1, <2>2 DEF CallsGood
<1>11. Filled(V, ds, f, a, n)
  <2> SUFFICES ASSUME NEW d \in 1 .. Len(cs), NEW x \in 0 .. n - 1,
                      ds[d].virt <= f + x, f + x < ds[d].virt + Entered(ds, d)
               PROVE  Page(V, f + x) = a + x
    BY <1>1 DEF Filled
  <2>1. CASE x = x0
    BY <1>9, <2>1
  <2>2. CASE x # x0
    <3>1. Page(V, f + x) = Page(W, f + x)
      BY <1>9, <2>2
    <3>2. CASE d = Len(cs)
      <4>1. ds[d].virt = top.virt /\ Entered(ds, d) = top.i + 1 /\ Entered(cs, d) = top.i
        BY <1>1, <3>2 DEF Entered, CallType
      <4>2. PICK tv \in Nat, ti \in Nat : tv = top.virt /\ ti = top.i
        BY <1>1
      <4>3. tv <= f + x /\ f + x < tv + (ti + 1) /\ tv + ti = f + x0
        BY <1>5, <4>1, <4>2
      <4>4. tv <= f + x /\ f + x < tv + ti
        BY ONLY <2>2, <4>3, tv \in Nat, ti \in Nat, f \in Nat, x \in Int, x0 \in Int
      <4>5. cs[d].virt <= f + x /\ f + x < cs[d].virt + Entered(cs, d)
        BY <3>2, <4>1, <4>2, <4>4
      <4> QED BY <3>1, <4>5 DEF Filled
    <3>3. CASE d # Len(cs)
      <4>1. d \in 1 .. Len(cs) - 1
        BY <1>1, <3>3
      <4>2. ds[d] = cs[d] /\ Entered(ds, d) = Entered(cs, d)
        BY <1>1, <3>3, <4>1 DEF Entered
      <4> QED BY <3>1, <4>2 DEF Filled
    <3> QED BY <3>2, <3>3
  <2> QED BY <2>1, <2>2
<1>12. \A v \in Nat : \/ Page(V, v) = Page(W, v)
                      \/ \E x \in 0 .. n - 1 : (v % NumFrames) = ((f + x) % NumFrames)
  BY <1>7, <1>8
<1> QED BY <1>1, <1>7, <1>10, <1>11, <1>12

(* The call that is made for the page that did not fit and all after it. *)
Handed(cs) ==
  LET top == cs[Len(cs)]
  IN  M!Call(top.physical + top.i, top.virt + top.i, top.pages - top.i)

AfterStray(cs) == Append(AfterTurn(cs), Handed(cs))
AfterReturn(cs) == SubSeq(cs, 1, Len(cs) - 1)

(* A page that does not fit in the table is handed on, with all that follow. *)
LEMMA CallsStrayed ==
  ASSUME NEW W, NEW cs, NEW f \in Nat, NEW a \in Nat, NEW n \in Nat,
         CallsGood(W, cs, f, a, n), Filled(W, cs, f, a, n),
         cs # <<>>, NEW top, top = cs[Len(cs)], top.level = 1, top.i < top.pages,
         NEW ds, ds = AfterStray(cs)
  PROVE  CallsGood(W, ds, f, a, n) /\ Filled(W, ds, f, a, n) /\ ds # <<>>
<1>1. cs \in Seq(CallType)
  BY DEF CallsGood
<1>2. PICK m \in Nat \ {0} : m = Len(cs) /\ m \in 1 .. m
  BY <1>1, TopTypes
<1>3. PICK tv \in Nat, ti \in Nat, tp \in Nat, th \in Nat :
        tv = top.virt /\ ti = top.i /\ tp = top.pages /\ th = top.physical /\ ti < tp
  BY <1>1, TopTypes
<1>4. top \in CallType /\ CallGood(W, top, f, a, n)
  BY <1>1, <1>2, TopTypes DEF CallsGood
<1>5. PICK bs : bs = AfterTurn(cs)
  OBVIOUS
<1>6. /\ bs \in Seq(CallType) /\ bs # <<>> /\ Len(bs) = m /\ bs[m] = [top EXCEPT !.i = top.i + 1]
      /\ \A d \in 1 .. m - 1 : bs[d] = cs[d]
  BY <1>1, <1>2, <1>5, TurnedCalls
<1>7. CallsGood(W, bs, f, a, n)
  BY <1>5, Turned
<1>8. PICK c : c = Handed(cs)
  OBVIOUS
<1>9. /\ c \in CallType /\ c.physical = th + ti /\ c.virt = tv + ti /\ c.pages = tp - ti
      /\ c.level = 4 /\ c.table = cr3 /\ c.i = 0
  <2>1. c = [physical |-> th + ti, virt |-> tv + ti, pages |-> tp - ti, level |-> 4,
             table |-> cr3, i |-> 0]
    BY <1>3, <1>8 DEF Handed, M!Call
  <2>2. th + ti \in Nat /\ tv + ti \in Nat /\ tp - ti \in Nat /\ 4 \in 1 .. 4 /\ 0 \in Nat
    <3>1. ti < tp
      BY <1>3
    <3> QED BY ONLY <3>1, th \in Nat, tv \in Nat, ti \in Nat, tp \in Nat
  <2>3. cr3 \in M!Frame
    BY ImageAssumption
  <2> QED BY <2>1, <2>2, <2>3 DEF CallType
<1>10. CallGood(W, c, f, a, n)
  <2>1. tv >= f /\ tv + tp = f + n /\ th = a + (tv - f)
    BY <1>3, <1>4 DEF CallGood
  <2>2. tv + ti >= f /\ (tv + ti) + (tp - ti) = f + n /\ th + ti = a + ((tv + ti) - f) /\ 0 <= tp - ti
    <3>1. ti < tp
      BY <1>3
    <3> QED BY ONLY <2>1, <3>1, th \in Nat, tv \in Nat, ti \in Nat, tp \in Nat,
                    f \in Nat, a \in Nat, n \in Nat
  <2>3. TableAt(W, 4, c.virt) = cr3
    BY DEF TableAt
  <2> QED BY <1>9, <2>2, <2>3 DEF CallGood
<1>11. /\ ds \in Seq(CallType) /\ ds # <<>> /\ Len(ds) = m + 1 /\ ds[m + 1] = c
       /\ \A d \in 1 .. m : ds[d] = bs[d]
  <2>1. ds = Append(bs, c)
    BY <1>5, <1>8 DEF AfterStray
  <2> QED BY <1>6, <1>9, <2>1, AppendProperties
<1>12. bs[m].virt = tv /\ bs[m].i = ti + 1 /\ bs[m].level = 1
  <2>1. bs[m].virt = top.virt /\ bs[m].i = top.i + 1 /\ bs[m].level = top.level
    BY <1>4, <1>6 DEF CallType
  <2> QED BY <1>3, <2>1
<1>13. CallsGood(W, ds, f, a, n)
  <2>1. \A d \in 1 .. Len(ds) : CallGood(W, ds[d], f, a, n)
    <3> TAKE d \in 1 .. Len(ds)
    <3>1. CASE d = m + 1
      BY <1>10, <1>11, <3>1
    <3>2. CASE d # m + 1
      <4>1. d \in 1 .. m
        BY <1>11, <3>2
      <4> QED BY <1>6, <1>7, <1>11, <4>1 DEF CallsGood
    <3> QED BY <3>1, <3>2
  <2>2. ds[1].virt = f
    <3>1. 1 \in 1 .. m
      OBVIOUS
    <3> QED BY <1>6, <1>7, <1>11, <3>1 DEF CallsGood
  <2>3. ASSUME NEW d \in 1 .. Len(ds) - 1
        PROVE  ds[d].level = 1 /\ ds[d].i >= 1 /\ ds[d + 1].virt = ds[d].virt + ds[d].i - 1
    <3>1. d \in 1 .. m /\ ds[d] = bs[d]
      BY <1>11
    <3>2. CASE d = m
      <4>1. ds[d + 1] = c /\ ti + 1 >= 1 /\ tv + ti = tv + (ti + 1) - 1
        BY <1>11, <3>2
      <4> QED BY <1>9, <1>12, <3>1, <3>2, <4>1
    <3>3. CASE d # m
      <4>1. d \in 1 .. m - 1 /\ d + 1 \in 1 .. m
        BY <3>1, <3>3
      <4>2. ds[d + 1] = bs[d + 1]
        BY <1>11, <4>1
      <4> QED BY <1>6, <1>7, <3>1, <4>1, <4>2 DEF CallsGood
    <3> QED BY <3>2, <3>3
  <2> QED BY <1>11, <2>1, <2>2, <2>3 DEF CallsGood
<1>14. Filled(W, ds, f, a, n)
  <2> SUFFICES ASSUME NEW d \in 1 .. Len(ds), NEW x \in 0 .. n - 1,
                      ds[d].virt <= f + x, f + x < ds[d].virt + Entered(ds, d)
               PROVE  Page(W, f + x) = a + x
    BY DEF Filled
  <2>1. CASE d = m + 1
    <3>1. Entered(ds, d) = 0 /\ ds[d].virt = tv + ti
      BY <1>9, <1>11, <2>1 DEF Entered
    <3> QED BY <3>1
  <2>2. CASE d = m
    <3>1. d # Len(ds) /\ ds[d] = bs[m]
      BY <1>11, <2>2
    <3>2. Entered(ds, d) = ti /\ ds[d].virt = tv
      <4>1. ds[d].i = ti + 1 /\ ds[d].virt = tv
        BY <1>12, <3>1
      <4>2. ti + 1 - 1 = ti
        OBVIOUS
      <4> QED BY <3>1, <4>1, <4>2 DEF Entered
    <3>3. cs[m].virt = tv /\ Entered(cs, m) = ti
      BY <1>2, <1>3 DEF Entered
    <3> QED BY <1>2, <3>2, <3>3 DEF Filled
  <2>3. CASE d # m /\ d # m + 1
    <3>1. d \in 1 .. m - 1 /\ d \in 1 .. m
      BY <1>11, <2>3
    <3>2. ds[d] = cs[d] /\ d # Len(ds) /\ d # Len(cs)
      BY <1>2, <1>6, <1>11, <2>3, <3>1
    <3>3. Entered(ds, d) = Entered(cs, d)
      BY <3>2 DEF Entered
    <3> QED BY <1>2, <3>1, <3>2, <3>3 DEF Filled
  <2> QED BY <2>1, <2>2, <2>3
<1> QED BY <1>11, <1>13, <1>14

(* A call returns with every page it was asked for entered. *)
LEMMA CallsReturned ==
  ASSUME NEW W, NEW cs, NEW f \in Nat, NEW a \in Nat, NEW n \in Nat,
         CallsGood(W, cs, f, a, n), Filled(W, cs, f, a, n),
         cs # <<>>, NEW top, top = cs[Len(cs)], top.level = 1, top.i = top.pages,
         NEW ds, ds = AfterReturn(cs)
  PROVE  /\ CallsGood(W, ds, f, a, n) /\ Filled(W, ds, f, a, n)
         /\ ds = <<>> => Complete(W, f, a, n)
<1>1. cs \in Seq(CallType)
  BY DEF CallsGood
<1>2. PICK m \in Nat \ {0} : m = Len(cs) /\ m \in 1 .. m
  BY <1>1, TopTypes
<1>3. PICK tv \in Nat, ti \in Nat : tv = top.virt /\ ti = top.i /\ ti = top.pages
  BY <1>1, TopTypes
<1>4. tv + ti = f + n
  BY <1>2, <1>3 DEF CallsGood, CallGood
<1>5. \A x \in 0 .. n - 1 : tv <= f + x => Page(W, f + x) = a + x
  <2> TAKE x \in 0 .. n - 1
  <2>1. cs[m].virt = tv /\ Entered(cs, m) = ti
    BY <1>2, <1>3 DEF Entered
  <2>2. f + x < tv + ti
    BY <1>4
  <2> QED BY <1>2, <2>1, <2>2 DEF Filled
<1>6. /\ ds \in Seq(CallType) /\ Len(ds) = m - 1 /\ \A d \in 1 .. m - 1 : ds[d] = cs[d]
  <2>1. \A j \in 1 .. m - 1 : cs[j] \in CallType
    BY <1>1, <1>2, CallTypes
  <2>2. 1 \in Int /\ m - 1 \in Int /\ \A j \in 1 .. m - 1 : 1 + j - 1 = j
    OBVIOUS
  <2>3. /\ ds \in Seq(CallType) /\ Len(ds) = (IF 1 <= m - 1 THEN m - 1 - 1 + 1 ELSE 0)
        /\ \A j \in 1 .. m - 1 - 1 + 1 : ds[j] = cs[1 + j - 1]
    BY <1>2, <2>1, <2>2, SubSeqProperties DEF AfterReturn
  <2>4. m - 1 - 1 + 1 = m - 1 /\ (~(1 <= m - 1) => m - 1 = 0)
    OBVIOUS
  <2> QED BY <2>2, <2>3, <2>4
<1>7. CallsGood(W, ds, f, a, n)
  <2>1. \A d \in 1 .. m - 1 : d \in 1 .. m
    OBVIOUS
  <2>2. \A d \in 1 .. Len(ds) : CallGood(W, ds[d], f, a, n)
    BY <1>2, <1>6, <2>1 DEF CallsGood
  <2>3. ds # <<>> => ds[1].virt = f
    <3> SUFFICES ASSUME ds # <<>> PROVE ds[1].virt = f
      OBVIOUS
    <3>1. Len(ds) \in Nat \ {0}
      BY <1>6, EmptySeq
    <3>2. 1 \in 1 .. m - 1
      BY <1>6, <3>1
    <3> QED BY <1>6, <3>2 DEF CallsGood
  <2>4. ASSUME NEW d \in 1 .. Len(ds) - 1
        PROVE  ds[d].level = 1 /\ ds[d].i >= 1 /\ ds[d + 1].virt = ds[d].virt + ds[d].i - 1
    <3>1. d \in 1 .. m - 1 /\ d + 1 \in 1 .. m - 1
      BY <1>6
    <3> QED BY <1>2, <1>6, <3>1 DEF CallsGood
  <2> QED BY <1>6, <2>2, <2>3, <2>4 DEF CallsGood
<1>8. ASSUME NEW d \in 1 .. Len(ds), NEW x \in 0 .. n - 1,
             ds[d].virt <= f + x, f + x < ds[d].virt + Entered(ds, d)
      PROVE  Page(W, f + x) = a + x
  <2>1. d \in 1 .. m - 1 /\ d \in 1 .. m /\ ds[d] = cs[d] /\ d # m
    BY <1>6
  <2>2. PICK dv \in Nat, di \in Nat : dv = cs[d].virt /\ di = cs[d].i
    BY <1>1, <1>2, <2>1, CallTypes
  <2>3. CASE f + x < dv + di - 1
    <3>1. Entered(cs, d) = di - 1
      BY <1>2, <2>1, <2>2 DEF Entered
    <3>2. cs[d].virt <= f + x /\ f + x < cs[d].virt + Entered(cs, d)
      BY <1>8, <2>1, <2>2, <2>3, <3>1
    <3> QED BY <1>2, <2>1, <3>2 DEF Filled
  <2>4. CASE ~(f + x < dv + di - 1)
    <3>1. d = m - 1
      <4>1. CASE d # Len(ds)
        <5>1. Entered(ds, d) = di - 1
          BY <2>1, <2>2, <4>1 DEF Entered
        <5>2. f + x < dv + (di - 1)
          BY <1>8, <2>1, <2>2, <5>1
        <5> QED BY <2>4, <5>2
      <4> QED BY <1>6, <4>1
    <3>2. tv = dv + di - 1
      <4>1. d \in 1 .. Len(cs) - 1 /\ d + 1 = m
        BY <1>2, <2>1, <3>1
      <4>2. cs[d + 1].virt = cs[d].virt + cs[d].i - 1
        BY <4>1 DEF CallsGood
      <4> QED BY <1>2, <1>3, <2>2, <4>1, <4>2
    <3> QED BY <1>5, <2>4, <3>2
  <2> QED BY <2>3, <2>4
<1>9. ds = <<>> => Complete(W, f, a, n)
  <2> SUFFICES ASSUME ds = <<>> PROVE \A x \in 0 .. n - 1 : Page(W, f + x) = a + x
    BY DEF Complete
  <2>1. m = 1
    <3>1. Len(<<>>) = 0
      BY EmptySeq
    <3> QED BY <1>6, <3>1
  <2>2. tv = f
    BY <1>2, <1>3, <2>1 DEF CallsGood
  <2> QED BY <1>5, <2>2
<1> QED BY <1>7, <1>8, <1>9 DEF Filled

------------------------------------------------------------------------------
(***************************************************************************)
(* The page tables the firmware hands over: a tree, in frames that are not *)
(* given away again and of which frame 0 is none.                          *)
(***************************************************************************)
FirmwareTrees ==
  /\ Remains \in [M!Slot -> Int]
  /\ \A given \in FirmwareTables :
       /\ DOMAIN given \subseteq M!Frame \ (FreeFrames \cup {M!NULL})
       /\ \A t \in DOMAIN given : given[t] \in [M!Slot -> Int]
       /\ \E way : Tree(given, DOMAIN given, way)

(* As far as RestAsBefore and ImageFaithful follow the mapping. *)
Sound == NothingCleared /\ (OneTable \/ strayed \cap tables = {})

FirstFrame == PageOf(AllocatedMemory)

PhaseInv ==
  /\ mapping \in {"waiting", "running", "done"} /\ failures \in Nat
  /\ mapping = "waiting" => strayed = {} /\ failures = 0
  /\ mapping = "running" <=> calls # <<>>
  /\ mapping # "waiting" => pc = "loaded"

FitsInv == pages <= NumFrames

TreesInv ==
  /\ words \in Words /\ tables \in SUBSET M!Frame /\ available \in SUBSET M!Frame
  /\ available \subseteq FreeFrames /\ available \cap tables \subseteq {M!NULL}
  /\ failures = 0 => available \cap tables = {} /\ (M!NULL \in tables => ~PageZeroSpare)
  /\ \E way : Tree(words, tables, way)

CallsInv ==
  /\ CallsGood(words, calls, FirstPage, FirstFrame, pages)
  /\ Filled(words, calls, FirstPage, FirstFrame, pages)
  /\ mapping = "done" => Complete(words, FirstPage, FirstFrame, pages)

OneTableInv == OneTable => strayed = {} /\ Len(calls) <= 1

SeenInv ==
  \A v \in VirtualPage : mapping = "waiting" \/ v \notin Asked => Page(words, v) = before[v]

SoundInv == TreesInv /\ CallsInv /\ OneTableInv /\ SeenInv

MapInv == TypeOK /\ PhaseInv /\ FitsInv /\ (Sound => SoundInv)

LEMMA KernelPages ==
  ASSUME TypeOK
  PROVE  FirstPage \in Nat /\ FirstFrame \in Nat /\ pages \in Nat
<1>1. headers[1].vaddr \in Nat /\ AllocatedMemory \in Nat
  <2>1. 1 \in 1 .. Len(headers)
    BY HeaderTypes
  <2>2. headers[1].vaddr \in Addr
    BY <2>1, HeaderTypes
  <2>3. AllocatedMemory \in Addr
    BY LoaderAssumption DEF TypeOK, Addr
  <2> QED BY <2>2, <2>3 DEF Addr
<1>2. PageSize \in Nat \ {0}
  BY LoaderAssumption
<1>3. \A x \in Nat : x \div PageSize \in Nat
  BY <1>2, Divided
<1> QED BY <1>1, <1>3 DEF FirstPage, FirstFrame, PageOf, TypeOK

(* The virtual addresses that are not asked for. *)
LEMMA NotAsked ==
  ASSUME TypeOK, NEW v \in VirtualPage, NEW x \in 0 .. pages - 1,
         (v % NumFrames) = ((FirstPage + x) % NumFrames)
  PROVE  v \in Asked
<1>1. PICK m \in Nat \ {0} : m = NumFrames /\ v \in 0 .. m - 1
  BY SizesKnown
<1>2. (v % m) = v
  BY <1>1
<1> QED BY <1>1, <1>2 DEF Asked

(* No calls at work. *)
LEMMA NoCalls ==
  ASSUME NEW W, NEW f, NEW a, NEW n
  PROVE  CallsGood(W, <<>>, f, a, n) /\ Filled(W, <<>>, f, a, n)
<1>1. <<>> \in Seq(CallType) /\ Len(<<>>) = 0
  BY EmptySeq
<1>2. \A d \in 1 .. 0 : FALSE
  OBVIOUS
<1>3. \A d \in 1 .. 0 - 1 : FALSE
  OBVIOUS
<1> QED BY <1>1, <1>2, <1>3 DEF CallsGood, Filled

LEMMA InitMap == ASSUME FirmwareTrees, ImageInit PROVE MapInv
<1>1. TypeOK
  BY InitType DEF ImageInit
<1>2. PhaseInv
  BY DEF ImageInit, Init, PhaseInv
<1>3. FitsInv
  BY SizesKnown DEF ImageInit, Init, FitsInv
<1>4. PICK given \in FirmwareTables :
        /\ words = [f \in M!Frame |-> IF f \in DOMAIN given THEN given[f] ELSE Remains]
        /\ tables = DOMAIN given
  BY DEF ImageInit
<1>5. TreesInv
  <2>1. /\ DOMAIN given \subseteq M!Frame \ (FreeFrames \cup {M!NULL})
        /\ \A t \in DOMAIN given : given[t] \in [M!Slot -> Int]
        /\ Remains \in [M!Slot -> Int]
    BY DEF FirmwareTrees
  <2>2. words \in Words
    BY <1>4, <2>1 DEF Words
  <2>3. PICK way : Tree(given, DOMAIN given, way)
    BY DEF FirmwareTrees
  <2>4. \A t \in tables : words[t] = given[t]
    BY <1>4, <2>1
  <2>5. Tree(words, tables, way)
    BY <1>4, <2>3, <2>4, TreeUntouched
  <2>6. available = FreeFrames /\ FreeFrames \subseteq M!Frame \ {cr3}
    BY ImageAssumption DEF ImageInit
  <2> QED BY <1>4, <2>1, <2>2, <2>5, <2>6 DEF TreesInv
<1>6. CallsInv
  BY NoCalls DEF CallsInv, ImageInit
<1>7. OneTableInv
  <2>1. Len(<<>>) <= 1
    BY EmptySeq
  <2> QED BY <2>1 DEF OneTableInv, ImageInit
<1>8. SeenInv
  BY TranslateIsPage DEF SeenInv, ImageInit
<1> QED BY <1>1, <1>2, <1>3, <1>5, <1>6, <1>7, <1>8 DEF MapInv, SoundInv

(* The loader's own variables go their own way. *)
LEMMA LoaderStep ==
  ASSUME ImageNext PROVE [Next]_vars
<1> USE DEF Next
<1>1. CASE LoadStep
  BY <1>1 DEF LoadStep
<1>2. CASE AllocateKernel
  BY <1>2 DEF AllocateKernel
<1>3. CASE MapKernel
  BY <1>3 DEF MapKernel
<1>4. CASE MapStep
  BY <1>4 DEF MapStep
<1>5. CASE ImageDone
  BY <1>5 DEF ImageDone, imageVars
<1> QED BY <1>1, <1>2, <1>3, <1>4, <1>5 DEF ImageNext

(* Before the mapping begins. *)
LEMMA WaitingKeeps ==
  ASSUME MapInv, mapping = "waiting", TypeOK', FitsInv',
         UNCHANGED <<mapping, before, words, tables, strayed, failures, calls>>,
         available' \subseteq available
  PROVE  MapInv'
<1>1. calls = <<>> /\ strayed = {} /\ failures = 0
  BY DEF MapInv, PhaseInv
<1>2. SoundInv
  <2>1. Sound
    BY <1>1 DEF Sound, NothingCleared
  <2> QED BY <2>1 DEF MapInv
<1>3. PhaseInv'
  BY DEF MapInv, PhaseInv
<1>4. TreesInv'
  BY <1>2 DEF SoundInv, TreesInv, PageZeroSpare
<1>5. CallsInv'
  BY <1>1, NoCalls DEF CallsInv
<1>6. OneTableInv'
  <2>1. Len(<<>>) <= 1
    BY EmptySeq
  <2> QED BY <1>1, <2>1 DEF OneTableInv
<1>7. SeenInv'
  BY <1>2 DEF SoundInv, SeenInv
<1> QED BY <1>3, <1>4, <1>5, <1>6, <1>7 DEF MapInv, SoundInv

LEMMA LoadStepKeeps == ASSUME MapInv, LoadStep PROVE MapInv'
<1>1. TypeOK'
  BY LoaderStep, NextType DEF ImageNext, MapInv
<1>2. mapping = "waiting"
  BY DEF LoadStep, SizeSegment, LoadSegment, Loaded, MapInv, PhaseInv
<1>3. FitsInv'
  BY DEF LoadStep, SizeSegment, LoadSegment, Loaded, MapInv, FitsInv
<1> QED BY <1>1, <1>2, <1>3, WaitingKeeps DEF LoadStep, mapVars

LEMMA AllocateKernelKeeps == ASSUME MapInv, AllocateKernel PROVE MapInv'
<1>1. TypeOK'
  BY LoaderStep, NextType DEF ImageNext, MapInv
<1>2. mapping = "waiting"
  BY DEF AllocateKernel, Allocate, MapInv, PhaseInv
<1>3. FitsInv'
  <2>1. PICK size \in 0 .. AddrSpace - 1 : pages' = SizeToPages(size)
    <3>1. virt_size - virt_min \in Int
      BY DEF MapInv, TypeOK, Addr
    <3>2. ((virt_size - virt_min) % AddrSpace) \in 0 .. AddrSpace - 1
      BY <3>1, Wrapped DEF Addr
    <3> QED BY <3>2 DEF AllocateKernel, Allocate
  <2>2. PICK p \in Nat \ {0}, m \in Nat \ {0} : p = PageSize /\ m = NumFrames /\ AddrSpace = p * m
    BY SizesKnown, LoaderAssumption
  <2>3. size \in Nat /\ size <= p * m - 1
    <3>1. p * m \in Int
      OBVIOUS
    <3> QED BY <2>2, <3>1
  <2>4. PICK q \in Nat, r \in 0 .. p - 1 : size = p * q + r /\ q = size \div p /\ r = (size % p)
    BY <2>3, QuotientAndRest
  <2>5. q < m
    <3>1. p * q < p * m
      <4>1. p * q \in Int /\ p * m \in Int
        OBVIOUS
      <4> QED BY ONLY <2>3, <2>4, <4>1, r \in Nat, p \in Nat, r \in 0 .. p - 1
    <3>2. q >= m => p * q >= p * m
      <4>1. q >= m => p * (q - m) >= 0 /\ p * q = p * (q - m) + p * m
        OBVIOUS
      <4>2. p * q \in Int /\ p * m \in Int /\ p * (q - m) \in Int
        OBVIOUS
      <4> QED BY ONLY <4>1, <4>2
    <3>3. p * q \in Int /\ p * m \in Int
      OBVIOUS
    <3> QED BY ONLY <3>1, <3>2, <3>3, q \in Nat, m \in Nat
  <2>6. pages' = q \/ pages' = q + 1
    BY <2>1, <2>2, <2>4 DEF SizeToPages
  <2>7. pages' <= m
    BY <2>5, <2>6
  <2> QED BY <2>2, <2>7, SizesKnown DEF FitsInv, NumFrames
<1>4. available' \subseteq available
  BY DEF AllocateKernel
<1> QED BY <1>1, <1>2, <1>3, <1>4, WaitingKeeps DEF AllocateKernel

(* What the steps of the mapping leave alone. *)
LEMMA KernelUnchanged ==
  ASSUME UNCHANGED vars
  PROVE  /\ FirstPage' = FirstPage /\ FirstFrame' = FirstFrame /\ pages' = pages
         /\ Asked' = Asked /\ (OneTable' <=> OneTable)
  BY DEF vars, FirstPage, FirstFrame, Asked, OneTable, PageOf

LEMMA MapKernelKeeps == ASSUME MapInv, MapKernel PROVE MapInv'
<1>1. TypeOK'
  BY LoaderStep, NextType DEF ImageNext, MapInv
<1>2. UNCHANGED vars /\ mapping = "waiting" /\ mapping' = "running" /\ before' = before /\ pc = "loaded"
  BY DEF MapKernel
<1>3. UNCHANGED <<words, available, tables, strayed, failures>>
  BY DEF MapKernel, M!MapVirtualPages
<1>4. SoundInv /\ strayed = {} /\ failures \in Nat
  <2>1. Sound
    BY <1>2 DEF Sound, NothingCleared, MapInv, PhaseInv
  <2> QED BY <1>2, <2>1 DEF MapInv, PhaseInv
<1>5. PICK c : c = M!Call(FirstFrame, FirstPage, pages) /\ calls' = <<c>>
  BY DEF MapKernel, M!MapVirtualPages, FirstFrame, FirstPage
<1>6. /\ c \in CallType /\ c.physical = FirstFrame /\ c.virt = FirstPage /\ c.pages = pages
      /\ c.level = 4 /\ c.table = cr3 /\ c.i = 0
  <2>1. c = [physical |-> FirstFrame, virt |-> FirstPage, pages |-> pages, level |-> 4,
             table |-> cr3, i |-> 0]
    BY <1>5 DEF M!Call
  <2>2. FirstFrame \in Nat /\ FirstPage \in Nat /\ pages \in Nat /\ cr3 \in M!Frame
    BY KernelPages, ImageAssumption DEF MapInv
  <2> QED BY <2>1, <2>2 DEF CallType
<1>7. calls' \in Seq(CallType) /\ Len(calls') = 1 /\ calls'[1] = c /\ calls' # <<>>
  BY <1>5, <1>6
<1>8. FirstPage' = FirstPage /\ FirstFrame' = FirstFrame /\ pages' = pages /\ Asked' = Asked
  BY <1>2, KernelUnchanged
<1>9. CallsInv'
  <2>1. CallGood(words, c, FirstPage, FirstFrame, pages)
    <3>1. TableAt(words, 4, FirstPage) = cr3
      BY DEF TableAt
    <3>2. FirstPage \in Nat /\ pages \in Nat /\ FirstFrame \in Nat
      BY KernelPages DEF MapInv
    <3> QED BY <1>6, <3>1, <3>2 DEF CallGood
  <2>2. CallsGood(words, calls', FirstPage, FirstFrame, pages)
    <3>1. \A d \in 1 .. 1 - 1 : FALSE
      OBVIOUS
    <3>2. \A d \in 1 .. 1 : d = 1
      OBVIOUS
    <3> QED BY <1>6, <1>7, <2>1, <3>1, <3>2 DEF CallsGood
  <2>3. Filled(words, calls', FirstPage, FirstFrame, pages)
    <3> SUFFICES ASSUME NEW d \in 1 .. Len(calls'), NEW x \in 0 .. pages - 1,
                        calls'[d].virt <= FirstPage + x,
                        FirstPage + x < calls'[d].virt + Entered(calls', d)
                 PROVE  FALSE
      BY DEF Filled
    <3>1. d = 1 /\ Entered(calls', d) = 0 /\ calls'[d].virt = FirstPage
      BY <1>6, <1>7 DEF Entered
    <3>2. FirstPage \in Nat /\ x >= 0
      BY KernelPages DEF MapInv
    <3>3. FirstPage + x < FirstPage
      BY <3>1, <3>2
    <3> QED BY <3>2, <3>3
  <2> QED BY <1>2, <1>3, <1>8, <2>2, <2>3 DEF CallsInv
<1>10. OneTableInv'
  <2>1. 1 <= 1
    OBVIOUS
  <2> QED BY <1>3, <1>4, <1>7, <2>1 DEF OneTableInv
<1>11. SeenInv'
  BY <1>2, <1>3, <1>4, <1>8 DEF SoundInv, SeenInv
<1>12. TreesInv'
  BY <1>3, <1>4 DEF SoundInv, TreesInv, PageZeroSpare
<1>13. PhaseInv' /\ FitsInv'
  <2>1. pc' = pc
    BY <1>2 DEF vars
  <2>2. PhaseInv'
    BY <1>2, <1>3, <1>4, <1>7, <2>1 DEF PhaseInv
  <2> QED BY <1>8, <2>2 DEF MapInv, FitsInv
<1> QED BY <1>1, <1>9, <1>10, <1>11, <1>12, <1>13 DEF MapInv, SoundInv

------------------------------------------------------------------------------
(* A step of MapVirtualPages. *)
LEMMA MapStepTypes ==
  ASSUME MapInv, MapStep
  PROVE  /\ TypeOK /\ TypeOK' /\ UNCHANGED vars /\ before' = before /\ FitsInv'
         /\ mapping = "running" /\ calls # <<>> /\ pc = "loaded"
         /\ mapping' = IF calls' = <<>> THEN "done" ELSE "running"
<1>1. TypeOK'
  BY LoaderStep, NextType DEF ImageNext, MapInv
<1>2. UNCHANGED vars /\ before' = before
  BY DEF MapStep
<1>3. calls # <<>>
  BY DEF MapStep, M!Step, M!Walk, M!FillEntry, M!Return
<1>4. mapping = "running" /\ pc = "loaded"
  BY <1>3 DEF MapInv, PhaseInv
<1>5. mapping' = IF calls' = <<>> THEN "done" ELSE "running"
  BY <1>4 DEF MapStep
<1>6. FitsInv'
  BY <1>2 DEF vars, FitsInv, MapInv
<1> QED BY <1>1, <1>2, <1>3, <1>4, <1>5, <1>6 DEF MapInv

(* The innermost call and its table. *)
LEMMA TopKnown ==
  ASSUME MapInv, Sound, calls # <<>>, NEW top, top = calls[Len(calls)]
  PROVE  /\ SoundInv /\ calls \in Seq(CallType) /\ Len(calls) \in Nat \ {0}
         /\ top \in CallType /\ top.virt \in Nat /\ top.i \in Nat /\ top.pages \in Nat
         /\ top.physical \in Nat /\ top.level \in 1 .. 4 /\ top.table \in M!Frame
         /\ CallGood(words, top, FirstPage, FirstFrame, pages)
         /\ \A way : Tree(words, tables, way) =>
              top.table \in tables /\ Len(way[top.table]) = 4 - top.level
<1>1. SoundInv
  BY DEF MapInv
<1>2. calls \in Seq(CallType)
  BY <1>1 DEF SoundInv, CallsInv, CallsGood
<1>3. /\ Len(calls) \in 1 .. Len(calls) /\ Len(calls) \in Nat \ {0}
      /\ top \in CallType /\ top.virt \in Nat /\ top.i \in Nat /\ top.pages \in Nat
      /\ top.physical \in Nat /\ top.table \in M!Frame /\ top.level \in 1 .. 4
  BY <1>2, TopTypes
<1>4. CallGood(words, top, FirstPage, FirstFrame, pages)
  BY <1>1, <1>3 DEF SoundInv, CallsInv, CallsGood
<1>5. ASSUME NEW way, Tree(words, tables, way)
      PROVE  top.table \in tables /\ Len(way[top.table]) = 4 - top.level
  <2>1. top.table = TableAt(words, top.level, top.virt) /\ top.table # M!Absent
    BY <1>3, <1>4, FramesPresent DEF CallGood
  <2>2. top.table \in tables /\ way[top.table] = Way(top.level, top.virt)
    BY <1>3, <1>5, <2>1, Reached
  <2>3. Len(Way(top.level, top.virt)) = 4 - top.level
    BY <1>3, Ways
  <2> QED BY <2>2, <2>3
<1> QED BY <1>1, <1>2, <1>3, <1>4, <1>5

LEMMA DescendedCalls ==
  ASSUME NEW cs \in Seq(CallType), cs # <<>>, NEW top, top = cs[Len(cs)], top.level > 1,
         NEW e \in M!Frame, NEW ds, ds = AfterDescent(cs, e)
  PROVE  ds # <<>> /\ Len(ds) = Len(cs)
<1>1. top \in CallType /\ top.level \in 1 .. 4
  BY TopTypes
<1>2. PICK c : c = [top EXCEPT !.table = e, !.level = @ - 1]
  OBVIOUS
<1>3. top.level - 1 \in 1 .. 4
  BY <1>1
<1>4. c \in CallType
  BY <1>1, <1>2, <1>3 DEF CallType
<1>5. ds = [cs EXCEPT ![Len(cs)] = c]
  BY <1>2, TopTypes DEF AfterDescent
<1> QED BY ONLY <1>4, <1>5, cs \in Seq(CallType), cs # <<>>, TopChanged

(* The walk goes down to a table that is there. *)
LEMMA WalkDown ==
  ASSUME MapInv, Sound, MapStep, NEW top, top = calls[Len(calls)], top.level > 1,
         NEW e, e = words[top.table][M!Index(top.level, top.virt)], e # M!Absent,
         calls' = AfterDescent(calls, e),
         UNCHANGED <<words, available, tables, failures, strayed>>
  PROVE  SoundInv' /\ calls' # <<>>
<1>1. /\ UNCHANGED vars /\ before' = before /\ mapping = "running" /\ calls # <<>> /\ TypeOK
      /\ mapping' = IF calls' = <<>> THEN "done" ELSE "running"
  BY MapStepTypes
<1>2. /\ FirstPage' = FirstPage /\ FirstFrame' = FirstFrame /\ pages' = pages
      /\ Asked' = Asked /\ (OneTable' <=> OneTable)
  BY <1>1, KernelUnchanged
<1>3. SoundInv /\ top.virt \in Nat /\ top.level \in 1 .. 4
  BY <1>1, TopKnown
<1>4. FirstPage \in Nat /\ FirstFrame \in Nat /\ pages \in Nat
  BY <1>1, KernelPages
<1>5. e \in M!Frame
  <2>1. PICK way : Tree(words, tables, way)
    BY <1>3 DEF SoundInv, TreesInv
  <2>2. top.table \in tables /\ Len(way[top.table]) = 4 - top.level
    BY <1>1, <2>1, TopKnown
  <2>3. Len(way[top.table]) < 3 /\ M!Index(top.level, top.virt) \in M!Slot
    BY <1>3, <2>2, Indices
  <2>4. e \in tables
    BY <2>1, <2>2, <2>3 DEF Tree
  <2> QED BY <1>3, <2>4 DEF SoundInv, TreesInv
<1>6. /\ CallsGood(words, calls, FirstPage, FirstFrame, pages)
      /\ Filled(words, calls, FirstPage, FirstFrame, pages)
  BY <1>3 DEF SoundInv, CallsInv
<1>7. /\ CallsGood(words, calls', FirstPage, FirstFrame, pages)
      /\ Filled(words, calls', FirstPage, FirstFrame, pages)
  BY <1>1, <1>4, <1>5, <1>6, CallsDescended
<1>8. calls' # <<>> /\ Len(calls') = Len(calls)
  <2>1. calls \in Seq(CallType)
    BY <1>6 DEF CallsGood
  <2> QED BY <1>1, <1>5, <2>1, DescendedCalls
<1>9. CallsInv'
  BY <1>1, <1>2, <1>7, <1>8 DEF CallsInv
<1>10. TreesInv'
  BY <1>3 DEF SoundInv, TreesInv, PageZeroSpare
<1>11. OneTableInv'
  BY <1>2, <1>3, <1>8 DEF SoundInv, OneTableInv
<1>12. SeenInv'
  BY <1>1, <1>2, <1>3, <1>8 DEF SoundInv, SeenInv
<1> QED BY <1>8, <1>9, <1>10, <1>11, <1>12 DEF SoundInv

(* The walk goes down to a new table. *)
LEMMA WalkNew ==
  ASSUME MapInv, Sound, MapStep, NEW top, top = calls[Len(calls)], top.level > 1,
         words[top.table][M!Index(top.level, top.virt)] = M!Absent,
         NEW n \in M!Frame \ tables,
         words' = WithTable(words, top.table, M!Index(top.level, top.virt), n),
         tables' = tables \cup {n}, calls' = AfterDescent(calls, n),
         available' \subseteq available, strayed' = strayed,
         n \notin available' \/ n = M!NULL,
         failures' = 0 => failures = 0 /\ n \in available \ available'
  PROVE  SoundInv' /\ calls' # <<>>
<1>1. /\ UNCHANGED vars /\ before' = before /\ mapping = "running" /\ calls # <<>> /\ TypeOK
      /\ mapping' = IF calls' = <<>> THEN "done" ELSE "running"
  BY MapStepTypes
<1>2. /\ FirstPage' = FirstPage /\ FirstFrame' = FirstFrame /\ pages' = pages
      /\ Asked' = Asked /\ (OneTable' <=> OneTable)
  BY <1>1, KernelUnchanged
<1>3. SoundInv /\ top.virt \in Nat /\ top.level \in 1 .. 4
  BY <1>1, TopKnown
<1>4. FirstPage \in Nat /\ FirstFrame \in Nat /\ pages \in Nat
  BY <1>1, KernelPages
<1>5. /\ CallsGood(words, calls, FirstPage, FirstFrame, pages)
      /\ Filled(words, calls, FirstPage, FirstFrame, pages)
      /\ calls \in Seq(CallType)
  BY <1>3 DEF SoundInv, CallsInv, CallsGood
<1>6. PICK t, s : t = top.table /\ s = M!Index(top.level, top.virt)
  OBVIOUS
<1>7. PICK way : Tree(words, tables, way)
  BY <1>3 DEF SoundInv, TreesInv
<1>8. t \in tables /\ Len(way[t]) < 3 /\ s \in M!Slot
  <2>1. top.table \in tables /\ Len(way[top.table]) = 4 - top.level
    BY <1>1, <1>7, TopKnown
  <2> QED BY <1>3, <1>6, <2>1, Indices
<1>9. words \in Words /\ tables \in SUBSET M!Frame
  BY <1>3 DEF SoundInv, TreesInv
<1>10. PICK V : V = words' /\ V = WithTable(words, t, s, n)
  BY <1>6
<1>11. words[t][s] = M!Absent
  BY <1>6
<1>12. PICK W, T : W = words /\ T = tables
  OBVIOUS
<1>13. /\ W \in Words /\ T \in SUBSET M!Frame /\ Tree(W, T, way) /\ t \in T /\ s \in M!Slot
       /\ Len(way[t]) < 3 /\ W[t][s] = M!Absent /\ n \in M!Frame \ T /\ V = WithTable(W, t, s, n)
  BY <1>7, <1>8, <1>9, <1>10, <1>11, <1>12
<1>22. /\ V \in Words /\ V[t][s] = n /\ \E longer : Tree(V, T \cup {n}, longer)
       /\ Kept(W, V) /\ \A v \in Nat : Page(V, v) = Page(W, v)
  <2>1. V \in Words
    BY ONLY <1>13, TreeGrown
  <2>2. V[t][s] = n
    BY <1>13 DEF Words, WithTable
  <2>3. \E longer : Tree(V, T \cup {n}, longer)
    BY ONLY <1>13, TreeGrown
  <2>4. Kept(W, V)
    BY ONLY <1>13, TreeGrown
  <2>5. \A v \in Nat : Page(V, v) = Page(W, v)
    <3>1. SamePages(W, V)
      BY ONLY <1>13, TreeGrown
    <3> QED BY <3>1 DEF SamePages
  <2> QED BY <2>1, <2>2, <2>3, <2>4, <2>5
<1>14. /\ CallsGood(V, calls, FirstPage, FirstFrame, pages)
       /\ Filled(V, calls, FirstPage, FirstFrame, pages)
  BY <1>4, <1>5, <1>12, <1>22, CallsKept
<1>15. n = V[top.table][M!Index(top.level, top.virt)]
  BY <1>6, <1>22
<1>16. /\ CallsGood(V, calls', FirstPage, FirstFrame, pages)
       /\ Filled(V, calls', FirstPage, FirstFrame, pages)
  BY <1>1, <1>4, <1>14, <1>15, CallsDescended
<1>17. calls' # <<>> /\ Len(calls') = Len(calls)
  BY <1>1, <1>5, DescendedCalls
<1>18. CallsInv'
  BY <1>1, <1>2, <1>10, <1>16, <1>17 DEF CallsInv
<1>19. TreesInv'
  <2>1. tables' \in SUBSET M!Frame
    BY <1>9
  <2>2. /\ available \in SUBSET M!Frame /\ available \subseteq FreeFrames
        /\ available \cap tables \subseteq {M!NULL}
        /\ failures = 0 => available \cap tables = {} /\ (M!NULL \in tables => ~PageZeroSpare)
    BY <1>3 DEF SoundInv, TreesInv
  <2>3. available' \in SUBSET M!Frame /\ available' \subseteq FreeFrames
    BY <2>2
  <2>4. available' \cap tables' \subseteq {M!NULL}
    BY <2>2
  <2>5. failures' = 0 => available' \cap tables' = {} /\ (M!NULL \in tables' => ~PageZeroSpare')
    <3> SUFFICES ASSUME failures' = 0
                 PROVE  available' \cap tables' = {} /\ (M!NULL \in tables' => ~PageZeroSpare')
      OBVIOUS
    <3>1. /\ n \in FreeFrames /\ n \notin available' /\ available \cap tables = {}
          /\ M!NULL \in tables => M!NULL \in FreeFrames /\ M!NULL \notin available
      BY <2>2 DEF PageZeroSpare
    <3>2. M!NULL \in tables' => M!NULL \in FreeFrames /\ M!NULL \notin available'
      BY <3>1
    <3> QED BY <3>1, <3>2 DEF PageZeroSpare
  <2>6. words' \in Words /\ \E longer : Tree(words', tables', longer)
    BY <1>10, <1>12, <1>22
  <2> QED BY <2>1, <2>3, <2>4, <2>5, <2>6 DEF TreesInv
<1>20. OneTableInv'
  BY <1>2, <1>3, <1>17 DEF SoundInv, OneTableInv
<1>21. SeenInv'
  <2>1. \A v \in VirtualPage : v \in Nat
    BY SizesKnown
  <2> QED BY <1>1, <1>2, <1>3, <1>10, <1>12, <1>17, <1>22, <2>1 DEF SoundInv, SeenInv
<1> QED BY <1>17, <1>18, <1>19, <1>20, <1>21 DEF SoundInv

LEMMA WalkKeeps == ASSUME MapInv, Sound', MapStep, M!Walk PROVE MapInv'
<1>1. PICK top : top = calls[Len(calls)]
  OBVIOUS
<1>2. M!Top = top /\ M!Depth = Len(calls)
  BY <1>1 DEF M!Top, M!Depth
<1>3. calls # <<>> /\ top.level > 1 /\ strayed' = strayed
  BY <1>2 DEF M!Walk
<1>4. \A e : M!Descend(e) => calls' = AfterDescent(calls, e)
  BY DEF M!Descend, M!Depth, AfterDescent
<1>5. PICK e : e = words[top.table][M!Index(top.level, top.virt)]
  OBVIOUS
<1>6. /\ TypeOK' /\ FitsInv' /\ mapping = "running" /\ pc = "loaded" /\ pc' = pc
      /\ mapping' = IF calls' = <<>> THEN "done" ELSE "running"
      /\ failures \in Nat
  BY MapStepTypes DEF vars, MapInv, PhaseInv
<1>7. OneTable' <=> OneTable
  BY MapStepTypes, KernelUnchanged
<1>8. ASSUME failures' \in Nat, SoundInv', calls' # <<>> PROVE MapInv'
  BY <1>6, <1>8 DEF MapInv, PhaseInv
<1>9. CASE e # M!Absent /\ M!Descend(e) /\ UNCHANGED <<words, available, tables, failures>>
  <2>1. Sound
    BY <1>3, <1>7, <1>9 DEF Sound, NothingCleared, PageZeroSpare
  <2>2. SoundInv' /\ calls' # <<>>
    BY <1>1, <1>3, <1>4, <1>5, <1>9, <2>1, WalkDown
  <2> QED BY <1>6, <1>8, <1>9, <2>2
<1>10. ASSUME NEW n \in available, e = M!Absent, M!NewTable(n), available' = available \ {n},
              failures' = failures
       PROVE  MapInv'
  <2>1. /\ words' = WithTable(words, top.table, M!Index(top.level, top.virt), n)
        /\ tables' = tables \cup {n} /\ calls' = AfterDescent(calls, n)
    BY <1>2, <1>4, <1>10 DEF M!NewTable, WithTable
  <2>2. Sound
    BY <1>3, <1>7, <1>10, <2>1 DEF Sound, NothingCleared, PageZeroSpare
  <2>3. n \in M!Frame \ tables
    <3>1. TreesInv
      BY <2>2 DEF MapInv, SoundInv
    <3>2. CASE failures = 0
      BY <3>1, <3>2 DEF TreesInv
    <3>3. CASE failures # 0
      <4>1. PageZeroSpare'
        BY <1>10, <3>3 DEF Sound, NothingCleared
      <4>2. n # M!NULL
        BY <1>10, <3>1, <4>1 DEF TreesInv, PageZeroSpare
      <4> QED BY <3>1, <4>2 DEF TreesInv
    <3> QED BY <3>2, <3>3
  <2>4. SoundInv' /\ calls' # <<>>
    BY <1>1, <1>3, <1>5, <1>10, <2>1, <2>2, <2>3, WalkNew
  <2> QED BY <1>6, <1>8, <1>10, <2>4
<1>11. CASE e = M!Absent /\ M!NewTable(M!NULL) /\ failures' = failures + 1 /\ available' = available
  <2>1. PICK n : n = M!NULL
    OBVIOUS
  <2>2. /\ words' = WithTable(words, top.table, M!Index(top.level, top.virt), n)
        /\ tables' = tables \cup {n} /\ calls' = AfterDescent(calls, n)
    BY <1>2, <1>4, <1>11, <2>1 DEF M!NewTable, WithTable
  <2>3. Sound /\ failures = 0 /\ PageZeroSpare
    <3>1. failures = 0 /\ PageZeroSpare'
      BY <1>6, <1>11 DEF Sound, NothingCleared
    <3>2. Sound
      BY <1>3, <1>7, <2>2, <3>1 DEF Sound, NothingCleared
    <3> QED BY <1>11, <3>1, <3>2 DEF PageZeroSpare
  <2>4. n \in M!Frame \ tables
    <3>1. M!NULL \in M!Frame
      BY SizesKnown DEF M!NULL
    <3> QED BY <2>1, <2>3, <3>1 DEF MapInv, SoundInv, TreesInv
  <2>5. failures' # 0
    BY <1>6, <1>11
  <2>6. SoundInv' /\ calls' # <<>>
    BY <1>1, <1>3, <1>5, <1>11, <2>1, <2>2, <2>3, <2>4, <2>5, WalkNew
  <2> QED BY <1>6, <1>8, <1>11, <2>6
<1> QED BY <1>2, <1>5, <1>9, <1>10, <1>11 DEF M!Walk

LEMMA InTable ==
  ASSUME NEW p \in Nat, p < Entries
  PROVE  p \div Entries = 0 /\ (p % Entries) = p
<1>1. PICK e \in Nat \ {0} : e = Entries
  BY SizesKnown
<1>2. PICK q \in Nat, r \in 0 .. e - 1 : p = e * q + r /\ q = p \div e /\ r = (p % e)
  BY QuotientAndRest
<1>3. q >= 1 => e * q >= e
  <2>1. q >= 1 => e * (q - 1) >= 0 /\ e * q = e * (q - 1) + e
    OBVIOUS
  <2> QED BY <2>1
<1>4. q = 0 /\ r = p
  BY <1>1, <1>2, <1>3
<1> QED BY <1>1, <1>2, <1>4

(* The loop enters a page in its own table. *)
LEMMA FillInside ==
  ASSUME MapInv, Sound, MapStep, NEW top, top = calls[Len(calls)], top.level = 1, top.i < top.pages,
         NEW place, place = M!Index(1, top.virt) + top.i, place < Entries,
         words' = WithEntry(words, top.table, place, top.physical + top.i),
         calls' = AfterTurn(calls),
         UNCHANGED <<available, tables, strayed, failures>>
  PROVE  SoundInv' /\ calls' # <<>>
<1>1. /\ UNCHANGED vars /\ before' = before /\ mapping = "running" /\ calls # <<>> /\ TypeOK
      /\ mapping' = IF calls' = <<>> THEN "done" ELSE "running"
  BY MapStepTypes
<1>2. /\ FirstPage' = FirstPage /\ FirstFrame' = FirstFrame /\ pages' = pages
      /\ Asked' = Asked /\ (OneTable' <=> OneTable)
  BY <1>1, KernelUnchanged
<1>3. SoundInv
  BY <1>1, TopKnown
<1>4. PICK f \in Nat, a \in Nat, m \in Nat : f = FirstPage /\ a = FirstFrame /\ m = pages
  BY <1>1, KernelPages
<1>5. m <= NumFrames
  BY <1>4 DEF MapInv, FitsInv
<1>6. PICK W, T, way : W = words /\ T = tables /\ Tree(W, T, way)
  BY <1>3 DEF SoundInv, TreesInv
<1>7. W \in Words /\ T \in SUBSET M!Frame
  BY <1>3, <1>6 DEF SoundInv, TreesInv
<1>8. PICK cs, ds : cs = calls /\ ds = calls' /\ cs # <<>> /\ top = cs[Len(cs)] /\ ds = AfterTurn(cs)
  BY <1>1
<1>9. CallsGood(W, cs, f, a, m) /\ Filled(W, cs, f, a, m)
  BY <1>3, <1>4, <1>6, <1>8 DEF SoundInv, CallsInv
<1>10. PICK V : V = words' /\ V = WithEntry(W, top.table, M!Index(1, top.virt) + top.i, top.physical + top.i)
  BY <1>6
<1>11. /\ V \in Words /\ Tree(V, T, way)
       /\ CallsGood(V, ds, f, a, m) /\ Filled(V, ds, f, a, m)
       /\ ds # <<>> /\ Len(ds) = Len(cs)
       /\ \A v \in Nat : \/ Page(V, v) = Page(W, v)
                         \/ \E x \in 0 .. m - 1 : (v % NumFrames) = ((f + x) % NumFrames)
  BY <1>5, <1>6, <1>7, <1>8, <1>9, <1>10, CallsTurned
<1>12. CallsInv'
  BY <1>1, <1>2, <1>4, <1>8, <1>10, <1>11 DEF CallsInv
<1>13. TreesInv'
  BY <1>3, <1>6, <1>10, <1>11 DEF SoundInv, TreesInv, PageZeroSpare
<1>14. OneTableInv'
  BY <1>2, <1>3, <1>8, <1>11 DEF SoundInv, OneTableInv
<1>15. SeenInv'
  <2> SUFFICES ASSUME NEW v \in VirtualPage, v \notin Asked PROVE Page(V, v) = before[v]
    BY <1>1, <1>2, <1>8, <1>10, <1>11 DEF SeenInv
  <2>1. Page(W, v) = before[v]
    BY <1>3, <1>6 DEF SoundInv, SeenInv
  <2>2. ~ \E x \in 0 .. m - 1 : (v % NumFrames) = ((f + x) % NumFrames)
    BY <1>1, <1>4, NotAsked
  <2>3. v \in Nat
    BY SizesKnown
  <2> QED BY <1>11, <2>1, <2>2, <2>3
<1> QED BY <1>8, <1>11, <1>12, <1>13, <1>14, <1>15 DEF SoundInv

(* The loop writes past the end of its table, and hands the page on. *)
LEMMA FillStray ==
  ASSUME MapInv, Sound, MapStep, NEW top, top = calls[Len(calls)], top.level = 1, top.i < top.pages,
         ~OneTable, \A t \in tables : words'[t] = words[t], words' \in Words,
         calls' = AfterStray(calls),
         UNCHANGED <<available, tables, failures>>
  PROVE  SoundInv' /\ calls' # <<>>
<1>1. /\ UNCHANGED vars /\ before' = before /\ mapping = "running" /\ calls # <<>> /\ TypeOK
      /\ mapping' = IF calls' = <<>> THEN "done" ELSE "running"
  BY MapStepTypes
<1>2. /\ FirstPage' = FirstPage /\ FirstFrame' = FirstFrame /\ pages' = pages
      /\ Asked' = Asked /\ (OneTable' <=> OneTable)
  BY <1>1, KernelUnchanged
<1>3. SoundInv
  BY <1>1, TopKnown
<1>4. PICK f \in Nat, a \in Nat, m \in Nat : f = FirstPage /\ a = FirstFrame /\ m = pages
  BY <1>1, KernelPages
<1>6. PICK W, T, way : W = words /\ T = tables /\ Tree(W, T, way)
  BY <1>3 DEF SoundInv, TreesInv
<1>8. PICK cs, ds : cs = calls /\ ds = calls' /\ cs # <<>> /\ top = cs[Len(cs)] /\ ds = AfterStray(cs)
  BY <1>1
<1>9. CallsGood(W, cs, f, a, m) /\ Filled(W, cs, f, a, m)
  BY <1>3, <1>4, <1>6, <1>8 DEF SoundInv, CallsInv
<1>10. PICK V : V = words' /\ V \in Words /\ \A t \in T : V[t] = W[t]
  BY <1>6
<1>11. Tree(V, T, way) /\ Kept(W, V) /\ \A v \in Nat : Page(V, v) = Page(W, v)
  BY <1>6, <1>10, TreeUntouched
<1>16. CallsGood(V, cs, f, a, m) /\ Filled(V, cs, f, a, m)
  BY <1>9, <1>11, CallsKept
<1>17. CallsGood(V, ds, f, a, m) /\ Filled(V, ds, f, a, m) /\ ds # <<>>
  BY <1>8, <1>16, CallsStrayed
<1>12. CallsInv'
  BY <1>1, <1>2, <1>4, <1>8, <1>10, <1>17 DEF CallsInv
<1>13. TreesInv'
  BY <1>3, <1>6, <1>10, <1>11 DEF SoundInv, TreesInv, PageZeroSpare
<1>14. OneTableInv'
  BY <1>2 DEF OneTableInv
<1>15. SeenInv'
  <2> SUFFICES ASSUME NEW v \in VirtualPage, v \notin Asked PROVE Page(V, v) = before[v]
    BY <1>1, <1>2, <1>8, <1>10, <1>17 DEF SeenInv
  <2>1. Page(W, v) = before[v]
    BY <1>3, <1>6 DEF SoundInv, SeenInv
  <2>3. v \in Nat
    BY SizesKnown
  <2> QED BY <1>11, <2>1, <2>3
<1> QED BY <1>8, <1>12, <1>13, <1>14, <1>15, <1>17 DEF SoundInv

(* A kernel that fits in one table needs no second call. *)
LEMMA OneTableStays ==
  ASSUME MapInv, Sound, OneTable, NEW top, top = calls[Len(calls)], calls # <<>>, top.i < top.pages
  PROVE  M!Index(1, top.virt) + top.i < Entries
<1>1. /\ SoundInv /\ calls \in Seq(CallType) /\ Len(calls) \in Nat \ {0}
      /\ top.i \in Nat /\ top.pages \in Nat
      /\ CallGood(words, top, FirstPage, FirstFrame, pages)
  BY TopKnown
<1>2. Len(calls) = 1
  <2>1. Len(calls) <= 1
    BY <1>1 DEF SoundInv, OneTableInv
  <2>2. PICK k \in Nat \ {0} : k = Len(calls)
    BY <1>1
  <2>3. k <= 1
    BY <2>1, <2>2
  <2>4. k = 1
    BY <2>3
  <2> QED BY <2>2, <2>4
<1>3. top.virt = FirstPage
  BY <1>1, <1>2 DEF SoundInv, CallsInv, CallsGood
<1>4. PICK f \in Nat, m \in Nat : f = FirstPage /\ m = pages
  BY KernelPages DEF MapInv
<1>5. top.pages = m
  <2>1. f + top.pages = f + m
    BY <1>1, <1>3, <1>4 DEF CallGood
  <2> QED BY <1>1, <2>1
<1>6. PICK k \in Nat : k = M!Index(1, f)
  <2>1. M!Index(1, f) \in M!Slot
    BY Indices
  <2> QED BY <2>1, SizesKnown DEF M!Slot
<1>7. k + m <= Entries
  BY <1>4, <1>6 DEF OneTable
<1>8. PICK j \in Nat : j = top.i /\ j < m
  BY <1>1, <1>5
<1> QED BY <1>3, <1>4, <1>6, <1>7, <1>8, SizesKnown

LEMMA FillKeeps == ASSUME MapInv, Sound', MapStep, M!FillEntry PROVE MapInv'
<1>1. PICK top : top = calls[Len(calls)]
  OBVIOUS
<1>2. M!Top = top /\ M!Depth = Len(calls)
  BY <1>1 DEF M!Top, M!Depth
<1>3. /\ calls # <<>> /\ top.level = 1 /\ top.i < top.pages
      /\ available' = available /\ tables' = tables /\ failures' = failures
  BY <1>2 DEF M!FillEntry
<1>4. PICK place, frame : place = M!Index(1, top.virt) + top.i /\ frame = top.table + place \div Entries
  OBVIOUS
<1>5. /\ words' = IF frame \in M!Frame
                    THEN [words EXCEPT ![frame][place % Entries] = top.physical + top.i]
                    ELSE words
      /\ strayed' = IF place < Entries THEN strayed ELSE strayed \cup ({frame} \cap M!Frame)
      /\ calls' = IF place < Entries THEN AfterTurn(calls) ELSE AfterStray(calls)
  BY <1>1, <1>2, <1>4 DEF M!FillEntry, AfterTurn, AfterStray, Handed
<1>6. /\ TypeOK' /\ FitsInv' /\ mapping = "running" /\ pc = "loaded" /\ pc' = pc
      /\ mapping' = IF calls' = <<>> THEN "done" ELSE "running"
      /\ failures \in Nat
  BY MapStepTypes DEF vars, MapInv, PhaseInv
<1>7. OneTable' <=> OneTable
  BY MapStepTypes, KernelUnchanged
<1>8. ASSUME SoundInv', calls' # <<>> PROVE MapInv'
  BY <1>3, <1>6, <1>8 DEF MapInv, PhaseInv
<1>9. Sound
  BY <1>3, <1>5, <1>7 DEF Sound, NothingCleared, PageZeroSpare
<1>10. /\ SoundInv /\ top.virt \in Nat /\ top.i \in Nat /\ top.physical \in Nat
       /\ top.table \in M!Frame /\ place \in Nat
  <2>1. /\ SoundInv /\ top.virt \in Nat /\ top.i \in Nat /\ top.physical \in Nat
        /\ top.table \in M!Frame
    BY <1>1, <1>3, <1>9, TopKnown
  <2>2. PICK k \in Nat : k = M!Index(1, top.virt)
    <3>1. M!Index(1, top.virt) \in M!Slot
      BY <2>1, Indices
    <3> QED BY <3>1, SizesKnown DEF M!Slot
  <2> QED BY <1>4, <2>1, <2>2
<1>11. CASE place < Entries
  <2>1. place \div Entries = 0 /\ (place % Entries) = place
    BY <1>10, <1>11, InTable
  <2>2. frame = top.table
    <3>1. PICK t \in Nat : t = top.table
      BY <1>10, SizesKnown
    <3>2. t + 0 = t
      OBVIOUS
    <3> QED BY <1>4, <2>1, <3>1, <3>2
  <2>3. words' = WithEntry(words, top.table, place, top.physical + top.i)
    BY <1>5, <1>10, <2>1, <2>2 DEF WithEntry
  <2>4. SoundInv' /\ calls' # <<>>
    BY <1>1, <1>3, <1>4, <1>5, <1>9, <1>11, <2>3, FillInside
  <2> QED BY <1>8, <2>4
<1>12. CASE ~(place < Entries)
  <2>1. ~OneTable
    BY <1>1, <1>3, <1>4, <1>9, <1>12, OneTableStays
  <2>2. frame \in M!Frame => frame \notin tables
    BY <1>3, <1>5, <1>7, <1>12, <2>1 DEF Sound
  <2>3. words \in Words /\ tables \in SUBSET M!Frame
    BY <1>10 DEF SoundInv, TreesInv
  <2>4. (place % Entries) \in M!Slot /\ top.physical + top.i \in Int
    BY <1>10, SizesKnown DEF M!Slot
  <2>5. words' \in Words /\ \A t \in tables : words'[t] = words[t]
    BY <1>5, <2>2, <2>3, <2>4 DEF Words
  <2>6. SoundInv' /\ calls' # <<>>
    BY <1>1, <1>3, <1>5, <1>9, <1>12, <2>1, <2>5, FillStray
  <2> QED BY <1>8, <2>6
<1> QED BY <1>11, <1>12

LEMMA ReturnKeeps == ASSUME MapInv, Sound', MapStep, M!Return PROVE MapInv'
<1>1. PICK top : top = calls[Len(calls)]
  OBVIOUS
<1>2. /\ calls # <<>> /\ top.level = 1 /\ top.i = top.pages /\ calls' = AfterReturn(calls)
      /\ UNCHANGED <<words, available, tables, strayed, failures>>
  BY <1>1 DEF M!Return, M!Top, M!Depth, AfterReturn
<1>3. /\ UNCHANGED vars /\ before' = before /\ mapping = "running" /\ TypeOK /\ pc = "loaded"
      /\ mapping' = IF calls' = <<>> THEN "done" ELSE "running"
      /\ TypeOK' /\ FitsInv'
  BY MapStepTypes
<1>4. /\ FirstPage' = FirstPage /\ FirstFrame' = FirstFrame /\ pages' = pages
      /\ Asked' = Asked /\ (OneTable' <=> OneTable)
  BY <1>3, KernelUnchanged
<1>5. Sound
  BY <1>2, <1>4 DEF Sound, NothingCleared, PageZeroSpare
<1>6. SoundInv /\ Len(calls) \in Nat \ {0} /\ calls \in Seq(CallType)
  BY <1>1, <1>2, <1>5, TopKnown
<1>7. PICK f \in Nat, a \in Nat, m \in Nat : f = FirstPage /\ a = FirstFrame /\ m = pages
  BY <1>3, KernelPages
<1>8. PICK W, cs, ds : W = words /\ cs = calls /\ ds = calls'
  OBVIOUS
<1>9. /\ CallsGood(W, cs, f, a, m) /\ Filled(W, cs, f, a, m)
      /\ cs # <<>> /\ top = cs[Len(cs)] /\ ds = AfterReturn(cs)
      /\ top.level = 1 /\ top.i = top.pages
  BY <1>1, <1>2, <1>6, <1>7, <1>8 DEF SoundInv, CallsInv
<1>10. /\ CallsGood(W, ds, f, a, m) /\ Filled(W, ds, f, a, m)
       /\ ds = <<>> => Complete(W, f, a, m)
  <2>1. CallsGood(W, ds, f, a, m)
    BY ONLY <1>9, f \in Nat, a \in Nat, m \in Nat, CallsReturned
  <2>2. Filled(W, ds, f, a, m)
    BY ONLY <1>9, f \in Nat, a \in Nat, m \in Nat, CallsReturned
  <2>3. ds = <<>> => Complete(W, f, a, m)
    BY ONLY <1>9, f \in Nat, a \in Nat, m \in Nat, CallsReturned
  <2> QED BY <2>1, <2>2, <2>3
<1>11. CallsInv'
  BY <1>2, <1>3, <1>4, <1>7, <1>8, <1>10 DEF CallsInv
<1>12. OneTableInv'
  <2>1. Len(calls') = Len(calls) - 1
    <3>1. PICK k \in Nat \ {0} : k = Len(calls)
      BY <1>6
    <3>2. \A j \in 1 .. k - 1 : calls[j] \in CallType
      BY <1>6, <3>1, CallTypes
    <3>3. Len(calls') = IF 1 <= k - 1 THEN k - 1 - 1 + 1 ELSE 0
      BY <1>2, <3>1, <3>2, SubSeqProperties DEF AfterReturn
    <3> QED BY <3>1, <3>3
  <2>2. OneTable => strayed = {} /\ Len(calls) <= 1
    BY <1>6 DEF SoundInv, OneTableInv
  <2>3. OneTable => Len(calls') <= 1
    BY <1>6, <2>1, <2>2
  <2> QED BY <1>2, <1>4, <2>2, <2>3 DEF OneTableInv
<1>13. SeenInv'
  BY <1>2, <1>3, <1>4, <1>6 DEF SoundInv, SeenInv
<1>14. TreesInv'
  BY <1>2, <1>6 DEF SoundInv, TreesInv, PageZeroSpare
<1>15. PhaseInv'
  <2>1. pc' = pc
    BY <1>3 DEF vars
  <2> QED BY <1>2, <1>3, <2>1 DEF MapInv, PhaseInv
<1> QED BY <1>3, <1>11, <1>12, <1>13, <1>14, <1>15 DEF MapInv, SoundInv

LEMMA StepPhase == ASSUME MapInv, MapStep PROVE PhaseInv'
<1>1. /\ mapping = "running" /\ pc = "loaded" /\ pc' = pc
      /\ mapping' = IF calls' = <<>> THEN "done" ELSE "running"
  BY MapStepTypes DEF vars
<1>2. failures' \in {failures, failures + 1}
  BY DEF MapStep, M!Step, M!Walk, M!FillEntry, M!Return
<1>3. failures' \in Nat
  BY <1>2 DEF MapInv, PhaseInv
<1> QED BY <1>1, <1>3 DEF PhaseInv

LEMMA MapStepKeeps == ASSUME MapInv, MapStep PROVE MapInv'
<1>1. TypeOK' /\ FitsInv' /\ PhaseInv'
  BY MapStepTypes, StepPhase
<1>2. CASE ~Sound'
  BY <1>1, <1>2 DEF MapInv
<1>3. CASE Sound'
  BY <1>3, WalkKeeps, FillKeeps, ReturnKeeps DEF MapStep, M!Step
<1> QED BY <1>2, <1>3

LEMMA StutterKeeps == ASSUME MapInv, UNCHANGED imageVars PROVE MapInv'
<1>1. UNCHANGED vars /\ UNCHANGED <<mapping, before>> /\ UNCHANGED mapVars
  BY DEF imageVars
<1>2. /\ FirstPage' = FirstPage /\ FirstFrame' = FirstFrame /\ pages' = pages
      /\ Asked' = Asked /\ (OneTable' <=> OneTable)
  BY <1>1, KernelUnchanged
<1>3. UNCHANGED <<words, available, tables, strayed, failures, calls>>
  BY <1>1 DEF mapVars
<1>4. TypeOK'
  BY <1>1, NextType DEF MapInv
<1>5. PhaseInv' /\ FitsInv'
  BY <1>1, <1>2, <1>3 DEF MapInv, PhaseInv, FitsInv, vars
<1>6. Sound' <=> Sound
  BY <1>2, <1>3 DEF Sound, NothingCleared, PageZeroSpare
<1>7. SoundInv => TreesInv'
  BY <1>3 DEF SoundInv, TreesInv, PageZeroSpare, PageZeroSpare
<1>8. SoundInv => CallsInv'
  BY <1>1, <1>2, <1>3 DEF SoundInv, CallsInv
<1>9. SoundInv => OneTableInv' /\ SeenInv'
  BY <1>1, <1>2, <1>3 DEF SoundInv, OneTableInv, SeenInv
<1> QED BY <1>4, <1>5, <1>6, <1>7, <1>8, <1>9 DEF MapInv, SoundInv

LEMMA NextMap == ASSUME MapInv, [ImageNext]_imageVars PROVE MapInv'
<1>1. CASE LoadStep
  BY <1>1, LoadStepKeeps
<1>2. CASE AllocateKernel
  BY <1>2, AllocateKernelKeeps
<1>3. CASE MapKernel
  BY <1>3, MapKernelKeeps
<1>4. CASE MapStep
  BY <1>4, MapStepKeeps
<1>5. CASE UNCHANGED imageVars
  BY <1>5, StutterKeeps
<1>6. CASE ImageDone
  BY <1>5, <1>6 DEF ImageDone
<1> QED BY <1>1, <1>2, <1>3, <1>4, <1>5, <1>6 DEF ImageNext

LEMMA SoundMap == ASSUME MapInv, MapIsSound PROVE SoundInv
<1>1. Sound
  BY DEF MapIsSound, Unharmed, Sound
<1> QED BY <1>1 DEF MapInv

(***************************************************************************)
(* Of page tables that make a tree, mapping the kernel changes nothing but *)
(* the pages it asks for, whichever tables were there, wherever the new    *)
(* ones lie, and should one of their allocations fail while page 0 is free *)
(* to stand in for it.                                                     *)
(***************************************************************************)
THEOREM RestCorrect ==
  ASSUME FirmwareTrees PROVE ImageSpec => []RestAsBefore
<1>1. ImageInit => MapInv
  BY InitMap
<1>2. MapInv /\ [ImageNext]_imageVars => MapInv'
  BY NextMap
<1>3. MapInv => RestAsBefore
  <2> SUFFICES ASSUME MapInv, MapIsSound, NEW v \in VirtualPage \ Asked
               PROVE  M!Translate(v) = before[v]
    BY DEF RestAsBefore
  <2>1. SeenInv
    BY SoundMap DEF SoundInv
  <2>2. Page(words, v) = before[v]
    BY <2>1 DEF SeenInv
  <2> QED BY <2>2, TranslateIsPage
<1> QED BY <1>1, <1>2, <1>3, PTL DEF ImageSpec

(***************************************************************************)
(* Loading and mapping, which share the pages, is loading as SegmentLoader *)
(* has it: the mapping adds no step of its own to it.                      *)
(***************************************************************************)
THEOREM ImageImplementsLoader == ImageSpec => Spec
<1>1. ImageInit => Init
  BY DEF ImageInit
<1>2. [ImageNext]_imageVars => [Next]_vars
  BY LoaderStep DEF imageVars
<1> QED BY <1>1, <1>2, PTL DEF ImageSpec, Spec

(***************************************************************************)
(* Nothing of a well-formed kernel is outside of its pages once it is      *)
(* mapped, either.                                                         *)
(***************************************************************************)
THEOREM ImageLoadsInside ==
  ASSUME WellFormedTables PROVE ImageSpec => []LoadsInsideAllocation
BY LoadsCorrect, ImageImplementsLoader, PTL

------------------------------------------------------------------------------
(***************************************************************************)
(* What is to be read at the kernel's addresses.                           *)
(***************************************************************************)

(* No two PT_LOAD segments of a kernel file overlap. *)
DisjointSegments ==
  \A t \in Tables : \A s, r \in 1 .. Len(t) :
    (s # r /\ t[s].load /\ t[r].load) =>
      \/ t[s].vaddr + t[s].memsz <= t[r].vaddr
      \/ t[r].vaddr + t[r].memsz <= t[s].vaddr

(* The firmware gives whole pages. *)
AlignedPlaces == \A p \in Places : (p % PageSize) = 0

Offset(s, k) == (headers[s].vaddr - headers[1].vaddr) + k
Content(s, k) == IF k < headers[s].infile /\ s < i THEN <<s, k>> ELSE fill

FitInv == pc \in {"load", "loaded"} => AllocatedMemory + pages * PageSize <= AddrSpace
LoadedInv == pc = "loaded" => i > Len(headers)
BytesInv ==
  (pc \in {"load", "loaded"} /\ FirstIsLowest) =>
    \A s \in Loads : \A k \in 0 .. headers[s].memsz - 1 :
      memory[AllocatedMemory + Offset(s, k)] = Content(s, k)

(* The kernel's pages are neither tables nor there for new ones. *)
ApartInv ==
  /\ available \subseteq FreeFrames /\ KernelFrames \subseteq FreeFrames
  /\ NothingCleared => KernelFrames \cap (available \cup tables) = {}

ImageInv == MapInv /\ IInv /\ FitInv /\ LoadedInv /\ BytesInv /\ ApartInv

(* The numbers a header and the allocation give. *)
LEMMA Numbers ==
  ASSUME WellFormedTables, TypeOK, NEW s \in Loads
  PROVE  /\ s \in 1 .. Len(headers) /\ s \in Nat
         /\ headers[1].vaddr \in Nat /\ headers[s].vaddr \in Nat /\ headers[s].memsz \in Nat
         /\ headers[s].infile \in Nat /\ headers[s].infile <= headers[s].memsz
         /\ headers[s].vaddr + headers[s].memsz < AddrSpace
         /\ AllocatedMemory \in Addr /\ AllocatedMemory \in Nat
         /\ pages * PageSize \in Nat /\ AddrSpace \in Nat \ {0}
<1>1. s \in 1 .. Len(headers) /\ headers[s].load /\ 1 \in 1 .. Len(headers)
  BY HeaderTypes DEF Loads
<1>2. /\ headers[1].vaddr \in Addr /\ headers[s].vaddr \in Addr /\ headers[s].memsz \in Addr
      /\ headers[s].infile \in Addr
  BY <1>1, HeaderTypes
<1>3. /\ headers[s].vaddr + headers[s].memsz \in Addr
      /\ headers[s].infile <= headers[s].memsz
  BY <1>1, SegmentsEnd
<1>4. AllocatedMemory \in Addr
  BY LoaderAssumption DEF TypeOK, Addr
<1>5. pages * PageSize \in Nat
  BY LoaderAssumption DEF TypeOK
<1> QED BY <1>1, <1>2, <1>3, <1>4, <1>5, LoaderAssumption DEF Addr

LEMMA OffsetRange ==
  ASSUME NEW v \in Nat, NEW first \in Nat, NEW z \in Nat, NEW room \in Nat, NEW am \in Nat,
         NEW size \in Nat, NEW end \in Int, NEW k \in Nat,
         first <= v, v + z <= end, end - first <= room, am + room <= size, k < z
  PROVE  (v - first) + k \in 0 .. room - 1 /\ am + ((v - first) + k) \in 0 .. size - 1
OBVIOUS

(* Every byte of a segment has its place in the allocation. *)
LEMMA OffsetsInside ==
  ASSUME WellFormedTables, IInv, FitInv, pc \in {"load", "loaded"}, FirstIsLowest,
         NEW s \in Loads, NEW k \in 0 .. headers[s].memsz - 1
  PROVE  /\ Offset(s, k) \in Nat /\ Offset(s, k) < pages * PageSize
         /\ AllocatedMemory + Offset(s, k) \in Addr
<1>1. PICK v \in Nat, v1 \in Nat, z \in Nat, room \in Nat, am \in Nat, size \in Nat :
        /\ v = headers[s].vaddr /\ v1 = headers[1].vaddr /\ z = headers[s].memsz
        /\ room = pages * PageSize /\ am = AllocatedMemory /\ size = AddrSpace
  BY Numbers DEF IInv
<1>2. v1 <= v
  BY <1>1 DEF FirstIsLowest
<1>3. v + z <= virt_size
  <2>1. s \in 1 .. Len(headers) /\ Seen(s)
    BY DEF Loads, Seen
  <2> QED BY <1>1, <2>1 DEF IInv, SizedInv
<1>4. virt_size - v1 <= room
  BY <1>1 DEF IInv, RoomInv
<1>5. virt_size \in Int
  BY LoaderAssumption DEF IInv, TypeOK, Addr
<1>6. Offset(s, k) = (v - v1) + k /\ k \in Nat /\ k < z
  BY <1>1 DEF Offset
<1>7. am + room <= size
  BY <1>1 DEF FitInv
<1>8. (v - v1) + k \in 0 .. room - 1 /\ am + ((v - v1) + k) \in 0 .. size - 1
  BY ONLY <1>2, <1>3, <1>4, <1>5, <1>6, <1>7, v \in Nat, v1 \in Nat, z \in Nat, room \in Nat,
          am \in Nat, size \in Nat, OffsetRange
<1> QED BY <1>1, <1>6, <1>8 DEF Addr

(* A run of no pages. *)
LEMMA NoPages == ASSUME pages = 0, PageSize \in Nat PROVE KernelFrames = {}
<1>1. 0 * PageSize = 0
  OBVIOUS
<1>2. \A k \in 0 .. 0 - 1 : FALSE
  OBVIOUS
<1> QED BY <1>1, <1>2 DEF KernelFrames, Inside, Bytes

LEMMA InitImage == ASSUME FirmwareTrees, ImageInit PROVE ImageInv
<1>1. MapInv /\ Init /\ pc = "size"
  BY InitMap DEF ImageInit, Init
<1>2. ApartInv
  <2>1. KernelFrames = {}
    BY NoPages, LoaderAssumption DEF ImageInit, Init
  <2> QED BY <2>1 DEF ApartInv, ImageInit
<1> QED BY <1>1, <1>2, InitIInv DEF ImageInv, FitInv, LoadedInv, BytesInv

(* The kernel's pages are taken from those that were free, and what the    *)
(* mapping allocates from those still free; a failed allocation of its     *)
(* clears page 0, which is the kernel's only if it was given away.         *)
LEMMA ApartKept ==
  ASSUME ImageInv, [ImageNext]_imageVars PROVE ApartInv'
<1>1. ASSUME UNCHANGED vars, UNCHANGED <<available, tables, failures>> PROVE ApartInv'
  <2>1. KernelFrames' = KernelFrames
    BY <1>1 DEF vars, KernelFrames, Inside
  <2> QED BY <1>1, <2>1 DEF ImageInv, ApartInv, NothingCleared, PageZeroSpare
<1>2. CASE LoadStep
  <2>1. UNCHANGED <<pages, AllocatedMemory, available, tables, failures>>
    BY <1>2 DEF LoadStep, SizeSegment, LoadSegment, Loaded, mapVars
  <2>2. KernelFrames' = KernelFrames
    BY <2>1 DEF KernelFrames, Inside
  <2> QED BY <2>1, <2>2 DEF ImageInv, ApartInv, NothingCleared, PageZeroSpare
<1>3. CASE AllocateKernel
  <2>1. /\ KernelFrames' \subseteq available /\ available' = available \ KernelFrames'
        /\ tables' = tables
    BY <1>3 DEF AllocateKernel
  <2>2. available \cap tables = {}
    <3>1. mapping = "waiting"
      BY <1>3 DEF AllocateKernel, Allocate, ImageInv, MapInv, PhaseInv
    <3>2. failures = 0 /\ Sound
      BY <3>1 DEF ImageInv, MapInv, PhaseInv, Sound, NothingCleared
    <3> QED BY <3>2 DEF ImageInv, MapInv, SoundInv, TreesInv
  <2> QED BY <2>1, <2>2 DEF ImageInv, ApartInv
<1>4. CASE MapKernel
  BY <1>1, <1>4 DEF MapKernel, M!MapVirtualPages
<1>5. CASE MapStep
  <2>1. UNCHANGED vars
    BY <1>5 DEF MapStep
  <2>2. KernelFrames' = KernelFrames
    BY <2>1 DEF vars, KernelFrames, Inside
  <2>3. CASE UNCHANGED <<available, tables, failures>>
    BY <1>1, <2>1, <2>3
  <2>4. ASSUME NEW n \in available, available' = available \ {n}, tables' = tables \cup {n},
               failures' = failures
        PROVE  ApartInv'
    <3>1. NothingCleared' => NothingCleared
      BY <2>4 DEF NothingCleared, PageZeroSpare
    <3> QED BY <2>2, <2>4, <3>1 DEF ImageInv, ApartInv
  <2>5. CASE available' = available /\ tables' = tables \cup {M!NULL} /\ failures' = failures + 1
    <3> SUFFICES ASSUME NothingCleared'
                 PROVE  KernelFrames \cap (available \cup tables \cup {M!NULL}) = {}
      BY <2>2, <2>5 DEF ImageInv, ApartInv
    <3>1. failures \in Nat
      BY DEF ImageInv, MapInv, PhaseInv
    <3>2. failures = 0 /\ PageZeroSpare
      BY <2>5, <3>1 DEF NothingCleared, PageZeroSpare
    <3>3. KernelFrames \cap (available \cup tables) = {} /\ KernelFrames \subseteq FreeFrames
      BY <3>2 DEF ImageInv, ApartInv, NothingCleared
    <3> QED BY <3>2, <3>3 DEF PageZeroSpare
  <2> QED
    BY <1>5, <2>3, <2>4, <2>5 DEF MapStep, M!Step, M!Walk, M!NewTable, M!FillEntry, M!Return
<1>6. CASE UNCHANGED imageVars
  BY <1>1, <1>6 DEF imageVars, mapVars
<1>7. CASE ImageDone
  BY <1>6, <1>7 DEF ImageDone
<1> QED BY <1>2, <1>3, <1>4, <1>5, <1>6, <1>7 DEF ImageNext

(* The kernel's pages do not wrap. *)
LEMMA AllocateFits == ASSUME AllocateKernel PROVE FitInv'
  BY DEF AllocateKernel, FitInv

LEMMA AllocateBytes ==
  ASSUME WellFormedTables, MapInv, IInv, AllocateKernel PROVE FitInv' /\ LoadedInv' /\ BytesInv'
<1>1. /\ FitInv' /\ IInv' /\ pc' = "load" /\ i' = 1 /\ headers' = headers /\ fill' = fill
      /\ memory' = [a \in Addr |->
           IF a \in Bytes(AllocatedMemory', pages' * PageSize) THEN fill ELSE memory[a]]
  BY AllocateFits, NextIInv DEF AllocateKernel, Allocate, Next
<1>2. (FirstIsLowest' <=> FirstIsLowest) /\ Loads' = Loads
  BY <1>1 DEF FirstIsLowest, Loads
<1>3. BytesInv'
  <2> SUFFICES ASSUME FirstIsLowest, NEW s \in Loads, NEW k \in 0 .. headers[s].memsz - 1
               PROVE  memory'[AllocatedMemory' + Offset(s, k)] = fill
    <3>1. \A s \in Loads : ~(s < 1)
      BY HeaderTypes DEF Loads, IInv
    <3>2. \A s \in Loads : \A k : Content(s, k)' = fill /\ Offset(s, k)' = Offset(s, k)
      BY <1>1, <3>1 DEF Content, Offset
    <3> QED BY <1>1, <1>2, <3>2 DEF BytesInv
  <2>1. PICK v \in Nat, first \in Nat, z \in Nat, size \in Nat \ {0} :
          /\ v = headers[s].vaddr /\ first = headers[1].vaddr /\ z = headers[s].memsz
          /\ size = AddrSpace
    BY Numbers DEF IInv
  <2>2. PICK am \in Nat, room \in Nat : am = AllocatedMemory' /\ room = pages' * PageSize
    <3>1. AllocatedMemory' \in Places \cup {0} /\ pages' \in Nat /\ PageSize \in Nat
      BY <1>1, LoaderAssumption DEF IInv, TypeOK
    <3>2. AllocatedMemory' \in Nat
      BY <3>1, LoaderAssumption DEF Addr
    <3>3. \A a, b \in Nat : a * b \in Nat
      OBVIOUS
    <3> QED BY <3>1, <3>2, <3>3
  <2>3. PICK end \in Int : end = virt_size'
    BY <1>1, LoaderAssumption DEF IInv, TypeOK, Addr
  <2>4. v + z <= end
    <3>1. s \in 1 .. Len(headers) /\ Seen(s)'
      BY <1>1 DEF Loads, Seen
    <3> QED BY <1>1, <2>1, <2>3, <3>1 DEF IInv, SizedInv
  <2>5. end - first <= room
    BY <1>1, <1>2, <2>1, <2>2, <2>3 DEF IInv, RoomInv
  <2>6. first <= v
    BY <2>1 DEF FirstIsLowest
  <2>7. am + room <= size
    BY <1>1, <2>1, <2>2 DEF FitInv
  <2>8. k \in Nat /\ k < z
    BY <2>1
  <2>9. PICK o \in 0 .. room - 1 : o = (v - first) + k /\ am + o \in 0 .. size - 1
    BY ONLY <2>4, <2>5, <2>6, <2>7, <2>8, v \in Nat, first \in Nat, z \in Nat, size \in Nat,
            am \in Nat, room \in Nat, end \in Int, OffsetRange
  <2>10. ((am + o) % AddrSpace) = am + o /\ am + o \in Addr
    BY <2>1, <2>9, NoWrap DEF Addr
  <2>11. am + o \in Bytes(am, room)
    BY <2>9, <2>10 DEF Bytes
  <2>12. memory'[am + o] = fill
    BY <1>1, <2>2, <2>10, <2>11
  <2> QED BY <2>1, <2>2, <2>9, <2>12 DEF Offset
<1> QED BY <1>1, <1>3 DEF LoadedInv

(***************************************************************************)
(* One header of the second pass writes the bytes the file has of its own  *)
(* segment, and no other's.                                                *)
(***************************************************************************)
LEMMA SegmentWritten ==
  ASSUME NEW size \in Nat \ {0}, size = AddrSpace, NEW base \in Nat, NEW n \in Nat, NEW a \in Nat,
         base + n <= size, a < size
  PROVE  /\ (n = 0 \/ (base % AddrSpace) = base)
         /\ a \in Bytes(base % AddrSpace, n) <=> base <= a /\ a < base + n
<1>1. CASE n = 0
  <2>1. Bytes(base % AddrSpace, n) = {}
    BY <1>1 DEF Bytes
  <2> QED BY <1>1, <2>1
<1>2. CASE n # 0
  <2>1. base \in 0 .. size - 1
    BY <1>2
  <2>2. (base % AddrSpace) = base
    BY <2>1, NoWrap DEF Addr
  <2>3. \A k \in 0 .. n - 1 : ((base + k) % AddrSpace) = base + k
    <3> TAKE k \in 0 .. n - 1
    <3>1. base + k \in 0 .. size - 1
      OBVIOUS
    <3> QED BY <3>1, NoWrap DEF Addr
  <2>4. a \in Bytes(base, n) => base <= a /\ a < base + n
    BY <2>3 DEF Bytes
  <2>5. base <= a /\ a < base + n => a \in Bytes(base, n)
    <3> SUFFICES ASSUME base <= a, a < base + n PROVE a \in Bytes(base, n)
      OBVIOUS
    <3>1. PICK k \in 0 .. n - 1 : k = a - base
      <4>1. a - base \in 0 .. n - 1
        OBVIOUS
      <4> QED BY <4>1
    <3>2. a = base + k
      BY <3>1
    <3> QED BY <2>3, <3>2 DEF Bytes
  <2> QED BY <2>2, <2>4, <2>5
<1> QED BY <1>1, <1>2

LEMMA LoadBytes ==
  ASSUME WellFormedTables, DisjointSegments, IInv, FitInv, BytesInv, LoadSegment
  PROVE  FitInv' /\ LoadedInv' /\ BytesInv'
<1>1. /\ pc = "load" /\ i \in 1 .. Len(headers) /\ headers' = headers /\ fill' = fill
      /\ pages' = pages /\ AllocatedMemory' = AllocatedMemory
  BY DEF LoadSegment, IInv, TypeOK
<1>2. (FirstIsLowest' <=> FirstIsLowest) /\ Loads' = Loads /\ \A s, k : Offset(s, k)' = Offset(s, k)
  BY <1>1 DEF FirstIsLowest, Loads, Offset
<1>3. CASE pc' = "failed"
  BY <1>3 DEF FitInv, LoadedInv, BytesInv
<1>4. CASE pc' = pc /\ i' = i + 1 /\
           memory' = IF ~headers[i].load THEN memory
                     ELSE [a \in Addr |-> IF a \in Bytes(SectionAddress, headers[i].infile)
                             THEN <<i, (a - SectionAddress) % AddrSpace>> ELSE memory[a]]
  <2>1. FitInv' /\ LoadedInv'
    BY <1>1, <1>4 DEF FitInv, LoadedInv
  <2>2. i \in Nat /\ \A s \in Loads : s \in Nat
    BY DEF Loads, IInv, TypeOK
  <2>3. ASSUME FirstIsLowest, NEW s \in Loads, NEW k \in 0 .. headers[s].memsz - 1
        PROVE  memory'[AllocatedMemory + Offset(s, k)] = Content(s, k)'
    <3>1. memory[AllocatedMemory + Offset(s, k)] = Content(s, k)
      BY <1>1, <2>3 DEF BytesInv
    <3>2. CASE i \notin Loads
      <4>1. memory' = memory /\ s # i
        BY <1>1, <1>4, <3>2 DEF Loads
      <4>2. s < i + 1 <=> s < i
        BY <2>2, <4>1
      <4> QED BY <1>1, <1>4, <3>1, <4>1, <4>2 DEF Content
    <3>3. CASE i \in Loads
      <4>1. PICK v \in Nat, first \in Nat, z \in Nat, n \in Nat, am \in Nat, room \in Nat,
                 size \in Nat \ {0} :
              /\ v = headers[i].vaddr /\ first = headers[1].vaddr /\ z = headers[i].memsz
              /\ n = headers[i].infile /\ n <= z
              /\ am = AllocatedMemory /\ room = pages * PageSize /\ size = AddrSpace
        BY <3>3, Numbers DEF IInv
      <4>2. PICK u \in Nat, y \in Nat : u = headers[s].vaddr /\ y = headers[s].memsz
        BY Numbers DEF IInv
      <4>3. PICK end \in Int : end = virt_size
        BY LoaderAssumption DEF IInv, TypeOK, Addr
      <4>4. v + z <= end
        <5>1. Seen(i) /\ i \in 1 .. Len(headers)
          BY <1>1, <3>3 DEF Loads, Seen
        <5> QED BY <4>1, <4>3, <5>1 DEF IInv, SizedInv
      <4>5. end - first <= room
        BY <1>1, <2>3, <4>1, <4>3 DEF IInv, RoomInv
      <4>6. first <= v /\ first <= u
        BY <2>3, <3>3, <4>1, <4>2 DEF FirstIsLowest
      <4>7. am + room <= size
        BY <1>1, <4>1 DEF FitInv
      <4>8. k \in Nat /\ k < y
        BY <4>2
      <4>9. PICK base \in Nat : base = am + (v - first) /\ base + n <= size
        <5>1. am + (v - first) \in Nat
          BY <4>6
        <5>2. am + (v - first) + n <= size
          <6>1. n <= z
            BY <4>1
          <6> QED BY ONLY <4>4, <4>5, <4>6, <4>7, <6>1, v \in Nat, first \in Nat, z \in Nat,
                n \in Nat, am \in Nat, room \in Nat, size \in Nat, end \in Int
        <5> QED BY <5>1, <5>2
      <4>10. SectionAddress = (base % AddrSpace)
        BY <4>1, <4>9 DEF SectionAddress, Header_i
      <4>11. PICK a \in Nat : a = am + ((u - first) + k)
        BY <4>6, <4>8
      <4>12. a = AllocatedMemory + Offset(s, k) /\ a \in Addr /\ a < size
        <5>1. a = AllocatedMemory + Offset(s, k)
          BY <4>1, <4>2, <4>11 DEF Offset
        <5>2. AllocatedMemory + Offset(s, k) \in Addr
          BY <1>1, <2>3, OffsetsInside
        <5> QED BY <4>1, <5>1, <5>2 DEF Addr
      <4>13. /\ a \in Bytes(base % AddrSpace, n) <=> base <= a /\ a < base + n
             /\ a \in Bytes(base % AddrSpace, n) => ((a - (base % AddrSpace)) % AddrSpace) = a - base
        <5>1. size = AddrSpace /\ base + n <= size /\ a < size
          BY <4>1, <4>9, <4>12
        <5>2. a \in Bytes(base % AddrSpace, n) <=> base <= a /\ a < base + n
          BY ONLY <5>1, size \in Nat \ {0}, base \in Nat, n \in Nat, a \in Nat, SegmentWritten
        <5>3. a \in Bytes(base % AddrSpace, n) => ((a - (base % AddrSpace)) % AddrSpace) = a - base
          <6> SUFFICES ASSUME base <= a, a < base + n
                       PROVE  ((a - (base % AddrSpace)) % AddrSpace) = a - base
            BY <5>2
          <6>1. n = 0 \/ (base % AddrSpace) = base
            BY ONLY <5>1, size \in Nat \ {0}, base \in Nat, n \in Nat, a \in Nat, SegmentWritten
          <6>2. n # 0 /\ a - base \in 0 .. size - 1
            BY ONLY <5>1, base <= a, a < base + n, size \in Nat \ {0}, base \in Nat, n \in Nat,
                    a \in Nat
          <6>3. ((a - base) % AddrSpace) = a - base
            BY <5>1, <6>2, NoWrap DEF Addr
          <6> QED BY <6>1, <6>2, <6>3
        <5> QED BY <5>2, <5>3
      <4>14. memory'[a] = IF base <= a /\ a < base + n THEN <<i, a - base>> ELSE memory[a]
        BY <1>4, <3>3, <4>1, <4>10, <4>12, <4>13 DEF Loads
      <4>15. CASE s = i
        <5>1. a - base = k /\ (base <= a /\ a < base + n <=> k < n)
          <6>1. u = v
            BY <4>1, <4>2, <4>15
          <6>2. base = am + (v - first)
            BY <4>9
          <6> QED BY ONLY <6>1, <6>2, <4>11, v \in Nat, u \in Nat, first \in Nat, am \in Nat,
                  k \in Nat, <4>8, base \in Nat, a \in Nat, n \in Nat
        <5>2. memory'[a] = IF k < n THEN <<s, k>> ELSE memory[a]
          BY <4>14, <4>15, <5>1
        <5>3. memory[a] = fill
          BY <2>2, <3>1, <4>12, <4>15 DEF Content
        <5>4. s < i'
          BY <1>4, <2>2, <4>15
        <5> QED BY <1>1, <4>1, <4>12, <4>15, <5>2, <5>3, <5>4 DEF Content
      <4>16. CASE s # i
        <5>1. v + z <= u \/ u + y <= v
          <6>1. headers \in Tables /\ s \in 1 .. Len(headers) /\ headers[s].load /\ headers[i].load
            BY <3>3 DEF IInv, TypeOK, Loads
          <6> QED BY <1>1, <4>1, <4>2, <4>16, <6>1 DEF DisjointSegments
        <5>2. ~(base <= a /\ a < base + n)
          <6>1. n <= z /\ base = am + (v - first)
            BY <4>1, <4>9
          <6> QED BY ONLY <4>8, <4>11, <5>1, <6>1, v \in Nat, first \in Nat, z \in Nat, n \in Nat,
                am \in Nat, u \in Nat, y \in Nat, base \in Nat, a \in Nat
        <5>3. s < i + 1 <=> s < i
          BY <2>2, <4>16
        <5> QED BY <1>1, <1>4, <3>1, <4>12, <4>14, <5>2, <5>3 DEF Content
      <4> QED BY <4>15, <4>16
    <3> QED BY <3>2, <3>3
  <2> QED BY <1>1, <1>2, <2>1, <2>3 DEF BytesInv
<1> QED BY <1>3, <1>4 DEF LoadSegment, Header_i

LEMMA NextImage ==
  ASSUME WellFormedTables, DisjointSegments, ImageInv, [ImageNext]_imageVars
  PROVE  ImageInv'
<1>1. MapInv' /\ IInv' /\ ApartInv'
  <2>1. MapInv'
    BY NextMap DEF ImageInv
  <2>2. [Next]_vars
    BY LoaderStep DEF imageVars
  <2>3. IInv'
    BY <2>2, NextIInv DEF ImageInv
  <2> QED BY <2>1, <2>3, ApartKept
<1>2. ASSUME UNCHANGED vars PROVE FitInv' /\ LoadedInv' /\ BytesInv'
  <2>1. (FirstIsLowest' <=> FirstIsLowest) /\ Loads' = Loads
    BY <1>2 DEF vars, FirstIsLowest, Loads
  <2>2. \A s, k : Offset(s, k)' = Offset(s, k) /\ Content(s, k)' = Content(s, k)
    BY <1>2 DEF vars, Offset, Content
  <2>3. FitInv' /\ LoadedInv'
    BY <1>2 DEF vars, ImageInv, FitInv, LoadedInv
  <2>4. BytesInv'
    BY <1>2, <2>1, <2>2 DEF vars, ImageInv, BytesInv
  <2> QED BY <2>3, <2>4
<1>3. CASE LoadStep
  <2>1. ASSUME SizeSegment PROVE FitInv' /\ LoadedInv' /\ BytesInv'
    BY <2>1 DEF SizeSegment, FitInv, LoadedInv, BytesInv
  <2>2. ASSUME LoadSegment PROVE FitInv' /\ LoadedInv' /\ BytesInv'
    BY <2>2, LoadBytes DEF ImageInv
  <2>3. ASSUME Loaded PROVE FitInv' /\ LoadedInv' /\ BytesInv'
    <3>1. /\ pc = "load" /\ pc' = "loaded" /\ i > Len(headers)
          /\ UNCHANGED <<headers, i, virt_size, virt_min, pages, AllocatedMemory, fill, memory>>
      BY <2>3 DEF Loaded
    <3>2. (FirstIsLowest' <=> FirstIsLowest) /\ Loads' = Loads
      BY <3>1 DEF FirstIsLowest, Loads
    <3>3. \A s, k : Offset(s, k)' = Offset(s, k) /\ Content(s, k)' = Content(s, k)
      BY <3>1 DEF Offset, Content
    <3>4. FitInv' /\ LoadedInv'
      BY <3>1 DEF ImageInv, FitInv, LoadedInv
    <3>5. BytesInv'
      BY <3>1, <3>2, <3>3 DEF ImageInv, BytesInv
    <3> QED BY <3>4, <3>5
  <2>4. FitInv' /\ LoadedInv' /\ BytesInv'
    BY <1>3, <2>1, <2>2, <2>3 DEF LoadStep
  <2> QED BY <1>1, <2>4 DEF ImageInv
<1>4. CASE AllocateKernel
  <2>1. FitInv' /\ LoadedInv' /\ BytesInv'
    BY <1>4, AllocateBytes DEF ImageInv
  <2> QED BY <1>1, <2>1 DEF ImageInv
<1>5. CASE MapKernel
  BY <1>1, <1>2, <1>5 DEF MapKernel, ImageInv
<1>6. CASE MapStep
  BY <1>1, <1>2, <1>6 DEF MapStep, ImageInv
<1>7. CASE UNCHANGED imageVars
  BY <1>1, <1>2, <1>7 DEF imageVars, ImageInv
<1>8. CASE ImageDone
  BY <1>7, <1>8 DEF ImageDone
<1> QED BY <1>3, <1>4, <1>5, <1>6, <1>7, <1>8 DEF ImageNext

(* The page an address is in, and its place there. *)
OnPage(v1, x0, o, n, p, f0) ==
  \E x \in 0 .. n - 1 :
    PageOf(v1 + o) = x0 + x /\ (f0 + x) * p + ((v1 + o) % p) = p * f0 + o

LEMMA PlaceOnPage ==
  ASSUME NEW p \in Nat \ {0}, p = PageSize, NEW x0 \in Nat, NEW v1 \in Nat, v1 = p * x0,
         NEW o \in Nat, NEW n \in Nat, o < n * p, NEW f0 \in Nat
  PROVE  OnPage(v1, x0, o, n, p, f0)
<1>1. PICK a \in Nat : a = v1 + o
  OBVIOUS
<1>2. PICK q \in Nat, r \in 0 .. p - 1 : a = p * q + r /\ q = a \div p /\ r = (a % p)
  BY QuotientAndRest
<1>3. PICK x \in Int : x = q - x0
  OBVIOUS
<1>4. p * x + r = o
  <2>1. p * x = p * q - p * x0
    BY <1>3
  <2>2. PICK b \in Int, c \in Int, d \in Int : b = p * x /\ c = p * q /\ d = p * x0
    OBVIOUS
  <2>3. b = c - d /\ a = c + r /\ a = d + o
    BY <1>1, <1>2, <2>1, <2>2
  <2>4. b + r = o
    BY ONLY <2>3, b \in Int, c \in Int, d \in Int, a \in Int, r \in Int, o \in Int
  <2> QED BY <2>2, <2>4
<1>5. x >= 0
  <2>1. x <= -1 => p * x <= -p
    <3>1. x <= -1 => p * (-1 - x) >= 0 /\ p * x = -(p * (-1 - x)) - p
      OBVIOUS
    <3> QED BY <3>1
  <2> QED BY <1>4, <2>1
<1>6. x < n
  <2>1. x >= n => p * x >= n * p
    <3>1. x >= n => p * (x - n) >= 0 /\ p * x = p * (x - n) + n * p
      OBVIOUS
    <3> QED BY <3>1
  <2>2. PICK b \in Int, c \in Int : b = p * x /\ c = n * p
    OBVIOUS
  <2>3. b + r = o /\ o < c /\ (x >= n => b >= c)
    BY <1>4, <2>1, <2>2
  <2> QED BY ONLY <2>3, b \in Int, c \in Int, o \in Nat, r \in 0 .. p - 1, p \in Nat, x \in Int, n \in Nat
<1>7. (f0 + x) * p + r = p * f0 + o
  <2>1. (f0 + x) * p = p * f0 + p * x
    OBVIOUS
  <2> QED BY <1>4, <2>1
<1>8. PageOf(v1 + o) = x0 + x
  <2>1. PageOf(a) = q
    BY <1>2 DEF PageOf
  <2>2. x0 + x = q
    BY ONLY <1>3, q \in Nat, x0 \in Nat
  <2> QED BY <1>1, <2>1, <2>2
<1>9. (f0 + x) * p + ((v1 + o) % p) = p * f0 + o
  <2>1. ((v1 + o) % p) = r
    BY <1>1, <1>2
  <2> QED BY ONLY <1>7, <2>1
<1>10. x \in 0 .. n - 1
  BY <1>5, <1>6
<1> QED BY ONLY <1>8, <1>9, <1>10 DEF OnPage

(* A number that is a multiple of the page size. *)
LEMMA WholePages ==
  ASSUME NEW a \in Nat, (a % PageSize) = 0
  PROVE  PageOf(a) \in Nat /\ a = PageSize * PageOf(a)
<1>1. PICK p \in Nat \ {0} : p = PageSize
  BY LoaderAssumption
<1>2. PICK q \in Nat, r \in 0 .. p - 1 : a = p * q + r /\ q = a \div p /\ r = (a % p)
  BY QuotientAndRest
<1> QED BY <1>1, <1>2 DEF PageOf

(* The page of an address that is given as a page and a place in it. *)
LEMMA FrameOf ==
  ASSUME NEW p \in Nat \ {0}, p = PageSize, NEW f \in Nat, NEW d \in Nat, NEW b \in Nat, NEW a \in Nat,
         NEW o \in Nat, (f + d) * p + (b % p) = a + o
  PROVE  PageOf(a + o) = f + d
<1>1. PICK r \in 0 .. p - 1 : r = (b % p)
  OBVIOUS
<1>2. PICK y \in Nat, c \in Nat : y = a + o /\ c = f + d
  OBVIOUS
<1>3. y = c * p + r
  BY <1>1, <1>2
<1>4. y \div p = c
  BY <1>3
<1> QED BY <1>2, <1>4 DEF PageOf

LEMMA FaithfulImage ==
  ASSUME WellFormedTables, AlignedPlaces, ImageInv PROVE ImageFaithful
<1> SUFFICES ASSUME MapIsSound, FirstIsLowest, Aligned,
                    NEW s \in Loads, NEW k \in 0 .. headers[s].memsz - 1
             PROVE  At((headers[s].vaddr + k) % AddrSpace) =
                      IF k < headers[s].infile THEN <<s, k>> ELSE fill
  BY DEF ImageFaithful
<1>1. mapping = "done" /\ pc = "loaded" /\ i > Len(headers)
  BY DEF MapIsSound, ImageInv, MapInv, PhaseInv, LoadedInv
<1>2. /\ SoundInv /\ TypeOK /\ IInv /\ FitInv
      /\ FirstPage \in Nat /\ FirstFrame \in Nat /\ pages \in Nat
  BY SoundMap, KernelPages DEF ImageInv, MapInv
<1>3. PICK v \in Nat, v1 \in Nat, z \in Nat, am \in Nat, size \in Nat \ {0}, p \in Nat \ {0}, n \in Nat :
        /\ v = headers[s].vaddr /\ v1 = headers[1].vaddr /\ z = headers[s].memsz
        /\ am = AllocatedMemory /\ size = AddrSpace /\ v + z < size /\ p = PageSize /\ n = pages
  BY <1>2, Numbers, LoaderAssumption
<1>4. k \in Nat /\ k < z
  BY <1>3
<1>5. PICK o \in Nat : o = (v - v1) + k /\ o < n * p /\ am + o \in Addr
  BY <1>1, <1>2, <1>3, OffsetsInside DEF Offset
<1>6. v1 = p * FirstPage
  BY <1>3, WholePages DEF Aligned, FirstPage
<1>7. am = p * FirstFrame
  <2>1. (am % p) = 0
    <3>1. (0 % p) = 0
      OBVIOUS
    <3> QED BY <1>2, <1>3, <3>1 DEF AlignedPlaces, TypeOK
  <2> QED BY <1>3, <2>1, WholePages DEF FirstFrame
<1>8. PICK x \in 0 .. n - 1 :
        PageOf(v1 + o) = FirstPage + x /\ (FirstFrame + x) * p + ((v1 + o) % p) = p * FirstFrame + o
  <2>1. PICK x0 \in Nat, f0 \in Nat : x0 = FirstPage /\ f0 = FirstFrame
    BY <1>2
  <2>2. p = PageSize /\ v1 = p * x0 /\ o < n * p
    BY <1>3, <1>5, <1>6, <2>1
  <2>3. OnPage(v1, x0, o, n, p, f0)
    BY ONLY <2>2, p \in Nat \ {0}, x0 \in Nat, v1 \in Nat, o \in Nat, n \in Nat, f0 \in Nat, PlaceOnPage
  <2> QED BY <2>1, <2>3 DEF OnPage
<1>9. v1 + o = v + k /\ ((v + k) % AddrSpace) = v + k
  <2>1. v1 + o = v + k
    BY <1>5
  <2>2. v + k \in 0 .. size - 1
    BY <1>3, <1>4
  <2> QED BY <1>3, <2>1, <2>2, NoWrap DEF Addr
<1>10. Page(words, FirstPage + x) = FirstFrame + x
  BY <1>1, <1>2, <1>3, <1>8 DEF SoundInv, CallsInv, Complete
<1>11. M!Translate(PageOf(v + k)) = FirstFrame + x
  BY <1>8, <1>9, <1>10, TranslateIsPage
<1>12. FirstFrame + x \notin {M!Absent} \cup tables \cup strayed
  <2>1. FirstFrame + x # M!Absent
    BY <1>2 DEF M!Absent
  <2>2. FirstFrame + x \in KernelFrames
    <3>1. PICK f0 \in Nat, d \in Nat : f0 = FirstFrame /\ d = x
      BY <1>2
    <3>2. o < n * p /\ am = p * f0 /\ am + o < size /\ p = PageSize
          /\ (f0 + d) * p + ((v1 + o) % p) = am + o
      BY <1>3, <1>5, <1>7, <1>8, <3>1 DEF Addr
    <3>3. PageOf(am + o) = f0 + d
      BY ONLY <3>2, p \in Nat \ {0}, f0 \in Nat, d \in Nat, v1 \in Nat, o \in Nat, am \in Nat,
              FrameOf
    <3>4. ((am + o) % AddrSpace) = am + o
      BY <1>5, NoWrap
    <3>5. o \in 0 .. pages * PageSize - 1
      BY <1>3, <1>5
    <3>6. am + o \in Inside
      BY <1>3, <3>4, <3>5 DEF Inside, Bytes
    <3> QED BY <3>1, <3>3, <3>6 DEF KernelFrames
  <2>3. NothingCleared /\ (OneTable \/ Unharmed)
    BY DEF MapIsSound
  <2>4. KernelFrames \cap tables = {}
    BY <2>3 DEF ImageInv, ApartInv
  <2>5. KernelFrames \cap strayed = {}
    BY <1>2, <2>3 DEF Unharmed, SoundInv, OneTableInv
  <2> QED BY <2>1, <2>2, <2>4, <2>5
<1>13. At(v + k) = memory[am + o]
  BY <1>3, <1>7, <1>8, <1>9, <1>11, <1>12 DEF At
<1>14. memory[AllocatedMemory + Offset(s, k)] = Content(s, k)
  BY <1>1 DEF ImageInv, BytesInv
<1>15. am + o = AllocatedMemory + Offset(s, k)
  BY <1>3, <1>5 DEF Offset
<1>16. s < i
  BY <1>1, <1>2, HeaderTypes DEF Loads, TypeOK
<1> QED BY <1>3, <1>9, <1>13, <1>14, <1>15, <1>16 DEF Content

(***************************************************************************)
(* What the kernel finds at its own addresses.  However its segments lie   *)
(* and wherever its pages come from, page 0 included, each byte of each is *)
(* the file's, or what the allocation held where the file has none:        *)
(* loading, which counts from the first header's address, and mapping,     *)
(* which counts in pages and walks tables of the firmware's making, agree  *)
(* to the byte.  When the kernel is at page 0 no allocation of a table may *)
(* fail (NothingCleared).                                                  *)
(***************************************************************************)
THEOREM ImageCorrect ==
  ASSUME WellFormedTables, DisjointSegments, AlignedPlaces, FirmwareTrees
  PROVE  ImageSpec => []ImageFaithful
<1>1. ImageInit => ImageInv
  BY InitImage
<1>2. ImageInv /\ [ImageNext]_imageVars => ImageInv'
  BY NextImage
<1>3. ImageInv => ImageFaithful
  BY FaithfulImage
<1> QED BY <1>1, <1>2, <1>3, PTL DEF ImageSpec
==============================================================================
