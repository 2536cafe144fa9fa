------------------------- MODULE BootSequenceProofs -------------------------
(***************************************************************************)
(* The hand-over to the kernel, for every size of memory and of the        *)
(* kernel, every layout, and every file on the disk: what the kernel is    *)
(* given is there, is its own and is up to date, whichever calls of the    *)
(* firmware fail and whenever its timers change the memory map.            *)
(***************************************************************************)
EXTENDS BootSequence, TLAPS

Opening == CallPCs("open", OpeningCalls)
Heading == CallPCs("headers", HeaderCalls)
Placing == {<<"place">>, <<"load">>}
Fetching == {<<"sizeMap">>, <<"allocMap">>, <<"getMap">>}
Leaving == {<<"exit">>, <<"again">>, <<"giveUp">>}
HandingOver == {<<"fill">>, <<"jumped">>}
Stopped == {<<"returned">>, <<"hung">>}

(***************************************************************************)
(* The buffers there are before call k of the opening, and later on.  The  *)
(* program headers, and a first memory map, stay when the firmware refuses *)
(* to free them.                                                           *)
(***************************************************************************)
OpenPools(k) ==
  {p \in Pools : \/ p = "Graphics" /\ k > 1
                 \/ p = "ESPRootTemp" /\ k \in 4 .. 5
                 \/ p = "ESPRoot" /\ k > 4
                 \/ p = "FileInfo" /\ k > 9}

FilePools == {"Graphics", "ESPRoot", "FileInfo"}

PoolsKnown ==
  /\ \A k \in 1 .. 13 : pc = <<"open", k>> => pools = OpenPools(k)
  /\ pc = <<"check">> => pools = FilePools
  /\ pc \in Heading \cup Placing \cup {<<"loaderBlock">>} =>
       FilePools \subseteq pools /\ pools \subseteq FilePools \cup {"program_headers_table"}
  /\ pc \in Fetching \cup Leaving \cup HandingOver =>
       /\ FilePools \cup {"Loader_block"} \subseteq pools
       /\ pools \subseteq HandedOver \cup {"program_headers_table", "first_MemMap"}
  /\ pc = <<"getMap">> => "MemMap" \in pools
  /\ (pc \in Leaving \cup HandingOver \cup {<<"sizeMap">>} /\ MemMap \notin {"none", "freed"})
       => "MemMap" \in pools
  /\ (pc \in Leaving \cup HandingOver /\ sized) => "MemMap" \in pools

(* The kernel's pages are those of the run found, once it has been found.  *)
KernelPlaced ==
  /\ base \in P!Page
  /\ P!RunFrom(base) = {p \in P!Page : usage[p] = "kernel"}

KernelKnown ==
  /\ pc \in Opening \cup Heading \cup {<<"check">>, <<"place">>} => outcome = "searching"
  /\ pc = <<"load">> => outcome = "placed"
  /\ outcome = "searching" => usage \in [P!Page -> {"free", "taken"}]
  /\ outcome = "placed" => KernelPlaced
  /\ (file = "elf64" /\ pc \in Fetching \cup Leaving \cup HandingOver \cup {<<"loaderBlock">>}) =>
       /\ outcome = "placed"
       /\ loaded /\ Header_memory = "e_entry" /\ KernelBaseAddress = base

(* The map in the buffer is as old as its key, until a key was accepted.   *)
MapKnown ==
  /\ pc \notin Fetching \cup Leaving \cup HandingOver \cup Stopped => MemMap = "none"
  /\ pc = <<"getMap">> => MemMap = "unfilled"
  /\ pc \in Leaving \cup {<<"sizeMap">>} => MemMap \in {"none", "freed", "unfilled", MemMapKey}
  /\ pc \in HandingOver => ~services /\ MemMap # "stale"

TriesKnown ==
  /\ pc \notin Leaving \cup HandingOver \cup Stopped => tries \in 0 .. 1
  /\ pc = <<"exit">> => tries \in 0 .. 1
  /\ pc = <<"again">> => tries = 1

IInv == TypeOK /\ PoolsKnown /\ KernelKnown /\ MapKnown /\ TriesKnown

------------------------------------------------------------------------------
(* The calls one by one. *)

LEMMA CallsCounted == Len(OpeningCalls) = 13 /\ Len(HeaderCalls) = 3
  BY DEF OpeningCalls, HeaderCalls

LEMMA OpeningCallsAre ==
  \A k \in 1 .. 13 : OpeningCalls[k] =
    IF k = 1 THEN Call({"Graphics"}, {}) ELSE IF k = 3 THEN Call({"ESPRootTemp"}, {})
    ELSE IF k = 4 THEN Call({"ESPRoot"}, {}) ELSE IF k = 5 THEN Call({}, {"ESPRootTemp"})
    ELSE IF k = 9 THEN Call({"FileInfo"}, {}) ELSE Plain
  BY DEF OpeningCalls

LEMMA HeaderCallsAre ==
  \A k \in 1 .. 3 : HeaderCalls[k] = IF k = 1 THEN Call({"program_headers_table"}, {}) ELSE Plain
  BY DEF HeaderCalls

(* An opening call that succeeds leaves the buffers the next one finds.    *)
LEMMA OpenPoolsNext ==
  ASSUME NEW k \in 1 .. 13
  PROVE  (OpenPools(k) \cup OpeningCalls[k].gets) \ OpeningCalls[k].puts =
           IF k = 13 THEN FilePools ELSE OpenPools(k + 1)
<1>1. OpeningCalls[k].gets = IF k = 1 THEN {"Graphics"} ELSE IF k = 3 THEN {"ESPRootTemp"}
        ELSE IF k = 4 THEN {"ESPRoot"} ELSE IF k = 9 THEN {"FileInfo"} ELSE {}
  BY OpeningCallsAre DEF Call, Plain
<1>2. OpeningCalls[k].puts = IF k = 5 THEN {"ESPRootTemp"} ELSE {}
  BY OpeningCallsAre DEF Call, Plain
<1> QED
  BY <1>1, <1>2 DEF OpenPools, Pools, FilePools

LEMMA PlacesApart ==
  /\ \A k \in 1 .. 13 : <<"open", k>> \in Opening
  /\ \A k \in 1 .. 3 : <<"headers", k>> \in Heading
  /\ \A at \in Opening : \E k \in 1 .. 13 : at = <<"open", k>>
  /\ \A at \in Heading : \E k \in 1 .. 3 : at = <<"headers", k>>
  BY CallsCounted DEF Opening, Heading, CallPCs

LEMMA PlacesAre ==
  PCs = Opening \cup Heading \cup Placing \cup Fetching \cup Leaving \cup HandingOver
        \cup Stopped \cup {<<"check">>, <<"loaderBlock">>}
<1>1. {<<s>> : s \in {"check", "place", "load", "loaderBlock", "sizeMap", "allocMap", "getMap",
                     "exit", "again", "giveUp", "fill", "returned", "hung", "jumped"}}
      = Placing \cup Fetching \cup Leaving \cup HandingOver
        \cup Stopped \cup {<<"check">>, <<"loaderBlock">>}
  BY DEF Placing, Fetching, Leaving, HandingOver, Stopped
<1> QED
  BY <1>1 DEF PCs, Opening, Heading

------------------------------------------------------------------------------
(* Every step keeps the invariant.                                         *)

LEMMA InitIInv == Init => IInv
<1> SUFFICES ASSUME Init PROVE IInv
  OBVIOUS
<1>1. pc = <<"open", 1>> /\ pc \in Opening
  BY PlacesApart DEF Init
<1>2. pc \notin Heading \cup Placing \cup Fetching \cup Leaving \cup HandingOver \cup Stopped
        /\ pc # <<"check">> /\ pc # <<"loaderBlock">>
  BY <1>1, PlacesApart DEF Placing, Fetching, Leaving, HandingOver, Stopped
<1>3. usage \in [P!Page -> {"free", "taken"}]
  BY DEF Init, P!Init
<1>4. TypeOK
  <2>1. pc \in PCs
    BY <1>1, PlacesAre
  <2>2. usage \in [P!Page -> {"free", "taken", "kernel"}]
    BY <1>3
  <2>3. outcome = "searching" /\ base \in 0 .. NumPages
    BY BootAssumption DEF Init, P!Init
  <2>4. KernelBaseAddress \in -1 .. NumPages - 1
    BY BootAssumption DEF Init
  <2>5. loaded \in BOOLEAN /\ mapFits \in BOOLEAN /\ sized \in BOOLEAN /\ services \in BOOLEAN
    BY DEF Init
  <2>6. /\ file \in Files /\ pools \subseteq Pools
        /\ Header_memory \in {"0x40000000", "e_entry"}
        /\ MemMapKey \in {"unset", "current", "stale"}
        /\ MemMap \in {"none", "unfilled", "current", "stale", "freed"}
        /\ tries \in 0 .. 2
    BY DEF Init
  <2> QED
    BY <2>1, <2>2, <2>3, <2>4, <2>5, <2>6 DEF TypeOK
<1>5. PoolsKnown
  BY <1>1, <1>2 DEF Init, PoolsKnown, OpenPools
<1>6. KernelKnown
  BY <1>1, <1>2, <1>3 DEF Init, P!Init, KernelKnown
<1>7. MapKnown /\ TriesKnown
  BY <1>1, <1>2 DEF Init, MapKnown, TriesKnown
<1> QED
  BY <1>4, <1>5, <1>6, <1>7 DEF IInv

(* What an opening, or a header, call leaves alone.                        *)
Kept == UNCHANGED <<file, pageVars, kernelVars, mapVars, tries, services>>

LEMMA OpenKeeps == ASSUME IInv, Open PROVE IInv'
<1>1. PICK k \in 1 .. 13 : pc = <<"open", k>>
  BY PlacesApart DEF Open, RunCalls, Opening
<1> DEFINE c == OpeningCalls[k]
<1>2. /\ \/ /\ pools' = (pools \cup c.gets) \ c.puts
            /\ pc' = IF k = 13 THEN <<"check">> ELSE <<"open", k + 1>>
         \/ pools' = pools /\ pc' \in Stopped
      /\ UNCHANGED <<file, pageVars, kernelVars, mapVars, tries, services>>
  BY <1>1, CallsCounted DEF Open, RunCalls, FailurePC, Stopped
<1>3. pools = OpenPools(k)
  BY <1>1 DEF IInv, PoolsKnown
<1>4. \/ pc' \in Stopped /\ pools' = OpenPools(k)
      \/ pc' = <<"check">> /\ pools' = FilePools
      \/ k < 13 /\ pc' = <<"open", k + 1>> /\ pools' = OpenPools(k + 1)
  <2>1. (OpenPools(k) \cup c.gets) \ c.puts = IF k = 13 THEN FilePools ELSE OpenPools(k + 1)
    BY OpenPoolsNext
  <2> HIDE DEF c
  <2> QED
    BY <1>2, <1>3, <2>1
<1> HIDE DEF c
<1>5. k < 13 => <<"open", k + 1>> \in Opening
  BY PlacesApart
<1>6. pc \in Opening /\ pc' \in Opening \cup Stopped \cup {<<"check">>}
  BY <1>1, <1>4, <1>5, PlacesApart
<1>7. pc' \notin Heading \cup Placing \cup Fetching \cup Leaving \cup HandingOver
        /\ pc' # <<"loaderBlock">>
  BY <1>6, PlacesApart DEF Placing, Fetching, Leaving, HandingOver, Stopped
<1>8. TypeOK'
  <2>1. pc' \in PCs
    BY <1>6, PlacesAre
  <2>2. pools' \subseteq Pools
    BY <1>4 DEF OpenPools, FilePools, Pools
  <2> QED
    BY <1>2, <2>1, <2>2 DEF IInv, TypeOK, pageVars, kernelVars, mapVars
<1>9. PoolsKnown'
  BY <1>4, <1>6, <1>7 DEF PoolsKnown, Stopped
<1>10. KernelKnown'
  BY <1>2, <1>6, <1>7 DEF IInv, KernelKnown, KernelPlaced, pageVars, kernelVars, Stopped
<1>11. MapKnown' /\ TriesKnown'
  <2>1. pc \notin Fetching \cup Leaving \cup HandingOver \cup Stopped
    BY <1>6, PlacesApart DEF Fetching, Leaving, HandingOver, Stopped
  <2>2. pc' \notin Leaving \cup HandingOver \cup {<<"getMap">>, <<"sizeMap">>}
    BY <1>7 DEF Fetching
  <2>3. pc' # <<"exit">> /\ pc' # <<"again">>
    BY <2>2 DEF Leaving
  <2>4. MemMap' = "none" /\ tries' \in 0 .. 1
    BY <1>2, <2>1 DEF IInv, MapKnown, TriesKnown, mapVars
  <2> QED
    BY <2>2, <2>3, <2>4 DEF MapKnown, TriesKnown
<1> QED
  BY <1>8, <1>9, <1>10, <1>11 DEF IInv

LEMMA CheckFileKeeps == ASSUME IInv, CheckFile PROVE IInv'
<1>1. /\ pc = <<"check">>
      /\ pc' \in {<<"headers", 1>>, <<"hung">>, <<"loaderBlock">>}
      /\ pc' = <<"loaderBlock">> => file # "elf64"
      /\ UNCHANGED <<file, pools, pageVars, kernelVars, mapVars, tries, services>>
  BY BootAssumption DEF CheckFile, IInv, TypeOK
<1>2. pc \notin Fetching \cup Leaving \cup HandingOver \cup Stopped
  BY <1>1 DEF Fetching, Leaving, HandingOver, Stopped
<1>3. pc' \in Heading \cup Stopped \cup {<<"loaderBlock">>}
  BY <1>1, PlacesApart DEF Stopped
<1>4. pc' \notin Opening \cup Placing \cup Fetching \cup Leaving \cup HandingOver
        /\ pc' # <<"check">>
  BY <1>1, PlacesApart DEF Placing, Fetching, Leaving, HandingOver
<1>5. TypeOK'
  <2>1. pc' \in PCs
    BY <1>3, PlacesAre
  <2> QED
    BY <1>1, <2>1 DEF IInv, TypeOK, pageVars, kernelVars, mapVars
<1>6. PoolsKnown'
  BY <1>1, <1>3, <1>4, PlacesApart DEF IInv, PoolsKnown, Fetching
<1>7. KernelKnown'
  BY <1>1, <1>3, <1>4
     DEF IInv, KernelKnown, KernelPlaced, pageVars, kernelVars, Stopped, Placing
<1>8. MapKnown' /\ TriesKnown'
  <2>1. MemMap' = "none" /\ tries' \in 0 .. 1
    BY <1>1, <1>2 DEF IInv, MapKnown, TriesKnown, mapVars
  <2>2. pc' \notin {<<"getMap">>, <<"sizeMap">>, <<"exit">>, <<"again">>}
    BY <1>1, PlacesApart
  <2> QED
    BY <1>4, <2>1, <2>2 DEF MapKnown, TriesKnown
<1> QED
  BY <1>5, <1>6, <1>7, <1>8 DEF IInv

LEMMA ReadHeadersKeeps == ASSUME IInv, ReadHeaders PROVE IInv'
<1>1. PICK k \in 1 .. 3 : pc = <<"headers", k>>
  BY PlacesApart DEF ReadHeaders, RunCalls, Heading
<1> DEFINE c == HeaderCalls[k]
<1>2. /\ \/ /\ pools' = (pools \cup c.gets) \ c.puts
            /\ pc' = IF k = 3 THEN <<"place">> ELSE <<"headers", k + 1>>
         \/ pools' = pools /\ pc' = <<"hung">>
      /\ UNCHANGED <<file, pageVars, kernelVars, mapVars, tries, services>>
  BY <1>1, CallsCounted DEF ReadHeaders, RunCalls, FailurePC
<1>3. c.gets \subseteq {"program_headers_table"} /\ c.puts = {}
  BY HeaderCallsAre DEF Call, Plain
<1> HIDE DEF c
<1>4. FilePools \subseteq pools /\ pools \subseteq FilePools \cup {"program_headers_table"}
  BY <1>1, PlacesApart DEF IInv, PoolsKnown
<1>5. FilePools \subseteq pools' /\ pools' \subseteq FilePools \cup {"program_headers_table"}
  BY <1>2, <1>3, <1>4
<1>6. k # 3 => <<"headers", k + 1>> \in Heading
  BY PlacesApart
<1>7. pc \in Heading /\ pc' \in Heading \cup {<<"place">>, <<"hung">>}
  BY <1>1, <1>2, <1>6, PlacesApart
<1>8. pc' \notin Opening \cup Fetching \cup Leaving \cup HandingOver
        /\ pc' \notin {<<"check">>, <<"load">>, <<"loaderBlock">>}
  BY <1>7, PlacesApart DEF Fetching, Leaving, HandingOver
<1>9. TypeOK'
  <2>1. pc' \in PCs
    BY <1>7, PlacesAre DEF Placing, Stopped
  <2>2. pools' \subseteq Pools
    BY <1>5 DEF FilePools, Pools
  <2> QED
    BY <1>2, <2>1, <2>2 DEF IInv, TypeOK, pageVars, kernelVars, mapVars
<1>10. PoolsKnown'
  BY <1>5, <1>7, <1>8, PlacesApart DEF PoolsKnown, Fetching
<1>11. KernelKnown'
  BY <1>2, <1>7, <1>8 DEF IInv, KernelKnown, KernelPlaced, pageVars, kernelVars
<1>12. MapKnown' /\ TriesKnown'
  <2>1. pc \notin Fetching \cup Leaving \cup HandingOver \cup Stopped
    BY <1>7, PlacesApart DEF Fetching, Leaving, HandingOver, Stopped
  <2>2. MemMap' = "none" /\ tries' \in 0 .. 1
    BY <1>2, <2>1 DEF IInv, MapKnown, TriesKnown, mapVars
  <2>3. pc' \notin {<<"getMap">>, <<"sizeMap">>, <<"exit">>, <<"again">>}
    BY <1>7, PlacesApart
  <2> QED
    BY <1>8, <2>2, <2>3 DEF MapKnown, TriesKnown
<1> QED
  BY <1>9, <1>10, <1>11, <1>12 DEF IInv

(* Placement's own step: the run found was free, and is now the kernel's.  *)
LEMMA PlaceGivesRun ==
  ASSUME TypeOK, usage \in [P!Page -> {"free", "taken"}], P!Place
  PROVE  KernelPlaced' /\ outcome' = "placed" /\ usage' \in [P!Page -> {"free", "taken", "kernel"}]
<1>1. PICK p \in P!Page :
        /\ P!RunFrom(p) \subseteq {q \in P!Page : usage[q] = "free"}
        /\ base' = p
        /\ usage' = [q \in P!Page |-> IF q \in P!RunFrom(p) THEN "kernel" ELSE usage[q]]
  BY DEF P!Place
<1>2. P!RunFrom(p) \subseteq P!Page
  BY <1>1
<1>3. {q \in P!Page : usage'[q] = "kernel"} = P!RunFrom(p)
  BY <1>1, <1>2
<1> QED
  BY <1>1, <1>3 DEF KernelPlaced, P!Place, P!RunFrom, P!Page

LEMMA FindPlaceKeeps == ASSUME IInv, FindPlace PROVE IInv'
<1>1. /\ pc = <<"place">>
      /\ P!Place \/ P!GiveUp
      /\ pc' = IF outcome' = "placed" THEN <<"load">> ELSE <<"hung">>
      /\ UNCHANGED <<file, pools, kernelVars, mapVars, tries, services>>
  BY DEF FindPlace
<1>2. usage \in [P!Page -> {"free", "taken"}]
  BY <1>1 DEF IInv, KernelKnown
<1>3. /\ \/ outcome' = "placed" /\ KernelPlaced'
         \/ outcome' = "failed" /\ base' = base
      /\ usage' \in [P!Page -> {"free", "taken", "kernel"}]
  <2>1. CASE P!Place
    BY <1>2, <2>1, PlaceGivesRun DEF IInv
  <2>2. CASE P!GiveUp
    BY <2>2 DEF P!GiveUp
  <2> QED
    BY <1>1, <2>1, <2>2
<1>4. /\ pc' \in {<<"load">>, <<"hung">>}
      /\ pc' = <<"load">> => outcome' = "placed"
      /\ outcome' \in {"placed", "failed"}
  BY <1>1, <1>3
<1>5. pc' \notin Opening \cup Heading \cup Fetching \cup Leaving \cup HandingOver
        /\ pc' \notin {<<"check">>, <<"place">>, <<"loaderBlock">>}
  BY <1>4, PlacesApart DEF Fetching, Leaving, HandingOver
<1>6. TypeOK'
  <2>1. pc' \in PCs
    BY <1>4, PlacesAre DEF Placing, Stopped
  <2>2. base' \in 0 .. NumPages
    BY <1>3, BootAssumption DEF IInv, TypeOK, KernelPlaced, P!Page
  <2> QED
    BY <1>1, <1>3, <1>4, <2>1, <2>2 DEF IInv, TypeOK, kernelVars, mapVars
<1>7. PoolsKnown'
  BY <1>1, <1>4, <1>5, PlacesApart DEF IInv, PoolsKnown, Placing, Fetching
<1>8. KernelKnown'
  BY <1>3, <1>4, <1>5 DEF KernelKnown
<1>9. MapKnown' /\ TriesKnown'
  <2>1. pc \notin Fetching \cup Leaving \cup HandingOver \cup Stopped
    BY <1>1 DEF Fetching, Leaving, HandingOver, Stopped
  <2>2. MemMap' = "none" /\ tries' \in 0 .. 1
    BY <1>1, <2>1 DEF IInv, MapKnown, TriesKnown, mapVars
  <2>3. pc' \notin {<<"getMap">>, <<"sizeMap">>, <<"exit">>, <<"again">>}
    BY <1>4
  <2> QED
    BY <1>5, <2>2, <2>3 DEF MapKnown, TriesKnown
<1> QED
  BY <1>6, <1>7, <1>8, <1>9 DEF IInv

LEMMA LoadSegmentsKeeps == ASSUME IInv, LoadSegments PROVE IInv'
<1>1. /\ pc = <<"load">>
      /\ \/ /\ loaded' = TRUE
            /\ pools' \in {pools, pools \ {"program_headers_table"}}
            /\ KernelBaseAddress' = base /\ Header_memory' = "e_entry"
            /\ pc' = <<"loaderBlock">>
         \/ pc' = <<"hung">> /\ UNCHANGED <<pools, kernelVars>>
      /\ UNCHANGED <<file, pageVars, mapVars, tries, services>>
  BY DEF LoadSegments
<1>2. outcome = "placed" /\ KernelPlaced
  BY <1>1 DEF IInv, KernelKnown
<1>3. FilePools \subseteq pools' /\ pools' \subseteq FilePools \cup {"program_headers_table"}
  BY <1>1 DEF IInv, PoolsKnown, Placing, FilePools
<1>4. pc' \notin Opening \cup Heading \cup Placing \cup Fetching \cup Leaving \cup HandingOver
        /\ pc' # <<"check">>
  BY <1>1, PlacesApart DEF Placing, Fetching, Leaving, HandingOver
<1>5. TypeOK'
  <2>1. pc' \in PCs
    BY <1>1, PlacesAre DEF Stopped
  <2>2. pools' \subseteq Pools
    BY <1>3 DEF FilePools, Pools
  <2>3. KernelBaseAddress' \in -1 .. NumPages - 1
    BY <1>1, <1>2, BootAssumption DEF IInv, TypeOK, KernelPlaced, P!Page, kernelVars
  <2>4. loaded' \in BOOLEAN /\ Header_memory' \in {"0x40000000", "e_entry"}
    BY <1>1 DEF IInv, TypeOK, kernelVars
  <2> QED
    BY <1>1, <2>1, <2>2, <2>3, <2>4 DEF IInv, TypeOK, pageVars, mapVars
<1>6. PoolsKnown'
  BY <1>1, <1>3, <1>4, PlacesApart DEF PoolsKnown, Fetching
<1>7. KernelKnown'
  BY <1>1, <1>2, <1>4 DEF KernelKnown, KernelPlaced, pageVars, Placing
<1>8. MapKnown' /\ TriesKnown'
  <2>1. pc \notin Fetching \cup Leaving \cup HandingOver \cup Stopped
    BY <1>1 DEF Fetching, Leaving, HandingOver, Stopped
  <2>2. MemMap' = "none" /\ tries' \in 0 .. 1
    BY <1>1, <2>1 DEF IInv, MapKnown, TriesKnown, mapVars
  <2>3. pc' \notin {<<"getMap">>, <<"sizeMap">>, <<"exit">>, <<"again">>}
    BY <1>1
  <2> QED
    BY <1>4, <2>2, <2>3 DEF MapKnown, TriesKnown
<1> QED
  BY <1>5, <1>6, <1>7, <1>8 DEF IInv

LEMMA AllocateLoaderBlockKeeps == ASSUME IInv, AllocateLoaderBlock PROVE IInv'
<1>1. /\ pc = <<"loaderBlock">>
      /\ \/ pools' = pools \cup {"Loader_block"} /\ pc' = <<"sizeMap">>
         \/ UNCHANGED pools /\ pc' = <<"hung">>
      /\ UNCHANGED <<file, pageVars, kernelVars, mapVars, tries, services>>
  BY DEF AllocateLoaderBlock
<1>2. FilePools \subseteq pools /\ pools \subseteq FilePools \cup {"program_headers_table"}
  BY <1>1 DEF IInv, PoolsKnown
<1>3. pc' \notin Opening \cup Heading \cup Placing \cup Leaving \cup HandingOver
        /\ pc' \notin {<<"check">>, <<"loaderBlock">>}
  BY <1>1, PlacesApart DEF Placing, Leaving, HandingOver
<1>4. TypeOK'
  <2>1. pc' \in PCs
    BY <1>1, PlacesAre DEF Stopped, Fetching
  <2>2. pools' \subseteq Pools
    BY <1>1, <1>2 DEF FilePools, Pools
  <2> QED
    BY <1>1, <2>1, <2>2 DEF IInv, TypeOK, pageVars, kernelVars, mapVars
<1>5. PoolsKnown'
  <2>1. pc' \in Fetching => /\ FilePools \cup {"Loader_block"} \subseteq pools'
                            /\ pools' \subseteq HandedOver \cup {"program_headers_table", "first_MemMap"}
    <3>1. CASE pools' = pools \cup {"Loader_block"}
      BY <3>1, <1>2 DEF HandedOver, FilePools
    <3>2. CASE pc' = <<"hung">>
      BY <3>2 DEF Fetching
    <3> QED
      BY <1>1, <3>1, <3>2
  <2>2. \A k \in 1 .. 13 : pc' # <<"open", k>>
    BY <1>3, PlacesApart
  <2>3. pc' \notin Heading \cup Placing \cup {<<"check">>, <<"loaderBlock">>}
    BY <1>3
  <2>4. pc' \notin Leaving \cup HandingOver \cup {<<"getMap">>}
    BY <1>1, <1>3
  <2>5. MemMap' = "none"
    BY <1>1 DEF IInv, MapKnown, Fetching, Leaving, HandingOver, Stopped, mapVars
  <2> QED
    BY <2>1, <2>2, <2>3, <2>4, <2>5 DEF PoolsKnown
<1>6. KernelKnown'
  BY <1>1, <1>3 DEF IInv, KernelKnown, KernelPlaced, pageVars, kernelVars, Placing, Fetching
<1>7. MapKnown' /\ TriesKnown'
  <2>1. pc \notin Fetching \cup Leaving \cup HandingOver \cup Stopped
    BY <1>1 DEF Fetching, Leaving, HandingOver, Stopped
  <2>2. MemMap' = "none" /\ tries' \in 0 .. 1
    BY <1>1, <2>1 DEF IInv, MapKnown, TriesKnown, mapVars
  <2>3. pc' \notin {<<"getMap">>, <<"exit">>, <<"again">>}
    BY <1>1
  <2> QED
    BY <1>3, <2>2, <2>3 DEF MapKnown, TriesKnown
<1> QED
  BY <1>4, <1>5, <1>6, <1>7 DEF IInv

------------------------------------------------------------------------------
(***************************************************************************)
(* The handshake.  None of its steps touches the file or the kernel, and a *)
(* step that stays in it keeps what it says of them.                       *)
(***************************************************************************)
InHandshake == Fetching \cup Leaving \cup HandingOver

LEMMA HandshakeApart ==
  ASSUME NEW at \in InHandshake \cup Stopped
  PROVE  at \notin Opening \cup Heading \cup Placing /\ at \notin {<<"check">>, <<"loaderBlock">>}
  BY PlacesApart DEF InHandshake, Fetching, Leaving, HandingOver, Stopped, Placing

LEMMA HandshakeKeepsKernel ==
  ASSUME IInv, pc \in InHandshake, pc' \in InHandshake \cup Stopped,
         UNCHANGED <<file, pageVars, kernelVars>>
  PROVE  KernelKnown'
<1>1. pc' \notin Opening \cup Heading \cup Placing /\ pc' \notin {<<"check">>, <<"loaderBlock">>}
  BY HandshakeApart
<1> QED
  BY <1>1 DEF IInv, KernelKnown, KernelPlaced, pageVars, kernelVars, InHandshake, Placing

(* The memory map's own pool is there when the pointer is to one.          *)
MapInPool(at, map, told, held) ==
  /\ at = <<"getMap">> => "MemMap" \in held
  /\ (at \in Leaving \cup HandingOver \cup {<<"sizeMap">>} /\ map \notin {"none", "freed"})
       => "MemMap" \in held
  /\ (at \in Leaving \cup HandingOver /\ told) => "MemMap" \in held

LEMMA HandshakeKeepsPools ==
  ASSUME IInv, pc \in InHandshake, pc' \in InHandshake \cup Stopped,
         pools \ {"MemMap"} \subseteq pools',
         pools' \subseteq pools \cup {"MemMap", "first_MemMap"},
         MapInPool(pc', MemMap', sized', pools')
  PROVE  PoolsKnown' /\ pools' \subseteq Pools
<1>1. pc' \notin Opening \cup Heading \cup Placing /\ pc' \notin {<<"check">>, <<"loaderBlock">>}
  BY HandshakeApart
<1>2. /\ FilePools \cup {"Loader_block"} \subseteq pools
      /\ pools \subseteq HandedOver \cup {"program_headers_table", "first_MemMap"}
  BY DEF IInv, PoolsKnown, InHandshake
<1>3. /\ FilePools \cup {"Loader_block"} \subseteq pools'
      /\ pools' \subseteq HandedOver \cup {"program_headers_table", "first_MemMap"}
  BY <1>2 DEF FilePools, HandedOver
<1>4. pools' \subseteq Pools
  BY <1>3 DEF HandedOver, Pools
<1> QED
  BY <1>1, <1>3, <1>4, PlacesApart DEF PoolsKnown, MapInPool

(* The types but those of the map, its key and the number of attempts.     *)
LEMMA HandshakeKeepsTypes ==
  ASSUME IInv, pc' \in InHandshake \cup Stopped, pools' \subseteq Pools,
         MemMapKey' \in {"unset", "current", "stale"},
         MemMap' \in {"none", "unfilled", "current", "stale", "freed"},
         mapFits' \in BOOLEAN, sized' \in BOOLEAN, services' \in BOOLEAN, tries' \in 0 .. 2,
         UNCHANGED <<file, pageVars, kernelVars>>
  PROVE  TypeOK'
<1>1. pc' \in PCs
  BY PlacesAre DEF InHandshake
<1> QED
  BY <1>1 DEF IInv, TypeOK, pageVars, kernelVars

LEMMA OutdatedType ==
  /\ \A x \in {"unset", "current", "stale"} : Outdated(x) \in {"unset", "stale"}
  /\ \A x \in {"none", "unfilled", "current", "stale", "freed"} :
       Outdated(x) \in {"none", "unfilled", "stale", "freed"}
  BY DEF Outdated

(* Without a size the pointer of the last attempt goes on to the exit.     *)
LEMMA SizeMapKeeps == ASSUME IInv, SizeMap PROVE IInv'
<1>1. /\ pc = <<"sizeMap">>
      /\ \/ /\ pc' = <<"allocMap">>
            /\ MemMapKey' \in {"unset", "current", "stale"} /\ mapFits' = TRUE /\ sized' = TRUE
         \/ /\ pc' = <<"exit">> /\ sized' = FALSE
            /\ UNCHANGED <<MemMapKey, mapFits>>
      /\ UNCHANGED <<file, pools, pageVars, kernelVars, MemMap, tries, services>>
  BY DEF SizeMap, KeyOfShortCall, IInv, TypeOK
<1>2. pc \in InHandshake /\ pc' \in InHandshake
        /\ pc' \notin HandingOver \cup {<<"getMap">>, <<"sizeMap">>, <<"again">>}
        /\ pc \notin Leaving \cup HandingOver \cup Stopped
        /\ (pc' \in Leaving => pc' = <<"exit">>)
  BY <1>1 DEF InHandshake, Fetching, Leaving, HandingOver, Stopped
<1>3. /\ MemMap \in {"none", "freed", "unfilled", MemMapKey} /\ tries \in 0 .. 1
      /\ MemMap \notin {"none", "freed"} => "MemMap" \in pools
  BY <1>1, <1>2 DEF IInv, MapKnown, TriesKnown, PoolsKnown
<1>4. MapInPool(pc', MemMap', sized', pools')
  BY <1>1, <1>2, <1>3 DEF MapInPool, Leaving
<1>5. KernelKnown' /\ PoolsKnown' /\ pools' \subseteq Pools
  BY <1>1, <1>2, <1>4, HandshakeKeepsKernel, HandshakeKeepsPools
<1>6. TypeOK'
  <2>1. MemMapKey' \in {"unset", "current", "stale"} /\ mapFits' \in BOOLEAN /\ sized' \in BOOLEAN
    BY <1>1 DEF IInv, TypeOK
  <2> QED
    BY <1>1, <1>2, <1>5, <2>1, HandshakeKeepsTypes DEF IInv, TypeOK
<1>7. MapKnown' /\ TriesKnown'
  <2>1. pc' \in Leaving => MemMap' \in {"none", "freed", "unfilled", MemMapKey'}
    BY <1>1, <1>3 DEF Leaving
  <2>2. pc' \in Fetching \cup Leaving
    BY <1>1 DEF Fetching, Leaving
  <2>3. MapKnown'
    BY <1>2, <2>1, <2>2 DEF MapKnown
  <2>4. TriesKnown'
    BY <1>1, <1>2, <1>3 DEF TriesKnown
  <2> QED
    BY <2>3, <2>4
<1> QED
  BY <1>5, <1>6, <1>7 DEF IInv

LEMMA AllocateMapKeeps == ASSUME IInv, AllocateMap PROVE IInv'
<1>1. /\ pc = <<"allocMap">>
      /\ \/ /\ pools \cup {"MemMap"} \subseteq pools'
            /\ pools' \subseteq pools \cup {"MemMap", "first_MemMap"}
            /\ MemMap' = "unfilled"
            /\ MemMapKey' = Outdated(MemMapKey) /\ mapFits' \in BOOLEAN
            /\ pc' = <<"getMap">> /\ UNCHANGED sized
         \/ pc' = <<"hung">> /\ UNCHANGED <<pools, mapVars>>
      /\ UNCHANGED <<file, pageVars, kernelVars, tries, services>>
  BY DEF AllocateMap
<1>2. pc \in InHandshake /\ pc' \in InHandshake \cup Stopped
        /\ pc' \notin Leaving \cup HandingOver \cup {<<"sizeMap">>, <<"exit">>, <<"again">>}
        /\ pc \notin Leaving \cup HandingOver \cup Stopped
        /\ pc' \in Fetching \cup Stopped
  <2>1. CASE pc' = <<"getMap">>
    BY <1>1, <2>1 DEF InHandshake, Fetching, Leaving, HandingOver, Stopped
  <2>2. CASE pc' = <<"hung">>
    BY <1>1, <2>2 DEF InHandshake, Fetching, Leaving, HandingOver, Stopped
  <2> QED
    BY <1>1, <2>1, <2>2
<1>3. MapInPool(pc', MemMap', sized', pools')
  <2>1. pc' = <<"getMap">> => "MemMap" \in pools'
    BY <1>1
  <2> QED
    BY <1>2, <2>1 DEF MapInPool
<1>4. KernelKnown' /\ PoolsKnown' /\ pools' \subseteq Pools
  BY <1>1, <1>2, <1>3, HandshakeKeepsKernel, HandshakeKeepsPools
<1>5. tries \in 0 .. 1
  BY <1>2 DEF IInv, TriesKnown
<1>6. TypeOK'
  BY <1>1, <1>2, <1>4, HandshakeKeepsTypes, OutdatedType DEF IInv, TypeOK, mapVars
<1>7. MapKnown'
  <2>1. pc' = <<"getMap">> => MemMap' = "unfilled"
    BY <1>1
  <2> QED
    BY <1>2, <2>1 DEF MapKnown
<1>8. TriesKnown'
  BY <1>1, <1>2, <1>5 DEF TriesKnown
<1> QED
  BY <1>4, <1>6, <1>7, <1>8 DEF IInv

LEMMA GetMapKeeps == ASSUME IInv, GetMap PROVE IInv'
<1>1. /\ pc = <<"getMap">> /\ pc' = <<"exit">>
      /\ \/ MemMap' = "current" /\ MemMapKey' = "current"
         \/ MemMap' = MemMap /\ MemMapKey' \in {"unset", "current", "stale"}
      /\ UNCHANGED <<file, pools, pageVars, kernelVars, mapFits, sized, tries, services>>
  BY DEF GetMap, KeyOfShortCall, IInv, TypeOK
<1>2. pc \in InHandshake /\ pc' \in InHandshake /\ pc' \notin HandingOver
        /\ pc \notin Leaving \cup HandingOver \cup Stopped
  BY <1>1 DEF InHandshake, Fetching, Leaving, HandingOver, Stopped
<1>3. MemMap = "unfilled" /\ tries \in 0 .. 1 /\ "MemMap" \in pools
  BY <1>1, <1>2 DEF IInv, MapKnown, TriesKnown, PoolsKnown
<1>4. MapInPool(pc', MemMap', sized', pools')
  BY <1>1, <1>3 DEF MapInPool
<1>5. KernelKnown' /\ PoolsKnown' /\ pools' \subseteq Pools
  BY <1>1, <1>2, <1>4, HandshakeKeepsKernel, HandshakeKeepsPools
<1>6. TypeOK'
  BY <1>1, <1>2, <1>5, HandshakeKeepsTypes DEF IInv, TypeOK
<1>7. MapKnown' /\ TriesKnown'
  <2>1. MemMap' \in {"none", "freed", "unfilled", MemMapKey'}
    BY <1>1, <1>3
  <2> QED
    BY <1>1, <1>2, <1>3, <2>1 DEF MapKnown, TriesKnown, InHandshake
<1> QED
  BY <1>5, <1>6, <1>7 DEF IInv

(* A key is only accepted when the map is as old as it, or was not filled. *)
LEMMA ExitBootServicesKeeps == ASSUME IInv, ExitBootServices PROVE IInv'
<1>1. PICK accepted \in KeyAccepted :
        IF accepted
          THEN services' = FALSE /\ pc' = <<"fill">>
          ELSE /\ pc' = IF tries = 0 THEN <<"again">> ELSE <<"giveUp">>
               /\ UNCHANGED services
  BY DEF ExitBootServices
<1>2. /\ pc = <<"exit">> /\ tries' = tries + 1
      /\ UNCHANGED <<file, pools, pageVars, kernelVars, mapVars>>
  BY DEF ExitBootServices
<1>3. pc \in InHandshake /\ pc' \in InHandshake /\ pc' # <<"exit">>
        /\ pc' \notin Stopped \cup Fetching
        /\ pc' \in Leaving \cup HandingOver /\ pc \in Leaving
  BY <1>1, <1>2 DEF InHandshake, Fetching, Leaving, HandingOver, Stopped
<1>4. MemMap \in {"none", "freed", "unfilled", MemMapKey} /\ tries \in 0 .. 1
  BY <1>2, <1>3 DEF IInv, MapKnown, TriesKnown
<1>5. accepted => MemMap # "stale"
  BY <1>1, <1>4 DEF KeyAccepted, IInv, TypeOK
<1>6. MapInPool(pc', MemMap', sized', pools')
  BY <1>2, <1>3 DEF MapInPool, IInv, PoolsKnown, mapVars, Fetching
<1>7. KernelKnown' /\ PoolsKnown' /\ pools' \subseteq Pools
  BY <1>2, <1>3, <1>6, HandshakeKeepsKernel, HandshakeKeepsPools
<1>8. services' \in BOOLEAN
  BY <1>1 DEF IInv, TypeOK
<1>9. TypeOK'
  BY <1>2, <1>3, <1>4, <1>7, <1>8, HandshakeKeepsTypes DEF IInv, TypeOK, mapVars
<1>10. MapKnown'
  <2>1. pc' \in HandingOver => ~services' /\ MemMap' # "stale"
    BY <1>1, <1>2, <1>5 DEF HandingOver, mapVars
  <2>2. MemMap' \in {"none", "freed", "unfilled", MemMapKey'}
    BY <1>2, <1>4 DEF mapVars
  <2> QED
    BY <1>3, <2>1, <2>2 DEF MapKnown, Fetching
<1>11. TriesKnown'
  BY <1>1, <1>2, <1>3, <1>4 DEF TriesKnown
<1> QED
  BY <1>7, <1>9, <1>10, <1>11 DEF IInv

LEMMA FreeMapStepKeeps == ASSUME IInv, TryAgain \/ GiveUpExit PROVE IInv'
<1>1. /\ \/ pc = <<"again">> /\ pc' = <<"sizeMap">>
         \/ pc = <<"giveUp">> /\ pc' = <<"hung">>
      /\ \/ /\ pools' = pools \ {"MemMap"} /\ MemMap' = "freed"
            /\ MemMapKey' = Outdated(MemMapKey) /\ mapFits' \in BOOLEAN
         \/ UNCHANGED <<pools, MemMap, MemMapKey, mapFits>>
      /\ UNCHANGED <<file, pageVars, kernelVars, sized, tries, services>>
  BY DEF TryAgain, GiveUpExit, FreeMap
<1>2. pc \in InHandshake /\ pc' \in InHandshake \cup Stopped /\ pc \in Leaving
        /\ pc' \notin Leaving \cup HandingOver \cup {<<"getMap">>}
  BY <1>1 DEF InHandshake, Fetching, Leaving, HandingOver, Stopped
<1>3. /\ MemMap \in {"none", "freed", "unfilled", MemMapKey}
      /\ MemMap \notin {"none", "freed"} => "MemMap" \in pools
  BY <1>2 DEF IInv, MapKnown, PoolsKnown
<1>4. MapInPool(pc', MemMap', sized', pools')
  BY <1>1, <1>2, <1>3 DEF MapInPool
<1>5. KernelKnown' /\ PoolsKnown' /\ pools' \subseteq Pools
  BY <1>1, <1>2, <1>4, HandshakeKeepsKernel, HandshakeKeepsPools
<1>6. TypeOK'
  BY <1>1, <1>2, <1>5, HandshakeKeepsTypes, OutdatedType DEF IInv, TypeOK
<1>7. MapKnown'
  <2>1. MemMap' \in {"none", "freed", "unfilled", MemMapKey'}
    BY <1>1, <1>3
  <2> QED
    BY <1>1, <1>2, <2>1 DEF MapKnown, Leaving, InHandshake
<1>8. TriesKnown'
  BY <1>1, <1>2 DEF IInv, TriesKnown, Stopped, Leaving
<1> QED
  BY <1>5, <1>6, <1>7, <1>8 DEF IInv

LEMMA JumpKeeps == ASSUME IInv, Jump PROVE IInv'
<1>1. /\ pc = <<"fill">> /\ pc' = <<"jumped">>
      /\ UNCHANGED <<file, pools, pageVars, kernelVars, mapVars, tries, services>>
  BY DEF Jump
<1>2. pc \in InHandshake /\ pc' \in InHandshake /\ pc \in HandingOver /\ pc' \in HandingOver
        /\ pc' \notin Fetching \cup Leaving \cup Stopped
        /\ pc' \notin {<<"exit">>, <<"again">>}
  BY <1>1 DEF InHandshake, Fetching, Leaving, HandingOver, Stopped
<1>3. ~services /\ MemMap # "stale" /\ MapInPool(pc', MemMap', sized', pools')
  BY <1>1, <1>2 DEF IInv, MapKnown, PoolsKnown, MapInPool, mapVars
<1>4. KernelKnown' /\ PoolsKnown' /\ pools' \subseteq Pools
  BY <1>1, <1>2, <1>3, HandshakeKeepsKernel, HandshakeKeepsPools
<1>5. TypeOK'
  BY <1>1, <1>2, <1>4, HandshakeKeepsTypes DEF IInv, TypeOK, mapVars
<1>6. MapKnown' /\ TriesKnown'
  BY <1>1, <1>2, <1>3 DEF MapKnown, TriesKnown, mapVars, Fetching
<1> QED
  BY <1>4, <1>5, <1>6 DEF IInv

------------------------------------------------------------------------------
(* A timer that strikes takes the map and its key out of date together.    *)
LEMMA FirmwareEventKeeps == ASSUME IInv, FirmwareEvent PROVE IInv'
<1>1. /\ services /\ pc \notin Stopped /\ pc # <<"jumped">>
      /\ IF outcome = "searching" THEN P!FirmwareUse ELSE UNCHANGED pageVars
      /\ MemMapKey' = Outdated(MemMapKey) /\ MemMap' = Outdated(MemMap)
      /\ mapFits' \in BOOLEAN
      /\ UNCHANGED <<pc, file, pools, kernelVars, sized, tries, services>>
  BY DEF FirmwareEvent, Done, Stopped
<1>2. /\ UNCHANGED <<outcome, base>>
      /\ outcome = "searching" => usage' \in [P!Page -> {"free", "taken"}]
      /\ outcome # "searching" => usage' = usage
  BY <1>1 DEF P!FirmwareUse, pageVars
<1>3. TypeOK'
  <2>1. usage' \in [P!Page -> {"free", "taken", "kernel"}]
    BY <1>2 DEF IInv, TypeOK
  <2>2. MemMapKey' \in {"unset", "current", "stale"}
        /\ MemMap' \in {"none", "unfilled", "current", "stale", "freed"}
    BY <1>1, OutdatedType DEF IInv, TypeOK
  <2> QED
    BY <1>1, <1>2, <2>1, <2>2 DEF IInv, TypeOK, kernelVars
<1>4. PoolsKnown'
  <2>1. MemMap' \notin {"none", "freed"} => MemMap \notin {"none", "freed"}
    BY <1>1 DEF Outdated
  <2> QED
    BY <1>1, <2>1 DEF IInv, PoolsKnown
<1>5. KernelKnown'
  BY <1>1, <1>2 DEF IInv, KernelKnown, KernelPlaced, kernelVars
<1>6. pc \notin HandingOver
  BY <1>1 DEF IInv, MapKnown
<1>7. MapKnown'
  BY <1>1, <1>6 DEF IInv, MapKnown, Outdated
<1>8. TriesKnown'
  BY <1>1 DEF IInv, TriesKnown
<1> QED
  BY <1>3, <1>4, <1>5, <1>7, <1>8 DEF IInv

LEMMA StutterKeeps == ASSUME IInv, UNCHANGED vars PROVE IInv'
  BY DEF vars, pageVars, kernelVars, mapVars, IInv, TypeOK, PoolsKnown, KernelKnown,
         KernelPlaced, MapKnown, TriesKnown

THEOREM NextIInv == IInv /\ [Next]_vars => IInv'
<1> SUFFICES ASSUME IInv, [Next]_vars PROVE IInv'
  OBVIOUS
<1>1. CASE Open BY <1>1, OpenKeeps
<1>2. CASE CheckFile BY <1>2, CheckFileKeeps
<1>3. CASE ReadHeaders BY <1>3, ReadHeadersKeeps
<1>4. CASE FindPlace BY <1>4, FindPlaceKeeps
<1>5. CASE LoadSegments BY <1>5, LoadSegmentsKeeps
<1>6. CASE AllocateLoaderBlock BY <1>6, AllocateLoaderBlockKeeps
<1>7. CASE SizeMap BY <1>7, SizeMapKeeps
<1>8. CASE AllocateMap BY <1>8, AllocateMapKeeps
<1>9. CASE GetMap BY <1>9, GetMapKeeps
<1>10. CASE ExitBootServices BY <1>10, ExitBootServicesKeeps
<1>11. CASE TryAgain \/ GiveUpExit BY <1>11, FreeMapStepKeeps
<1>12. CASE Jump BY <1>12, JumpKeeps
<1>13. CASE FirmwareEvent BY <1>13, FirmwareEventKeeps
<1>14. CASE Finished \/ UNCHANGED vars BY <1>14, StutterKeeps DEF Finished
<1> QED
  BY <1>1, <1>2, <1>3, <1>4, <1>5, <1>6, <1>7, <1>8, <1>9, <1>10, <1>11, <1>12, <1>13,
     <1>14 DEF Next, LoaderStep

THEOREM Inductive == Spec => []IInv
  BY InitIInv, NextIInv, PTL DEF Spec

------------------------------------------------------------------------------
(***************************************************************************)
(* Whatever fails on the way and however the two attempts at the handshake *)
(* go, what the loader block points to is there at the jump, and little    *)
(* else is; but for the memory map when the firmware would not tell its    *)
(* size (HandedPointersLive).                                              *)
(***************************************************************************)
THEOREM HandedPointersCorrect == Spec => []HandedPointersLive
<1>1. IInv => HandedPointersLive
  BY DEF IInv, PoolsKnown, HandedPointersLive, HandedOver, HandingOver, FilePools
<1> QED
  BY <1>1, Inductive, PTL

(***************************************************************************)
(* Whenever the firmware's timers strike, no map that has changed since it *)
(* was fetched reaches the kernel (NoStaleMapHandedOver).                  *)
(***************************************************************************)
THEOREM MapCorrect == Spec => []NoStaleMapHandedOver
<1>1. IInv => NoStaleMapHandedOver
  BY DEF IInv, MapKnown, NoStaleMapHandedOver, HandingOver
<1> QED
  BY <1>1, Inductive, PTL

(***************************************************************************)
(* A kernel for this machine is entered only when it has been loaded, into *)
(* the pages found for it and no others (KernelLoadedBeforeJump).          *)
(***************************************************************************)
THEOREM KernelCorrect == Spec => []KernelLoadedBeforeJump
<1>1. IInv => KernelLoadedBeforeJump
  BY DEF IInv, KernelKnown, KernelPlaced, KernelLoadedBeforeJump, HandingOver
<1> QED
  BY <1>1, Inductive, PTL
====
