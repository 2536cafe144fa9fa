--------------------------- MODULE GraphicsSetupProofs ---------------------------
(***************************************************************************)
(* What the kernel is told about its framebuffers, for every number of     *)
(* devices and modes, however long the menus wait and whatever keys are    *)
(* pressed.                                                                *)
(***************************************************************************)
EXTENDS GraphicsSetup, FiniteSetTheorems, TLAPS

------------------------------------------------------------------------------
(***************************************************************************)
(* The inductive invariant.  The variables serve several purposes in turn, *)
(* so each part says what they are worth in one phase: before a branch is  *)
(* chosen, while the devices are settled one by one, and afterwards.       *)
(***************************************************************************)
Early == {"locate", "name", "freeDevPath", "freeName2", "several", "optionMenu", "setup"}
Settling == {"open", "modeMenu", "modeKey", "search", "set", "info"}
Late == {"freeNames", "freeBuffer", "freeHandles", "check", "done"}

EachDevice == option \notin {"one", "single"}

(* The entries of the array that are written. *)
Filled ==
  IF pc \in Settling THEN IF EachDevice THEN 0 .. DevNum - 1 ELSE {}
  ELSE IF pc \in Late THEN Used ELSE {}

(* What the firmware reported. *)
HardwareInv ==
  /\ n \in 1 .. MaxDevices
  /\ MaxMode \in [Dev -> 1 .. MaxModes]
  /\ \A d \in Dev : mode1024[d] \subseteq Modes(d)

IndexInv ==
  /\ pc = "open" => DevNum \in Listed
  /\ pc \in {"modeMenu", "modeKey", "search", "set"} => DevNum = device
  /\ pc = "info" => DevNum = IF option = "one" THEN 0 ELSE device
  /\ pc \in Settling /\ option = "single" => DevNum = 0
  /\ pc \in Settling \cup Late \cup {"deviceMenu"} =>
       NumberOfFrameBuffers = IF EachDevice THEN n ELSE 1

(* A key or a branch that needs one was the user's. *)
AttendedInv ==
  /\ Key # NoKey => keys > 0
  /\ option \in {"individually", "one", "1024x768"} => keys > 0
  /\ pc = "setup" /\ n > 1 /\ DevNum # 2 => keys > 0
  /\ pc = "optionMenu" => DevNum = 2

OptionInv ==
  /\ pc \notin {"optionMenu", "deviceMenu", "modeMenu", "modeKey", "failed"} => Key = NoKey
  /\ pc \in Early => option = "none"
  /\ pc \in Settling \cup Late => option # "none"
  /\ pc = "deviceMenu" => option = "one"
  /\ pc \in {"modeMenu", "modeKey"} => option \in {"individually", "one", "single"}
  /\ pc = "search" => option = "1024x768"

(* The user's answers, of which only the one at hand may be outstanding. *)
AskedInv ==
  /\ pc \in Early \cup {"deviceMenu"} => \A d \in Dev : asked[d] = NoMode
  /\ pc \in Settling =>
       \A d \in Dev \ Filled : (d # device \/ pc \in {"open", "search"}) => asked[d] = NoMode
  /\ pc = "modeKey" => Key \notin Modes(device) /\ asked[device] = NoMode
  /\ pc = "modeMenu" =>
       \/ /\ Key \in Modes(device) /\ asked[device] = Key
          /\ option = "single" => timeout_seconds > 0
       \/ Key \notin Modes(device) /\ asked[device] = NoMode

(* Mode m is right for device d. *)
Suits(d, m) ==
  /\ m \in Modes(d)
  /\ asked[d] # NoMode => m = asked[d]
  /\ (option \in {"individually", "one"} /\ MaxMode[d] > 1) => asked[d] # NoMode
  /\ (option = "1024x768" /\ mode1024[d] # {}) => m \in mode1024[d]
  /\ keys = 0 => m = 0

(* Entry i of the array tells the truth about a device set as it should be. *)
EntryRight(i) ==
  LET e == GPUArray[i] IN
  /\ EachDevice => e.device = i
  /\ e.device \in Listed /\ e.mode = current[e.device]
  /\ Suits(e.device, e.mode)

ResultInv ==
  /\ pc = "set" => Suits(device, mode)
  /\ pc = "info" => Suits(device, current[device])
  /\ \A i \in Filled : EntryRight(i)
  /\ pc = "done" => GPUArray[0].device \in direct

(* The lists that are allocated, beside names, array and descriptions. *)
Kept ==
  IF pc \in {"name", "freeDevPath"} THEN {<<Lists[k]>> : k \in 1 .. 4}
  ELSE IF pc = "freeName2" THEN {<<Lists[k]>> : k \in 1 .. 3}
  ELSE IF pc \in Early \cup {"deviceMenu"} \cup Settling \cup {"freeNames", "freeBuffer"}
    THEN {<<Lists[k]>> : k \in 1 .. 2}
  ELSE IF pc = "freeHandles" THEN {<<Lists[1]>>} ELSE {}

NamesHeld ==
  IF pc \in {"freeBuffer", "freeHandles", "check", "done"} THEN {}
  ELSE {<<"Name", d>> : d \in NameBuffer}
ArrayHeld == IF pc \in Early THEN {} ELSE {<<"GPUArray">>}
InfosHeld == {<<"Info", i>> : i \in Filled}

PoolInv ==
  /\ pc = "locate" => \E c \in 0 .. 3 : pools = {<<Lists[k]>> : k \in 1 .. c}
  /\ pc \in {"locate", "name"} => NameBuffer = {}
  /\ pc \notin {"locate", "failed"} => pools = Kept \cup NamesHeld \cup ArrayHeld \cup InfosHeld

IInv ==
  /\ TypeOK /\ HardwareInv /\ IndexInv /\ AttendedInv /\ OptionInv /\ AskedInv
  /\ ResultInv /\ PoolInv

------------------------------------------------------------------------------
(* Facts about the hardware, the menus and the pools. *)

LEMMA HardwareFacts ==
  ASSUME IInv
  PROVE  /\ n \in Nat /\ n >= 1 /\ n <= MaxDevices /\ MaxDevices \in Nat
         /\ Listed \subseteq Dev /\ 0 \in Listed /\ device \in Listed
         /\ \A d \in Dev : /\ MaxMode[d] \in Nat /\ MaxMode[d] >= 1 /\ MaxMode[d] <= MaxModes
                           /\ Modes(d) \subseteq 0 .. MaxModes - 1 /\ 0 \in Modes(d)
                           /\ mode1024[d] \subseteq Modes(d) /\ NoMode \notin Modes(d)
                           /\ NoKey \notin Modes(d)
         /\ MaxModes \in Nat /\ MaxModes >= 1
<1>1. n \in 1 .. MaxDevices /\ MaxMode \in [Dev -> 1 .. MaxModes] /\ MaxDevices \in Nat /\ MaxModes \in Nat
  BY GraphicsAssumption DEF IInv, HardwareInv
<1>2. device \in Listed /\ \A d \in Dev : mode1024[d] \subseteq Modes(d)
  BY DEF IInv, TypeOK, HardwareInv
<1>3. \A d \in Dev : MaxMode[d] \in 1 .. MaxModes
  BY <1>1
<1> QED
  BY <1>1, <1>2, <1>3 DEF Listed, Dev, Modes, NoMode, NoKey

LEMMA FilledListed ==
  ASSUME IInv
  PROVE  Filled \subseteq Listed
<1>1. n \in Nat /\ n >= 1
  BY HardwareFacts
<1>2. CASE pc \in Settling /\ EachDevice
  <2>1. DevNum \in Listed
    BY <1>2, HardwareFacts DEF IInv, IndexInv, Settling, EachDevice
  <2> QED
    BY <1>1, <1>2, <2>1 DEF Filled, Listed
<1>3. CASE pc \in Late
  <2>1. NumberOfFrameBuffers \in 1 .. n
    BY <1>1, <1>3 DEF IInv, IndexInv, EachDevice
  <2> QED
    BY <1>1, <1>3, <2>1 DEF Filled, Listed, Used, Settling, Late
<1> QED
  BY <1>2, <1>3 DEF Filled

(* The initial states. *)
LEMMA InitIInv == Init => IInv
<1> SUFFICES ASSUME Init PROVE IInv
  OBVIOUS
<1> USE GraphicsAssumption
<1>1. HardwareInv
  BY DEF Init, HardwareInv
<1>2. TypeOK
  <2>1. /\ pc = "locate" /\ NameBuffer = {} /\ pools = {} /\ DevNum = 0 /\ device = 0
        /\ option = "none" /\ mode = NoMode /\ Key = NoKey /\ timeout_seconds = 0
        /\ NumberOfFrameBuffers = 0 /\ keys = 0 /\ current = [d \in Dev |-> NoMode]
        /\ asked = [d \in Dev |-> NoMode] /\ GPUArray = [d \in Dev |-> Unset]
    BY DEF Init
  <2>2. 0 \in Dev /\ 0 \in Listed /\ n \in Nat
    BY <1>1 DEF HardwareInv, Dev, Listed
  <2>3. NoMode \in 0 .. MaxModes /\ Unset \in [device : Dev, mode : 0 .. MaxModes]
    BY <2>2 DEF NoMode, Unset
  <2>4. NoKey \in Keys
    BY DEF Keys
  <2> QED
    BY <2>1, <2>2, <2>3, <2>4 DEF TypeOK
<1>3. IndexInv /\ AttendedInv /\ OptionInv /\ AskedInv
  BY DEF Init, IndexInv, AttendedInv, OptionInv, AskedInv, Early, Settling, Late
<1>4. ResultInv
  BY DEF Init, ResultInv, Filled, Settling, Late
<1>5. PoolInv
  <2>1. pools = {<<Lists[k]>> : k \in 1 .. 0}
    BY DEF Init
  <2> QED
    BY <2>1 DEF Init, PoolInv
<1> QED
  BY <1>1, <1>2, <1>3, <1>4, <1>5 DEF IInv

(* Errors give up whatever was reached. *)
LEMMA ReturnIInv == ASSUME IInv, Return PROVE IInv'
<1>1. TypeOK'
  BY DEF Return, hardware, menu, result, history, IInv, TypeOK, Listed
<1>2. HardwareInv'
  BY DEF Return, hardware, IInv, HardwareInv, Modes
<1>3. IndexInv' /\ OptionInv' /\ AskedInv' /\ PoolInv'
  BY DEF Return, IndexInv, OptionInv, AskedInv, PoolInv, Early, Settling, Late
<1>4. AttendedInv'
  BY DEF Return, menu, history, IInv, AttendedInv
<1>5. ResultInv'
  BY DEF Return, ResultInv, Filled, Settling, Late
<1> QED
  BY <1>1, <1>2, <1>3, <1>4, <1>5 DEF IInv

LEMMA StutterIInv == ASSUME IInv, UNCHANGED vars PROVE IInv'
<1>1. TypeOK' /\ HardwareInv'
  BY DEF vars, hardware, history, IInv, TypeOK, HardwareInv, Modes, Listed
<1>2. IndexInv' /\ AttendedInv' /\ OptionInv'
  BY DEF vars, hardware, history, IInv, IndexInv, AttendedInv, OptionInv, Listed, EachDevice
<1>3. Filled' = Filled
  BY DEF vars, Filled, EachDevice, Used
<1>4. AskedInv'
  BY <1>3 DEF vars, hardware, history, IInv, AskedInv, Modes
<1>5. ResultInv'
  BY <1>3 DEF vars, hardware, history, IInv, ResultInv, EntryRight, Suits, Modes, EachDevice, Listed
<1>6. PoolInv'
  BY <1>3 DEF vars, IInv, PoolInv, Kept, NamesHeld, ArrayHeld, InfosHeld
<1> QED
  BY <1>1, <1>2, <1>4, <1>5, <1>6 DEF IInv

------------------------------------------------------------------------------
(* The steps before a branch is chosen. *)

LEMMA ListsDiffer == <<Lists[1]>> = <<"GraphicsHandles">> /\ <<Lists[2]>> = <<"NameBuffer">>
                     /\ <<Lists[3]>> = <<"Name2Handles">> /\ <<Lists[4]>> = <<"DevPathHandles">>
  BY DEF Lists

LEMMA ListsSets ==
  /\ {<<Lists[k]>> : k \in 1 .. 0} = {}
  /\ {<<Lists[k]>> : k \in 1 .. 1} = {<<Lists[1]>>}
  /\ {<<Lists[k]>> : k \in 1 .. 2} = {<<Lists[1]>>, <<Lists[2]>>}
  /\ {<<Lists[k]>> : k \in 1 .. 3} = {<<Lists[1]>>, <<Lists[2]>>, <<Lists[3]>>}
  /\ {<<Lists[k]>> : k \in 1 .. 4} = {<<Lists[1]>>, <<Lists[2]>>, <<Lists[3]>>, <<Lists[4]>>}
<1> DEFINE List(k) == <<Lists[k]>>
<1> HIDE DEF List
<1>1. /\ {List(k) : k \in 1 .. 0} = {} /\ {List(k) : k \in 1 .. 1} = {List(1)}
      /\ {List(k) : k \in 1 .. 2} = {List(1), List(2)}
  OBVIOUS
<1>2. {List(k) : k \in 1 .. 3} = {List(1), List(2), List(3)}
  OBVIOUS
<1>3. {List(k) : k \in 1 .. 4} = {List(1), List(2), List(3), List(4)}
  OBVIOUS
<1> QED
  BY <1>1, <1>2, <1>3 DEF List

LEMMA AddOne ==
  ASSUME NEW S, IsFiniteSet(S), NEW c \in Nat, Cardinality(S) = c, NEW x, x \notin S
  PROVE  IsFiniteSet(S \cup {x}) /\ Cardinality(S \cup {x}) = c + 1
  BY FS_AddElement

(* As many lists are allocated as there are pools. *)
LEMMA ListsCounted ==
  ASSUME NEW c \in 0 .. 4, NEW S, S = {<<Lists[k]>> : k \in 1 .. c}
  PROVE  Cardinality(S) = c
<1>1. \A k, j \in 1 .. 4 : <<Lists[k]>> = <<Lists[j]>> => k = j
  BY DEF Lists
<1>2. PICK p, q, r, s : /\ p = <<Lists[1]>> /\ q = <<Lists[2]>> /\ r = <<Lists[3]>> /\ s = <<Lists[4]>>
  OBVIOUS
<1>3. p # q /\ p # r /\ p # s /\ q # r /\ q # s /\ r # s
  BY <1>1, <1>2
<1>4. Cardinality({}) = 0 /\ IsFiniteSet({})
  BY FS_EmptySet
<1>5. IsFiniteSet({p}) /\ Cardinality({p}) = 1
  BY FS_Singleton
<1>6. IsFiniteSet({p} \cup {q}) /\ Cardinality({p} \cup {q}) = 2
  <2>1. q \notin {p}
    BY <1>3
  <2> QED
    BY <1>5, <2>1, AddOne
<1>7. /\ IsFiniteSet(({p} \cup {q}) \cup {r})
      /\ Cardinality(({p} \cup {q}) \cup {r}) = 3
  <2>1. r \notin {p} \cup {q}
    BY <1>3
  <2> QED
    BY <1>6, <2>1, AddOne
<1>8. Cardinality((({p} \cup {q}) \cup {r}) \cup {s}) = 4
  <2>1. s \notin ({p} \cup {q}) \cup {r}
    BY <1>3
  <2> QED
    BY <1>7, <2>1, AddOne
<1>9. /\ {p} \cup {q} = {p, q} /\ ({p} \cup {q}) \cup {r} = {p, q, r}
      /\ (({p} \cup {q}) \cup {r}) \cup {s} = {p, q, r, s}
  OBVIOUS
<1>10. c = 0 \/ c = 1 \/ c = 2 \/ c = 3 \/ c = 4
  OBVIOUS
<1> QED
  BY <1>2, <1>4, <1>5, <1>6, <1>7, <1>8, <1>9, <1>10, ListsSets

LEMMA EarlyRest ==
  ASSUME IInv, pc \in Early, pc' \in Early, UNCHANGED <<hardware, option, asked>>
  PROVE  /\ HardwareInv' /\ AskedInv' /\ ResultInv'
         /\ Filled = {} /\ Filled' = {} /\ option = "none" /\ EachDevice
<1>1. HardwareInv'
  BY DEF hardware, IInv, HardwareInv, Modes
<1>2. AskedInv'
  BY DEF IInv, AskedInv, Early, Settling
<1>3. Filled = {} /\ Filled' = {}
  BY DEF Filled, Early, Settling, Late
<1>4. ResultInv'
  BY <1>3 DEF ResultInv, Early
<1>5. option = "none" /\ EachDevice
  BY DEF IInv, OptionInv, EachDevice
<1> QED
  BY <1>1, <1>2, <1>3, <1>4, <1>5

LEMMA LocateHandlesIInv == ASSUME IInv, LocateHandles PROVE IInv'
<1>1. CASE Return
  BY <1>1, ReturnIInv
<1>2. CASE /\ pools' = pools \cup {<<Lists[Cardinality(pools) + 1]>>}
           /\ pc' = IF Cardinality(pools') = 4 THEN "name" ELSE "locate"
           /\ UNCHANGED <<hardware, current, NameBuffer, DevNum, device, mode, menu, result>>
  <2>0. pc = "locate" /\ pc \in Early /\ pc' \in Early /\ pc' \in {"locate", "name"}
        /\ UNCHANGED <<option, asked, keys, Key, timeout_seconds, NumberOfFrameBuffers, GPUArray, n>>
    BY <1>2 DEF LocateHandles, Early, menu, history, result, hardware
  <2>1. PICK c \in 0 .. 3 : pools = {<<Lists[k]>> : k \in 1 .. c}
    BY <2>0 DEF IInv, PoolInv
  <2>2. Cardinality(pools) = c
    <3>1. c \in 0 .. 4
      OBVIOUS
    <3> QED
      BY <2>1, <3>1, ListsCounted
  <2>3. pools' = {<<Lists[k]>> : k \in 1 .. c + 1}
    <3>1. 1 .. c + 1 = (1 .. c) \cup {c + 1}
      OBVIOUS
    <3> QED
      BY <1>2, <2>1, <2>2, <3>1
  <2>4. Cardinality(pools') = c + 1
    <3>1. c + 1 \in 0 .. 4
      OBVIOUS
    <3> QED
      BY <2>3, <3>1, ListsCounted
  <2>5. pc' = IF c = 3 THEN "name" ELSE "locate"
    BY <1>2, <2>4
  <2>6. TypeOK'
    <3>1. pools' \subseteq {<<Lists[k]>> : k \in 1 .. 4}
      BY <2>3
    <3> QED
      BY <1>2, <2>0, <3>1 DEF IInv, TypeOK, Listed
  <2>7. /\ HardwareInv' /\ AskedInv' /\ ResultInv'
        /\ Filled = {} /\ Filled' = {} /\ option = "none" /\ EachDevice
    BY <1>2, <2>0, EarlyRest
  <2>8. IndexInv' /\ AttendedInv' /\ OptionInv'
    BY <1>2, <2>0 DEF IInv, IndexInv, AttendedInv, OptionInv, Early, Settling, Late
  <2>9. PoolInv'
    <3>1. NameBuffer' = {} /\ NameBuffer = {}
      BY <1>2, <2>0 DEF IInv, PoolInv
    <3>2. pc' = "locate" => \E e \in 0 .. 3 : pools' = {<<Lists[k]>> : k \in 1 .. e}
      BY <2>3, <2>5
    <3>3. pc' = "name" => pools' = {<<Lists[k]>> : k \in 1 .. 4}
      BY <2>3, <2>5
    <3>4. pc' = "name" => Kept' = {<<Lists[k]>> : k \in 1 .. 4} /\ ArrayHeld' = {}
                          /\ InfosHeld' = {} /\ NamesHeld' = {}
      BY <2>7, <3>1 DEF Kept, ArrayHeld, InfosHeld, NamesHeld, Early
    <3> QED
      BY <2>0, <3>1, <3>2, <3>3, <3>4 DEF PoolInv
  <2> QED
    BY <2>6, <2>7, <2>8, <2>9 DEF IInv
<1> QED
  BY <1>1, <1>2 DEF LocateHandles

LEMMA NameDevicesIInv == ASSUME IInv, NameDevices PROVE IInv'
<1>1. CASE Return
  BY <1>1, ReturnIInv
<1>2. CASE /\ NameBuffer' \in SUBSET Listed
           /\ pools' = pools \cup {<<"Name", d>> : d \in NameBuffer'}
           /\ DevNum' = n
           /\ pc' = "freeDevPath"
           /\ UNCHANGED <<hardware, current, device, mode, menu, result>>
  <2>0. pc = "name" /\ pc \in Early /\ pc' \in Early
        /\ UNCHANGED <<option, asked, keys, Key, timeout_seconds, NumberOfFrameBuffers, GPUArray, n>>
    BY <1>2 DEF NameDevices, Early, menu, history, result, hardware
  <2>1. TypeOK'
    <3>1. NameBuffer' \subseteq Dev /\ DevNum' \in 0 .. MaxDevices
      BY <1>2, <2>0, HardwareFacts
    <3>2. {<<"Name", d>> : d \in NameBuffer'} \subseteq {"Name", "Info"} \X Dev
      BY <3>1
    <3> QED
      BY <1>2, <2>0, <3>1, <3>2 DEF IInv, TypeOK, Listed
  <2>2. /\ HardwareInv' /\ AskedInv' /\ ResultInv'
        /\ Filled = {} /\ Filled' = {} /\ option = "none" /\ EachDevice
    BY <1>2, <2>0, EarlyRest
  <2>3. IndexInv' /\ AttendedInv' /\ OptionInv'
    BY <1>2, <2>0 DEF IInv, IndexInv, AttendedInv, OptionInv, Early, Settling, Late
  <2>4. PoolInv'
    <3>1. pools = Kept /\ Kept' = Kept
      BY <1>2, <2>0, <2>2 DEF IInv, PoolInv, Kept, ArrayHeld, InfosHeld, NamesHeld
    <3>2. NamesHeld' = {<<"Name", d>> : d \in NameBuffer'} /\ ArrayHeld' = {} /\ InfosHeld' = {}
      BY <1>2, <2>0, <2>2 DEF ArrayHeld, InfosHeld, NamesHeld
    <3> QED
      BY <1>2, <3>1, <3>2 DEF PoolInv
  <2> QED
    BY <2>1, <2>2, <2>3, <2>4 DEF IInv
<1> QED
  BY <1>1, <1>2 DEF NameDevices

(* Pools of different kinds are different. *)
LEMMA PoolsDiffer ==
  ASSUME NEW s, NEW t, NEW x
  PROVE  <<s>> # <<t, x>>
  OBVIOUS

LEMMA FreeEarlyIInv ==
  ASSUME IInv, FreeDevPathHandles \/ FreeName2Handles
  PROVE  IInv'
<1>1. CASE Return
  BY <1>1, ReturnIInv
<1>2. CASE ~Return
  <2>0. /\ \/ pc = "freeDevPath" /\ pc' = "freeName2" /\ pools' = pools \ {<<"DevPathHandles">>}
           \/ pc = "freeName2" /\ pc' = "several" /\ pools' = pools \ {<<"Name2Handles">>}
        /\ UNCHANGED <<hardware, current, NameBuffer, DevNum, device, mode, menu, result>>
    BY <1>2 DEF FreeDevPathHandles, FreeName2Handles, Free
  <2>1. pc \in Early /\ pc' \in Early
        /\ UNCHANGED <<option, asked, keys, Key, timeout_seconds, NumberOfFrameBuffers, GPUArray, n>>
    BY <2>0 DEF Early, menu, history, result, hardware
  <2>2. TypeOK'
    BY <2>0, <2>1 DEF IInv, TypeOK, Listed
  <2>3. /\ HardwareInv' /\ AskedInv' /\ ResultInv'
        /\ Filled = {} /\ Filled' = {} /\ option = "none" /\ EachDevice
    BY <2>0, <2>1, EarlyRest
  <2>4. IndexInv' /\ AttendedInv' /\ OptionInv'
    BY <2>0, <2>1 DEF IInv, IndexInv, AttendedInv, OptionInv, Early, Settling, Late
  <2>5. PoolInv'
    <3>1. pools = Kept \cup {<<"Name", d>> : d \in NameBuffer}
      BY <2>0, <2>1, <2>3 DEF IInv, PoolInv, ArrayHeld, InfosHeld, NamesHeld
    <3>2. Kept' = Kept \ (pools \ pools')
      BY <2>0, <3>1, ListsSets DEF Kept, Early, Lists
    <3>3. pools' = Kept' \cup {<<"Name", d>> : d \in NameBuffer}
      <4>1. \A d : <<"Name", d>> # <<"DevPathHandles">> /\ <<"Name", d>> # <<"Name2Handles">>
        BY PoolsDiffer
      <4> QED
        BY <2>0, <3>1, <3>2, <4>1
    <3>4. NamesHeld' = {<<"Name", d>> : d \in NameBuffer} /\ ArrayHeld' = {} /\ InfosHeld' = {}
      BY <2>0, <2>1, <2>3 DEF ArrayHeld, InfosHeld, NamesHeld
    <3> QED
      BY <2>0, <3>3, <3>4 DEF PoolInv
  <2> QED
    BY <2>2, <2>3, <2>4, <2>5 DEF IInv
<1> QED
  BY <1>1, <1>2

(* Steps that keep the pools and stay before the branches. *)
LEMMA EarlyPools ==
  ASSUME IInv, pc \in {"several", "optionMenu"}, pc' \in {"optionMenu", "setup"},
         UNCHANGED <<hardware, option, asked, pools, NameBuffer>>
  PROVE  PoolInv'
<1>1. pc \in Early /\ pc' \in Early
  BY DEF Early
<1>2. Filled = {} /\ Filled' = {}
  BY <1>1, EarlyRest
<1>3. Kept' = Kept /\ NamesHeld' = NamesHeld /\ ArrayHeld' = ArrayHeld /\ InfosHeld' = InfosHeld
  BY <1>1, <1>2 DEF Kept, NamesHeld, ArrayHeld, InfosHeld
<1> QED
  BY <1>3 DEF IInv, PoolInv

LEMMA SeveralDevicesIInv == ASSUME IInv, SeveralDevices PROVE IInv'
<1>0. /\ pc = "several" /\ pc \in Early /\ pc' \in Early /\ pc' \in {"optionMenu", "setup"}
      /\ IF n > 1
           THEN pc' = "optionMenu" /\ DevNum' = 2 /\ timeout_seconds' = GPU_MENU_TIMEOUT_SECONDS
           ELSE pc' = "setup" /\ UNCHANGED <<DevNum, timeout_seconds>>
      /\ UNCHANGED <<hardware, n, option, asked, keys, Key, NumberOfFrameBuffers, GPUArray,
                     current, pools, NameBuffer, device, mode>>
  BY DEF SeveralDevices, Early, history, result, hardware
<1>1. TypeOK'
  BY <1>0, GraphicsAssumption DEF IInv, TypeOK, Listed
<1>2. HardwareInv' /\ AskedInv' /\ ResultInv'
  BY <1>0, EarlyRest
<1>3. IndexInv' /\ OptionInv'
  BY <1>0 DEF IInv, IndexInv, OptionInv, Early, Settling, Late
<1>4. AttendedInv'
  BY <1>0 DEF IInv, AttendedInv
<1>5. PoolInv'
  BY <1>0, EarlyPools
<1> QED
  BY <1>1, <1>2, <1>3, <1>4, <1>5 DEF IInv

(* The option is a key that was pressed, or 2 when the time ran out. *)
LEMMA OptionChosenIInv == ASSUME IInv, OptionChosen PROVE IInv'
<1>0. /\ pc = "optionMenu" /\ pc' \in {"setup", "failed"}
      /\ DevNum' = IF timeout_seconds # 0 THEN Key ELSE DevNum
      /\ Key' = NoKey /\ DevNum = 2
      /\ timeout_seconds # 0 => Key \in 0 .. 3
      /\ UNCHANGED <<hardware, n, option, asked, keys, timeout_seconds, NumberOfFrameBuffers, GPUArray,
                     current, pools, NameBuffer, device, mode>>
  BY DEF OptionChosen, ValidKeys, TimedOut, history, result, hardware, IInv, AttendedInv
<1>1. TypeOK'
  BY <1>0, GraphicsAssumption DEF IInv, TypeOK, Listed, Keys
<1>2. HardwareInv' /\ AskedInv' /\ ResultInv'
  <2>1. CASE pc' = "setup"
    BY <1>0, <2>1, EarlyRest DEF Early
  <2>2. CASE pc' = "failed"
    BY <1>0, <2>2 DEF hardware, IInv, HardwareInv, Modes, AskedInv, ResultInv, Filled,
                      Early, Settling, Late
  <2> QED
    BY <1>0, <2>1, <2>2
<1>3. IndexInv' /\ OptionInv'
  BY <1>0 DEF IInv, IndexInv, OptionInv, Early, Settling, Late
<1>4. AttendedInv'
  BY <1>0 DEF IInv, AttendedInv, NoKey
<1>5. PoolInv'
  <2>1. CASE pc' = "setup"
    BY <1>0, <2>1, EarlyPools
  <2>2. CASE pc' = "failed"
    BY <1>0, <2>2 DEF PoolInv
  <2> QED
    BY <1>0, <2>1, <2>2
<1> QED
  BY <1>1, <1>2, <1>3, <1>4, <1>5 DEF IInv

------------------------------------------------------------------------------
(* The branch, and the device of the one that asks for one. *)

LEMMA SetupIInv == ASSUME IInv, Setup PROVE IInv'
<1>0. /\ pc = "setup" /\ pc \in Early /\ option = "none" /\ Filled = {} /\ Key = NoKey
      /\ option' = IF n > 1 /\ DevNum \in DOMAIN Options THEN Options[DevNum] ELSE "single"
      /\ NumberOfFrameBuffers' = IF option' \in {"one", "single"} THEN 1 ELSE n
      /\ pc' \in {"deviceMenu", "open", "failed"}
      /\ UNCHANGED <<hardware, n, MaxMode, asked, keys, Key, timeout_seconds, GPUArray,
                     current, NameBuffer, device, mode>>
  BY DEF Setup, Early, history, hardware, IInv, OptionInv, Filled, Settling, Late
<1>1. /\ option' \in {"individually", "one", "defaults", "1024x768", "single"}
      /\ n > 1 /\ DevNum = 2 => option' \in {"defaults", "single"}
      /\ option' # "single" => n > 1
  BY <1>0 DEF Options
<1>2. n \in Nat /\ n >= 1 /\ n <= MaxDevices /\ 0 \in Listed /\ Listed \subseteq Dev
  BY HardwareFacts
<1>3. CASE pc' = "failed"
  <2>1. pools' = pools /\ DevNum' = DevNum
    BY <1>0, <1>3 DEF Setup
  <2>2. TypeOK'
    <3>1. option' \in {"none", "single"} \cup {Options[k] : k \in 0 .. 3}
      BY <1>0 DEF Options
    <3>2. NumberOfFrameBuffers' \in 0 .. n'
      BY <1>0, <1>2
    <3> QED
      BY <1>0, <1>3, <2>1, <3>1, <3>2 DEF IInv, TypeOK, Listed
  <2>3. HardwareInv'
    BY <1>0 DEF hardware, IInv, HardwareInv, Modes
  <2>4. IndexInv' /\ OptionInv' /\ AskedInv' /\ PoolInv'
    BY <1>3 DEF IndexInv, OptionInv, AskedInv, PoolInv, Early, Settling, Late
  <2>5. AttendedInv'
    BY <1>0, <1>1, <1>3 DEF IInv, AttendedInv
  <2>6. ResultInv'
    BY <1>3 DEF ResultInv, Filled, Settling, Late
  <2> QED
    BY <2>2, <2>3, <2>4, <2>5, <2>6 DEF IInv
<1>4. CASE pc' # "failed"
  <2>1. /\ pools' = pools \cup {<<"GPUArray">>}
        /\ IF option' = "one" THEN pc' = "deviceMenu" /\ UNCHANGED DevNum
           ELSE pc' = "open" /\ DevNum' = 0
    BY <1>0, <1>4 DEF Setup
  <2>2. TypeOK'
    <3>1. option' \in {"none", "single"} \cup {Options[k] : k \in 0 .. 3}
      BY <1>0 DEF Options
    <3>2. DevNum' \in 0 .. MaxDevices \cup {2, 3}
      BY <1>2, <2>1, GraphicsAssumption DEF IInv, TypeOK
    <3>3. NumberOfFrameBuffers' \in 0 .. n'
      BY <1>0, <1>2
    <3>4. pools' \subseteq {<<Lists[k]>> : k \in 1 .. 4} \cup {<<"GPUArray">>}
                             \cup ({"Name", "Info"} \X Dev)
      BY <2>1 DEF IInv, TypeOK
    <3> QED
      BY <1>0, <2>1, <3>1, <3>2, <3>3, <3>4 DEF IInv, TypeOK, Listed
  <2>3. HardwareInv'
    BY <1>0 DEF hardware, IInv, HardwareInv, Modes
  <2>4. IndexInv'
    BY <1>0, <1>2, <2>1 DEF IndexInv, EachDevice, Listed
  <2>5. AttendedInv'
    BY <1>0, <1>1, <2>1 DEF IInv, AttendedInv
  <2>6. OptionInv'
    BY <1>0, <1>1, <2>1 DEF OptionInv, Early
  <2>7. Filled' = {}
    BY <2>1 DEF Filled, Settling, Late
  <2>8. \A d \in Dev : asked'[d] = NoMode
    BY <1>0 DEF IInv, AskedInv
  <2>9. AskedInv'
    BY <2>1, <2>8 DEF AskedInv
  <2>10. ResultInv'
    BY <2>1, <2>7 DEF ResultInv
  <2>11. PoolInv'
    <3>1. pools = Kept \cup NamesHeld
      BY <1>0 DEF IInv, PoolInv, ArrayHeld, InfosHeld
    <3>2. Kept' = Kept /\ NamesHeld' = NamesHeld
      BY <1>0, <2>1 DEF Kept, NamesHeld, Early, Settling
    <3>3. ArrayHeld' = {<<"GPUArray">>} /\ InfosHeld' = {}
      BY <2>1, <2>7 DEF ArrayHeld, InfosHeld, Early
    <3> QED
      BY <2>1, <3>1, <3>2, <3>3 DEF PoolInv
  <2> QED
    BY <2>2, <2>3, <2>4, <2>5, <2>6, <2>9, <2>10, <2>11 DEF IInv
<1> QED
  BY <1>3, <1>4

(* Steps that neither fill an entry nor touch the pools. *)
Between == {"deviceMenu"} \cup Settling
LEMMA BetweenPools ==
  ASSUME IInv, pc \in Between, pc' \in Between, UNCHANGED <<pools, NameBuffer>>, Filled' = Filled
  PROVE  PoolInv'
<1>1. Kept' = Kept /\ NamesHeld' = NamesHeld /\ ArrayHeld' = ArrayHeld /\ InfosHeld' = InfosHeld
  BY DEF Kept, NamesHeld, ArrayHeld, InfosHeld, Between, Early, Settling
<1>2. pc \notin {"locate", "failed"} /\ pc' \notin {"locate", "name", "failed"}
  BY DEF Between, Settling
<1> QED
  BY <1>1, <1>2 DEF IInv, PoolInv

(* An entry stays right while its device is left alone. *)
LEMMA EntryKept ==
  ASSUME NEW i, EntryRight(i), UNCHANGED <<hardware, option>>, GPUArray'[i] = GPUArray[i],
         current'[GPUArray[i].device] = current[GPUArray[i].device],
         asked'[GPUArray[i].device] = asked[GPUArray[i].device],
         keys' = 0 => keys = 0
  PROVE  EntryRight(i)'
<1>1. PICK e : e = GPUArray[i]
  OBVIOUS
<1>2. /\ EachDevice => e.device = i
      /\ e.device \in Listed /\ e.mode = current[e.device]
      /\ Suits(e.device, e.mode)
  BY <1>1 DEF EntryRight
<1>3. Suits(e.device, e.mode)'
  BY <1>1, <1>2 DEF Suits, hardware, Modes
<1> QED
  BY <1>1, <1>2, <1>3 DEF EntryRight, EachDevice, hardware, Listed

LEMMA DeviceChosenIInv == ASSUME IInv, DeviceChosen PROVE IInv'
<1>0. /\ pc = "deviceMenu" /\ Key \in Listed /\ DevNum' = Key /\ Key' = NoKey /\ pc' = "open"
      /\ option = "one" /\ ~EachDevice /\ ~EachDevice' /\ Filled = {} /\ Filled' = {}
      /\ UNCHANGED <<hardware, n, option, asked, keys, timeout_seconds, NumberOfFrameBuffers,
                     GPUArray, current, pools, NameBuffer, device, mode>>
  BY DEF DeviceChosen, ValidKeys, history, result, hardware, IInv, OptionInv, EachDevice, Filled,
         Settling, Late
<1>1. n \in Nat /\ n >= 1 /\ n <= MaxDevices /\ MaxDevices \in Nat
  BY HardwareFacts
<1>2. TypeOK'
  <2>1. DevNum' \in 0 .. MaxDevices /\ Key' \in Keys
    BY <1>0, <1>1 DEF Listed, Keys
  <2> QED
    BY <1>0, <2>1 DEF IInv, TypeOK, Listed
<1>3. HardwareInv'
  BY <1>0 DEF hardware, IInv, HardwareInv, Modes
<1>4. IndexInv'
  BY <1>0 DEF IInv, IndexInv, Listed
<1>5. AttendedInv' /\ OptionInv'
  BY <1>0 DEF IInv, AttendedInv, OptionInv, Early
<1>6. AskedInv'
  BY <1>0 DEF IInv, AskedInv, Early
<1>7. ResultInv'
  BY <1>0 DEF ResultInv
<1>8. PoolInv'
  BY <1>0, BetweenPools DEF Between, Settling
<1> QED
  BY <1>2, <1>3, <1>4, <1>5, <1>6, <1>7, <1>8 DEF IInv

------------------------------------------------------------------------------
(* The menus. *)

LEMMA ListModesIInv == ASSUME IInv, ListModes PROVE IInv'
<1>1. CASE Return
  BY <1>1, ReturnIInv
<1>2. CASE /\ mode' = MaxMode[device] /\ pc' = "modeKey"
           /\ UNCHANGED <<hardware, current, pools, NameBuffer, DevNum, device, menu, result>>
  <2>0. /\ pc = "modeMenu" /\ pc' = "modeKey" /\ Key \notin Modes(device)
        /\ UNCHANGED <<hardware, n, MaxMode, option, asked, keys, Key, timeout_seconds,
                       NumberOfFrameBuffers, GPUArray, current, pools, NameBuffer, DevNum, device>>
    BY <1>2 DEF ListModes, ValidKeys, menu, history, result, hardware
  <2>1. Filled' = Filled
    BY <2>0 DEF Filled, EachDevice, Settling
  <2>2. TypeOK'
    <3>1. mode' \in 0 .. MaxModes
      BY <1>2, HardwareFacts
    <3> QED
      BY <2>0, <3>1 DEF IInv, TypeOK, Listed
  <2>3. HardwareInv'
    BY <2>0 DEF hardware, IInv, HardwareInv, Modes
  <2>4. IndexInv' /\ AttendedInv' /\ OptionInv'
    BY <2>0 DEF IInv, IndexInv, AttendedInv, OptionInv, Early, Settling, Late, EachDevice
  <2>5. AskedInv'
    BY <2>0, <2>1 DEF IInv, AskedInv, Early, Settling, Modes
  <2>6. ResultInv'
    BY <2>0, <2>1, EntryKept DEF IInv, ResultInv
  <2>7. PoolInv'
    BY <2>0, <2>1, BetweenPools DEF Between, Settling
  <2> QED
    BY <2>2, <2>3, <2>4, <2>5, <2>6, <2>7 DEF IInv
<1> QED
  BY <1>1, <1>2 DEF ListModes

(* The device at hand has no entry yet. *)
LEMMA DeviceOpen ==
  ASSUME IInv, pc \in {"modeMenu", "modeKey", "search", "set"}, NEW i \in Filled
  PROVE  GPUArray[i].device # device
<1>1. EachDevice /\ i \in 0 .. DevNum - 1 /\ DevNum = device
  BY DEF Filled, Settling, IInv, IndexInv
<1>2. GPUArray[i].device = i
  BY <1>1 DEF IInv, ResultInv, EntryRight
<1>3. DevNum \in Nat
  BY <1>1, HardwareFacts DEF Listed
<1> QED
  BY <1>1, <1>2, <1>3

LEMMA PressKeyIInv == ASSUME IInv, PressKey PROVE IInv'
<1>0. /\ pc \in {"optionMenu", "deviceMenu", "modeKey"} /\ Key \notin ValidKeys
      /\ Timed => timeout_seconds > 0
      /\ IF Timed THEN keys < MaxKeys /\ keys' = keys + 1 ELSE keys' = keys
      /\ Key' \in Keys
      /\ pc' = IF pc = "modeKey" THEN "modeMenu" ELSE pc
      /\ UNCHANGED <<hardware, n, MaxMode, option, timeout_seconds, NumberOfFrameBuffers,
                     GPUArray, current, pools, NameBuffer, DevNum, device, mode>>
  BY DEF PressKey, Waiting, KeyRead, result, hardware
<1>1. Filled' = Filled
  BY <1>0 DEF Filled, EachDevice, Settling, Late
<1>2. keys \in Nat /\ keys' \in 0 .. MaxKeys /\ keys' > 0
  <2>1. keys \in 0 .. MaxKeys /\ MaxKeys \in Nat
    BY GraphicsAssumption DEF IInv, TypeOK
  <2>2. ~Timed => keys > 0
    BY <1>0 DEF Timed, IInv, OptionInv, AttendedInv
  <2> QED
    BY <1>0, <2>1, <2>2
<1>3. /\ asked' \in [Dev -> 0 .. MaxModes]
      /\ \A d \in Dev : d # device => asked'[d] = asked[d]
      /\ pc # "modeKey" => asked' = asked
      /\ pc = "modeKey" => asked'[device] = IF Key' \in Modes(device) THEN Key' ELSE asked[device]
  <2>1. /\ asked \in [Dev -> 0 .. MaxModes] /\ device \in Dev
        /\ Modes(device) \subseteq 0 .. MaxModes - 1 /\ MaxModes \in Nat
    BY HardwareFacts DEF IInv, TypeOK
  <2>2. CASE pc = "modeKey"
    <3>1. Key' \in ValidKeys' <=> Key' \in Modes(device)
      BY <1>0, <2>2 DEF ValidKeys, Modes
    <3>2. asked' = IF Key' \in Modes(device) THEN [asked EXCEPT ![device] = Key'] ELSE asked
      BY <2>2 DEF PressKey, ValidKeys, Modes
    <3> QED
      BY <2>1, <2>2, <3>2
  <2>3. CASE pc # "modeKey"
    BY <2>1, <2>3 DEF PressKey
  <2> QED
    BY <2>2, <2>3
<1>4. TypeOK'
  BY <1>0, <1>2, <1>3 DEF IInv, TypeOK, Listed
<1>5. HardwareInv'
  BY <1>0 DEF hardware, IInv, HardwareInv, Modes
<1>6. IndexInv' /\ OptionInv'
  BY <1>0 DEF IInv, IndexInv, OptionInv, Early, Settling, Late, EachDevice, Listed
<1>7. AttendedInv'
  BY <1>0, <1>2 DEF IInv, AttendedInv
<1>8. AskedInv'
  <2>1. CASE pc = "modeKey"
    <3>1. asked[device] = NoMode
      BY <2>1 DEF IInv, AskedInv
    <3>2. Modes(device)' = Modes(device)
      BY <1>0 DEF Modes
    <3>3. \A d \in Dev \ Filled : d # device => asked'[d] = NoMode
      BY <1>3, <2>1 DEF IInv, AskedInv, Settling
    <3>4. option = "single" => timeout_seconds > 0
      BY <1>0, <2>1 DEF Timed
    <3> QED
      BY <1>0, <1>1, <1>3, <2>1, <3>1, <3>2, <3>3, <3>4 DEF AskedInv, Early
  <2>2. CASE pc # "modeKey"
    BY <1>0, <1>3, <2>2 DEF IInv, AskedInv, Settling
  <2> QED
    BY <2>1, <2>2
<1>9. ResultInv'
  <2>1. CASE pc = "modeKey"
    <3>1. ASSUME NEW i \in Filled PROVE EntryRight(i)'
      <4>1. EntryRight(i) /\ GPUArray[i].device # device
        BY <2>1, DeviceOpen DEF IInv, ResultInv
      <4>2. GPUArray[i].device \in Dev
        BY <4>1, HardwareFacts DEF EntryRight
      <4> QED
        BY <1>0, <1>2, <1>3, <4>1, <4>2, EntryKept
    <3> QED
      BY <1>0, <1>1, <2>1, <3>1 DEF ResultInv
  <2>2. CASE pc # "modeKey"
    <3>1. Filled = {}
      BY <1>0, <2>2 DEF Filled, Settling, Late
    <3> QED
      BY <1>0, <1>1, <2>2, <3>1 DEF ResultInv
  <2> QED
    BY <2>1, <2>2
<1>10. PoolInv'
  <2>1. CASE pc = "optionMenu"
    <3>1. Kept' = Kept /\ NamesHeld' = NamesHeld /\ ArrayHeld' = ArrayHeld /\ InfosHeld' = InfosHeld
      BY <1>0, <1>1, <2>1 DEF Kept, NamesHeld, ArrayHeld, InfosHeld
    <3> QED
      BY <1>0, <2>1, <3>1 DEF IInv, PoolInv
  <2>2. CASE pc # "optionMenu"
    BY <1>0, <1>1, <2>2, BetweenPools DEF Between, Settling
  <2> QED
    BY <2>1, <2>2
<1> QED
  BY <1>4, <1>5, <1>6, <1>7, <1>8, <1>9, <1>10 DEF IInv

LEMMA KeyErrorIInv == ASSUME IInv, KeyError PROVE IInv'
<1>1. CASE Return
  BY <1>1, ReturnIInv
<1>2. CASE ~Return
  <2>0. /\ pc \in {"deviceMenu", "modeKey"}
        /\ pc' = IF pc = "modeKey" THEN "modeMenu" ELSE pc
        /\ UNCHANGED <<hardware, n, MaxMode, option, asked, keys, Key, timeout_seconds,
                       NumberOfFrameBuffers, GPUArray, current, pools, NameBuffer, DevNum, device, mode>>
    BY <1>2 DEF KeyError, Waiting, Timed, KeyRead, menu, history, result, hardware
  <2>1. Filled' = Filled
    BY <2>0 DEF Filled, EachDevice, Settling, Late
  <2>2. TypeOK' /\ HardwareInv'
    BY <2>0 DEF hardware, IInv, TypeOK, HardwareInv, Modes, Listed
  <2>3. IndexInv' /\ AttendedInv' /\ OptionInv'
    BY <2>0 DEF IInv, IndexInv, AttendedInv, OptionInv, Early, Settling, Late, EachDevice, Listed
  <2>4. AskedInv'
    BY <2>0, <2>1 DEF IInv, AskedInv, Early, Settling, Modes
  <2>5. ResultInv'
    BY <2>0, <2>1, EntryKept DEF IInv, ResultInv
  <2>6. PoolInv'
    BY <2>0, <2>1, BetweenPools DEF Between, Settling
  <2> QED
    BY <2>2, <2>3, <2>4, <2>5, <2>6 DEF IInv
<1> QED
  BY <1>1, <1>2

LEMMA CountDownIInv == ASSUME IInv, CountDown PROVE IInv'
<1>0. /\ pc \in {"optionMenu", "modeKey"} /\ timeout_seconds > 0 /\ timeout_seconds' = timeout_seconds - 1
      /\ UNCHANGED <<pc, hardware, n, MaxMode, option, asked, keys, Key,
                     NumberOfFrameBuffers, GPUArray, current, pools, NameBuffer, DevNum, device, mode>>
  BY DEF CountDown, Waiting, Timed, IInv, OptionInv, history, result, hardware
<1>1. Filled' = Filled
  BY <1>0 DEF Filled, EachDevice, Settling, Late
<1>2. TypeOK' /\ HardwareInv'
  <2>1. timeout_seconds' \in 0 .. GPU_MENU_TIMEOUT_SECONDS
    BY <1>0, GraphicsAssumption DEF IInv, TypeOK
  <2> QED
    BY <1>0, <2>1 DEF hardware, IInv, TypeOK, HardwareInv, Modes, Listed
<1>3. IndexInv' /\ AttendedInv' /\ OptionInv'
  BY <1>0 DEF IInv, IndexInv, AttendedInv, OptionInv, Early, Settling, Late, EachDevice, Listed
<1>4. AskedInv'
  BY <1>0, <1>1 DEF IInv, AskedInv, Early, Settling, Modes
<1>5. ResultInv'
  BY <1>0, <1>1, EntryKept DEF IInv, ResultInv
<1>6. PoolInv'
  BY <1>0, <1>1 DEF IInv, PoolInv, Kept, NamesHeld, ArrayHeld, InfosHeld
<1> QED
  BY <1>2, <1>3, <1>4, <1>5, <1>6 DEF IInv

------------------------------------------------------------------------------
(* One device after the other. *)

LEMMA OpenDeviceIInv == ASSUME IInv, OpenDevice PROVE IInv'
<1>1. CASE Return
  BY <1>1, ReturnIInv
<1>2. CASE ~Return
  <2>0. /\ pc = "open" /\ device' = DevNum /\ DevNum \in Listed /\ Key = NoKey /\ option # "none"
        /\ \/ option = "1024x768" /\ pc' = "search" /\ mode' = mode
           \/ option = "defaults" /\ pc' = "set" /\ mode' = 0
           \/ option # "1024x768" /\ MaxMode[DevNum] = 1 /\ pc' = "set" /\ mode' = 0
           \/ option \notin {"1024x768", "defaults"} /\ pc' = "modeMenu" /\ mode' = mode
        /\ timeout_seconds' = IF pc' = "modeMenu" /\ option = "single"
                                THEN GPU_MENU_TIMEOUT_SECONDS ELSE timeout_seconds
        /\ UNCHANGED <<hardware, n, MaxMode, option, asked, keys, Key, NumberOfFrameBuffers,
                       GPUArray, current, pools, NameBuffer, DevNum>>
    BY <1>2 DEF OpenDevice, history, result, hardware, IInv, IndexInv, OptionInv, Early, Settling
  <2>1. Filled' = Filled
    BY <2>0 DEF Filled, EachDevice, Settling
  <2>2. /\ DevNum \notin Filled /\ DevNum \in Dev
        /\ asked[DevNum] = NoMode /\ \A d \in Dev \ Filled : asked[d] = NoMode
        /\ 0 \in Modes(DevNum) /\ NoKey \notin Modes(DevNum)
    <3>1. DevNum \in Dev /\ DevNum \in Nat /\ 0 \in Modes(DevNum) /\ NoKey \notin Modes(DevNum)
      BY <2>0, HardwareFacts DEF Listed
    <3>2. DevNum \notin Filled
      BY <2>0, <3>1 DEF Filled, Settling
    <3>3. \A d \in Dev \ Filled : asked[d] = NoMode
      BY <2>0 DEF IInv, AskedInv, Settling
    <3> QED
      BY <3>1, <3>2, <3>3
  <2>3. TypeOK'
    <3>1. timeout_seconds' \in 0 .. GPU_MENU_TIMEOUT_SECONDS
      BY <2>0, GraphicsAssumption DEF IInv, TypeOK
    <3>2. mode' \in 0 .. MaxModes
      BY <2>0, GraphicsAssumption DEF IInv, TypeOK
    <3> QED
      BY <2>0, <3>1, <3>2 DEF IInv, TypeOK, Listed
  <2>4. HardwareInv'
    BY <2>0 DEF hardware, IInv, HardwareInv, Modes
  <2>5. IndexInv'
    BY <2>0 DEF IInv, IndexInv, Settling, EachDevice
  <2>6. AttendedInv'
    BY <2>0 DEF IInv, AttendedInv
  <2>7. OptionInv'
    <3>1. option \in {"none", "single", "individually", "one", "defaults", "1024x768"}
      BY DEF IInv, TypeOK, Options
    <3> QED
      BY <2>0, <3>1 DEF OptionInv, Early
  <2>8. AskedInv'
    BY <2>0, <2>1, <2>2 DEF AskedInv, Early, Modes
  <2>9. ResultInv'
    <3>1. (option = "1024x768" \/ (option \in {"individually", "one"} /\ MaxMode[DevNum] > 1))
            => pc' # "set"
      <4>1. option = "1024x768" => pc' # "set"
        BY <2>0
      <4>2. option \in {"individually", "one"} /\ MaxMode[DevNum] > 1 => pc' # "set"
        BY <2>0
      <4> QED
        BY <4>1, <4>2
    <3>2. (pc = "set" => Suits(device, mode))'
      BY <2>0, <2>2, <3>1 DEF Suits, Modes, hardware
    <3>3. \A i \in Filled : EntryRight(i)'
      BY <2>0, EntryKept DEF IInv, ResultInv
    <3> QED
      BY <2>0, <2>1, <3>2, <3>3 DEF ResultInv
  <2>10. PoolInv'
    BY <2>0, <2>1, BetweenPools DEF Between, Settling
  <2> QED
    BY <2>3, <2>4, <2>5, <2>6, <2>7, <2>8, <2>9, <2>10 DEF IInv
<1> QED
  BY <1>1, <1>2

(* The mode is settled, by the menu or by the search. *)
LEMMA ModeSettled ==
  ASSUME IInv, pc \in {"modeMenu", "modeKey", "search"}, pc' = "set",
         Suits(device, mode'), Key' = NoKey,
         UNCHANGED <<hardware, current, pools, NameBuffer, DevNum, device, option,
                     timeout_seconds, history, result>>
  PROVE  IInv'
<1>0. /\ pc' = "set" /\ Key' = NoKey
      /\ UNCHANGED <<hardware, n, MaxMode, mode1024, option, asked, keys, timeout_seconds,
                     NumberOfFrameBuffers, GPUArray, current, pools, NameBuffer, DevNum, device>>
  BY DEF history, result, hardware
<1>1. Filled' = Filled
  BY <1>0 DEF Filled, EachDevice, Settling
<1>2. TypeOK'
  <2>1. mode' \in 0 .. MaxModes
    <3>1. mode' \in Modes(device) /\ device \in Dev
      BY HardwareFacts DEF Suits
    <3>2. Modes(device) \subseteq 0 .. MaxModes - 1 /\ MaxModes \in Nat
      BY <3>1, HardwareFacts
    <3> QED
      BY <3>1, <3>2
  <2> QED
    BY <1>0, <2>1 DEF IInv, TypeOK, Listed, Keys
<1>3. HardwareInv'
  BY <1>0 DEF hardware, IInv, HardwareInv, Modes
<1>4. IndexInv'
  BY <1>0 DEF IInv, IndexInv, Settling, Late, EachDevice
<1>5. AttendedInv'
  BY <1>0 DEF IInv, AttendedInv
<1>6. OptionInv'
  BY <1>0 DEF IInv, OptionInv, Early, Settling
<1>7. AskedInv'
  BY <1>0, <1>1 DEF IInv, AskedInv, Early, Settling
<1>8. ResultInv'
  <2>1. (pc = "set" => Suits(device, mode))'
    BY <1>0 DEF Suits, Modes
  <2>2. \A i \in Filled : EntryRight(i)'
    BY <1>0, EntryKept DEF IInv, ResultInv
  <2> QED
    BY <1>0, <1>1, <2>1, <2>2 DEF ResultInv
<1>9. PoolInv'
  BY <1>0, <1>1, BetweenPools DEF Between, Settling
<1> QED
  BY <1>2, <1>3, <1>4, <1>5, <1>6, <1>7, <1>8, <1>9 DEF IInv

(* A key that was pressed in time is the mode that was asked for. *)
LEMMA ModeChosenIInv == ASSUME IInv, ModeChosen PROVE IInv'
<1>0. /\ \/ pc = "modeMenu" /\ Key \in Modes(device)
         \/ pc = "modeKey" /\ option = "single" /\ timeout_seconds = 0
      /\ mode' = IF option = "single" /\ timeout_seconds = 0 THEN 0 ELSE Key
      /\ Key' = NoKey /\ pc' = "set"
      /\ UNCHANGED <<hardware, current, pools, NameBuffer, DevNum, device, option,
                     timeout_seconds, history, result>>
  BY DEF ModeChosen, ValidKeys, TimedOut, Timed
<1>1. option \in {"individually", "one", "single"} /\ device \in Dev
      /\ 0 \in Modes(device) /\ NoMode \notin Modes(device) /\ NoKey \notin Modes(device)
  BY <1>0, HardwareFacts DEF IInv, OptionInv
<1>2. Suits(device, mode')
  <2>1. CASE pc = "modeMenu"
    <3>1. Key \in Modes(device) /\ asked[device] = Key /\ Key # NoMode /\ mode' = Key
      BY <1>0, <1>1, <2>1 DEF IInv, AskedInv
    <3>2. keys # 0
      BY <1>1, <3>1 DEF IInv, AttendedInv
    <3> QED
      BY <1>1, <3>1, <3>2 DEF Suits
  <2>2. CASE pc = "modeKey"
    <3>1. mode' = 0 /\ option = "single" /\ asked[device] = NoMode
      BY <1>0, <2>2 DEF IInv, AskedInv
    <3> QED
      BY <1>1, <3>1 DEF Suits
  <2> QED
    BY <1>0, <2>1, <2>2
<1> QED
  BY <1>0, <1>2, ModeSettled

LEMMA Search1024IInv == ASSUME IInv, Search1024 PROVE IInv'
<1>1. CASE Return
  BY <1>1, ReturnIInv
<1>2. CASE ~Return
  <2>0. /\ pc = "search" /\ pc' = "set"
        /\ IF mode1024[device] = {} THEN mode' = 0 ELSE mode' \in mode1024[device]
        /\ UNCHANGED <<hardware, current, pools, NameBuffer, DevNum, device, menu, result>>
    BY <1>2 DEF Search1024
  <2>1. /\ option = "1024x768" /\ keys > 0 /\ Key = NoKey
    BY <2>0 DEF IInv, OptionInv, AttendedInv
  <2>2. device \in Dev \ Filled /\ asked[device] = NoMode
    <3>1. device \in Dev /\ device \in Nat /\ DevNum = device
      BY <2>0, HardwareFacts DEF Listed, IInv, IndexInv
    <3>2. device \notin Filled
      BY <2>0, <3>1 DEF Filled, Settling
    <3> QED
      BY <2>0, <3>1, <3>2 DEF IInv, AskedInv, Settling
  <2>3. 0 \in Modes(device) /\ mode1024[device] \subseteq Modes(device)
    BY <2>2, HardwareFacts
  <2>4. Suits(device, mode')
    BY <2>0, <2>1, <2>2, <2>3 DEF Suits
  <2> QED
    BY <2>0, <2>1, <2>4, ModeSettled DEF menu
<1> QED
  BY <1>1, <1>2

(* The device is in its mode; the array starts anew for the one device. *)
LEMMA SetModeIInv == ASSUME IInv, SetMode PROVE IInv'
<1>1. CASE Return
  BY <1>1, ReturnIInv
<1>2. CASE ~Return
  <2>0. /\ pc = "set" /\ pc' = "info"
        /\ current' = [current EXCEPT ![device] = mode]
        /\ DevNum' = IF option = "one" THEN 0 ELSE DevNum
        /\ UNCHANGED <<hardware, n, MaxMode, mode1024, option, asked, keys, Key, timeout_seconds,
                       NumberOfFrameBuffers, GPUArray, pools, NameBuffer, device, mode>>
    BY <1>2 DEF SetMode, menu, history, result, hardware
  <2>1. Filled' = Filled
    BY <2>0 DEF Filled, EachDevice, Settling
  <2>2. /\ device \in Dev /\ current \in [Dev -> 0 .. MaxModes] /\ mode \in 0 .. MaxModes
        /\ DevNum = device
    BY <2>0, HardwareFacts DEF IInv, TypeOK, IndexInv
  <2>3. /\ current' \in [Dev -> 0 .. MaxModes] /\ current'[device] = mode
        /\ \A d \in Dev : d # device => current'[d] = current[d]
    BY <2>0, <2>2
  <2>4. TypeOK'
    <3>1. DevNum' \in 0 .. MaxDevices \cup {2, 3}
      BY <2>0, GraphicsAssumption DEF IInv, TypeOK
    <3> QED
      BY <2>0, <2>3, <3>1 DEF IInv, TypeOK, Listed
  <2>5. HardwareInv'
    BY <2>0 DEF hardware, IInv, HardwareInv, Modes
  <2>6. IndexInv'
    BY <2>0, <2>2 DEF IInv, IndexInv, Settling, Late, EachDevice
  <2>7. AttendedInv'
    BY <2>0 DEF IInv, AttendedInv
  <2>8. OptionInv'
    BY <2>0 DEF IInv, OptionInv, Early, Settling
  <2>9. AskedInv'
    BY <2>0, <2>1 DEF IInv, AskedInv, Early, Settling
  <2>10. ResultInv'
    <3>1. (pc = "info" => Suits(device, current[device]))'
      BY <2>0, <2>3 DEF Suits, Modes, IInv, ResultInv
    <3>2. ASSUME NEW i \in Filled PROVE EntryRight(i)'
      <4>1. EntryRight(i) /\ GPUArray[i].device # device
        BY <2>0, DeviceOpen DEF IInv, ResultInv
      <4>2. GPUArray[i].device \in Dev
        BY <4>1, HardwareFacts DEF EntryRight
      <4> QED
        BY <2>0, <2>3, <4>1, <4>2, EntryKept
    <3> QED
      BY <2>0, <2>1, <3>1, <3>2 DEF ResultInv
  <2>11. PoolInv'
    BY <2>0, <2>1, BetweenPools DEF Between, Settling
  <2> QED
    BY <2>4, <2>5, <2>6, <2>7, <2>8, <2>9, <2>10, <2>11 DEF IInv
<1> QED
  BY <1>1, <1>2

(* The entry is written, and the next device opened or the loop left. *)
LEMMA StoreInfoIInv == ASSUME IInv, StoreInfo PROVE IInv'
<1>1. CASE Return
  BY <1>1, ReturnIInv
<1>2. CASE ~Return
  <2>0. /\ pc = "info"
        /\ pools' = pools \cup {<<"Info", DevNum>>}
        /\ GPUArray' = [GPUArray EXCEPT ![DevNum] = [device |-> device, mode |-> current[device]]]
        /\ IF EachDevice /\ DevNum + 1 < n
             THEN pc' = "open" /\ DevNum' = DevNum + 1
             ELSE pc' = "freeNames" /\ DevNum' = DevNum
        /\ UNCHANGED <<hardware, n, MaxMode, mode1024, option, asked, keys, Key, timeout_seconds,
                       NumberOfFrameBuffers, current, NameBuffer, device, mode>>
    BY <1>2 DEF StoreInfo, menu, history, result, hardware, EachDevice
  <2>1. /\ n \in Nat /\ n >= 1 /\ device \in Listed /\ device \in Dev /\ device \in Nat /\ device < n
        /\ 0 \in Dev /\ 0 \in Listed /\ Listed \subseteq Dev /\ Listed' = Listed
    BY <2>0, HardwareFacts DEF Listed
  <2>2. /\ EachDevice => DevNum = device
        /\ ~EachDevice => DevNum = 0
        /\ NumberOfFrameBuffers = IF EachDevice THEN n ELSE 1
        /\ EachDevice' = EachDevice
    BY <2>0 DEF IInv, IndexInv, EachDevice, Settling
  <2>3. DevNum \in Dev /\ DevNum \in Listed /\ DevNum \in Nat /\ DevNum < n
    BY <2>1, <2>2
  <2>4. Filled = (IF EachDevice THEN 0 .. DevNum - 1 ELSE {})
    BY <2>0 DEF Filled, Settling
  <2>5. Filled' = Filled \cup {DevNum}
    <3>1. CASE EachDevice /\ DevNum + 1 < n
      <4>1. Filled' = 0 .. DevNum
        BY <2>0, <2>2, <2>3, <3>1 DEF Filled, Settling
      <4> QED
        BY <2>3, <2>4, <3>1, <4>1
    <3>2. CASE ~(EachDevice /\ DevNum + 1 < n)
      <4>1. Filled' = 0 .. NumberOfFrameBuffers - 1
        BY <2>0, <3>2 DEF Filled, Settling, Late, Used
      <4>2. CASE EachDevice
        <5>1. Filled' = 0 .. DevNum
          BY <2>1, <2>2, <2>3, <3>2, <4>1, <4>2
        <5> QED
          BY <2>3, <2>4, <4>2, <5>1
      <4>3. CASE ~EachDevice
        BY <2>2, <2>4, <4>1, <4>3
      <4> QED
        BY <4>2, <4>3
    <3> QED
      BY <3>1, <3>2
  <2>6. /\ GPUArray \in [Dev -> [device : Dev, mode : 0 .. MaxModes]]
        /\ current[device] \in 0 .. MaxModes
    BY <2>1 DEF IInv, TypeOK
  <2>7. /\ GPUArray' \in [Dev -> [device : Dev, mode : 0 .. MaxModes]]
        /\ GPUArray'[DevNum] = [device |-> device, mode |-> current[device]]
        /\ \A d \in Dev : d # DevNum => GPUArray'[d] = GPUArray[d]
    BY <2>0, <2>1, <2>3, <2>6
  <2>8. TypeOK'
    <3>1. DevNum' \in 0 .. MaxDevices \cup {2, 3}
      BY <2>0, <2>1, <2>3, HardwareFacts DEF IInv, TypeOK
    <3>2. pools' \subseteq {<<Lists[k]>> : k \in 1 .. 4} \cup {<<"GPUArray">>}
                             \cup ({"Name", "Info"} \X Dev)
      BY <2>0, <2>3 DEF IInv, TypeOK
    <3> QED
      BY <2>0, <2>7, <3>1, <3>2 DEF IInv, TypeOK, Listed
  <2>9. HardwareInv'
    BY <2>0 DEF hardware, IInv, HardwareInv, Modes
  <2>10. IndexInv'
    <3>1. option = "single" => ~EachDevice
      BY DEF EachDevice
    <3>2. pc' = "open" => DevNum' \in Listed'
      BY <2>0, <2>1, <2>3 DEF Listed
    <3>3. NumberOfFrameBuffers' = IF EachDevice' THEN n' ELSE 1
      BY <2>0, <2>2
    <3> QED
      BY <2>0, <2>2, <3>1, <3>2, <3>3 DEF IndexInv, Settling
  <2>11. AttendedInv'
    BY <2>0 DEF IInv, AttendedInv
  <2>12. OptionInv'
    BY <2>0 DEF IInv, OptionInv, Early, Settling
  <2>13. AskedInv'
    <3>1. pc' = "open" => \A d \in Dev \ Filled' : asked[d] = NoMode
      <4>1. \A d \in Dev \ Filled : d # device => asked[d] = NoMode
        BY <2>0 DEF IInv, AskedInv, Settling
      <4> QED
        BY <2>0, <2>2, <2>5, <4>1
    <3> QED
      BY <2>0, <3>1 DEF AskedInv, Early, Settling
  <2>14. ResultInv'
    <3>0. PICK k : k = DevNum
      OBVIOUS
    <3>1. EntryRight(k)'
      <4>1. Suits(device, current[device])
        BY <2>0 DEF IInv, ResultInv
      <4>2. Suits(device, current[device])'
        BY <2>0, <4>1 DEF Suits, Modes
      <4>3. GPUArray'[DevNum].device = device /\ GPUArray'[DevNum].mode = current[device]
        BY <2>7
      <4> QED
        BY <2>0, <2>1, <2>2, <3>0, <4>2, <4>3 DEF EntryRight, Suits, Modes
    <3>2. ASSUME NEW i \in Filled PROVE EntryRight(i)'
      <4>1. i \in Dev /\ i # DevNum
        BY <2>1, <2>3, <2>4, FilledListed
      <4>2. EntryRight(i)
        BY DEF IInv, ResultInv
      <4> QED
        BY <2>0, <2>7, <4>1, <4>2, EntryKept
    <3> QED
      BY <2>0, <2>5, <3>0, <3>1, <3>2 DEF ResultInv
  <2>15. PoolInv'
    <3>1. Kept' = Kept /\ NamesHeld' = NamesHeld /\ ArrayHeld' = ArrayHeld
      BY <2>0 DEF Kept, NamesHeld, ArrayHeld, Early, Settling
    <3>2. InfosHeld' = InfosHeld \cup {<<"Info", DevNum>>}
      BY <2>5 DEF InfosHeld
    <3> QED
      BY <2>0, <3>1, <3>2 DEF IInv, PoolInv
  <2> QED
    BY <2>8, <2>9, <2>10, <2>11, <2>12, <2>13, <2>14, <2>15 DEF IInv
<1> QED
  BY <1>1, <1>2

------------------------------------------------------------------------------
(* Afterwards. *)

(* Steps that leave the result and the answers alone. *)
LEMMA LateRest ==
  ASSUME IInv, pc \in Late, pc' \in Late, pc' # "done",
         UNCHANGED <<hardware, current, device, mode, DevNum, menu, result, NameBuffer>>,
         pools' \subseteq pools
  PROVE  /\ TypeOK' /\ HardwareInv' /\ IndexInv' /\ AttendedInv' /\ OptionInv' /\ AskedInv'
         /\ ResultInv' /\ Filled' = Filled
<1>0. UNCHANGED <<hardware, n, MaxMode, option, asked, keys, Key, timeout_seconds,
                  NumberOfFrameBuffers, GPUArray, current, DevNum, device, mode, NameBuffer>>
  BY DEF menu, history, result, hardware
<1>1. Filled' = Filled
  BY <1>0 DEF Filled, Settling, Late, Used
<1>2. TypeOK' /\ HardwareInv'
  <2>1. pc' \in {"freeNames", "freeBuffer", "freeHandles", "check"}
    BY DEF Late
  <2> QED
    BY <1>0, <2>1 DEF hardware, IInv, TypeOK, HardwareInv, Modes, Listed
<1>3. IndexInv' /\ AttendedInv'
  BY <1>0 DEF IInv, IndexInv, AttendedInv, EachDevice, Settling, Late
<1>4. OptionInv' /\ AskedInv'
  BY <1>0 DEF IInv, OptionInv, AskedInv, Early, Settling, Late
<1>5. ResultInv'
  <2>1. \A i \in Filled : EntryRight(i)'
    BY <1>0, EntryKept DEF IInv, ResultInv
  <2> QED
    BY <1>1, <2>1 DEF ResultInv, Late
<1> QED
  BY <1>1, <1>2, <1>3, <1>4, <1>5

LEMMA FreeNamesIInv == ASSUME IInv, FreeNames PROVE IInv'
<1>1. CASE Return
  BY <1>1, ReturnIInv
<1>2. CASE ~Return
  <2>0. /\ pc = "freeNames" /\ pc' = "freeBuffer"
        /\ pools' = pools \ {<<"Name", d>> : d \in Listed}
        /\ UNCHANGED <<hardware, current, NameBuffer, DevNum, device, mode, menu, result>>
    BY <1>2 DEF FreeNames
  <2>1. /\ TypeOK' /\ HardwareInv' /\ IndexInv' /\ AttendedInv' /\ OptionInv' /\ AskedInv'
        /\ ResultInv' /\ Filled' = Filled
    BY <2>0, LateRest DEF Late
  <2>2. PoolInv'
    <3>1. pools = Kept \cup NamesHeld \cup ArrayHeld \cup InfosHeld
      BY <2>0 DEF IInv, PoolInv
    <3>2. Kept' = Kept /\ ArrayHeld' = ArrayHeld /\ InfosHeld' = InfosHeld /\ NamesHeld' = {}
      BY <2>0, <2>1 DEF Kept, ArrayHeld, InfosHeld, NamesHeld, Early
    <3>3. NamesHeld \subseteq {<<"Name", d>> : d \in Listed}
      BY <2>0 DEF NamesHeld, IInv, TypeOK
    <3>4. \A x \in Kept \cup ArrayHeld \cup InfosHeld : x \notin {<<"Name", d>> : d \in Listed}
      <4>1. \A s, d : <<s>> # <<"Name", d>>
        BY PoolsDiffer
      <4>2. \A x \in Kept \cup ArrayHeld : \E s : x = <<s>>
        BY DEF Kept, ArrayHeld
      <4>3. \A x \in InfosHeld : \E i : x = <<"Info", i>>
        BY DEF InfosHeld
      <4>4. \A i, d : <<"Info", i>> # <<"Name", d>>
        OBVIOUS
      <4> QED
        BY <4>1, <4>2, <4>3, <4>4
    <3>5. pools' = Kept' \cup NamesHeld' \cup ArrayHeld' \cup InfosHeld'
      BY <2>0, <3>1, <3>2, <3>3, <3>4
    <3> QED
      BY <2>0, <3>5 DEF PoolInv
  <2> QED
    BY <2>1, <2>2 DEF IInv
<1> QED
  BY <1>1, <1>2

LEMMA FreeLateIInv == ASSUME IInv, FreeNameBuffer \/ FreeGraphicsHandles PROVE IInv'
<1>1. CASE Return
  BY <1>1, ReturnIInv
<1>2. CASE ~Return
  <2>0. /\ \/ pc = "freeBuffer" /\ pc' = "freeHandles" /\ pools' = pools \ {<<"NameBuffer">>}
           \/ pc = "freeHandles" /\ pc' = "check" /\ pools' = pools \ {<<"GraphicsHandles">>}
        /\ UNCHANGED <<hardware, current, NameBuffer, DevNum, device, mode, menu, result>>
    BY <1>2 DEF FreeNameBuffer, FreeGraphicsHandles, Free
  <2>1. /\ TypeOK' /\ HardwareInv' /\ IndexInv' /\ AttendedInv' /\ OptionInv' /\ AskedInv'
        /\ ResultInv' /\ Filled' = Filled
    BY <2>0, LateRest DEF Late
  <2>2. PoolInv'
    <3>1. pools = Kept \cup ArrayHeld \cup InfosHeld
      BY <2>0 DEF IInv, PoolInv, NamesHeld
    <3>2. ArrayHeld' = ArrayHeld /\ InfosHeld' = InfosHeld /\ NamesHeld' = {}
            /\ ArrayHeld = {<<"GPUArray">>}
      BY <2>0, <2>1 DEF ArrayHeld, InfosHeld, NamesHeld, Early
    <3>3. Kept' = Kept \ (pools \ pools')
      BY <2>0, <3>1, ListsSets DEF Kept, Early, Settling, Lists
    <3>4. \A x \in ArrayHeld \cup InfosHeld : x # <<"NameBuffer">> /\ x # <<"GraphicsHandles">>
      <4>1. \A i : <<"Info", i>> # <<"NameBuffer">> /\ <<"Info", i>> # <<"GraphicsHandles">>
        BY PoolsDiffer
      <4>2. \A x \in InfosHeld : \E i : x = <<"Info", i>>
        BY DEF InfosHeld
      <4>3. <<"GPUArray">> # <<"NameBuffer">> /\ <<"GPUArray">> # <<"GraphicsHandles">>
        OBVIOUS
      <4> QED
        BY <3>2, <4>1, <4>2, <4>3
    <3>5. pools' = Kept' \cup ArrayHeld' \cup InfosHeld'
      BY <2>0, <3>1, <3>2, <3>3, <3>4
    <3> QED
      BY <2>0, <3>2, <3>5 DEF PoolInv
  <2> QED
    BY <2>1, <2>2 DEF IInv
<1> QED
  BY <1>1, <1>2

LEMMA CheckFramebufferIInv == ASSUME IInv, CheckFramebuffer PROVE IInv'
<1>0. /\ pc = "check" /\ pc' = IF GPUArray[0].device \in direct THEN "done" ELSE "failed"
      /\ UNCHANGED <<hardware, direct, n, MaxMode, option, asked, keys, Key, timeout_seconds,
                     NumberOfFrameBuffers, GPUArray, current, DevNum, device, mode, NameBuffer, pools>>
  BY DEF CheckFramebuffer, menu, history, result, hardware
<1>1. CASE pc' = "failed"
  BY <1>1, ReturnIInv DEF CheckFramebuffer, Return
<1>2. CASE pc' = "done"
  <2>1. Filled' = Filled
    BY <1>0, <1>2 DEF Filled, Settling, Late, Used
  <2>2. TypeOK' /\ HardwareInv'
    BY <1>0, <1>2 DEF hardware, IInv, TypeOK, HardwareInv, Modes, Listed
  <2>3. IndexInv' /\ AttendedInv'
    BY <1>0, <1>2 DEF IInv, IndexInv, AttendedInv, EachDevice, Settling, Late
  <2>4. OptionInv' /\ AskedInv'
    BY <1>0, <1>2 DEF IInv, OptionInv, AskedInv, Early, Settling, Late
  <2>5. ResultInv'
    <3>1. \A i \in Filled : EntryRight(i)'
      BY <1>0, EntryKept DEF IInv, ResultInv
    <3> QED
      BY <1>0, <1>2, <2>1, <3>1 DEF ResultInv
  <2>6. PoolInv'
    <3>1. Kept' = Kept /\ NamesHeld' = NamesHeld /\ ArrayHeld' = ArrayHeld /\ InfosHeld' = InfosHeld
      BY <1>0, <1>2, <2>1 DEF Kept, NamesHeld, ArrayHeld, InfosHeld, Early, Settling
    <3> QED
      BY <1>0, <1>2, <3>1 DEF IInv, PoolInv
  <2> QED
    BY <2>2, <2>3, <2>4, <2>5, <2>6 DEF IInv
<1> QED
  BY <1>0, <1>1, <1>2

LEMMA NextIInv == ASSUME IInv, [Next]_vars PROVE IInv'
<1>1. CASE LocateHandles
  BY <1>1, LocateHandlesIInv
<1>2. CASE NameDevices
  BY <1>2, NameDevicesIInv
<1>3. CASE FreeDevPathHandles \/ FreeName2Handles
  BY <1>3, FreeEarlyIInv
<1>4. CASE SeveralDevices
  BY <1>4, SeveralDevicesIInv
<1>5. CASE OptionChosen
  BY <1>5, OptionChosenIInv
<1>6. CASE Setup
  BY <1>6, SetupIInv
<1>7. CASE DeviceChosen
  BY <1>7, DeviceChosenIInv
<1>8. CASE ListModes
  BY <1>8, ListModesIInv
<1>9. CASE PressKey
  BY <1>9, PressKeyIInv
<1>10. CASE KeyError
  BY <1>10, KeyErrorIInv
<1>11. CASE CountDown
  BY <1>11, CountDownIInv
<1>12. CASE OpenDevice
  BY <1>12, OpenDeviceIInv
<1>13. CASE ModeChosen
  BY <1>13, ModeChosenIInv
<1>14. CASE Search1024
  BY <1>14, Search1024IInv
<1>15. CASE SetMode
  BY <1>15, SetModeIInv
<1>16. CASE StoreInfo
  BY <1>16, StoreInfoIInv
<1>17. CASE FreeNames
  BY <1>17, FreeNamesIInv
<1>18. CASE FreeNameBuffer \/ FreeGraphicsHandles
  BY <1>18, FreeLateIInv
<1>19. CASE CheckFramebuffer
  BY <1>19, CheckFramebufferIInv
<1>20. CASE Finished \/ UNCHANGED vars
  BY <1>20, StutterIInv DEF Finished
<1> QED
  BY <1>1, <1>2, <1>3, <1>4, <1>5, <1>6, <1>7, <1>8, <1>9, <1>10, <1>11, <1>12, <1>13,
     <1>14, <1>15, <1>16, <1>17, <1>18, <1>19, <1>20 DEF Next, LoaderStep

THEOREM Inductive == Spec => []IInv
  BY InitIInv, NextIInv, PTL DEF Spec

------------------------------------------------------------------------------
(* What follows from it. *)

(* Every variable of the set-up keeps its type: device numbers, modes and  *)
(* keys stay in their ranges, however they are reused.                     *)
THEOREM TypeCorrect == Spec => []TypeOK
<1>1. IInv => TypeOK
  BY DEF IInv
<1> QED
  BY <1>1, Inductive, PTL

(* Neither SetMode nor the lists are given an index out of range.          *)
THEOREM IndicesCorrect == Spec => []IndicesInRange
<1>1. ASSUME IInv PROVE IndicesInRange
  <2>1. pc = "set" => mode \in Modes(device)
    BY <1>1 DEF IInv, ResultInv, Suits
  <2>2. pc = "open" => DevNum \in Listed
    BY <1>1 DEF IInv, IndexInv
  <2>3. pc = "info" => DevNum \in Used
    <3>1. n \in Nat /\ device \in Listed
      BY <1>1, HardwareFacts
    <3> QED
      BY <1>1, <3>1 DEF IInv, IndexInv, EachDevice, Used, Listed, Settling
  <2> QED
    BY <2>1, <2>2, <2>3 DEF IndicesInRange, ModeInRange, DevNumInside
<1> QED
  BY <1>1, Inductive, PTL

LEMMA UsedFilled == ASSUME IInv, pc = "done" PROVE \A i \in Used : EntryRight(i)
<1>1. Filled = Used
  BY DEF Filled, Settling, Late
<1> QED
  BY <1>1 DEF IInv, ResultInv

(* The kernel is told the truth about its framebuffers.                    *)
THEOREM FramebuffersCorrect == Spec => []FramebuffersTrue
<1>1. ASSUME IInv, pc = "done"
      PROVE  /\ \A i \in Used : /\ GPUArray[i].mode \in Modes(GPUArray[i].device)
                                /\ GPUArray[i].mode = current[GPUArray[i].device]
             /\ \A i, j \in Used : GPUArray[i].device = GPUArray[j].device => i = j
             /\ NumberOfFrameBuffers > 0 /\ GPUArray[0].device \in direct
  <2>1. \A i \in Used : EntryRight(i)
    BY <1>1, UsedFilled
  <2>2. \A i \in Used : /\ GPUArray[i].mode \in Modes(GPUArray[i].device)
                        /\ GPUArray[i].mode = current[GPUArray[i].device]
    BY <2>1 DEF EntryRight, Suits
  <2>3. NumberOfFrameBuffers = IF EachDevice THEN n ELSE 1
    BY <1>1 DEF IInv, IndexInv, Late
  <2>4. ASSUME NEW i \in Used, NEW j \in Used, GPUArray[i].device = GPUArray[j].device
        PROVE  i = j
    <3>1. CASE EachDevice
      <4>1. GPUArray[i].device = i /\ GPUArray[j].device = j
        BY <2>1, <3>1 DEF EntryRight
      <4> QED
        BY <2>4, <4>1
    <3>2. CASE ~EachDevice
      BY <2>3, <3>2 DEF Used
    <3> QED
      BY <3>1, <3>2
  <2>5. NumberOfFrameBuffers > 0
    BY <1>1, <2>3, HardwareFacts
  <2>6. GPUArray[0].device \in direct
    BY <1>1 DEF IInv, ResultInv
  <2> QED
    BY <2>2, <2>4, <2>5, <2>6
<1>2. IInv => FramebuffersTrue
  BY <1>1 DEF FramebuffersTrue
<1> QED
  BY <1>2, Inductive, PTL

(* Every device is in the mode the user chose for it, or in the default.   *)
THEOREM ChoiceCorrect == Spec => []ChoiceHonoured
<1>1. ASSUME IInv, pc = "done", NEW i \in Used
      PROVE  LET d == GPUArray[i].device IN
             /\ asked[d] # NoMode => current[d] = asked[d]
             /\ (option \in {"individually", "one"} /\ MaxMode[d] > 1) => asked[d] # NoMode
             /\ (option = "1024x768" /\ mode1024[d] # {}) => current[d] \in mode1024[d]
             /\ keys = 0 => current[d] = 0
  <2>1. EntryRight(i)
    BY <1>1, UsedFilled
  <2> QED
    BY <2>1 DEF EntryRight, Suits
<1>2. IInv => ChoiceHonoured
  BY <1>1 DEF ChoiceHonoured
<1> QED
  BY <1>2, Inductive, PTL

(* Only the array and the descriptions of its entries are left allocated.  *)
THEOREM ScratchCorrect == Spec => []ScratchFreed
<1>1. ASSUME IInv, pc = "done"
      PROVE  pools = {<<"GPUArray">>} \cup {<<"Info", i>> : i \in Used}
  <2>1. Filled = Used
    BY <1>1 DEF Filled, Settling, Late
  <2>2. Kept = {} /\ NamesHeld = {} /\ ArrayHeld = {<<"GPUArray">>}
    BY <1>1 DEF Kept, NamesHeld, ArrayHeld, Early, Settling
  <2> QED
    BY <1>1, <2>1, <2>2 DEF IInv, PoolInv, InfosHeld
<1>2. IInv => ScratchFreed
  BY <1>1 DEF ScratchFreed
<1> QED
  BY <1>2, Inductive, PTL

(* A menu that waits for ever is only reached after a key was pressed.     *)
THEOREM UntimedCorrect == Spec => []UntimedOnlyIfAttended
<1>1. IInv => UntimedOnlyIfAttended
  BY DEF IInv, OptionInv, AttendedInv, UntimedOnlyIfAttended, Timed
<1> QED
  BY <1>1, Inductive, PTL

==============================================================================
