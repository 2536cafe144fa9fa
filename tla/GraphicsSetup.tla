---------------------------- MODULE GraphicsSetup ----------------------------
(***************************************************************************)
(* InitUEFI_GOP (boot.c 890-1994): find the graphics devices, ask the user *)
(* which of them to use in which mode, set the modes, and record for the   *)
(* kernel the framebuffer of each.  Naming the devices is one step here;   *)
(* DeviceNames has its detail.                                             *)
(*                                                                         *)
(* The user may press any key at any time, or none.  A key is the number   *)
(* it stands for; NoKey is a Key.UnicodeChar of 0, OtherKey any character  *)
(* out of every menu's range.  QueryMode describes a mode only to print it *)
(* or to look for 1024x768; the buffer it allocates is freed at once.      *)
(***************************************************************************)
EXTENDS Integers, FiniteSets

CONSTANTS
  MaxDevices,            \* most graphics devices
  MaxModes,              \* most modes of a device
  GPU_MENU_TIMEOUT_SECONDS,
  MaxKeys                \* keys pressed while a menu counts down

ASSUME GraphicsAssumption ==
  /\ MaxDevices \in Nat \ {0} /\ MaxModes \in Nat \ {0}
  /\ GPU_MENU_TIMEOUT_SECONDS \in Nat \ {0} /\ MaxKeys \in Nat

Dev == 0 .. MaxDevices - 1
NoKey == -1
OtherKey == MaxModes + MaxDevices + 4
Keys == (0 .. OtherKey - 1) \cup {NoKey, OtherKey}
NoMode == MaxModes

VARIABLES
  pc,
  n,                    \* NumHandlesInHandleBuffer
  MaxMode,              \* modes of each device
  mode1024,             \* the device's modes of 1024x768
  direct,               \* devices whose framebuffer can be accessed directly
  current,              \* the mode each device is in
  pools,                \* live pool allocations
  NameBuffer,           \* devices whose name string was allocated
  DevNum,               \* device, menu option and array index in turn
  device,               \* the device GOPTable belongs to
  option,               \* which of the five branches runs
  mode, Key,
  timeout_seconds,
  NumberOfFrameBuffers,
  GPUArray,             \* [device, mode] recorded for each framebuffer
  asked,                \* history: the mode the user chose for each device
  keys                  \* history: keys pressed

hardware == <<n, MaxMode, mode1024, direct>>
history == <<asked, keys>>
vars == <<pc, hardware, current, pools, NameBuffer, DevNum, device, option, mode, Key,
          timeout_seconds, NumberOfFrameBuffers, GPUArray, history>>

Modes(d) == 0 .. MaxMode[d] - 1
Listed == 0 .. n - 1          \* the devices of GraphicsHandles

(* The choices of the first menu, by their keys. *)
Options == [k \in 0 .. 3 |->
  IF k = 0 THEN "individually" ELSE IF k = 1 THEN "one" ELSE IF k = 2 THEN "defaults" ELSE "1024x768"]

Unset == [device |-> 0, mode |-> NoMode]

Init ==
  /\ pc = "locate"
  /\ n \in 1 .. MaxDevices
  /\ MaxMode \in [Dev -> 1 .. MaxModes]
  /\ mode1024 \in [Dev -> SUBSET (0 .. MaxModes - 1)]
  /\ \A d \in Dev : mode1024[d] \subseteq Modes(d)
  /\ direct \in SUBSET Dev
  /\ \A d \in Dev \ Listed : MaxMode[d] = 1 /\ mode1024[d] = {} /\ d \in direct
  /\ current = [d \in Dev |-> NoMode]
  /\ pools = {} /\ NameBuffer = {}
  /\ DevNum = 0 /\ device = 0
  /\ option = "none"
  /\ mode = NoMode /\ Key = NoKey
  /\ timeout_seconds = 0
  /\ NumberOfFrameBuffers = 0
  /\ GPUArray = [d \in Dev |-> Unset]
  /\ asked = [d \in Dev |-> NoMode]
  /\ keys = 0

(* What the firmware keeps, and what the menus work with. *)
menu == <<option, Key, timeout_seconds, history>>
result == <<NumberOfFrameBuffers, GPUArray>>

(* Most errors print a message and return, whatever was allocated. *)
Return ==
  /\ pc' = "failed"
  /\ UNCHANGED <<hardware, current, pools, NameBuffer, DevNum, device, mode, menu, result>>

------------------------------------------------------------------------------
(* Lists and names. *)

Lists == <<"GraphicsHandles", "NameBuffer", "Name2Handles", "DevPathHandles">>
LocateHandles ==
  /\ pc = "locate"
  /\ \/ /\ pools' = pools \cup {<<Lists[Cardinality(pools) + 1]>>}
        /\ pc' = IF Cardinality(pools') = 4 THEN "name" ELSE "locate"
        /\ UNCHANGED <<hardware, current, NameBuffer, DevNum, device, mode, menu, result>>
     \/ Return

(* DeviceNames; a name string may be missing when the pool is exhausted. *)
NameDevices ==
  /\ pc = "name"
  /\ \/ /\ NameBuffer' \in SUBSET Listed
        /\ pools' = pools \cup {<<"Name", d>> : d \in NameBuffer'}
        /\ DevNum' = n
        /\ pc' = "freeDevPath"
        /\ UNCHANGED <<hardware, current, device, mode, menu, result>>
     \/ Return

Free(pool, next) ==
  \/ /\ pools' = pools \ {<<pool>>} /\ pc' = next
     /\ UNCHANGED <<hardware, current, NameBuffer, DevNum, device, mode, menu, result>>
  \/ Return

FreeDevPathHandles == pc = "freeDevPath" /\ Free("DevPathHandles", "freeName2")
FreeName2Handles == pc = "freeName2" /\ Free("Name2Handles", "several")

(* More than one device: ask what to do with them. *)
SeveralDevices ==
  /\ pc = "several"
  /\ IF n > 1
       THEN pc' = "optionMenu" /\ DevNum' = 2 /\ timeout_seconds' = GPU_MENU_TIMEOUT_SECONDS
       ELSE pc' = "setup" /\ UNCHANGED <<DevNum, timeout_seconds>>
  /\ UNCHANGED <<hardware, current, pools, NameBuffer, device, mode, option, Key, history, result>>

------------------------------------------------------------------------------
(***************************************************************************)
(* The menus.  Each repeats until Key is one of its own; two of them count *)
(* down the seconds without a key and then take the default.               *)
(***************************************************************************)
Timed == pc = "optionMenu" \/ option = "single"

ValidKeys ==
  IF pc = "optionMenu" THEN 0 .. 3
  ELSE IF pc = "deviceMenu" THEN Listed ELSE Modes(device)

Waiting ==
  /\ pc \in {"optionMenu", "deviceMenu", "modeKey"}
  /\ Key \notin ValidKeys
  /\ Timed => timeout_seconds > 0

(* The modes are listed again before each key; the counter is left at the end. *)
ListModes ==
  /\ pc = "modeMenu" /\ Key \notin ValidKeys
  /\ \/ /\ mode' = MaxMode[device] /\ pc' = "modeKey"
        /\ UNCHANGED <<hardware, current, pools, NameBuffer, DevNum, device, menu, result>>
     \/ Return

KeyRead == pc' = IF pc = "modeKey" THEN "modeMenu" ELSE pc

(* Slip: a key that is not in the menu starts the countdown again. *)
PressKeyRestart ==
  /\ Waiting
  /\ IF Timed THEN keys < MaxKeys /\ keys' = keys + 1 ELSE UNCHANGED keys
  /\ Key' \in Keys
  /\ asked' = IF pc = "modeKey" /\ Key' \in ValidKeys
                THEN [asked EXCEPT ![device] = Key'] ELSE asked
  /\ timeout_seconds' = IF Timed /\ Key' \notin ValidKeys THEN GPU_MENU_TIMEOUT_SECONDS
                        ELSE timeout_seconds
  /\ KeyRead
  /\ UNCHANGED <<hardware, current, pools, NameBuffer, DevNum, device, mode, option, result>>

PressKey ==
  /\ Waiting
  /\ IF Timed THEN keys < MaxKeys /\ keys' = keys + 1 ELSE UNCHANGED keys
  /\ Key' \in Keys
  /\ asked' = IF pc = "modeKey" /\ Key' \in ValidKeys
                THEN [asked EXCEPT ![device] = Key'] ELSE asked
  /\ KeyRead
  /\ UNCHANGED <<hardware, current, pools, NameBuffer, DevNum, device, mode, option,
                 timeout_seconds, result>>

(* ReadKeyStroke fails: the timed menus give up, the others ask again. *)
KeyError ==
  /\ Waiting
  /\ IF Timed THEN Return
     ELSE /\ KeyRead
          /\ UNCHANGED <<hardware, current, pools, NameBuffer, DevNum, device, mode, menu, result>>

CountDown ==
  /\ Waiting /\ Timed
  /\ timeout_seconds' = timeout_seconds - 1
  /\ UNCHANGED <<pc, hardware, current, pools, NameBuffer, DevNum, device, mode, option, Key,
                 history, result>>

TimedOut == Timed /\ timeout_seconds = 0

OptionChosen ==
  /\ pc = "optionMenu"
  /\ Key \in ValidKeys \/ TimedOut
  /\ DevNum' = IF timeout_seconds # 0 THEN Key ELSE DevNum
  /\ Key' = NoKey
  /\ pc' \in {"setup", "failed"}   \* the input buffer may refuse to be reset
  /\ UNCHANGED <<hardware, current, pools, NameBuffer, device, mode, option, timeout_seconds,
                 history, result>>

(* Slip: the branches do not ask how many devices there are. *)
SetupByOption ==
  /\ pc = "setup"
  /\ option' = IF DevNum \in DOMAIN Options THEN Options[DevNum] ELSE "single"
  /\ NumberOfFrameBuffers' = IF option' \in {"one", "single"} THEN 1 ELSE n
  /\ pools' = pools \cup {<<"GPUArray">>}
  /\ IF option' = "one" THEN pc' = "deviceMenu" /\ UNCHANGED DevNum
     ELSE pc' = "open" /\ DevNum' = 0
  /\ UNCHANGED <<hardware, current, NameBuffer, device, mode, Key, timeout_seconds, history, GPUArray>>

(***************************************************************************)
(* The five branches, one of which is for a single device, whatever DevNum *)
(* holds then.  Each allocates the array of framebuffers first.            *)
(***************************************************************************)
Setup ==
  /\ pc = "setup"
  /\ option' = IF n > 1 /\ DevNum \in DOMAIN Options THEN Options[DevNum] ELSE "single"
  /\ NumberOfFrameBuffers' = IF option' \in {"one", "single"} THEN 1 ELSE n
  /\ \/ /\ pools' = pools \cup {<<"GPUArray">>}
        /\ IF option' = "one" THEN pc' = "deviceMenu" /\ UNCHANGED DevNum
           ELSE pc' = "open" /\ DevNum' = 0
     \/ pc' = "failed" /\ UNCHANGED <<pools, DevNum>>
  /\ UNCHANGED <<hardware, current, NameBuffer, device, mode, Key, timeout_seconds, history, GPUArray>>

DeviceChosen ==
  /\ pc = "deviceMenu" /\ Key \in ValidKeys
  /\ DevNum' = Key /\ Key' = NoKey
  /\ pc' = "open"
  /\ UNCHANGED <<hardware, current, pools, NameBuffer, device, mode, option, timeout_seconds,
                 history, result>>

------------------------------------------------------------------------------
(* One device: its mode, and its entry in the array. *)

OpenDevice ==
  /\ pc = "open"
  /\ \/ /\ device' = DevNum
        /\ IF option = "1024x768" THEN pc' = "search" /\ UNCHANGED mode
           ELSE IF option = "defaults" \/ MaxMode[DevNum] = 1 THEN pc' = "set" /\ mode' = 0
           ELSE pc' = "modeMenu" /\ UNCHANGED mode
        /\ timeout_seconds' = IF pc' = "modeMenu" /\ option = "single"
                                 THEN GPU_MENU_TIMEOUT_SECONDS ELSE timeout_seconds
        /\ UNCHANGED <<hardware, current, pools, NameBuffer, DevNum, option, Key, history, result>>
     \/ Return

(* Slip: the key of one device is still there for the next. *)
ModeChosenKeyKept ==
  /\ \/ pc = "modeMenu" /\ Key \in ValidKeys
     \/ pc = "modeKey" /\ TimedOut
  /\ mode' = IF Timed /\ timeout_seconds = 0 THEN 0 ELSE Key
  /\ pc' = "set"
  /\ UNCHANGED <<hardware, current, pools, NameBuffer, DevNum, device, option, Key,
                 timeout_seconds, history, result>>

(* The key pressed is the mode, or mode 0 when the time ran out. *)
ModeChosen ==
  /\ \/ pc = "modeMenu" /\ Key \in ValidKeys
     \/ pc = "modeKey" /\ TimedOut
  /\ mode' = IF Timed /\ timeout_seconds = 0 THEN 0 ELSE Key
  /\ Key' = NoKey
  /\ pc' = "set"
  /\ UNCHANGED <<hardware, current, pools, NameBuffer, DevNum, device, option,
                 timeout_seconds, history, result>>

(* The first mode of 1024x768, or mode 0. *)
Search1024 ==
  /\ pc = "search"
  /\ \/ /\ IF mode1024[device] = {} THEN mode' = 0
           ELSE mode' \in mode1024[device] /\ \A k \in mode1024[device] : mode' <= k
        /\ pc' = "set"
        /\ UNCHANGED <<hardware, current, pools, NameBuffer, DevNum, device, menu, result>>
     \/ Return

(* Slip: the entry of the one device chosen is its own, not the first. *)
SetModeKeepIndex ==
  /\ pc = "set" /\ mode \in Modes(device)
  /\ current' = [current EXCEPT ![device] = mode]
  /\ pc' = "info"
  /\ UNCHANGED <<hardware, pools, NameBuffer, DevNum, device, mode, menu, result>>

SetMode ==
  /\ pc = "set"
  /\ \/ /\ mode \in Modes(device)
        /\ current' = [current EXCEPT ![device] = mode]
        /\ DevNum' = IF option = "one" THEN 0 ELSE DevNum
        /\ pc' = "info"
        /\ UNCHANGED <<hardware, pools, NameBuffer, device, mode, menu, result>>
     \/ Return

(* Slip: the entry is written for the first device every time. *)
StoreInfoFirst ==
  /\ pc = "info"
  /\ pools' = pools \cup {<<"Info", DevNum>>}
  /\ GPUArray' = [GPUArray EXCEPT ![DevNum] = [device |-> 0, mode |-> current[0]]]
  /\ IF option \notin {"one", "single"} /\ DevNum + 1 < n
       THEN pc' = "open" /\ DevNum' = DevNum + 1
       ELSE pc' = "freeNames" /\ UNCHANGED DevNum
  /\ UNCHANGED <<hardware, current, NameBuffer, device, mode, menu, NumberOfFrameBuffers>>

(* The entry of the array, and on to the next device. *)
StoreInfo ==
  /\ pc = "info"
  /\ \/ /\ pools' = pools \cup {<<"Info", DevNum>>}
        /\ GPUArray' = [GPUArray EXCEPT ![DevNum] = [device |-> device, mode |-> current[device]]]
        /\ IF option \notin {"one", "single"} /\ DevNum + 1 < n
             THEN pc' = "open" /\ DevNum' = DevNum + 1
             ELSE pc' = "freeNames" /\ UNCHANGED DevNum
        /\ UNCHANGED <<hardware, current, NameBuffer, device, mode, menu, NumberOfFrameBuffers>>
     \/ Return

------------------------------------------------------------------------------
(* Slip: only the names of as many devices as there are framebuffers. *)
FreeNamesUsed ==
  /\ pc = "freeNames"
  /\ 0 .. NumberOfFrameBuffers - 1 \subseteq NameBuffer
  /\ pools' = pools \ {<<"Name", d>> : d \in 0 .. NumberOfFrameBuffers - 1}
  /\ pc' = "freeBuffer"
  /\ UNCHANGED <<hardware, current, NameBuffer, DevNum, device, mode, menu, result>>

(* Freeing a name that was never allocated is an error like any other. *)
FreeNames ==
  /\ pc = "freeNames"
  /\ \/ /\ Listed \subseteq NameBuffer
        /\ pools' = pools \ {<<"Name", d>> : d \in Listed}
        /\ pc' = "freeBuffer"
        /\ UNCHANGED <<hardware, current, NameBuffer, DevNum, device, mode, menu, result>>
     \/ Return

FreeNameBuffer == pc = "freeBuffer" /\ Free("NameBuffer", "freeHandles")
FreeGraphicsHandles == pc = "freeHandles" /\ Free("GraphicsHandles", "check")

(* The kernel needs direct access to the first framebuffer. *)
CheckFramebuffer ==
  /\ pc = "check"
  /\ pc' = IF GPUArray[0].device \in direct THEN "done" ELSE "failed"
  /\ UNCHANGED <<hardware, current, pools, NameBuffer, DevNum, device, mode, menu, result>>

Done == pc \in {"done", "failed"}
Finished == Done /\ UNCHANGED vars

LoaderStep ==
  \/ LocateHandles \/ NameDevices \/ FreeDevPathHandles \/ FreeName2Handles \/ SeveralDevices
  \/ ListModes \/ CountDown \/ OptionChosen \/ Setup \/ DeviceChosen
  \/ OpenDevice \/ ModeChosen \/ Search1024 \/ SetMode \/ StoreInfo
  \/ FreeNames \/ FreeNameBuffer \/ FreeGraphicsHandles \/ CheckFramebuffer

Next == LoaderStep \/ PressKey \/ KeyError \/ Finished

Spec == Init /\ [][Next]_vars

(* The loader runs on; the user need not press anything, rightly or wrongly. *)
FairSpec == Spec /\ WF_vars(LoaderStep)

------------------------------------------------------------------------------
TypeOK ==
  /\ pc \in {"locate", "name", "freeDevPath", "freeName2", "several", "optionMenu",
             "setup", "deviceMenu", "open", "modeMenu", "modeKey", "search", "set", "info",
             "freeNames", "freeBuffer", "freeHandles", "check", "done", "failed"}
  /\ current \in [Dev -> 0 .. MaxModes]
  /\ pools \subseteq {<<Lists[k]>> : k \in 1 .. 4} \cup {<<"GPUArray">>}
                     \cup ({"Name", "Info"} \X Dev)
  /\ NameBuffer \subseteq Listed
  /\ DevNum \in 0 .. MaxDevices \cup {2, 3}
  /\ device \in Listed
  /\ option \in {"none", "single"} \cup {Options[k] : k \in 0 .. 3}
  /\ mode \in 0 .. MaxModes
  /\ Key \in Keys
  /\ timeout_seconds \in 0 .. GPU_MENU_TIMEOUT_SECONDS
  /\ NumberOfFrameBuffers \in 0 .. n
  /\ GPUArray \in [Dev -> [device : Dev, mode : 0 .. MaxModes]]
  /\ asked \in [Dev -> 0 .. MaxModes] /\ keys \in 0 .. MaxKeys

Used == 0 .. NumberOfFrameBuffers - 1

(***************************************************************************)
(* The kernel is told the truth: each entry of the array describes the     *)
(* mode its device is in at the end, no device has two, and the first,     *)
(* which the kernel draws on, can be accessed directly.                    *)
(***************************************************************************)
FramebuffersTrue ==
  pc = "done" =>
    /\ \A i \in Used : /\ GPUArray[i].mode \in Modes(GPUArray[i].device)
                       /\ GPUArray[i].mode = current[GPUArray[i].device]
    /\ \A i, j \in Used : GPUArray[i].device = GPUArray[j].device => i = j
    /\ NumberOfFrameBuffers > 0 /\ GPUArray[0].device \in direct

(***************************************************************************)
(* Every device is in the mode the user chose for it: in the branches that *)
(* ask, a device with a choice of modes was asked about; in the one for    *)
(* 1024x768 the device is in such a mode if it has one; nobody's answer is *)
(* taken for another device's.                                             *)
(***************************************************************************)
ChoiceHonoured ==
  pc = "done" => \A i \in Used :
    LET d == GPUArray[i].device IN
    /\ asked[d] # NoMode => current[d] = asked[d]
    /\ (option \in {"individually", "one"} /\ MaxMode[d] > 1) => asked[d] # NoMode
    /\ (option = "1024x768" /\ mode1024[d] # {}) => current[d] \in mode1024[d]
    /\ keys = 0 => current[d] = 0

(* SetMode is asked only for modes the device has. *)
ModeInRange == pc = "set" => mode \in Modes(device)

(* What is read of the handles and written to the array is inside them. *)
DevNumInside ==
  /\ pc = "open" => DevNum \in Listed
  /\ pc = "info" => DevNum \in Used

(***************************************************************************)
(* mode and DevNum are loop counters, answers to menus and indices by      *)
(* turns: neither what a loop leaves behind nor a key out of range gets to *)
(* SetMode, to the list of handles or to the array.                        *)
(***************************************************************************)
IndicesInRange == ModeInRange /\ DevNumInside

(* Once the framebuffers are set up, only what the kernel needs is left of *)
(* all that was allocated on the way.                                      *)
ScratchFreed ==
  pc = "done" => pools = {<<"GPUArray">>} \cup {<<"Info", i>> : i \in Used}

(***************************************************************************)
(* "Multi-GPU options 0 and 1 assume the user is present to use them--     *)
(* there's no other way to get to them!" (line 1827): a menu that waits    *)
(* for ever is only reached when a key was pressed before.                 *)
(***************************************************************************)
UntimedOnlyIfAttended ==
  (pc \in {"deviceMenu", "modeMenu", "modeKey"} /\ ~Timed) => keys > 0

(***************************************************************************)
(* A menu that counts down comes to an end, and a key that is not in it    *)
(* makes it ask again with the seconds that are left, never with more: an  *)
(* answer, or their end, is all that is waited for.                        *)
(***************************************************************************)
InTimedMenu == pc = "optionMenu" \/ (option = "single" /\ pc \in {"modeMenu", "modeKey"})

TimedMenusEnd ==
  /\ InTimedMenu ~> ~InTimedMenu
  /\ [][InTimedMenu /\ InTimedMenu' => timeout_seconds' <= timeout_seconds]_vars

==============================================================================
