----------------------------- MODULE DeviceNames -----------------------------
(***************************************************************************)
(* How InitUEFI_GOP (boot.c 987-1341) finds a name for each graphics       *)
(* device: first the driver that manages the controller on the device's    *)
(* own path (the PCI method), then, if that named nothing, any driver that *)
(* claims the device as a child (the general method, which must look out   *)
(* for the drivers that claim everything: the Wall of Shame).              *)
(*                                                                         *)
(* Drivers, controllers and device paths are the firmware's: each call may *)
(* answer in any way its caller tells apart.  A display name is modelled   *)
(* by who gave it: a driver asked about a controller, by which method.     *)
(***************************************************************************)
EXTENDS Integers

CONSTANTS
  NumHandlesInHandleBuffer,   \* graphics devices
  NumDevPathHandles,          \* handles with a device path: controllers and others
  NumName2Handles             \* drivers that can tell names

ASSUME NamesAssumption ==
  /\ NumHandlesInHandleBuffer \in Nat \ {0}
  /\ NumDevPathHandles \in Nat /\ NumName2Handles \in Nat

Dev == 0 .. NumHandlesInHandleBuffer - 1

VARIABLES
  pc,
  DevNum, CntlrIndex, Name2DriverIndex,
  names,        \* the three display names of the device at hand
  opened,       \* PciIo interfaces left open: <<controller, driver>>
  NameBuffer    \* the line the menus show for each device

vars == <<pc, DevNum, CntlrIndex, Name2DriverIndex, names, opened, NameBuffer>>

Kinds == {"driver", "controller", "child"}
(* No Driver Name, No Controller Name, No Child Name: nobody gave a name. *)
Default == [method |-> "none", wall |-> FALSE, controller |-> 0, driver |-> 0]
Sources == [method : {"pci", "general"}, wall : BOOLEAN,
            controller : 0 .. NumDevPathHandles - 1, driver : 0 .. NumName2Handles - 1]
Names == [Kinds -> {Default} \cup Sources]

NoNames == [k \in Kinds |-> Default]

NoLine == [line |-> "unset", names |-> NoNames]

Init ==
  /\ pc = "device"
  /\ DevNum = 0 /\ CntlrIndex = 0 /\ Name2DriverIndex = 0
  /\ names = NoNames
  /\ opened = {}
  /\ NameBuffer = [d \in Dev |-> NoLine]

indices == <<CntlrIndex, Name2DriverIndex>>

Return == pc' = "failed" /\ UNCHANGED <<DevNum, indices, names, NameBuffer>>

(***************************************************************************)
(* GetDriverName or GetControllerName, asked in up to three languages: the *)
(* first answer that is not EFI_UNSUPPORTED counts, and anything but a     *)
(* name leaves the default.                                                *)
(***************************************************************************)
Languages == 1 .. 3
Answers == [Languages -> {"name", "unsupported", "error"}]
Told(answers) ==
  \E l \in Languages :
    answers[l] = "name" /\ \A k \in 1 .. l - 1 : answers[k] = "unsupported"

(* What a driver may tell; it is known to be on the Wall of Shame by its   *)
(* own name.                                                               *)
Tellings ==
  {t \in [told : [Kinds -> {Told(a) : a \in Answers}], wall : BOOLEAN] :
     t.wall => t.told["driver"]}

(* What the driver at hand tells of itself, its controller and the device. *)
Replies(method) ==
  {LET source == [method |-> method, wall |-> t.wall, controller |-> CntlrIndex,
                  driver |-> Name2DriverIndex]
   IN  [wall |-> t.wall, names |-> [k \in Kinds |-> IF t.told[k] THEN source ELSE Default]] :
     t \in Tellings}

(* CatPrint fills the line; its string is NULL when the pool is exhausted. *)
CatPrint(line) ==
  /\ NameBuffer' = [NameBuffer EXCEPT ![DevNum] = line]
  /\ DevNum' = DevNum + 1
  /\ pc' = "device"

------------------------------------------------------------------------------
(* The next device, its path, and the start of the PCI method. *)
NameDevice ==
  /\ pc = "device" /\ DevNum \in Dev
  /\ UNCHANGED <<Name2DriverIndex, opened>>
  /\ \/ /\ pc' = "pciController"
        /\ names' = NoNames
        /\ CntlrIndex' = 0
        /\ UNCHANGED <<DevNum, NameBuffer>>
     \/ /\ \E text \in {"unknown", "NULL"} : CatPrint([line |-> text, names |-> NoNames])
        /\ names' = NoNames
        /\ UNCHANGED CntlrIndex
     \/ /\ pc' = "failed"
        /\ names' = NoNames
        /\ UNCHANGED <<DevNum, CntlrIndex, NameBuffer>>

AllNamed ==
  /\ pc = "device" /\ DevNum \notin Dev
  /\ pc' = "named"
  /\ UNCHANGED <<DevNum, indices, names, opened, NameBuffer>>

(***************************************************************************)
(* A handle with a device path.  It is passed over when it is a driver, an *)
(* image or a file system, or when its path is not the device's; a path    *)
(* that matches starts the loop over the drivers.                          *)
(***************************************************************************)
TryController(here, driverLoop) ==
  /\ pc = here /\ CntlrIndex < NumDevPathHandles
  /\ UNCHANGED opened
  /\ \/ CntlrIndex' = CntlrIndex + 1
        /\ UNCHANGED <<pc, DevNum, Name2DriverIndex, names, NameBuffer>>
     \/ pc' = driverLoop /\ Name2DriverIndex' = 0
        /\ UNCHANGED <<DevNum, CntlrIndex, names, NameBuffer>>
     \/ Return

PciController == TryController("pciController", "pciDriver")

(* Opening PciIo BY_DRIVER succeeds if the driver does not manage the      *)
(* controller; the interface must then be closed again.                    *)
PciOpen ==
  /\ pc = "pciDriver" /\ Name2DriverIndex < NumName2Handles
  /\ pc' = "pciClose"
  /\ opened' = opened \cup {<<CntlrIndex, Name2DriverIndex>>}
  /\ UNCHANGED <<DevNum, indices, names, NameBuffer>>

(* Slip: the interface stays open. *)
PciLeaveOpen ==
  /\ pc = "pciClose"
  /\ UNCHANGED opened
  /\ \/ pc' = "pciDriver" /\ Name2DriverIndex' = Name2DriverIndex + 1
        /\ UNCHANGED <<DevNum, CntlrIndex, names, NameBuffer>>
     \/ Return

PciClose ==
  /\ pc = "pciClose"
  /\ \/ /\ pc' = "pciDriver" /\ Name2DriverIndex' = Name2DriverIndex + 1
        /\ opened' = opened \ {<<CntlrIndex, Name2DriverIndex>>}
        /\ UNCHANGED <<DevNum, CntlrIndex, names, NameBuffer>>
     \/ Return /\ UNCHANGED opened

(* Some other failure to open it: not this driver. *)
PciNoMatch ==
  /\ pc = "pciDriver" /\ Name2DriverIndex < NumName2Handles
  /\ Name2DriverIndex' = Name2DriverIndex + 1
  /\ UNCHANGED <<pc, DevNum, CntlrIndex, names, opened, NameBuffer>>

(* EFI_ALREADY_STARTED: this driver manages it.  Its names are taken, be   *)
(* they all defaults, and both loops are left.                             *)
PciMatch ==
  /\ pc = "pciDriver" /\ Name2DriverIndex < NumName2Handles
  /\ UNCHANGED opened
  /\ \/ Return
     \/ /\ \E reply \in Replies("pci") : names' = reply.names
        /\ pc' = "pciDone"
        /\ UNCHANGED <<DevNum, indices, NameBuffer>>

(* The loop over the controllers, or the one over the drivers of a         *)
(* controller that matched, has come to its end.                           *)
PciOver ==
  /\ \/ pc = "pciController" /\ CntlrIndex = NumDevPathHandles
     \/ pc = "pciDriver" /\ Name2DriverIndex = NumName2Handles
  /\ pc' = "pciDone"
  /\ UNCHANGED <<DevNum, indices, names, opened, NameBuffer>>

(* Slip: one name missing is enough for the general method. *)
SomeNameMissing ==
  /\ pc = "pciDone"
  /\ IF \E k \in Kinds : names[k] = Default
       THEN pc' = "generalController" /\ CntlrIndex' = 0
       ELSE pc' = "print" /\ UNCHANGED CntlrIndex
  /\ UNCHANGED <<DevNum, Name2DriverIndex, names, opened, NameBuffer>>

(* The general method is for devices without any name. *)
PciDone ==
  /\ pc = "pciDone"
  /\ IF names = NoNames
       THEN pc' = "generalController" /\ CntlrIndex' = 0
       ELSE pc' = "print" /\ UNCHANGED CntlrIndex
  /\ UNCHANGED <<DevNum, Name2DriverIndex, names, opened, NameBuffer>>

------------------------------------------------------------------------------
GeneralController == TryController("generalController", "generalDriver")

NextDriver == UNCHANGED pc /\ Name2DriverIndex' = Name2DriverIndex + 1

(* A child name ends the search, else the next driver is asked. *)
ChildOrNext(newNames) ==
  IF newNames["child"] = Default THEN NextDriver
  ELSE pc' = "print" /\ UNCHANGED Name2DriverIndex

(* Slip: a driver on the Wall loses its name but is heard all the same. *)
WallDriverHeard ==
  /\ pc = "generalDriver" /\ Name2DriverIndex < NumName2Handles
  /\ UNCHANGED opened
  /\ \/ Return
     \/ /\ \E reply \in Replies("general") :
             names' = [reply.names EXCEPT !["driver"] = IF reply.wall THEN Default ELSE @]
        /\ ChildOrNext(names')
        /\ UNCHANGED <<DevNum, CntlrIndex, NameBuffer>>

(* Slip: a failing driver leaves the names of the one before it. *)
OldNamesStay ==
  /\ pc = "generalDriver" /\ Name2DriverIndex < NumName2Handles
  /\ UNCHANGED opened
  /\ \/ Return
     \/ /\ \E reply \in Replies("general") :
             names' = [k \in Kinds |-> IF reply.names[k] = Default THEN names[k] ELSE reply.names[k]]
        /\ ChildOrNext(names')
        /\ UNCHANGED <<DevNum, CntlrIndex, NameBuffer>>

(***************************************************************************)
(* The general method asks every driver.  One on the Wall of Shame is      *)
(* passed over once it has told its name.  What the others tell replaces   *)
(* the names found so far, and counts if it includes a child.              *)
(***************************************************************************)
GeneralDriver ==
  /\ pc = "generalDriver" /\ Name2DriverIndex < NumName2Handles
  /\ UNCHANGED opened
  /\ \/ Return
     \/ /\ \E reply \in Replies("general") :
             IF reply.wall
               THEN NextDriver /\ names' = [names EXCEPT !["driver"] = Default]
               ELSE ChildOrNext(reply.names) /\ names' = reply.names
        /\ UNCHANGED <<DevNum, CntlrIndex, NameBuffer>>

(* No driver claimed the device on this controller: on to the next one. *)
GeneralNextController ==
  /\ pc = "generalDriver" /\ Name2DriverIndex = NumName2Handles
  /\ pc' = "generalController"
  /\ CntlrIndex' = CntlrIndex + 1
  /\ UNCHANGED <<DevNum, Name2DriverIndex, names, opened, NameBuffer>>

GeneralOver ==
  /\ pc = "generalController" /\ CntlrIndex = NumDevPathHandles
  /\ pc' = "print"
  /\ UNCHANGED <<DevNum, indices, names, opened, NameBuffer>>

PrintNames ==
  /\ pc = "print"
  /\ \E text \in {"names", "NULL"} : CatPrint([line |-> text, names |-> names])
  /\ UNCHANGED <<indices, names, opened>>

Finished == pc \in {"named", "failed"} /\ UNCHANGED vars

Next ==
  \/ NameDevice \/ AllNamed
  \/ PciController \/ PciOpen \/ PciClose \/ PciNoMatch \/ PciMatch \/ PciOver \/ PciDone
  \/ GeneralController \/ GeneralDriver \/ GeneralNextController \/ GeneralOver
  \/ PrintNames
  \/ Finished

Spec == Init /\ [][Next]_vars

------------------------------------------------------------------------------
TypeOK ==
  /\ pc \in {"device", "pciController", "pciDriver", "pciClose", "pciDone",
             "generalController", "generalDriver", "print", "named", "failed"}
  /\ DevNum \in 0 .. NumHandlesInHandleBuffer
  /\ CntlrIndex \in 0 .. NumDevPathHandles
  /\ Name2DriverIndex \in 0 .. NumName2Handles
  /\ names \in Names
  /\ opened \subseteq (0 .. NumDevPathHandles - 1) \X (0 .. NumName2Handles - 1)
  /\ NameBuffer \in [Dev -> [line : {"unset", "names", "unknown", "NULL"}, names : Names]]

(***************************************************************************)
(* The names shown for a device all come from one driver asked about one   *)
(* controller, although the general method overwrites them driver by       *)
(* driver, in part when a driver fails or is on the Wall of Shame.         *)
(***************************************************************************)
GivenBy(shown) == {shown[k] : k \in Kinds} \ {Default}
NamesFromOneDriver ==
  \A shown \in {names} \cup {NameBuffer[d].names : d \in Dev} :
    \A a, b \in GivenBy(shown) : a = b

(***************************************************************************)
(* A driver known from the Wall of Shame ("Drivers of devices that         *)
(* improperly return GetControllerName and claim to be the controllers of  *)
(* anything you give them", line 921) gives the general method no name.    *)
(***************************************************************************)
WallNotHeard ==
  \A d \in Dev : \A source \in GivenBy(NameBuffer[d].names) :
    source.method = "general" => ~source.wall

(***************************************************************************)
(* What the driver that manages the device's controller says stands: once  *)
(* the PCI method found any name, the names change only with the device.   *)
(***************************************************************************)
PciNamesStand ==
  [][(pc \notin {"device", "print"} /\ \E source \in GivenBy(names) : source.method = "pci")
       => names' = names]_vars

(***************************************************************************)
(* Every interface opened to find out who manages a controller is closed   *)
(* before anything else is asked of it, unless closing it failed.          *)
(***************************************************************************)
InterfacesClosed == pc \notin {"pciClose", "failed"} => opened = {}
==============================================================================
