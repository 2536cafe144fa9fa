--------------------------- MODULE DeviceNamesProofs ---------------------------
(***************************************************************************)
(* Whose names the menus show, for every number of devices, controllers    *)
(* and drivers and whatever the drivers answer.                            *)
(***************************************************************************)
EXTENDS DeviceNames, TLAPS

(* All names of one source, and none of them a Wall driver's if it was     *)
(* found by the general method.                                            *)
OneSource(shown) == \A a, b \in GivenBy(shown) : a = b
NoWall(shown) == \A source \in GivenBy(shown) : source.method = "general" => ~source.wall
Sound(shown) == OneSource(shown) /\ NoWall(shown)

PciLoops == {"pciController", "pciDriver", "pciClose"}
GeneralLoops == {"generalController", "generalDriver"}

(***************************************************************************)
(* Inductive because of where names may stand: none before the PCI method  *)
(* is through, and only the general method's own while it runs, so that    *)
(* what is dropped or replaced is always of the same source.               *)
(***************************************************************************)
NamesInv ==
  /\ Sound(names)
  /\ \A d \in Dev : Sound(NameBuffer[d].names)
  /\ pc \in PciLoops => names = NoNames
  /\ pc \in GeneralLoops => \A source \in GivenBy(names) : source.method = "general"

IndexInv ==
  /\ pc \notin {"device", "named", "failed"} => DevNum \in Dev
  /\ pc \in {"pciDriver", "pciClose", "generalDriver"} => CntlrIndex < NumDevPathHandles
  /\ pc = "pciClose" => Name2DriverIndex < NumName2Handles

OpenedInv ==
  /\ pc = "pciClose" => opened = {<<CntlrIndex, Name2DriverIndex>>}
  /\ pc \notin {"pciClose", "failed"} => opened = {}

IInv == TypeOK /\ NamesInv /\ IndexInv /\ OpenedInv

------------------------------------------------------------------------------
(* Facts about names. *)

LEMMA NoNamesSound == NoNames \in Names /\ GivenBy(NoNames) = {} /\ Sound(NoNames)
  BY DEF NoNames, Names, GivenBy, Sound, OneSource, NoWall

(* Dropping the driver's name leaves the others' sources as they are.       *)
LEMMA DropSound ==
  ASSUME NEW shown \in Names, Sound(shown),
         NEW less, less = [shown EXCEPT !["driver"] = Default]
  PROVE  less \in Names /\ GivenBy(less) \subseteq GivenBy(shown) /\ Sound(less)
<1>1. less \in Names
  BY DEF Names, Kinds
<1>2. GivenBy(less) \subseteq GivenBy(shown)
  BY DEF GivenBy, Names, Kinds
<1> QED
  BY <1>1, <1>2 DEF Sound, OneSource, NoWall

(* What a driver tells is of one source: itself, as it was asked.           *)
LEMMA RepliesSound ==
  ASSUME NEW method \in {"pci", "general"}, NEW reply \in Replies(method),
         CntlrIndex \in 0 .. NumDevPathHandles - 1, Name2DriverIndex \in 0 .. NumName2Handles - 1
  PROVE  /\ reply.names \in Names /\ OneSource(reply.names)
         /\ \A source \in GivenBy(reply.names) : source.method = method /\ source.wall = reply.wall
<1>1. PICK t \in Tellings :
        reply = [wall |-> t.wall,
                 names |-> [k \in Kinds |-> IF t.told[k]
                                              THEN [method |-> method, wall |-> t.wall,
                                                    controller |-> CntlrIndex,
                                                    driver |-> Name2DriverIndex]
                                              ELSE Default]]
  BY DEF Replies
<1>2. PICK source : source = [method |-> method, wall |-> t.wall, controller |-> CntlrIndex,
                              driver |-> Name2DriverIndex]
  OBVIOUS
<1>3. source \in Sources
  BY <1>1, <1>2 DEF Sources, Tellings
<1>4. reply.wall = t.wall /\ reply.names = [k \in Kinds |-> IF t.told[k] THEN source ELSE Default]
  BY <1>1, <1>2
<1>5. reply.names \in Names
  BY <1>3, <1>4 DEF Names
<1>6. GivenBy(reply.names) \subseteq {source}
  BY <1>4 DEF GivenBy
<1>7. source.method = method /\ source.wall = t.wall
  BY <1>2
<1> QED
  BY <1>4, <1>5, <1>6, <1>7 DEF OneSource

------------------------------------------------------------------------------
(* The invariant: initially, and kept by every action. *)

LEMMA InitIInv == Init => IInv
<1> SUFFICES ASSUME Init PROVE IInv
  OBVIOUS
<1> USE NamesAssumption, NoNamesSound
<1>1. TypeOK
  BY DEF Init, TypeOK, Dev, NoLine
<1>2. NamesInv
  BY DEF Init, NamesInv, NoLine, PciLoops, GeneralLoops
<1>3. IndexInv /\ OpenedInv
  BY DEF Init, IndexInv, OpenedInv
<1> QED
  BY <1>1, <1>2, <1>3 DEF IInv

(* A line for the menus: what it shows was, or is of, the names at hand.    *)
LEMMA LineSound ==
  ASSUME IInv, DevNum \in Dev,
         NEW text \in {"names", "unknown", "NULL"}, NEW shown \in Names, Sound(shown),
         CatPrint([line |-> text, names |-> shown])
  PROVE  /\ pc' = "device" /\ DevNum' \in 0 .. NumHandlesInHandleBuffer
         /\ NameBuffer' \in [Dev -> [line : {"unset", "names", "unknown", "NULL"}, names : Names]]
         /\ \A d \in Dev : Sound(NameBuffer'[d].names)
<1>1. pc' = "device" /\ DevNum' = DevNum + 1
        /\ NameBuffer' = [NameBuffer EXCEPT ![DevNum] = [line |-> text, names |-> shown]]
  BY DEF CatPrint
<1>2. DevNum' \in 0 .. NumHandlesInHandleBuffer
  BY <1>1, NamesAssumption DEF Dev
<1>3. NameBuffer \in [Dev -> [line : {"unset", "names", "unknown", "NULL"}, names : Names]]
  BY DEF IInv, TypeOK
<1>4. NameBuffer' \in [Dev -> [line : {"unset", "names", "unknown", "NULL"}, names : Names]]
  BY <1>1, <1>3
<1>5. \A d \in Dev : Sound(NameBuffer'[d].names)
  <2> TAKE d \in Dev
  <2>1. CASE d = DevNum
    BY <1>1, <1>3, <2>1
  <2>2. CASE d # DevNum
    BY <1>1, <1>3, <2>2 DEF IInv, NamesInv
  <2> QED
    BY <2>1, <2>2
<1> QED
  BY <1>1, <1>2, <1>4, <1>5

LEMMA ReturnIInv ==
  ASSUME IInv, Return, UNCHANGED opened, pc \notin {"device", "named", "failed"}
  PROVE  IInv'
<1>1. TypeOK'
  BY DEF IInv, TypeOK, Return, indices
<1>2. NamesInv'
  BY DEF IInv, NamesInv, Return, PciLoops, GeneralLoops
<1>3. IndexInv' /\ OpenedInv'
  BY DEF Return, IndexInv, OpenedInv
<1> QED
  BY <1>1, <1>2, <1>3 DEF IInv

LEMMA NameDeviceIInv == ASSUME IInv, NameDevice PROVE IInv'
<1> USE NamesAssumption, NoNamesSound
<1>1. /\ pc = "device" /\ DevNum \in Dev /\ opened' = opened /\ opened = {}
      /\ Name2DriverIndex' = Name2DriverIndex /\ names' = NoNames
  BY DEF NameDevice, IInv, OpenedInv
<1>2. CASE pc' = "pciController" /\ CntlrIndex' = 0 /\ UNCHANGED <<DevNum, NameBuffer>>
  <2>1. TypeOK'
    BY <1>1, <1>2 DEF IInv, TypeOK
  <2>2. NamesInv'
    BY <1>1, <1>2 DEF IInv, NamesInv, GeneralLoops
  <2>3. IndexInv' /\ OpenedInv'
    BY <1>1, <1>2 DEF IndexInv, OpenedInv
  <2> QED
    BY <2>1, <2>2, <2>3 DEF IInv
<1>3. ASSUME NEW text \in {"unknown", "NULL"},
             CatPrint([line |-> text, names |-> NoNames]), UNCHANGED CntlrIndex
      PROVE  IInv'
  <2>1. /\ pc' = "device" /\ DevNum' \in 0 .. NumHandlesInHandleBuffer
        /\ NameBuffer' \in [Dev -> [line : {"unset", "names", "unknown", "NULL"}, names : Names]]
        /\ \A d \in Dev : Sound(NameBuffer'[d].names)
    BY <1>1, <1>3, LineSound
  <2>2. TypeOK'
    BY <1>1, <1>3, <2>1 DEF IInv, TypeOK
  <2>3. NamesInv'
    BY <1>1, <2>1 DEF NamesInv, PciLoops, GeneralLoops
  <2>4. IndexInv' /\ OpenedInv'
    BY <1>1, <2>1 DEF IndexInv, OpenedInv
  <2> QED
    BY <2>2, <2>3, <2>4 DEF IInv
<1>4. CASE pc' = "failed" /\ UNCHANGED <<DevNum, CntlrIndex, NameBuffer>>
  <2>1. TypeOK'
    BY <1>1, <1>4 DEF IInv, TypeOK
  <2>2. NamesInv'
    BY <1>1, <1>4 DEF IInv, NamesInv, PciLoops, GeneralLoops
  <2>3. IndexInv' /\ OpenedInv'
    BY <1>1, <1>4 DEF IndexInv, OpenedInv
  <2> QED
    BY <2>1, <2>2, <2>3 DEF IInv
<1> QED
  BY <1>2, <1>3, <1>4 DEF NameDevice

LEMMA PrintNamesIInv == ASSUME IInv, PrintNames PROVE IInv'
<1>1. PICK text \in {"names", "NULL"} : CatPrint([line |-> text, names |-> names])
  BY DEF PrintNames
<1>2. /\ pc = "print" /\ DevNum \in Dev /\ names \in Names /\ Sound(names) /\ opened = {}
      /\ CntlrIndex' = CntlrIndex /\ Name2DriverIndex' = Name2DriverIndex
      /\ names' = names /\ opened' = opened
  BY DEF PrintNames, IInv, TypeOK, NamesInv, IndexInv, OpenedInv, indices
<1>3. /\ pc' = "device" /\ DevNum' \in 0 .. NumHandlesInHandleBuffer
      /\ NameBuffer' \in [Dev -> [line : {"unset", "names", "unknown", "NULL"}, names : Names]]
      /\ \A d \in Dev : Sound(NameBuffer'[d].names)
  BY <1>1, <1>2, LineSound
<1>4. TypeOK'
  BY <1>2, <1>3 DEF IInv, TypeOK
<1>5. NamesInv'
  BY <1>2, <1>3 DEF NamesInv, PciLoops, GeneralLoops
<1>6. IndexInv' /\ OpenedInv'
  BY <1>2, <1>3 DEF IndexInv, OpenedInv
<1> QED
  BY <1>4, <1>5, <1>6 DEF IInv

(* Both methods' loops over the handles. *)
LEMMA TryControllerIInv ==
  ASSUME IInv,
         NEW here, NEW driverLoop,
         \/ here = "pciController" /\ driverLoop = "pciDriver"
         \/ here = "generalController" /\ driverLoop = "generalDriver",
         TryController(here, driverLoop)
  PROVE  IInv'
<1> USE NamesAssumption
<1>1. pc = here /\ CntlrIndex < NumDevPathHandles /\ opened' = opened
        /\ pc \in {"pciController", "generalController"}
  BY DEF TryController
<1>2. CASE CntlrIndex' = CntlrIndex + 1 /\ UNCHANGED <<pc, DevNum, Name2DriverIndex, names, NameBuffer>>
  <2>1. TypeOK'
    BY <1>1, <1>2 DEF IInv, TypeOK
  <2>2. NamesInv'
    BY <1>2 DEF IInv, NamesInv
  <2>3. IndexInv' /\ OpenedInv'
    BY <1>1, <1>2 DEF IInv, IndexInv, OpenedInv
  <2> QED
    BY <2>1, <2>2, <2>3 DEF IInv
<1>3. CASE /\ pc' = driverLoop /\ Name2DriverIndex' = 0
           /\ UNCHANGED <<DevNum, CntlrIndex, names, NameBuffer>>
  <2>1. TypeOK'
    BY <1>1, <1>3 DEF IInv, TypeOK
  <2>2. NamesInv'
    BY <1>1, <1>3 DEF IInv, NamesInv, PciLoops, GeneralLoops
  <2>3. IndexInv' /\ OpenedInv'
    BY <1>1, <1>3 DEF IInv, IndexInv, OpenedInv
  <2> QED
    BY <2>1, <2>2, <2>3 DEF IInv
<1>4. CASE Return
  BY <1>1, <1>4, ReturnIInv
<1> QED
  BY <1>2, <1>3, <1>4 DEF TryController

(* The PCI method's loop over the drivers. *)
LEMMA PciOpenIInv == ASSUME IInv, PciOpen PROVE IInv'
<1> USE NamesAssumption
<1>1. /\ pc = "pciDriver" /\ Name2DriverIndex < NumName2Handles /\ CntlrIndex < NumDevPathHandles
      /\ opened = {} /\ pc' = "pciClose" /\ opened' = {<<CntlrIndex, Name2DriverIndex>>}
      /\ UNCHANGED <<DevNum, CntlrIndex, Name2DriverIndex, names, NameBuffer>>
  BY DEF PciOpen, IInv, IndexInv, OpenedInv, indices
<1>2. TypeOK'
  BY <1>1 DEF IInv, TypeOK
<1>3. NamesInv'
  BY <1>1 DEF IInv, NamesInv, PciLoops, GeneralLoops
<1>4. IndexInv' /\ OpenedInv'
  BY <1>1 DEF IInv, IndexInv, OpenedInv
<1> QED
  BY <1>2, <1>3, <1>4 DEF IInv

LEMMA PciCloseIInv == ASSUME IInv, PciClose PROVE IInv'
<1> USE NamesAssumption
<1>1. /\ pc = "pciClose" /\ Name2DriverIndex < NumName2Handles /\ CntlrIndex < NumDevPathHandles
      /\ opened = {<<CntlrIndex, Name2DriverIndex>>}
  BY DEF PciClose, IInv, IndexInv, OpenedInv
<1>2. CASE /\ pc' = "pciDriver" /\ Name2DriverIndex' = Name2DriverIndex + 1
           /\ opened' = opened \ {<<CntlrIndex, Name2DriverIndex>>}
           /\ UNCHANGED <<DevNum, CntlrIndex, names, NameBuffer>>
  <2>1. TypeOK'
    BY <1>1, <1>2 DEF IInv, TypeOK
  <2>2. NamesInv'
    BY <1>1, <1>2 DEF IInv, NamesInv, PciLoops, GeneralLoops
  <2>3. IndexInv' /\ OpenedInv'
    BY <1>1, <1>2 DEF IInv, IndexInv, OpenedInv
  <2> QED
    BY <2>1, <2>2, <2>3 DEF IInv
<1>3. CASE Return /\ UNCHANGED opened
  BY <1>1, <1>3, ReturnIInv
<1> QED
  BY <1>2, <1>3 DEF PciClose

LEMMA PciNoMatchIInv == ASSUME IInv, PciNoMatch PROVE IInv'
<1> USE NamesAssumption
<1>1. TypeOK'
  BY DEF IInv, TypeOK, PciNoMatch
<1>2. NamesInv'
  BY DEF IInv, NamesInv, PciNoMatch
<1>3. IndexInv' /\ OpenedInv'
  BY DEF IInv, IndexInv, OpenedInv, PciNoMatch
<1> QED
  BY <1>1, <1>2, <1>3 DEF IInv

LEMMA PciMatchIInv == ASSUME IInv, PciMatch PROVE IInv'
<1> USE NamesAssumption
<1>1. /\ pc = "pciDriver" /\ CntlrIndex \in 0 .. NumDevPathHandles - 1
      /\ Name2DriverIndex \in 0 .. NumName2Handles - 1 /\ opened' = opened
  BY DEF PciMatch, IInv, IndexInv, TypeOK
<1>2. CASE Return
  BY <1>1, <1>2, ReturnIInv
<1>3. ASSUME NEW reply \in Replies("pci"), names' = reply.names,
             pc' = "pciDone", UNCHANGED <<DevNum, indices, NameBuffer>>
      PROVE  IInv'
  <2>1. names' \in Names /\ Sound(names')
    BY <1>1, <1>3, RepliesSound DEF Sound, NoWall
  <2>2. TypeOK'
    BY <1>1, <1>3, <2>1 DEF IInv, TypeOK, indices
  <2>3. NamesInv'
    BY <1>3, <2>1 DEF IInv, NamesInv, PciLoops, GeneralLoops
  <2>4. IndexInv' /\ OpenedInv'
    BY <1>1, <1>3 DEF IInv, IndexInv, OpenedInv, indices
  <2> QED
    BY <2>2, <2>3, <2>4 DEF IInv
<1> QED
  BY <1>2, <1>3 DEF PciMatch

(* The ends of the loops, and from one method to the other. *)
LEMMA PciOverIInv == ASSUME IInv, PciOver PROVE IInv'
<1>1. TypeOK'
  BY DEF IInv, TypeOK, PciOver, indices
<1>2. NamesInv'
  BY DEF IInv, NamesInv, PciOver, PciLoops, GeneralLoops
<1>3. IndexInv' /\ OpenedInv'
  BY DEF IInv, IndexInv, OpenedInv, PciOver, indices
<1> QED
  BY <1>1, <1>2, <1>3 DEF IInv

LEMMA PciDoneIInv == ASSUME IInv, PciDone PROVE IInv'
<1> USE NamesAssumption, NoNamesSound
<1>1. TypeOK'
  BY DEF IInv, TypeOK, PciDone
<1>2. NamesInv'
  BY DEF IInv, NamesInv, PciDone, PciLoops, GeneralLoops
<1>3. IndexInv' /\ OpenedInv'
  BY DEF IInv, IndexInv, OpenedInv, PciDone
<1> QED
  BY <1>1, <1>2, <1>3 DEF IInv

(***************************************************************************)
(* The general method replaces what it found by what the next driver says, *)
(* or, of a driver on the Wall, drops the driver's name only.              *)
(***************************************************************************)
LEMMA GeneralDriverIInv == ASSUME IInv, GeneralDriver PROVE IInv'
<1> USE NamesAssumption
<1>1. /\ pc = "generalDriver" /\ CntlrIndex \in 0 .. NumDevPathHandles - 1
      /\ Name2DriverIndex \in 0 .. NumName2Handles - 1 /\ opened' = opened
      /\ names \in Names /\ Sound(names)
      /\ \A source \in GivenBy(names) : source.method = "general"
  BY DEF GeneralDriver, IInv, IndexInv, TypeOK, NamesInv, GeneralLoops
<1>2. CASE Return
  BY <1>1, <1>2, ReturnIInv
<1>3. ASSUME names' \in Names, Sound(names'),
             \A source \in GivenBy(names') : source.method = "general",
             \/ pc' = pc /\ Name2DriverIndex' = Name2DriverIndex + 1
             \/ pc' = "print" /\ Name2DriverIndex' = Name2DriverIndex,
             UNCHANGED <<DevNum, CntlrIndex, NameBuffer>>
      PROVE  IInv'
  <2>1. TypeOK'
    BY <1>1, <1>3 DEF IInv, TypeOK
  <2>2. NamesInv'
    BY <1>1, <1>3 DEF IInv, NamesInv, PciLoops, GeneralLoops
  <2>3. IndexInv' /\ OpenedInv'
    BY <1>1, <1>3 DEF IInv, IndexInv, OpenedInv
  <2> QED
    BY <2>1, <2>2, <2>3 DEF IInv
<1>4. ASSUME NEW reply \in Replies("general"), reply.wall,
             NextDriver, names' = [names EXCEPT !["driver"] = Default],
             UNCHANGED <<DevNum, CntlrIndex, NameBuffer>>
      PROVE  IInv'
  <2>1. names' \in Names /\ GivenBy(names') \subseteq GivenBy(names) /\ Sound(names')
    BY <1>1, <1>4, DropSound
  <2>2. \A source \in GivenBy(names') : source.method = "general"
    BY <1>1, <2>1
  <2>3. pc' = pc /\ Name2DriverIndex' = Name2DriverIndex + 1
    BY <1>4 DEF NextDriver
  <2> QED
    BY <1>3, <1>4, <2>1, <2>2, <2>3
<1>5. ASSUME NEW reply \in Replies("general"), ~reply.wall,
             ChildOrNext(reply.names), names' = reply.names,
             UNCHANGED <<DevNum, CntlrIndex, NameBuffer>>
      PROVE  IInv'
  <2>1. /\ names' \in Names /\ OneSource(names')
        /\ \A source \in GivenBy(names') : source.method = "general" /\ source.wall = reply.wall
    BY <1>1, <1>5, RepliesSound
  <2>2. Sound(names')
    BY <1>5, <2>1 DEF Sound, NoWall
  <2>3. \/ pc' = pc /\ Name2DriverIndex' = Name2DriverIndex + 1
        \/ pc' = "print" /\ Name2DriverIndex' = Name2DriverIndex
    BY <1>5 DEF ChildOrNext, NextDriver
  <2> QED
    BY <1>3, <1>5, <2>1, <2>2, <2>3
<1> QED
  BY <1>2, <1>4, <1>5 DEF GeneralDriver

LEMMA GeneralNextControllerIInv == ASSUME IInv, GeneralNextController PROVE IInv'
<1> USE NamesAssumption
<1>1. TypeOK'
  BY DEF IInv, TypeOK, IndexInv, GeneralNextController
<1>2. NamesInv'
  BY DEF IInv, NamesInv, GeneralNextController, PciLoops, GeneralLoops
<1>3. IndexInv' /\ OpenedInv'
  BY DEF IInv, IndexInv, OpenedInv, GeneralNextController
<1> QED
  BY <1>1, <1>2, <1>3 DEF IInv

LEMMA GeneralOverIInv == ASSUME IInv, GeneralOver PROVE IInv'
<1>1. TypeOK'
  BY DEF IInv, TypeOK, GeneralOver, indices
<1>2. NamesInv'
  BY DEF IInv, NamesInv, GeneralOver, PciLoops, GeneralLoops
<1>3. IndexInv' /\ OpenedInv'
  BY DEF IInv, IndexInv, OpenedInv, GeneralOver, indices
<1> QED
  BY <1>1, <1>2, <1>3 DEF IInv

LEMMA AllNamedIInv == ASSUME IInv, AllNamed PROVE IInv'
<1>1. TypeOK'
  BY DEF IInv, TypeOK, AllNamed, indices
<1>2. NamesInv'
  BY DEF IInv, NamesInv, AllNamed, PciLoops, GeneralLoops
<1>3. IndexInv' /\ OpenedInv'
  BY DEF IInv, IndexInv, OpenedInv, AllNamed, indices
<1> QED
  BY <1>1, <1>2, <1>3 DEF IInv

LEMMA StutterIInv == ASSUME IInv, UNCHANGED vars PROVE IInv'
  BY DEF IInv, TypeOK, NamesInv, IndexInv, OpenedInv, vars

LEMMA NextIInv == ASSUME IInv, [Next]_vars PROVE IInv'
<1>1. CASE NameDevice
  BY <1>1, NameDeviceIInv
<1>2. CASE AllNamed
  BY <1>2, AllNamedIInv
<1>3. CASE PciController
  BY <1>3, TryControllerIInv DEF PciController
<1>4. CASE PciOpen
  BY <1>4, PciOpenIInv
<1>5. CASE PciClose
  BY <1>5, PciCloseIInv
<1>6. CASE PciNoMatch
  BY <1>6, PciNoMatchIInv
<1>7. CASE PciMatch
  BY <1>7, PciMatchIInv
<1>8. CASE PciOver
  BY <1>8, PciOverIInv
<1>9. CASE PciDone
  BY <1>9, PciDoneIInv
<1>10. CASE GeneralController
  BY <1>10, TryControllerIInv DEF GeneralController
<1>11. CASE GeneralDriver
  BY <1>11, GeneralDriverIInv
<1>12. CASE GeneralNextController
  BY <1>12, GeneralNextControllerIInv
<1>13. CASE GeneralOver
  BY <1>13, GeneralOverIInv
<1>14. CASE PrintNames
  BY <1>14, PrintNamesIInv
<1>15. CASE Finished \/ UNCHANGED vars
  BY <1>15, StutterIInv DEF Finished
<1> QED
  BY <1>1, <1>2, <1>3, <1>4, <1>5, <1>6, <1>7, <1>8, <1>9, <1>10, <1>11, <1>12, <1>13,
     <1>14, <1>15 DEF Next

THEOREM Inductive == Spec => []IInv
  BY InitIInv, NextIInv, PTL DEF Spec

------------------------------------------------------------------------------
(* What follows from it. *)

(* The variables of the naming loops keep their types: the indices stay in *)
(* the handles found, and every line shown is of names somebody gave.      *)
THEOREM TypeCorrect == Spec => []TypeOK
<1>1. IInv => TypeOK
  BY DEF IInv
<1> QED
  BY <1>1, Inductive, PTL

(* The names shown for a device all come from one driver asked about one   *)
(* controller.                                                             *)
THEOREM NamesCorrect == Spec => []NamesFromOneDriver
<1>1. IInv => NamesFromOneDriver
  BY DEF IInv, NamesInv, Sound, OneSource, NamesFromOneDriver
<1> QED
  BY <1>1, Inductive, PTL

(* No driver on the Wall of Shame names a device by the general method.    *)
THEOREM WallCorrect == Spec => []WallNotHeard
<1>1. IInv => WallNotHeard
  BY DEF IInv, NamesInv, Sound, NoWall, WallNotHeard
<1> QED
  BY <1>1, Inductive, PTL

(* Every interface opened on the way is closed before the next call,       *)
(* unless closing it fails.                                                *)
THEOREM InterfacesCorrect == Spec => []InterfacesClosed
<1>1. IInv => InterfacesClosed
  BY DEF IInv, OpenedInv, InterfacesClosed
<1> QED
  BY <1>1, Inductive, PTL

(***************************************************************************)
(* Names found by the PCI method stand: while it loops there are none, and *)
(* the general method starts only without any.                             *)
(***************************************************************************)
THEOREM PciNamesCorrect == Spec => PciNamesStand
<1>1. ASSUME IInv, [Next]_vars, pc \notin {"device", "print"},
             \E source \in GivenBy(names) : source.method = "pci"
      PROVE  names' = names
  <2>1. pc \notin PciLoops /\ pc \notin GeneralLoops /\ names # NoNames
    BY <1>1, NoNamesSound DEF IInv, NamesInv
  <2>2. CASE AllNamed \/ PciDone \/ PciOver \/ GeneralOver \/ Finished \/ UNCHANGED vars
    BY <2>2 DEF AllNamed, PciDone, PciOver, GeneralOver, Finished, vars
  <2>3. CASE PciController \/ GeneralController \/ PciOpen \/ PciClose \/ PciNoMatch \/ PciMatch
               \/ GeneralDriver \/ GeneralNextController
    BY <2>1, <2>3 DEF PciController, GeneralController, TryController, PciOpen, PciClose,
       PciNoMatch, PciMatch, GeneralDriver, GeneralNextController, PciLoops, GeneralLoops
  <2>4. CASE NameDevice \/ PrintNames
    BY <1>1, <2>4 DEF NameDevice, PrintNames
  <2> QED
    BY <1>1, <2>2, <2>3, <2>4 DEF Next
<1>2. IInv /\ [Next]_vars =>
        [pc \notin {"device", "print"} /\ (\E source \in GivenBy(names) : source.method = "pci")
           => names' = names]_vars
  BY <1>1
<1> QED
  BY <1>2, Inductive, PTL DEF Spec, PciNamesStand

==============================================================================
