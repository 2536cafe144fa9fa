------------------------------ MODULE Interrupts ------------------------------
(***************************************************************************)
(* Interrupts and exceptions of the x86_64 kernel (ISR.c, ISR_asm.S, the   *)
(* TSS of system.h and Abort of system.c): InitializeISR installs the      *)
(* tables one by one, and from then on any vector may be delivered at any  *)
(* time, also while the handler of another one is running.                 *)
(*                                                                         *)
(* The processor is external: what it does with the tables is modelled as  *)
(* far as the kernel's tables and handlers rely on it.  A word on a stack  *)
(* is modelled by what it is and by the activation that pushed it; the     *)
(* fifteen registers a macro saves are one word, the five the processor    *)
(* pushes another.                                                         *)
(***************************************************************************)
EXTENDS Integers, Sequences

CONSTANTS
  Vectors,         \* the vectors that may be raised
  HandlerFaults,   \* those that a handler's own code may raise
  MaxDepth,        \* handlers interrupted by one another
  MaxEvents        \* vectors delivered, and ends of a halt

(* No handler has a breakpoint in it. *)
ASSUME InterruptsAssumption ==
  /\ Vectors \subseteq 0 .. 255
  /\ HandlerFaults \subseteq Vectors \cap (0 .. 31 \ {2, 3, 18})
  /\ MaxDepth \in Nat \ {0, 1} /\ MaxEvents \in Nat

VARIABLES
  installed,     \* how many steps of InitializeISR have been executed
  interrupts,    \* are interrupts enabled, as the firmware may have left them?
  osxsave,       \* the same of CR4.OSXSAVE, without which xsave is an invalid opcode
  cpu,           \* "running", or how it went out of control
  contexts,      \* the handlers at work, each interrupted by the next
  stacks,        \* the words on each stack, from its top down
  nmiBlocked,    \* a non-maskable interrupt masks the next until an iretq
  machineCheck,  \* MCIP: a machine check has been delivered and never cleared
  reported,      \* the error codes shown, each by which of the handlers at work
  shared,        \* history: <<v, w>> where w started on the stack v had started on
  events

setup == <<installed, interrupts, osxsave>>
vars == <<installed, interrupts, osxsave, cpu, contexts, stacks, nmiBlocked,
          machineCheck, reported, shared, events>>

NMI == 2
BP == 3
UD == 6
DF == 8
PF == 14
MC == 18

------------------------------------------------------------------------------
(* The tables. *)

InitializeISR == <<"GDT", "lgdt", "ltr", "segments", "stacks", "gates", "lidt">>
Did(step) == \E k \in 1 .. installed : InitializeISR[k] = step

(***************************************************************************)
(* The eight fields IST0 to IST7 of TSS64_STRUCT as InitializeISR fills    *)
(* them; "none" is the address 0 they begin with.  The processor takes the *)
(* first of them for the stack it calls IST 1.                             *)
(***************************************************************************)
tss64 == <<"none", "NMI_stack", "DF_stack", "MC_stack", "BP_stack", "none", "none", "none">>
Stacks == {"kernel_stack", "NMI_stack", "DF_stack", "MC_stack", "BP_stack"}
StackOfIST(ist) == tss64[ist]

(* Slip: breakpoints get the machine check's stack. *)
ISTBreakpointAsMC(v) == IF v = NMI THEN 1 ELSE IF v \in {DF, MC, BP} THEN 3 ELSE 0

(* The stack number of each gate; 0 stays on the current stack. *)
IST(v) ==
  IF v = NMI THEN 1 ELSE IF v = BP THEN 4 ELSE IF v \in {DF, MC} THEN 3 ELSE 0

(* Slip: trap gates, for the user-defined vectors. *)
ClearsIFNotUser(v) == v < 32

(* Every gate is an interrupt gate: maskable interrupts stay out. *)
ClearsIF(v) == TRUE

(* The vectors with an error code, by the processor and by the macros used. *)
HasErrorCode(v) == v \in {8, 10, 11, 12, 13, 14, 17, 30}
IsEXC(v) == v \in {8, 10, 11, 12, 13, 14, 17, 30}

(* Vectors with a handler of their own report their number, others ~0. *)
AllOnes == -1
HasHandler(v) == v \in 0 .. 20 \cup {30} /\ v # 15
ErrorCode(v) == IF HasHandler(v) THEN v ELSE AllOnes

------------------------------------------------------------------------------
(* Words and stacks. *)

CpuWords(v) == IF HasErrorCode(v) THEN <<"frame", "error">> ELSE <<"frame">>

(* ISR_pusher pushes the number after the registers, EXC_pusher before. *)
PusherWords(v) == IF IsEXC(v) THEN <<"number", "registers">> ELSE <<"registers", "number">>

(* Slip: the error code stays on the stack. *)
PopsWithoutError(v) ==
  IF IsEXC(v) THEN <<"registers", "number", "frame">> ELSE <<"number", "registers", "frame">>

(* On the way back: what each macro takes off, the number by adding 8, the *)
(* number and the error code by adding 16 to %rsp.                         *)
Pops(v) ==
  IF IsEXC(v) THEN <<"registers", "number", "error", "frame">>
              ELSE <<"number", "registers", "frame">>

Depth == Len(contexts)
Top == contexts[Depth]
CurrentStack == IF contexts = <<>> THEN "kernel_stack" ELSE Top.stack
CurrentSP == IF contexts = <<>> THEN 0 ELSE Top.sp
CurrentIF == IF contexts = <<>> THEN interrupts ELSE Top.enabled

Room == 4 * MaxDepth + 4
Junk == [what |-> "junk", owner |-> 0]

Push(stack, sp, words, owner) ==
  [stacks EXCEPT ![stack] =
     [k \in 1 .. Room |-> IF k \in sp + 1 .. sp + Len(words)
                            THEN [what |-> words[k - sp], owner |-> owner] ELSE @[k]]]

Init ==
  /\ installed = 0
  /\ interrupts \in BOOLEAN /\ osxsave \in BOOLEAN
  /\ cpu = "running"
  /\ contexts = <<>>
  /\ stacks = [s \in Stacks |-> [k \in 1 .. Room |-> Junk]]
  /\ nmiBlocked = FALSE /\ machineCheck = FALSE
  /\ reported = {}
  /\ shared = {}
  /\ events = 0

(* One step of InitializeISR, while it is not interrupted. *)
Initialize ==
  /\ cpu = "running" /\ contexts = <<>> /\ installed < Len(InitializeISR)
  /\ installed' = installed + 1
  /\ UNCHANGED <<interrupts, osxsave, cpu, contexts, stacks, nmiBlocked, machineCheck,
                 reported, shared, events>>

------------------------------------------------------------------------------
(* Delivery. *)

(* Who raises what: the kernel's code any exception, a handler's code some *)
(* of them, devices and the hardware the rest.                             *)
Raisable(v) ==
  \/ v = NMI /\ ~nmiBlocked
  \/ v = MC
  \/ v >= 32 /\ CurrentIF
  \/ /\ v < 32 /\ v \notin {NMI, MC}
     /\ IF contexts = <<>> THEN Did("lidt") ELSE v \in HandlerFaults /\ Top.step = "saved"

Event == cpu = "running" /\ events < MaxEvents /\ events' = events + 1

Crash(how) ==
  /\ cpu' = how
  /\ UNCHANGED <<setup, contexts, stacks, nmiBlocked, machineCheck,
                 reported, shared>>

(***************************************************************************)
(* With the new GDT and the firmware's IDT, a gate's selector may be none  *)
(* of the GDT's: a protection fault on the way to the handler of a         *)
(* protection fault.  (Before lgdt the firmware is in charge.)             *)
(***************************************************************************)
TablesMixed ==
  /\ Did("lgdt") /\ ~Did("lidt")
  /\ \E v \in Vectors : Raisable(v) /\ (v >= 32 \/ v \in {NMI, MC})
  /\ Event /\ Crash("lostTables")

SecondMachineCheck ==
  /\ Did("lidt") /\ machineCheck /\ MC \in Vectors
  /\ Event /\ Crash("secondMachineCheck")

(* A halt is over for the handler that is interrupted in it. *)
Interrupted ==
  IF contexts # <<>> /\ Top.step = "halted"
    THEN [contexts EXCEPT ![Depth].step = "woken"] ELSE contexts

(* The processor switches stacks, pushes and goes through gate v. *)
Enter(v, stack, sp) ==
  /\ stacks' = Push(stack, sp, CpuWords(v), Depth + 1)
  /\ contexts' = Append(Interrupted,
       [vector |-> v, stack |-> stack, sp |-> sp + Len(CpuWords(v)), switched |-> IST(v) # 0,
        enabled |-> CurrentIF /\ ~ClearsIF(v), step |-> "entered"])

SharedWith(v, stack) ==
  {<<contexts[k].vector, v>> :
      k \in {j \in 1 .. Depth : contexts[j].stack = stack /\ contexts[j].switched}}

(***************************************************************************)
(* A vector is delivered.  When its stack is the address 0 the processor   *)
(* cannot push, and delivers a page fault on the current stack instead.    *)
(***************************************************************************)
Dispatch(v) ==
  /\ nmiBlocked' = (nmiBlocked \/ v = NMI)
  /\ machineCheck' = (machineCheck \/ v = MC)
  /\ IF IST(v) = 0
       THEN Enter(v, CurrentStack, CurrentSP) /\ UNCHANGED shared
       ELSE LET stack == StackOfIST(IST(v)) IN
            IF stack = "none"
              THEN Enter(PF, CurrentStack, CurrentSP) /\ UNCHANGED shared
              ELSE Enter(v, stack, 0) /\ shared' = shared \cup SharedWith(v, stack)
  /\ UNCHANGED <<setup, cpu, reported>>

(* It needs its gate, and the stacks in a TSS that has been loaded. *)
HasGate == Did("gates") /\ Did("stacks") /\ Did("ltr")

Deliver(v) ==
  /\ Did("lidt")
  /\ Depth < MaxDepth /\ Raisable(v)
  /\ v = MC => ~machineCheck
  /\ Event
  /\ IF HasGate THEN Dispatch(v) ELSE Crash("badGate")

------------------------------------------------------------------------------
(* The handlers. *)

HandlerAt(step) == cpu = "running" /\ contexts # <<>> /\ Top.step = step

Goes(step) == contexts' = [contexts EXCEPT ![Depth].step = step]

(* The macro's part before the call. *)
Save ==
  /\ HandlerAt("entered")
  /\ stacks' = Push(CurrentStack, CurrentSP, PusherWords(Top.vector), Depth)
  /\ contexts' = [contexts EXCEPT ![Depth].step = "saved",
                                  ![Depth].sp = @ + Len(PusherWords(Top.vector))]
  /\ UNCHANGED <<setup, cpu, nmiBlocked, machineCheck, reported, shared, events>>

(* User_ISR_handler saves the extended state before anything else. *)
CanXsave == Top.vector >= 32 => osxsave

XsaveFaults ==
  /\ HandlerAt("saved") /\ ~CanXsave
  /\ Depth < MaxDepth
  /\ Dispatch(UD)
  /\ UNCHANGED events

(* Slip: nothing is shown. *)
AbortSilently ==
  /\ HandlerAt("saved") /\ CanXsave
  /\ Goes("printed")
  /\ UNCHANGED <<setup, cpu, stacks, nmiBlocked, machineCheck, reported,
                 shared, events>>

(* The handler calls Abort, which shows the error code ... *)
AbortPrints ==
  /\ HandlerAt("saved") /\ CanXsave
  /\ Goes("printed")
  /\ reported' = reported \cup {<<Depth, ErrorCode(Top.vector)>>}
  /\ UNCHANGED <<setup, cpu, stacks, nmiBlocked, machineCheck, shared, events>>

(* ... and halts, once. *)
AbortHalts ==
  /\ HandlerAt("printed")
  /\ Goes("halted")
  /\ UNCHANGED <<setup, cpu, stacks, nmiBlocked, machineCheck, reported,
                 shared, events>>

(* The end of a halt without a handler: a system management interrupt. *)
Wake ==
  /\ HandlerAt("halted")
  /\ Event
  /\ Goes("woken")
  /\ UNCHANGED <<setup, cpu, stacks, nmiBlocked, machineCheck, reported, shared>>

(* What lies where the words to be popped should be. *)
Popped(pops) == [k \in 1 .. Len(pops) |-> stacks[Top.stack][Top.sp - k + 1]]
Own(pops) == [k \in 1 .. Len(pops) |-> [what |-> pops[k], owner |-> Depth]]

(***************************************************************************)
(* Abort returns, the macro restores the registers and iretq goes back to  *)
(* where the vector struck; with the wrong words on the stack it goes      *)
(* anywhere.                                                               *)
(***************************************************************************)
Return ==
  /\ HandlerAt("woken")
  /\ IF Popped(Pops(Top.vector)) = Own(Pops(Top.vector))
       THEN /\ contexts' = SubSeq(contexts, 1, Depth - 1)
            /\ nmiBlocked' = FALSE
            /\ reported' = {r \in reported : r[1] # Depth}
            /\ UNCHANGED cpu
       ELSE /\ cpu' = "astray"
            /\ UNCHANGED <<contexts, nmiBlocked, reported>>
  /\ UNCHANGED <<setup, stacks, machineCheck, shared, events>>

HandlerStep == Save \/ XsaveFaults \/ AbortPrints \/ AbortHalts \/ Return

(* The kernel's loop, a halt, or no control any more. *)
Finished ==
  /\ \/ cpu # "running"
     \/ HandlerAt("halted")
     \/ contexts = <<>> /\ installed = Len(InitializeISR)
  /\ UNCHANGED vars

Next ==
  \/ Initialize
  \/ TablesMixed \/ SecondMachineCheck
  \/ \E v \in Vectors : Deliver(v)
  \/ HandlerStep \/ Wake
  \/ Finished

Spec == Init /\ [][Next]_vars

(* A processor that is not halted executes the handler it is in. *)
FairSpec == Spec /\ WF_vars(HandlerStep)

------------------------------------------------------------------------------
Words == [what : {"frame", "error", "number", "registers", "junk"}, owner : 0 .. MaxDepth]
Contexts == [vector : Vectors \cup {UD, PF}, stack : Stacks, sp : 1 .. Room,
             switched : BOOLEAN, enabled : BOOLEAN,
             step : {"entered", "saved", "printed", "halted", "woken"}]

TypeOK ==
  /\ installed \in 0 .. Len(InitializeISR)
  /\ interrupts \in BOOLEAN /\ osxsave \in BOOLEAN
  /\ cpu \in {"running", "lostTables", "secondMachineCheck", "badGate", "astray"}
  /\ contexts \in Seq(Contexts) /\ Len(contexts) <= MaxDepth
  /\ stacks \in [Stacks -> [1 .. Room -> Words]]
  /\ nmiBlocked \in BOOLEAN /\ machineCheck \in BOOLEAN
  /\ reported \subseteq (1 .. MaxDepth) \X (Vectors \cup {UD, PF, AllOnes})
  /\ shared \subseteq (Vectors \cup {UD, PF}) \X Vectors
  /\ events \in 0 .. MaxEvents

(***************************************************************************)
(* From lidt on every vector finds a gate in a table that is there (it is  *)
(* between lgdt and lidt that tables are lost), and however handlers nest, *)
(* each goes back to what it interrupted with the registers it had, unless *)
(* two of them started on the same stack: what the processor pushes and    *)
(* what the macros push and pop agree for every vector, with and without   *)
(* an error code.  (Of a non-maskable interrupt it is the page fault's     *)
(* handler that does: see NMIOnItsStack.)                                  *)
(***************************************************************************)
ReturnsToInterrupted == cpu \in {"astray", "badGate"} => shared # {}

(***************************************************************************)
(* Vectors with a stack of their own do not start on one that is in use,   *)
(* except the two that were given the same: double fault and machine check.*)
(***************************************************************************)
OwnStacks == \A pair \in shared : pair[1] \in {DF, MC} /\ pair[2] \in {DF, MC}

(***************************************************************************)
(* "For vectors 32-255, which can't preempt each other due to interrupt    *)
(* gating" (ISR.c:26): the one area they save the processor's state to is  *)
(* never in use twice, whatever comes between two of them.                 *)
(***************************************************************************)
UserHandlersAlone ==
  \A j, k \in 1 .. Depth :
    (contexts[j].vector >= 32 /\ contexts[k].vector >= 32) => j = k

(***************************************************************************)
(* A handler does not end in silence: before the processor stops, or goes  *)
(* back to what it was at, the handler has shown an error code, or one     *)
(* that struck it meanwhile has shown its own.  The exception is a second  *)
(* machine check, which shuts the processor down before any code of ours;  *)
(* and a non-maskable interrupt, which does not reach its handler, is      *)
(* reported as the page fault it causes.                                   *)
(***************************************************************************)
Reported(d) == \E r \in reported : r[1] >= d

NeverSilent ==
  \A d \in 1 .. MaxDepth :
    (Depth = d /\ ~Reported(d)) ~> (Reported(d) \/ cpu = "secondMachineCheck")

------------------------------------------------------------------------------
(* What comments of the code claim and the code does not do. *)

(***************************************************************************)
(* "TSS struct is 104 bytes" (system.c:31), so that IST1, which            *)
(* InitializeISR sets to NMI_stack, is IST 1: an NMI starts there.         *)
(***************************************************************************)
NMIOnItsStack ==
  [][nmiBlocked' /\ ~nmiBlocked => contexts'[Len(contexts')].stack = "NMI_stack"]_vars

==============================================================================
