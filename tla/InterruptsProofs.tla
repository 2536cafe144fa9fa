--------------------------- MODULE InterruptsProofs ---------------------------
(***************************************************************************)
(* Handlers that interrupt one another, at any depth and with any vectors  *)
(* that may be raised: each finds its words where it left them, unless two *)
(* of them have started on one stack, which only a double fault and a      *)
(* machine check can do.                                                   *)
(***************************************************************************)
EXTENDS Interrupts, SequenceTheorems, TLAPS

(* What a handler has on its stack while it is interrupted, from the last  *)
(* word pushed to the first.                                               *)
Resting(c) ==
  IF c.step = "entered"
    THEN IF HasErrorCode(c.vector) THEN <<"error", "frame">> ELSE <<"frame">>
    ELSE Pops(c.vector)
Height(c) == Len(Resting(c))

(* A handler takes four words at most, two of them once it has been        *)
(* entered, and an interrupt gate lets no maskable one in.                 *)
InBounds(k) ==
  /\ Height(contexts[k]) <= contexts[k].sp
  /\ contexts[k].sp <= 4 * k
  /\ contexts[k].step = "entered" => contexts[k].sp <= 4 * k - 2
  /\ ~contexts[k].enabled

(* Who may have started: on a stack of its own, or where the one it has    *)
(* interrupted is, so that each stack in use was somebody's start.         *)
Started(k) ==
  /\ contexts[k].vector >= 32 \/ contexts[k].vector = BP => k = 1
  /\ contexts[k].switched =>
       \/ contexts[k].vector \in {DF, MC} /\ contexts[k].stack = "DF_stack"
       \/ contexts[k].vector = BP /\ contexts[k].stack = "MC_stack"
  /\ contexts[k].stack # "kernel_stack" =>
       \E j \in 1 .. k : contexts[j].switched /\ contexts[j].stack = contexts[k].stack

(* Of two handlers on one stack the later one's words are further down.    *)
Apart(j, k) ==
  contexts[j].stack = contexts[k].stack =>
    contexts[j].sp + Height(contexts[k]) <= contexts[k].sp

Intact(k) ==
  \A i \in 1 .. Height(contexts[k]) :
    stacks[contexts[k].stack][contexts[k].sp - i + 1] =
      [what |-> Resting(contexts[k])[i], owner |-> k]

IInv ==
  /\ TypeOK
  /\ \A k \in 1 .. Depth : InBounds(k) /\ Started(k)
  /\ shared = {} => /\ \A k \in 1 .. Depth : Intact(k)
                    /\ \A k \in 1 .. Depth : \A j \in 1 .. k - 1 : Apart(j, k)
  /\ OwnStacks
  /\ cpu # "badGate"
  /\ cpu = "astray" => shared # {}

------------------------------------------------------------------------------
(* What the processor pushes, what the macros push, and what they take off. *)

LEMMA WordsAgree ==
  ASSUME NEW v
  PROVE  /\ Len(CpuWords(v)) \in 1 .. 2 /\ Len(PusherWords(v)) = 2
         /\ CpuWords(v) = IF HasErrorCode(v) THEN <<"frame", "error">> ELSE <<"frame">>
         /\ PusherWords(v) = IF HasErrorCode(v) THEN <<"number", "registers">>
                                                ELSE <<"registers", "number">>
         /\ Pops(v) = IF HasErrorCode(v) THEN <<"registers", "number", "error", "frame">>
                                         ELSE <<"number", "registers", "frame">>
  BY DEF CpuWords, PusherWords, Pops, HasErrorCode, IsEXC

(* The words of a handler are those pushed, in reverse.                     *)
LEMMA RestingWords ==
  ASSUME NEW c
  PROVE  /\ Height(c) \in 1 .. 4
         /\ c.step = "entered" =>
              /\ Height(c) = Len(CpuWords(c.vector))
              /\ \A i \in 1 .. Height(c) : Resting(c)[i] = CpuWords(c.vector)[Height(c) - i + 1]
         /\ c.step # "entered" =>
              /\ Height(c) = Len(CpuWords(c.vector)) + 2
              /\ \A i \in 1 .. 2 : Resting(c)[i] = PusherWords(c.vector)[3 - i]
              /\ \A i \in 3 .. Height(c) : Resting(c)[i] = CpuWords(c.vector)[Height(c) - i + 1]
<1> DEFINE cw == CpuWords(c.vector)
           pw == PusherWords(c.vector)
<1>1. CASE c.step = "entered" /\ HasErrorCode(c.vector)
  <2>1. cw = <<"frame", "error">> /\ Resting(c) = <<"error", "frame">>
    BY <1>1, WordsAgree DEF Resting
  <2> QED
    BY <1>1, <2>1 DEF Height
<1>2. CASE c.step = "entered" /\ ~HasErrorCode(c.vector)
  <2>1. cw = <<"frame">> /\ Resting(c) = <<"frame">>
    BY <1>2, WordsAgree DEF Resting
  <2> QED
    BY <1>2, <2>1 DEF Height
<1>3. CASE c.step # "entered" /\ HasErrorCode(c.vector)
  <2>1. cw = <<"frame", "error">> /\ pw = <<"number", "registers">>
          /\ Resting(c) = <<"registers", "number", "error", "frame">>
    BY <1>3, WordsAgree DEF Resting
  <2> QED
    BY <1>3, <2>1 DEF Height
<1>4. CASE c.step # "entered" /\ ~HasErrorCode(c.vector)
  <2>1. cw = <<"frame">> /\ pw = <<"registers", "number">>
          /\ Resting(c) = <<"number", "registers", "frame">>
    BY <1>4, WordsAgree DEF Resting
  <2> QED
    BY <1>4, <2>1 DEF Height
<1> QED
  BY <1>1, <1>2, <1>3, <1>4

(* Only the words pushed are new on the stack.                              *)
LEMMA PushedWords ==
  ASSUME IInv, NEW stack \in Stacks, NEW sp \in Nat, NEW words, NEW owner,
         Len(words) \in Nat, sp + Len(words) <= Room,
         stacks' = Push(stack, sp, words, owner)
  PROVE  /\ \A i \in 1 .. Len(words) :
              stacks'[stack][sp + i] = [what |-> words[i], owner |-> owner]
         /\ \A s \in Stacks : \A k \in 1 .. Room :
              (s # stack \/ k \notin sp + 1 .. sp + Len(words)) => stacks'[s][k] = stacks[s][k]
<1>0. Room \in Nat /\ stacks \in [Stacks -> [1 .. Room -> Words]]
  BY InterruptsAssumption DEF IInv, TypeOK, Room
<1>1. stacks' = [stacks EXCEPT ![stack] =
        [k \in 1 .. Room |-> IF k \in sp + 1 .. sp + Len(words)
                               THEN [what |-> words[k - sp], owner |-> owner]
                               ELSE stacks[stack][k]]]
  BY DEF Push
<1>2. stacks'[stack] = [k \in 1 .. Room |-> IF k \in sp + 1 .. sp + Len(words)
                               THEN [what |-> words[k - sp], owner |-> owner]
                               ELSE stacks[stack][k]]
      /\ \A s \in Stacks : s # stack => stacks'[s] = stacks[s]
  BY <1>0, <1>1
<1>3. ASSUME NEW i \in 1 .. Len(words)
      PROVE  stacks'[stack][sp + i] = [what |-> words[i], owner |-> owner]
  <2>1. sp + i \in 1 .. Room /\ sp + i \in sp + 1 .. sp + Len(words) /\ (sp + i) - sp = i
    BY <1>0
  <2> QED
    BY <1>2, <2>1
<1>4. ASSUME NEW s \in Stacks, NEW k \in 1 .. Room,
             s # stack \/ k \notin sp + 1 .. sp + Len(words)
      PROVE  stacks'[s][k] = stacks[s][k]
  BY <1>2, <1>4
<1>5. \A i \in 1 .. Len(words) :
        stacks'[stack][sp + i] = [what |-> words[i], owner |-> owner]
  BY <1>3, Zenon
<1>6. \A s \in Stacks : \A k \in 1 .. Room :
        (s # stack \/ k \notin sp + 1 .. sp + Len(words)) => stacks'[s][k] = stacks[s][k]
  BY <1>4, Zenon
<1> QED
  BY <1>5, <1>6, Zenon

LEMMA PushedType ==
  ASSUME IInv, NEW stack \in Stacks, NEW sp \in Nat, NEW words, NEW owner \in 0 .. MaxDepth,
         Len(words) \in Nat, 
         \A i \in 1 .. Len(words) : words[i] \in {"frame", "error", "number", "registers"},
         stacks' = Push(stack, sp, words, owner)
  PROVE  stacks' \in [Stacks -> [1 .. Room -> Words]]
<1>0. Room \in Nat /\ stacks \in [Stacks -> [1 .. Room -> Words]]
  BY InterruptsAssumption DEF IInv, TypeOK, Room
<1>1. ASSUME NEW k \in 1 .. Room, k \in sp + 1 .. sp + Len(words)
      PROVE  [what |-> words[k - sp], owner |-> owner] \in Words
  <2>1. k - sp \in 1 .. Len(words)
    BY <1>0, <1>1
  <2> QED
    BY <2>1 DEF Words
<1>2. [k \in 1 .. Room |-> IF k \in sp + 1 .. sp + Len(words)
                             THEN [what |-> words[k - sp], owner |-> owner]
                             ELSE stacks[stack][k]] \in [1 .. Room -> Words]
  BY <1>0, <1>1
<1> QED
  BY <1>0, <1>2 DEF Push

------------------------------------------------------------------------------
(* The handlers that only go on by a step keep what they have pushed.       *)
SameWords(c, d) ==
  /\ d.vector = c.vector /\ d.stack = c.stack /\ d.sp = c.sp
  /\ d.switched = c.switched /\ d.enabled = c.enabled
  /\ d.step = "entered" <=> c.step = "entered"

LEMMA SameWordsRest ==
  ASSUME NEW c, NEW d, SameWords(c, d)
  PROVE  Resting(d) = Resting(c) /\ Height(d) = Height(c)
  BY DEF SameWords, Resting, Height

LEMMA OldKept ==
  ASSUME IInv, Depth' \in Nat, Depth' >= Depth,
         \A k \in 1 .. Depth : SameWords(contexts[k], contexts'[k])
  PROVE  /\ \A k \in 1 .. Depth : InBounds(k)' /\ Started(k)'
         /\ \A k \in 1 .. Depth : \A j \in 1 .. k - 1 : Apart(j, k) => Apart(j, k)'
         /\ \A k \in 1 .. Depth : Intact(k) /\ UNCHANGED stacks => Intact(k)'
<1>0. Depth \in Nat
  BY DEF IInv, TypeOK, Depth
<1>1. \A k \in 1 .. Depth : Resting(contexts[k])' = Resting(contexts[k])
                             /\ Height(contexts[k])' = Height(contexts[k])
  BY SameWordsRest DEF Resting, Height
<1>2. ASSUME NEW k \in 1 .. Depth PROVE InBounds(k)'
  BY <1>1 DEF IInv, InBounds, SameWords
<1>3. ASSUME NEW k \in 1 .. Depth PROVE Started(k)'
  <2>1. Started(k)
    BY DEF IInv
  <2>2. \A j \in 1 .. k : j \in 1 .. Depth
    BY <1>0
  <2> QED
    BY <2>1, <2>2 DEF Started, SameWords
<1>4. ASSUME NEW k \in 1 .. Depth, NEW j \in 1 .. k - 1, Apart(j, k) PROVE Apart(j, k)'
  <2>1. j \in 1 .. Depth
    BY <1>0
  <2> QED
    BY <1>1, <1>4, <2>1 DEF Apart, SameWords
<1>5. ASSUME NEW k \in 1 .. Depth, Intact(k), UNCHANGED stacks PROVE Intact(k)'
  BY <1>1, <1>5 DEF Intact, SameWords
<1> QED
  BY <1>2, <1>3, <1>4, <1>5

(* What is pushed above the handlers' words leaves them intact.             *)
LEMMA PushKeepsIntact ==
  ASSUME IInv, NEW stack \in Stacks, NEW sp \in Nat, NEW words, NEW owner,
         Len(words) \in Nat, sp + Len(words) <= Room,
         stacks' = Push(stack, sp, words, owner),
         NEW k \in 1 .. Depth, Intact(k),
         contexts[k].stack = stack => contexts[k].sp <= sp
  PROVE  \A i \in 1 .. Height(contexts[k]) :
           stacks'[contexts[k].stack][contexts[k].sp - i + 1] =
             [what |-> Resting(contexts[k])[i], owner |-> k]
<1> SUFFICES ASSUME NEW i \in 1 .. Height(contexts[k])
             PROVE  stacks'[contexts[k].stack][contexts[k].sp - i + 1] =
                      [what |-> Resting(contexts[k])[i], owner |-> k]
  OBVIOUS
<1>1. contexts[k] \in Contexts /\ Height(contexts[k]) <= contexts[k].sp
  BY DEF IInv, TypeOK, Depth, InBounds
<1>2. contexts[k].stack \in Stacks /\ contexts[k].sp \in 1 .. Room
        /\ Room \in Nat /\ Height(contexts[k]) \in 1 .. 4
  BY <1>1, RestingWords, InterruptsAssumption DEF Contexts, Room
<1>p. PICK top, h : top = contexts[k].sp /\ h = Height(contexts[k])
  OBVIOUS
<1>n. top \in 1 .. Room /\ Room \in Nat /\ h \in 1 .. 4 /\ h <= top /\ i \in 1 .. h
  BY <1>1, <1>2, <1>p
<1>3. contexts[k].sp - i + 1 \in 1 .. Room
  <2>1. top - i + 1 \in 1 .. Room
    BY ONLY <1>n
  <2> QED BY <2>1, <1>p
<1>4. contexts[k].stack # stack \/ contexts[k].sp - i + 1 \notin sp + 1 .. sp + Len(words)
  <2>1. top <= sp => top - i + 1 \notin sp + 1 .. sp + Len(words)
    BY ONLY <1>n, sp \in Nat, Len(words) \in Nat
  <2> QED BY <2>1, <1>p
<1>5. stacks'[contexts[k].stack][contexts[k].sp - i + 1] =
        stacks[contexts[k].stack][contexts[k].sp - i + 1]
  <2>1. \A s \in Stacks : \A p \in 1 .. Room :
          (s # stack \/ p \notin sp + 1 .. sp + Len(words)) => stacks'[s][p] = stacks[s][p]
    BY PushedWords
  <2> QED
    BY <1>2, <1>3, <1>4, <2>1
<1> QED
  BY <1>5 DEF Intact

HandlersOK ==
  /\ contexts \in Seq(Contexts) /\ Len(contexts) <= MaxDepth
  /\ stacks \in [Stacks -> [1 .. Room -> Words]]
  /\ shared \subseteq (Vectors \cup {UD, PF}) \X Vectors
  /\ \A k \in 1 .. Depth : InBounds(k) /\ Started(k)
  /\ shared = {} => /\ \A k \in 1 .. Depth : Intact(k)
                    /\ \A k \in 1 .. Depth : \A j \in 1 .. k - 1 : Apart(j, k)
  /\ OwnStacks

(* Where a handler may start: below everything that is on its stack.        *)
StartsAt(v, stack, sp) ==
  \/ /\ IST(v) = 0 /\ stack = CurrentStack /\ sp = CurrentSP
     /\ shared' = shared
  \/ /\ IST(v) # 0 /\ stack = StackOfIST(IST(v)) /\ sp = 0
     /\ v \in Vectors /\ shared' = shared \cup SharedWith(v, stack)

LEMMA StacksOfGates ==
  ASSUME NEW v \in Vectors \cup {UD, PF}, IST(v) # 0, StackOfIST(IST(v)) \in Stacks
  PROVE  \/ v \in {DF, MC} /\ StackOfIST(IST(v)) = "DF_stack"
         \/ v = BP /\ StackOfIST(IST(v)) = "MC_stack"
<1>1. CASE v = NMI
  <2>1. StackOfIST(IST(v)) = "none"
    BY <1>1 DEF IST, StackOfIST, tss64
  <2> QED
    BY <2>1 DEF Stacks
<1>2. CASE v = BP
  BY <1>2 DEF IST, NMI, BP, StackOfIST, tss64
<1>3. CASE v \in {DF, MC}
  BY <1>3 DEF IST, NMI, BP, DF, MC, StackOfIST, tss64
<1> QED
  BY <1>1, <1>2, <1>3 DEF IST

LEMMA StartIsFree ==
  ASSUME IInv, NEW v \in Vectors \cup {UD, PF}, NEW stack \in Stacks, NEW sp \in Nat,
         StartsAt(v, stack, sp)
  PROVE  /\ sp <= 4 * Depth
         /\ shared' = {} => /\ shared = {}
                            /\ \A j \in 1 .. Depth :
                                 contexts[j].stack = stack => contexts[j].sp <= sp
<1>0. Depth \in Nat /\ \A k \in 1 .. Depth : contexts[k] \in Contexts
  BY DEF IInv, TypeOK, Depth
<1>1. CASE IST(v) = 0
  <2>1. stack = CurrentStack /\ sp = CurrentSP /\ shared' = shared
    BY <1>1 DEF StartsAt
  <2>2. CASE contexts = <<>>
    BY <2>1, <2>2 DEF CurrentSP, Depth
  <2>3. CASE contexts # <<>>
    <3>1. Depth \in 1 .. Depth /\ stack = contexts[Depth].stack /\ sp = contexts[Depth].sp
      BY <2>1, <2>3 DEF CurrentStack, CurrentSP, Top, Depth, IInv, TypeOK
    <3>2. contexts[Depth].sp <= 4 * Depth
      BY <3>1 DEF IInv, InBounds
    <3>3. ASSUME shared = {}, NEW j \in 1 .. Depth, contexts[j].stack = stack
          PROVE  contexts[j].sp <= sp
      <4>1. j = Depth \/ Apart(j, Depth)
        BY <1>0, <3>1, <3>3 DEF IInv
      <4>2. contexts[j].sp \in Nat /\ sp \in Nat /\ Height(contexts[Depth]) \in 1 .. 4
        BY <1>0, RestingWords, InterruptsAssumption DEF Contexts, Room
      <4> QED
        BY <3>1, <3>3, <4>1, <4>2 DEF Apart
    <3> QED
      BY <2>1, <3>1, <3>2, <3>3
  <2> QED
    BY <2>2, <2>3
<1>2. CASE IST(v) # 0
  <2>1. stack = StackOfIST(IST(v)) /\ sp = 0 /\ shared' = shared \cup SharedWith(v, stack)
    BY <1>2 DEF StartsAt
  <2>2. stack # "kernel_stack"
    BY <1>2, <2>1, StacksOfGates
  <2>3. ASSUME NEW j \in 1 .. Depth, contexts[j].stack = stack PROVE SharedWith(v, stack) # {}
    <3>1. PICK i \in 1 .. j : contexts[i].switched /\ contexts[i].stack = stack
      BY <2>2, <2>3 DEF IInv, Started
    <3>2. i \in 1 .. Depth
      BY <1>0
    <3> QED
      BY <3>1, <3>2 DEF SharedWith
  <2> QED
    BY <1>0, <2>1, <2>3
<1> QED
  BY <1>1, <1>2

------------------------------------------------------------------------------
(* A handler starts. *)

LEMMA Resumes ==
  ASSUME IInv
  PROVE  /\ Interrupted \in Seq(Contexts) /\ Len(Interrupted) = Depth
         /\ \A k \in 1 .. Depth : SameWords(contexts[k], Interrupted[k])
<1>0. Depth \in Nat /\ contexts \in Seq(Contexts)
  BY DEF IInv, TypeOK, Depth
<1>1. CASE contexts # <<>> /\ Top.step = "halted"
  <2>1. Depth \in 1 .. Depth /\ contexts[Depth] \in Contexts /\ contexts[Depth].step = "halted"
    BY <1>0, <1>1 DEF Depth, Top
  <2>2. [contexts[Depth] EXCEPT !.step = "woken"] \in Contexts
    BY <2>1 DEF Contexts
  <2>3. Interrupted = [contexts EXCEPT ![Depth] = [contexts[Depth] EXCEPT !.step = "woken"]]
    BY <1>1 DEF Interrupted
  <2>4. SameWords(contexts[Depth], [contexts[Depth] EXCEPT !.step = "woken"])
    BY <2>1 DEF SameWords, Contexts
  <2>5. \A k \in 1 .. Depth : Interrupted[k] =
          IF k = Depth THEN [contexts[Depth] EXCEPT !.step = "woken"] ELSE contexts[k]
    BY <1>0, <2>3 DEF Depth
  <2>6. Interrupted \in Seq(Contexts) /\ Len(Interrupted) = Depth
    BY <1>0, <2>1, <2>2, <2>3 DEF Depth
  <2> QED
    BY <2>4, <2>5, <2>6 DEF SameWords
<1>2. CASE ~(contexts # <<>> /\ Top.step = "halted")
  BY <1>0, <1>2 DEF Interrupted, Depth, SameWords
<1> QED
  BY <1>1, <1>2

LEMMA EnterKeeps ==
  ASSUME IInv, Depth < MaxDepth,
         NEW v \in Vectors \cup {UD, PF}, NEW stack \in Stacks, NEW sp \in Nat,
         Enter(v, stack, sp), StartsAt(v, stack, sp),
         v >= 32 => CurrentIF, v = BP => contexts = <<>>
  PROVE  HandlersOK'
<1>0. /\ Depth \in Nat /\ MaxDepth \in Nat
      /\ Room = 4 * MaxDepth + 4 /\ Room \in Nat
      /\ \A k \in 1 .. Depth : contexts[k] \in Contexts
  BY InterruptsAssumption DEF IInv, TypeOK, Depth, Room
<1>a. PICK n \in Nat : n = Depth + 1
  BY <1>0
<1>b. PICK c : c = [vector |-> v, stack |-> stack, sp |-> sp + Len(CpuWords(v)),
                    switched |-> IST(v) # 0, enabled |-> CurrentIF /\ ~ClearsIF(v),
                    step |-> "entered"]
  OBVIOUS
<1>1. Len(CpuWords(v)) \in 1 .. 2 /\ sp <= 4 * Depth
  BY WordsAgree, StartIsFree
<1>2. c \in Contexts
  <2>1. \A w \in 1 .. 2 : sp + w <= 4 * Depth + 2 /\ sp + w \in Nat \ {0}
    <3>1. Depth \in Nat
      BY <1>0
    <3> QED
      BY <1>1, <3>1
  <2>2. \A w \in 1 .. 2 : sp + w \in 1 .. Room
    <3>1. Depth \in Nat /\ MaxDepth \in Nat /\ Room = 4 * MaxDepth + 4 /\ Depth + 1 <= MaxDepth
      BY <1>0
    <3> QED
      BY <2>1, <3>1
  <2>3. (CurrentIF /\ ~ClearsIF(v)) = FALSE
    BY DEF ClearsIF
  <2> QED
    BY <1>b, <1>1, <2>2, <2>3 DEF Contexts
<1>3. /\ contexts' \in Seq(Contexts) /\ Depth' = n
      /\ contexts'[n] = c
      /\ \A k \in 1 .. Depth : SameWords(contexts[k], contexts'[k])
  <2>1. contexts' = Append(Interrupted, c)
    BY <1>b DEF Enter
  <2>2. Len(contexts') = n /\ contexts'[n] = c
          /\ contexts' \in Seq(Contexts)
          /\ \A k \in 1 .. Depth : contexts'[k] = Interrupted[k]
    BY <1>0, <1>a, <1>2, <2>1, Resumes
  <2> QED
    BY <2>2, Resumes DEF Depth
<1>4. /\ \A k \in 1 .. Depth : InBounds(k)' /\ Started(k)'
      /\ \A k \in 1 .. Depth : \A j \in 1 .. k - 1 : Apart(j, k) => Apart(j, k)'
  BY <1>0, <1>3, <1>a, OldKept
<1>5. stacks' = Push(stack, sp, CpuWords(v), n)
  BY <1>a DEF Enter
<1>6. c.vector = v /\ c.stack = stack /\ c.sp = sp + Len(CpuWords(v))
        /\ c.switched = (IST(v) # 0) /\ c.enabled = (CurrentIF /\ ~ClearsIF(v))
        /\ c.step = "entered" /\ Height(c) = Len(CpuWords(v))
        /\ \A i \in 1 .. Height(c) : Resting(c)[i] = CpuWords(v)[Height(c) - i + 1]
  BY <1>b, RestingWords
<1>7. InBounds(n)'
  <2>1. Height(c) <= c.sp /\ c.sp <= 4 * n - 2 /\ c.sp <= 4 * n
    BY <1>0, <1>1, <1>6, <1>a
  <2>2. ~c.enabled
    BY <1>6 DEF ClearsIF
  <2> QED
    BY <1>3, <2>1, <2>2 DEF InBounds, Height, Resting
<1>8. Started(n)'
  <2>1. v >= 32 \/ v = BP => n = 1
    <3>1. CurrentIF => contexts = <<>>
      BY <1>0 DEF CurrentIF, IInv, InBounds, Top, TypeOK, Depth
    <3> QED
      BY <1>0, <1>a, <3>1 DEF Depth
  <2>2. IST(v) # 0 => /\ stack = StackOfIST(IST(v))
                      /\ \/ v \in {DF, MC} /\ stack = "DF_stack"
                         \/ v = BP /\ stack = "MC_stack"
    BY StacksOfGates DEF StartsAt
  <2>3. ASSUME stack # "kernel_stack"
        PROVE  \E j \in 1 .. n : contexts'[j].switched /\ contexts'[j].stack = stack
    <3>1. CASE IST(v) # 0
      <4>1. n \in 1 .. n
        BY <1>0, <1>a
      <4>2. contexts'[n].switched /\ contexts'[n].stack = stack
        BY <1>3, <1>6, <3>1
      <4> QED
        BY <4>1, <4>2
    <3>2. CASE IST(v) = 0
      <4>1. stack = contexts[Depth].stack /\ Depth \in 1 .. Depth
        BY <1>0, <2>3, <3>2 DEF StartsAt, CurrentStack, Top, Depth, IInv, TypeOK
      <4>2. PICK j \in 1 .. Depth : contexts[j].switched /\ contexts[j].stack = stack
        BY <2>3, <4>1 DEF IInv, Started
      <4>3. j \in 1 .. n
        BY <1>0, <1>a
      <4>4. contexts'[j].switched = contexts[j].switched /\ contexts'[j].stack = stack
        BY <1>3, <4>2 DEF SameWords
      <4>5. contexts'[j].switched
        BY <4>2, <4>4
      <4> QED
        BY <4>3, <4>4, <4>5
    <3> QED
      BY <3>1, <3>2
  <2> QED
    BY <1>3, <1>6, <2>1, <2>2, <2>3 DEF Started
<1>9. ASSUME shared' = {}
      PROVE  /\ \A k \in 1 .. n : Intact(k)'
             /\ \A k \in 1 .. n : \A j \in 1 .. k - 1 : Apart(j, k)'
  <2>1. shared = {} /\ \A j \in 1 .. Depth : contexts[j].stack = stack => contexts[j].sp <= sp
    BY <1>9, StartIsFree
  <2>2. \A j \in 1 .. Depth : Apart(j, n)'
    <3> SUFFICES ASSUME NEW j \in 1 .. Depth, contexts[j].stack = stack
                 PROVE  contexts[j].sp + Height(c) <= c.sp
      BY <1>3, <1>6 DEF Apart, SameWords, Height, Resting
    <3>1. contexts[j].sp \in Nat
      BY <1>0 DEF Contexts
    <3> QED
      BY <1>0, <1>1, <1>6, <2>1, <3>1
  <2>3. sp + Len(CpuWords(v)) <= Room
    BY <1>2, <1>6 DEF Contexts
  <2>4. ASSUME NEW k \in 1 .. Depth PROVE Intact(k)'
    <3>1. Intact(k)
      BY <2>1 DEF IInv
    <3>2. \A i \in 1 .. Height(contexts[k]) :
            stacks'[contexts[k].stack][contexts[k].sp - i + 1] =
              [what |-> Resting(contexts[k])[i], owner |-> k]
      BY <1>1, <1>5, <2>1, <2>3, <3>1, PushKeepsIntact
    <3>3. SameWords(contexts[k], contexts'[k])
      BY <1>3
    <3>4. Resting(contexts'[k]) = Resting(contexts[k])
            /\ Height(contexts'[k]) = Height(contexts[k])
      BY <3>3, SameWordsRest
    <3> QED
      BY <3>2, <3>3, <3>4 DEF Intact, SameWords, Resting, Height
  <2>5. Intact(n)'
    <3>1. \A i \in 1 .. Len(CpuWords(v)) :
            stacks'[stack][sp + i] = [what |-> CpuWords(v)[i], owner |-> n]
      BY <1>1, <1>5, <2>3, PushedWords
    <3>2. ASSUME NEW i \in 1 .. Height(c)
          PROVE  stacks'[c.stack][c.sp - i + 1] = [what |-> Resting(c)[i], owner |-> n]
      <4>1. c.sp - i + 1 = sp + (Height(c) - i + 1)
              /\ Height(c) - i + 1 \in 1 .. Len(CpuWords(v))
        BY <1>0, <1>1, <1>6
      <4> QED
        BY <1>6, <3>1, <4>1
    <3> QED
      BY <1>3, <3>2 DEF Intact, Height, Resting
  <2>6. \A k \in 1 .. Depth : \A j \in 1 .. k - 1 : Apart(j, k)'
    BY <1>4, <2>1 DEF IInv
  <2> QED
    BY <1>0, <1>a, <2>2, <2>4, <2>5, <2>6
<1>10. OwnStacks' /\ shared' \subseteq (Vectors \cup {UD, PF}) \X Vectors
  <2>1. CASE IST(v) = 0
    BY <2>1 DEF StartsAt, IInv, OwnStacks, TypeOK
  <2>2. CASE IST(v) # 0
    <3>1. v \in Vectors /\ stack = StackOfIST(IST(v)) /\ shared' = shared \cup SharedWith(v, stack)
      BY <2>2 DEF StartsAt
    <3>2. ASSUME NEW k \in 1 .. Depth, contexts[k].stack = stack, contexts[k].switched
          PROVE  contexts[k].vector \in {DF, MC} /\ v \in {DF, MC}
                   /\ contexts[k].vector \in Vectors \cup {UD, PF}
      <4>1. contexts # <<>>
        BY <3>2 DEF Depth
      <4>2. v \in {DF, MC} /\ stack = "DF_stack"
        BY <2>2, <3>1, <4>1, StacksOfGates
      <4> QED
        BY <1>0, <3>2, <4>2 DEF IInv, Started, Contexts
    <3> QED
      BY <3>1, <3>2 DEF SharedWith, IInv, OwnStacks, TypeOK
  <2> QED
    BY <2>1, <2>2
<1>11. stacks' \in [Stacks -> [1 .. Room -> Words]]
  <2>1. \A i \in 1 .. Len(CpuWords(v)) : CpuWords(v)[i] \in {"frame", "error", "number", "registers"}
    BY WordsAgree
  <2>2. n \in 0 .. MaxDepth
    BY <1>0, <1>a
  <2> QED
    BY <1>1, <1>5, <2>1, <2>2, PushedType
<1>12. Len(contexts') <= MaxDepth /\ \A k \in 1 .. Depth' : k \in 1 .. Depth \/ k = n
  BY <1>0, <1>3, <1>a DEF Depth
<1> QED
  BY <1>3, <1>4, <1>7, <1>8, <1>9, <1>10, <1>11, <1>12 DEF HandlersOK

------------------------------------------------------------------------------
(* The handlers' own steps. *)

LEMMA SaveKeeps == ASSUME IInv, Save PROVE HandlersOK'
<1>0. /\ Depth \in Nat /\ MaxDepth \in Nat /\ Depth <= MaxDepth
      /\ Room = 4 * MaxDepth + 4 /\ Room \in Nat
      /\ \A k \in 1 .. Depth : contexts[k] \in Contexts
      /\ contexts \in Seq(Contexts)
  BY InterruptsAssumption DEF IInv, TypeOK, Depth, Room
<1>a. PICK n \in Nat : n = Depth /\ n \in 1 .. Depth
  BY <1>0 DEF Save, HandlerAt, Depth
<1>b. PICK old \in Contexts : old = contexts[n]
  BY <1>0, <1>a
<1>c. PICK c : c = [old EXCEPT !.step = "saved", !.sp = @ + 2]
  OBVIOUS
<1>1. /\ old.step = "entered"
      /\ stacks' = Push(old.stack, old.sp, PusherWords(old.vector), n)
      /\ contexts' = [contexts EXCEPT ![n] = c]
      /\ shared' = shared
  BY <1>0, <1>a, <1>b, <1>c, WordsAgree
     DEF Save, HandlerAt, CurrentStack, CurrentSP, Top, Depth
<1>2. /\ c.vector = old.vector /\ c.stack = old.stack /\ c.sp = old.sp + 2
      /\ c.switched = old.switched /\ c.enabled = old.enabled /\ c.step = "saved"
  BY <1>c DEF Contexts
<1>3. InBounds(n) /\ Started(n) /\ old.sp \in Nat /\ old.sp <= 4 * n - 2 /\ ~old.enabled
        /\ Height(old) <= old.sp /\ old.stack \in Stacks
  BY <1>a, <1>b, <1>1 DEF IInv, InBounds, Contexts
<1>4. old.sp + 2 <= Room /\ old.sp + 2 \in 1 .. Room
  BY <1>0, <1>a, <1>3
<1>5. c \in Contexts
  BY <1>c, <1>4 DEF Contexts
<1>6. /\ contexts' \in Seq(Contexts) /\ Len(contexts') = n /\ Depth' = n
      /\ contexts'[n] = c
      /\ \A k \in 1 .. Depth : k # n => contexts'[k] = contexts[k]
  BY <1>0, <1>a, <1>1, <1>5 DEF Depth
<1>d. PICK h \in 1 .. 4 : h = Height(old)
  BY RestingWords
<1>7. /\ Height(c) = h + 2 /\ Len(PusherWords(old.vector)) = 2
      /\ \A i \in 1 .. 2 : Resting(c)[i] = PusherWords(old.vector)[3 - i]
      /\ \A i \in 3 .. h + 2 : Resting(c)[i] = Resting(old)[i - 2]
  <2>1. /\ h = Len(CpuWords(old.vector))
        /\ \A i \in 1 .. h : Resting(old)[i] = CpuWords(old.vector)[h - i + 1]
    BY <1>1, <1>d, RestingWords
  <2>2. /\ Height(c) = Len(CpuWords(c.vector)) + 2
        /\ \A i \in 1 .. 2 : Resting(c)[i] = PusherWords(c.vector)[3 - i]
        /\ \A i \in 3 .. Height(c) : Resting(c)[i] = CpuWords(c.vector)[Height(c) - i + 1]
    <3>1. c.step # "entered"
      BY <1>2
    <3> QED
      BY <3>1, RestingWords
  <2>3. /\ Height(c) = h + 2
        /\ \A i \in 1 .. 2 : Resting(c)[i] = PusherWords(old.vector)[3 - i]
        /\ \A i \in 3 .. h + 2 : Resting(c)[i] = CpuWords(old.vector)[h + 2 - i + 1]
    BY <1>2, <2>1, <2>2
  <2>4. ASSUME NEW i \in 3 .. h + 2 PROVE Resting(c)[i] = Resting(old)[i - 2]
    <3>1. i - 2 \in 1 .. h /\ h - (i - 2) + 1 = h + 2 - i + 1
      OBVIOUS
    <3> QED
      BY <2>1, <2>3, <3>1
  <2> QED
    BY <2>3, <2>4, WordsAgree
<1>8. \A k \in 1 .. Depth : InBounds(k)' /\ Started(k)'
  <2>1. InBounds(n)'
    <3>1. c.sp <= 4 * n /\ Height(c) <= c.sp
      BY <1>2, <1>3, <1>7, <1>d
    <3> QED
      BY <1>2, <1>3, <1>6, <3>1 DEF InBounds, Height, Resting
  <2>2. ASSUME NEW k \in 1 .. Depth, k # n PROVE InBounds(k)'
    BY <1>6, <2>2 DEF IInv, InBounds, Height, Resting
  <2>3. \A k \in 1 .. Depth : /\ contexts'[k].vector = contexts[k].vector
                              /\ contexts'[k].stack = contexts[k].stack
                              /\ contexts'[k].switched = contexts[k].switched
    BY <1>2, <1>6, <1>b
  <2>4. ASSUME NEW k \in 1 .. Depth PROVE Started(k)'
    <3>1. Started(k) /\ \A j \in 1 .. k : j \in 1 .. Depth
      BY <1>0 DEF IInv
    <3> QED
      BY <2>3, <3>1 DEF Started
  <2> QED
    BY <2>1, <2>2, <2>4
<1>9. ASSUME shared' = {}
      PROVE  /\ \A k \in 1 .. Depth : Intact(k)'
             /\ \A k \in 1 .. Depth : \A j \in 1 .. k - 1 : Apart(j, k)'
  <2>0. /\ \A k \in 1 .. Depth : Intact(k)
        /\ \A k \in 1 .. Depth : \A j \in 1 .. k - 1 : Apart(j, k)
    BY <1>1, <1>9 DEF IInv
  <2>1. ASSUME NEW k \in 1 .. Depth, NEW j \in 1 .. k - 1 PROVE Apart(j, k)'
    <3>1. Apart(j, k) /\ j \in 1 .. Depth /\ j # n
      BY <1>0, <1>a, <2>0
    <3>2. CASE k # n
      BY <1>6, <3>1, <3>2 DEF Apart, Height, Resting
    <3>3. CASE k = n
      <4>1. contexts[j].stack = old.stack => contexts[j].sp + Height(old) <= old.sp
        BY <1>b, <3>1, <3>3 DEF Apart
      <4>2. contexts[j].sp \in Nat /\ Height(old) \in 1 .. 4
        BY <1>0, <3>1, RestingWords DEF Contexts
      <4>3. contexts[j].stack = c.stack => contexts[j].sp + Height(c) <= c.sp
        BY <1>2, <1>3, <1>7, <1>d, <4>1, <4>2
      <4> QED
        BY <1>6, <3>1, <3>3, <4>3 DEF Apart, Height, Resting
    <3> QED
      BY <3>2, <3>3
  <2>2. /\ Len(PusherWords(old.vector)) \in Nat
        /\ old.sp + Len(PusherWords(old.vector)) <= Room
    BY <1>4, <1>7
  <2>3. ASSUME NEW k \in 1 .. Depth
        PROVE  \A i \in 1 .. Height(contexts[k]) :
                 stacks'[contexts[k].stack][contexts[k].sp - i + 1] =
                   [what |-> Resting(contexts[k])[i], owner |-> k]
    <3>1. contexts[k].stack = old.stack => contexts[k].sp <= old.sp
      <4>1. k = n \/ (Apart(k, n) /\ k # n)
        BY <1>0, <1>a, <2>0
      <4>2. contexts[k].sp \in Nat /\ Height(old) \in 1 .. 4
        BY <1>0, RestingWords DEF Contexts
      <4> QED
        BY <1>b, <1>3, <4>1, <4>2 DEF Apart
    <3> QED
      BY <1>1, <1>3, <2>0, <2>2, <3>1, PushKeepsIntact
  <2>4. ASSUME NEW k \in 1 .. Depth, k # n PROVE Intact(k)'
    BY <1>6, <2>3, <2>4 DEF Intact, Height, Resting
  <2>5. Intact(n)'
    <3>1. \A i \in 1 .. 2 : stacks'[old.stack][old.sp + i] =
                              [what |-> PusherWords(old.vector)[i], owner |-> n]
      <4>1. \A i \in 1 .. Len(PusherWords(old.vector)) :
              stacks'[old.stack][old.sp + i] =
                [what |-> PusherWords(old.vector)[i], owner |-> n]
        BY <1>1, <1>3, <2>2, PushedWords
      <4> QED
        BY <1>7, <4>1
    <3>2. \A i \in 1 .. Height(old) : stacks'[old.stack][old.sp - i + 1] =
                                        [what |-> Resting(old)[i], owner |-> n]
      BY <1>a, <1>b, <2>3
    <3>3. ASSUME NEW i \in 1 .. Height(c)
          PROVE  stacks'[c.stack][c.sp - i + 1] = [what |-> Resting(c)[i], owner |-> n]
      <4>1. i \in 1 .. 2 \/ i \in 3 .. h + 2
        BY <1>7
      <4>2. CASE i \in 1 .. 2
        <5>1. c.sp - i + 1 = old.sp + (3 - i) /\ 3 - i \in 1 .. 2
          BY <1>2, <1>3, <4>2
        <5> QED
          BY <1>2, <1>7, <3>1, <4>2, <5>1
      <4>3. CASE i \in 3 .. h + 2
        <5>1. c.sp - i + 1 = old.sp - (i - 2) + 1 /\ i - 2 \in 1 .. h
          BY <1>2, <1>3, <4>3
        <5> QED
          BY <1>2, <1>7, <1>d, <3>2, <4>3, <5>1
      <4> QED
        BY <4>1, <4>2, <4>3
    <3> QED
      BY <1>6, <3>3 DEF Intact, Height, Resting
  <2> QED
    BY <2>1, <2>4, <2>5
<1>10. stacks' \in [Stacks -> [1 .. Room -> Words]]
  <2>1. /\ Len(PusherWords(old.vector)) = 2
        /\ \A i \in 1 .. 2 : PusherWords(old.vector)[i] \in {"frame", "error", "number", "registers"}
    BY WordsAgree
  <2>2. n \in 0 .. MaxDepth
    BY <1>0, <1>a
  <2> QED
    BY <1>1, <1>3, <2>1, <2>2, PushedType
<1>11. OwnStacks' /\ shared' \subseteq (Vectors \cup {UD, PF}) \X Vectors
  BY <1>1 DEF IInv, OwnStacks, TypeOK
<1> QED
  BY <1>0, <1>a, <1>6, <1>8, <1>9, <1>10, <1>11 DEF HandlersOK

LEMMA StepKeeps ==
  ASSUME IInv, contexts # <<>>, NEW step \in {"printed", "halted", "woken"},
         Top.step # "entered", Goes(step), UNCHANGED <<stacks, shared>>
  PROVE  HandlersOK'
<1>0. Depth \in Nat /\ contexts \in Seq(Contexts) /\ Depth <= MaxDepth
  BY DEF IInv, TypeOK, Depth
<1>1. Depth \in 1 .. Depth /\ contexts[Depth] \in Contexts /\ contexts[Depth].step # "entered"
  BY <1>0 DEF Depth, Top
<1>2. [contexts[Depth] EXCEPT !.step = step] \in Contexts
        /\ SameWords(contexts[Depth], [contexts[Depth] EXCEPT !.step = step])
  BY <1>1 DEF Contexts, SameWords
<1>3. contexts' = [contexts EXCEPT ![Depth] = [contexts[Depth] EXCEPT !.step = step]]
  BY DEF Goes
<1>4. contexts' \in Seq(Contexts) /\ Depth' = Depth
        /\ \A k \in 1 .. Depth : SameWords(contexts[k], contexts'[k])
  <2>1. contexts' \in Seq(Contexts) /\ Len(contexts') = Depth
    BY <1>0, <1>1, <1>2, <1>3 DEF Depth
  <2>2. \A k \in 1 .. Depth : contexts'[k] =
          IF k = Depth THEN [contexts[Depth] EXCEPT !.step = step] ELSE contexts[k]
    BY <1>0, <1>3 DEF Depth
  <2> QED
    BY <1>2, <2>1, <2>2 DEF SameWords, Depth
<1>5. /\ \A k \in 1 .. Depth : InBounds(k)' /\ Started(k)'
      /\ \A k \in 1 .. Depth : \A j \in 1 .. k - 1 : Apart(j, k) => Apart(j, k)'
      /\ \A k \in 1 .. Depth : Intact(k) => Intact(k)'
  BY <1>0, <1>4, OldKept
<1>6. OwnStacks' /\ stacks' \in [Stacks -> [1 .. Room -> Words]]
        /\ shared' = shared /\ shared \subseteq (Vectors \cup {UD, PF}) \X Vectors
  BY DEF IInv, OwnStacks, TypeOK
<1>7. shared = {} => /\ \A k \in 1 .. Depth : Intact(k)
                     /\ \A k \in 1 .. Depth : \A j \in 1 .. k - 1 : Apart(j, k)
  BY DEF IInv
<1>8. Len(contexts') <= MaxDepth
  BY <1>0, <1>4 DEF Depth
<1> QED
  BY <1>4, <1>5, <1>6, <1>7, <1>8 DEF HandlersOK

LEMMA ReturnKeeps ==
  ASSUME IInv, contexts # <<>>, contexts' = SubSeq(contexts, 1, Depth - 1),
         UNCHANGED <<stacks, shared>>
  PROVE  HandlersOK'
<1>0. Depth \in Nat \ {0} /\ contexts \in Seq(Contexts) /\ Depth <= MaxDepth /\ MaxDepth \in Nat
  BY InterruptsAssumption DEF IInv, TypeOK, Depth
<1>a. PICK n \in Nat : n = Depth - 1
  BY <1>0
<1>1. /\ contexts' \in Seq(Contexts) /\ Len(contexts') = n
      /\ \A k \in 1 .. n : contexts'[k] = contexts[k]
  <2>1. contexts' = SubSeq(contexts, 1, n) /\ n <= Len(contexts)
    BY <1>0, <1>a DEF Depth
  <2> QED
    BY <1>0, <2>1, SubSeqProperties
<1>2. ASSUME NEW k \in 1 .. n
      PROVE  /\ InBounds(k)' /\ Started(k)'
             /\ Intact(k) => Intact(k)'
             /\ \A j \in 1 .. k - 1 : Apart(j, k) => Apart(j, k)'
  <2>1. k \in 1 .. Depth /\ contexts'[k] = contexts[k]
          /\ \A j \in 1 .. k : contexts'[j] = contexts[j]
    BY <1>0, <1>a, <1>1
  <2>2. InBounds(k) /\ Started(k)
    BY <2>1 DEF IInv
  <2>3. InBounds(k)'
    BY <2>1, <2>2 DEF InBounds, Height, Resting
  <2>4. Started(k)'
    BY <2>1, <2>2 DEF Started
  <2>5. Intact(k) => Intact(k)'
    BY <2>1 DEF Intact, Height, Resting
  <2>6. ASSUME NEW j \in 1 .. k - 1, Apart(j, k) PROVE Apart(j, k)'
    <3>1. j \in 1 .. k
      OBVIOUS
    <3> QED
      BY <2>1, <2>6, <3>1 DEF Apart, Height, Resting
  <2> QED
    BY <2>3, <2>4, <2>5, <2>6
<1>3. OwnStacks' /\ stacks' \in [Stacks -> [1 .. Room -> Words]]
        /\ shared' = shared /\ shared \subseteq (Vectors \cup {UD, PF}) \X Vectors
  BY DEF IInv, OwnStacks, TypeOK
<1>4. ASSUME shared = {}, NEW k \in 1 .. n
      PROVE  Intact(k) /\ \A j \in 1 .. k - 1 : Apart(j, k)
  <2>1. k \in 1 .. Depth
    BY <1>0, <1>a
  <2> QED
    BY <1>4, <2>1 DEF IInv
<1>5. Len(contexts') <= MaxDepth /\ Depth' = n
  BY <1>0, <1>1, <1>a DEF Depth
<1> QED
  BY <1>1, <1>2, <1>3, <1>4, <1>5 DEF HandlersOK

(* What is on top of the stack when a handler returns is its own.           *)
LEMMA OwnWordsOnTop ==
  ASSUME IInv, HandlerAt("woken"), shared = {}
  PROVE  Popped(Pops(Top.vector)) = Own(Pops(Top.vector))
<1>1. Depth \in 1 .. Depth /\ Top = contexts[Depth] /\ Top.step = "woken"
  BY DEF HandlerAt, IInv, TypeOK, Depth, Top
<1>2. Resting(Top) = Pops(Top.vector)
  BY <1>1 DEF Resting
<1>3. Intact(Depth)
  BY <1>1 DEF IInv
<1>4. \A i \in 1 .. Len(Pops(Top.vector)) :
        stacks[Top.stack][Top.sp - i + 1] = [what |-> Pops(Top.vector)[i], owner |-> Depth]
  BY <1>1, <1>2, <1>3 DEF Intact, Height
<1> QED
  BY <1>4 DEF Popped, Own

------------------------------------------------------------------------------
(* Every step. *)

(* The invariant apart from the handlers.                                   *)
RestOK ==
  /\ installed \in 0 .. 7
  /\ interrupts \in BOOLEAN /\ osxsave \in BOOLEAN
  /\ cpu \in {"running", "lostTables", "secondMachineCheck", "astray"}
  /\ nmiBlocked \in BOOLEAN /\ machineCheck \in BOOLEAN
  /\ reported \subseteq (1 .. MaxDepth) \X (Vectors \cup {UD, PF, AllOnes})
  /\ events \in 0 .. MaxEvents
  /\ cpu = "astray" => shared # {}

LEMMA TwoParts == (IInv <=> HandlersOK /\ RestOK) /\ (HandlersOK' /\ RestOK' => IInv')
<1>1. Len(InitializeISR) = 7
  BY DEF InitializeISR
<1>2. IInv <=> HandlersOK /\ RestOK
  BY <1>1 DEF IInv, HandlersOK, RestOK, TypeOK
<1>3. HandlersOK' /\ RestOK' => IInv'
  BY <1>1 DEF IInv, HandlersOK, RestOK, TypeOK
<1> QED
  BY <1>2, <1>3

THEOREM InitIInv == Init => IInv
<1> SUFFICES ASSUME Init PROVE IInv
  OBVIOUS
<1>1. Depth = 0 /\ contexts \in Seq(Contexts) /\ MaxDepth \in Nat
  BY InterruptsAssumption DEF Init, Depth
<1>2. \A k \in 1 .. Depth : FALSE
  BY <1>1
<1>3. stacks \in [Stacks -> [1 .. Room -> Words]]
  BY <1>1 DEF Init, Junk, Words
<1>4. HandlersOK
  BY <1>1, <1>2, <1>3 DEF Init, HandlersOK, OwnStacks, Depth
<1>5. events \in 0 .. MaxEvents
  BY InterruptsAssumption DEF Init
<1>6. interrupts \in BOOLEAN /\ osxsave \in BOOLEAN
        /\ nmiBlocked \in BOOLEAN /\ machineCheck \in BOOLEAN
  BY DEF Init
<1>7. installed \in 0 .. 7 /\ cpu = "running" /\ reported \subseteq (1 .. MaxDepth) \X (Vectors \cup {UD, PF, AllOnes})
  BY DEF Init
<1> QED
  BY <1>4, <1>5, <1>6, <1>7, TwoParts DEF RestOK

LEMMA GatesReady == ASSUME IInv, Did("lidt") PROVE HasGate
<1>1. Len(InitializeISR) = 7 /\ \A k \in 1 .. 6 : InitializeISR[k] # "lidt"
  BY DEF InitializeISR
<1>2. installed = 7
  BY <1>1 DEF Did, IInv, TypeOK
<1> QED
  BY <1>2 DEF HasGate, Did, InitializeISR

(* A vector delivered starts its handler, on its stack or the current one.  *)
LEMMA DispatchKeeps ==
  ASSUME IInv, Depth < MaxDepth, NEW v \in Vectors \cup {UD}, Dispatch(v),
         v >= 32 => CurrentIF, v = BP => contexts = <<>>, v \in Vectors \/ v = UD
  PROVE  HandlersOK'
<1>1. CurrentStack \in Stacks /\ CurrentSP \in Nat
  <2>1. CASE contexts = <<>>
    BY <2>1 DEF CurrentStack, CurrentSP, Stacks
  <2>2. CASE contexts # <<>>
    <3>1. Top \in Contexts /\ CurrentStack = Top.stack /\ CurrentSP = Top.sp
      BY <2>2 DEF CurrentStack, CurrentSP, Top, Depth, IInv, TypeOK
    <3> QED
      BY <3>1, InterruptsAssumption DEF Contexts, Room
  <2> QED
    BY <2>1, <2>2
<1>2. CASE IST(v) = 0
  <2>1. Enter(v, CurrentStack, CurrentSP) /\ shared' = shared
    BY <1>2 DEF Dispatch
  <2>2. StartsAt(v, CurrentStack, CurrentSP)
    BY <1>2, <2>1 DEF StartsAt
  <2> QED
    BY <1>1, <2>1, <2>2, EnterKeeps
<1>3. CASE IST(v) # 0 /\ StackOfIST(IST(v)) = "none"
  <2>1. Enter(PF, CurrentStack, CurrentSP) /\ shared' = shared
    BY <1>3 DEF Dispatch
  <2>2. IST(PF) = 0 /\ ~(PF >= 32) /\ PF # BP
    BY DEF IST, PF, NMI, BP, DF, MC
  <2>3. StartsAt(PF, CurrentStack, CurrentSP)
    BY <2>1, <2>2 DEF StartsAt
  <2> QED
    BY <1>1, <2>1, <2>2, <2>3, EnterKeeps
<1>4. CASE IST(v) # 0 /\ StackOfIST(IST(v)) # "none"
  <2>1. Enter(v, StackOfIST(IST(v)), 0)
          /\ shared' = shared \cup SharedWith(v, StackOfIST(IST(v)))
    BY <1>4 DEF Dispatch
  <2>2. StackOfIST(IST(v)) \in Stacks
    BY <1>4 DEF IST, NMI, BP, DF, MC, StackOfIST, tss64, Stacks
  <2>3. v \in Vectors
    <3>1. IST(UD) = 0
      BY DEF IST, UD, NMI, BP, DF, MC
    <3> QED
      BY <1>4, <3>1
  <2>4. StartsAt(v, StackOfIST(IST(v)), 0)
    BY <1>4, <2>1, <2>3 DEF StartsAt
  <2> QED
    BY <2>1, <2>2, <2>4, EnterKeeps
<1> QED
  BY <1>2, <1>3, <1>4

(* Of the handlers nothing changes. *)
LEMMA HandlersStay ==
  ASSUME HandlersOK, UNCHANGED <<contexts, stacks, shared>> PROVE HandlersOK'
<1>1. Depth' = Depth
  BY DEF Depth
<1>2. \A k : (InBounds(k)' <=> InBounds(k)) /\ (Started(k)' <=> Started(k))
  BY Zenon DEF InBounds, Started, Height, Resting
<1>3. \A k : Intact(k)' <=> Intact(k)
  BY Zenon DEF Intact, Height, Resting
<1>4. \A j, k : Apart(j, k)' <=> Apart(j, k)
  BY Zenon DEF Apart, Height, Resting
<1>5. OwnStacks' <=> OwnStacks
  BY DEF OwnStacks
<1> QED
  BY <1>1, <1>2, <1>3, <1>4, <1>5 DEF HandlersOK

LEMMA InitializeKeeps == ASSUME IInv, Initialize PROVE IInv'
<1>1. Len(InitializeISR) = 7
  BY DEF InitializeISR
<1>2. installed' \in 0 .. 7
  BY <1>1 DEF Initialize, IInv, TypeOK
<1>3. HandlersOK /\ RestOK
  BY TwoParts
<1>4. HandlersOK'
  BY <1>3, HandlersStay DEF Initialize
<1> QED
  BY <1>2, <1>3, <1>4, TwoParts DEF Initialize, RestOK

(* The tables or the machine may go wrong, but the handlers stay as they are. *)
LEMMA CrashKeeps ==
  ASSUME IInv, NEW how \in {"lostTables", "secondMachineCheck"}, Event, Crash(how)
  PROVE  IInv'
<1>1. events' \in 0 .. MaxEvents
  BY InterruptsAssumption DEF Event, IInv, TypeOK
<1>2. HandlersOK /\ RestOK
  BY TwoParts
<1>3. HandlersOK'
  BY <1>2, HandlersStay DEF Crash
<1> QED
  BY <1>1, <1>2, <1>3, TwoParts DEF Crash, setup, RestOK

LEMMA DispatchScalars ==
  ASSUME IInv, NEW v, Dispatch(v), cpu = "running", HandlersOK', events' \in 0 .. MaxEvents
  PROVE  IInv'
<1>1. nmiBlocked' \in BOOLEAN /\ machineCheck' \in BOOLEAN
  BY DEF Dispatch
<1>2. UNCHANGED <<installed, interrupts, osxsave, cpu, reported>>
  BY DEF Dispatch, setup
<1>3. installed \in 0 .. 7 /\ interrupts \in BOOLEAN /\ osxsave \in BOOLEAN
        /\ reported \subseteq (1 .. MaxDepth) \X (Vectors \cup {UD, PF, AllOnes})
  BY TwoParts DEF RestOK
<1> QED
  <2>1. RestOK'
    BY <1>1, <1>2, <1>3 DEF RestOK
  <2> QED
    BY <2>1, TwoParts

LEMMA DeliverKeeps == ASSUME IInv, NEW v \in Vectors, Deliver(v) PROVE IInv'
<1>1. HasGate
  BY GatesReady DEF Deliver
<1>2. Dispatch(v) /\ Depth < MaxDepth /\ Raisable(v) /\ Event
  BY <1>1 DEF Deliver
<1>3. v >= 32 => CurrentIF
  BY <1>2, InterruptsAssumption DEF Raisable, NMI, MC
<1>4. v = BP => contexts = <<>>
  BY <1>2, InterruptsAssumption DEF Raisable, NMI, MC, BP
<1>5. HandlersOK'
  BY <1>2, <1>3, <1>4, DispatchKeeps
<1>6. events' \in 0 .. MaxEvents /\ cpu = "running"
  BY <1>2, InterruptsAssumption DEF Event, IInv, TypeOK
<1> QED
  BY <1>2, <1>5, <1>6, DispatchScalars

LEMMA XsaveFaultsKeeps == ASSUME IInv, XsaveFaults PROVE IInv'
<1>1. Dispatch(UD) /\ Depth < MaxDepth /\ cpu = "running" /\ events' \in 0 .. MaxEvents
  BY DEF XsaveFaults, HandlerAt, IInv, TypeOK
<1>2. ~(UD >= 32) /\ UD # BP
  BY DEF UD, BP
<1>3. HandlersOK'
  BY <1>1, <1>2, DispatchKeeps
<1> QED
  BY <1>1, <1>3, DispatchScalars

LEMMA HandlerStepKeeps ==
  ASSUME IInv, Save \/ AbortPrints \/ AbortHalts \/ Wake PROVE IInv'
<1>1. /\ cpu = "running" /\ contexts # <<>>
      /\ UNCHANGED <<installed, interrupts, osxsave, cpu, nmiBlocked, machineCheck, shared>>
  BY DEF Save, AbortPrints, AbortHalts, Wake, HandlerAt, setup
<1>2. HandlersOK'
  <2>1. CASE Save
    BY <2>1, SaveKeeps
  <2>2. CASE AbortPrints
    BY <1>1, <2>2, StepKeeps DEF AbortPrints, HandlerAt
  <2>3. CASE AbortHalts
    BY <1>1, <2>3, StepKeeps DEF AbortHalts, HandlerAt
  <2>4. CASE Wake
    BY <1>1, <2>4, StepKeeps DEF Wake, HandlerAt
  <2> QED
    BY <2>1, <2>2, <2>3, <2>4
<1>3. events' \in 0 .. MaxEvents
  BY InterruptsAssumption DEF Save, AbortPrints, AbortHalts, Wake, Event, IInv, TypeOK
<1>4. reported' \subseteq (1 .. MaxDepth) \X (Vectors \cup {UD, PF, AllOnes})
  <2>1. CASE AbortPrints
    <3>1. Top \in Contexts /\ Depth \in 1 .. MaxDepth
      BY <1>1, InterruptsAssumption DEF IInv, TypeOK, Top, Depth
    <3>2. ErrorCode(Top.vector) \in Vectors \cup {UD, PF, AllOnes}
      BY <3>1 DEF ErrorCode, Contexts
    <3>3. PICK r \in (1 .. MaxDepth) \X (Vectors \cup {UD, PF, AllOnes}) :
            r = <<Depth, ErrorCode(Top.vector)>>
      BY <3>1, <3>2
    <3>4. reported' = reported \cup {r}
      BY <2>1, <3>3 DEF AbortPrints
    <3> QED
      BY <3>4 DEF IInv, TypeOK
  <2>2. CASE reported' = reported
    BY <2>2 DEF IInv, TypeOK
  <2> QED
    BY <2>1, <2>2 DEF Save, AbortHalts, Wake
<1>5. installed \in 0 .. 7 /\ interrupts \in BOOLEAN /\ osxsave \in BOOLEAN
        /\ nmiBlocked \in BOOLEAN /\ machineCheck \in BOOLEAN
  BY TwoParts DEF RestOK
<1> QED
  <2>1. RestOK'
    BY <1>1, <1>3, <1>4, <1>5 DEF RestOK
  <2> QED
    BY <1>2, <2>1, TwoParts

(* Only a handler that lost its words to another one goes astray.           *)
LEMMA ReturnStepKeeps == ASSUME IInv, Return PROVE IInv'
<1>1. /\ HandlerAt("woken") /\ contexts # <<>> /\ cpu = "running"
      /\ UNCHANGED <<installed, interrupts, osxsave, stacks, machineCheck, shared, events>>
      /\ reported' \subseteq reported
  BY DEF Return, HandlerAt, setup
<1>2. CASE Popped(Pops(Top.vector)) = Own(Pops(Top.vector))
  <2>1. contexts' = SubSeq(contexts, 1, Depth - 1) /\ nmiBlocked' = FALSE /\ cpu' = cpu
    BY <1>2 DEF Return
  <2>2. HandlersOK'
    BY <1>1, <2>1, ReturnKeeps
  <2> QED
    <3>1. RestOK'
      BY <1>1, <2>1, TwoParts DEF RestOK
    <3> QED
      BY <2>2, <3>1, TwoParts
<1>3. CASE Popped(Pops(Top.vector)) # Own(Pops(Top.vector))
  <2>1. cpu' = "astray" /\ UNCHANGED <<contexts, nmiBlocked>>
    BY <1>3 DEF Return
  <2>2. shared # {}
    BY <1>1, <1>3, OwnWordsOnTop
  <2>3. HandlersOK
    BY TwoParts
  <2>4. HandlersOK'
    BY <1>1, <2>1, <2>3, HandlersStay
  <2> QED
    <3>1. RestOK'
      BY <1>1, <2>1, <2>2, TwoParts DEF RestOK
    <3> QED
      BY <2>4, <3>1, TwoParts
<1> QED
  BY <1>2, <1>3

LEMMA StutterKeeps == ASSUME IInv, UNCHANGED vars PROVE IInv'
<1>1. HandlersOK'
  BY TwoParts, HandlersStay DEF vars
<1>2. RestOK'
  BY TwoParts DEF vars, setup, RestOK
<1> QED
  BY <1>1, <1>2, TwoParts

THEOREM NextIInv == IInv /\ [Next]_vars => IInv'
<1> SUFFICES ASSUME IInv, [Next]_vars PROVE IInv'
  OBVIOUS
<1>1. CASE Initialize BY <1>1, InitializeKeeps
<1>2. CASE TablesMixed BY <1>2, CrashKeeps DEF TablesMixed
<1>3. CASE SecondMachineCheck BY <1>3, CrashKeeps DEF SecondMachineCheck
<1>4. CASE \E v \in Vectors : Deliver(v) BY <1>4, DeliverKeeps
<1>5. CASE Save \/ AbortPrints \/ AbortHalts \/ Wake BY <1>5, HandlerStepKeeps
<1>6. CASE XsaveFaults BY <1>6, XsaveFaultsKeeps
<1>7. CASE Return BY <1>7, ReturnStepKeeps
<1>8. CASE Finished \/ UNCHANGED vars BY <1>8, StutterKeeps DEF Finished
<1> QED
  BY <1>1, <1>2, <1>3, <1>4, <1>5, <1>6, <1>7, <1>8 DEF Next, HandlerStep

THEOREM Inductive == Spec => []IInv
  BY InitIInv, NextIInv, PTL DEF Spec

------------------------------------------------------------------------------
(***************************************************************************)
(* However handlers nest, for any vectors and to any depth, each returns   *)
(* to what it interrupted unless two have started on the same stack, and   *)
(* no gate is missing from lidt on (ReturnsToInterrupted).                 *)
(***************************************************************************)
THEOREM ReturnsCorrect == Spec => []ReturnsToInterrupted
<1>1. IInv => ReturnsToInterrupted
  BY DEF IInv, ReturnsToInterrupted
<1> QED
  BY <1>1, Inductive, PTL

(***************************************************************************)
(* Only a double fault and a machine check can start on one stack          *)
(* (OwnStacks).                                                            *)
(***************************************************************************)
THEOREM StacksCorrect == Spec => []OwnStacks
<1>1. IInv => OwnStacks
  BY DEF IInv
<1> QED
  BY <1>1, Inductive, PTL

(***************************************************************************)
(* No two of the vectors from 32 on are at work together, so that one area *)
(* for the state they save is enough (UserHandlersAlone).                  *)
(***************************************************************************)
THEOREM UserHandlersCorrect == Spec => []UserHandlersAlone
<1>1. IInv => UserHandlersAlone
  BY DEF IInv, Started, UserHandlersAlone
<1> QED
  BY <1>1, Inductive, PTL

(* The variables keep their types, the stacks' words included.              *)
THEOREM TypeCorrect == Spec => []TypeOK
<1>1. IInv => TypeOK
  BY DEF IInv
<1> QED
  BY <1>1, Inductive, PTL

==============================================================================
