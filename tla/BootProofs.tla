----------------------------- MODULE BootProofs -----------------------------
(***************************************************************************)
(* What holds at every step of the boot, for every set of answers of the   *)
(* boot loader, of masks it leaves behind and of devices and exceptions,   *)
(* for any number of commands and places for them, and for a stack of any  *)
(* size that has room for them.  One inductive invariant, Inv, carries all *)
(* of it: what each part of the machine looks like at each place of kmain, *)
(* down to the k-th port access of picRemap.                               *)
(***************************************************************************)
EXTENDS Boot, SequenceTheorems, TLAPS

\* Where kmain can be: up to the table of interrupts, up to the framebuffer, and
\* altogether.
EarlyPcs == {"kmain", "initGDT", "idtSetDesc", "loadIDT"}
ToVideo  == EarlyPcs \cup {"initPMM", "initVideo"}
KmainPcs == ToVideo \cup {"register", "initKb", "callback", "prompt", "idle", "returned"}

\* The port accesses of the driver, and the frames of the stack.
Values == {<<"NONE">>, <<"ICW1">>, <<"ICW4_8086">>, <<"PIC_OCW2_EOI">>, <<"MASK", Lines>>}
            \cup ({"PIC_OCW3_READ"} \X {"irr", "isr"}) \cup ({"OFFSET", "WIRING"} \X {2, 4, 32, 48})
            \cup ({"SAVED", "SAVED_WITH", "SAVED_WITHOUT"} \X Lines)
Access == [op : {"in", "out"}, chip : Chips, port : {"CMD", "DATA"}, value : Values]
FrameSet == [vector : 0 .. Kmain, pc : KmainPcs \cup {"dispatch", "iret"}, todo : Seq(Access),
             saved : Seq(SUBSET Lines), cmd : Nat]

Types ==
  /\ machine \in {"running", "halted", "overrun", "derailed"} /\ ifl \in BOOLEAN /\ idtr \in BOOLEAN
  /\ chips \in [Chips -> Chip]
  /\ fb \in {"NULL", "framebuffer"}
  /\ irqHandlers \in [0 .. 15 -> {"NULL", "kbHandler"}] /\ keyCallback \in {"NULL", "shellKeyCallback"}
  /\ answer \in Answers /\ firmware \in FirmwareMasks
  /\ raises \in Nat /\ calls \in Nat /\ faults \in 0 .. MaxFaults
  /\ stack \in Seq(FrameSet) /\ Len(stack) \in 1 .. StackFrames

\* A handler's frame, by its place in the stack: interrupt gates let no interrupt
\* through, so an IRQ's handler is only ever the second frame, on kmain's; any
\* number of exceptions may be on top.
EOI == <<Out("MASTER", "CMD", <<"PIC_OCW2_EOI">>)>>
HandlerFrame(i, f) ==
  \/ f.vector \in 0 .. 31 /\ f.pc = "dispatch" /\ f.todo = <<>>
  \/ /\ i = 2 /\ f.vector \in 32 .. 47
     /\ \/ f.pc = "dispatch" /\ f.todo = <<>>
        \/ f.pc = "iret" /\ f.todo = <<>>
        \/ f.pc = "iret" /\ f.vector = 33 /\ f.todo = EOI
Shape ==
  /\ stack[1].vector = Kmain /\ stack[1].pc \in KmainPcs
  /\ Len(stack) > 1 => ~ifl /\ idtr
  /\ \A i \in 2 .. Len(stack) : HandlerFrame(i, stack[i])

\* The machine without a table of interrupts: its flag is off, and picRemap, which
\* initIDT calls, has done its first k accesses.
Remap == picRemap(32, 48)
RemapLeft(k) == SubSeq(Remap, k + 1, 12)
StepAfter(k) == IF k < 3 THEN "ready" ELSE IF k < 5 THEN "ICW2" ELSE IF k < 7 THEN "ICW3"
                ELSE IF k < 9 THEN "ICW4" ELSE "ready"
SavedMasks(k, saved, masks) ==
  /\ Len(saved) = IF k < 2 THEN k ELSE 2
  /\ k >= 1 => saved[1] = masks["MASTER"]
  /\ k >= 2 => saved[2] = masks["SLAVE"]
RemapState(k) ==
  /\ chips["MASTER"].step = StepAfter(k) /\ chips["SLAVE"].step = StepAfter(k - 1)
  /\ k >= 5 => chips["MASTER"].offset = 32
  /\ k >= 6 => chips["SLAVE"].offset = 48
  /\ k < 3 \/ k >= 11 => chips["MASTER"].mask = firmware["MASTER"]
  /\ k < 4 \/ k >= 12 => chips["SLAVE"].mask = firmware["SLAVE"]
  /\ \A c \in Chips : chips[c].isr = {}
  /\ SavedMasks(k, stack[1].saved, firmware)
Setup ==
  ~idtr =>
    /\ ~ifl /\ stack[1].pc \in EarlyPcs
    /\ \E k \in 0 .. 12 :
         /\ RemapState(k)
         /\ stack[1].pc \in {"kmain", "initGDT"} => k = 0 /\ stack[1].todo = <<>>
         /\ stack[1].pc = "idtSetDesc" => stack[1].todo = RemapLeft(k)
         /\ stack[1].pc = "loadIDT" => k = 12 /\ stack[1].todo = <<>>

\* The descriptors, the segments and the gates are there from the step on that
\* makes them.
Tables ==
  /\ stack[1].pc \notin {"kmain", "initGDT"} => gdt = Descriptors /\ segments = loadGDT
  /\ gates = IF stack[1].pc \in {"kmain", "initGDT", "idtSetDesc"} THEN {} ELSE 0 .. 47
  /\ idtr => stack[1].pc \notin EarlyPcs

\* With the table loaded, both chips are out of their initialisation, and nothing
\* that kmain has still to write to them starts another: its writes are ends of
\* interrupt, choices of a register and masks, of which those made from a mask
\* that was read come after the read.
FromSaved(a) == a.value[1] \in {"SAVED_WITH", "SAVED_WITHOUT"}
Harmless(a) ==
  \/ a.op = "in"
  \/ /\ a.op = "out" /\ a.port = "CMD"
     /\ a.value = <<"PIC_OCW2_EOI">> \/ a.value \in {"PIC_OCW3_READ"} \X {"irr", "isr"}
  \/ /\ a.op = "out" /\ a.port = "DATA"
     /\ a.value = <<"MASK", Lines>> \/ a.value \in {"SAVED_WITH", "SAVED_WITHOUT"} \X Lines
Sound(f) ==
  \A i \in 1 .. Len(f.todo) :
    /\ Harmless(f.todo[i])
    /\ FromSaved(f.todo[i]) => f.saved # <<>> \/ f.todo[1].op = "in"
Ready ==
  idtr => /\ \A c \in Chips : chips[c].step = "ready"
          /\ chips["MASTER"].offset = 32 /\ chips["SLAVE"].offset = 48
          /\ Sound(stack[1])

\* The masks, as long as no function of a driver was called from the idle loop:
\* the boot loader's, without the keyboard's line from initKb's write on.
BeforeKb == stack[1].pc \in ToVideo \cup {"initKb"} \/ (stack[1].pc = "register" /\ stack[1].cmd = 0)
MasksKept ==
  idtr /\ calls = 0 =>
    /\ chips["SLAVE"].mask = firmware["SLAVE"]
    /\ stack[1].pc # "callback" => stack[1].todo = <<>>
    /\ BeforeKb => chips["MASTER"].mask = firmware["MASTER"]
    /\ stack[1].pc = "callback" =>
         \/ chips["MASTER"].mask = firmware["MASTER"] /\ stack[1].todo = picUnmask(1) /\ stack[1].saved = <<>>
         \/ /\ chips["MASTER"].mask = firmware["MASTER"] /\ stack[1].todo = Tail(picUnmask(1))
            /\ stack[1].saved = <<firmware["MASTER"]>>
         \/ chips["MASTER"].mask = firmware["MASTER"] \ {1} /\ stack[1].todo = <<>>
    /\ ~BeforeKb /\ stack[1].pc # "callback" => chips["MASTER"].mask = firmware["MASTER"] \ {1}

\* The keyboard's line is the only one with a handler, and cannot come in before
\* it has one; line 2 is never requested by a device.  While line 1 is in service
\* and has its handler, that handler is on the stack and has its end of interrupt
\* still to send; line 0, which would be the one that ends, is not in service then.
Keyboard ==
  /\ \A n \in 0 .. 15 : n # 1 => irqHandlers[n] = "NULL"
  /\ BeforeKb => irqHandlers[1] = "NULL" /\ 1 \notin chips["MASTER"].isr /\ calls = 0
  /\ 2 \notin chips["MASTER"].irr
  /\ Len(stack) >= 2 /\ stack[2].vector = 33 => 0 \notin chips["MASTER"].isr
  /\ irqHandlers[1] = "kbHandler" /\ 1 \in chips["MASTER"].isr =>
       /\ Len(stack) >= 2
       /\ stack[2].vector \in 32 .. 47 =>
            /\ stack[2].vector = 33
            /\ stack[2].pc = "dispatch" \/ stack[2].todo # <<>>

\* Behind initVideo there is a framebuffer, and only an interrupt and exceptions of
\* the code itself are on the stack.
Video ==
  /\ stack[1].pc \notin ToVideo => fb # "NULL" /\ Len(stack) <= 2 + faults
  /\ machine = "overrun" => stack[1].pc \in ToVideo

\* The table of commands, by the number of them kmain has registered.
Registered ==
  /\ shellCmdCount = IF stack[1].cmd < MAX_COMMANDS THEN stack[1].cmd ELSE MAX_COMMANDS
  /\ DOMAIN table = 0 .. MAX_COMMANDS - 1
  /\ \A i \in 0 .. shellCmdCount - 1 :
       table[i] = {<<Commands[i + 1], Fields[k]>> : k \in 1 .. 3}
  /\ stack[1].pc \in ToVideo => stack[1].cmd = 0
  /\ stack[1].pc = "register" => stack[1].cmd < Len(Commands)
  /\ stack[1].pc \in {"initKb", "callback"} => stack[1].cmd = 1
  /\ stack[1].pc \in {"prompt", "idle", "returned"} => stack[1].cmd = Len(Commands)

\* initIDT makes gates for 16 IRQs from vector 32 on, picRemap puts the slave's at
\* 48 .. 55: only an open line of the slave has none.
MissingGatesAreTheSlaves ==
  (\E i \in 1 .. Len(stack) : stack[i].vector = NotPresent) => chips["SLAVE"].mask # Lines

Inv == /\ Types /\ Shape /\ Setup /\ Tables /\ Ready /\ MasksKept /\ Keyboard /\ Video /\ Registered
       /\ MissingGatesAreTheSlaves
-----------------------------------------------------------------------------
USE DEF Kmain, NotPresent, PageFault, IRQ_OFFSET, Chips, Lines

(* What picRemap still has to do after its first k accesses.               *)
LEMMA RemapProgram ==
  /\ Remap \in Seq(Access) /\ Len(Remap) = 12
  /\ RemapLeft(0) = Remap /\ RemapLeft(12) = <<>>
  /\ \A k \in 0 .. 11 : /\ RemapLeft(k) # <<>> /\ Head(RemapLeft(k)) = Remap[k + 1]
                        /\ Tail(RemapLeft(k)) = RemapLeft(k + 1)
  /\ \A k \in 0 .. 12 : RemapLeft(k) \in Seq(Access)
<1>1. /\ \A c \in Chips, p \in {"CMD", "DATA"} : In(c, p) \in Access
      /\ \A c \in Chips, p \in {"CMD", "DATA"}, v \in Values : Out(c, p, v) \in Access
  BY DEF In, Out, Access, Values
<1>2. /\ <<"ICW1">> \in Values /\ <<"ICW4_8086">> \in Values
      /\ \A n \in {32, 48} : <<"OFFSET", n>> \in Values
      /\ \A n \in {2, 4} : <<"WIRING", n>> \in Values
      /\ \A n \in {1, 2} : <<"SAVED", n>> \in Values
  BY DEF Values
<1>3. Remap = <<In("MASTER", "DATA"), In("SLAVE", "DATA"),
    Out("MASTER", "CMD", <<"ICW1">>), Out("SLAVE", "CMD", <<"ICW1">>),
    Out("MASTER", "DATA", <<"OFFSET", 32>>), Out("SLAVE", "DATA", <<"OFFSET", 48>>),
    Out("MASTER", "DATA", <<"WIRING", 4>>), Out("SLAVE", "DATA", <<"WIRING", 2>>),
    Out("MASTER", "DATA", <<"ICW4_8086">>), Out("SLAVE", "DATA", <<"ICW4_8086">>),
    Out("MASTER", "DATA", <<"SAVED", 1>>), Out("SLAVE", "DATA", <<"SAVED", 2>>)>>
  BY DEF Remap, picRemap
<1>4. Remap \in Seq(Access) /\ Len(Remap) = 12
  BY <1>1, <1>2, <1>3
<1> HIDE DEF Remap
<1>5. RemapLeft(0) = Remap
  BY <1>4, SubSeqFull DEF RemapLeft
<1>6. RemapLeft(12) = <<>>
  BY SubSeqEmpty DEF RemapLeft
<1>7. ASSUME NEW k \in 0 .. 11
      PROVE  Head(RemapLeft(k)) = Remap[k + 1] /\ Tail(RemapLeft(k)) = RemapLeft(k + 1)
  BY <1>4, HeadTailOfSubSeq DEF RemapLeft
<1>8. ASSUME NEW k \in 0 .. 12
      PROVE  RemapLeft(k) \in Seq(Access) /\ (k < 12 => RemapLeft(k) # <<>>)
  <2>1. \A i \in k + 1 .. 12 : Remap[i] \in Access
    <3>1. ASSUME NEW i \in k + 1 .. 12 PROVE i \in 1 .. Len(Remap)
      BY <1>4
    <3> QED
      BY <3>1, <1>4, ElementOfSeq
  <2>2. RemapLeft(k) \in Seq(Access) /\ Len(RemapLeft(k)) = IF k + 1 <= 12 THEN 12 - (k + 1) + 1 ELSE 0
    BY <2>1, SubSeqProperties DEF RemapLeft
  <2>3. k < 12 => Len(RemapLeft(k)) > 0
    BY <2>2
  <2> QED
    BY <2>2, <2>3, EmptySeq
<1>9. \A k \in 0 .. 11 : RemapLeft(k) # <<>>
  <2>1. ASSUME NEW k \in 0 .. 11 PROVE k \in 0 .. 12 /\ k < 12
    OBVIOUS
  <2> QED
    BY <2>1, <1>8
<1> QED
  BY <1>5, <1>6, <1>7, <1>8, <1>4, <1>9
(* The frames are frames, and those on top of kmain's are handlers'.        *)
LEMMA Frames ==
  ASSUME Types, Shape
  PROVE  /\ stack \in Seq(FrameSet) /\ Len(stack) \in Nat /\ Len(stack) >= 1
         /\ \A i \in 1 .. Len(stack) : stack[i] \in FrameSet
         /\ top = stack[Len(stack)] /\ top \in FrameSet
         /\ \A i \in 2 .. Len(stack) : HandlerFrame(i, stack[i]) /\ stack[i].vector \in 0 .. 47
<1>1. stack \in Seq(FrameSet) /\ Len(stack) \in Nat /\ Len(stack) >= 1
  BY LenProperties DEF Types
<1>2. \A i \in 1 .. Len(stack) : stack[i] \in FrameSet
  BY <1>1, ElementOfSeq
<1>3. ASSUME NEW i \in 2 .. Len(stack) PROVE HandlerFrame(i, stack[i]) /\ stack[i].vector \in 0 .. 47
  <2>1. HandlerFrame(i, stack[i])
    BY DEF Shape
  <2> QED
    BY <2>1 DEF HandlerFrame
<1> QED
  BY <1>1, <1>2, <1>3 DEF top

(* kmain executes only while no handler does.                              *)
LEMMA KmainOnTop ==
  ASSUME Types, Shape, NEW pc, Executes(Kmain, pc)
  PROVE  /\ Len(stack) \in Nat /\ Len(stack) >= 1 /\ Len(stack) < 2
         /\ stack[1].pc = pc /\ stack[1].todo = <<>> /\ machine = "running"
         /\ stack[1] \in FrameSet /\ top = stack[1]
<1>1. Len(stack) < 2
  <2>1. CASE Len(stack) >= 2
    <3>1. Len(stack) \in 2 .. Len(stack)
      BY <2>1, Frames
    <3>2. top.vector \in 0 .. 47
      BY <3>1, Frames
    <3> QED
      BY <3>2 DEF Executes
  <2> QED
    BY <2>1, Frames
<1> QED
  BY <1>1, Frames DEF Executes

(* Where kmain or a handler goes on, nothing else of the stack changes.    *)
LEMMA GotoStack ==
  ASSUME Types, NEW pc \in KmainPcs \cup {"iret"}, Goto(pc)
  PROVE  /\ stack' \in Seq(FrameSet) /\ Len(stack') = Len(stack)
         /\ \A i \in 1 .. Len(stack) - 1 : stack'[i] = stack[i]
         /\ stack'[Len(stack)] = [top EXCEPT !.pc = pc]
<1>1. top \in FrameSet
  BY ElementOfSeq DEF Types, top
<1>2. [top EXCEPT !.pc = pc] \in FrameSet
  BY <1>1 DEF FrameSet
<1>3. stack' = [stack EXCEPT ![Len(stack)] = [top EXCEPT !.pc = pc]]
  BY DEF Goto, top
<1> QED
  BY <1>2, <1>3, ExceptSeq DEF Types

(* The same with port accesses to do on the way.                           *)
LEMMA GotoViaStack ==
  ASSUME Types, NEW pc \in KmainPcs \cup {"iret"}, NEW program \in Seq(Access), GotoVia(pc, program)
  PROVE  /\ stack' \in Seq(FrameSet) /\ Len(stack') = Len(stack)
         /\ \A i \in 1 .. Len(stack) - 1 : stack'[i] = stack[i]
         /\ stack'[Len(stack)] = [top EXCEPT !.pc = pc, !.todo = program, !.saved = <<>>]
<1>1. top \in FrameSet
  BY ElementOfSeq DEF Types, top
<1>2. [top EXCEPT !.pc = pc, !.todo = program, !.saved = <<>>] \in FrameSet
  BY <1>1, EmptySeq DEF FrameSet
<1>3. stack' = [stack EXCEPT ![Len(stack)] = [top EXCEPT !.pc = pc, !.todo = program, !.saved = <<>>]]
  BY DEF GotoVia, top
<1> QED
  BY SMTT(30), <1>2, <1>3, ExceptSeq DEF Types

(* A handler's frame when it is entered.                                   *)
LEMMA FrameOf ==
  ASSUME NEW v \in 0 .. 255
  PROVE  /\ Frame(v) \in FrameSet /\ Frame(v).vector = v /\ Frame(v).pc = "dispatch"
         /\ Frame(v).todo = <<>>
BY EmptySeq DEF Frame, FrameSet

(* A handler is entered: its frame comes on top, or the machine overruns.  *)
LEMMA EnterStack ==
  ASSUME Types, NEW v \in 0 .. 255, Enter(v)
  PROVE  \/ /\ idtr /\ machine' = machine /\ ifl' = FALSE
            /\ stack' \in Seq(FrameSet) /\ Len(stack') > Len(stack) /\ Len(stack') <= Len(stack) + 1
            /\ Len(stack') \in Nat /\ Len(stack') <= StackFrames
            /\ \A i \in 1 .. Len(stack) : stack'[i] = stack[i]
            /\ stack'[Len(stack')] = Frame(IF v \in gates THEN v ELSE NotPresent)
         \/ /\ ~idtr \/ Len(stack) = StackFrames
            /\ machine' = "overrun" /\ ifl' = FALSE /\ stack' = stack
<1> DEFINE f == Frame(IF v \in gates THEN v ELSE NotPresent)
<1>1. f \in FrameSet
  BY EmptySeq DEF Frame, FrameSet
<1>2. CASE idtr /\ Len(stack) < StackFrames
  <2>1. stack' = Append(stack, f) /\ machine' = machine /\ ifl' = FALSE
    BY <1>2 DEF Enter
  <2>2. stack \in Seq(FrameSet) /\ Len(stack) \in Nat
    BY LenProperties DEF Types
  <2> HIDE DEF f
  <2>3. /\ stack' \in Seq(FrameSet) /\ Len(stack') = Len(stack) + 1 /\ stack'[Len(stack) + 1] = f
        /\ \A i \in 1 .. Len(stack) : stack'[i] = stack[i]
    BY <1>1, <2>1, <2>2, AppendProperties
  <2>4. /\ Len(stack') > Len(stack) /\ Len(stack') <= Len(stack) + 1 /\ Len(stack') \in Nat
        /\ Len(stack') <= StackFrames /\ stack'[Len(stack')] = f
    BY <1>2, <2>2, <2>3, SizesAssumption
  <2> QED
    BY <1>2, <2>1, <2>3, <2>4 DEF f
<1>3. CASE ~(idtr /\ Len(stack) < StackFrames)
  BY <1>3, SizesAssumption DEF Enter, Types
<1> QED
  BY <1>2, <1>3

(* The same for kmain, which is alone on the stack when it executes.       *)
LEMMA KmainGoto ==
  ASSUME Types, Shape, NEW from, Executes(Kmain, from), NEW pc \in KmainPcs, Goto(pc)
  PROVE  /\ stack' \in Seq(FrameSet) /\ Len(stack') < 2 /\ Len(stack') >= 1
         /\ stack'[1] \in FrameSet /\ stack'[1] = [stack[1] EXCEPT !.pc = pc]
<1> DEFINE f == [stack[1] EXCEPT !.pc = pc]
<1>1. Len(stack) \in Nat /\ Len(stack) >= 1 /\ Len(stack) < 2 /\ top = stack[1]
  BY KmainOnTop
<1>2. stack' \in Seq(FrameSet) /\ Len(stack') < 2 /\ Len(stack') >= 1 /\ stack'[1] = f
  BY <1>1, GotoStack
<1> HIDE DEF f
<1>3. stack'[1] \in FrameSet
  BY <1>2, ElementOfSeq
<1> QED
  BY <1>2, <1>3 DEF f

(* The same with port accesses to do on the way.                           *)
LEMMA KmainGotoVia ==
  ASSUME Types, Shape, NEW from, Executes(Kmain, from), NEW pc \in KmainPcs,
         NEW program \in Seq(Access), GotoVia(pc, program)
  PROVE  /\ stack' \in Seq(FrameSet) /\ Len(stack') < 2 /\ Len(stack') >= 1 /\ stack'[1] \in FrameSet
         /\ stack'[1] = [stack[1] EXCEPT !.pc = pc, !.todo = program, !.saved = <<>>]
<1> DEFINE f == [stack[1] EXCEPT !.pc = pc, !.todo = program, !.saved = <<>>]
<1>1. Len(stack) \in Nat /\ Len(stack) >= 1 /\ Len(stack) < 2 /\ top = stack[1]
  BY KmainOnTop
<1>a. f = [top EXCEPT !.pc = pc, !.todo = program, !.saved = <<>>]
  BY <1>1
<1> HIDE DEF f
<1>b. stack' \in Seq(FrameSet) /\ Len(stack') = Len(stack) /\ stack'[Len(stack)] = f
  BY <1>a, GotoViaStack
<1>2. stack' \in Seq(FrameSet) /\ Len(stack') < 2 /\ Len(stack') >= 1 /\ stack'[1] = f
  BY <1>1, <1>b
<1>3. stack'[1] \in FrameSet
  BY <1>2, ElementOfSeq
<1> QED
  BY <1>2, <1>3 DEF f

USE DEF tables, drivers, rest

(* What holds of the stack when kmain has moved on.                        *)
LEMMA KmainMoved ==
  ASSUME Inv, NEW from, Executes(Kmain, from),
         stack' \in Seq(FrameSet), Len(stack') < 2 /\ Len(stack') >= 1, stack'[1].vector = Kmain, stack'[1].pc \in KmainPcs,
         UNCHANGED <<machine, chips, answer, firmware, raises, faults>>, calls' \in Nat,
         ifl' \in BOOLEAN, idtr' \in BOOLEAN, fb' \in {"NULL", "framebuffer"},
         irqHandlers' \in [0 .. 15 -> {"NULL", "kbHandler"}],
         keyCallback' \in {"NULL", "shellKeyCallback"}
  PROVE  Types' /\ Shape' /\ MissingGatesAreTheSlaves'
<1> USE DEF Inv
<1>1. Types'
  BY SizesAssumption, EventsAssumption DEF Types
<1>2. Shape'
  BY DEF Shape
<1>3. \A i \in 1 .. Len(stack') : i = 1
  OBVIOUS
<1>4. ~ \E i \in 1 .. Len(stack') : stack'[i].vector = NotPresent
  BY <1>3
<1>5. MissingGatesAreTheSlaves'
  BY <1>4 DEF MissingGatesAreTheSlaves
<1> QED
  BY <1>1, <1>2, <1>5

(* With the table of the interrupts loaded.                                *)
LEMMA KmainMovedLate ==
  ASSUME Inv, NEW from, Executes(Kmain, from), from \notin EarlyPcs,
         stack' \in Seq(FrameSet), Len(stack') < 2 /\ Len(stack') >= 1, stack'[1].vector = Kmain,
         stack'[1].pc \in KmainPcs \ EarlyPcs, Sound(stack'[1]),
         UNCHANGED <<machine, ifl, chips, tables, answer, firmware, raises, faults>>, calls' \in Nat,
         fb' \in {"NULL", "framebuffer"},
         irqHandlers' \in [0 .. 15 -> {"NULL", "kbHandler"}],
         keyCallback' \in {"NULL", "shellKeyCallback"}
  PROVE  idtr /\ Types' /\ Shape' /\ Setup' /\ Tables' /\ Ready' /\ MissingGatesAreTheSlaves'
<1> USE DEF Inv
<1>1. stack[1].pc = from
  BY KmainOnTop
<1>2. idtr
  BY <1>1 DEF Setup
<1>3. Types' /\ Shape' /\ MissingGatesAreTheSlaves'
  BY KmainMoved DEF Types
<1>4. Setup'
  BY <1>2 DEF Setup
<1>5. Tables'
  BY <1>1, <1>2 DEF Tables, EarlyPcs
<1>6. Ready'
  BY <1>2 DEF Ready
<1> QED
  BY <1>2, <1>3, <1>4, <1>5, <1>6

(* A frame with nothing left to write is sound.                            *)
LEMMA SoundWithout ==
  ASSUME NEW f, f.todo = <<>> PROVE Sound(f)
BY DEF Sound

(* Setup is about these variables only.                                    *)
LEMMA SetupUnchanged ==
  ASSUME Setup, UNCHANGED <<idtr, chips, firmware>>, stack'[1] = stack[1], ~idtr => ifl' \in {ifl, FALSE}
  PROVE  Setup'
<1>1. CASE idtr
  BY <1>1 DEF Setup
<1>2. CASE ~idtr
  <2>1. ~ifl /\ stack[1].pc \in EarlyPcs
    BY <1>2 DEF Setup
  <2>2. PICK k \in 0 .. 12 :
          /\ RemapState(k)
          /\ stack[1].pc \in {"kmain", "initGDT"} => k = 0 /\ stack[1].todo = <<>>
          /\ stack[1].pc = "idtSetDesc" => stack[1].todo = RemapLeft(k)
          /\ stack[1].pc = "loadIDT" => k = 12 /\ stack[1].todo = <<>>
    BY <1>2 DEF Setup
  <2>3. RemapState(k)'
    BY <2>2 DEF RemapState
  <2>4. ifl' = ifl \/ ifl' = FALSE
    BY <1>2
  <2>5. ~ifl'
    BY <2>1, <2>4
  <2>6. stack'[1].pc \in EarlyPcs
    BY <2>1
  <2> QED
    BY <2>2, <2>3, <2>5, <2>6 DEF Setup
<1> QED
  BY <1>1, <1>2

(* halt() keeps the invariant, wherever it is called.                      *)
LEMMA Halted == ASSUME Inv, halt, UNCHANGED <<chips, tables, drivers, rest>> PROVE Inv'
<1> USE DEF Inv, halt
<1>1. Types'
  BY DEF Types
<1>2. Shape'
  BY DEF Shape
<1>3. Setup'
  <2>1. UNCHANGED <<idtr, chips, firmware, stack>> /\ ifl' \in {ifl, FALSE}
    OBVIOUS
  <2> QED
    BY <2>1, SetupUnchanged
<1>4. Tables' /\ Ready'
  BY DEF Tables, Ready
<1>5. MasksKept'
  BY DEF MasksKept, BeforeKb
<1>6. Keyboard' /\ Video'
  BY DEF Keyboard, Video, BeforeKb
<1>7. Registered' /\ MissingGatesAreTheSlaves'
  BY DEF Registered, MissingGatesAreTheSlaves
<1> QED
  BY <1>1, <1>2, <1>3, <1>4, <1>5, <1>6, <1>7

(* An exception's handler is entered: its gate is there, and after          *)
(* initVideo only code that faults gets there.                             *)
LEMMA EnteredException ==
  ASSUME Inv, machine = "running", NEW v \in (0 .. 31) \ {NotPresent}, Enter(v),
         UNCHANGED <<chips, tables, drivers, answer, firmware, raises, calls>>,
         faults' \in 0 .. MaxFaults,
         faults' >= faults, stack[1].pc \in ToVideo \/ faults' = faults + 1
  PROVE  Inv'
<1> USE DEF Inv
<1>0. /\ stack \in Seq(FrameSet) /\ Len(stack) \in Nat /\ Len(stack) >= 1
      /\ \A i \in 1 .. Len(stack) : stack[i] \in FrameSet
  BY Frames
<1>1. \/ /\ idtr /\ machine' = machine /\ ifl' = FALSE /\ v \in gates
         /\ stack' \in Seq(FrameSet) /\ Len(stack') > Len(stack) /\ Len(stack') <= Len(stack) + 1
            /\ Len(stack') \in Nat /\ Len(stack') <= StackFrames
         /\ \A i \in 1 .. Len(stack) : stack'[i] = stack[i]
         /\ stack'[Len(stack')] = Frame(v)
      \/ /\ ~idtr \/ Len(stack) = StackFrames
         /\ machine' = "overrun" /\ ifl' = FALSE /\ stack' = stack
  <2>1. idtr => v \in gates
    BY DEF Tables, EarlyPcs
  <2>2. v \in 0 .. 255
    OBVIOUS
  <2>3. CASE idtr
    <3>1. (IF v \in gates THEN v ELSE NotPresent) = v
      BY <2>1, <2>3
    <3> QED
      BY <2>1, <2>2, <2>3, <3>1, EnterStack, Zenon
  <2>4. CASE ~idtr
    BY <2>2, <2>4, EnterStack, Zenon
  <2> QED
    BY <2>3, <2>4
<1>f. Frame(v).vector = v /\ v \in 0 .. 31 /\ Frame(v).pc = "dispatch" /\ Frame(v).todo = <<>>
  <2>1. v \in 0 .. 255
    OBVIOUS
  <2> QED
    BY <2>1, FrameOf
<1>2. stack'[1] = stack[1]
  BY <1>0, <1>1
<1>3. Types'
  <2>1. machine' \in {"running", "halted", "overrun", "derailed"} /\ ifl' \in BOOLEAN
    BY <1>1
  <2>2. Len(stack') \in 1 .. StackFrames /\ stack' \in Seq(FrameSet)
    BY <1>0, <1>1, SizesAssumption DEF Types
  <2> QED
    BY <2>1, <2>2 DEF Types
<1>4. Shape'
  <2>1. ASSUME NEW i \in 2 .. Len(stack') PROVE HandlerFrame(i, stack'[i])
    <3>1. CASE i \in 1 .. Len(stack)
      BY <1>0, <1>1, <3>1 DEF Shape
    <3>2. CASE i > Len(stack)
      <4>1. stack'[i] = Frame(v)
        BY <1>0, <1>1, <3>2
      <4> QED
        BY <4>1, <1>f DEF HandlerFrame
    <3> QED
      BY <1>0, <1>1, <3>1, <3>2
  <2> QED
    BY <1>0, <1>1, <1>2, <2>1 DEF Shape
<1>5. Setup'
  <2>1. UNCHANGED <<idtr, chips, firmware>> /\ (~idtr => ifl' \in {ifl, FALSE})
    BY <1>1
  <2> QED
    BY <1>2, <2>1, SetupUnchanged
<1>6. Tables' /\ Ready'
  BY <1>2 DEF Tables, Ready
<1>7. MasksKept'
  BY <1>2 DEF MasksKept, BeforeKb
<1>8. Keyboard'
  <2>1. Len(stack) >= 2 => stack'[2] = stack[2]
    BY <1>0, <1>1
  <2>2. Len(stack) < 2 /\ Len(stack') >= 2 => stack'[2].vector \in 0 .. 31
    <3>1. CASE Len(stack) < 2 /\ Len(stack') >= 2
      <4>1. stack'[2] = Frame(v)
        BY <1>0, <1>1, <3>1
      <4> QED
        BY <4>1, <1>f
    <3> QED
      BY <3>1
  <2>3. Len(stack') >= 2 /\ stack'[2].vector = 33 => Len(stack) >= 2 /\ stack[2].vector = 33
    BY <1>0, <2>1, <2>2
  <2>4. Len(stack) >= 2 => Len(stack') >= 2
    BY <1>0, <1>1
  <2> QED
    BY <1>0, <1>2, <2>1, <2>2, <2>3, <2>4 DEF Keyboard, BeforeKb
<1>9. Video'
  <2>1. idtr /\ stack[1].pc \notin ToVideo => Len(stack) < StackFrames
    BY <1>0, SizesAssumption, EventsAssumption DEF Video, Types
  <2>2. stack[1].pc \notin ToVideo => idtr
    BY DEF Setup, ToVideo
  <2> QED
    BY <1>0, <1>1, <1>2, <2>1, <2>2 DEF Video, Types
<1>10. Registered'
  BY <1>2 DEF Registered
<1>11. MissingGatesAreTheSlaves'
  <2>1. ASSUME NEW i \in 1 .. Len(stack'), stack'[i].vector = NotPresent
        PROVE  \E j \in 1 .. Len(stack) : stack[j].vector = NotPresent
    <3>1. i # Len(stack) + 1 \/ stack' = stack
      BY <1>0, <1>1, <2>1 DEF Frame
    <3> QED
      BY <1>0, <1>1, <2>1, <3>1
  <2> QED
    BY <2>1 DEF MissingGatesAreTheSlaves
<1> QED
  BY <1>3, <1>4, <1>5, <1>6, <1>7, <1>8, <1>9, <1>10, <1>11

USE DEF KmainPcs, ToVideo, EarlyPcs

(* The invariant holds at the kernel's entry.                              *)
LEMMA InitInv == Init => Inv
<1> SUFFICES ASSUME Init PROVE Inv
  OBVIOUS
<1> USE DEF Init
<1>1. stack = <<Frame(Kmain)>> /\ stack[1] = Frame(Kmain) /\ Len(stack) <= 1 /\ Len(stack) >= 1
  OBVIOUS
<1>2. /\ stack[1] \in FrameSet /\ stack[1].vector = Kmain /\ stack[1].pc = "kmain"
      /\ stack[1].todo = <<>> /\ stack[1].saved = <<>> /\ stack[1].cmd = 0
  BY <1>1, EmptySeq DEF Frame, FrameSet
<1>3. PICK m \in FirmwareMasks : /\ firmware = m /\ m \in [Chips -> SUBSET Lines] /\ 1 \in m["MASTER"]
         /\ chips = [c \in Chips |-> [step |-> "ready", offset |-> IF c = "MASTER" THEN 8 ELSE 112,
                                    mask |-> m[c], irr |-> {}, isr |-> {}, reads |-> "irr"]]
  BY AnswersAssumption
<1>4. Types
  <2>1. chips \in [Chips -> Chip]
    BY <1>3 DEF Chip
  <2>2. stack \in Seq(FrameSet) /\ Len(stack) \in 1 .. StackFrames
    BY <1>1, <1>2, SizesAssumption, EventsAssumption
  <2>3. irqHandlers \in [0 .. 15 -> {"NULL", "kbHandler"}]
    OBVIOUS
  <2>4. /\ machine = "running" /\ ifl = FALSE /\ idtr = FALSE /\ fb = "NULL" /\ keyCallback = "NULL"
        /\ answer \in Answers /\ firmware \in FirmwareMasks
    BY <1>3
  <2>5. raises \in Nat /\ calls \in Nat /\ faults \in 0 .. MaxFaults
    BY EventsAssumption
  <2> HIDE DEF Init
  <2> QED
    BY <2>1, <2>2, <2>3, <2>4, <2>5 DEF Types
<1>5. Shape
  BY <1>1, <1>2 DEF Shape
<1>6. Setup
  <2>1. RemapState(0)
    BY <1>2, <1>3, EmptySeq DEF RemapState, StepAfter, SavedMasks
  <2> QED
    BY <1>2, <2>1 DEF Setup
<1>7. Tables /\ Ready
  BY <1>2 DEF Tables, Ready
<1>8. MasksKept
  BY DEF MasksKept
<1>9. Keyboard
  BY <1>1, <1>2, <1>3 DEF Keyboard
<1>10. Video
  BY <1>2 DEF Video
<1>11. Registered
  <2>1. shellCmdCount = 0 /\ DOMAIN table = 0 .. MAX_COMMANDS - 1
    OBVIOUS
  <2> HIDE DEF Init
  <2>2. shellCmdCount = IF stack[1].cmd < MAX_COMMANDS THEN stack[1].cmd ELSE MAX_COMMANDS
    BY <1>2, <2>1, SizesAssumption
  <2>3. \A i \in 0 .. shellCmdCount - 1 : FALSE
    BY <2>1
  <2> QED
    BY <1>2, <2>1, <2>2, <2>3 DEF Registered
<1>12. MissingGatesAreTheSlaves
  BY <1>1, <1>2 DEF MissingGatesAreTheSlaves
<1> HIDE DEF Init
<1> QED
  BY <1>4, <1>5, <1>6, <1>7, <1>8, <1>9, <1>10, <1>11, <1>12 DEF Inv

(* Each step of kmain keeps the invariant.                                 *)
LEMMA Step_kmain == Inv /\ kmain => Inv'
<1> SUFFICES ASSUME Inv, kmain PROVE Inv'
  OBVIOUS
<1> USE DEF Inv
<1>0. Executes(Kmain, "kmain")
  BY DEF kmain
<1>1. /\ stack[1].pc = "kmain" /\ stack[1].todo = <<>> /\ machine = "running" /\ stack[1] \in FrameSet
  BY <1>0, KmainOnTop
<1>2. CASE Goto("initGDT") /\ UNCHANGED <<machine, ifl>>
  <2>0. /\ stack' \in Seq(FrameSet) /\ Len(stack') < 2 /\ Len(stack') >= 1 /\ stack'[1] \in FrameSet
        /\ stack'[1] = [stack[1] EXCEPT !.pc = "initGDT"]
    BY <1>0, <1>2, KmainGoto
  <2>a. /\ stack'[1].pc = "initGDT" /\ stack'[1].todo = <<>> /\ stack'[1].saved = stack[1].saved
        /\ stack'[1].cmd = stack[1].cmd /\ stack'[1].vector = Kmain
    BY <1>1, <2>0 DEF FrameSet, Shape
  <2>b. UNCHANGED <<machine, ifl, chips, tables, drivers, rest>>
    BY <1>2 DEF kmain
  <2>1. Types' /\ Shape' /\ MissingGatesAreTheSlaves'
    BY <1>0, <2>0, <2>a, <2>b, KmainMoved DEF Types
  <2>3. Setup'
    BY <1>1, <2>0, <2>a, <2>b DEF Setup, RemapState
  <2>4. Tables'
    BY <1>1, <2>0, <2>a, <2>b DEF Tables
  <2>5. Ready' /\ MasksKept'
    BY <1>1, <2>0, <2>a, <2>b DEF Ready, Tables, MasksKept
  <2>7. Keyboard'
    BY <1>1, <2>0, <2>a, <2>b DEF Keyboard, BeforeKb
  <2>8. Video'
    BY <1>1, <2>0, <2>a, <2>b DEF Video
  <2>9. Registered'
    BY <1>1, <2>0, <2>a, <2>b DEF Registered
  <2> QED
    BY <2>1, <2>3, <2>4, <2>5, <2>7, <2>8, <2>9
<1>3. CASE halt
  BY <1>3, Halted DEF kmain
<1> QED
  BY <1>2, <1>3 DEF kmain

(* The PICs are as the boot loader left them when picRemap starts.         *)
LEMMA Step_initGDT == Inv /\ initGDT => Inv'
<1> SUFFICES ASSUME Inv, initGDT PROVE Inv'
  OBVIOUS
<1> USE DEF Inv
<1>0. Executes(Kmain, "initGDT") /\ Remap \in Seq(Access) /\ GotoVia("idtSetDesc", Remap)
  BY RemapProgram DEF initGDT, Remap
<1>1. /\ stack[1].pc = "initGDT" /\ stack[1].todo = <<>> /\ machine = "running" /\ stack[1] \in FrameSet
  BY SMTT(30), <1>0, KmainOnTop
<1>2. /\ stack' \in Seq(FrameSet) /\ Len(stack') < 2 /\ Len(stack') >= 1 /\ stack'[1] \in FrameSet
      /\ stack'[1] = [stack[1] EXCEPT !.pc = "idtSetDesc", !.todo = Remap, !.saved = <<>>]
  BY <1>0, KmainGotoVia
<1>3. /\ stack'[1].pc = "idtSetDesc" /\ stack'[1].todo = RemapLeft(0) /\ stack'[1].saved = <<>>
      /\ stack'[1].cmd = stack[1].cmd /\ stack'[1].vector = Kmain
  BY <1>1, <1>2, RemapProgram DEF FrameSet, Shape
<1>4. UNCHANGED <<machine, ifl, chips, gates, idtr, drivers, rest>> /\ gdt' = Descriptors /\ segments' = loadGDT
  BY DEF initGDT
<1>5. Types' /\ Shape' /\ MissingGatesAreTheSlaves'
  BY <1>0, <1>2, <1>3, <1>4, KmainMoved DEF Types
<1>6. Setup'
  <2>1. ~idtr /\ ~ifl /\ RemapState(0)
    BY <1>1 DEF Setup, Tables
  <2>2. RemapState(0)'
    BY <1>3, <1>4, <2>1, EmptySeq DEF RemapState, SavedMasks
  <2> QED
    BY <1>3, <1>4, <2>1, <2>2 DEF Setup
<1>7. Tables' /\ ~idtr'
  BY <1>1, <1>3, <1>4 DEF Tables
<1>8. Ready' /\ MasksKept'
  BY <1>7 DEF Ready, MasksKept
<1>9. Keyboard' /\ Video' /\ Registered'
  BY <1>1, <1>2, <1>3, <1>4 DEF Keyboard, BeforeKb, Video, Registered
<1> QED
  BY <1>5, <1>6, <1>7, <1>8, <1>9

(* picRemap is done when the gates are set.                                *)
LEMMA Step_idtSetDesc == Inv /\ idtSetDesc => Inv'
<1> SUFFICES ASSUME Inv, idtSetDesc PROVE Inv'
  OBVIOUS
<1> USE DEF Inv
<1>0. Executes(Kmain, "idtSetDesc") /\ Goto("loadIDT")
  BY DEF idtSetDesc
<1>1. /\ stack[1].pc = "idtSetDesc" /\ stack[1].todo = <<>> /\ machine = "running" /\ stack[1] \in FrameSet
  BY <1>0, KmainOnTop
<1>2. /\ stack' \in Seq(FrameSet) /\ Len(stack') < 2 /\ Len(stack') >= 1 /\ stack'[1] \in FrameSet
      /\ stack'[1] = [stack[1] EXCEPT !.pc = "loadIDT"]
  BY <1>0, KmainGoto
<1>3. /\ stack'[1].pc = "loadIDT" /\ stack'[1].todo = <<>> /\ stack'[1].saved = stack[1].saved
      /\ stack'[1].cmd = stack[1].cmd /\ stack'[1].vector = Kmain
  BY <1>1, <1>2 DEF FrameSet, Shape
<1>4. UNCHANGED <<machine, ifl, chips, gdt, segments, idtr, drivers, rest>>
  BY DEF idtSetDesc
<1>5. gates' = 0 .. 47
  <2>1. gates' = (0 .. 31) \cup {32 + i : i \in 0 .. 15}
    BY DEF idtSetDesc
  <2>2. \A v \in 32 .. 47 : v = 32 + (v - 32) /\ v - 32 \in 0 .. 15
    OBVIOUS
  <2> QED
    BY <2>1, <2>2
<1>6. Types' /\ Shape' /\ MissingGatesAreTheSlaves'
  BY <1>0, <1>2, <1>3, <1>4, KmainMoved DEF Types
<1>7. Setup'
  <2>1. ~idtr /\ ~ifl
    BY <1>1 DEF Setup, Tables
  <2>2. PICK k \in 0 .. 12 : RemapState(k) /\ RemapLeft(k) = <<>>
    BY <1>1, <2>1 DEF Setup
  <2>3. k = 12
    <3>1. k \notin 0 .. 11
      BY <2>2, RemapProgram
    <3> QED
      BY <3>1
  <2>4. RemapState(12)'
    BY <1>3, <1>4, <2>2, <2>3 DEF RemapState
  <2> QED
    BY <1>3, <1>4, <2>1, <2>4 DEF Setup
<1>8. Tables' /\ ~idtr'
  BY <1>1, <1>3, <1>4, <1>5 DEF Tables
<1>9. Ready' /\ MasksKept'
  BY <1>8 DEF Ready, MasksKept
<1>10. Keyboard' /\ Video' /\ Registered'
  BY <1>1, <1>2, <1>3, <1>4 DEF Keyboard, BeforeKb, Video, Registered
<1> QED
  BY <1>6, <1>7, <1>8, <1>9, <1>10

(* Interrupts are turned on over all that.                                 *)
LEMMA Step_loadIDT == Inv /\ loadIDT => Inv'
<1> SUFFICES ASSUME Inv, loadIDT PROVE Inv'
  OBVIOUS
<1> USE DEF Inv
<1>0. Executes(Kmain, "loadIDT") /\ Goto("initPMM")
  BY DEF loadIDT
<1>1. /\ stack[1].pc = "loadIDT" /\ stack[1].todo = <<>> /\ machine = "running" /\ stack[1] \in FrameSet
  BY <1>0, KmainOnTop
<1>2. /\ stack' \in Seq(FrameSet) /\ Len(stack') < 2 /\ Len(stack') >= 1 /\ stack'[1] \in FrameSet
      /\ stack'[1] = [stack[1] EXCEPT !.pc = "initPMM"]
  BY <1>0, KmainGoto
<1>3. /\ stack'[1].pc = "initPMM" /\ stack'[1].todo = <<>> /\ stack'[1].saved = stack[1].saved
      /\ stack'[1].cmd = stack[1].cmd /\ stack'[1].vector = Kmain
  BY <1>1, <1>2 DEF FrameSet, Shape
<1>4. UNCHANGED <<machine, chips, gdt, segments, gates, drivers, rest>> /\ idtr' = TRUE /\ ifl' = TRUE
  BY DEF loadIDT
<1>5. Types' /\ Shape' /\ MissingGatesAreTheSlaves'
  BY <1>0, <1>2, <1>3, <1>4, KmainMoved DEF Types
<1>6. Setup'
  BY <1>4 DEF Setup
<1>7. RemapState(12)
  BY <1>1 DEF Setup, Tables
<1>8. Tables'
  BY <1>1, <1>3, <1>4 DEF Tables
<1>9. Ready'
  BY <1>3, <1>4, <1>7, SoundWithout DEF Ready, RemapState, StepAfter
<1>10. MasksKept'
  BY <1>3, <1>4, <1>7 DEF MasksKept, RemapState, BeforeKb
<1>11. Keyboard' /\ Video' /\ Registered'
  BY <1>1, <1>2, <1>3, <1>4 DEF Keyboard, BeforeKb, Video, Registered
<1> QED
  BY <1>5, <1>6, <1>8, <1>9, <1>10, <1>11

(* A NULL map is a page fault, anything else goes on.                      *)
LEMMA Step_initPMM == Inv /\ initPMM => Inv'
<1> SUFFICES ASSUME Inv, initPMM PROVE Inv'
  OBVIOUS
<1> USE DEF Inv
<1>0. Executes(Kmain, "initPMM")
  BY DEF initPMM
<1>1. /\ stack[1].pc = "initPMM" /\ stack[1].todo = <<>> /\ machine = "running" /\ stack[1] \in FrameSet
  BY <1>0, KmainOnTop
<1>2. CASE answer.memmap = "NULL"
  BY <1>1, <1>2, EnteredException DEF initPMM, Types
<1>3. CASE answer.memmap # "NULL"
  <2>1. Goto("initVideo") /\ UNCHANGED <<machine, ifl, chips, tables, drivers, rest>>
    BY <1>3 DEF initPMM
  <2>2. /\ stack' \in Seq(FrameSet) /\ Len(stack') < 2 /\ Len(stack') >= 1 /\ stack'[1] \in FrameSet
        /\ stack'[1] = [stack[1] EXCEPT !.pc = "initVideo"]
    BY <1>0, <2>1, KmainGoto
  <2>3. /\ stack'[1].pc = "initVideo" /\ stack'[1].todo = <<>> /\ stack'[1].saved = stack[1].saved
        /\ stack'[1].cmd = stack[1].cmd /\ stack'[1].vector = Kmain
    BY <1>1, <2>2 DEF FrameSet, Shape
  <2>s. Sound(stack'[1]) /\ stack'[1].pc \in KmainPcs \ EarlyPcs
    BY <2>3, SoundWithout
  <2>t. /\ calls' \in Nat /\ fb' \in {"NULL", "framebuffer"}
        /\ irqHandlers' \in [0 .. 15 -> {"NULL", "kbHandler"}]
        /\ keyCallback' \in {"NULL", "shellKeyCallback"}
    BY <2>1 DEF Types
  <2>4. idtr /\ Types' /\ Shape' /\ Setup' /\ Tables' /\ Ready' /\ MissingGatesAreTheSlaves'
    <3>1. UNCHANGED <<machine, ifl, chips, tables, answer, firmware, raises, faults>>
      BY <2>1
    <3>2. "initPMM" \notin EarlyPcs /\ stack'[1].vector = Kmain
      BY <2>3
    <3> QED
      BY <1>0, <3>1, <3>2, <2>2, <2>s, <2>t, KmainMovedLate
  <2>5. MasksKept'
    BY <1>1, <2>1, <2>3, <2>4 DEF MasksKept, BeforeKb
  <2>6. Keyboard' /\ Video' /\ Registered'
    BY <1>1, <2>1, <2>2, <2>3 DEF Keyboard, BeforeKb, Video, Registered
  <2> QED
    BY <2>4, <2>5, <2>6
<1> QED
  BY <1>2, <1>3

(* Behind initVideo there is a framebuffer.                                *)
LEMMA Step_initVideo == Inv /\ initVideo => Inv'
<1> SUFFICES ASSUME Inv, initVideo PROVE Inv'
  OBVIOUS
<1> USE DEF Inv
<1>0. Executes(Kmain, "initVideo")
  BY DEF initVideo
<1>1. /\ stack[1].pc = "initVideo" /\ stack[1].todo = <<>> /\ machine = "running" /\ stack[1] \in FrameSet
      /\ Len(stack) < 2
  BY <1>0, KmainOnTop
<1>2. CASE answer.framebuffer = "no response"
  <2>1. Enter(PageFault) /\ UNCHANGED <<chips, tables, drivers, rest>>
    BY <1>2 DEF initVideo
  <2> QED
    BY <1>1, <2>1, EnteredException DEF Types
<1>3. CASE answer.framebuffer = "NULL"
  <2>1. halt /\ UNCHANGED <<chips, tables, drivers, rest>>
    BY <1>3 DEF initVideo
  <2> QED
    BY <2>1, Halted
<1>4. CASE answer.framebuffer \notin {"no response", "NULL"}
  <2>1. /\ Goto("register") /\ fb' = answer.framebuffer
        /\ UNCHANGED <<machine, ifl, chips, tables, irqHandlers, keyCallback, table, shellCmdCount, rest>>
    BY <1>4 DEF initVideo
  <2>2. /\ stack' \in Seq(FrameSet) /\ Len(stack') < 2 /\ Len(stack') >= 1 /\ stack'[1] \in FrameSet
        /\ stack'[1] = [stack[1] EXCEPT !.pc = "register"]
    BY <1>0, <2>1, KmainGoto
  <2>3. /\ stack'[1].pc = "register" /\ stack'[1].todo = <<>> /\ stack'[1].saved = stack[1].saved
        /\ stack'[1].cmd = stack[1].cmd /\ stack'[1].vector = Kmain
    BY <1>1, <2>2 DEF FrameSet, Shape
  <2>4. fb' = "framebuffer"
    BY <1>4, <2>1, AnswersAssumption DEF Types
  <2>s. Sound(stack'[1]) /\ stack'[1].pc \in KmainPcs \ EarlyPcs
    BY <2>3, SoundWithout
  <2>t. /\ calls' \in Nat /\ fb' \in {"NULL", "framebuffer"}
        /\ irqHandlers' \in [0 .. 15 -> {"NULL", "kbHandler"}]
        /\ keyCallback' \in {"NULL", "shellKeyCallback"}
    BY <2>1, <2>4 DEF Types
  <2>5. idtr /\ Types' /\ Shape' /\ Setup' /\ Tables' /\ Ready' /\ MissingGatesAreTheSlaves'
    <3>1. "initVideo" \notin EarlyPcs
      OBVIOUS
    <3>2. UNCHANGED <<machine, ifl, chips, tables, answer, firmware, raises, faults>>
      BY <2>1
    <3> HIDE DEF EarlyPcs, KmainPcs, ToVideo, Inv
    <3> QED
      BY <1>0, <2>2, <2>3, <2>s, <2>t, <3>1, <3>2, KmainMovedLate
  <2>6. stack[1].cmd = 0
    BY <1>1 DEF Registered
  <2>7. MasksKept'
    BY <1>1, <2>1, <2>3, <2>5, <2>6 DEF MasksKept, BeforeKb
  <2>8. Keyboard'
    BY <1>1, <2>1, <2>2, <2>3, <2>6 DEF Keyboard, BeforeKb
  <2>9. Video'
    BY <1>1, <2>1, <2>2, <2>3, <2>4 DEF Video, Types
  <2>10. Registered'
    BY <1>1, <2>1, <2>2, <2>3, <2>6, SizesAssumption DEF Registered
  <2> QED
    BY <2>5, <2>7, <2>8, <2>9, <2>10
<1> QED
  BY <1>2, <1>3, <1>4

(* A field goes into an entry that is not counted yet.                     *)
LEMMA Step_storeField == Inv /\ storeField => Inv'
<1> SUFFICES ASSUME Inv, storeField PROVE Inv'
  OBVIOUS
<1> USE DEF Inv
<1>1. /\ UNCHANGED <<machine, ifl, chips, tables, irqHandlers, keyCallback, fb, shellCmdCount, stack, rest>>
      /\ \E e : table' = [table EXCEPT ![shellCmdCount] = e]
  BY DEF storeField
<1>2. Types' /\ Shape' /\ MissingGatesAreTheSlaves'
  BY <1>1 DEF Types, Shape, MissingGatesAreTheSlaves
<1>3. Setup'
  BY <1>1, SetupUnchanged
<1>4. Tables' /\ Ready' /\ MasksKept'
  BY <1>1 DEF Tables, Ready, MasksKept, BeforeKb
<1>5. Keyboard' /\ Video'
  BY <1>1 DEF Keyboard, BeforeKb, Video
<1>6. Registered'
  <2>1. DOMAIN table' = DOMAIN table
    BY <1>1
  <2>2. \A i \in 0 .. shellCmdCount - 1 : table'[i] = table[i]
    <3>1. shellCmdCount \in Nat
      BY SizesAssumption, Frames DEF Registered, FrameSet
    <3> QED
      BY <1>1, <3>1 DEF Registered
  <2> QED
    BY <1>1, <2>1, <2>2 DEF Registered
<1> QED
  BY <1>2, <1>3, <1>4, <1>5, <1>6

(* What kmain's frame is when it has registered a command.                 *)
LEMMA KmainNextCommand ==
  ASSUME Inv, Executes(Kmain, "register"), NextCommand
  PROVE  /\ stack' \in Seq(FrameSet) /\ Len(stack') < 2 /\ Len(stack') >= 1 /\ stack'[1] \in FrameSet
         /\ stack'[1].todo = <<>> /\ stack'[1].vector = Kmain /\ stack'[1].cmd = stack[1].cmd + 1
         /\ stack[1].cmd \in Nat /\ stack[1].cmd < Len(Commands)
         /\ \/ stack[1].cmd = 0 /\ stack'[1].pc = "initKb"
            \/ /\ stack[1].cmd > 0 /\ stack[1].cmd + 1 = Len(Commands) /\ stack'[1].pc = "prompt"
            \/ /\ stack[1].cmd > 0 /\ stack[1].cmd + 1 < Len(Commands) /\ stack'[1].pc = "register"
<1> USE DEF Inv
<1>1. /\ Len(stack) \in Nat /\ Len(stack) >= 1 /\ Len(stack) < 2 /\ top = stack[1]
      /\ stack[1].pc = "register" /\ stack[1].todo = <<>> /\ stack[1] \in FrameSet
  BY KmainOnTop
<1>2. /\ stack[1].cmd \in Nat /\ stack[1].cmd < Len(Commands) /\ stack[1].vector = Kmain
      /\ Len(Commands) \in Nat /\ Len(Commands) >= 2
  BY <1>1, SizesAssumption DEF FrameSet, Registered, Shape
<1> DEFINE n == stack[1].cmd + 1
           pc == CASE n = 1 -> "initKb" [] n = Len(Commands) -> "prompt" [] OTHER -> "register"
           f == [stack[1] EXCEPT !.cmd = n, !.pc = pc]
<1>3. \/ stack[1].cmd = 0 /\ pc = "initKb"
      \/ stack[1].cmd > 0 /\ stack[1].cmd + 1 = Len(Commands) /\ pc = "prompt"
      \/ stack[1].cmd > 0 /\ stack[1].cmd + 1 < Len(Commands) /\ pc = "register"
  BY <1>2
<1>4. pc \in KmainPcs /\ n \in Nat
  BY <1>2, <1>3
<1>5. stack' = [stack EXCEPT ![Len(stack)] = f]
  <2>1. top = stack[1] /\ stack[Len(stack)] = stack[1]
    BY <1>1 DEF top
  <2> HIDE DEF top
  <2>2. stack' = [stack EXCEPT ![Len(stack)] = [stack[Len(stack)] EXCEPT !.cmd = top.cmd + 1, !.pc =
           CASE top.cmd + 1 = 1 -> "initKb" [] top.cmd + 1 = Len(Commands) -> "prompt" [] OTHER -> "register"]]
    BY Zenon DEF NextCommand
  <2> QED
    BY <2>1, <2>2, Zenon
<1> HIDE DEF pc
<1>6. f \in FrameSet /\ f.cmd = n /\ f.pc = pc /\ f.todo = <<>> /\ f.vector = Kmain
  BY ZenonT(40), <1>1, <1>2, <1>4 DEF FrameSet
<1> HIDE DEF f
<1>7. stack' \in Seq(FrameSet) /\ Len(stack') = Len(stack) /\ stack'[Len(stack)] = f
  BY <1>1, <1>5, <1>6, ExceptSeq DEF Types
<1>8. stack' \in Seq(FrameSet) /\ Len(stack') < 2 /\ Len(stack') >= 1 /\ stack'[1] = f
  BY <1>1, <1>7
<1> QED
  BY <1>2, <1>3, <1>6, <1>8

(* What both ways through shellRegisterCmd leave behind: the number of      *)
(* commands counted or dropped, and everything else as it was.             *)
LEMMA CommandDone ==
  ASSUME Inv, Executes(Kmain, "register"), NextCommand,
         UNCHANGED <<machine, ifl, chips, tables, irqHandlers, keyCallback, fb, table, rest>>,
         Registered'
  PROVE  Inv'
<1> USE DEF Inv
<1>1. stack[1].pc = "register" /\ stack[1].todo = <<>> /\ Len(stack) < 2
  BY KmainOnTop
<1>2. /\ stack' \in Seq(FrameSet) /\ Len(stack') < 2 /\ Len(stack') >= 1 /\ stack'[1] \in FrameSet
      /\ stack'[1].todo = <<>> /\ stack'[1].vector = Kmain
      /\ stack'[1].pc \in {"initKb", "prompt", "register"}
      /\ stack[1].cmd \in Nat /\ stack'[1].cmd = stack[1].cmd + 1
      /\ stack'[1].pc = "initKb" <=> stack[1].cmd = 0
  BY KmainNextCommand
<1>3. Sound(stack'[1]) /\ stack'[1].pc \in KmainPcs \ EarlyPcs /\ "register" \notin EarlyPcs
  BY <1>2, SoundWithout
<1>4. /\ calls' \in Nat /\ fb' \in {"NULL", "framebuffer"}
      /\ irqHandlers' \in [0 .. 15 -> {"NULL", "kbHandler"}]
      /\ keyCallback' \in {"NULL", "shellKeyCallback"}
  BY DEF Types
<1>5. UNCHANGED <<machine, ifl, chips, tables, answer, firmware, raises, faults>>
  OBVIOUS
<1>6. idtr /\ Types' /\ Shape' /\ Setup' /\ Tables' /\ Ready' /\ MissingGatesAreTheSlaves'
  BY <1>2, <1>3, <1>4, <1>5, KmainMovedLate
<1>7. BeforeKb' <=> BeforeKb
  BY <1>1, <1>2 DEF BeforeKb
<1>8. MasksKept'
  BY <1>1, <1>2, <1>6, <1>7 DEF MasksKept
<1>9. Keyboard'
  BY <1>1, <1>2, <1>7 DEF Keyboard
<1>10. Video'
  BY <1>1, <1>2 DEF Video, Types
<1> QED
  BY <1>6, <1>8, <1>9, <1>10

(* The entry that is counted is complete.                                  *)
LEMMA Step_countCommand == Inv /\ countCommand => Inv'
<1> SUFFICES ASSUME Inv, countCommand PROVE Inv'
  OBVIOUS
<1>1. /\ Executes(Kmain, "register") /\ shellCmdCount # MAX_COMMANDS /\ NextCommand
      /\ table[shellCmdCount] = {<<Commands[top.cmd + 1], f>> : f \in {Fields[i] : i \in 1 .. 3}}
      /\ shellCmdCount' = shellCmdCount + 1
      /\ UNCHANGED <<machine, ifl, chips, tables, irqHandlers, keyCallback, fb, table, rest>>
  BY DEF countCommand
<1>2. /\ stack'[1].cmd = stack[1].cmd + 1 /\ stack[1].cmd \in Nat /\ stack[1].cmd < Len(Commands)
      /\ \/ stack[1].cmd = 0 /\ stack'[1].pc = "initKb"
         \/ /\ stack[1].cmd > 0 /\ stack[1].cmd + 1 = Len(Commands) /\ stack'[1].pc = "prompt"
         \/ /\ stack[1].cmd > 0 /\ stack[1].cmd + 1 < Len(Commands) /\ stack'[1].pc = "register"
  BY <1>1, KmainNextCommand
<1>3. shellCmdCount = stack[1].cmd /\ stack[1].cmd < MAX_COMMANDS /\ top = stack[1]
  BY <1>1, <1>2, SizesAssumption, KmainOnTop DEF Inv, Registered
<1>4. Registered'
  <2>1. shellCmdCount' = IF stack'[1].cmd < MAX_COMMANDS THEN stack'[1].cmd ELSE MAX_COMMANDS
    BY <1>1, <1>2, <1>3, SizesAssumption
  <2>2. table[shellCmdCount] = {<<Commands[shellCmdCount + 1], Fields[k]>> : k \in 1 .. 3}
    BY <1>1, <1>3
  <2>3. ASSUME NEW i \in 0 .. shellCmdCount' - 1
        PROVE  table'[i] = {<<Commands[i + 1], Fields[k]>> : k \in 1 .. 3}
    <3>1. CASE i \in 0 .. shellCmdCount - 1
      BY <1>1, <3>1 DEF Inv, Registered
    <3>2. CASE i = shellCmdCount
      BY <1>1, <2>2, <3>2
    <3> QED
      BY <1>1, <1>2, <1>3, <3>1, <3>2
  <2>4. DOMAIN table' = 0 .. MAX_COMMANDS - 1
    BY <1>1 DEF Inv, Registered
  <2>5. Len(Commands) \in Nat
    BY SizesAssumption
  <2> QED
    BY <1>2, <2>1, <2>3, <2>4, <2>5 DEF Registered
<1> QED
  BY <1>1, <1>4, CommandDone

(* A full table stays as it is.                                            *)
LEMMA Step_tableFull == Inv /\ tableFull => Inv'
<1> SUFFICES ASSUME Inv, tableFull PROVE Inv'
  OBVIOUS
<1>1. /\ Executes(Kmain, "register") /\ shellCmdCount = MAX_COMMANDS /\ NextCommand
      /\ UNCHANGED <<machine, ifl, chips, tables, drivers, rest>>
  BY DEF tableFull
<1>2. /\ stack'[1].cmd = stack[1].cmd + 1 /\ stack[1].cmd \in Nat /\ stack[1].cmd < Len(Commands)
      /\ \/ stack[1].cmd = 0 /\ stack'[1].pc = "initKb"
         \/ /\ stack[1].cmd > 0 /\ stack[1].cmd + 1 = Len(Commands) /\ stack'[1].pc = "prompt"
         \/ /\ stack[1].cmd > 0 /\ stack[1].cmd + 1 < Len(Commands) /\ stack'[1].pc = "register"
  BY <1>1, KmainNextCommand
<1>3. Registered'
  <2>1. shellCmdCount' = IF stack'[1].cmd < MAX_COMMANDS THEN stack'[1].cmd ELSE MAX_COMMANDS
    BY <1>1, <1>2, SizesAssumption DEF Inv, Registered
  <2>2. /\ \A i \in 0 .. shellCmdCount' - 1 :
              table'[i] = {<<Commands[i + 1], Fields[k]>> : k \in 1 .. 3}
        /\ DOMAIN table' = 0 .. MAX_COMMANDS - 1
    BY <1>1 DEF Inv, Registered
  <2>3. Len(Commands) \in Nat
    BY SizesAssumption
  <2> QED
    BY <1>2, <2>1, <2>2, <2>3 DEF Registered
<1> QED
  BY <1>1, <1>3, CommandDone

(* The driver's programs leave the PICs in order, whatever was read.       *)
LEMMA Programs ==
  ASSUME NEW f, \/ \E n \in 0 .. 15 : f.todo \in {picMask(n), picUnmask(n)}
                \/ f.todo \in {picGetIRR, picGetISR, picDisable, <<>>}
  PROVE  f.todo \in Seq(Access) /\ Sound(f)
<1>0. /\ \A c \in Chips, p \in {"CMD", "DATA"} : In(c, p) \in Access
      /\ \A c \in Chips, p \in {"CMD", "DATA"}, v \in Values : Out(c, p, v) \in Access
  BY DEF In, Out, Access, Values
<1>1. CASE \E n \in 0 .. 15 : f.todo \in {picMask(n), picUnmask(n)}
  <2>1. PICK n \in 0 .. 15 : f.todo \in {picMask(n), picUnmask(n)}
    BY <1>1
  <2>2. ChipOf(n) \in Chips /\ LineOf(n) \in Lines
    BY DEF ChipOf, LineOf
  <2>3. PICK k \in {"SAVED_WITH", "SAVED_WITHOUT"} :
          f.todo = <<In(ChipOf(n), "DATA"), Out(ChipOf(n), "DATA", <<k, LineOf(n)>>)>>
    BY <2>1 DEF picMask, picUnmask
  <2> DEFINE c == ChipOf(n)
             v == <<k, LineOf(n)>>
             a == In(c, "DATA")
             b == Out(c, "DATA", v)
  <2>4. v \in Values /\ v \in {"SAVED_WITH", "SAVED_WITHOUT"} \X Lines
    BY <2>2 DEF Values
  <2>5. a \in Access /\ b \in Access
    BY <1>0, <2>2, <2>4
  <2>6. Harmless(a) /\ a.op = "in" /\ ~FromSaved(a) /\ Harmless(b)
    BY <2>4 DEF Harmless, In, Out, FromSaved
  <2>7. f.todo = <<a, b>>
    BY <2>3
  <2> HIDE DEF a, b
  <2> QED
    BY <2>5, <2>6, <2>7 DEF Sound
<1>2. CASE f.todo \in {picGetIRR, picGetISR}
  <2>1. PICK r \in {"irr", "isr"} : f.todo = picGetIrqReg(r)
    BY <1>2 DEF picGetIRR, picGetISR
  <2> DEFINE v == <<"PIC_OCW3_READ", r>>
             a == Out("MASTER", "CMD", v)
             b == Out("SLAVE", "CMD", v)
             c == In("SLAVE", "CMD")
             d == In("MASTER", "CMD")
  <2>2. v \in Values /\ v \in {"PIC_OCW3_READ"} \X {"irr", "isr"}
    BY DEF Values
  <2>3. a \in Access /\ b \in Access /\ c \in Access /\ d \in Access
    BY <1>0, <2>2
  <2>4. \A x \in {a, b, c, d} : Harmless(x) /\ ~FromSaved(x)
    BY <2>2 DEF Harmless, In, Out, FromSaved
  <2>5. f.todo = <<a, b, c, d>>
    BY <2>1 DEF picGetIrqReg
  <2> HIDE DEF a, b, c, d
  <2> QED
    BY <2>3, <2>4, <2>5 DEF Sound
<1>3. CASE f.todo = picDisable
  <2> DEFINE v == <<"MASK", Lines>>
             a == Out("MASTER", "DATA", v)
             b == Out("SLAVE", "DATA", v)
  <2>2. v \in Values
    BY DEF Values
  <2>3. a \in Access /\ b \in Access
    BY <1>0, <2>2
  <2>4. \A x \in {a, b} : Harmless(x) /\ ~FromSaved(x)
    BY <2>2 DEF Harmless, In, Out, FromSaved
  <2>5. f.todo = <<a, b>>
    BY <1>3 DEF picDisable
  <2> HIDE DEF a, b
  <2> QED
    BY <2>3, <2>4, <2>5 DEF Sound
<1>4. CASE f.todo = <<>>
  BY <1>4, SoundWithout, EmptySeq
<1> QED
  BY <1>1, <1>2, <1>3, <1>4

(* The handler is there before the line is opened.                         *)
LEMMA Step_initKb == Inv /\ initKb => Inv'
<1> SUFFICES ASSUME Inv, initKb PROVE Inv'
  OBVIOUS
<1> USE DEF Inv
<1> DEFINE p == picUnmask(1)
<1>p. p \in Seq(Access) /\ \A f : f.todo = p => Sound(f)
  <2>1. [todo |-> p].todo = p
    OBVIOUS
  <2>2. 1 \in 0 .. 15
    OBVIOUS
  <2> QED
    BY <2>1, <2>2, Programs
<1> HIDE DEF p
<1>0. Executes(Kmain, "initKb") /\ GotoVia("callback", p)
  BY DEF initKb, p
<1>1. /\ stack[1].pc = "initKb" /\ stack[1].todo = <<>> /\ machine = "running" /\ stack[1] \in FrameSet
      /\ Len(stack) < 2
  BY <1>0, KmainOnTop
<1>2. /\ stack' \in Seq(FrameSet) /\ Len(stack') < 2 /\ Len(stack') >= 1 /\ stack'[1] \in FrameSet
      /\ stack'[1] = [stack[1] EXCEPT !.pc = "callback", !.todo = p, !.saved = <<>>]
  BY <1>0, <1>p, KmainGotoVia
<1>3. /\ stack'[1].pc = "callback" /\ stack'[1].todo = p /\ stack'[1].saved = <<>>
      /\ stack'[1].cmd = stack[1].cmd /\ stack'[1].vector = Kmain
  BY <1>1, <1>2 DEF FrameSet, Shape
<1>4. /\ UNCHANGED <<machine, ifl, chips, tables, keyCallback, fb, table, shellCmdCount, rest>>
      /\ irqHandlers' = [irqHandlers EXCEPT ![1] = "kbHandler"]
  BY DEF initKb
<1>5. Sound(stack'[1]) /\ stack'[1].pc \in KmainPcs \ EarlyPcs /\ "initKb" \notin EarlyPcs
  BY <1>3, <1>p
<1>6. /\ calls' \in Nat /\ fb' \in {"NULL", "framebuffer"}
      /\ irqHandlers' \in [0 .. 15 -> {"NULL", "kbHandler"}]
      /\ keyCallback' \in {"NULL", "shellKeyCallback"}
  BY <1>4 DEF Types
<1>7. idtr /\ Types' /\ Shape' /\ Setup' /\ Tables' /\ Ready' /\ MissingGatesAreTheSlaves'
  <2>1. UNCHANGED <<machine, ifl, chips, tables, answer, firmware, raises, faults>>
    BY <1>4
  <2> QED
    BY <1>0, <1>2, <1>3, <1>5, <1>6, <2>1, KmainMovedLate
<1>8. BeforeKb /\ ~BeforeKb'
  BY <1>1, <1>3 DEF BeforeKb
<1>9. MasksKept'
  BY <1>1, <1>3, <1>4, <1>7, <1>8 DEF MasksKept, p
<1>10. Keyboard'
  <2>1. \A n \in 0 .. 15 : n # 1 => irqHandlers'[n] = irqHandlers[n]
    BY <1>4 DEF Types
  <2>2. 1 \notin chips["MASTER"].isr
    BY <1>8 DEF Keyboard
  <2> QED
    BY <1>2, <1>4, <1>8, <2>1, <2>2 DEF Keyboard
<1>11. Video'
  BY <1>1, <1>2, <1>3, <1>4 DEF Video, Types
<1>12. Registered'
  <2>1. UNCHANGED <<table, shellCmdCount>>
    BY <1>4
  <2> QED
    BY <1>1, <1>3, <2>1 DEF Registered
<1> QED
  BY <1>7, <1>9, <1>10, <1>11, <1>12

(* The callback comes when the line is open.                               *)
LEMMA Step_kbRegisterKeyCallback == Inv /\ kbRegisterKeyCallback => Inv'
<1> SUFFICES ASSUME Inv, kbRegisterKeyCallback PROVE Inv'
  OBVIOUS
<1> USE DEF Inv
<1>0. Executes(Kmain, "callback") /\ Goto("register")
  BY SizesAssumption DEF kbRegisterKeyCallback
<1>1. /\ stack[1].pc = "callback" /\ stack[1].todo = <<>> /\ machine = "running" /\ stack[1] \in FrameSet
      /\ Len(stack) < 2
  BY <1>0, KmainOnTop
<1>2. /\ stack' \in Seq(FrameSet) /\ Len(stack') < 2 /\ Len(stack') >= 1 /\ stack'[1] \in FrameSet
      /\ stack'[1] = [stack[1] EXCEPT !.pc = "register"]
  BY <1>0, KmainGoto
<1>3. /\ stack'[1].pc = "register" /\ stack'[1].todo = <<>> /\ stack'[1].cmd = stack[1].cmd
      /\ stack'[1].vector = Kmain
  BY <1>1, <1>2 DEF FrameSet, Shape
<1>4. /\ UNCHANGED <<machine, ifl, chips, tables, irqHandlers, fb, table, shellCmdCount, rest>>
      /\ keyCallback' = "shellKeyCallback"
  BY DEF kbRegisterKeyCallback
<1>5. Sound(stack'[1]) /\ stack'[1].pc \in KmainPcs \ EarlyPcs /\ "callback" \notin EarlyPcs
  BY <1>3, SoundWithout
<1>6. /\ calls' \in Nat /\ fb' \in {"NULL", "framebuffer"}
      /\ irqHandlers' \in [0 .. 15 -> {"NULL", "kbHandler"}]
      /\ keyCallback' \in {"NULL", "shellKeyCallback"}
  BY <1>4 DEF Types
<1>7. idtr /\ Types' /\ Shape' /\ Setup' /\ Tables' /\ Ready' /\ MissingGatesAreTheSlaves'
  <2>1. UNCHANGED <<machine, ifl, chips, tables, answer, firmware, raises, faults>>
    BY <1>4
  <2> QED
    BY <1>0, <1>2, <1>3, <1>5, <1>6, <2>1, KmainMovedLate
<1>8. stack[1].cmd = 1 /\ ~BeforeKb /\ ~BeforeKb'
  BY <1>1, <1>3 DEF BeforeKb, Registered
<1>9. MasksKept'
  <2>1. picUnmask(1) # <<>> /\ Tail(picUnmask(1)) # <<>>
    BY DEF picUnmask
  <2> QED
    BY <1>1, <1>3, <1>4, <1>7, <1>8, <2>1 DEF MasksKept
<1>10. Keyboard'
  BY <1>1, <1>2, <1>4, <1>8 DEF Keyboard
<1>11. Video'
  BY <1>1, <1>2, <1>3, <1>4 DEF Video, Types
<1>12. Registered'
  <2>1. UNCHANGED <<table, shellCmdCount>>
    BY <1>4
  <2> QED
    BY <1>3, <1>8, <2>1, SizesAssumption DEF Registered
<1> QED
  BY <1>7, <1>9, <1>10, <1>11, <1>12

(* The prompt and the return to the loop change nothing but where kmain is. *)
LEMMA ToIdle ==
  ASSUME Inv, NEW from \in {"prompt", "returned"}, Executes(Kmain, from), Goto("idle"),
         UNCHANGED <<machine, ifl, chips, tables, drivers, rest>>
  PROVE  Inv'
<1> USE DEF Inv
<1>1. /\ stack[1].pc = from /\ stack[1].todo = <<>> /\ machine = "running" /\ stack[1] \in FrameSet
      /\ Len(stack) < 2
  BY KmainOnTop
<1>2. /\ stack' \in Seq(FrameSet) /\ Len(stack') < 2 /\ Len(stack') >= 1 /\ stack'[1] \in FrameSet
      /\ stack'[1] = [stack[1] EXCEPT !.pc = "idle"]
  BY KmainGoto
<1>3. /\ stack'[1].pc = "idle" /\ stack'[1].todo = <<>> /\ stack'[1].cmd = stack[1].cmd
      /\ stack'[1].vector = Kmain
  BY <1>1, <1>2 DEF FrameSet, Shape
<1>5. Sound(stack'[1]) /\ stack'[1].pc \in KmainPcs \ EarlyPcs /\ from \notin EarlyPcs
  BY <1>3, SoundWithout
<1>6. /\ calls' \in Nat /\ fb' \in {"NULL", "framebuffer"}
      /\ irqHandlers' \in [0 .. 15 -> {"NULL", "kbHandler"}]
      /\ keyCallback' \in {"NULL", "shellKeyCallback"}
  BY DEF Types
<1>7. idtr /\ Types' /\ Shape' /\ Setup' /\ Tables' /\ Ready' /\ MissingGatesAreTheSlaves'
  <2>1. UNCHANGED <<machine, ifl, chips, tables, answer, firmware, raises, faults>>
    OBVIOUS
  <2> QED
    BY <1>2, <1>3, <1>5, <1>6, <2>1, KmainMovedLate
<1>8. ~BeforeKb /\ ~BeforeKb'
  BY <1>1, <1>3 DEF BeforeKb
<1>9. MasksKept'
  BY <1>1, <1>3, <1>7, <1>8 DEF MasksKept
<1>10. Keyboard'
  BY <1>1, <1>2, <1>8 DEF Keyboard
<1>11. Video'
  BY <1>1, <1>2, <1>3 DEF Video, Types
<1>12. Registered'
  <2>1. UNCHANGED <<table, shellCmdCount>>
    OBVIOUS
  <2> QED
    BY <1>1, <1>3, <2>1, SizesAssumption DEF Registered
<1> QED
  BY <1>7, <1>9, <1>10, <1>11, <1>12

(* Each driver function that is called from the idle loop is a sound program. *)
LEMMA OpenedProgram ==
  ASSUME NEW d \in Opened
  PROVE  Program(d) \in Seq(Access) /\ \A f : f.todo = Program(d) => Sound(f)
<1> DEFINE p == Program(d)
<1>1. [todo |-> p].todo = p
  OBVIOUS
<1>2. \/ \E n \in 0 .. 15 : p \in {picMask(n), picUnmask(n)}
      \/ p \in {picGetIRR, picGetISR, picDisable, <<>>}
  <2>1. CASE d \in {"picMask", "picUnmask"} \X (0 .. 15)
    <3>1. PICK k \in {"picMask", "picUnmask"}, n \in 0 .. 15 : d = <<k, n>>
      BY <2>1
    <3> QED
      BY <3>1 DEF Program
  <2>2. CASE d \in {<<"picGetIRR">>, <<"picGetISR">>, <<"picDisable">>, <<"disableKb">>,
                    <<"kbDeregisterKeyCallback">>}
    BY <2>2 DEF Program
  <2> QED
    BY <2>1, <2>2, EventsAssumption
<1> HIDE DEF p
<1>3. p \in Seq(Access) /\ \A f : f.todo = p => Sound(f)
  BY <1>1, <1>2, Programs
<1> QED
  BY <1>3 DEF p

(* A call of a driver's function from the idle loop keeps the invariant.   *)
LEMMA Step_DriverCall == ASSUME Inv, NEW d \in Opened, DriverCall(d) PROVE Inv'
<1> USE DEF Inv
<1> DEFINE p == Program(d)
<1>p. p \in Seq(Access) /\ \A f : f.todo = p => Sound(f)
  BY OpenedProgram
<1> HIDE DEF p
<1>0. Executes(Kmain, "idle") /\ GotoVia("returned", p)
  BY DEF DriverCall, p
<1>1. /\ stack[1].pc = "idle" /\ stack[1].todo = <<>> /\ machine = "running" /\ stack[1] \in FrameSet
      /\ Len(stack) < 2
  BY <1>0, KmainOnTop
<1>2. /\ stack' \in Seq(FrameSet) /\ Len(stack') < 2 /\ Len(stack') >= 1 /\ stack'[1] \in FrameSet
      /\ stack'[1] = [stack[1] EXCEPT !.pc = "returned", !.todo = p, !.saved = <<>>]
  BY <1>0, <1>p, KmainGotoVia
<1>3. /\ stack'[1].pc = "returned" /\ stack'[1].todo = p /\ stack'[1].saved = <<>>
      /\ stack'[1].cmd = stack[1].cmd /\ stack'[1].vector = Kmain
  BY <1>1, <1>2 DEF FrameSet, Shape
<1>4. /\ UNCHANGED <<machine, ifl, chips, tables, fb, table, shellCmdCount, answer, firmware, raises, faults>>
      /\ irqHandlers' \in {irqHandlers, [irqHandlers EXCEPT ![1] = "NULL"]}
      /\ keyCallback' \in {"NULL", keyCallback} /\ calls' = calls + 1
  BY DEF DriverCall
<1>5. Sound(stack'[1]) /\ stack'[1].pc \in KmainPcs \ EarlyPcs /\ "idle" \notin EarlyPcs
  BY <1>3, <1>p
<1>6. /\ calls' \in Nat /\ calls' # 0 /\ fb' \in {"NULL", "framebuffer"}
      /\ irqHandlers' \in [0 .. 15 -> {"NULL", "kbHandler"}]
      /\ keyCallback' \in {"NULL", "shellKeyCallback"}
  <2>1. /\ calls \in Nat /\ fb \in {"NULL", "framebuffer"}
        /\ irqHandlers \in [0 .. 15 -> {"NULL", "kbHandler"}]
        /\ keyCallback \in {"NULL", "shellKeyCallback"}
    BY DEF Types
  <2>2. [irqHandlers EXCEPT ![1] = "NULL"] \in [0 .. 15 -> {"NULL", "kbHandler"}]
    BY <2>1
  <2>3. calls + 1 \in Nat /\ calls + 1 # 0
    BY <2>1
  <2> QED
    BY <1>4, <2>1, <2>2, <2>3, Zenon
<1>7. idtr /\ Types' /\ Shape' /\ Setup' /\ Tables' /\ Ready' /\ MissingGatesAreTheSlaves'
  <2>1. UNCHANGED <<machine, ifl, chips, tables, answer, firmware, raises, faults>>
    BY <1>4
  <2> QED
    BY <1>0, <1>2, <1>3, <1>5, <1>6, <2>1, KmainMovedLate
<1>8. ~BeforeKb'
  BY <1>3 DEF BeforeKb
<1>9. MasksKept'
  BY <1>6 DEF MasksKept
<1>10. Keyboard'
  <2>1. /\ \A n \in 0 .. 15 : n # 1 => irqHandlers'[n] = irqHandlers[n]
        /\ irqHandlers'[1] = irqHandlers[1] \/ irqHandlers'[1] = "NULL"
    BY <1>4 DEF Types
  <2>2. chips' = chips
    BY <1>4
  <2> QED
    BY <1>1, <1>2, <1>8, <2>1, <2>2 DEF Keyboard
<1>11. Video'
  BY <1>1, <1>2, <1>3, <1>4 DEF Video, Types
<1>12. Registered'
  <2>1. UNCHANGED <<table, shellCmdCount>>
    BY <1>4
  <2> QED
    BY <1>1, <1>3, <2>1 DEF Registered
<1> QED
  BY <1>7, <1>9, <1>10, <1>11, <1>12

(* A device's request keeps the invariant.                                 *)
LEMMA Step_Raise == ASSUME Inv, NEW i \in Raised, Raise(i) PROVE Inv'
<1> USE DEF Inv
<1>1. UNCHANGED <<machine, ifl, tables, drivers, stack, answer, firmware, calls, faults>> /\ raises' = raises + 1
  BY DEF Raise
<1> DEFINE ci == ChipOf(i)
           n  == LineOf(i)
<1>2. ci \in Chips /\ n \in Lines /\ (ci = "MASTER" => n # 2)
  BY EventsAssumption DEF ChipOf, LineOf
<1>3. chips' = [chips EXCEPT ![ci] = [chips[ci] EXCEPT !.irr = @ \cup {n}]]
  BY DEF Raise
<1> HIDE DEF ci, n
<1>4. chips \in [Chips -> Chip]
  BY DEF Types
<1>5. /\ chips' \in [Chips -> Chip]
      /\ \A c \in Chips : /\ chips'[c].step = chips[c].step /\ chips'[c].offset = chips[c].offset
                          /\ chips'[c].mask = chips[c].mask /\ chips'[c].isr = chips[c].isr
      /\ chips'["MASTER"].irr = chips["MASTER"].irr \cup (IF ci = "MASTER" THEN {n} ELSE {})
  BY <1>2, <1>3, <1>4 DEF Chip
<1>6. Types'
  BY <1>1, <1>5 DEF Types
<1>7. Shape'
  BY <1>1 DEF Shape
<1>8. Setup'
  <2>1. \A k : RemapState(k) => RemapState(k)'
    BY <1>1, <1>5 DEF RemapState
  <2> QED
    BY <1>1, <2>1 DEF Setup
<1>9. Tables' /\ Ready'
  BY <1>1, <1>5 DEF Tables, Ready
<1>10. MasksKept'
  BY <1>1, <1>5 DEF MasksKept, BeforeKb
<1>11. Keyboard'
  BY <1>1, <1>2, <1>5 DEF Keyboard, BeforeKb
<1>12. Video' /\ Registered' /\ MissingGatesAreTheSlaves'
  BY <1>1, <1>5 DEF Video, Registered, MissingGatesAreTheSlaves
<1> QED
  BY <1>6, <1>7, <1>8, <1>9, <1>10, <1>11, <1>12

(* An exception of the code keeps the invariant.                           *)
LEMMA Step_Fault == ASSUME Inv, NEW v \in Faults, Fault(v) PROVE Inv'
<1>1. v \in (0 .. 31) \ {NotPresent}
  BY EventsAssumption
<1>2. faults' \in 0 .. MaxFaults /\ faults' >= faults /\ faults' = faults + 1
  BY EventsAssumption DEF Fault, Inv, Types
<1>3. machine = "running" /\ Enter(v) /\ UNCHANGED <<chips, tables, drivers, answer, firmware, raises, calls>>
  BY DEF Fault
<1> QED
  BY <1>1, <1>2, <1>3, EnteredException

(* The exceptions' handler keeps the invariant.                            *)
LEMMA Step_exception == Inv /\ exception => Inv'
<1> SUFFICES ASSUME Inv, exception PROVE Inv'
  OBVIOUS
<1>1. machine = "running" /\ UNCHANGED <<chips, tables, drivers, rest>>
  BY DEF exception, Executes
<1>2. CASE fb = "NULL"
  <2>1. Enter(PageFault)
    BY <1>2 DEF exception
  <2>2. stack[1].pc \in ToVideo
    BY <1>2 DEF Inv, Video
  <2>3. faults' \in 0 .. MaxFaults /\ faults' >= faults
    BY <1>1 DEF Inv, Types
  <2>4. PageFault \in (0 .. 31) \ {NotPresent}
    OBVIOUS
  <2> HIDE DEF ToVideo, PageFault
  <2> QED
    BY <1>1, <2>1, <2>2, <2>3, <2>4, EnteredException
<1>3. CASE fb # "NULL"
  BY <1>1, <1>3, Halted DEF exception
<1> QED
  BY <1>2, <1>3

(* An IRQ's handler is the second frame, on top.                           *)
LEMMA IrqOnTop ==
  ASSUME Types, Shape, top.vector \in 32 .. 47
  PROVE  /\ Len(stack) \in Nat /\ Len(stack) >= 2 /\ Len(stack) < 3 /\ top = stack[2] /\ idtr
         /\ stack[2] \in FrameSet /\ HandlerFrame(2, stack[2]) /\ stack[1] \in FrameSet
<1>0. Len(stack) \in Nat /\ Len(stack) >= 1
  BY Frames
<1>1. CASE Len(stack) < 2
  <2>1. top = stack[1]
    BY <1>0, <1>1 DEF top
  <2> QED
    BY <2>1 DEF Shape
<1>2. CASE Len(stack) >= 3
  <2>1. Len(stack) \in 2 .. Len(stack)
    BY <1>0, <1>2
  <2>2. HandlerFrame(Len(stack), top)
    BY <2>1, Frames
  <2>3. ASSUME NEW i \in Nat, i >= 3, HandlerFrame(i, top) PROVE top.vector \in 0 .. 31
    BY <2>3 DEF HandlerFrame
  <2>4. ASSUME NEW v \in 0 .. 31, v \in 32 .. 47 PROVE FALSE
    BY <2>4
  <2>5. top.vector \in 0 .. 31
    BY <1>0, <1>2, <2>2, <2>3
  <2> QED
    BY <2>4, <2>5, Zenon
<1>3. CASE Len(stack) >= 2 /\ Len(stack) < 3
  <2>1. 2 \in 2 .. Len(stack) /\ 2 \in 1 .. Len(stack) /\ 1 \in 1 .. Len(stack)
    BY <1>0, <1>3
  <2>2. top = stack[2]
    BY <1>0, <1>3 DEF top
  <2> QED
    BY <1>0, <1>3, <2>1, <2>2, Frames DEF Shape
<1> QED
  BY <1>0, <1>1, <1>2, <1>3

(* A handler moves on, whatever it then has to do.                         *)
LEMMA IrqMoved ==
  ASSUME Inv, top.vector \in 32 .. 47, stack' \in Seq(FrameSet), Len(stack') = Len(stack),
         stack'[1] = stack[1], stack'[2].vector = stack[2].vector, HandlerFrame(2, stack'[2]),
         UNCHANGED <<machine, ifl, tables, drivers, rest>>, chips' \in [Chips -> Chip],
         \A c \in Chips : /\ chips'[c].step = chips[c].step /\ chips'[c].offset = chips[c].offset
                          /\ chips'[c].mask = chips[c].mask
  PROVE  Types' /\ Shape' /\ Setup' /\ Tables' /\ Ready' /\ MasksKept' /\ Video' /\ Registered' /\ MissingGatesAreTheSlaves'
<1> USE DEF Inv
<1>1. /\ Len(stack) \in Nat /\ Len(stack) >= 2 /\ Len(stack) < 3 /\ idtr
  BY IrqOnTop
<1>2. Types'
  BY <1>1 DEF Types
<1>3. Shape'
  <2>1. ASSUME NEW i \in 2 .. Len(stack') PROVE i = 2
    BY <1>1
  <2> QED
    BY <1>1, <2>1 DEF Shape
<1>4. Setup'
  BY <1>1 DEF Setup
<1>5. Tables' /\ Ready'
  BY DEF Tables, Ready
<1>6. MasksKept'
  BY DEF MasksKept, BeforeKb
<1>7. Video' /\ Registered'
  BY <1>1 DEF Video, Registered
<1>8. MissingGatesAreTheSlaves'
  <2>1. ASSUME NEW i \in 1 .. Len(stack') PROVE stack'[i].vector = stack[i].vector /\ i \in 1 .. Len(stack)
    <3>1. i = 1 \/ i = 2
      BY <1>1
    <3> QED
      BY <1>1, <3>1
  <2> QED
    BY <2>1 DEF MissingGatesAreTheSlaves
<1> QED
  BY <1>2, <1>3, <1>4, <1>5, <1>6, <1>7, <1>8

(* What picSendEOI does for the keyboard's line.                           *)
LEMMA SentEOI == picSendEOI(1) = EOI /\ EOI \in Seq(Access) /\ EOI # <<>>
<1> DEFINE a == Out("MASTER", "CMD", <<"PIC_OCW2_EOI">>)
<1>1. a \in Access
  BY DEF Out, Access, Values
<1>2. picSendEOI(1) = <<>> \o <<a>> /\ EOI = <<a>>
  BY DEF picSendEOI, EOI
<1> HIDE DEF a
<1>3. <<a>> \in Seq(Access)
  BY <1>1
<1> QED
  BY <1>2, <1>3, ConcatEmptySeq

(* The dispatch of an IRQ keeps the invariant: only the keyboard's is handled. *)
LEMMA Step_irq == Inv /\ irq => Inv'
<1> SUFFICES ASSUME Inv, irq PROVE Inv'
  OBVIOUS
<1> USE DEF Inv
<1>1. PICK n \in 0 .. 15 :
       /\ Executes(32 + n, "dispatch")
       /\ IF irqHandlers[n] # "NULL"
          THEN GotoVia("iret", picSendEOI(n)) /\ UNCHANGED <<machine, ifl>>
          ELSE IF fb = "NULL" THEN Enter(PageFault)
          ELSE Goto("iret") /\ UNCHANGED <<machine, ifl>>
  BY DEF irq
<1>2. UNCHANGED <<chips, tables, drivers, rest>>
  BY DEF irq
<1>c. /\ chips' \in [Chips -> Chip]
      /\ \A c \in Chips : /\ chips'[c].step = chips[c].step /\ chips'[c].offset = chips[c].offset
                          /\ chips'[c].mask = chips[c].mask
  BY <1>2 DEF Types
<1>3. machine = "running" /\ top.vector = 32 + n /\ top.pc = "dispatch" /\ top.todo = <<>>
  BY <1>1 DEF Executes
<1>4. top.vector \in 32 .. 47
  BY <1>3
<1>5. /\ Len(stack) \in Nat /\ Len(stack) >= 2 /\ Len(stack) < 3 /\ top = stack[2]
      /\ stack[2] \in FrameSet /\ HandlerFrame(2, stack[2])
  BY <1>4, IrqOnTop
<1>6. CASE irqHandlers[n] # "NULL"
  <2>1. n = 1 /\ GotoVia("iret", EOI) /\ UNCHANGED <<machine, ifl>>
    BY SMTT(30), <1>1, <1>6, SentEOI DEF Keyboard
  <2> DEFINE f == [top EXCEPT !.pc = "iret", !.todo = EOI, !.saved = <<>>]
  <2>2. stack' \in Seq(FrameSet) /\ Len(stack') = Len(stack) /\ stack'[Len(stack)] = f
        /\ \A i \in 1 .. Len(stack) - 1 : stack'[i] = stack[i]
    BY ZenonT(40), <2>1, SentEOI, GotoViaStack
  <2>3. f.vector = top.vector /\ f.pc = "iret" /\ f.todo = EOI
    BY <1>5 DEF FrameSet
  <2> HIDE DEF f
  <2>4. stack'[1] = stack[1] /\ stack'[2] = f
    BY <1>5, <2>2
  <2>5. HandlerFrame(2, stack'[2])
    BY <1>3, <1>4, <2>1, <2>3, <2>4 DEF HandlerFrame
  <2>6. Types' /\ Shape' /\ Setup' /\ Tables' /\ Ready' /\ MasksKept' /\ Video' /\ Registered' /\ MissingGatesAreTheSlaves'
    BY <1>2, <1>4, <1>5, <2>1, <2>2, <2>3, <2>4, <2>5, <1>c, IrqMoved
  <2>7. Keyboard'
    BY <1>2, <1>3, <1>5, <2>1, <2>2, <2>3, <2>4, SentEOI DEF Keyboard, BeforeKb
  <2> QED
    BY <2>6, <2>7
<1>7. CASE irqHandlers[n] = "NULL" /\ fb = "NULL"
  <2>1. Enter(PageFault)
    BY <1>1, <1>7
  <2>2. stack[1].pc \in ToVideo
    BY <1>7 DEF Video
  <2>3. faults' \in 0 .. MaxFaults /\ faults' >= faults
    BY <1>2 DEF Types
  <2>4. PageFault \in (0 .. 31) \ {NotPresent}
    OBVIOUS
  <2> HIDE DEF ToVideo, PageFault
  <2> QED
    BY <1>2, <1>3, <2>1, <2>2, <2>3, <2>4, EnteredException
<1>8. CASE irqHandlers[n] = "NULL" /\ fb # "NULL"
  <2>1. Goto("iret") /\ UNCHANGED <<machine, ifl>>
    BY <1>1, <1>8
  <2> DEFINE f == [top EXCEPT !.pc = "iret"]
  <2>2. stack' \in Seq(FrameSet) /\ Len(stack') = Len(stack) /\ stack'[Len(stack)] = f
        /\ \A i \in 1 .. Len(stack) - 1 : stack'[i] = stack[i]
    BY <2>1, GotoStack
  <2>3. f.vector = top.vector /\ f.pc = "iret" /\ f.todo = <<>>
    BY <1>3, <1>5 DEF FrameSet
  <2> HIDE DEF f
  <2>4. stack'[1] = stack[1] /\ stack'[2] = f
    BY <1>5, <2>2
  <2>5. HandlerFrame(2, stack'[2])
    BY <1>3, <1>4, <2>3, <2>4 DEF HandlerFrame
  <2>6. Types' /\ Shape' /\ Setup' /\ Tables' /\ Ready' /\ MasksKept' /\ Video' /\ Registered' /\ MissingGatesAreTheSlaves'
    BY <1>2, <1>4, <1>5, <2>1, <2>2, <2>3, <2>4, <2>5, <1>c, IrqMoved
  <2>7. irqHandlers[1] = "kbHandler" /\ 1 \in chips["MASTER"].isr => FALSE
    <3>1. CASE n = 1
      BY <1>8, <3>1
    <3>2. CASE n # 1
      <4>1. top.vector # 33
        BY <1>3, <3>2
      <4> QED
        BY <1>4, <1>5, <4>1 DEF Keyboard
    <3> QED
      BY <3>1, <3>2
  <2>8. Keyboard'
    BY <1>2, <1>5, <2>1, <2>2, <2>3, <2>4, <2>7 DEF Keyboard, BeforeKb
  <2> QED
    BY <2>6, <2>8
<1> QED
  BY <1>6, <1>7, <1>8

(* So does the return from a handler, which is an IRQ's.                   *)
LEMMA Step_iretq == Inv /\ iretq => Inv'
<1> SUFFICES ASSUME Inv, iretq PROVE Inv'
  OBVIOUS
<1> USE DEF Inv
<1>1. /\ machine = "running" /\ Len(stack) >= 2 /\ top.pc = "iret" /\ top.todo = <<>>
      /\ stack' = SubSeq(stack, 1, Len(stack) - 1) /\ ifl' = TRUE
      /\ machine' \in {"running", "derailed"}
      /\ UNCHANGED <<chips, tables, drivers, rest>>
  BY Frames DEF iretq
<1>2. top.vector \in 32 .. 47
  <2>1. Len(stack) \in 2 .. Len(stack)
    BY <1>1, Frames
  <2>2. HandlerFrame(Len(stack), top)
    BY <2>1, Frames
  <2> QED
    BY <1>1, <2>2 DEF HandlerFrame
<1>3. /\ Len(stack) \in Nat /\ Len(stack) >= 2 /\ Len(stack) < 3 /\ top = stack[2] /\ idtr
      /\ stack[1] \in FrameSet
  BY <1>2, IrqOnTop
<1>4. stack' \in Seq(FrameSet) /\ Len(stack') < 2 /\ Len(stack') >= 1 /\ stack'[1] = stack[1]
  <2>1. stack' = SubSeq(stack, 1, 1)
    BY <1>1, <1>3
  <2>2. \A i \in 1 .. 1 : stack[i] \in FrameSet
    BY <1>3
  <2>3. /\ stack' \in Seq(FrameSet)
        /\ Len(stack') = IF 1 <= 1 THEN 1 - 1 + 1 ELSE 0
        /\ \A i \in 1 .. 1 - 1 + 1 : stack'[i] = stack[1 + i - 1]
    BY <2>1, <2>2, SubSeqProperties
  <2> QED
    BY <2>3
<1>5. Types'
  BY <1>1, <1>4, SizesAssumption, EventsAssumption DEF Types
<1>6. Shape'
  BY <1>3, <1>4 DEF Shape
<1>7. Setup'
  BY <1>1, <1>3 DEF Setup
<1>8. Tables' /\ Ready' /\ MasksKept'
  BY <1>1, <1>4 DEF Tables, Ready, MasksKept, BeforeKb
<1>9. Keyboard'
  <2>1. irqHandlers[1] = "kbHandler" /\ 1 \in chips["MASTER"].isr => FALSE
    BY <1>1, <1>2, <1>3 DEF Keyboard
  <2> QED
    BY <1>1, <1>4, <2>1 DEF Keyboard, BeforeKb
<1>10. Video'
  BY <1>1, <1>3, <1>4 DEF Video, Types
<1>11. Registered'
  BY <1>1, <1>4 DEF Registered
<1>12. MissingGatesAreTheSlaves'
  <2>1. ASSUME NEW i \in 1 .. Len(stack') PROVE i = 1
    BY <1>4
  <2> QED
    BY <1>4, <2>1 DEF MissingGatesAreTheSlaves, Shape
<1> QED
  BY <1>5, <1>6, <1>7, <1>8, <1>9, <1>10, <1>11, <1>12

(* A set of lines has a least one, which Min finds.                        *)
LEMMA LeastLine ==
  ASSUME NEW S \in SUBSET Lines, S # {}
  PROVE  Min(S) \in S /\ \A n \in S : Min(S) <= n
<1>1. \E m \in S : \A n \in S : m <= n
  <2>1. CASE 0 \in S
    BY <2>1
  <2>2. CASE 0 \notin S /\ 1 \in S
    BY <2>2
  <2>3. CASE S \cap {0, 1} = {} /\ 2 \in S
    BY <2>3
  <2>4. CASE S \cap {0, 1, 2} = {} /\ 3 \in S
    BY <2>4
  <2>5. CASE S \cap {0, 1, 2, 3} = {} /\ 4 \in S
    BY <2>5
  <2>6. CASE S \cap {0, 1, 2, 3, 4} = {} /\ 5 \in S
    BY <2>6
  <2>7. CASE S \cap {0, 1, 2, 3, 4, 5} = {} /\ 6 \in S
    BY <2>7
  <2>8. CASE S \cap {0, 1, 2, 3, 4, 5, 6} = {}
    <3>1. \A n \in S : n = 7
      BY <2>8
    <3>2. PICK x \in S : TRUE
      OBVIOUS
    <3> QED
      BY <3>1, <3>2
  <2> QED
    BY <2>1, <2>2, <2>3, <2>4, <2>5, <2>6, <2>7, <2>8
<1> QED
  BY <1>1, Zenon DEF Min

(* What the CPU's acknowledgement does to chips that are out of their       *)
(* initialisation, when line 2 of the master is nothing but the slave.     *)
LEMMA AcknowledgedChips ==
  ASSUME NEW ch \in [Chips -> Chip], ch["MASTER"].step = "ready", 2 \notin ch["MASTER"].irr,
         MasterAsks(ch["MASTER"], ch["SLAVE"]) # {},
         ch["MASTER"].offset = 32, ch["SLAVE"].offset = 48
  PROVE  LET a == Acknowledged(ch)
         IN  /\ a.chips \in [Chips -> Chip]
             /\ \A c \in Chips : /\ a.chips[c].step = ch[c].step /\ a.chips[c].offset = ch[c].offset
                                 /\ a.chips[c].mask = ch[c].mask
             /\ a.chips["MASTER"].irr \subseteq ch["MASTER"].irr
             /\ \E n \in Lines :
                  /\ n \notin ch["MASTER"].mask /\ \A m \in ch["MASTER"].isr : n < m
                  /\ a.chips["MASTER"].isr = ch["MASTER"].isr \cup {n}
                  /\ \/ n # 2 /\ a.vector = 32 + n
                     \/ /\ n = 2 /\ ch["SLAVE"].mask # Lines
                        /\ \E k \in Lines : a.vector = 48 + k
<1> DEFINE M == ch["MASTER"]
           S == ch["SLAVE"]
           n == Min(MasterAsks(M, S))
           k == Min(Asks(S))
           a == Acknowledged(ch)
<1>1. M \in Chip /\ S \in Chip
  OBVIOUS
<1>2. /\ MasterAsks(M, S) \in SUBSET Lines
      /\ \A x \in MasterAsks(M, S) :
           /\ x \in Lines /\ x \notin M.mask
           /\ \A m \in M.isr : x < m
           /\ x = 2 => Asks(S) # {}
  BY <1>1 DEF MasterAsks, Asks, Chip
<1>3. n \in MasterAsks(M, S)
  BY <1>2, LeastLine
<1>4. n \in Lines /\ n \notin M.mask /\ (\A m \in M.isr : n < m) /\ (n = 2 => Asks(S) # {})
  <2> HIDE DEF n, M, S
  <2> QED
    BY <1>2, <1>3, Zenon
<1>5. Asks(S) # {} => k \in Asks(S) /\ k \in Lines /\ k \notin S.mask
  <2>1. Asks(S) \in SUBSET Lines /\ \A x \in Asks(S) : x \notin S.mask
    BY <1>1 DEF Asks, Chip
  <2> QED
    BY <2>1, LeastLine
<1>6. CASE n # 2
  <2>1. a.vector = M.offset + n /\ a.chips = [ch EXCEPT !["MASTER"] = InService(M, n)]
    BY <1>6 DEF Acknowledged
  <2> HIDE DEF a, n, k
  <2>2. InService(M, n) \in Chip
    BY <1>1, <1>4 DEF InService, Chip
  <2>3. /\ InService(M, n).step = M.step /\ InService(M, n).offset = M.offset /\ InService(M, n).mask = M.mask
        /\ InService(M, n).irr \subseteq M.irr /\ InService(M, n).isr = M.isr \cup {n}
    BY <1>1 DEF InService, Chip
  <2>4. a.chips["MASTER"] = InService(M, n) /\ a.chips["SLAVE"] = S /\ a.chips \in [Chips -> Chip]
    BY <2>1, <2>2
  <2>5. a.vector = 32 + n
    BY <2>1
  <2> QED
    BY <1>4, <1>6, <2>3, <2>4, <2>5 DEF a
<1>7. CASE n = 2
  <2>0. k \in Lines /\ k \notin S.mask
    BY <1>4, <1>5, <1>7
  <2>1. /\ a.vector = S.offset + k
        /\ a.chips = [ch EXCEPT !["MASTER"] = InService(M, 2), !["SLAVE"] = InService(S, k)]
    BY <1>7 DEF Acknowledged
  <2> HIDE DEF a, n, k
  <2>2. InService(M, 2) \in Chip /\ InService(S, k) \in Chip
    <3>1. \A c \in Chip, l \in Lines : InService(c, l) \in Chip
      BY DEF InService, Chip
    <3> QED
      BY <1>1, <2>0, <3>1
  <2>3. /\ InService(M, 2).step = M.step /\ InService(M, 2).offset = M.offset /\ InService(M, 2).mask = M.mask
        /\ InService(M, 2).irr \subseteq M.irr /\ InService(M, 2).isr = M.isr \cup {2}
    BY <1>1 DEF InService, Chip
  <2>4. /\ InService(S, k).step = S.step /\ InService(S, k).offset = S.offset /\ InService(S, k).mask = S.mask
    BY <1>1 DEF InService, Chip
  <2>5. a.chips["MASTER"] = InService(M, 2) /\ a.chips["SLAVE"] = InService(S, k) /\ a.chips \in [Chips -> Chip]
    BY <2>1, <2>2
  <2>6. a.vector = 48 + k
    BY <2>1
  <2>7. S.mask # Lines
    BY <2>0
  <2> QED
    BY <1>4, <1>7, <2>0, <2>3, <2>4, <2>5, <2>6, <2>7 DEF a
<1> QED
  BY <1>6, <1>7

(* The CPU takes an interrupt only when kmain executes, and keeps the invariant. *)
LEMMA Step_TakeInterrupt == Inv /\ TakeInterrupt => Inv'
<1> SUFFICES ASSUME Inv, TakeInterrupt PROVE Inv'
  OBVIOUS
<1> USE DEF Inv
<1>1. /\ machine = "running" /\ ifl /\ MasterAsks(chips["MASTER"], chips["SLAVE"]) # {}
      /\ chips' = Acknowledged(chips).chips /\ Enter(Acknowledged(chips).vector)
      /\ UNCHANGED <<tables, drivers, rest>>
  BY DEF TakeInterrupt
<1>2. /\ Len(stack) \in Nat /\ Len(stack) >= 1 /\ Len(stack) < 2 /\ idtr
  BY <1>1, Frames DEF Shape, Setup
<1> DEFINE v == Acknowledged(chips).vector
<1>3. /\ chips' \in [Chips -> Chip]
      /\ \A c \in Chips : /\ chips'[c].step = chips[c].step /\ chips'[c].offset = chips[c].offset
                          /\ chips'[c].mask = chips[c].mask
      /\ chips'["MASTER"].irr \subseteq chips["MASTER"].irr
      /\ \E n \in Lines :
           /\ n \notin chips["MASTER"].mask /\ \A m \in chips["MASTER"].isr : n < m
           /\ chips'["MASTER"].isr = chips["MASTER"].isr \cup {n}
           /\ \/ n # 2 /\ v = 32 + n
              \/ /\ n = 2 /\ chips["SLAVE"].mask # Lines
                 /\ \E k \in Lines : v = 48 + k
  <2>1. chips \in [Chips -> Chip] /\ chips["MASTER"].step = "ready" /\ 2 \notin chips["MASTER"].irr
        /\ chips["MASTER"].offset = 32 /\ chips["SLAVE"].offset = 48
    BY <1>2 DEF Types, Ready, Keyboard
  <2> QED
    BY <1>1, <2>1, AcknowledgedChips
<1>4. PICK n \in Lines :
           /\ n \notin chips["MASTER"].mask /\ \A m \in chips["MASTER"].isr : n < m
           /\ chips'["MASTER"].isr = chips["MASTER"].isr \cup {n}
           /\ \/ n # 2 /\ v = 32 + n
              \/ /\ n = 2 /\ chips["SLAVE"].mask # Lines
                 /\ \E k \in Lines : v = 48 + k
  BY <1>3
<1> HIDE DEF v
<1>5. gates = 0 .. 47
  BY <1>2 DEF Tables
<1>6. /\ v \in 0 .. 255
      /\ n # 2 => v \in gates /\ v = 32 + n
      /\ n = 2 => v \notin gates
  BY <1>4, <1>5
<1> DEFINE w == IF v \in gates THEN v ELSE NotPresent
<1>7. /\ n # 2 => w = 32 + n
      /\ n = 2 => w = NotPresent
      /\ w \in 0 .. 255
  BY <1>6
<1>8. Enter(v)
  BY <1>1 DEF v
<1>9. \/ /\ idtr /\ machine' = machine /\ ifl' = FALSE
         /\ stack' \in Seq(FrameSet) /\ Len(stack') > Len(stack) /\ Len(stack') <= Len(stack) + 1
         /\ Len(stack') \in Nat /\ Len(stack') <= StackFrames
         /\ \A i \in 1 .. Len(stack) : stack'[i] = stack[i]
         /\ stack'[Len(stack')] = Frame(w)
      \/ Len(stack) = StackFrames
  BY <1>2, <1>6, <1>8, EnterStack, Zenon
<1> HIDE DEF w
<1>10. /\ machine' = machine /\ ifl' = FALSE
       /\ stack' \in Seq(FrameSet) /\ Len(stack') >= 2 /\ Len(stack') <= 2 /\ Len(stack') \in Nat
       /\ Len(stack') <= StackFrames
       /\ stack'[1] = stack[1] /\ stack'[2] = Frame(w)
  BY <1>2, <1>9, SizesAssumption, EventsAssumption
<1>11. /\ stack'[2].vector = w /\ stack'[2].pc = "dispatch" /\ stack'[2].todo = <<>>
  <2>1. w \in 0 .. 255
    BY <1>7
  <2>2. Frame(w).vector = w /\ Frame(w).pc = "dispatch" /\ Frame(w).todo = <<>>
    BY <2>1, FrameOf
  <2> QED
    BY <1>10, <2>2
<1>12. Types'
  <2>1. machine' \in {"running", "halted", "overrun", "derailed"} /\ ifl' \in BOOLEAN /\ Len(stack') \in 1 .. StackFrames
    <3>1. Len(stack') \in 1 .. StackFrames
      BY <1>10, SizesAssumption
    <3> QED
      BY <1>1, <1>10, <3>1
  <2> QED
    BY <1>1, <1>3, <1>10, <2>1 DEF Types
<1>13. Shape'
  <2>1. HandlerFrame(2, stack'[2])
    BY <1>7, <1>11 DEF HandlerFrame
  <2>2. ASSUME NEW i \in 2 .. Len(stack') PROVE i = 2
    BY <1>10
  <2> QED
    BY <1>1, <1>2, <1>10, <2>1, <2>2 DEF Shape
<1>14. Setup'
  BY <1>1, <1>2 DEF Setup
<1>15. Tables' /\ Ready'
  BY <1>1, <1>3, <1>10 DEF Tables, Ready
<1>16. MasksKept'
  BY <1>1, <1>3, <1>10 DEF MasksKept, BeforeKb
<1>17. Keyboard'
  <2>1. BeforeKb => n # 1
    <3>1. BeforeKb => 1 \in chips["MASTER"].mask
      BY <1>2, AnswersAssumption DEF Keyboard, MasksKept, Types
    <3> QED
      BY <1>4, <3>1
  <2>2. irqHandlers[1] = "kbHandler" => 1 \notin chips["MASTER"].isr
    BY <1>2 DEF Keyboard
  <2>3. stack'[2].vector = 33 => n = 1
    BY <1>7, <1>11
  <2>4. n = 1 => stack'[2].vector = 33
    BY <1>7, <1>11
  <2>5. n = 1 => 0 \notin chips'["MASTER"].isr
    BY <1>4
  <2>6. 2 \notin chips'["MASTER"].irr
    BY <1>3 DEF Keyboard
  <2>7. BeforeKb' <=> BeforeKb
    BY <1>1, <1>10 DEF BeforeKb
  <2>8. BeforeKb => 1 \notin chips'["MASTER"].isr
    BY <1>4, <2>1 DEF Keyboard
  <2>9. irqHandlers[1] = "kbHandler" /\ 1 \in chips'["MASTER"].isr => stack'[2].vector = 33
    BY <1>4, <2>2, <2>4
  <2> QED
    BY <1>1, <1>10, <1>11, <2>3, <2>5, <2>6, <2>7, <2>8, <2>9 DEF Keyboard
<1>18. Video'
  BY <1>1, <1>10 DEF Video, Types
<1>19. Registered'
  BY <1>1, <1>10 DEF Registered
<1>20. MissingGatesAreTheSlaves'
  <2>1. ASSUME NEW i \in 1 .. Len(stack') PROVE i = 1 \/ i = 2
    BY <1>10
  <2>2. stack'[2].vector = NotPresent => n = 2
    BY <1>7, <1>11
  <2> QED
    BY SMTT(30), <1>3, <1>4, <1>10, <2>1, <2>2 DEF MissingGatesAreTheSlaves, Shape
<1> QED
  BY <1>12, <1>13, <1>14, <1>15, <1>16, <1>17, <1>18, <1>19, <1>20

(* A port access of the frame on top.                                      *)
LEMMA AccessOnTop ==
  ASSUME Types, Shape, PortAccess
  PROVE  LET a == Head(top.todo)
             n == Len(stack)
             v == Value(a.value, top.saved)
         IN  /\ top.todo # <<>> /\ a \in Access /\ top \in FrameSet
             /\ stack' \in Seq(FrameSet) /\ Len(stack') = n
             /\ \A i \in 1 .. n - 1 : stack'[i] = stack[i]
             /\ stack'[n].todo = Tail(top.todo) /\ stack'[n].pc = top.pc
             /\ stack'[n].vector = top.vector /\ stack'[n].cmd = top.cmd
             /\ a.op = "in" => /\ stack'[n].saved = Append(top.saved, ReadFrom(chips[a.chip], a.port))
                               /\ ReadFrom(chips[a.chip], a.port) \in SUBSET Lines
                               /\ chips' = chips
             /\ a.op = "out" => /\ stack'[n].saved = top.saved
                                /\ chips' = [chips EXCEPT ![a.chip] = Written(chips[a.chip], a.port, v)]
             /\ UNCHANGED <<machine, ifl, tables, drivers, rest>>
<1> DEFINE a == Head(top.todo)
           n == Len(stack)
           v == Value(a.value, top.saved)
           r == ReadFrom(chips[a.chip], a.port)
           f == IF a.op = "in" THEN [top EXCEPT !.todo = Tail(top.todo), !.saved = Append(top.saved, r)]
                               ELSE [top EXCEPT !.todo = Tail(top.todo)]
<1>1. top \in FrameSet /\ top.todo # <<>> /\ n \in Nat /\ n >= 1 /\ stack \in Seq(FrameSet)
  BY Frames DEF PortAccess
<1>2. top.todo \in Seq(Access) /\ top.saved \in Seq(SUBSET Lines)
  BY <1>1 DEF FrameSet
<1>3. a \in Access /\ Tail(top.todo) \in Seq(Access)
  BY <1>1, <1>2, HeadTailProperties
<1>4. a.op \in {"in", "out"} /\ a.chip \in Chips /\ a.port \in {"CMD", "DATA"}
  BY <1>3 DEF Access
<1>5. r \in SUBSET Lines
  <2>1. chips[a.chip] \in Chip
    BY <1>4 DEF Types
  <2>2. ASSUME NEW c \in Chip, NEW p \in {"CMD", "DATA"} PROVE ReadFrom(c, p) \in SUBSET Lines
    BY DEF ReadFrom, Chip
  <2> QED
    BY <1>4, <2>1, <2>2
<1>6. Append(top.saved, r) \in Seq(SUBSET Lines)
  BY <1>2, <1>5, AppendProperties
<1>7. /\ stack' = [stack EXCEPT ![n] = f]
      /\ a.op = "in" => chips' = chips
      /\ a.op = "out" => chips' = [chips EXCEPT ![a.chip] = Written(chips[a.chip], a.port, v)]
  <2>1. CASE a.op = "in"
    BY <2>1, Zenon DEF PortAccess
  <2>2. CASE a.op = "out"
    <3>1. a.op # "in"
      BY <2>2
    <3> QED
      BY <2>2, <3>1, Zenon DEF PortAccess
  <2> QED
    BY <1>4, <2>1, <2>2
<1>8. UNCHANGED <<machine, ifl, tables, drivers, rest>>
  BY DEF PortAccess
<1> HIDE DEF a, v, r
<1>9. /\ f \in FrameSet /\ f.todo = Tail(top.todo) /\ f.pc = top.pc /\ f.vector = top.vector
      /\ f.cmd = top.cmd
      /\ a.op = "in" => f.saved = Append(top.saved, r)
      /\ a.op = "out" => f.saved = top.saved
  BY ZenonT(40), <1>1, <1>2, <1>3, <1>6 DEF FrameSet
<1> HIDE DEF f
<1>10. /\ stack' \in Seq(FrameSet) /\ Len(stack') = n /\ stack'[n] = f
       /\ \A i \in 1 .. n - 1 : stack'[i] = stack[i]
  BY <1>1, <1>7, <1>9, ExceptSeq
<1> QED
  BY <1>1, <1>3, <1>5, <1>7, <1>8, <1>9, <1>10 DEF a, v, r

(* What a harmless access writes leaves a chip ready, with its vectors.    *)
LEMMA HarmlessWrite ==
  ASSUME NEW c \in Chip, c.step = "ready", NEW a \in Access, Harmless(a), a.op = "out",
         NEW saved \in Seq(SUBSET Lines), FromSaved(a) => saved # <<>>
  PROVE  LET w == Written(c, a.port, Value(a.value, saved))
         IN  w \in Chip /\ w.step = "ready" /\ w.offset = c.offset /\ w.irr = c.irr /\ w.isr \subseteq c.isr
<1>1. CASE a.port = "CMD" /\ a.value = <<"PIC_OCW2_EOI">>
  <2>1. Value(a.value, saved) = <<"PIC_OCW2_EOI">>
    BY <1>1 DEF Value
  <2>2. PICK left \in SUBSET c.isr : left = IF c.isr = {} THEN c.isr ELSE c.isr \ {Min(c.isr)}
    OBVIOUS
  <2>3. Written(c, a.port, <<"PIC_OCW2_EOI">>) = [c EXCEPT !.isr = left]
    BY <1>1, <2>2 DEF Written, Command
  <2>4. Written(c, a.port, Value(a.value, saved)) = [c EXCEPT !.isr = left]
    BY <2>1, <2>3
  <2> QED
    BY <2>4 DEF Chip
<1>2. CASE a.port = "CMD" /\ a.value \in {"PIC_OCW3_READ"} \X {"irr", "isr"}
  BY <1>2 DEF Written, Command, Value, Chip
<1>3. CASE a.port = "DATA" /\ a.value = <<"MASK", Lines>>
  BY <1>3 DEF Written, Data, Value, Chip
<1>4. CASE a.port = "DATA" /\ a.value \in {"SAVED_WITH", "SAVED_WITHOUT"} \X Lines
  <2>1. PICK k \in {"SAVED_WITH", "SAVED_WITHOUT"}, n \in Lines : a.value = <<k, n>>
    BY <1>4
  <2>2. saved # <<>>
    BY <2>1 DEF FromSaved
  <2>3. saved[1] \in SUBSET Lines
    BY <2>2, EmptySeq, ElementOfSeq
  <2>4. PICK m \in SUBSET Lines : Value(a.value, saved) = <<"MASK", m>>
    BY <2>1, <2>3 DEF Value
  <2>5. Written(c, a.port, <<"MASK", m>>) = [c EXCEPT !.mask = m]
    BY <1>4 DEF Written, Data
  <2>6. Written(c, a.port, Value(a.value, saved)) = [c EXCEPT !.mask = m]
    BY <2>4, <2>5
  <2> QED
    BY <2>6 DEF Chip
<1> QED
  BY <1>1, <1>2, <1>3, <1>4 DEF Harmless

(* Bounds that leave one number.                                           *)
LEMMA One == ASSUME NEW k \in Nat, k >= 1, k <= 1 PROVE k = 1
OBVIOUS

(* Bounds that leave one number.                                           *)
LEMMA Two == ASSUME NEW k \in Nat, k >= 2, k < 3 PROVE k = 2 /\ 1 \in 1 .. k - 1
OBVIOUS

(* The one access of a handler, the end of interrupt, clears line 1.       *)
LEMMA HandlerAccess == ASSUME Inv, PortAccess, Len(stack) >= 2 PROVE Inv'
<1> USE DEF Inv
<1> DEFINE a == Head(top.todo)
           n == Len(stack)
<1>1. /\ top.todo # <<>> /\ top \in FrameSet
      /\ stack' \in Seq(FrameSet) /\ Len(stack') = n
      /\ \A i \in 1 .. n - 1 : stack'[i] = stack[i]
      /\ stack'[n].todo = Tail(top.todo) /\ stack'[n].pc = top.pc /\ stack'[n].vector = top.vector
      /\ a.op = "out" => chips' = [chips EXCEPT ![a.chip] = Written(chips[a.chip], a.port, Value(a.value, top.saved))]
      /\ UNCHANGED <<machine, ifl, tables, drivers, rest>>
  BY AccessOnTop
<1>2. top.pc = "iret" /\ top.vector = 33 /\ top.todo = EOI
  <2>1. Len(stack) \in 2 .. Len(stack)
    BY Frames
  <2>2. HandlerFrame(Len(stack), top)
    BY <2>1, Frames
  <2> QED
    BY <1>1, <2>2 DEF HandlerFrame
<1>3. /\ n \in Nat /\ n >= 2 /\ n < 3 /\ top = stack[2] /\ idtr
  <2>1. top.vector \in 32 .. 47
    BY <1>2
  <2> QED
    BY <2>1, IrqOnTop
<1>4. a = Out("MASTER", "CMD", <<"PIC_OCW2_EOI">>) /\ Tail(top.todo) = <<>>
  BY <1>2 DEF EOI
<1> HIDE DEF a
<1> DEFINE M == chips["MASTER"]
           m == [M EXCEPT !.isr = IF M.isr = {} THEN M.isr ELSE M.isr \ {Min(M.isr)}]
<1>5. chips' = [chips EXCEPT !["MASTER"] = m]
  <2>1. a.op = "out" /\ a.chip = "MASTER" /\ a.port = "CMD" /\ a.value = <<"PIC_OCW2_EOI">>
    BY <1>4 DEF Out
  <2>2. Written(M, "CMD", Value(<<"PIC_OCW2_EOI">>, top.saved)) = m
    BY DEF Written, Command, Value
  <2> HIDE DEF m
  <2> QED
    BY <1>1, <2>1, <2>2
<1>6. chips \in [Chips -> Chip] /\ M \in Chip
  BY DEF Types
<1>7. /\ m \in Chip /\ m.step = M.step /\ m.offset = M.offset /\ m.mask = M.mask /\ m.irr = M.irr
      /\ m.isr = (IF M.isr = {} THEN M.isr ELSE M.isr \ {Min(M.isr)})
  BY <1>6 DEF Chip
<1>8. m.isr \subseteq M.isr /\ 1 \notin m.isr
  <2>1. 0 \notin M.isr
    BY <1>2, <1>3 DEF Keyboard
  <2>2. CASE 1 \in M.isr
    <3>1. M.isr \in SUBSET Lines /\ M.isr # {}
      BY <1>6, <2>2 DEF Chip
    <3>2. Min(M.isr) \in M.isr /\ Min(M.isr) <= 1 /\ Min(M.isr) \in Lines
      BY <2>2, <3>1, LeastLine
    <3>3. Min(M.isr) = 1
      BY <2>1, <3>2
    <3> QED
      BY <1>7, <3>1, <3>3
  <2>3. CASE 1 \notin M.isr
    BY <1>7, <2>3
  <2> QED
    BY <2>2, <2>3
<1> HIDE DEF m
<1>9. /\ chips' \in [Chips -> Chip] /\ chips'["MASTER"] = m
      /\ \A c \in Chips : /\ chips'[c].step = chips[c].step /\ chips'[c].offset = chips[c].offset
                          /\ chips'[c].mask = chips[c].mask
  BY <1>5, <1>6, <1>7
<1>10. stack'[1] = stack[1] /\ stack'[2].vector = 33 /\ stack'[2].pc = "iret" /\ stack'[2].todo = <<>>
  <2>1. n = 2 /\ 1 \in 1 .. n - 1
    BY <1>3, Two, Zenon
  <2>2. stack'[1] = stack[1]
    BY <1>1, <2>1
  <2>3. stack'[n].vector = 33 /\ stack'[n].pc = "iret" /\ stack'[n].todo = <<>>
    BY <1>1, <1>2, <1>4
  <2> QED
    BY <2>1, <2>2, <2>3
<1>11. HandlerFrame(2, stack'[2])
  BY <1>10 DEF HandlerFrame
<1>12. Types' /\ Shape' /\ Setup' /\ Tables' /\ Ready' /\ MasksKept' /\ Video' /\ Registered' /\ MissingGatesAreTheSlaves'
  <2>1. top.vector \in 32 .. 47 /\ stack'[2].vector = stack[2].vector
    BY <1>2, <1>3, <1>10
  <2> QED
    BY <1>1, <1>9, <1>10, <1>11, <2>1, IrqMoved
<1>13. Keyboard'
  BY <1>1, <1>2, <1>3, <1>7, <1>8, <1>9, <1>10 DEF Keyboard, BeforeKb
<1> QED
  BY <1>12, <1>13

(* An access of kmain behind loadIDT: that of initKb or of a driver's function. *)
LEMMA KmainAccess == ASSUME Inv, PortAccess, Len(stack) < 2, idtr PROVE Inv'
<1> USE DEF Inv
<1> DEFINE a == Head(top.todo)
           v == Value(a.value, top.saved)
           w == Written(chips[a.chip], a.port, v)
<1>1. /\ top.todo # <<>> /\ a \in Access /\ top \in FrameSet
      /\ stack' \in Seq(FrameSet) /\ Len(stack') = Len(stack)
      /\ LET f == stack'[Len(stack)]
         IN  /\ f.todo = Tail(top.todo) /\ f.pc = top.pc /\ f.vector = top.vector /\ f.cmd = top.cmd
             /\ a.op = "in" => /\ f.saved = Append(top.saved, ReadFrom(chips[a.chip], a.port))
                               /\ ReadFrom(chips[a.chip], a.port) \in SUBSET Lines
             /\ a.op = "out" => f.saved = top.saved
      /\ a.op = "in" => chips' = chips
      /\ a.op = "out" => chips' = [chips EXCEPT ![a.chip] = w]
      /\ UNCHANGED <<machine, ifl, tables, drivers, rest>>
  BY AccessOnTop
<1>2. /\ Len(stack) \in Nat /\ Len(stack) >= 1 /\ Len(stack) < 2 /\ top = stack[1]
  BY Frames DEF top
<1> DEFINE f == stack'[1]
<1>3. /\ stack[1].todo # <<>> /\ stack[1] \in FrameSet
      /\ f.todo = Tail(stack[1].todo) /\ f.pc = stack[1].pc /\ f.vector = stack[1].vector /\ f.cmd = stack[1].cmd
      /\ a.op = "in" => /\ f.saved = Append(stack[1].saved, ReadFrom(chips[a.chip], a.port))
                        /\ ReadFrom(chips[a.chip], a.port) \in SUBSET Lines
      /\ a.op = "out" => f.saved = stack[1].saved
      /\ Len(stack') < 2 /\ Len(stack') >= 1
  BY <1>1, <1>2
<1>4. stack[1].todo \in Seq(Access) /\ stack[1].saved \in Seq(SUBSET Lines) /\ a = stack[1].todo[1]
      /\ Len(stack[1].todo) \in Nat /\ Len(stack[1].todo) >= 1
  BY <1>2, <1>3, EmptySeq DEF FrameSet
<1>5. a.op \in {"in", "out"} /\ a.chip \in Chips /\ a.port \in {"CMD", "DATA"}
  BY <1>1 DEF Access
<1>6. Sound(stack[1]) /\ Harmless(a) /\ (a.op = "out" /\ FromSaved(a) => stack[1].saved # <<>>)
  <2>1. Sound(stack[1])
    BY DEF Ready
  <2>2. 1 \in 1 .. Len(stack[1].todo)
    BY <1>4
  <2> QED
    BY <1>4, <2>1, <2>2 DEF Sound
<1>7. chips \in [Chips -> Chip] /\ chips[a.chip] \in Chip /\ chips[a.chip].step = "ready"
  BY <1>5 DEF Types, Ready
<1>8. /\ chips' \in [Chips -> Chip]
      /\ \A c \in Chips : /\ chips'[c].step = chips[c].step /\ chips'[c].offset = chips[c].offset
                          /\ chips'[c].irr = chips[c].irr /\ chips'[c].isr \subseteq chips[c].isr
  <2>1. CASE a.op = "in"
    BY <1>1, <1>7, <2>1
  <2>2. CASE a.op = "out"
    <3>1. w \in Chip /\ w.step = "ready" /\ w.offset = chips[a.chip].offset /\ w.irr = chips[a.chip].irr
          /\ w.isr \subseteq chips[a.chip].isr
      BY ZenonT(40), <1>1, <1>2, <1>4, <1>6, <1>7, <2>2, HarmlessWrite
    <3>2. chips' = [chips EXCEPT ![a.chip] = w]
      BY <1>1, <2>2
    <3> HIDE DEF w, v, a
    <3> QED
      BY SMTT(30), <1>5, <1>7, <3>1, <3>2
  <2> QED
    BY <1>5, <2>1, <2>2
<1> HIDE DEF a
<1>9. Types'
  BY <1>1, <1>2, <1>8 DEF Types
<1>10. Shape'
  BY <1>1, <1>3 DEF Shape
<1>11. Setup' /\ Tables'
  BY <1>1, <1>3 DEF Setup, Tables
<1>12. Ready'
  <2>1. Sound(f)
    <3>1. ASSUME NEW i \in 1 .. Len(f.todo)
          PROVE  i + 1 \in 1 .. Len(stack[1].todo) /\ f.todo[i] = stack[1].todo[i + 1]
      BY <1>3, <1>4, HeadTailProperties
    <3>2. ASSUME NEW i \in 1 .. Len(f.todo)
          PROVE  Harmless(f.todo[i]) /\ (FromSaved(f.todo[i]) => f.saved # <<>>)
      <4>1. /\ Harmless(f.todo[i])
            /\ FromSaved(f.todo[i]) => stack[1].saved # <<>> \/ a.op = "in"
        BY <1>4, <1>6, <3>1 DEF Sound
      <4>2. CASE a.op = "in"
        <5>1. f.saved # <<>>
          BY <1>3, <1>4, <4>2, AppendProperties
        <5> QED
          BY <4>1, <5>1
      <4>3. CASE a.op = "out"
        BY <1>3, <4>1, <4>3
      <4> QED
        BY <1>5, <4>2, <4>3
    <3> QED
      BY <3>2 DEF Sound
  <2> QED
    BY <1>1, <1>8, <2>1 DEF Ready
<1>13. ~(BeforeKb /\ calls = 0)
  BY <1>3 DEF MasksKept, BeforeKb
<1>14. MasksKept'
  <2> SUFFICES ASSUME calls = 0 PROVE MasksKept'
    BY <1>1 DEF MasksKept
  <2> DEFINE U == picUnmask(1)
             F == firmware["MASTER"]
  <2>1. /\ stack[1].pc = "callback" /\ f.pc = "callback" /\ chips["SLAVE"].mask = firmware["SLAVE"]
        /\ \/ chips["MASTER"].mask = F /\ stack[1].todo = U /\ stack[1].saved = <<>>
           \/ chips["MASTER"].mask = F /\ stack[1].todo = Tail(U) /\ stack[1].saved = <<F>>
    BY <1>3 DEF MasksKept
  <2>2. U = <<In("MASTER", "DATA"), Out("MASTER", "DATA", <<"SAVED_WITHOUT", 1>>)>>
        /\ Tail(U) = <<Out("MASTER", "DATA", <<"SAVED_WITHOUT", 1>>)>> /\ Tail(Tail(U)) = <<>>
    BY DEF picUnmask, ChipOf, LineOf
  <2> HIDE DEF U, F
  <2>3. /\ ~BeforeKb' /\ stack'[1].pc = "callback" /\ idtr' /\ calls' = 0 /\ firmware' = firmware
    BY <1>1, <2>1 DEF BeforeKb
  <2>4. CASE chips["MASTER"].mask = F /\ stack[1].todo = U /\ stack[1].saved = <<>>
    <3>1. a.op = "in" /\ a.port = "DATA" /\ a.chip = "MASTER"
      BY <1>4, <2>2, <2>4 DEF In
    <3>2. chips' = chips /\ f.todo = Tail(U) /\ f.saved = <<F>>
      BY <1>1, <1>3, <2>4, <3>1 DEF ReadFrom
    <3> QED
      BY <2>1, <2>3, <2>4, <3>2 DEF MasksKept, U, F
  <2>5. CASE chips["MASTER"].mask = F /\ stack[1].todo = Tail(U) /\ stack[1].saved = <<F>>
    <3>1. a = Out("MASTER", "DATA", <<"SAVED_WITHOUT", 1>>)
      BY <1>4, <2>2, <2>5
    <3>2. a.op = "out" /\ a.port = "DATA" /\ a.chip = "MASTER" /\ a.value = <<"SAVED_WITHOUT", 1>>
      BY <3>1 DEF Out
    <3>3. Value(a.value, top.saved) = <<"MASK", F \ {1}>>
      BY <1>2, <2>5, <3>2 DEF Value
    <3>4. Written(chips[a.chip], "DATA", <<"MASK", F \ {1}>>) = [chips["MASTER"] EXCEPT !.mask = F \ {1}]
      BY <1>7, <3>2 DEF Written, Data
    <3>5. w = [chips["MASTER"] EXCEPT !.mask = F \ {1}]
      BY <3>2, <3>3, <3>4
    <3>6. chips' = [chips EXCEPT !["MASTER"] = w]
      BY <1>1, <3>2
    <3> HIDE DEF w
    <3>7. chips'["MASTER"].mask = F \ {1} /\ chips'["SLAVE"] = chips["SLAVE"]
      BY <1>7, <3>5, <3>6 DEF Chip
    <3>8. f.todo = <<>>
      BY <1>3, <2>2, <2>5
    <3> QED
      BY <2>1, <2>3, <3>7, <3>8 DEF MasksKept, F
  <2> QED
    BY <2>1, <2>4, <2>5
<1>15. Keyboard'
  <2>1. ~BeforeKb /\ ~BeforeKb'
    BY <1>3, <1>13 DEF BeforeKb, Keyboard
  <2> QED
    BY <1>1, <1>2, <1>3, <1>8, <2>1 DEF Keyboard
<1>16. Video'
  BY <1>1, <1>2, <1>3 DEF Video, Types
<1>17. Registered'
  BY <1>1, <1>3 DEF Registered
<1>18. MissingGatesAreTheSlaves'
  <2>1. ASSUME NEW i \in 1 .. Len(stack') PROVE i = 1
    BY <1>3
  <2> QED
    BY <1>3, <2>1 DEF MissingGatesAreTheSlaves, Shape
<1> QED
  BY <1>9, <1>10, <1>11, <1>12, <1>14, <1>15, <1>16, <1>17, <1>18

(* picRemap's next access, while there is no table of interrupts yet.      *)
LEMMA RemapAccess == ASSUME Inv, PortAccess, Len(stack) < 2, ~idtr PROVE Inv'
<1> USE DEF Inv
<1> DEFINE a == Head(top.todo)
           v == Value(a.value, top.saved)
           w == Written(chips[a.chip], a.port, v)
           f == stack'[1]
           s == stack[1].saved
<1>1. /\ top.todo # <<>> /\ a \in Access /\ top \in FrameSet
      /\ stack' \in Seq(FrameSet) /\ Len(stack') = Len(stack)
      /\ LET g == stack'[Len(stack)]
         IN  /\ g.todo = Tail(top.todo) /\ g.pc = top.pc /\ g.vector = top.vector /\ g.cmd = top.cmd
             /\ a.op = "in" => g.saved = Append(top.saved, ReadFrom(chips[a.chip], a.port))
             /\ a.op = "out" => g.saved = top.saved
      /\ a.op = "in" => chips' = chips
      /\ a.op = "out" => chips' = [chips EXCEPT ![a.chip] = w]
      /\ UNCHANGED <<machine, ifl, tables, drivers, rest>>
  BY AccessOnTop
<1>2. /\ Len(stack) \in Nat /\ Len(stack) >= 1 /\ Len(stack) < 2 /\ top = stack[1]
  BY Frames DEF top
<1>3. /\ stack[1].todo # <<>> /\ stack[1] \in FrameSet /\ s \in Seq(SUBSET Lines)
      /\ f.todo = Tail(stack[1].todo) /\ f.pc = stack[1].pc /\ f.vector = stack[1].vector /\ f.cmd = stack[1].cmd
      /\ a.op = "in" => f.saved = Append(s, ReadFrom(chips[a.chip], a.port))
      /\ a.op = "out" => f.saved = s
      /\ Len(stack') < 2 /\ Len(stack') >= 1
  BY <1>1, <1>2 DEF FrameSet
<1>4. PICK k \in 0 .. 11 : RemapState(k) /\ stack[1].todo = RemapLeft(k) /\ stack[1].pc = "idtSetDesc"
  <2>1. PICK j \in 0 .. 12 :
          /\ RemapState(j)
          /\ stack[1].pc \in {"kmain", "initGDT"} => stack[1].todo = <<>>
          /\ stack[1].pc = "idtSetDesc" => stack[1].todo = RemapLeft(j)
          /\ stack[1].pc = "loadIDT" => stack[1].todo = <<>>
    BY DEF Setup
  <2>2. stack[1].pc = "idtSetDesc" /\ stack[1].todo = RemapLeft(j)
    BY <1>3, <2>1 DEF Setup
  <2>3. j # 12
    BY <1>3, <2>2, RemapProgram
  <2>4. j \in 0 .. 11
    BY <2>3
  <2> QED
    BY <2>1, <2>2, <2>4
<1>5. a = Remap[k + 1] /\ f.todo = RemapLeft(k + 1)
  BY <1>2, <1>3, <1>4, RemapProgram
<1>6. /\ chips \in [Chips -> Chip] /\ chips["MASTER"] \in Chip /\ chips["SLAVE"] \in Chip
      /\ firmware["MASTER"] \in SUBSET Lines /\ firmware["SLAVE"] \in SUBSET Lines
      /\ firmware' = firmware
      /\ chips["MASTER"].isr = {} /\ chips["SLAVE"].isr = {} /\ SavedMasks(k, s, firmware)
  BY ZenonT(40), <1>1, <1>4, AnswersAssumption DEF Types, RemapState
<1>7. RemapState(k) /\ top.saved = s
  BY <1>2, <1>4
<1> HIDE DEF Inv, a, s
<1> DEFINE Goal == /\ chips' \in [Chips -> Chip] /\ RemapState(k + 1)'
                   /\ chips'["MASTER"].irr \subseteq chips["MASTER"].irr
<1> USE DEF Written, Command, Data, ReadFrom
<1>c0. ASSUME k = 0 PROVE Goal
  <2>1. a.op = "in" /\ a.chip = "MASTER" /\ a.port = "DATA"
    BY <1>5, <1>c0 DEF Remap, picRemap, In
  <2>2. chips' = chips /\ f.saved = Append(s, chips["MASTER"].mask) /\ chips["MASTER"].mask = firmware["MASTER"]
    BY <1>1, <1>3, <1>7, <1>c0, <2>1 DEF RemapState
  <2>3. SavedMasks(1, f.saved, firmware')
    BY <1>3, <1>6, <1>c0, <2>2, AppendProperties DEF SavedMasks
  <2>4. SavedMasks(1, f.saved, firmware')
    BY <1>6, <2>3 DEF SavedMasks
  <2> HIDE DEF f
  <2> QED
    BY <1>6, <1>7, <1>c0, <2>2, <2>4 DEF RemapState, StepAfter, f
<1>c1. ASSUME k = 1 PROVE Goal
  <2>1. a.op = "in" /\ a.chip = "SLAVE" /\ a.port = "DATA"
    BY <1>5, <1>c1 DEF Remap, picRemap, In
  <2>2. chips' = chips /\ f.saved = Append(s, chips["SLAVE"].mask) /\ chips["SLAVE"].mask = firmware["SLAVE"]
    BY <1>1, <1>3, <1>7, <1>c1, <2>1 DEF RemapState
  <2>3. SavedMasks(2, f.saved, firmware')
    <3>1. Len(s) <= 1 /\ Len(s) >= 1 /\ s[1] = firmware["MASTER"]
      BY <1>6, <1>c1 DEF SavedMasks
    <3>2. /\ Len(Append(s, firmware["SLAVE"])) = Len(s) + 1 /\ Append(s, firmware["SLAVE"])[1] = s[1]
          /\ Append(s, firmware["SLAVE"])[Len(s) + 1] = firmware["SLAVE"]
      BY <1>3, <1>6, <3>1, AppendProperties
    <3>3. Len(s) = 1
      <4>1. Len(s) \in Nat
        BY <1>3, LenProperties
      <4> QED
        BY <3>1, <4>1, One, Zenon
    <3> QED
      BY <1>6, <2>2, <3>1, <3>2, <3>3 DEF SavedMasks
  <2>4. SavedMasks(2, f.saved, firmware')
    BY <1>6, <2>3 DEF SavedMasks
  <2> HIDE DEF f
  <2> QED
    BY <1>6, <1>7, <1>c1, <2>2, <2>4 DEF RemapState, StepAfter, f
<1>c2. ASSUME k = 2 PROVE Goal
  <2>1. a.op = "out" /\ a.chip = "MASTER" /\ a.port = "CMD" /\ a.value = <<"ICW1">>
    BY <1>5, <1>c2 DEF Remap, picRemap, Out
  <2>2. v = <<"ICW1">>
    BY <2>1 DEF Value
  <2> HIDE DEF v
  <2>3. w = [chips["MASTER"] EXCEPT !.step = "ICW2", !.mask = {}, !.irr = {}, !.isr = {}]
    BY <1>6, <1>7, <1>c2, <2>1, <2>2 DEF RemapState, StepAfter
  <2> HIDE DEF w
  <2>4. chips' = [chips EXCEPT !["MASTER"] = w] /\ f.saved = s
    BY <1>1, <1>3, <2>1
  <2>5. chips'["MASTER"] = w /\ chips'["SLAVE"] = chips["SLAVE"] /\ w \in Chip /\ chips' \in [Chips -> Chip]
    BY <1>6, <2>3, <2>4 DEF Chip
  <2>6. SavedMasks(3, f.saved, firmware')
    BY <1>6, <1>c2, <2>4 DEF SavedMasks
  <2>7. /\ w.step = "ICW2" /\ w.offset = chips["MASTER"].offset /\ w.mask = {}
        /\ w.irr = {} /\ w.isr = {}
    BY <1>6, <2>3 DEF Chip
  <2> HIDE DEF f
  <2> QED
    BY <1>6, <1>7, <1>c2, <2>5, <2>6, <2>7 DEF RemapState, StepAfter, f
<1>c3. ASSUME k = 3 PROVE Goal
  <2>1. a.op = "out" /\ a.chip = "SLAVE" /\ a.port = "CMD" /\ a.value = <<"ICW1">>
    BY <1>5, <1>c3 DEF Remap, picRemap, Out
  <2>2. v = <<"ICW1">>
    BY <2>1 DEF Value
  <2> HIDE DEF v
  <2>3. w = [chips["SLAVE"] EXCEPT !.step = "ICW2", !.mask = {}, !.irr = {}, !.isr = {}]
    BY <1>6, <1>7, <1>c3, <2>1, <2>2 DEF RemapState, StepAfter
  <2> HIDE DEF w
  <2>4. chips' = [chips EXCEPT !["SLAVE"] = w] /\ f.saved = s
    BY <1>1, <1>3, <2>1
  <2>5. chips'["SLAVE"] = w /\ chips'["MASTER"] = chips["MASTER"] /\ w \in Chip /\ chips' \in [Chips -> Chip]
    BY <1>6, <2>3, <2>4 DEF Chip
  <2>6. SavedMasks(4, f.saved, firmware')
    BY <1>6, <1>c3, <2>4 DEF SavedMasks
  <2>7. /\ w.step = "ICW2" /\ w.offset = chips["SLAVE"].offset /\ w.mask = {}
        /\ w.irr = {} /\ w.isr = {}
    BY <1>6, <2>3 DEF Chip
  <2> HIDE DEF f
  <2> QED
    BY <1>6, <1>7, <1>c3, <2>5, <2>6, <2>7 DEF RemapState, StepAfter, f
<1>c4. ASSUME k = 4 PROVE Goal
  <2>1. a.op = "out" /\ a.chip = "MASTER" /\ a.port = "DATA" /\ a.value = <<"OFFSET", 32>>
    BY <1>5, <1>c4 DEF Remap, picRemap, Out
  <2>2. v = <<"OFFSET", 32>>
    BY <2>1 DEF Value
  <2> HIDE DEF v
  <2>3. w = [chips["MASTER"] EXCEPT !.step = "ICW3", !.offset = 32]
    BY <1>6, <1>7, <1>c4, <2>1, <2>2 DEF RemapState, StepAfter
  <2> HIDE DEF w
  <2>4. chips' = [chips EXCEPT !["MASTER"] = w] /\ f.saved = s
    BY <1>1, <1>3, <2>1
  <2>5. chips'["MASTER"] = w /\ chips'["SLAVE"] = chips["SLAVE"] /\ w \in Chip /\ chips' \in [Chips -> Chip]
    BY <1>6, <2>3, <2>4 DEF Chip
  <2>6. SavedMasks(5, f.saved, firmware')
    BY <1>6, <1>c4, <2>4 DEF SavedMasks
  <2>7. /\ w.step = "ICW3" /\ w.offset = 32 /\ w.mask = chips["MASTER"].mask
        /\ w.irr = chips["MASTER"].irr /\ w.isr = chips["MASTER"].isr
    BY <1>6, <2>3 DEF Chip
  <2> HIDE DEF f
  <2> QED
    BY <1>6, <1>7, <1>c4, <2>5, <2>6, <2>7 DEF RemapState, StepAfter, f
<1>c5. ASSUME k = 5 PROVE Goal
  <2>1. a.op = "out" /\ a.chip = "SLAVE" /\ a.port = "DATA" /\ a.value = <<"OFFSET", 48>>
    BY <1>5, <1>c5 DEF Remap, picRemap, Out
  <2>2. v = <<"OFFSET", 48>>
    BY <2>1 DEF Value
  <2> HIDE DEF v
  <2>3. w = [chips["SLAVE"] EXCEPT !.step = "ICW3", !.offset = 48]
    BY <1>6, <1>7, <1>c5, <2>1, <2>2 DEF RemapState, StepAfter
  <2> HIDE DEF w
  <2>4. chips' = [chips EXCEPT !["SLAVE"] = w] /\ f.saved = s
    BY <1>1, <1>3, <2>1
  <2>5. chips'["SLAVE"] = w /\ chips'["MASTER"] = chips["MASTER"] /\ w \in Chip /\ chips' \in [Chips -> Chip]
    BY <1>6, <2>3, <2>4 DEF Chip
  <2>6. SavedMasks(6, f.saved, firmware')
    BY <1>6, <1>c5, <2>4 DEF SavedMasks
  <2>7. /\ w.step = "ICW3" /\ w.offset = 48 /\ w.mask = chips["SLAVE"].mask
        /\ w.irr = chips["SLAVE"].irr /\ w.isr = chips["SLAVE"].isr
    BY <1>6, <2>3 DEF Chip
  <2> HIDE DEF f
  <2> QED
    BY <1>6, <1>7, <1>c5, <2>5, <2>6, <2>7 DEF RemapState, StepAfter, f
<1>c6. ASSUME k = 6 PROVE Goal
  <2>1. a.op = "out" /\ a.chip = "MASTER" /\ a.port = "DATA" /\ a.value = <<"WIRING", 4>>
    BY <1>5, <1>c6 DEF Remap, picRemap, Out
  <2>2. v = <<"WIRING", 4>>
    BY <2>1 DEF Value
  <2> HIDE DEF v
  <2>3. w = [chips["MASTER"] EXCEPT !.step = "ICW4"]
    BY <1>6, <1>7, <1>c6, <2>1, <2>2 DEF RemapState, StepAfter
  <2> HIDE DEF w
  <2>4. chips' = [chips EXCEPT !["MASTER"] = w] /\ f.saved = s
    BY <1>1, <1>3, <2>1
  <2>5. chips'["MASTER"] = w /\ chips'["SLAVE"] = chips["SLAVE"] /\ w \in Chip /\ chips' \in [Chips -> Chip]
    BY <1>6, <2>3, <2>4 DEF Chip
  <2>6. SavedMasks(7, f.saved, firmware')
    BY <1>6, <1>c6, <2>4 DEF SavedMasks
  <2>7. /\ w.step = "ICW4" /\ w.offset = chips["MASTER"].offset /\ w.mask = chips["MASTER"].mask
        /\ w.irr = chips["MASTER"].irr /\ w.isr = chips["MASTER"].isr
    BY <1>6, <2>3 DEF Chip
  <2> HIDE DEF f
  <2> QED
    BY <1>6, <1>7, <1>c6, <2>5, <2>6, <2>7 DEF RemapState, StepAfter, f
<1>c7. ASSUME k = 7 PROVE Goal
  <2>1. a.op = "out" /\ a.chip = "SLAVE" /\ a.port = "DATA" /\ a.value = <<"WIRING", 2>>
    BY <1>5, <1>c7 DEF Remap, picRemap, Out
  <2>2. v = <<"WIRING", 2>>
    BY <2>1 DEF Value
  <2> HIDE DEF v
  <2>3. w = [chips["SLAVE"] EXCEPT !.step = "ICW4"]
    BY <1>6, <1>7, <1>c7, <2>1, <2>2 DEF RemapState, StepAfter
  <2> HIDE DEF w
  <2>4. chips' = [chips EXCEPT !["SLAVE"] = w] /\ f.saved = s
    BY <1>1, <1>3, <2>1
  <2>5. chips'["SLAVE"] = w /\ chips'["MASTER"] = chips["MASTER"] /\ w \in Chip /\ chips' \in [Chips -> Chip]
    BY <1>6, <2>3, <2>4 DEF Chip
  <2>6. SavedMasks(8, f.saved, firmware')
    BY <1>6, <1>c7, <2>4 DEF SavedMasks
  <2>7. /\ w.step = "ICW4" /\ w.offset = chips["SLAVE"].offset /\ w.mask = chips["SLAVE"].mask
        /\ w.irr = chips["SLAVE"].irr /\ w.isr = chips["SLAVE"].isr
    BY <1>6, <2>3 DEF Chip
  <2> HIDE DEF f
  <2> QED
    BY <1>6, <1>7, <1>c7, <2>5, <2>6, <2>7 DEF RemapState, StepAfter, f
<1>c8. ASSUME k = 8 PROVE Goal
  <2>1. a.op = "out" /\ a.chip = "MASTER" /\ a.port = "DATA" /\ a.value = <<"ICW4_8086">>
    BY <1>5, <1>c8 DEF Remap, picRemap, Out
  <2>2. v = <<"ICW4_8086">>
    BY <2>1 DEF Value
  <2> HIDE DEF v
  <2>3. w = [chips["MASTER"] EXCEPT !.step = "ready"]
    BY <1>6, <1>7, <1>c8, <2>1, <2>2 DEF RemapState, StepAfter
  <2> HIDE DEF w
  <2>4. chips' = [chips EXCEPT !["MASTER"] = w] /\ f.saved = s
    BY <1>1, <1>3, <2>1
  <2>5. chips'["MASTER"] = w /\ chips'["SLAVE"] = chips["SLAVE"] /\ w \in Chip /\ chips' \in [Chips -> Chip]
    BY <1>6, <2>3, <2>4 DEF Chip
  <2>6. SavedMasks(9, f.saved, firmware')
    BY <1>6, <1>c8, <2>4 DEF SavedMasks
  <2>7. /\ w.step = "ready" /\ w.offset = chips["MASTER"].offset /\ w.mask = chips["MASTER"].mask
        /\ w.irr = chips["MASTER"].irr /\ w.isr = chips["MASTER"].isr
    BY <1>6, <2>3 DEF Chip
  <2> HIDE DEF f
  <2> QED
    BY <1>6, <1>7, <1>c8, <2>5, <2>6, <2>7 DEF RemapState, StepAfter, f
<1>c9. ASSUME k = 9 PROVE Goal
  <2>1. a.op = "out" /\ a.chip = "SLAVE" /\ a.port = "DATA" /\ a.value = <<"ICW4_8086">>
    BY <1>5, <1>c9 DEF Remap, picRemap, Out
  <2>2. v = <<"ICW4_8086">>
    BY <2>1 DEF Value
  <2> HIDE DEF v
  <2>3. w = [chips["SLAVE"] EXCEPT !.step = "ready"]
    BY <1>6, <1>7, <1>c9, <2>1, <2>2 DEF RemapState, StepAfter
  <2> HIDE DEF w
  <2>4. chips' = [chips EXCEPT !["SLAVE"] = w] /\ f.saved = s
    BY <1>1, <1>3, <2>1
  <2>5. chips'["SLAVE"] = w /\ chips'["MASTER"] = chips["MASTER"] /\ w \in Chip /\ chips' \in [Chips -> Chip]
    BY <1>6, <2>3, <2>4 DEF Chip
  <2>6. SavedMasks(10, f.saved, firmware')
    BY <1>6, <1>c9, <2>4 DEF SavedMasks
  <2>7. /\ w.step = "ready" /\ w.offset = chips["SLAVE"].offset /\ w.mask = chips["SLAVE"].mask
        /\ w.irr = chips["SLAVE"].irr /\ w.isr = chips["SLAVE"].isr
    BY <1>6, <2>3 DEF Chip
  <2> HIDE DEF f
  <2> QED
    BY <1>6, <1>7, <1>c9, <2>5, <2>6, <2>7 DEF RemapState, StepAfter, f
<1>c10. ASSUME k = 10 PROVE Goal
  <2>1. a.op = "out" /\ a.chip = "MASTER" /\ a.port = "DATA" /\ a.value = <<"SAVED", 1>>
    BY <1>5, <1>c10 DEF Remap, picRemap, Out
  <2>2. v = <<"MASK", firmware["MASTER"]>>
    BY <1>6, <1>7, <1>c10, <2>1 DEF Value, SavedMasks
  <2> HIDE DEF v
  <2>3. w = [chips["MASTER"] EXCEPT !.mask = firmware["MASTER"]]
    BY <1>6, <1>7, <1>c10, <2>1, <2>2 DEF RemapState, StepAfter
  <2> HIDE DEF w
  <2>4. chips' = [chips EXCEPT !["MASTER"] = w] /\ f.saved = s
    BY <1>1, <1>3, <2>1
  <2>5. chips'["MASTER"] = w /\ chips'["SLAVE"] = chips["SLAVE"] /\ w \in Chip /\ chips' \in [Chips -> Chip]
    BY <1>6, <2>3, <2>4 DEF Chip
  <2>6. SavedMasks(11, f.saved, firmware')
    BY <1>6, <1>c10, <2>4 DEF SavedMasks
  <2>7. /\ w.step = chips["MASTER"].step /\ w.offset = chips["MASTER"].offset /\ w.mask = firmware["MASTER"]
        /\ w.irr = chips["MASTER"].irr /\ w.isr = chips["MASTER"].isr
    BY <1>6, <2>3 DEF Chip
  <2> HIDE DEF f
  <2> QED
    BY <1>6, <1>7, <1>c10, <2>5, <2>6, <2>7 DEF RemapState, StepAfter, f
<1>c11. ASSUME k = 11 PROVE Goal
  <2>1. a.op = "out" /\ a.chip = "SLAVE" /\ a.port = "DATA" /\ a.value = <<"SAVED", 2>>
    BY <1>5, <1>c11 DEF Remap, picRemap, Out
  <2>2. v = <<"MASK", firmware["SLAVE"]>>
    BY <1>6, <1>7, <1>c11, <2>1 DEF Value, SavedMasks
  <2> HIDE DEF v
  <2>3. w = [chips["SLAVE"] EXCEPT !.mask = firmware["SLAVE"]]
    BY <1>6, <1>7, <1>c11, <2>1, <2>2 DEF RemapState, StepAfter
  <2> HIDE DEF w
  <2>4. chips' = [chips EXCEPT !["SLAVE"] = w] /\ f.saved = s
    BY <1>1, <1>3, <2>1
  <2>5. chips'["SLAVE"] = w /\ chips'["MASTER"] = chips["MASTER"] /\ w \in Chip /\ chips' \in [Chips -> Chip]
    BY <1>6, <2>3, <2>4 DEF Chip
  <2>6. SavedMasks(12, f.saved, firmware')
    BY <1>6, <1>c11, <2>4 DEF SavedMasks
  <2>7. /\ w.step = chips["SLAVE"].step /\ w.offset = chips["SLAVE"].offset /\ w.mask = firmware["SLAVE"]
        /\ w.irr = chips["SLAVE"].irr /\ w.isr = chips["SLAVE"].isr
    BY <1>6, <2>3 DEF Chip
  <2> HIDE DEF f
  <2> QED
    BY <1>6, <1>7, <1>c11, <2>5, <2>6, <2>7 DEF RemapState, StepAfter, f
<1>8. Goal
  <2>1. k = 0 \/ k = 1 \/ k = 2 \/ k = 3 \/ k = 4 \/ k = 5 \/ k = 6 \/ k = 7 \/ k = 8 \/ k = 9 \/ k = 10 \/ k = 11
    BY <1>4
  <2> HIDE DEF Goal
  <2> QED
    BY <2>1, <1>c0, <1>c1, <1>c2, <1>c3, <1>c4, <1>c5, <1>c6, <1>c7, <1>c8, <1>c9, <1>c10, <1>c11
<1>9. Types'
  BY <1>1, <1>2, <1>8 DEF Inv, Types
<1>10. Shape'
  BY <1>1, <1>3 DEF Inv, Shape
<1>11. Setup'
  <2>1. k + 1 \in 0 .. 12 /\ f.pc = "idtSetDesc" /\ f.todo = RemapLeft(k + 1)
    BY <1>3, <1>4, <1>5
  <2>2. idtr' = FALSE /\ ifl' = FALSE
    BY <1>1 DEF Inv, Setup, Types
  <2>3. f.todo = RemapLeft(k + 1)'
    BY <2>1 DEF RemapLeft, Remap
  <2> QED
    BY <1>8, <2>1, <2>2, <2>3 DEF Setup
<1>12. Tables' /\ Ready' /\ MasksKept'
  BY <1>1, <1>3 DEF Inv, Tables, Ready, MasksKept
<1>13. Keyboard'
  <2>1. BeforeKb /\ BeforeKb'
    BY <1>3, <1>4 DEF BeforeKb
  <2>2. \A c \in Chips : chips'[c].isr = {}
    BY <1>8 DEF RemapState
  <2> QED
    BY <1>1, <1>3, <1>8, <2>1, <2>2 DEF Inv, Keyboard
<1>14. Video'
  BY <1>1, <1>3 DEF Inv, Video, Types
<1>15. Registered'
  BY <1>1, <1>3 DEF Inv, Registered
<1>16. MissingGatesAreTheSlaves'
  <2>1. ASSUME NEW i \in 1 .. Len(stack') PROVE i = 1
    BY <1>3
  <2> QED
    BY <1>3, <2>1 DEF Inv, MissingGatesAreTheSlaves, Shape
<1> QED
  BY <1>9, <1>10, <1>11, <1>12, <1>13, <1>14, <1>15, <1>16 DEF Inv

(* Every port access keeps the invariant,                                  *)
LEMMA Step_PortAccess == Inv /\ PortAccess => Inv'
<1>1. ASSUME Inv PROVE Len(stack) \in Nat /\ idtr \in BOOLEAN
  BY <1>1, Frames DEF Inv, Types
<1> QED
  BY <1>1, HandlerAccess, KmainAccess, RemapAccess

(* a step that changes nothing does,                                       *)
LEMMA Unchanged == ASSUME Inv, UNCHANGED vars PROVE Inv'
<1> USE DEF Inv, vars
<1>1. Types' /\ Shape' /\ Tables' /\ Ready' /\ Video' /\ Registered' /\ MissingGatesAreTheSlaves'
  BY DEF Types, Shape, Tables, Ready, Video, Registered, MissingGatesAreTheSlaves
<1>2. Setup' /\ MasksKept' /\ Keyboard'
  BY DEF Setup, RemapState, SavedMasks, MasksKept, Keyboard, BeforeKb
<1> QED
  BY <1>1, <1>2

(* and every step does.                                                    *)
LEMMA NextInv == Inv /\ [Next]_vars => Inv'
<1> SUFFICES ASSUME Inv, [Next]_vars PROVE Inv'
  OBVIOUS
<1> USE Step_PortAccess, Step_kmain, Step_initGDT, Step_idtSetDesc, Step_loadIDT, Step_initPMM,
        Step_initVideo, Step_storeField, Step_countCommand, Step_tableFull, Step_initKb,
        Step_kbRegisterKeyCallback, Step_TakeInterrupt, Step_exception, Step_irq, Step_iretq
<1>1. CASE displayShellPrompt \/ Return
  BY <1>1, ToIdle DEF displayShellPrompt, Return
<1>2. CASE \E d \in Opened : DriverCall(d)
  BY <1>2, Step_DriverCall
<1>3. CASE \E i \in Raised : Raise(i)
  BY <1>3, Step_Raise
<1>4. CASE \E i \in Faults : Fault(i)
  BY <1>4, Step_Fault
<1>5. CASE Rest \/ UNCHANGED vars
  BY <1>5, Unchanged DEF Rest
<1> QED
  BY <1>1, <1>2, <1>3, <1>4, <1>5, Zenon DEF Next

(* The invariant holds at every state.                                     *)
LEMMA InvInvariant == Spec => []Inv
BY InitInv, NextInv, PTL DEF Spec

(* Min of two numbers.                                                     *)
LEMMA LesserOf ==
  ASSUME NEW a \in Nat, NEW b \in Nat
  PROVE  Min({a, b}) = IF a < b THEN a ELSE b
<1> DEFINE m == IF a < b THEN a ELSE b
<1>1. m \in {a, b} /\ \A y \in {a, b} : m <= y
  OBVIOUS
<1>2. ASSUME NEW x \in {a, b}, \A y \in {a, b} : x <= y PROVE x = m
  BY <1>2
<1> HIDE DEF m
<1>3. Min({a, b}) = m
  BY <1>1, <1>2 DEF Min
<1> QED
  BY <1>3 DEF m
-----------------------------------------------------------------------------
(* Every variable of the boot keeps its type.                              *)
THEOREM BootTypes == Spec => []TypeOK
<1>1. Inv => TypeOK
  <2> SUFFICES ASSUME Inv PROVE TypeOK
    OBVIOUS
  <2>1. gates \subseteq 0 .. 255
    BY DEF Inv, Tables
  <2>2. shellCmdCount \in 0 .. MAX_COMMANDS /\ DOMAIN table = 0 .. MAX_COMMANDS - 1
    <3>1. stack[1] \in FrameSet
      BY Frames DEF Inv
    <3> QED
      BY <3>1, SizesAssumption DEF Inv, Registered, FrameSet
  <2>3. \A i \in 1 .. Len(stack) : stack[i].vector \in 0 .. 256
    BY SMTT(30), Frames DEF Inv, FrameSet
  <2> QED
    BY <2>1, <2>2, <2>3 DEF Inv, Types, TypeOK
<1> QED
  BY <1>1, InvInvariant, PTL

(* For every mask the boot loader leaves behind: interrupts are on only    *)
(* over PICs that are out of their initialisation, with vectors apart from *)
(* the exceptions', gates and present descriptors; and for the lines they  *)
(* were on for and the keyboard's, as long as no driver's function changed *)
(* that.                                                                   *)
THEOREM InterruptsOverCompleteTables == Spec => []ReadyForInterrupts
<1>1. Inv => ReadyForInterrupts
  <2> SUFFICES ASSUME Inv, ifl PROVE TablesComplete /\ (calls = 0 => MasksRestored)
    BY DEF ReadyForInterrupts
  <2>1. idtr /\ stack[1].pc \notin EarlyPcs
    BY DEF Inv, Setup, Tables
  <2>2. gates = 0 .. 47 /\ gdt = Descriptors /\ segments = loadGDT
    BY <2>1 DEF Inv, Tables
  <2>3. \A c \in Chips : chips[c].step = "ready" /\ chips[c].offset >= 32
    BY <2>1 DEF Inv, Ready
  <2>4. chips["MASTER"].offset + 8 <= chips["SLAVE"].offset
    BY <2>1 DEF Inv, Ready
  <2>5. gdt[2].access = {"PRESENT", "RING0", "CODE_DATA_SEGMENT", "READ_WRITE"} \cup {"EXECUTABLE"}
        /\ gdt[3].access = {"PRESENT", "RING0", "CODE_DATA_SEGMENT", "READ_WRITE"}
    BY <2>2 DEF Descriptors, setGDTDesc, Kernel
  <2>6. segments.cs = kernelCS /\ (kernelCS \div 8) + 1 = 2 /\ (segments.data \div 8) + 1 = 3
    BY <2>2 DEF loadGDT, kernelCS
  <2>7. TablesComplete
    BY <2>1, <2>2, <2>3, <2>4, <2>5, <2>6 DEF TablesComplete
  <2>8. ASSUME calls = 0 PROVE MasksRestored
    <3>1. /\ chips["SLAVE"].mask = firmware["SLAVE"]
          /\ chips["MASTER"].mask = firmware["MASTER"] \/ chips["MASTER"].mask = firmware["MASTER"] \ {1}
      BY <2>1, <2>8 DEF Inv, MasksKept
    <3> QED
      BY <3>1 DEF MasksRestored
  <2> QED
    BY <2>7, <2>8
<1> QED
  BY <1>1, InvInvariant, PTL

(* The stack overruns only before initVideo has asserted the framebuffer,  *)
(* for every stack with room for an interrupt and the exceptions of code.  *)
THEOREM NoOverrunBehindVideo == Spec => []OverrunOnlyBeforeVideo
<1>1. Inv => OverrunOnlyBeforeVideo
  BY DEF Inv, Video, OverrunOnlyBeforeVideo
<1> QED
  BY <1>1, InvInvariant, PTL

(* What idt.c:109-111 gives up of idt.c:107: the gates suffice for every   *)
(* exception and every line of the master, and for the slave's only while  *)
(* all of them are masked, as picRemap's vectors for them have no gate.    *)
THEOREM GatesSuffice == Spec => []MissingGatesAreTheSlaves
<1>1. Inv => MissingGatesAreTheSlaves
  BY DEF Inv
<1> QED
  BY <1>1, InvInvariant, PTL

(* When no handler runs, no line with a handler is still in service.       *)
THEOREM HandlersAcknowledge == Spec => []HandledIsAcknowledged
<1>1. Inv => HandledIsAcknowledged
  <2> SUFFICES ASSUME Inv, Len(stack) = 1, NEW c \in Chips, NEW n \in Lines, n \in chips[c].isr
               PROVE  irqHandlers[IF c = "MASTER" THEN n ELSE n + 8] = "NULL"
    BY Zenon DEF HandledIsAcknowledged
  <2>1. ~(Len(stack) >= 2)
    OBVIOUS
  <2> DEFINE i == IF c = "MASTER" THEN n ELSE n + 8
  <2>2. i \in 0 .. 15 /\ (i = 1 => c = "MASTER" /\ n = 1)
    OBVIOUS
  <2>3. irqHandlers[1] # "kbHandler" \/ 1 \notin chips["MASTER"].isr
    BY <2>1 DEF Inv, Keyboard
  <2>4. irqHandlers[1] \in {"NULL", "kbHandler"}
    BY DEF Inv, Types
  <2>5. i # 1 => irqHandlers[i] = "NULL"
    BY <2>2 DEF Inv, Keyboard
  <2> HIDE DEF i
  <2>6. i = 1 => irqHandlers[i] = "NULL"
    BY <2>2, <2>3, <2>4
  <2> QED
    BY <2>5, <2>6 DEF i
<1> QED
  BY <1>1, InvInvariant, PTL

(* For any number of commands and of places for them, and as long as no    *)
(* interrupt has come back to kmain without its registers (asm.s:16-24): a *)
(* counted command is complete and in its place, also under the key        *)
(* handler that comes between two of the stores, and at the idle loop the  *)
(* table holds the first MAX_COMMANDS.                                     *)
THEOREM EveryCommandComplete == Spec => []CommandsComplete
<1>1. Inv => CommandsComplete
  <2> SUFFICES ASSUME Inv PROVE CommandsComplete
    OBVIOUS
  <2>1. Len(Commands) \in Nat /\ MAX_COMMANDS \in Nat
    BY SizesAssumption
  <2>2. ASSUME stack[1].pc = "idle" PROVE shellCmdCount = Min({Len(Commands), MAX_COMMANDS})
    <3>1. shellCmdCount = IF Len(Commands) < MAX_COMMANDS THEN Len(Commands) ELSE MAX_COMMANDS
      BY <2>2 DEF Inv, Registered
    <3> QED
      BY <2>1, <3>1, LesserOf
  <2> QED
    BY <2>2 DEF Inv, Registered, CommandsComplete
<1> QED
  BY <1>1, InvInvariant, PTL
-----------------------------------------------------------------------------
\* The handlers on the stack stay there, each in its place.
Kept == /\ Len(stack) <= Len(stack')
        /\ \A i \in 1 .. Len(stack) : stack'[i].vector = stack[i].vector

(* What does not touch the stack keeps it.                                 *)
LEMMA StackUnchanged == ASSUME Types, Shape, UNCHANGED stack PROVE Kept
BY Frames DEF Kept

(* What changes the frame on top, and not whose it is, keeps the stack.    *)
LEMMA TopMoved ==
  ASSUME Types, Shape, stack' \in Seq(FrameSet), Len(stack') = Len(stack),
         \A i \in 1 .. Len(stack) - 1 : stack'[i] = stack[i], stack'[Len(stack)].vector = top.vector
  PROVE  Kept
<1>1. Len(stack) \in Nat /\ top = stack[Len(stack)]
  BY Frames
<1>2. ASSUME NEW i \in 1 .. Len(stack) PROVE i \in 1 .. Len(stack) - 1 \/ i = Len(stack)
  BY <1>1
<1> QED
  BY <1>1, <1>2 DEF Kept

(* Goto does,                                                              *)
LEMMA MovedByGoto == ASSUME Types, Shape, NEW pc \in KmainPcs \cup {"iret"}, Goto(pc) PROVE Kept
<1>1. [top EXCEPT !.pc = pc].vector = top.vector
  BY Frames DEF FrameSet
<1> QED
  BY <1>1, GotoStack, TopMoved

(* GotoVia does,                                                           *)
LEMMA MovedByGotoVia ==
  ASSUME Types, Shape, NEW pc \in KmainPcs \cup {"iret"}, NEW program \in Seq(Access), GotoVia(pc, program)
  PROVE  Kept
<1>1. [top EXCEPT !.pc = pc, !.todo = program, !.saved = <<>>].vector = top.vector
  BY Frames DEF FrameSet
<1> QED
  BY <1>1, GotoViaStack, TopMoved

(* and Enter adds to it at most.                                           *)
LEMMA MovedByEnter == ASSUME Types, Shape, NEW v \in 0 .. 255, Enter(v) PROVE Kept
<1>1. Len(stack) \in Nat
  BY Frames
<1>2. \/ Len(stack') > Len(stack) /\ Len(stack') \in Nat /\ \A i \in 1 .. Len(stack) : stack'[i] = stack[i]
      \/ stack' = stack
  BY EnterStack
<1> QED
  BY <1>1, <1>2 DEF Kept

(* The vector of an interrupt that is taken.                               *)
LEMMA TakenVector == ASSUME Inv, TakeInterrupt PROVE Acknowledged(chips).vector \in 0 .. 255
<1>1. ifl /\ idtr
  BY DEF TakeInterrupt, Inv, Setup
<1>2. /\ chips \in [Chips -> Chip] /\ chips["MASTER"].step = "ready" /\ 2 \notin chips["MASTER"].irr
      /\ chips["MASTER"].offset = 32 /\ chips["SLAVE"].offset = 48
      /\ MasterAsks(chips["MASTER"], chips["SLAVE"]) # {}
  BY <1>1 DEF Inv, Types, Ready, Keyboard, TakeInterrupt
<1> DEFINE v == Acknowledged(chips).vector
<1>3. \E n \in Lines : v = 32 + n \/ \E k \in Lines : v = 48 + k
  BY <1>2, AcknowledgedChips
<1> HIDE DEF v
<1>4. v \in 0 .. 255
  BY <1>3
<1> QED
  BY <1>4 DEF v

(* Every step but iretq keeps the stack.                                   *)
LEMMA StepKeepsStack == ASSUME Inv, [Next]_vars, ~iretq PROVE Kept
<1>0. Types /\ Shape
  BY DEF Inv
<1>1. CASE UNCHANGED stack
  BY <1>0, <1>1, StackUnchanged
<1>2. CASE PortAccess
  <2>1. stack' \in Seq(FrameSet) /\ Len(stack') = Len(stack) /\ stack'[Len(stack)].vector = top.vector
        /\ \A i \in 1 .. Len(stack) - 1 : stack'[i] = stack[i]
    BY <1>0, <1>2, AccessOnTop
  <2> QED
    BY <1>0, <2>1, TopMoved
<1>3. CASE \E pc \in KmainPcs \cup {"iret"} : Goto(pc)
  BY <1>0, <1>3, MovedByGoto
<1>4. CASE \E pc \in KmainPcs \cup {"iret"}, program \in Seq(Access) : GotoVia(pc, program)
  BY <1>0, <1>4, MovedByGotoVia
<1>5. CASE \E v \in 0 .. 255 : Enter(v)
  BY <1>0, <1>5, MovedByEnter
<1>6. CASE NextCommand
  BY <1>0, <1>6, Frames DEF NextCommand, Kept, FrameSet
<1>7. CASE kmain \/ idtSetDesc \/ loadIDT \/ initPMM \/ initVideo \/ kbRegisterKeyCallback
           \/ displayShellPrompt \/ Return
  <2>1. UNCHANGED stack \/ Enter(PageFault) \/ \E pc \in KmainPcs : Goto(pc)
    BY <1>7 DEF kmain, idtSetDesc, loadIDT, initPMM, initVideo, kbRegisterKeyCallback,
                displayShellPrompt, Return, halt
  <2> QED
    BY <1>1, <1>3, <1>5, <2>1
<1>8. CASE storeField \/ countCommand \/ tableFull \/ (\E i \in Raised : Raise(i)) \/ Rest \/ UNCHANGED vars
  BY <1>1, <1>6, <1>8 DEF storeField, countCommand, tableFull, Raise, Rest, vars
<1>9. CASE initGDT
  <2>1. Remap \in Seq(Access) /\ GotoVia("idtSetDesc", Remap)
    BY <1>9, RemapProgram DEF initGDT, Remap
  <2> QED
    BY <1>4, <2>1
<1>10. CASE initKb
  <2>1. [todo |-> picUnmask(1)].todo = picUnmask(1) /\ 1 \in 0 .. 15
    OBVIOUS
  <2>2. picUnmask(1) \in Seq(Access)
    BY <2>1, Programs
  <2>3. GotoVia("callback", picUnmask(1))
    BY <1>10 DEF initKb
  <2> QED
    BY <1>4, <2>2, <2>3
<1>11. CASE \E d \in Opened : DriverCall(d)
  <2>1. PICK d \in Opened : GotoVia("returned", Program(d))
    BY <1>11 DEF DriverCall
  <2> QED
    BY <1>4, <2>1, OpenedProgram
<1>12. CASE \E v \in Faults : Fault(v)
  <2>1. PICK v \in Faults : Enter(v)
    BY <1>12 DEF Fault
  <2>2. v \in 0 .. 255
    BY EventsAssumption
  <2> QED
    BY <1>5, <2>1, <2>2
<1>13. CASE exception
  <2>1. Enter(PageFault) \/ UNCHANGED stack
    BY <1>13 DEF exception, halt
  <2> QED
    BY <1>1, <1>5, <2>1
<1>14. CASE irq
  <2>1. PICK n \in 0 .. 15 :
         IF irqHandlers[n] # "NULL"
         THEN GotoVia("iret", picSendEOI(n))
         ELSE IF fb = "NULL" THEN Enter(PageFault) ELSE Goto("iret")
    BY <1>14 DEF irq
  <2>2. irqHandlers[n] # "NULL" => n = 1
    BY DEF Inv, Keyboard
  <2>3. \/ GotoVia("iret", EOI) \/ Enter(PageFault) \/ Goto("iret")
    BY <2>1, <2>2, SentEOI, Zenon
  <2> QED
    BY <1>3, <1>4, <1>5, <2>3, SentEOI
<1>15. CASE TakeInterrupt
  BY <1>5, <1>15, TakenVector DEF TakeInterrupt
<1> QED
  BY <1>2, <1>7, <1>8, <1>9, <1>10, <1>11, <1>12, <1>13, <1>14, <1>15, Zenon DEF Next

(* No step takes an exception's frame off the stack, so that the stubs'    *)
(* missing pop of the error code is never reached.                         *)
THEOREM NoExceptionReturns == Spec => ExceptionsAreFinal
<1> DEFINE Final == \A i \in 1 .. Len(stack) :
                      stack[i].vector < 32 => i <= Len(stack') /\ stack'[i].vector = stack[i].vector
<1>1. Inv /\ [Next]_vars => Final
  <2> SUFFICES ASSUME Inv, [Next]_vars PROVE Final
    OBVIOUS
  <2>0. Len(stack) \in Nat /\ stack[1].vector = 256 /\ top = stack[Len(stack)]
    BY Frames DEF Inv, Shape
  <2>1. CASE iretq
    <3>1. Len(stack) >= 2 /\ top.pc = "iret"
      BY <2>0, <2>1 DEF iretq
    <3>2. HandlerFrame(Len(stack), top)
      BY <2>0, <3>1, Frames DEF Inv
    <3>3. top.vector \in 32 .. 47
      BY <3>1, <3>2 DEF HandlerFrame
    <3>4. Len(stack) < 3 /\ top = stack[2]
      BY <3>3, IrqOnTop DEF Inv
    <3>5. \A i \in 1 .. Len(stack) : i = 1 \/ i = 2
      BY <2>0, <3>4
    <3> QED
      BY <2>0, <3>3, <3>4, <3>5
  <2>2. CASE ~iretq
    <3>1. Kept /\ Len(stack') \in Nat
      BY <2>2, StepKeepsStack
    <3> QED
      BY <2>0, <3>1 DEF Kept
  <2> QED
    BY <2>1, <2>2
<1> QED
  BY <1>1, InvInvariant, PTL DEF Spec, ExceptionsAreFinal
=============================================================================
