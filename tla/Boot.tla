-------------------------------- MODULE Boot --------------------------------
(***************************************************************************)
(* The kernel from its entry to its idle loop: kmain and the initialisers  *)
(* it calls, one step at a time, over what the boot loader answered; the   *)
(* interrupts and exceptions that come in between; and, from the idle loop *)
(* on, the driver functions that are there to be called.  The PICs are     *)
(* those of module Pic, port access by port access.  What a keystroke goes *)
(* through is module InterruptPath's; here the keyboard's handler only     *)
(* acknowledges.  As there, an interrupt's return may derail the machine:  *)
(* its stub saves one register, and what kmain had in the others may be    *)
(* gone.  The model follows no derailed machine, and no property speaks of *)
(* one.                                                                    *)
(***************************************************************************)
EXTENDS Pic
LOCAL INSTANCE Functions

CONSTANTS
  Answers,       \* what Limine may answer: [revision, memmap, framebuffer]
  FirmwareMasks, \* the masks the PICs may have at the entry
  Raised,        \* the IRQs that devices raise
  MaxRaises,     \* BOUND: how often they do
  Faults,        \* the exceptions that code may raise
  MaxFaults,     \* BOUND: how often it does
  Opened,        \* the driver functions called from the idle loop
  MaxCalls,      \* BOUND: how many such calls
  Commands,      \* the names initShell registers, in order
  MAX_COMMANDS,
  StackFrames    \* BOUND: the handlers that fit the stack

IRQ_OFFSET == 32
Kmain == 256             \* the "vector" of the frame that is not a handler's
NotPresent == 11
PageFault == 14

\* The boot loader's answers, and what it leaves the PICs with: the keyboard's
\* line is masked.
ASSUME AnswersAssumption ==
  /\ Answers \subseteq [revision : BOOLEAN, memmap : {"NULL", "empty", "entries"},
                        framebuffer : {"no response", "NULL", "framebuffer"}]
  /\ FirmwareMasks \subseteq [Chips -> SUBSET Lines]
  /\ \A m \in FirmwareMasks : 1 \in m["MASTER"]

\* Line 2 of the master is the slave and no device's; the segments that loadGDT
\* loads are present, so that only a missing gate raises NotPresent.
ASSUME EventsAssumption ==
  /\ Raised \subseteq (0 .. 15) \ {2} /\ Faults \subseteq (0 .. 31) \ {NotPresent}
  /\ Opened \subseteq ({"picMask", "picUnmask"} \X (0 .. 15)) \cup
                      {<<"picGetIRR">>, <<"picGetISR">>, <<"picDisable">>, <<"disableKb">>,
                       <<"kbDeregisterKeyCallback">>}
  /\ MaxRaises \in Nat /\ MaxFaults \in Nat /\ MaxCalls \in Nat

\* initVideo registers a command and initShell at least one; the stack has room
\* for an interrupt and, on top of it, the exceptions that code may raise.
ASSUME SizesAssumption ==
  /\ Commands \in Seq(STRING) /\ Len(Commands) >= 2 /\ MAX_COMMANDS \in Nat
  /\ StackFrames \in Nat /\ StackFrames >= MaxFaults + 2

VARIABLES
  machine,      \* "running", "halted" by halt(), past the end of its stack: "overrun",
                \* or "derailed": back from an interrupt without its registers
  ifl,          \* RFLAGS.IF
  chips,        \* the two 8259s
  gdt, segments, \* the descriptors, and the selectors in the segment registers
  gates, idtr,  \* the vectors that have a gate, and whether the CPU knows the table
  irqHandlers, keyCallback,
  fb,           \* video.c's framebuffer
  table, shellCmdCount,
  stack,        \* kmain and the handlers on top of it: where each one is, the port
                \* accesses it has to do next and what it has read
  answer,       \* the boot loader's answers
  firmware,     \* history: the masks at the entry
  raises, calls, faults

vars == <<machine, ifl, chips, gdt, segments, gates, idtr, irqHandlers, keyCallback, fb, table,
          shellCmdCount, stack, answer, firmware, raises, calls, faults>>
drivers == <<irqHandlers, keyCallback, fb, table, shellCmdCount>>
tables == <<gdt, segments, gates, idtr>>
rest == <<answer, firmware, raises, calls, faults>>

top == stack[Len(stack)]
Frame(v) == [vector |-> v, pc |-> IF v = Kmain THEN "kmain" ELSE "dispatch",
             todo |-> <<>>, saved |-> <<>>, cmd |-> 0]
Goto(pc) == stack' = [stack EXCEPT ![Len(stack)].pc = pc]
GotoVia(pc, program) == stack' = [stack EXCEPT ![Len(stack)] =
                                    [@ EXCEPT !.pc = pc, !.todo = program, !.saved = <<>>]]

Init ==
  /\ answer \in Answers
  /\ \E m \in FirmwareMasks :
       /\ firmware = m
       /\ chips = [c \in Chips |-> [step |-> "ready", offset |-> IF c = "MASTER" THEN 8 ELSE 112,
                                    mask |-> m[c], irr |-> {}, isr |-> {}, reads |-> "irr"]]
  /\ machine = "running" /\ ifl = FALSE
  /\ gdt = <<>> /\ segments = [cs |-> 40, data |-> 48] /\ gates = {} /\ idtr = FALSE
  /\ irqHandlers = [i \in 0 .. 15 |-> "NULL"] /\ keyCallback = "NULL" /\ fb = "NULL"
  /\ table = [i \in 0 .. MAX_COMMANDS - 1 |-> {}] /\ shellCmdCount = 0
  /\ stack = <<Frame(Kmain)>>
  /\ raises = 0 /\ calls = 0 /\ faults = 0
-----------------------------------------------------------------------------
(* What the steps share. *)

Executes(v, pc) == machine = "running" /\ top.vector = v /\ top.pc = pc /\ top.todo = <<>>

\* cli and hlt for ever.
halt == machine' = "halted" /\ ifl' = FALSE /\ UNCHANGED stack

\* The CPU enters the handler of v through its gate, an interrupt gate, or that
\* of the missing gate's exception.
Enter(v) ==
  /\ ifl' = FALSE
  /\ IF idtr /\ Len(stack) < StackFrames
     THEN stack' = Append(stack, Frame(IF v \in gates THEN v ELSE NotPresent)) /\ UNCHANGED machine
     ELSE machine' = "overrun" /\ UNCHANGED stack

\* The next access to a port.
PortAccess ==
  /\ machine = "running" /\ top.todo # <<>>
  /\ LET a == Head(top.todo)
         frame == [top EXCEPT !.todo = Tail(@)]
     IN IF a.op = "in"
        THEN /\ stack' = [stack EXCEPT ![Len(stack)] =
                            [frame EXCEPT !.saved = Append(@, ReadFrom(chips[a.chip], a.port))]]
             /\ UNCHANGED chips
        ELSE /\ stack' = [stack EXCEPT ![Len(stack)] = frame]
             /\ chips' = [chips EXCEPT ![a.chip] = Written(@, a.port, Value(a.value, top.saved))]
  /\ UNCHANGED <<machine, ifl, tables, drivers, rest>>
-----------------------------------------------------------------------------
(* kmain. *)

kmain ==
  /\ Executes(Kmain, "kmain")
  /\ IF answer.revision THEN Goto("initGDT") /\ UNCHANGED <<machine, ifl>> ELSE halt
  /\ UNCHANGED <<chips, tables, drivers, rest>>

\* A descriptor: its limit and granularity share a byte.
setGDTDesc(base, limit, access, granularity) ==
  [base |-> base, limitLow |-> limit % 65536, limitHigh |-> (limit \div 65536) % 16,
   access |-> access, flags |-> granularity]

Kernel == {"PRESENT", "RING0", "CODE_DATA_SEGMENT", "READ_WRITE"}
Flat64 == {"64BIT", "GRANULARITY_4K"}

\* The null descriptor, the code's and the data's; loadGDT reloads CS with
\* selector 0x08 and the others with 0x10.
Descriptors == <<setGDTDesc(0, 0, {}, {}), setGDTDesc(0, 65535, Kernel \cup {"EXECUTABLE"}, Flat64),
                 setGDTDesc(0, 65535, Kernel, Flat64)>>
loadGDT == [cs |-> 8, data |-> 16]
kernelCS == 8                                      \* of every gate

initGDT ==
  /\ Executes(Kmain, "initGDT")
  /\ gdt' = Descriptors /\ segments' = loadGDT
  /\ GotoVia("idtSetDesc", picRemap(IRQ_OFFSET, IRQ_OFFSET + 16))
  /\ UNCHANGED <<machine, ifl, chips, gates, idtr, drivers, rest>>

\* The two loops of initIDT: the exceptions' gates and those of 16 IRQs.
idtSetDesc ==
  /\ Executes(Kmain, "idtSetDesc")
  /\ gates' = (0 .. 31) \cup {IRQ_OFFSET + i : i \in 0 .. 15}
  /\ Goto("loadIDT")
  /\ UNCHANGED <<machine, ifl, chips, gdt, segments, idtr, drivers, rest>>

loadIDT ==
  /\ Executes(Kmain, "loadIDT")
  /\ idtr' = TRUE /\ ifl' = TRUE
  /\ Goto("initPMM")
  /\ UNCHANGED <<machine, chips, gdt, segments, gates, drivers, rest>>

\* memoryMap != NULL || memoryMap->entry_count != 0: only a NULL map has its
\* count looked at, which is a page fault; nothing is ever refused, a map without
\* entries neither.
initPMM ==
  /\ Executes(Kmain, "initPMM")
  /\ IF answer.memmap = "NULL" THEN Enter(PageFault)
                               ELSE Goto("initVideo") /\ UNCHANGED <<machine, ifl>>
  /\ UNCHANGED <<chips, tables, drivers, rest>>

\* The request's response is followed before the framebuffer is asserted.
Unasserted_initVideo ==
  /\ Executes(Kmain, "initVideo")
  /\ CASE answer.framebuffer = "no response" -> Enter(PageFault) /\ UNCHANGED fb
       [] OTHER -> Goto("register") /\ fb' = answer.framebuffer /\ UNCHANGED <<machine, ifl>>
  /\ UNCHANGED <<chips, tables, irqHandlers, keyCallback, table, shellCmdCount, rest>>
initVideo ==
  /\ Executes(Kmain, "initVideo")
  /\ CASE answer.framebuffer = "no response" -> Enter(PageFault) /\ UNCHANGED fb
       [] answer.framebuffer = "NULL" -> halt /\ UNCHANGED fb
       [] OTHER -> Goto("register") /\ fb' = answer.framebuffer /\ UNCHANGED <<machine, ifl>>
  /\ UNCHANGED <<chips, tables, irqHandlers, keyCallback, table, shellCmdCount, rest>>

\* shellRegisterCmd, for "fbinfo" in initVideo and for the shell's own: the
\* entry is filled, field after field, before it is counted.
Fields == <<"name", "handler", "desc">>
NextCommand ==
  LET n == top.cmd + 1
  IN stack' = [stack EXCEPT ![Len(stack)] =
       [@ EXCEPT !.cmd = n,
                 !.pc = CASE n = 1 -> "initKb" [] n = Len(Commands) -> "prompt" [] OTHER -> "register"]]
storeField ==
  /\ Executes(Kmain, "register") /\ shellCmdCount # MAX_COMMANDS
  /\ \E i \in 1 .. 3 :
       /\ \A j \in 1 .. 3 : <<Commands[top.cmd + 1], Fields[j]>> \in table[shellCmdCount] <=> j < i
       /\ table' = [table EXCEPT ![shellCmdCount] = @ \cup {<<Commands[top.cmd + 1], Fields[i]>>}]
  /\ UNCHANGED <<machine, ifl, chips, tables, irqHandlers, keyCallback, fb,
                 shellCmdCount, stack, rest>>
Early_countCommand ==
  /\ Executes(Kmain, "register") /\ shellCmdCount # MAX_COMMANDS
  /\ table' = [table EXCEPT ![shellCmdCount] = {<<Commands[top.cmd + 1], "name">>}]
  /\ shellCmdCount' = shellCmdCount + 1
  /\ NextCommand
  /\ UNCHANGED <<machine, ifl, chips, tables, irqHandlers, keyCallback, fb, rest>>
countCommand ==
  /\ Executes(Kmain, "register") /\ shellCmdCount # MAX_COMMANDS
  /\ table[shellCmdCount] = {<<Commands[top.cmd + 1], f>> : f \in {Fields[i] : i \in 1 .. 3}}
  /\ shellCmdCount' = shellCmdCount + 1
  /\ NextCommand
  /\ UNCHANGED <<machine, ifl, chips, tables, irqHandlers, keyCallback, fb, table, rest>>
Counting_tableFull ==
  /\ Executes(Kmain, "register") /\ shellCmdCount = MAX_COMMANDS
  /\ shellCmdCount' = shellCmdCount + 1 /\ NextCommand
  /\ UNCHANGED <<machine, ifl, chips, tables, irqHandlers, keyCallback, fb, table, rest>>
tableFull ==
  /\ Executes(Kmain, "register") /\ shellCmdCount = MAX_COMMANDS
  /\ NextCommand
  /\ UNCHANGED <<machine, ifl, chips, tables, drivers, rest>>

initKb ==
  /\ Executes(Kmain, "initKb")
  /\ irqHandlers' = [irqHandlers EXCEPT ![1] = "kbHandler"]
  /\ GotoVia("callback", picUnmask(1))
  /\ UNCHANGED <<machine, ifl, chips, tables, keyCallback, fb, table, shellCmdCount, rest>>

kbRegisterKeyCallback ==
  /\ Executes(Kmain, "callback")
  /\ keyCallback' = "shellKeyCallback" /\ Goto(IF Len(Commands) > 1 THEN "register" ELSE "prompt")
  /\ UNCHANGED <<machine, ifl, chips, tables, irqHandlers, fb, table, shellCmdCount, rest>>

displayShellPrompt ==
  /\ Executes(Kmain, "prompt")
  /\ Goto("idle")
  /\ UNCHANGED <<machine, ifl, chips, tables, drivers, rest>>

\* The functions of the drivers that kmain does not call: the masks, the
\* registers, the end of the PICs and that of the keyboard and its callback.
Program(f) ==
  CASE f[1] = "picMask" -> picMask(f[2])
    [] f[1] = "picUnmask" -> picUnmask(f[2])
    [] f[1] = "picGetIRR" -> picGetIRR
    [] f[1] = "picGetISR" -> picGetISR
    [] f[1] = "picDisable" -> picDisable
    [] f[1] = "disableKb" -> picMask(1)
    [] f[1] = "kbDeregisterKeyCallback" -> <<>>

DriverCall(f) ==
  /\ Executes(Kmain, "idle") /\ calls < MaxCalls
  /\ calls' = calls + 1
  /\ irqHandlers' = IF f[1] = "disableKb" THEN [irqHandlers EXCEPT ![1] = "NULL"] ELSE irqHandlers
  /\ keyCallback' = IF f[1] = "kbDeregisterKeyCallback" THEN "NULL" ELSE keyCallback
  /\ GotoVia("returned", Program(f))
  /\ UNCHANGED <<machine, ifl, chips, tables, fb, table, shellCmdCount,
                 answer, firmware, raises, faults>>
Return ==
  /\ Executes(Kmain, "returned")
  /\ Goto("idle")
  /\ UNCHANGED <<machine, ifl, chips, tables, drivers, rest>>
-----------------------------------------------------------------------------
(* Interrupts and exceptions. *)

Raise(irq) ==
  /\ machine = "running" /\ raises < MaxRaises
  /\ raises' = raises + 1
  /\ chips' = [chips EXCEPT ![ChipOf(irq)].irr = @ \cup {LineOf(irq)}]
  /\ UNCHANGED <<machine, ifl, tables, drivers, stack, answer, firmware, calls, faults>>

TakeInterrupt ==
  /\ machine = "running" /\ ifl /\ MasterAsks(chips["MASTER"], chips["SLAVE"]) # {}
  /\ chips' = Acknowledged(chips).chips
  /\ Enter(Acknowledged(chips).vector)
  /\ UNCHANGED <<tables, drivers, rest>>

\* An instruction of the kernel raises an exception.
Fault(v) ==
  /\ machine = "running" /\ faults < MaxFaults
  /\ faults' = faults + 1
  /\ Enter(v)
  /\ UNCHANGED <<chips, tables, drivers, answer, firmware, raises, calls>>

\* The message goes through the framebuffer, whatever it is, and then the
\* machine halts: no stub of an exception returns.
Returning_exception ==
  /\ \E v \in 0 .. 31 :
       /\ Executes(v, "dispatch")
       /\ IF fb = "NULL" THEN Enter(PageFault) ELSE Goto("iret") /\ UNCHANGED <<machine, ifl>>
  /\ UNCHANGED <<chips, tables, drivers, rest>>
exception ==
  /\ \E v \in 0 .. 31 :
       /\ Executes(v, "dispatch")
       /\ IF fb = "NULL" THEN Enter(PageFault) ELSE halt
  /\ UNCHANGED <<chips, tables, drivers, rest>>

\* An IRQ goes to its handler, which acknowledges it, or gets a message only.
irq ==
  /\ \E n \in 0 .. 15 :
       /\ Executes(IRQ_OFFSET + n, "dispatch")
       /\ IF irqHandlers[n] # "NULL"
          THEN GotoVia("iret", picSendEOI(n)) /\ UNCHANGED <<machine, ifl>>
          ELSE IF fb = "NULL" THEN Enter(PageFault)
          ELSE Goto("iret") /\ UNCHANGED <<machine, ifl>>
  /\ UNCHANGED <<chips, tables, drivers, rest>>

\* The stub of an IRQ saves rdi around the call of C, which may use the other
\* scratch registers.  Only the jump to itself of the idle loop needs none; all
\* other code may go on with what the handler left in them.
NeedsRegisters(frame) == ~(frame.pc = "idle" /\ frame.todo = <<>>)
iretq ==
  /\ machine = "running" /\ Len(stack) > 1 /\ top.pc = "iret" /\ top.todo = <<>>
  /\ stack' = SubSeq(stack, 1, Len(stack) - 1)
  /\ ifl' = TRUE
  /\ machine' \in {"running"} \cup (IF NeedsRegisters(stack[Len(stack) - 1]) THEN {"derailed"} ELSE {})
  /\ UNCHANGED <<chips, tables, drivers, rest>>

\* What is left is the idle loop, or a machine that is not running any more.
Rest ==
  /\ machine # "running" \/ Executes(Kmain, "idle")
  /\ UNCHANGED vars

Next ==
  \/ PortAccess
  \/ kmain \/ initGDT \/ idtSetDesc \/ loadIDT \/ initPMM \/ initVideo
  \/ storeField \/ countCommand \/ tableFull
  \/ initKb \/ kbRegisterKeyCallback \/ displayShellPrompt
  \/ \E f \in Opened : DriverCall(f)
  \/ Return
  \/ \E i \in Raised : Raise(i)
  \/ \E v \in Faults : Fault(v)
  \/ TakeInterrupt \/ exception \/ irq \/ iretq
  \/ Rest

\* The CPU goes on executing; the devices need not.
CPU == PortAccess \/ kmain \/ initGDT \/ idtSetDesc \/ loadIDT \/ initPMM \/ initVideo
         \/ storeField \/ countCommand \/ tableFull \/ initKb \/ kbRegisterKeyCallback
         \/ displayShellPrompt \/ Return \/ TakeInterrupt \/ exception \/ irq \/ iretq

Spec == Init /\ [][Next]_vars /\ WF_vars(CPU)
-----------------------------------------------------------------------------
(* Properties. *)

TypeOK ==
  /\ machine \in {"running", "halted", "overrun", "derailed"} /\ ifl \in BOOLEAN /\ idtr \in BOOLEAN
  /\ chips \in [Chips -> Chip]
  /\ gates \subseteq 0 .. 255 /\ fb \in {"NULL", "framebuffer"}
  /\ irqHandlers \in [0 .. 15 -> {"NULL", "kbHandler"}] /\ keyCallback \in {"NULL", "shellKeyCallback"}
  /\ shellCmdCount \in 0 .. MAX_COMMANDS /\ DOMAIN table = 0 .. MAX_COMMANDS - 1
  /\ Len(stack) \in 1 .. StackFrames /\ \A i \in 1 .. Len(stack) : stack[i].vector \in 0 .. Kmain

\* Interrupts are on only over what is complete: both PICs are out of their
\* initialisation with vectors apart from the exceptions', the CPU knows the
\* gates, and the selector in them, like those loadGDT loads, finds a present
\* descriptor of its kind.  And they are on for the lines they were on for:
\* the reset of the PICs clears the masks, picRemap puts those it saved back,
\* and the kernel opens the keyboard's line at most, so that no line without a
\* handler, which nothing would acknowledge (kernel.c:100), comes in because of
\* the kernel.  (gdt.c, idt.c, pic.c and asm.s, in initIDT's order.)
TablesComplete ==
  /\ idtr /\ gates # {}
  /\ \A c \in Chips : chips[c].step = "ready" /\ chips[c].offset >= 32
  /\ chips["MASTER"].offset + 8 <= chips["SLAVE"].offset
  /\ {"PRESENT", "EXECUTABLE"} \subseteq gdt[(kernelCS \div 8) + 1].access
  /\ segments.cs = kernelCS
  /\ LET data == gdt[(segments.data \div 8) + 1].access
     IN {"PRESENT", "READ_WRITE"} \subseteq data /\ "EXECUTABLE" \notin data
MasksRestored ==
  \A c \in Chips :
    LET keyboard == IF c = "MASTER" THEN {1} ELSE {}
    IN  chips[c].mask \cup keyboard = firmware[c] \cup keyboard
ReadyForInterrupts == ifl => TablesComplete /\ (calls = 0 => MasksRestored)

\* idt.c:107, "Set the 16 IRQ (Hardware interrupts) IDT descriptors": an IRQ that
\* is delivered finds a gate.
InterruptsHaveGates == \A i \in 1 .. Len(stack) : stack[i].vector # NotPresent

\* A line with a handler is acknowledged: when no handler runs, none of them is
\* still in service, which would block it and the lines after it for ever.
HandledIsAcknowledged ==
  Len(stack) = 1 /\ machine = "running" =>
    \A c \in Chips, n \in Lines :
      n \in chips[c].isr => irqHandlers[IF c = "MASTER" THEN n ELSE n + 8] = "NULL"

\* The entry stubs never take the error code off the stack before iretq, and
\* do not know all the exceptions that push one; it does no harm because no
\* exception ever returns.
ExceptionsAreFinal ==
  [][\A i \in 1 .. Len(stack) :
       stack[i].vector < 32 => i <= Len(stack') /\ stack'[i].vector = stack[i].vector]_vars

\* Keys are handled while initShell still registers the commands, and a full
\* table drops a command without a word: every command that a handler can find
\* between two stores of shellRegisterCmd is complete and in its place, and at
\* the idle loop the table holds the first MAX_COMMANDS of them.  It is about a
\* kmain that no interrupt has derailed: one that comes back to shellRegisterCmd
\* may send its next store elsewhere.
CommandsComplete ==
  machine # "derailed" =>
    /\ \A i \in 0 .. shellCmdCount - 1 :
         table[i] = {<<Commands[i + 1], Fields[k]>> : k \in 1 .. 3}
    /\ stack[1].pc = "idle" => shellCmdCount = Min({Len(Commands), MAX_COMMANDS})

\* An exception, or an IRQ without a handler, goes round and round through a
\* NULL framebuffer until the stack is full; behind initVideo, which asserts
\* it, that can no longer happen (kernel.c:92 and 101, video.c:31).
OverrunOnlyBeforeVideo ==
  machine = "overrun" =>
    stack[1].pc \in {"kmain", "initGDT", "idtSetDesc", "loadIDT", "initPMM", "initVideo"}

\* When the boot loader answered everything and left every line masked, and no
\* code faults, kmain reaches its loop unless an interrupt derails it on the way;
\* and only the keyboard's can, no other line being open: with no key at all it
\* reaches its loop, whatever the other devices do.
Answered ==
  /\ answer = [revision |-> TRUE, memmap |-> "entries", framebuffer |-> "framebuffer"]
  /\ firmware = [c \in Chips |-> Lines]
BootsWhenAnswered ==
  Answered => /\ <>(stack[1].pc = "idle" \/ faults > 0 \/ machine = "derailed")
              /\ <>(stack[1].pc = "idle" \/ faults > 0 \/ 1 \in chips["MASTER"].irr)
=============================================================================
