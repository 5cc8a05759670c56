--------------------------- MODULE InterruptPath ---------------------------
(***************************************************************************)
(* The path of a keystroke: the keyboard and its 8042 controller raise     *)
(* IRQ 1 on the pair of 8259 PICs, the CPU takes the interrupt in the      *)
(* middle of whatever kmain is doing, interruptHandler calls the           *)
(* registered handler, and kbHandler reads the scancode, translates it,    *)
(* calls the key callback and acknowledges the interrupt.                  *)
(*                                                                         *)
(* One CPU runs two threads of control: kmain (mainPc), from initIDT to    *)
(* its idle loop, and the interrupt it may be suspended by (hpc).  The     *)
(* gates are interrupt gates, so a handler is never interrupted itself;    *)
(* the devices go on at any moment.                                        *)
(***************************************************************************)
EXTENDS Naturals, Sequences, FiniteSets, Keymap

CONSTANTS
  Keys,        \* the scancodes (1..127) of the keys the user has
  MaxBytes,    \* BOUND: how many bytes the user's keystrokes send
  DeviceIrqs,  \* the IRQ lines that other devices raise (the timer: 0)
  BootMask     \* the IRQ lines the boot loader leaves masked

KB  == 1           \* IRQ of the keyboard
Spurious == 7      \* IRQ number the master PIC answers with when the request is gone
IRQs   == 0 .. 15
Master == 0 .. 7

(* Limine enters kmain with every PIC line masked; nothing in kmain masks  *)
(* one, so the code relies on it.                                          *)
ASSUME BootMaskAssumption ==
  /\ DeviceIrqs \subseteq IRQs \ {KB, 2, Spurious}
  /\ DeviceIrqs \cup {KB} \subseteq BootMask
  /\ BootMask \subseteq IRQs

ASSUME KeysAssumption == Keys \subseteq 1 .. 127 /\ MaxBytes \in Nat

KB_SCANCODE_LEFT_SHIFT  == 42
KB_SCANCODE_RIGHT_SHIFT == 54
KB_SCANCODE_CAPS_LOCK   == 58
KB_SCANCODE_BACKSPACE   == 14
KB_SCANCODE_ENTER       == 28
ShiftKeys == {KB_SCANCODE_LEFT_SHIFT, KB_SCANCODE_RIGHT_SHIFT}

(* A scancode byte: the key it names and whether bit 7 (the release mask)  *)
(* is clear.  "shift" and "caps" are not in the byte: they remember the    *)
(* state the keyboard's modifiers were in when it was sent.                *)
Byte == [code : 1 .. 127, down : BOOLEAN, shift : BOOLEAN, caps : BOOLEAN]
ACK  == 122                \* 0xFA, the reply to a command, without bit 7

VARIABLES
  \* CPU
  ifl,          \* RFLAGS.IF
  mainPc,       \* where kmain is
  hpc,          \* where the interrupt is, "none" when none is being served
  irqNum,       \* the IRQ being served
  derailed,     \* an interrupt returned to code whose registers it had clobbered
  \* 8259 pair
  imr, irr, isr,
  withdrawn,    \* INTR was raised for a request that is gone
  \* keyboard and 8042
  kbQueue,      \* bytes in the keyboard
  obf, data,    \* output buffer full (status bit 0), data port
  held,         \* the keys that are down
  caps,         \* the parity of Caps Lock strokes
  sent,         \* bytes sent so far
  \* kernel
  irqHandlers, value, keyCallback, shiftOn, capsLock, raw, call,
  lost          \* some byte went to another reader than kbHandler

cpuVars    == << ifl, mainPc, hpc, irqNum, derailed >>
picVars    == << imr, irr, isr, withdrawn >>
kbdVars    == << kbQueue, held, caps, sent >>
portVars   == << obf, data >>
kernelVars == << irqHandlers, value, keyCallback, shiftOn, capsLock, raw, call >>
vars       == << cpuVars, picVars, kbdVars, portVars, kernelVars, lost >>

NoCall == [key |-> NoKey, pressed |-> FALSE]
Call   == [key : {NoKey, Enter, Backspace}
                   \cup {asciiMapLower[sc] : sc \in Scancode}
                   \cup {asciiMapUpper[sc] : sc \in Scancode},
           pressed : BOOLEAN]

MakeByte(k, down, keysHeld, capsParity) ==
  [code |-> k, down |-> down, shift |-> keysHeld \cap ShiftKeys # {}, caps |-> capsParity]

MainPcs == {"initIDT", "irqRegister", "unmaskRead", "unmaskWrite", "status",
            "discard", "enable", "callback", "shell", "idle"}
HandlerPcs == {"none", "dispatch", "read", "process", "eoi", "iret"}

(* The keyboard line may be high and a byte may be pending when kmain      *)
(* starts: the keys of the boot menu.                                      *)
Init ==
  /\ ifl = FALSE /\ mainPc = "initIDT" /\ hpc = "none" /\ irqNum = 0 /\ derailed = FALSE
  /\ imr = BootMask /\ irr = {} /\ isr = {} /\ withdrawn = FALSE
  /\ kbQueue = << >> /\ caps = FALSE /\ sent = 0 /\ held \in SUBSET Keys
  /\ obf \in BOOLEAN
  /\ \E k \in Keys, d \in BOOLEAN : data = MakeByte(k, d, held, FALSE)
  /\ irqHandlers = [i \in IRQs |-> "NULL"] /\ value = {}
  /\ keyCallback = "NULL" /\ shiftOn = FALSE /\ capsLock = FALSE
  /\ raw = data /\ call = NoCall
  /\ lost = (held # {})
-----------------------------------------------------------------------------
(***************************************************************************)
(* The devices.                                                            *)
(***************************************************************************)
Device == ~derailed /\ UNCHANGED << cpuVars, kernelVars, lost >>

Send(k, down) ==
  /\ sent < MaxBytes
  /\ sent' = sent + 1
  /\ kbQueue' = Append(kbQueue, MakeByte(k, down, held', caps'))
  /\ Device /\ UNCHANGED << picVars, portVars >>

(* A key is struck, or repeats while it is held.                           *)
Press(k) ==
  /\ held' = held \cup {k}
  /\ caps' = IF k = KB_SCANCODE_CAPS_LOCK THEN ~caps ELSE caps
  /\ Send(k, TRUE)

Release(k) ==
  /\ k \in held
  /\ held' = held \ {k}
  /\ caps' = caps
  /\ Send(k, FALSE)

(* The controller moves the next byte to its output buffer; the IRQ line   *)
(* rises and the edge is latched.                                          *)
LoadByte ==
  /\ ~obf /\ kbQueue # << >>
  /\ obf' = TRUE /\ data' = Head(kbQueue) /\ kbQueue' = Tail(kbQueue)
  /\ irr' = irr \cup {KB}
  /\ Device /\ UNCHANGED << imr, isr, withdrawn, held, caps, sent >>

RaiseIrq(i) ==
  /\ irr' = irr \cup {i}
  /\ Device /\ UNCHANGED << imr, isr, withdrawn, kbdVars, portVars >>

(* inb(KB_PORT_DATA): the buffer empties and the line falls.  A request    *)
(* still latched then stays (QEMU's 8259) or is withdrawn, before or after *)
(* the CPU has seen INTR (a real 8259).                                    *)
ReadDataPort ==
  /\ obf' = FALSE /\ data' = data
  /\ \/ UNCHANGED << irr, withdrawn >>
     \/ /\ obf /\ KB \in irr
        /\ irr' = irr \ {KB}
        /\ withdrawn' \in {withdrawn, TRUE}
  /\ UNCHANGED << imr, isr >>

(* A line is blocked while one of the same or a higher priority is in      *)
(* service; the lines of the slave arrive through line 2 of the master.    *)
Line(irq) == IF irq \in Master THEN irq ELSE 2
Blocked(irq) == \E i \in isr \cap Master : i <= Line(irq)

Highest(lines) == {i \in lines : \A j \in lines : i <= j}

(* A non-specific EOI ends the highest-priority interrupt of each PIC it   *)
(* is sent to.                                                             *)
SlaveEOI(s)  == s \ Highest(s \ Master)
MasterEOI(s) == s \ Highest(s \cap Master)
-----------------------------------------------------------------------------
(***************************************************************************)
(* kmain.  It runs when no interrupt does.                                 *)
(***************************************************************************)
Main(from, to) ==
  /\ ~derailed /\ hpc = "none" /\ mainPc = from
  /\ mainPc' = to
  /\ UNCHANGED << hpc, irqNum, derailed >>

(* picRemap saves the masks, runs the initialisation sequence, which       *)
(* clears the masks, the requests and the edge detectors, and writes the   *)
(* masks back.                                                             *)
NoRestore_picRemap == imr' = {} /\ irr' = {} /\ isr' = {} /\ withdrawn' = FALSE
picRemap == imr' = imr /\ irr' = {} /\ isr' = {} /\ withdrawn' = FALSE

initIDT ==
  /\ Main("initIDT", "irqRegister")
  /\ picRemap
  /\ ifl' = TRUE                                          \* sti
  /\ UNCHANGED << kbdVars, portVars, kernelVars, lost >>

irqRegisterHandler(irq, handler) == irqHandlers' = [irqHandlers EXCEPT ![irq] = handler]

RegisterKbHandler ==
  /\ Main("irqRegister", "unmaskRead")
  /\ irqRegisterHandler(KB, "kbHandler")
  /\ UNCHANGED << ifl, picVars, kbdVars, portVars, lost, value, keyCallback,
                  shiftOn, capsLock, raw, call >>

(* picUnmask(1) is a read of the master's mask and a write of it.          *)
UnmaskRead ==
  /\ Main("unmaskRead", "unmaskWrite")
  /\ value' = (imr \cap Master) \ {KB}
  /\ UNCHANGED << ifl, picVars, kbdVars, portVars, lost, irqHandlers, keyCallback,
                  shiftOn, capsLock, raw, call >>

UnmaskWrite ==
  /\ Main("unmaskWrite", "status")
  /\ imr' = (imr \ Master) \cup value
  /\ UNCHANGED << ifl, irr, isr, withdrawn, kbdVars, portVars, kernelVars, lost >>

(* while(inb(KB_PORT_STATUS) & 0x1) inb(KB_PORT_DATA); the handler may run *)
(* between the two reads.                                                  *)
NeverFull_DrainStatus == Main("status", "enable") /\ UNCHANGED << ifl, picVars, kbdVars, portVars, kernelVars, lost >>
DrainStatus ==
  /\ Main("status", IF obf THEN "discard" ELSE "enable")
  /\ UNCHANGED << ifl, picVars, kbdVars, portVars, kernelVars, lost >>

WrongPort_DrainDiscard == Main("discard", "status") /\ UNCHANGED << ifl, picVars, kbdVars, portVars, kernelVars, lost >>
DrainDiscard ==
  /\ Main("discard", "status")
  /\ ReadDataPort
  /\ lost' = (lost \/ obf)
  /\ UNCHANGED << ifl, kbdVars, kernelVars >>

EnableScanning ==
  /\ Main("enable", "callback")
  /\ kbQueue' = Append(kbQueue, MakeByte(ACK, FALSE, held, caps))
  /\ UNCHANGED << ifl, picVars, held, caps, sent, portVars, kernelVars, lost >>

kbRegisterKeyCallback ==
  /\ Main("callback", "shell")
  /\ keyCallback' = "shellKeyCallback"
  /\ UNCHANGED << ifl, picVars, kbdVars, portVars, lost, irqHandlers, value,
                  shiftOn, capsLock, raw, call >>

(* The rest of initShell: it touches nothing of this module, but it is a   *)
(* long stretch of code an interrupt may arrive in.                        *)
FinishInitShell ==
  /\ Main("shell", "idle")
  /\ UNCHANGED << ifl, picVars, kbdVars, portVars, kernelVars, lost >>

MainStep ==
  \/ initIDT \/ RegisterKbHandler \/ UnmaskRead \/ UnmaskWrite \/ DrainStatus
  \/ DrainDiscard \/ EnableScanning \/ kbRegisterKeyCallback \/ FinishInitShell
-----------------------------------------------------------------------------
(***************************************************************************)
(* The interrupt.                                                          *)
(***************************************************************************)
Accept(irq) ==
  /\ ~derailed /\ ifl /\ hpc = "none"
  /\ ifl' = FALSE /\ hpc' = "dispatch" /\ irqNum' = irq
  /\ UNCHANGED << mainPc, derailed, imr, kbdVars, portVars, kernelVars, lost >>

Interrupt(irq) ==
  /\ irq \in irr \ imr /\ ~Blocked(irq)
  /\ irr' = irr \ {irq}
  /\ isr' = isr \cup {irq, Line(irq)}
  /\ withdrawn' = FALSE
  /\ Accept(irq)

SpuriousInterrupt ==
  /\ withdrawn
  /\ withdrawn' = FALSE /\ UNCHANGED << irr, isr >>
  /\ Accept(Spurious)

Handler(from, to) ==
  /\ ~derailed /\ hpc = from /\ hpc' = to
  /\ UNCHANGED << mainPc, irqNum, kbdVars >>

(* interruptHandler: without a registered handler it prints a line and     *)
(* returns; nothing is acknowledged.                                       *)
interruptHandler ==
  /\ Handler("dispatch", IF irqHandlers[irqNum] = "NULL" THEN "iret" ELSE "read")
  /\ UNCHANGED << ifl, derailed, picVars, portVars, kernelVars, lost >>

(* The read, and the release bit taken off the scancode.                   *)
NotMasked_kbReadScancode ==
  /\ Handler("read", "process")
  /\ raw' = [data EXCEPT !.code = IF data.down THEN @ ELSE @ + 128]
  /\ ReadDataPort
  /\ UNCHANGED << ifl, derailed, lost, irqHandlers, value, keyCallback, shiftOn, capsLock, call >>
kbReadScancode ==
  /\ Handler("read", "process")
  /\ raw' = data
  /\ ReadDataPort
  /\ UNCHANGED << ifl, derailed, lost, irqHandlers, value, keyCallback, shiftOn, capsLock, call >>

PressOnly_ShiftAfter(b) == IF b.code \in ShiftKeys THEN shiftOn \/ b.down ELSE shiftOn
ShiftAfter(b) == IF b.code \in ShiftKeys THEN b.down ELSE shiftOn

BothEdges_CapsAfter(b) == IF b.code = KB_SCANCODE_CAPS_LOCK THEN ~capsLock ELSE capsLock
CapsAfter(b) == IF b.code = KB_SCANCODE_CAPS_LOCK /\ b.down THEN ~capsLock ELSE capsLock

KeyOf(b) ==
  CASE b.code \in ShiftKeys \cup {KB_SCANCODE_CAPS_LOCK} -> NoKey
    [] b.code = KB_SCANCODE_BACKSPACE -> Backspace
    [] b.code = KB_SCANCODE_ENTER     -> Enter
    [] OTHER -> IF ~b.down THEN NoKey
                ELSE IF shiftOn \/ capsLock THEN asciiMapUpper[b.code]
                ELSE asciiMapLower[b.code]

kbProcessScancode ==
  /\ Handler("process", "eoi")
  /\ shiftOn' = ShiftAfter(raw) /\ capsLock' = CapsAfter(raw)
  /\ call' = IF keyCallback # "NULL" /\ KeyOf(raw) # NoKey
               THEN [key |-> KeyOf(raw), pressed |-> raw.down] ELSE NoCall
  /\ UNCHANGED << ifl, derailed, picVars, portVars, lost, irqHandlers, value, keyCallback, raw >>

NotSent_picSendEOI(irq) == isr' = isr
picSendEOI(irq) == isr' = MasterEOI(IF irq >= 8 THEN SlaveEOI(isr) ELSE isr)

kbSendEOI ==
  /\ Handler("eoi", "iret")
  /\ picSendEOI(irqNum)
  /\ UNCHANGED << ifl, derailed, imr, irr, withdrawn, portVars, kernelVars, lost >>

(* The entry stub saves rdi and no other caller-saved register, so code    *)
(* that had one live does not survive the interrupt.  At the self-jump of  *)
(* the idle loop no register is live; anywhere else one may be.            *)
Iretq ==
  /\ Handler("iret", "none")
  /\ ifl' = TRUE
  /\ derailed' \in IF mainPc = "idle" THEN {FALSE} ELSE BOOLEAN
  /\ call' = NoCall
  /\ UNCHANGED << picVars, portVars, lost, irqHandlers, value, keyCallback, shiftOn, capsLock, raw >>

HandlerStep == interruptHandler \/ kbReadScancode \/ kbProcessScancode \/ kbSendEOI \/ Iretq
TakeInterrupt == SpuriousInterrupt \/ \E irq \in IRQs : Interrupt(irq)
-----------------------------------------------------------------------------
(* while(1);                                                               *)
Idle == ~derailed /\ mainPc = "idle" /\ hpc = "none" /\ UNCHANGED vars

(* What kmain does once derailed is anything at all; the model stops.      *)
Wild == derailed /\ UNCHANGED vars

Next ==
  \/ MainStep \/ Idle
  \/ TakeInterrupt \/ HandlerStep
  \/ LoadByte
  \/ \E k \in Keys : Press(k)
  \/ \E k \in Keys : Release(k)
  \/ \E i \in DeviceIrqs : RaiseIrq(i)
  \/ Wild

Spec == Init /\ [][Next]_vars

(* The CPU executes, the PIC delivers and the controller loads: none of    *)
(* them stops for ever.  The user may stop typing.                         *)
Fairness ==
  /\ WF_vars(MainStep)
  /\ WF_vars(HandlerStep)
  /\ WF_vars(TakeInterrupt)
  /\ WF_vars(LoadByte)

FairSpec == Spec /\ Fairness
-----------------------------------------------------------------------------
(***************************************************************************)
(* Properties.                                                             *)
(***************************************************************************)

(* Type invariant: every variable of the interrupt path keeps its type.    *)
TypeOK ==
  /\ ifl \in BOOLEAN /\ mainPc \in MainPcs /\ hpc \in HandlerPcs
  /\ irqNum \in IRQs /\ derailed \in BOOLEAN
  /\ imr \in SUBSET IRQs /\ irr \in SUBSET IRQs /\ isr \in SUBSET IRQs
  /\ withdrawn \in BOOLEAN
  /\ kbQueue \in Seq(Byte) /\ held \in SUBSET Keys /\ caps \in BOOLEAN /\ sent \in 0 .. MaxBytes
  /\ obf \in BOOLEAN /\ data \in Byte
  /\ irqHandlers \in [IRQs -> {"NULL", "kbHandler"}] /\ value \in SUBSET IRQs
  /\ keyCallback \in {"NULL", "shellKeyCallback"}
  /\ shiftOn \in BOOLEAN /\ capsLock \in BOOLEAN /\ raw \in Byte /\ lost \in BOOLEAN
  /\ call \in Call

(* Every interrupt the PIC holds in service is the one the CPU is serving, *)
(* and it is acknowledged before the handler returns: no line is left      *)
(* blocked.  interruptHandler acknowledges nothing itself, and has no      *)
(* handler for most lines, so this rests on the masks picRemap writes      *)
(* back, on the order of registration and unmasking in initKb, and on the  *)
(* EOI kbHandler sends.                                                    *)
InServiceMatchesHandler ==
  isr = IF hpc \in {"dispatch", "read", "process", "eoi"} /\ irqNum # Spurious
          THEN {irqNum} ELSE {}

(* No lost wakeup: the line is edge triggered, so a byte in the output     *)
(* buffer is only ever read if its edge is still latched or being served.  *)
(* initKb drains the buffer because a byte that was there before picRemap  *)
(* has no edge.                                                            *)
NoLostWakeup ==
  mainPc \in {"enable", "callback", "shell", "idle"} /\ obf =>
    /\ KB \notin imr
    /\ KB \in irr \/ (irqNum = KB /\ hpc \in {"dispatch", "read"})

(* A key the callback is told of is the character the user saw when she    *)
(* struck it: the driver's Shift and Caps Lock, read when the byte is      *)
(* handled, are those of the keyboard when the byte was sent, however late *)
(* the byte is handled.  It needs every byte since the keyboard was        *)
(* released to have reached kbHandler.                                     *)
KeyAsTyped ==
  /\ hpc = "eoi" /\ call # NoCall /\ ~lost
  /\ raw.code \notin {KB_SCANCODE_BACKSPACE, KB_SCANCODE_ENTER}
  => call.key = IF raw.shift \/ raw.caps THEN asciiMapUpper[raw.code] ELSE asciiMapLower[raw.code]

(* Two Shift keys share the flag, so that letting go of one loses the      *)
(* other; but Shift never sticks: with the last of them released, whatever *)
(* the order of presses, repeats and releases, it is off.                  *)
NothingInFlight == kbQueue = << >> /\ ~obf /\ hpc = "none" /\ ~lost
ShiftNeverSticks == NothingInFlight /\ shiftOn => held \cap ShiftKeys # {}

(* Liveness: a byte in the output buffer is read in the end, by the        *)
(* handler or by the drain loop, so the keyboard never wedges.             *)
BytesConsumed == obf ~> (~obf \/ derailed)

(* Liveness: kmain reaches its idle loop; the drain loop of initKb ends.   *)
BootCompletes == <>(mainPc = "idle" \/ derailed)

(* What kernel.c says of its last steps ("Initialize the shell", "Loop"):  *)
(* they are reached.  An interrupt during initShell may prevent it.        *)
ShellInitialised == <>(mainPc = "idle")
=============================================================================
