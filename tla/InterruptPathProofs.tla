------------------------ MODULE InterruptPathProofs ------------------------
(***************************************************************************)
(* Proofs about InterruptPath, for every set of keys, number of bytes, set *)
(* of other devices and boot mask.                                         *)
(***************************************************************************)
EXTENDS InterruptPath, SequenceTheorems, TLAPS

BeforeRegister == {"initIDT", "irqRegister"}
BeforeUnmask   == {"initIDT", "irqRegister", "unmaskRead", "unmaskWrite"}

(* What the masks, the handler table and the two threads of control owe    *)
(* each other.  Only the keyboard's line is ever unmasked, and only once   *)
(* its handler is registered; so every interrupt that is not spurious is   *)
(* the keyboard's and finds a handler, which acknowledges it.              *)
MaskDiscipline ==
  /\ DeviceIrqs \subseteq imr
  /\ irr \subseteq DeviceIrqs \cup {KB}
  /\ mainPc \in BeforeUnmask <=> KB \in imr
  /\ mainPc = "unmaskWrite" => value = (imr \cap Master) \ {KB}

HandlerDiscipline ==
  /\ \A i \in IRQs \ {KB} : irqHandlers[i] = "NULL"
  /\ mainPc \notin BeforeRegister => irqHandlers[KB] = "kbHandler"
  /\ hpc # "none" => irqNum \in {KB, Spurious} /\ ~ifl
  /\ hpc # "none" /\ irqNum = KB => mainPc \notin BeforeUnmask
  /\ hpc # "none" /\ irqNum = Spurious => hpc \in {"dispatch", "iret"}

Discipline == MaskDiscipline /\ HandlerDiscipline /\ InServiceMatchesHandler

Inv == TypeOK /\ Discipline
-----------------------------------------------------------------------------
USE DEF KB, Spurious, IRQs, Master

(* The state a byte is stamped with makes it a byte.                       *)
LEMMA MakeByteType ==
  ASSUME NEW k \in 1 .. 127, NEW d \in BOOLEAN, NEW h, NEW c \in BOOLEAN
  PROVE  MakeByte(k, d, h, c) \in Byte
BY DEF MakeByte, Byte

(* kbHandler tells the callback of nothing but the characters of its two   *)
(* tables, Enter and Backspace.                                            *)
LEMMA KeyOfType ==
  ASSUME NEW b \in Byte
  PROVE  [key |-> KeyOf(b), pressed |-> b.down] \in Call
BY DEF KeyOf, Call, Byte, Scancode, KB_SCANCODE_BACKSPACE, KB_SCANCODE_ENTER

(* picSendEOI from the handler of the keyboard ends the keyboard's         *)
(* interrupt and no other.                                                 *)
LEMMA KeyboardEOI == MasterEOI({KB}) = {}
BY DEF MasterEOI, Highest

LEMMA InitInv == Init => Inv
<1> SUFFICES ASSUME Init PROVE Inv
  OBVIOUS
<1> USE BootMaskAssumption, KeysAssumption DEF Init
<1>1. TypeOK
  <2>1. PICK k \in Keys, d \in BOOLEAN : data = MakeByte(k, d, held, FALSE)
    OBVIOUS
  <2>2. data \in Byte /\ raw \in Byte
    BY <2>1, MakeByteType
  <2>3. call \in Call
    BY DEF NoCall, Call
  <2>4. lost \in BOOLEAN
    OBVIOUS
  <2>5. kbQueue \in Seq(Byte)
    BY EmptySeq
  <2>6. mainPc \in MainPcs /\ hpc \in HandlerPcs
    BY DEF MainPcs, HandlerPcs
  <2>7. imr \in SUBSET IRQs /\ irr \in SUBSET IRQs /\ isr \in SUBSET IRQs
    OBVIOUS
  <2>8. irqHandlers \in [IRQs -> {"NULL", "kbHandler"}] /\ value \in SUBSET IRQs
    OBVIOUS
  <2>9. irqNum \in IRQs /\ sent \in 0 .. MaxBytes /\ held \in SUBSET Keys
    OBVIOUS
  <2>10. /\ ifl \in BOOLEAN /\ derailed \in BOOLEAN /\ withdrawn \in BOOLEAN /\ caps \in BOOLEAN
         /\ obf \in BOOLEAN /\ shiftOn \in BOOLEAN /\ capsLock \in BOOLEAN
         /\ keyCallback \in {"NULL", "shellKeyCallback"}
    OBVIOUS
  <2> HIDE DEF Init
  <2> QED
    BY <2>2, <2>3, <2>4, <2>5, <2>6, <2>7, <2>8, <2>9, <2>10 DEF TypeOK
<1>2. MaskDiscipline
  BY DEF MaskDiscipline, BeforeUnmask
<1>3. HandlerDiscipline
  BY DEF HandlerDiscipline, BeforeRegister
<1>4. InServiceMatchesHandler
  BY DEF InServiceMatchesHandler
<1> QED
  BY <1>1, <1>2, <1>3, <1>4 DEF Inv, Discipline

(* What the devices and the drain loop do to the controller and the PIC.   *)
LEMMA ReadDataPortType ==
  ASSUME TypeOK, ReadDataPort
  PROVE  /\ obf' \in BOOLEAN /\ data' \in Byte
         /\ imr' = imr /\ isr' = isr
         /\ irr' \in SUBSET irr /\ withdrawn' \in BOOLEAN
<1>1. withdrawn' \in BOOLEAN
  BY DEF TypeOK, ReadDataPort
<1> QED
  BY <1>1 DEF TypeOK, ReadDataPort

(* Taking an interrupt changes the program counter of the handler only.    *)
LEMMA AcceptType ==
  ASSUME TypeOK, NEW irq \in IRQs, Accept(irq), withdrawn' = FALSE,
         irr' \in SUBSET IRQs, isr' \in SUBSET IRQs
  PROVE  TypeOK'
<1>1. ifl' \in BOOLEAN /\ hpc' \in HandlerPcs /\ irqNum' \in IRQs
  BY DEF Accept, HandlerPcs
<1>2. UNCHANGED << mainPc, derailed, imr, kbdVars, portVars, kernelVars, lost >>
  BY DEF Accept
<1> QED
  BY <1>1, <1>2 DEF TypeOK, kbdVars, portVars, kernelVars

LEMMA NextTypeOK == TypeOK /\ [Next]_vars => TypeOK'
<1> SUFFICES ASSUME TypeOK, [Next]_vars PROVE TypeOK'
  OBVIOUS
<1> USE DEF TypeOK, cpuVars, picVars, kbdVars, portVars, kernelVars
<1>1. CASE initIDT
  BY <1>1 DEF initIDT, Main, picRemap, MainPcs
<1>2. CASE RegisterKbHandler
  BY <1>2 DEF RegisterKbHandler, Main, irqRegisterHandler, MainPcs
<1>3. CASE UnmaskRead
  BY <1>3 DEF UnmaskRead, Main, MainPcs
<1>4. CASE UnmaskWrite
  BY <1>4 DEF UnmaskWrite, Main, MainPcs
<1>5. CASE DrainStatus
  BY <1>5 DEF DrainStatus, Main, MainPcs
<1>6. CASE DrainDiscard
  BY <1>6, ReadDataPortType DEF DrainDiscard, Main, MainPcs
<1>7. CASE EnableScanning
  <2>1. MakeByte(ACK, FALSE, held, caps) \in Byte
    BY MakeByteType, ACK \in 1 .. 127 DEF ACK
  <2>2. kbQueue' \in Seq(Byte)
    BY <1>7, <2>1, AppendProperties DEF EnableScanning
  <2> QED
    BY <1>7, <2>2 DEF EnableScanning, Main, MainPcs
<1>8. CASE kbRegisterKeyCallback
  BY <1>8 DEF kbRegisterKeyCallback, Main, MainPcs
<1>9. CASE FinishInitShell
  BY <1>9 DEF FinishInitShell, Main, MainPcs
<1>10. ASSUME NEW irq \in IRQs, Interrupt(irq) PROVE TypeOK'
  <2>1. irr' \in SUBSET IRQs /\ isr' \in SUBSET IRQs
    BY <1>10 DEF Interrupt, Line
  <2>2. Accept(irq) /\ withdrawn' = FALSE
    BY <1>10 DEF Interrupt
  <2> QED
    BY <2>1, <2>2, AcceptType
<1>11. CASE SpuriousInterrupt
  <2>1. Accept(Spurious) /\ withdrawn' = FALSE /\ UNCHANGED << irr, isr >>
    BY <1>11 DEF SpuriousInterrupt
  <2>2. irr' \in SUBSET IRQs /\ isr' \in SUBSET IRQs
    BY <2>1
  <2> QED
    BY <2>1, <2>2, AcceptType, Spurious \in IRQs
<1>12. CASE interruptHandler
  BY <1>12 DEF interruptHandler, Handler, HandlerPcs
<1>13. CASE kbReadScancode
  BY <1>13, ReadDataPortType DEF kbReadScancode, Handler, HandlerPcs
<1>14. CASE kbProcessScancode
  <2>1. call' \in Call
    BY <1>14, KeyOfType DEF kbProcessScancode, NoCall, Call
  <2>2. shiftOn' \in BOOLEAN /\ capsLock' \in BOOLEAN
    BY <1>14 DEF kbProcessScancode, ShiftAfter, CapsAfter, Byte
  <2> QED
    BY <1>14, <2>1, <2>2 DEF kbProcessScancode, Handler, HandlerPcs
<1>15. CASE kbSendEOI
  BY <1>15 DEF kbSendEOI, picSendEOI, MasterEOI, SlaveEOI, Handler, HandlerPcs
<1>16. CASE Iretq
  <2>1. call' \in Call
    BY <1>16 DEF Iretq, NoCall, Call
  <2>2. derailed' \in BOOLEAN
    BY <1>16 DEF Iretq
  <2> QED
    BY <1>16, <2>1, <2>2 DEF Iretq, Handler, HandlerPcs
<1>17. CASE LoadByte
  <2>1. data' \in Byte /\ kbQueue' \in Seq(Byte)
    BY <1>17, HeadTailProperties DEF LoadByte
  <2> QED
    BY SMTT(30), <1>17, <2>1 DEF LoadByte, Device
<1>18. ASSUME NEW k \in Keys, Press(k) \/ Release(k) PROVE TypeOK'
  <2>1. held' \in SUBSET Keys /\ caps' \in BOOLEAN
    BY <1>18 DEF Press, Release
  <2>2. \A d \in BOOLEAN : MakeByte(k, d, held', caps') \in Byte
    BY <2>1, MakeByteType, KeysAssumption
  <2>3. \E d \in BOOLEAN : Send(k, d)
    BY <1>18 DEF Press, Release
  <2>4. kbQueue' \in Seq(Byte)
    BY <2>2, <2>3, AppendProperties DEF Send
  <2>5. sent' \in 0 .. MaxBytes
    BY <2>3, KeysAssumption DEF Send
  <2>6. UNCHANGED << cpuVars, picVars, portVars, kernelVars, lost >>
    BY <2>3 DEF Send, Device
  <2> QED
    BY <2>1, <2>4, <2>5, <2>6
<1>19. ASSUME NEW i \in DeviceIrqs, RaiseIrq(i) PROVE TypeOK'
  BY <1>19, BootMaskAssumption DEF RaiseIrq, Device
<1>20. CASE UNCHANGED vars
  BY <1>20 DEF vars
<1> QED
  BY <1>1, <1>2, <1>3, <1>4, <1>5, <1>6, <1>7, <1>8, <1>9, <1>10, <1>11, <1>12, <1>13,
     <1>14, <1>15, <1>16, <1>17, <1>18, <1>19, <1>20
     DEF Next, MainStep, HandlerStep, TakeInterrupt, Idle, Wild

LEMMA NextInv == Inv /\ [Next]_vars => Inv'
<1> SUFFICES ASSUME Inv, [Next]_vars PROVE Discipline'
  BY NextTypeOK DEF Inv
<1> USE BootMaskAssumption
        DEF Inv, Discipline, MaskDiscipline, HandlerDiscipline, InServiceMatchesHandler,
            BeforeRegister, BeforeUnmask, cpuVars, picVars, kbdVars, portVars, kernelVars
<1>1. CASE initIDT
  BY <1>1 DEF initIDT, Main, picRemap
<1>2. CASE RegisterKbHandler
  BY <1>2 DEF RegisterKbHandler, Main, irqRegisterHandler, TypeOK
<1>3. CASE UnmaskRead
  BY <1>3 DEF UnmaskRead, Main
<1>4. CASE UnmaskWrite
  BY <1>4 DEF UnmaskWrite, Main
<1>5. CASE DrainStatus
  BY <1>5 DEF DrainStatus, Main
<1>6. CASE DrainDiscard
  BY <1>6, ReadDataPortType DEF DrainDiscard, Main
<1>7. CASE EnableScanning \/ kbRegisterKeyCallback \/ FinishInitShell
  BY <1>7 DEF EnableScanning, kbRegisterKeyCallback, FinishInitShell, Main
<1>8. ASSUME NEW irq \in IRQs, Interrupt(irq) PROVE Discipline'
  <2>1. irq = KB /\ isr = {} /\ mainPc \notin BeforeUnmask
    BY <1>8 DEF Interrupt, Accept
  <2>2. isr' = {KB}
    BY <1>8, <2>1 DEF Interrupt, Line
  <2> QED
    BY <1>8, <2>1, <2>2 DEF Interrupt, Accept
<1>9. CASE SpuriousInterrupt
  BY <1>9 DEF SpuriousInterrupt, Accept
<1>10. CASE interruptHandler
  BY <1>10 DEF interruptHandler, Handler
<1>11. CASE kbReadScancode
  BY <1>11, ReadDataPortType DEF kbReadScancode, Handler
<1>12. CASE kbProcessScancode
  BY <1>12 DEF kbProcessScancode, Handler
<1>13. CASE kbSendEOI
  <2>1. irqNum = KB /\ isr = {KB}
    BY <1>13 DEF kbSendEOI, Handler
  <2>2. isr' = {}
    BY <1>13, <2>1, KeyboardEOI DEF kbSendEOI, picSendEOI
  <2> QED
    BY <1>13, <2>1, <2>2 DEF kbSendEOI, Handler
<1>14. CASE Iretq
  BY <1>14 DEF Iretq, Handler
<1>15. CASE LoadByte
  BY <1>15 DEF LoadByte, Device
<1>16. ASSUME NEW k \in Keys, Press(k) \/ Release(k) PROVE Discipline'
  <2>1. UNCHANGED << cpuVars, picVars, kernelVars >>
    BY <1>16 DEF Press, Release, Send, Device
  <2> QED
    BY <2>1
<1>17. ASSUME NEW i \in DeviceIrqs, RaiseIrq(i) PROVE Discipline'
  BY <1>17 DEF RaiseIrq, Device
<1>18. CASE UNCHANGED vars
  BY <1>18 DEF vars
<1> QED
  BY <1>1, <1>2, <1>3, <1>4, <1>5, <1>6, <1>7, <1>8, <1>9, <1>10, <1>11, <1>12, <1>13,
     <1>14, <1>15, <1>16, <1>17, <1>18
     DEF Next, MainStep, HandlerStep, TakeInterrupt, Idle, Wild

LEMMA InvInvariant == Spec => []Inv
BY InitInv, NextInv, PTL DEF Spec
-----------------------------------------------------------------------------
(* Every variable of the interrupt path keeps its type.                    *)
THEOREM TypeCorrect == Spec => []TypeOK
BY InvInvariant, PTL DEF Inv, Discipline

(* For every set of other devices and every boot mask that covers them and *)
(* the keyboard: whatever the PIC holds in service is being served, so no  *)
(* interrupt is ever left unacknowledged, although interruptHandler        *)
(* acknowledges none.                                                      *)
THEOREM NoIrqLeftInService == Spec => []InServiceMatchesHandler
BY InvInvariant, PTL DEF Inv, Discipline
-----------------------------------------------------------------------------
LEMMA NextNoLostWakeup == Inv /\ NoLostWakeup /\ [Next]_vars => NoLostWakeup'
<1> SUFFICES ASSUME Inv, NoLostWakeup, [Next]_vars PROVE NoLostWakeup'
  OBVIOUS
<1> USE BootMaskAssumption
        DEF Inv, Discipline, NoLostWakeup, cpuVars, picVars, kbdVars, portVars, kernelVars
<1>1. CASE MainStep
  <2>1. CASE DrainStatus
    BY <2>1 DEF DrainStatus, Main, TypeOK
  <2>2. CASE EnableScanning \/ kbRegisterKeyCallback \/ FinishInitShell
    BY <2>2 DEF EnableScanning, kbRegisterKeyCallback, FinishInitShell, Main
  <2>3. CASE initIDT \/ RegisterKbHandler \/ UnmaskRead \/ UnmaskWrite \/ DrainDiscard
    BY <2>3 DEF initIDT, RegisterKbHandler, UnmaskRead, UnmaskWrite, DrainDiscard, Main
  <2> QED
    BY <1>1, <2>1, <2>2, <2>3 DEF MainStep
<1>2. ASSUME NEW irq \in IRQs, Interrupt(irq) PROVE NoLostWakeup'
  BY <1>2 DEF Interrupt, Accept, MaskDiscipline
<1>3. CASE SpuriousInterrupt
  BY <1>3 DEF SpuriousInterrupt, Accept
<1>4. CASE HandlerStep
  <2>1. CASE interruptHandler
    BY <2>1 DEF interruptHandler, Handler, HandlerDiscipline, BeforeRegister
  <2>2. CASE kbReadScancode
    BY <2>2 DEF kbReadScancode, Handler, ReadDataPort
  <2>3. CASE kbProcessScancode \/ kbSendEOI \/ Iretq
    BY <2>3 DEF kbProcessScancode, kbSendEOI, Iretq, Handler
  <2> QED
    BY <1>4, <2>1, <2>2, <2>3 DEF HandlerStep
<1>5. CASE LoadByte
  BY <1>5 DEF LoadByte, Device, MaskDiscipline, BeforeUnmask
<1>6. ASSUME NEW k \in Keys, Press(k) \/ Release(k) PROVE NoLostWakeup'
  BY <1>6 DEF Press, Release, Send, Device
<1>7. ASSUME NEW i \in DeviceIrqs, RaiseIrq(i) PROVE NoLostWakeup'
  BY <1>7 DEF RaiseIrq, Device
<1>8. CASE UNCHANGED vars
  BY <1>8 DEF vars
<1> QED
  BY <1>1, <1>2, <1>3, <1>4, <1>5, <1>6, <1>7, <1>8 DEF Next, TakeInterrupt, Idle, Wild

(* For every behaviour of keyboard, PIC and kmain: once initKb has drained *)
(* the controller, a byte in it always has its edge, so the handler will   *)
(* be called for it.                                                       *)
THEOREM NoByteWithoutEdge == Spec => []NoLostWakeup
<1>1. Init => NoLostWakeup
  BY DEF Init, NoLostWakeup
<1> QED
  BY <1>1, InvInvariant, NextNoLostWakeup, PTL DEF Spec
-----------------------------------------------------------------------------
(***************************************************************************)
(* What becomes of the bytes of the keyboard: the driver's Shift and Caps  *)
(* Lock follow the keyboard's through every delay between a stroke and the *)
(* handling of its byte.                                                   *)
(***************************************************************************)
(* The edge that a byte in the output buffer is handled for: latched, or   *)
(* taken and not read for yet.  A byte without one was there before the    *)
(* PICs were reset; the drain loop takes it.                               *)
Served   == hpc \in {"dispatch", "read"} /\ irqNum = KB
Stranded == obf /\ KB \notin irr /\ ~Served
Edges    == (KB \in irr => obf) /\ (Served => obf /\ KB \notin irr) /\ (hpc = "process" => ~Stranded)
Complete == ~lost /\ ~Stranded

(* The bytes on their way to kbHandler, in the order it will handle them:  *)
(* the one it has read, the one in the output buffer, those in the         *)
(* keyboard.                                                               *)
Reading == hpc = "process"
IsShift(b) == b.code \in ShiftKeys
NoShiftQueued == \A i \in 1 .. Len(kbQueue) : ~IsShift(kbQueue[i])

(* When no Shift key is held, the last stroke of one that is on its way is *)
(* a release, or there is none and the driver's flag is off.               *)
ReleaseQueued ==
  \E i \in 1 .. Len(kbQueue) :
    /\ IsShift(kbQueue[i]) /\ ~kbQueue[i].down
    /\ \A j \in 1 .. Len(kbQueue) : j > i => ~IsShift(kbQueue[j])
ReleaseOnItsWay ==
  \/ ReleaseQueued
  \/ NoShiftQueued /\ obf /\ IsShift(data) /\ ~data.down
  \/ NoShiftQueued /\ (obf => ~IsShift(data)) /\ Reading /\ IsShift(raw) /\ ~raw.down
  \/ NoShiftQueued /\ (obf => ~IsShift(data)) /\ (Reading => ~IsShift(raw)) /\ shiftOn = FALSE
ShiftInv ==
  /\ ~lost => Edges
  /\ Complete /\ held \cap ShiftKeys = {} => ReleaseOnItsWay

(* Each byte on its way carries the state of the modifiers that the one    *)
(* before it left, from the driver's own up to the keyboard's.             *)
Modifiers(b) == [shift |-> b.shift, caps |-> b.caps]
Follows(b, m) ==
  /\ b.shift = IF IsShift(b) THEN b.down ELSE m.shift
  /\ b.caps = IF b.code = KB_SCANCODE_CAPS_LOCK /\ b.down THEN ~m.caps ELSE m.caps
Driver   == [shift |-> shiftOn, caps |-> capsLock]
PastRaw  == IF Reading THEN Modifiers(raw) ELSE Driver
PastData == IF obf THEN Modifiers(data) ELSE PastRaw
Keyboard == [shift |-> held \cap ShiftKeys # {}, caps |-> caps]
Chained ==
  /\ Reading => Follows(raw, Driver)
  /\ obf => Follows(data, PastRaw)
  /\ kbQueue # << >> => Follows(kbQueue[1], PastData)
  /\ \A i \in 1 .. Len(kbQueue) - 1 : Follows(kbQueue[i + 1], Modifiers(kbQueue[i]))
  /\ Keyboard = IF kbQueue = << >> THEN PastData ELSE Modifiers(kbQueue[Len(kbQueue)])
KeyInv == (~lost => Edges) /\ (Complete => Chained) /\ KeyAsTyped
-----------------------------------------------------------------------------
USE DEF Served, Stranded, Complete, Reading

(* What a step does to the bytes on their way.                             *)
Still ==
  /\ UNCHANGED << kbQueue, held, caps, obf, data, shiftOn, capsLock >>
  /\ Reading' = Reading /\ (Reading => raw' = raw)
Arrives(b) ==
  /\ kbQueue' = Append(kbQueue, b)
  /\ UNCHANGED << obf, data, shiftOn, capsLock, hpc, raw >>
Loaded ==
  /\ ~obf /\ kbQueue # << >>
  /\ obf' = TRUE /\ data' = Head(kbQueue) /\ kbQueue' = Tail(kbQueue)
  /\ UNCHANGED << held, caps, shiftOn, capsLock, hpc, raw >>
ReadByHandler ==
  /\ obf /\ ~Reading /\ obf' = FALSE /\ raw' = data /\ hpc' = "process"
  /\ UNCHANGED << kbQueue, held, caps, shiftOn, capsLock >>
Processed ==
  /\ Reading /\ ~Reading' /\ shiftOn' = ShiftAfter(raw) /\ capsLock' = CapsAfter(raw)
  /\ UNCHANGED << kbQueue, held, caps, obf, data >>
Struck ==
  \/ \E k \in Keys :
       \/ held' = held \cup {k} /\ caps' = (IF k = KB_SCANCODE_CAPS_LOCK THEN ~caps ELSE caps)
          /\ Arrives(MakeByte(k, TRUE, held', caps'))
       \/ k \in held /\ held' = held \ {k} /\ caps' = caps /\ Arrives(MakeByte(k, FALSE, held', caps'))
  \/ UNCHANGED << held, caps >> /\ Arrives(MakeByte(ACK, FALSE, held, caps))

(* No step is anything else, as long as no byte is lost; and an edge stays *)
(* with its byte.                                                          *)
LEMMA StepsOfBytes ==
  ASSUME Inv, ~lost => Edges, [Next]_vars, lost' = FALSE
  PROVE  /\ lost = FALSE /\ Edges'
         /\ Stranded => Stranded'
         /\ Still \/ Struck \/ Loaded \/ ReadByHandler \/ Processed
<1> DEFINE Goal == /\ lost = FALSE /\ Edges' /\ (Stranded => Stranded')
                   /\ Still \/ Struck \/ Loaded \/ ReadByHandler \/ Processed
<1> SUFFICES Goal
  OBVIOUS
<1> USE BootMaskAssumption
        DEF Inv, Discipline, Edges, cpuVars, picVars, kbdVars, portVars, kernelVars
<1>t. lost \in BOOLEAN
  BY DEF TypeOK
<1>1. ASSUME MainStep PROVE Goal
  <2>0. hpc = "none" /\ hpc' = "none"
    BY <1>1 DEF MainStep, initIDT, RegisterKbHandler, UnmaskRead, UnmaskWrite, DrainStatus, DrainDiscard,
                EnableScanning, kbRegisterKeyCallback, FinishInitShell, Main
  <2>1. ASSUME initIDT PROVE Goal
    BY <2>0, <2>1, <1>t DEF initIDT, picRemap, Still
  <2>2. ASSUME RegisterKbHandler \/ UnmaskRead \/ UnmaskWrite \/ DrainStatus \/ kbRegisterKeyCallback
               \/ FinishInitShell
        PROVE  Goal
    BY <2>0, <2>2, <1>t DEF RegisterKbHandler, UnmaskRead, UnmaskWrite, DrainStatus, kbRegisterKeyCallback,
                FinishInitShell, Still
  <2>3. ASSUME DrainDiscard PROVE Goal
    BY <2>0, <2>3, <1>t DEF DrainDiscard, ReadDataPort, Still, TypeOK
  <2>4. ASSUME EnableScanning PROVE Goal
    BY <2>0, <2>4, <1>t DEF EnableScanning, Struck, Arrives
  <2> QED
    BY <1>1, <2>1, <2>2, <2>3, <2>4 DEF MainStep
<1>2. ASSUME NEW irq \in IRQs, Interrupt(irq) PROVE Goal
  <2>1. irq = KB /\ KB \in irr
    BY <1>2 DEF Interrupt, MaskDiscipline
  <2>2. /\ hpc = "none" /\ hpc' = "dispatch" /\ irqNum' = KB /\ irr' = irr \ {KB}
        /\ UNCHANGED << kbdVars, portVars, kernelVars, lost >>
    BY <1>2, <2>1 DEF Interrupt, Accept
  <2> QED
    BY <2>1, <2>2, <1>t DEF Still
<1>3. ASSUME SpuriousInterrupt PROVE Goal
  BY <1>3, <1>t DEF SpuriousInterrupt, Accept, Still
<1>4. ASSUME HandlerStep PROVE Goal
  <2>1. ASSUME interruptHandler PROVE Goal
    BY <2>1, <1>t DEF interruptHandler, Handler, HandlerDiscipline, Still, BeforeRegister, BeforeUnmask
  <2>2. ASSUME kbReadScancode PROVE Goal
    <3>1. irqNum = KB /\ hpc = "read"
      BY <2>2 DEF kbReadScancode, Handler, HandlerDiscipline
    <3>2. /\ hpc' = "process" /\ raw' = data /\ obf' = FALSE /\ UNCHANGED << kbQueue, held, caps, shiftOn, capsLock, lost >>
          /\ irqNum' = irqNum
      BY <2>2 DEF kbReadScancode, Handler, ReadDataPort
    <3>3. obf = TRUE /\ KB \notin irr
      BY <3>1, <3>2, <1>t DEF TypeOK
    <3>4. irr' = irr
      BY <2>2, <3>3 DEF kbReadScancode, ReadDataPort
    <3>5. lost = FALSE /\ Edges' /\ (Stranded => Stranded')
      BY <3>1, <3>2, <3>3, <3>4
    <3>6. ReadByHandler
      BY <3>1, <3>2, <3>3 DEF ReadByHandler
    <3> QED
      BY <3>5, <3>6
  <2>3. ASSUME kbProcessScancode PROVE Goal
    BY <2>3, <1>t DEF kbProcessScancode, Handler, Processed
  <2>4. ASSUME kbSendEOI \/ Iretq PROVE Goal
    BY <2>4, <1>t DEF kbSendEOI, Iretq, Handler, Still
  <2> QED
    BY <1>4, <2>1, <2>2, <2>3, <2>4 DEF HandlerStep
<1>5. ASSUME LoadByte PROVE Goal
  BY <1>5, <1>t DEF LoadByte, Device, Loaded
<1>6. ASSUME NEW k \in Keys, Press(k) \/ Release(k) PROVE Goal
  <2>1. UNCHANGED << cpuVars, picVars, portVars, kernelVars, lost >>
    BY <1>6 DEF Press, Release, Send, Device
  <2>2. lost = FALSE /\ Edges' /\ (Stranded => Stranded')
    BY <2>1, <1>t
  <2>3. Struck
    <3>1. CASE Press(k)
      BY <2>1, <3>1 DEF Press, Send, Struck, Arrives
    <3>2. CASE Release(k)
      BY <2>1, <3>2 DEF Release, Send, Struck, Arrives
    <3> QED
      BY <1>6, <3>1, <3>2
  <2> QED
    BY <2>2, <2>3
<1>7. ASSUME NEW i \in DeviceIrqs, RaiseIrq(i) PROVE Goal
  <2>1. i # KB
    OBVIOUS
  <2> QED
    BY <1>7, <2>1, <1>t DEF RaiseIrq, Device, Still
<1>8. ASSUME UNCHANGED vars PROVE Goal
  BY <1>8, <1>t DEF vars, Still
<1> HIDE DEF Goal
<1> QED
  BY <1>1, <1>2, <1>3, <1>4, <1>5, <1>6, <1>7, <1>8 DEF Next, TakeInterrupt, Idle, Wild

(* The queue of the keyboard, when a byte comes in and when one leaves.    *)
LEMMA Arrival ==
  ASSUME TypeOK, NEW b \in Byte, kbQueue' = Append(kbQueue, b)
  PROVE  /\ Len(kbQueue) \in Nat /\ kbQueue' \in Seq(Byte) /\ Len(kbQueue') = Len(kbQueue) + 1
         /\ \A i \in 1 .. Len(kbQueue) : kbQueue'[i] = kbQueue[i]
         /\ kbQueue'[Len(kbQueue) + 1] = b /\ kbQueue' # << >>
<1>1. kbQueue \in Seq(Byte)
  BY DEF TypeOK
<1> QED
  BY <1>1, AppendProperties, LenProperties

(* What leaves the keyboard is the oldest byte, and the others move up.    *)
LEMMA Departure ==
  ASSUME TypeOK, kbQueue # << >>, kbQueue' = Tail(kbQueue)
  PROVE  /\ Len(kbQueue) \in Nat /\ Len(kbQueue) >= 1 /\ kbQueue' \in Seq(Byte)
         /\ Len(kbQueue') = Len(kbQueue) - 1 /\ Head(kbQueue) = kbQueue[1]
         /\ \A i \in 1 .. Len(kbQueue) - 1 : kbQueue'[i] = kbQueue[i + 1]
<1>1. kbQueue \in Seq(Byte) /\ Len(kbQueue) \in Nat
  BY LenProperties DEF TypeOK
<1>2. Len(kbQueue) >= 1
  BY <1>1, EmptySeq
<1> QED
  BY <1>1, <1>2, HeadTailProperties

(* A byte remembers the key, the edge and the modifiers it was sent with.  *)
LEMMA Stamped ==
  ASSUME NEW k \in 1 .. 127, NEW d \in BOOLEAN, NEW h, NEW c \in BOOLEAN,
         NEW b, b = MakeByte(k, d, h, c)
  PROVE  b \in Byte /\ b.code = k /\ b.down = d /\ b.caps = c /\ b.shift = (h \cap ShiftKeys # {})
BY MakeByteType DEF MakeByte

(* The byte of a stroke carries the modifiers that the stroke leaves the   *)
(* keyboard in; the reply to a command carries them unchanged.             *)
LEMMA StruckByte ==
  ASSUME TypeOK, Struck
  PROVE  \E b \in Byte :
           /\ Arrives(b) /\ b.shift = (held' \cap ShiftKeys # {}) /\ b.caps = caps'
           /\ \/ \E k \in Keys : b.code = k /\ b.down = TRUE /\ held' = held \cup {k}
                   /\ caps' = IF k = KB_SCANCODE_CAPS_LOCK THEN ~caps ELSE caps
              \/ \E k \in Keys : b.code = k /\ b.down = FALSE /\ k \in held /\ held' = held \ {k} /\ caps' = caps
              \/ b.code = ACK /\ b.down = FALSE /\ held' = held /\ caps' = caps
<1>2. ACK \in 1 .. 127 /\ caps \in BOOLEAN /\ \A k \in Keys : k \in 1 .. 127
  BY KeysAssumption DEF ACK, TypeOK
<1>3. ASSUME NEW k \in Keys, held' = held \cup {k},
             caps' = (IF k = KB_SCANCODE_CAPS_LOCK THEN ~caps ELSE caps),
             Arrives(MakeByte(k, TRUE, held', caps'))
      PROVE  \E b \in Byte :
               /\ Arrives(b) /\ b.shift = (held' \cap ShiftKeys # {}) /\ b.caps = caps'
               /\ b.code = k /\ b.down = TRUE
  <2>1. caps' \in BOOLEAN
    BY <1>2, <1>3
  <2>2. k \in 1 .. 127 /\ TRUE \in BOOLEAN
    BY <1>2
  <2>p. PICK d, h, c : d = TRUE /\ h = held' /\ c = caps'
    OBVIOUS
  <2>0. PICK b : b = MakeByte(k, d, h, c)
    OBVIOUS
  <2>3. /\ b \in Byte /\ b.code = k /\ b.down = TRUE /\ b.caps = caps' /\ b.shift = (held' \cap ShiftKeys # {})
    <3>1. d \in BOOLEAN /\ c \in BOOLEAN
      BY <2>1, <2>p
    <3>2. b \in Byte /\ b.code = k /\ b.down = d /\ b.caps = c /\ b.shift = (h \cap ShiftKeys # {})
      BY <2>0, <2>2, <3>1, Stamped
    <3> QED
      BY <2>p, <3>2
  <2>4. Arrives(b)
    BY <1>3, <2>0, <2>p
  <2> QED
    BY <2>3, <2>4
<1>4. ASSUME NEW k \in 1 .. 127, caps' = caps, Arrives(MakeByte(k, FALSE, held', caps'))
      PROVE  \E b \in Byte :
               /\ Arrives(b) /\ b.shift = (held' \cap ShiftKeys # {}) /\ b.caps = caps'
               /\ b.code = k /\ b.down = FALSE
  <2>1. caps' \in BOOLEAN /\ FALSE \in BOOLEAN
    BY <1>2, <1>4
  <2>p. PICK d, h, c : d = FALSE /\ h = held' /\ c = caps'
    OBVIOUS
  <2>0. PICK b : b = MakeByte(k, d, h, c)
    OBVIOUS
  <2>3. /\ b \in Byte /\ b.code = k /\ b.down = FALSE /\ b.caps = caps' /\ b.shift = (held' \cap ShiftKeys # {})
    <3>1. d \in BOOLEAN /\ c \in BOOLEAN
      BY <2>1, <2>p
    <3>2. b \in Byte /\ b.code = k /\ b.down = d /\ b.caps = c /\ b.shift = (h \cap ShiftKeys # {})
      BY <2>0, <3>1, Stamped
    <3> QED
      BY <2>p, <3>2
  <2>4. Arrives(b)
    BY <1>4, <2>0, <2>p
  <2> QED
    BY <2>3, <2>4
<1>5. CASE \E k \in Keys : /\ held' = held \cup {k} /\ caps' = (IF k = KB_SCANCODE_CAPS_LOCK THEN ~caps ELSE caps)
                           /\ Arrives(MakeByte(k, TRUE, held', caps'))
  BY <1>3, <1>5
<1>6. CASE \E k \in Keys : /\ k \in held /\ held' = held \ {k} /\ caps' = caps
                           /\ Arrives(MakeByte(k, FALSE, held', caps'))
  <2>1. PICK k \in Keys : /\ k \in held /\ held' = held \ {k} /\ caps' = caps
                        /\ Arrives(MakeByte(k, FALSE, held', caps'))
    BY <1>6
  <2>2. k \in 1 .. 127
    BY <1>2
  <2>3. \E b \in Byte :
               /\ Arrives(b) /\ b.shift = (held' \cap ShiftKeys # {}) /\ b.caps = caps'
               /\ b.code = k /\ b.down = FALSE
    BY <1>4, <2>1, <2>2
  <2> QED
    BY <2>1, <2>3
<1>7. CASE UNCHANGED << held, caps >> /\ Arrives(MakeByte(ACK, FALSE, held, caps))
  <2>1. Arrives(MakeByte(ACK, FALSE, held', caps')) /\ held' = held /\ caps' = caps
    BY <1>7
  <2> QED
    BY <1>2, <1>4, <2>1
<1> QED
  BY <1>5, <1>6, <1>7 DEF Struck
-----------------------------------------------------------------------------
(* Each way a byte moves keeps the release of the last Shift key on its    *)
(* way, or the driver's flag off: a press of Shift is followed by its      *)
(* release before no Shift key is held, and the bytes are handled in the   *)
(* order they were sent.                                                   *)
LEMMA ShiftKept ==
  ASSUME Inv, ~lost => Edges, Complete /\ held \cap ShiftKeys = {} => ReleaseOnItsWay, [Next]_vars,
         Complete', (held \cap ShiftKeys = {})'
  PROVE  ReleaseOnItsWay'
<1>0. TypeOK /\ Complete /\ (Still \/ Struck \/ Loaded \/ ReadByHandler \/ Processed)
  <2>1. lost' = FALSE
    BY NextTypeOK DEF Inv, TypeOK
  <2> QED
    BY <2>1, StepsOfBytes DEF Inv
<1>1. CASE Still
  <2>1. ReleaseOnItsWay
    BY <1>0, <1>1 DEF Still
  <2> QED
    BY <1>1, <2>1 DEF Still, ReleaseOnItsWay, ReleaseQueued, NoShiftQueued, IsShift
<1>2. CASE Struck
  <2>1. PICK b \in Byte :
           /\ Arrives(b)
           /\ \/ \E k \in Keys : b.code = k /\ b.down = TRUE /\ held' = held \cup {k}
              \/ \E k \in Keys : b.code = k /\ b.down = FALSE /\ held' = held \ {k}
              \/ b.code = ACK /\ b.down = FALSE /\ held' = held
    BY <1>0, <1>2, StruckByte
  <2>2. /\ Len(kbQueue) \in Nat /\ Len(kbQueue') = Len(kbQueue) + 1
        /\ \A i \in 1 .. Len(kbQueue) : kbQueue'[i] = kbQueue[i]
        /\ kbQueue'[Len(kbQueue) + 1] = b
    BY <1>0, <2>1, Arrival DEF Arrives
  <2>3. CASE IsShift(b)
    <3>1. b.down = FALSE
      BY <2>1, <2>3 DEF IsShift
    <3> QED
      BY <2>2, <2>3, <3>1 DEF ReleaseOnItsWay, ReleaseQueued, IsShift
  <2>4. CASE ~IsShift(b)
    <3>1. ReleaseOnItsWay
      BY <1>0, <2>1, <2>4 DEF IsShift
    <3>2. ReleaseQueued => ReleaseQueued'
      <4> SUFFICES ASSUME ReleaseQueued PROVE ReleaseQueued'
        OBVIOUS
      <4>1. PICK i \in 1 .. Len(kbQueue) :
              /\ IsShift(kbQueue[i]) /\ ~kbQueue[i].down
              /\ \A j \in 1 .. Len(kbQueue) : j > i => ~IsShift(kbQueue[j])
        BY DEF ReleaseQueued
      <4>2. i \in 1 .. Len(kbQueue') /\ kbQueue'[i] = kbQueue[i]
        BY <2>2
      <4>3. ASSUME NEW j \in 1 .. Len(kbQueue'), j > i PROVE ~IsShift(kbQueue'[j])
        BY <2>2, <2>4, <4>1, <4>3 DEF IsShift
      <4> QED
        BY <4>1, <4>2, <4>3 DEF ReleaseQueued, IsShift
    <3>3. NoShiftQueued => NoShiftQueued'
      BY <2>2, <2>4 DEF NoShiftQueued, IsShift
    <3> QED
      BY <2>1, <3>1, <3>2, <3>3 DEF ReleaseOnItsWay, IsShift, Arrives
  <2> QED
    BY <2>3, <2>4
<1>3. CASE Loaded
  <2>1. /\ Len(kbQueue) \in Nat /\ Len(kbQueue) >= 1 /\ Len(kbQueue') = Len(kbQueue) - 1
        /\ data' = kbQueue[1] /\ obf' = TRUE /\ obf = FALSE
        /\ \A i \in 1 .. Len(kbQueue) - 1 : kbQueue'[i] = kbQueue[i + 1]
        /\ UNCHANGED << held, shiftOn, hpc, raw >>
    BY <1>0, <1>3, Departure DEF Loaded, TypeOK
  <2>2. ReleaseOnItsWay
    BY <1>0, <2>1
  <2>3. CASE ReleaseQueued
    <3>1. PICK i \in 1 .. Len(kbQueue) :
            /\ IsShift(kbQueue[i]) /\ ~kbQueue[i].down
            /\ \A j \in 1 .. Len(kbQueue) : j > i => ~IsShift(kbQueue[j])
      BY <2>3 DEF ReleaseQueued
    <3>2. CASE i = 1
      <4>1. NoShiftQueued'
        BY <2>1, <3>1, <3>2 DEF NoShiftQueued, IsShift
      <4> QED
        BY <2>1, <3>1, <3>2, <4>1 DEF ReleaseOnItsWay, IsShift
    <3>3. CASE i > 1
      <4>1. i - 1 \in 1 .. Len(kbQueue') /\ kbQueue'[i - 1] = kbQueue[i]
        BY <2>1, <3>3
      <4>2. ASSUME NEW j \in 1 .. Len(kbQueue'), j > i - 1 PROVE ~IsShift(kbQueue'[j])
        <5>1. j + 1 \in 1 .. Len(kbQueue) /\ j + 1 > i /\ kbQueue'[j] = kbQueue[j + 1]
          BY <2>1, <4>2
        <5> QED
          BY <3>1, <5>1
      <4>3. ReleaseQueued'
        BY <3>1, <4>1, <4>2 DEF ReleaseQueued, IsShift
      <4> QED
        BY <4>3 DEF ReleaseOnItsWay
    <3> QED
      BY <3>2, <3>3
  <2>4. CASE NoShiftQueued
    <3>1. NoShiftQueued' /\ ~IsShift(data')
      BY <2>1, <2>4 DEF NoShiftQueued, IsShift
    <3> QED
      BY <2>1, <2>2, <2>4, <3>1 DEF ReleaseOnItsWay, IsShift, NoShiftQueued, ReleaseQueued
  <2> QED
    BY <2>2, <2>3, <2>4 DEF ReleaseOnItsWay
<1>4. CASE ReadByHandler
  <2>1. ReleaseOnItsWay
    BY <1>0, <1>4 DEF ReadByHandler
  <2> QED
    BY <1>4, <2>1 DEF ReadByHandler, ReleaseOnItsWay, ReleaseQueued, NoShiftQueued, IsShift
<1>5. CASE Processed
  <2>1. ReleaseOnItsWay
    BY <1>0, <1>5 DEF Processed
  <2>2. shiftOn' = (IF IsShift(raw) THEN raw.down ELSE shiftOn) /\ raw.down \in BOOLEAN /\ shiftOn \in BOOLEAN
    BY <1>0, <1>5 DEF Processed, ShiftAfter, IsShift, TypeOK, Byte
  <2> QED
    BY <1>5, <2>1, <2>2 DEF Processed, ReleaseOnItsWay, ReleaseQueued, NoShiftQueued, IsShift
<1> QED
  BY <1>0, <1>1, <1>2, <1>3, <1>4, <1>5

(* ReleaseOnItsWay is inductive together with the invariant of the         *)
(* interrupt path, which says what an interrupt is raised and served for.  *)
LEMMA ShiftInvInvariant == Spec => [](Inv /\ ShiftInv)
<1>1. Init => Inv /\ ShiftInv
  <2> SUFFICES ASSUME Init PROVE ShiftInv
    BY InitInv
  <2>1. /\ irr = {} /\ hpc = "none" /\ shiftOn = FALSE /\ kbQueue = << >> /\ Len(kbQueue) <= 0
    BY DEF Init
  <2> QED
    BY <2>1 DEF ShiftInv, Edges, ReleaseOnItsWay, NoShiftQueued
<1>2. Inv /\ ShiftInv /\ [Next]_vars => (Inv /\ ShiftInv)'
  <2> SUFFICES ASSUME Inv, ShiftInv, [Next]_vars PROVE Inv' /\ ShiftInv'
    OBVIOUS
  <2>1. Inv'
    BY NextInv
  <2>2. ~lost' => Edges'
    <3>1. lost' \in BOOLEAN
      BY <2>1 DEF Inv, TypeOK
    <3> QED
      BY <3>1, StepsOfBytes DEF ShiftInv
  <2>3. Complete' /\ (held \cap ShiftKeys = {})' => ReleaseOnItsWay'
    BY ShiftKept DEF ShiftInv
  <2> QED
    BY <2>1, <2>2, <2>3 DEF ShiftInv
<1> QED
  BY <1>1, <1>2, PTL DEF Spec

(* Shift never sticks, whatever the keys and however late their bytes are  *)
(* handled: with nothing on its way and no Shift key held, the driver's    *)
(* flag is off (kbHandler, keyboard.c).                                    *)
THEOREM NoStickyShift == Spec => []ShiftNeverSticks
<1>1. Inv /\ ShiftInv => ShiftNeverSticks
  <2> SUFFICES ASSUME Inv, ShiftInv, NothingInFlight, shiftOn, held \cap ShiftKeys = {} PROVE FALSE
    BY DEF ShiftNeverSticks
  <2>1. Complete /\ kbQueue = << >> /\ ~obf /\ ~Reading
    BY DEF NothingInFlight
  <2>2. ~ReleaseQueued
    BY <2>1 DEF ReleaseQueued
  <2>3. shiftOn = FALSE
    BY <2>1, <2>2 DEF ShiftInv, ReleaseOnItsWay
  <2> QED
    BY <2>3
<1> QED
  BY <1>1, ShiftInvInvariant, PTL
-----------------------------------------------------------------------------
(* The two Shift keys are not down together.  They share the driver's      *)
(* flag: with both down, letting go of one loses the other, and what is    *)
(* struck next comes out in lower case.                                    *)
OneShiftDown == ~(ShiftKeys \subseteq held)

(* Each way a byte moves keeps the chain of modifiers from the driver's    *)
(* to the keyboard's.                                                      *)
LEMMA ChainKept ==
  ASSUME Inv, ~lost => Edges, Complete => Chained, [Next]_vars, Complete', OneShiftDown
  PROVE  Chained'
<1>0. TypeOK /\ Chained /\ (Still \/ Struck \/ Loaded \/ ReadByHandler \/ Processed)
  <2>1. lost' = FALSE
    BY NextTypeOK DEF Inv, TypeOK
  <2> QED
    BY <2>1, StepsOfBytes DEF Inv
<1>1. CASE Still
  BY <1>0, <1>1 DEF Still, Chained, Follows, IsShift, Driver, PastRaw, PastData, Keyboard, Modifiers
<1>2. CASE Struck
  <2>1. PICK b \in Byte :
           /\ Arrives(b) /\ b.shift = (held' \cap ShiftKeys # {}) /\ b.caps = caps'
           /\ \/ \E k \in Keys : b.code = k /\ b.down = TRUE /\ held' = held \cup {k}
                   /\ caps' = IF k = KB_SCANCODE_CAPS_LOCK THEN ~caps ELSE caps
              \/ \E k \in Keys : b.code = k /\ b.down = FALSE /\ k \in held /\ held' = held \ {k} /\ caps' = caps
              \/ b.code = ACK /\ b.down = FALSE /\ held' = held /\ caps' = caps
    BY <1>0, <1>2, StruckByte
  <2>a. held \subseteq Keys /\ caps \in BOOLEAN
    BY <1>0 DEF TypeOK
  <2>s. (held' \cap ShiftKeys # {}) = IF IsShift(b) THEN b.down ELSE held \cap ShiftKeys # {}
    <3>1. ASSUME NEW k \in Keys, b.code = k, b.down = TRUE, held' = held \cup {k}
          PROVE  (held' \cap ShiftKeys # {}) = IF IsShift(b) THEN b.down ELSE held \cap ShiftKeys # {}
      BY <3>1 DEF IsShift
    <3>2. ASSUME NEW k \in Keys, b.code = k, b.down = FALSE, k \in held, held' = held \ {k}
          PROVE  (held' \cap ShiftKeys # {}) = IF IsShift(b) THEN b.down ELSE held \cap ShiftKeys # {}
      <4>1. CASE k \in ShiftKeys
        <5>1. ASSUME NEW x \in held' \cap ShiftKeys PROVE FALSE
          BY <2>a, <3>2, <4>1, <5>1 DEF OneShiftDown, ShiftKeys
        <5> QED
          BY <3>2, <4>1, <5>1 DEF IsShift
      <4>2. CASE k \notin ShiftKeys
        <5>1. held' \cap ShiftKeys = held \cap ShiftKeys
          BY <3>2, <4>2
        <5> QED
          BY <3>2, <4>2, <5>1 DEF IsShift
      <4> QED
        BY <4>1, <4>2
    <3>3. ASSUME b.code = ACK, held' = held
          PROVE  (held' \cap ShiftKeys # {}) = IF IsShift(b) THEN b.down ELSE held \cap ShiftKeys # {}
      BY <3>3 DEF IsShift, ACK, ShiftKeys, KB_SCANCODE_LEFT_SHIFT, KB_SCANCODE_RIGHT_SHIFT
    <3> QED
      BY <2>1, <3>1, <3>2, <3>3
  <2>c. caps' = IF b.code = KB_SCANCODE_CAPS_LOCK /\ b.down THEN ~caps ELSE caps
    BY <2>1 DEF ACK, KB_SCANCODE_CAPS_LOCK
  <2>2. Follows(b, Keyboard) /\ Modifiers(b) = Keyboard'
    BY <2>1, <2>s, <2>c, Zenon DEF Follows, Keyboard, Modifiers
  <2>3. /\ Len(kbQueue) \in Nat /\ Len(kbQueue') = Len(kbQueue) + 1
        /\ \A i \in 1 .. Len(kbQueue) : kbQueue'[i] = kbQueue[i]
        /\ kbQueue'[Len(kbQueue) + 1] = b /\ kbQueue' # << >>
    BY <1>0, <2>1, Arrival DEF Arrives
  <2> QED
    BY <1>0, <2>1, <2>2, <2>3, EmptySeq DEF Chained, Arrives, PastRaw, PastData, Driver
<1>3. CASE Loaded
  <2>1. /\ Len(kbQueue) \in Nat /\ Len(kbQueue) >= 1 /\ Len(kbQueue') = Len(kbQueue) - 1
        /\ data' = kbQueue[1] /\ obf' = TRUE /\ obf = FALSE
        /\ \A i \in 1 .. Len(kbQueue) - 1 : kbQueue'[i] = kbQueue[i + 1]
        /\ UNCHANGED << held, caps, shiftOn, capsLock, hpc, raw >>
    BY <1>0, <1>3, Departure DEF Loaded, TypeOK
  <2> QED
    BY <1>0, <2>1 DEF Chained, PastRaw, PastData, Driver, Keyboard
<1>4. CASE ReadByHandler
  BY <1>0, <1>4 DEF ReadByHandler, Chained, PastRaw, PastData, Driver, Keyboard
<1>5. CASE Processed
  <2>1. Driver' = Modifiers(raw)
    BY <1>0, <1>5 DEF Processed, Chained, Follows, Driver, Modifiers, ShiftAfter, CapsAfter, IsShift
  <2> QED
    BY <1>0, <1>5, <2>1 DEF Processed, Chained, PastRaw, PastData, Driver, Keyboard
<1> QED
  BY <1>0, <1>1, <1>2, <1>3, <1>4, <1>5

(* kbProcessScancode translates with the modifiers of the byte's own       *)
(* stroke, for the chain starts at the driver's.                           *)
LEMMA TypedKept ==
  ASSUME Inv, Complete => Chained, ~lost => Edges, KeyAsTyped, [Next]_vars
  PROVE  KeyAsTyped'
<1> SUFFICES ASSUME hpc' = "eoi", call' # NoCall, ~lost',
                    raw'.code \notin {KB_SCANCODE_BACKSPACE, KB_SCANCODE_ENTER}
             PROVE  call'.key = IF raw'.shift \/ raw'.caps THEN asciiMapUpper[raw'.code]
                                                          ELSE asciiMapLower[raw'.code]
  BY DEF KeyAsTyped
<1>1. CASE kbProcessScancode
  <2>1. /\ hpc = "process" /\ raw' = raw /\ ~lost /\ call' = [key |-> KeyOf(raw), pressed |-> raw.down]
        /\ KeyOf(raw) # NoKey
    BY <1>1 DEF kbProcessScancode, Handler, kernelVars
  <2>2. Follows(raw, Driver)
    BY <2>1 DEF Chained, Edges
  <2>3. raw.code \notin ShiftKeys \cup {KB_SCANCODE_CAPS_LOCK, KB_SCANCODE_BACKSPACE, KB_SCANCODE_ENTER}
        /\ raw.down
    BY <2>1 DEF KeyOf
  <2>4. raw.shift = shiftOn /\ raw.caps = capsLock
    BY <2>2, <2>3 DEF Follows, IsShift, Driver
  <2>5. KeyOf(raw) = IF shiftOn \/ capsLock THEN asciiMapUpper[raw.code] ELSE asciiMapLower[raw.code]
    BY <2>3 DEF KeyOf
  <2> QED
    BY <2>1, <2>4, <2>5
<1>2. CASE ~kbProcessScancode
  <2>1. UNCHANGED << hpc, call, raw, lost >>
    BY <1>2 DEF Next, MainStep, initIDT, RegisterKbHandler, UnmaskRead, UnmaskWrite, DrainStatus, DrainDiscard,
       EnableScanning, kbRegisterKeyCallback, FinishInitShell, Main, TakeInterrupt, Interrupt, SpuriousInterrupt,
       Accept, HandlerStep, interruptHandler, kbReadScancode, kbSendEOI, Iretq, Handler, LoadByte, Press, Release,
       Send, RaiseIrq, Device, Idle, Wild, vars, cpuVars, kernelVars
  <2> QED
    BY <2>1 DEF KeyAsTyped
<1> QED
  BY <1>1, <1>2

(* The chain and what it is for, as an inductive invariant.                *)
LEMMA KeyInvInvariant == Spec /\ []OneShiftDown => [](Inv /\ KeyInv)
<1>1. Init => Inv /\ KeyInv
  <2> SUFFICES ASSUME Init PROVE KeyInv
    BY InitInv
  <2>1. /\ irr = {} /\ hpc = "none" /\ shiftOn = FALSE /\ capsLock = FALSE /\ kbQueue = << >> /\ Len(kbQueue) <= 0
        /\ caps = FALSE /\ lost = (held # {}) /\ call = NoCall
    BY DEF Init
  <2>2. ASSUME Complete PROVE Chained
    <3>1. held \cap ShiftKeys = {}
      BY <2>1, <2>2
    <3>2. obf = FALSE
      BY <2>1, <2>2, InitInv DEF Inv, TypeOK
    <3>3. ~Reading
      BY <2>1
    <3>4. PastData = Driver
      BY <3>2, <3>3 DEF PastData, PastRaw
    <3>5. Keyboard = Driver
      BY <2>1, <3>1 DEF Keyboard, Driver
    <3>6. Len(kbQueue) = 0
      BY <2>1, EmptySeq
    <3> QED
      BY <2>1, <3>2, <3>3, <3>4, <3>5, <3>6 DEF Chained
  <2> QED
    BY <2>1, <2>2 DEF KeyInv, Edges, KeyAsTyped
<1>2. Inv /\ KeyInv /\ OneShiftDown /\ [Next]_vars => (Inv /\ KeyInv)'
  <2> SUFFICES ASSUME Inv, KeyInv, OneShiftDown, [Next]_vars PROVE Inv' /\ KeyInv'
    OBVIOUS
  <2>1. Inv'
    BY NextInv
  <2>2. ~lost' => Edges'
    <3>1. lost' \in BOOLEAN
      BY <2>1 DEF Inv, TypeOK
    <3> QED
      BY <3>1, StepsOfBytes DEF KeyInv
  <2>3. Complete' => Chained'
    BY ChainKept DEF KeyInv
  <2>4. KeyAsTyped'
    BY TypedKept DEF KeyInv
  <2> QED
    BY <2>1, <2>2, <2>3, <2>4 DEF KeyInv
<1> QED
  BY <1>1, <1>2, PTL DEF Spec

(* As long as the two Shift keys are not down together and no byte has     *)
(* gone to another reader, every character the key callback is told of is  *)
(* the one the user saw when she struck the key, however late kbHandler    *)
(* handles its byte.                                                       *)
THEOREM CharactersAsTyped == Spec /\ []OneShiftDown => []KeyAsTyped
<1>1. Inv /\ KeyInv => KeyAsTyped
  BY DEF KeyInv
<1> QED
  BY <1>1, KeyInvInvariant, PTL
=============================================================================
