-------------------------------- MODULE Pic --------------------------------
(***************************************************************************)
(* The PIC driver (drivers/pic.c) on its ports: what each of its functions *)
(* writes and reads, in order, and what the two 8259s make of it.  A       *)
(* function of the driver is a sequence of port accesses, so that a caller *)
(* can execute it one access at a time.                                    *)
(***************************************************************************)
EXTENDS Naturals, Sequences, FiniteSets, FiniteSetsExt

Chips == {"MASTER", "SLAVE"}
Lines == 0 .. 7

(* An 8259: where it is in its initialisation, the vector of its line 0,   *)
(* its registers, and the one that a read of its command port returns.     *)
Chip == [step : {"ready", "ICW2", "ICW3", "ICW4"}, offset : Nat,
         mask : SUBSET Lines, irr : SUBSET Lines, isr : SUBSET Lines, reads : {"irr", "isr"}]

(* An access: "in" saves what it reads, "out" writes a value, which may be *)
(* one that was saved, with a line added to it or taken out of it.         *)
In(chip, port) == [op |-> "in", chip |-> chip, port |-> port, value |-> <<"NONE">>]
Out(chip, port, value) == [op |-> "out", chip |-> chip, port |-> port, value |-> value]

Value(v, saved) ==
  CASE v[1] = "SAVED" -> <<"MASK", saved[v[2]]>>
    [] v[1] = "SAVED_WITH" -> <<"MASK", saved[1] \cup {v[2]}>>
    [] v[1] = "SAVED_WITHOUT" -> <<"MASK", saved[1] \ {v[2]}>>
    [] OTHER -> v

(* The 8259.  A command port takes the first initialisation word, which    *)
(* clears the registers, the end of interrupt, and the choice of a         *)
(* register to read; a data port takes the other three words in order and  *)
(* then the mask.                                                          *)
Command(c, v) ==
  CASE v[1] = "ICW1" -> [c EXCEPT !.step = "ICW2", !.mask = {}, !.irr = {}, !.isr = {}]
    [] v[1] = "PIC_OCW2_EOI" -> [c EXCEPT !.isr = IF @ = {} THEN @ ELSE @ \ {Min(@)}]
    [] v[1] = "PIC_OCW3_READ" -> [c EXCEPT !.reads = v[2]]

Data(c, v) ==
  CASE c.step = "ICW2" -> [c EXCEPT !.step = "ICW3", !.offset = v[2]]
    [] c.step = "ICW3" -> [c EXCEPT !.step = "ICW4"]
    [] c.step = "ICW4" -> [c EXCEPT !.step = "ready"]
    [] c.step = "ready" -> [c EXCEPT !.mask = v[2]]

Written(c, port, v) == IF port = "CMD" THEN Command(c, v) ELSE Data(c, v)
ReadFrom(c, port) == IF port = "CMD" THEN c[c.reads] ELSE c.mask

(* The lines a chip asks for; the master's line 2 is the slave.            *)
Asks(c) == IF c.step = "ready" THEN {n \in c.irr \ c.mask : \A m \in c.isr : n < m} ELSE {}
MasterAsks(master, slave) ==
  Asks([master EXCEPT !.irr = @ \cup (IF Asks(slave) = {} THEN {} ELSE {2})])

(* The CPU acknowledges the most urgent request: its vector, and the chips *)
(* with that line in service.                                              *)
InService(c, n) == [c EXCEPT !.irr = @ \ {n}, !.isr = @ \cup {n}]
Acknowledged(chips) ==
  LET n == Min(MasterAsks(chips["MASTER"], chips["SLAVE"]))
      m == Min(Asks(chips["SLAVE"]))
  IN IF n # 2
     THEN [vector |-> chips["MASTER"].offset + n,
           chips |-> [chips EXCEPT !["MASTER"] = InService(@, n)]]
     ELSE [vector |-> chips["SLAVE"].offset + m,
           chips |-> [chips EXCEPT !["MASTER"] = InService(@, 2), !["SLAVE"] = InService(@, m)]]
-----------------------------------------------------------------------------
(* The driver.                                                             *)

Unsaved_picRemap(offset1, offset2) ==
  <<Out("MASTER", "CMD", <<"ICW1">>), Out("SLAVE", "CMD", <<"ICW1">>),
    Out("MASTER", "DATA", <<"OFFSET", offset1>>), Out("SLAVE", "DATA", <<"OFFSET", offset2>>),
    Out("MASTER", "DATA", <<"WIRING", 4>>), Out("SLAVE", "DATA", <<"WIRING", 2>>),
    Out("MASTER", "DATA", <<"ICW4_8086">>), Out("SLAVE", "DATA", <<"ICW4_8086">>)>>
Hasty_picRemap(offset1, offset2) ==
  <<In("MASTER", "DATA"), In("SLAVE", "DATA"),
    Out("MASTER", "CMD", <<"ICW1">>), Out("SLAVE", "CMD", <<"ICW1">>),
    Out("MASTER", "DATA", <<"OFFSET", offset1>>), Out("SLAVE", "DATA", <<"OFFSET", offset2>>),
    Out("MASTER", "DATA", <<"WIRING", 4>>), Out("SLAVE", "DATA", <<"WIRING", 2>>),
    Out("MASTER", "DATA", <<"SAVED", 1>>), Out("SLAVE", "DATA", <<"SAVED", 2>>)>>
picRemap(offset1, offset2) ==
  <<In("MASTER", "DATA"), In("SLAVE", "DATA"),
    Out("MASTER", "CMD", <<"ICW1">>), Out("SLAVE", "CMD", <<"ICW1">>),
    Out("MASTER", "DATA", <<"OFFSET", offset1>>), Out("SLAVE", "DATA", <<"OFFSET", offset2>>),
    Out("MASTER", "DATA", <<"WIRING", 4>>), Out("SLAVE", "DATA", <<"WIRING", 2>>),
    Out("MASTER", "DATA", <<"ICW4_8086">>), Out("SLAVE", "DATA", <<"ICW4_8086">>),
    Out("MASTER", "DATA", <<"SAVED", 1>>), Out("SLAVE", "DATA", <<"SAVED", 2>>)>>

ChipOf(irqNum) == IF irqNum < 8 THEN "MASTER" ELSE "SLAVE"
LineOf(irqNum) == IF irqNum < 8 THEN irqNum ELSE irqNum - 8

picMask(irqNum) == <<In(ChipOf(irqNum), "DATA"),
                     Out(ChipOf(irqNum), "DATA", <<"SAVED_WITH", LineOf(irqNum)>>)>>
picUnmask(irqNum) == <<In(ChipOf(irqNum), "DATA"),
                       Out(ChipOf(irqNum), "DATA", <<"SAVED_WITHOUT", LineOf(irqNum)>>)>>

(* Both registers of the pair; the slave's is the upper half of the value. *)
picGetIrqReg(ocw3) ==
  <<Out("MASTER", "CMD", <<"PIC_OCW3_READ", ocw3>>), Out("SLAVE", "CMD", <<"PIC_OCW3_READ", ocw3>>),
    In("SLAVE", "CMD"), In("MASTER", "CMD")>>
picGetIRR == picGetIrqReg("irr")
picGetISR == picGetIrqReg("isr")

NotSent_picSendEOI(irqNum) == <<>>
picSendEOI(irqNum) ==
  (IF irqNum >= 8 THEN <<Out("SLAVE", "CMD", <<"PIC_OCW2_EOI">>)>> ELSE <<>>)
    \o <<Out("MASTER", "CMD", <<"PIC_OCW2_EOI">>)>>

picDisable == <<Out("MASTER", "DATA", <<"MASK", Lines>>), Out("SLAVE", "DATA", <<"MASK", Lines>>)>>
=============================================================================
