# skiOS in TLA+

skiOS is a 64-bit hobby kernel in C: Limine loads it, it sets up descriptor
tables and the interrupt controllers, takes the framebuffer, and runs a shell
that lives entirely in the keyboard interrupt.  The repository also holds the
kernel's `printf`, and the host program `limine` that the Makefile runs on
every disk image.  This directory models all of it, checks the models with TLC
and proves their main properties with TLAPS.

`PROJECT.json` is the index: the components, the TLC runs, which lines of the
source every definition stands for, the mutants each property is tried on, the
findings, the hazards and the theorems.

## The system

| Component | Source | State | Operations |
|---|---|---|---|
| Boot sequence | `src/src/kernel.c` | Limine's answers | `kmain`: checks, GDT, IDT, PMM, video, shell, `while(1)`; `halt` |
| Interrupt dispatch | `kernel.c`, `cpu/idt.c`, `asm.s` | IDT, `irqHandlers[16]` | entry stubs, `interruptHandler`, `irqRegisterHandler`, `irqDeregisterHandler` |
| GDT, PMM, port I/O | `cpu/gdt.c`, `memory/pmm.c`, `cpu/io.c` | descriptors, segment registers | `initGDT`, `loadGDT`, `initPMM`, `inb`, `outb`, `ioWait` |
| PIC driver | `drivers/pic.c` | the two 8259s: initialisation, masks, requests, in service | `picRemap`, `picMask`, `picUnmask`, `picSendEOI`, `picDisable`, `picGetIRR`, `picGetISR` |
| Keyboard driver | `drivers/keyboard.c`, `keymap.h` | `shiftOn`, `capsLock`, `keyCallback` | `kbHandler`, `initKb`, `disableKb`, registration of the callback |
| Shell | `shell.c` | input buffer and index, prompt, table of commands | `shellKeyCallback`, `parseAndExecuteCmd`, seven commands |
| Console | `drivers/video.c`, `ssfn.h` | framebuffer, pixel cursor, place of the drawn cursor, colours | `_putchar`, `drawRect`, `resetScreen` |
| Utilities | `util.c` | none | memory and string functions, `clamp`, `assert`, `halt` |
| printf | `include/printf.c` | none between calls | `printf`, `sprintf`, `snprintf`, `vprintf`, `vsnprintf`, `fctprintf` |
| Limine host tool | `include/limine/limine.c` | a block cache, the undo data | `bios-install` and its `--uninstall`, `enroll-config`, informative commands |

The kernel's parts interact by calls only.  A keystroke travels from the
keyboard's controller (a byte, an edge on IRQ 1) through the master PIC, the
CPU, the entry stub, `interruptHandler`, `kbHandler` and its callback
`shellKeyCallback`, which edits the input buffer, runs commands and prints
through `_putchar`; then the interrupt is acknowledged.  `kmain` goes on
underneath, with interrupts on from `initIDT`, so the two threads of control
share the PIC, the handler table, the callback, the table of commands and the
console.  The host tool is a program of its own; its counterpart is the device
it writes to, whose transfers may fail.

What is hard about it, and what makes each part correct:

* **Interrupts and boot.**  An IRQ may arrive between any two steps of `initKb`
  and `initShell`.  No interrupt may be left unacknowledged; a byte may not
  wait for an edge that has already been used up; the drain loop must end; the
  modifiers applied to a key must be those of the moment it was struck.
* **Initialisation.**  An exception may come when there is nothing to print on
  or no gate to go through; PICs, gates and descriptors have to be complete
  when interrupts come on, and masks lost in the reset have to be restored.
* **The input buffer.**  One index, one terminator, stale characters above the
  index, and a parser that writes into the buffer: what runs must be what was
  edited, and what is shown must be what runs.
* **Commands.**  Length checks in two functions, numbers narrowed before they
  are clamped, empty arguments; a refused command must change nothing.
* **The console.**  Unsigned subtraction in the clipping, nested calls of
  `_putchar` for wraps and tabs, backspace across lines, the bottom of the
  screen: one cursor, inside the screen, and only the text.
* **printf.**  Field, sign, prefix and zeros that compete for a width; the least
  number of each type; rounding; buffers that end anywhere.
* **The host tool.**  A write-back cache of one block over a device that fails:
  what fails must be undone through the same cache, and the partition table
  must come out whole, checksums included.

## The modules

**`Keymap`** - the two tables of `keymap.h`, as functions of the scancode.
Characters are strings that name them.

**`InterruptPath`** - the path of a keystroke and the boot it interrupts.
`mainPc` is where `kmain` is, `hpc` where the interrupt is; the gates are
interrupt gates, so a handler is not interrupted.  Devices: `Press`, `Release`
(the keyboard sends a byte), `LoadByte` (the 8042 takes it and raises the edge),
`RaiseIrq` (another device).  The PIC pair keeps masks, latched requests and
in-service bits with priorities and the cascade; reading the data port withdraws
a request that is still latched, or not, before or after INTR was seen, so
spurious interrupts occur.  kmain: one action for each port access or store that
an interrupt could come between (`initIDT`, `RegisterKbHandler`, `UnmaskRead`,
`UnmaskWrite`, `DrainStatus`, `DrainDiscard`, `EnableScanning`,
`kbRegisterKeyCallback`, `FinishInitShell`).  The interrupt: `Interrupt` or
`SpuriousInterrupt`, `interruptHandler`, `kbReadScancode`, `kbProcessScancode`,
`kbSendEOI`, `Iretq`.  A byte carries the modifiers of the keyboard at the
moment it was sent, as a history for `KeyAsTyped`.  `derailed` says that the
interrupt returned to code of kmain whose registers it had overwritten (the
entry stub saves `rdi` alone); the model stops there, and every property speaks
of what happens before.  `picRemap` is one step: interrupts are off.

**`Pic`** - the driver on its ports.  Each function is a sequence of port
accesses, executed one at a time by whoever calls it; each 8259 is a record with
the place it is at in its initialisation, its vector base, its three registers
and the one a read returns.  `Acknowledged` is what the pair answers to INTA.

**`Boot`** (EXTENDS `Pic`) - the kernel from its entry to its idle loop, over
every answer of the boot loader.  `stack` holds `kmain` and the handlers on top
of it, each with its place, the port accesses it still has to do and what it has
read; `ifl` is the interrupt flag.  A step is a port access, a call of an
initialiser, a store into the table of commands, an interrupt (`TakeInterrupt`,
`irq`, `iretq`) or an exception (`Fault`, `exception`).  An exception that prints
through a NULL framebuffer raises another one; past `StackFrames` of them the
machine is `"overrun"`.  As in `InterruptPath`, an interrupt's return may derail
the machine: unless the idle loop was interrupted, what it returns to may need a
register that the entry stub has not saved (`NeedsRegisters`).  `iretq` has both
outcomes, since which registers are live, and what the handler leaves in them, is
the compiler's choice; behind a derailed return the model stops.  From the idle
loop on, `DriverCall` calls the driver
functions that exist and that nothing calls yet.  What a keystroke goes through
is abstracted to its acknowledgement here: it is `InterruptPath`'s.

**`LineEditor`** - the abstract specification of the shell's input: a line that
grows and shrinks at its end, and is handed over when it is submitted.

**`ShellText`** - what the shell does to text: C strings in a buffer, the split
into arguments (a recursive function over the characters of the line), `tolower`
(`c | 32`), `stringToInt` kept to a byte, `clamp`.

**`Shell`** - `shellKeyCallback` as one action per call (it runs with interrupts
off): the keys, and under Enter the whole of `parseAndExecuteCmd` and the
command it runs.  Messages are one symbol each.  `shown` is the last line of the
console, as the printed characters leave it.  The input buffer is the array with
its stale cells, and the line that is parsed is read from it up to the first NUL.

**`Console`** - `_putchar`, `drawRect` and `ssfn_putc` on a framebuffer of
pixels that are background, ink or cursor, driven as the shell drives it.  A
glyph's ink is its top row; `"esc"` stands for the control characters, whose
glyphs are twice as wide in the font that is linked in.  `drawRect` computes in
unsigned words, and a rectangle that is outside after its clipping sets
`overrun`, after which nothing more is said.

**`Util`** - the functions of `util.c`, and the loop of `parseAndExecuteCmd` that
cuts a line up in place.  A behaviour is one call, a step one iteration; pointers
are addresses of one memory of `MemorySize` bytes, so operands may overlap.
`Allowed` is what C asks of the caller, and only such calls are made.  `INT_MAX`
is the last value of an int, where `stringToInt` wraps.

**`Printf`** - `_vsnprintf` and what it calls.  A step is an ordinary character
or a whole directive: flags, width, precision, length and conversion, with the
reversed conversion buffer, its limit, padding, sign and prefix.  The output
functions put the characters where they go, index included.  A double is a
fraction; the rounding of the product that yields the digits is kept (a parameter
gives the bits of the significand), other rounding is not.  `Characters` are the
values of a char.  Powers, `_atoi` and `Printed` are recursive
functions.

**`CLibrary`** - `Printf` and `Util` side by side, as the kernel links them:
neither calls the other and neither keeps state, so a behaviour is a call into
one.

**`BlockCache`** - the access of `limine.c` to a device: the cache of one block,
the block that is on its way in the stdio stream behind it (`pending`, `held`),
and the device.  An operation maps these to the set of its outcomes, failing
transfers included; a read that fails leaves junk in the cache.  The loops, over
the blocks of a transfer and over the sizes that `device_init` tries, are
recursive functions whose values are sets of outcomes.

**`EnrollConfig`** - the options of `enroll-config`, its search for the
signature and the checksum it puts behind it.  In `LimineTool` its file may fail
to open, to be read or to be written, and the writing may end after any cell,
with a failure or, when it is `fclose` that fails, without one.

**`LimineTool`** (EXTENDS both) - the commands.  The device is cut down to the
fields the program reads and writes, a cell each, in the order of a real disk.
One action is one transfer with what the program does with its result: probing
for a GPT, the second header, flags, first blocks and hints of file systems on an
MBR, the search for room behind the entries of a GPT, clearing, checksums and
headers, the boot sector, the commit; then the cleanup, the undo entries, and
their file.  A division by an entry size of 0, which a header may have, kills the
program (`Killed`).  The data file carries, as a history, the device before the
installation it is of; `UninstallRestores` compares with that, provided nothing
changed in between outside the places which that installation wrote.

**`MCInterruptPath`, `MCBoot`, `MCShell`, `MCConsole`, `MCLibrary`,
`MCLimineTool`** - constants of the TLC runs.

**`InterruptPathProofs`, `BootProofs`, `ShellProofs`, `ConsoleProofs`,
`UtilProofs`, `PrintfProofs`, `LimineToolProofs`** - theorems and proofs.
`SequenceProofs` holds the lemmas several of them need: induction, `FlattenSeq`,
`Min` and `Max` of finite sets, functions defined by recursion, and the recursion
by which a text is split.

## The runs

| Run | Bounds | States | Shows |
|---|---|---|---|
| `interrupt_safety` | keys `a`, Left Shift, Caps Lock; 3 bytes; timer raising its masked line | 2,958,036 | `TypeOK`, `InServiceMatchesHandler` (no IRQ left in service), `NoLostWakeup`, `KeyAsTyped` |
| `interrupt_liveness` | the two Shift keys; 3 bytes | 393,680 | `ShiftNeverSticks`, and under fairness `BytesConsumed`, `BootCompletes` |
| `boot` | 18 answers of the boot loader, 2 sets of masks; 3 interrupts from IRQ 0, 1, 9; 1 exception; 2 driver calls of 8; 3 commands for 2 places; 4 stack frames | 263,024 | tables complete and masks restored when interrupts come on, acknowledgement, the table of commands, exceptions, and under fairness `BootsWhenAnswered` |
| `shell` | buffer of 8, prompt buffer of 4; `F`, `0` and space; names made of the two | 501,215 | `TypeOK`, `LineShown`, `PromptWellFormed`, `RefusedChangesNothing`, and the shell implements `LineEditor` |
| `console_text` | 3 x 3 glyphs of 2 x 2 pixels and a spare row; 10 characters on a line | 22,858 | `TypeOK`, `NoOverrun`, `NoStrayCursor`, `ScreenShowsText` |
| `library` | printf: 12 sets of flags, 7 widths, 6 precisions, 6 lengths, integers of 3 to 8 bits, conversion buffers of 6 and 8; whole formats with every count to 11. util: memory of 5 cells over 4 bytes, every call C allows | 1,162,512 | printf against the C standard (`IntegerIsStandard`, `FloatIsNearest`, `FieldFilled`) and the end of the buffer (`TextOrItsBeginning`); util against the C standard (`CopiesComeOutWhole`, `AnswersAreRight`) and `ShellText` (`SplitsAsShellText`) |
| `limine_install` | MBR disks with 2 partitions, GPT disks with up to 6 entries, also of size 0, and blocks of two sizes; 2 commands; 2 failing transfers; every executable of 8 cells over 3 bytes | 547,344 | `CacheCoherent`, `LoaderFindsStage2`, `PartitionsKept`, `FailedInstallUndone`, `UninstallRestores`, `EnrolledBehindSignature` |

The other five runs are under Findings.

Why the bounds are enough.

* *Interrupts.*  Three bytes are a Shift, a letter and the release, or a Caps
  Lock struck twice, or one Shift key released over the other, at every point of
  the boot, and the acknowledgement of the keyboard comes on top; one byte may be
  in the buffer before the boot.
* *Boot.*  The raised lines are one below the keyboard's, its own and one of the
  slave, which is delivered once `picUnmask` has opened it and line 2 of the
  master; of three interrupts one may stay unacknowledged under two others.
  Commands overfill the table by one.
* *Shell.*  Seven characters hold a command with three arguments (`f 0 0 0`) and
  fill the buffer; a prompt of one or two characters is accepted, a longer one
  refused.  Of the two checks it is always the one against the prompt's buffer
  that refuses: with a buffer of 8, `PromptTooLong` is never met first.  The
  theorems about `PromptWellFormed` and `RefusedChangesNothing` are for all sizes,
  so for those in which it is.
* *Console.*  It wraps every three characters, has an erasure across each end of
  line, and runs past its last row within one line of ten.
* *Library.*  What is hard happens where a numeral meets its width, its
  precision, the end of its type or the end of a buffer; types of 3 to 8 bits and
  a buffer of 6 characters put all of these within reach of the same calls.  The
  doubles have 14 bits and include 0.15 and 0.95, whose products with ten are
  rounded to a tie, as those of their 53-bit originals are.  Two
  areas of up to five cells overlap in either direction, by one cell and by all.
* *Limine.*  The undo data hold 24 writes, fewer than the longest installation
  needs, so that their limit is reached; a disk block is one or two sectors, so
  that a transfer starts, ends and crosses blocks within the cache; an
  installation followed by an uninstallation, or by another installation, is two
  commands.

Deadlock is checked except in the runs of `MCLibrary` and `MCLimineTool`: a
behaviour of the first is one call, which ends, and of the second a bounded
number of commands.  `Idle` and `Rest` keep `kmain`'s `while(1)`, and a machine
that was halted, from counting as one.

Fairness.  `interrupt_liveness` and `interrupt_derail`: the CPU executes, the PIC
delivers a request it may deliver, and the controller loads a byte it can load;
the user is under no obligation.  `boot`: the CPU executes, and takes an
interrupt that is pending.  Each is a physical process that does not stop; no
device has to do anything.

## Findings

Five runs look for a violation of what the code says of itself, and find it.
Their bounds are those of the passing runs or smaller.

* `interrupt_derail`: an IRQ during `initKb` or `initShell` may make `kmain`
  never finish them: `isrNoErrStub` preserves `rdi` and no other register that
  the C function it calls may overwrite (`asm.s:18`).
* `boot_gates`: `initIDT` sets gates for 16 IRQs at vectors 32 to 47, but has
  remapped the slave's to 48 to 55, so that IRQ 8 to 15 have none (`idt.c:109`).
* `console_esc`: Escape in the last column takes the cursor off the screen, where
  the clipping of `drawRect` wraps around (`video.c:74`).
* `printf_rollover`: rounding a tie up is a carry that is not handled as one;
  `printf("%.1f", 0.95)` fills the conversion buffer with zeros (`printf.c:400`).
* `limine_undo`: a write that fails behind its first block is not among those
  that are undone (`limine.c:495`).

More that the models have as the code does it, without a run of its own:

* The assertion that is to ensure a memory map joins its halves with an or: it
  accepts a map without entries, and reads the count of one that is missing
  (`pmm.c:6`).
* `printf`'s branch for numbers that are halfway (`printf.c:398`) is taken for
  others too, because the product it looks at has been rounded: with `%.1f` 0.15,
  whose double is below 0.15, becomes 0.2.  `FloatIsNearest` allows for that by
  name (`Tied`).
* The empty line is an argument of its own, so the silent return for it is never
  taken and "Unknown command" is printed (`shell.c:119`); a trailing space counts
  as a colour value (`shell.c:25`); a value of 300 becomes 44 before it is
  clamped (`shell.c:31`).
* The two Shift keys share one flag: with both down, letting go of one makes the
  other a key that does nothing (`keyboard.c`, `kbHandler`).  It takes four bytes,
  one more than `interrupt_safety` has; `CharactersAsTyped` excludes it by name.
* On a background of colour 0 the cursor that a wrap has drawn stays on the
  screen (`video.c:133`): `console_text` has backgrounds other than 0.  A width
  that is no multiple of 8 leaves part of a character after a backspace across a
  line (`video.c:123`).  A newline in the last row leaves the cursor below the
  screen, which is cleared only by the next character (`video.c:105`);
  `CursorInside` allows for it.
* A Caps Lock key that is held repeats its make code, and each one toggles
  (`keyboard.c:71`).
* A line without a handler is never acknowledged (`kernel.c:100`), and the slave's
  have no gate either: harmless only as long as the boot loader leaves every line
  masked, which `ReadyForInterrupts` is about (its part `MasksRestored`).
* The entry stubs of exceptions neither take the error code off the stack nor
  know all the exceptions that push one; `ExceptionsAreFinal` is why that does no
  harm.
* The option `--uninstall-data-file=` is compared, and cut off, at 21 of its 22
  characters, so that the file's name begins with the `=` and is empty only without
  it (`limine.c:620`).
* `util.c` departs from the C standard: `strchr` does not find the terminator,
  `strncpy` does not pad (`CopiesComeOutWhole` excepts the cells it leaves,
  `InPadding`), `tolower` is `c | 32` for every character.
* `printf` departs from it too: with `#` a numeral that fills its field loses
  digits, `-` makes the precision forgotten, and the prefixes of octal and binary
  are one character off next to a precision or zeros.  `Departs` in `Printf`
  names these cases, and `IntegerIsStandard` holds in all the others.

## What is proved

For every value of the constants under their named assumptions, and what each
theorem says besides:

**`InterruptPathProofs`.**  `TypeCorrect`, `NoIrqLeftInService` and
`NoByteWithoutEdge` rest on an invariant that ties the PIC to the two program
counters: the lines other than the keyboard's stay masked (because `picRemap`
writes back what the boot loader left), the keyboard's is masked until its handler
is registered, `value` holds the mask that `picUnmask` has read and no handler
changes masks in between, and, once the drain loop has seen an empty buffer, a
full buffer has its edge latched or its handler on the way to the read.

`NoStickyShift` and `CharactersAsTyped` follow a byte from the keyboard to the
driver.  `Edges` says that a latched edge and the byte it stands for go together;
`ReleaseOnItsWay`, that when no Shift key is held the last Shift byte still on its
way is a release, or there is none and the driver's flag is off; `Chained`, that
every byte carries the modifiers that the byte before it left, from the driver's
own state through the output buffer and the queue up to the keyboard's.  The
second theorem is about the behaviours in which the two Shift keys are never down
at once (`OneShiftDown`): they share one flag in the driver.

**`BootProofs`.**  The invariant has a part for each thing that must be in place:
`Shape` (the stack is `kmain`, at most one IRQ handler on it, exceptions on top),
`Setup` (before `lidt`, `picRemap` is at its k-th port access and both chips and
the saved masks are what k accesses make of them), `Tables`, `Ready` (behind
`lidt` no access that is left to do starts an initialisation again), `MasksKept`
(`picUnmask` between its read and its write), `Keyboard` (a line in service with a
handler has that handler on the stack with its EOI to come), `Video` and
`Registered` (the table of commands against the number registered).  From it come
`BootTypes`, `InterruptsOverCompleteTables`, `HandlersAcknowledge`,
`EveryCommandComplete`, `NoOverrunBehindVideo` and `NoExceptionReturns`: every
safety property of the run `boot`.  `EveryCommandComplete` is about a `kmain` that
no interrupt has derailed.  `GatesSuffice` says what is left of the property that
the run `boot_gates` violates: the gates suffice for every exception and every
line of the master, and a missing one is one of the slave's.

**`ShellProofs`.**  `IndexInBounds` and `ShellImplementsLineEditor`, for every
buffer size, alphabet and table of commands.  The invariant is that below the
index there are typed characters only, so the terminator is the first NUL and the
C string is the prefix; every key then maps to a step of `LineEditor`.  `ShellInv`
adds the settings, what is shown and what was printed, and gives `ShellTypes`,
`WhatIsShownIsRun`, `PromptStaysWellFormed` and `RefusalsChangeNothing`: every
property of the run `shell`.  On the way each command is shown to end its output
with a newline or a clearing of the screen, so that the prompt starts a line, and
arguments joined for a prompt to be text that starts with the first of them.

**`ConsoleProofs`.**  `NeverOverruns`, `CursorStaysInside` and `ConsoleTypes`, for
every framebuffer that holds a glyph and every glyph size, if no typed glyph is
wider than the driver believes (the finding `console_esc` shows that this is
needed): the cursor, and the place it was last drawn, are in `0..W` x `0..H`, and
there the subtraction of the clipping is exact.  `OneCursorAtMost`, in front of
backgrounds other than 0: a bar on the screen is the driver's own, or its place is
repainted.  `ScreenIsText`, on a screen a whole number of glyphs wide: `TextInv`
has each character of the line in its place (`Placed`: a run of cells that wraps
at the right edge, broken where the screen was cleared), so the ink is that of the
text, and a backspace goes back to the cell it erases.

**`UtilProofs`**, for every size and content of the memory and every call C allows.
`CopiesAreWhole`: after n rounds of its loop a function has copied exactly the
first n bytes (`memmove` the last n, when it goes backwards), so no byte is read
after it was overwritten; of `strncpy` it says that the cells it should pad are as
they were.  `AnswersCorrect`: what the loops that only look have
seen so far (`Seen`), and the value of the digits so far (`NumberInv`).
`SplitInPlace`: the part of the line that is cut up holds the arguments of its
text, and the rest is as it was (`CutUp`), so at the end they are those of
`Split`, by which `Shell` parses.  `LibraryTypesHold` is `LibraryTypeOK` for both
halves of `CLibrary`: a loop over a string has passed no NUL, and a call that C
allows has one in the memory, so the counter of every loop stays within
`MemorySize` (`CounterBounded`); the printf half is `PrintfProofs`'.

**`PrintfProofs`.**  The theorems are about calls whose arguments fit (`ArgumentsFit`): the format
is a string, its directives are complete, and each finds arguments of the types it
asks for - what C demands of every caller, a hypothesis about the behaviour, which
all calls of the run `library` meet.  `TypesHold`: the parser never leaves the
format, the index counts what was put out, and whatever is put out is text.
`FieldsFilled` is `FieldFilled` for every flag, width, precision and buffer size.
Both follow the code from the inside out: a power outgrows its exponent
(`PowerGrows`), so a number has a last digit and a double a binary exponent; each
function, from `_ntoa_format` to `_etoa`, has a lemma that says its text is made of
characters and how long it is at least; a directive is read by induction over the
format (`AtoiIs`, `NumberIs`), which never goes past the NUL.  Only the conversion
`%p` and the exceptions that `FieldFilled` names may fall short of the width.

`IntegersAreStandard` goes from these lengths to the characters: every integer
conversion, of every type, base, argument, width and precision, prints the text of
the C standard.  The standard's text is written down from its first digit, and the
code works from the last one, so the two meet in the digits of a number
(`DigitsOfIs`: the digits that `_ntoa_long` writes, read from their end behind the
zeros of the precision, are those of the numeral).  `FormatIs` does the same for
all of `_ntoa_format`: what the code puts in the buffer behind the digits, reversed,
is padding, sign, prefix and zeros of the standard's field (`Formats` lists what it
asks for: that `#` takes no digits off, that `-` forgets no precision).  `FitsIs`
says what the standard's text takes of the conversion buffer, so the hypothesis that
it fits is enough for every loop that fills it.
`BufferHoldsText` adds what is in front of the count: the whole text or its
beginning, the terminator, and nothing behind it, and the length of the whole text
as the result.  It has one hypothesis more: the buffer is as large as the caller
says (`BufferIsLargeEnough`), which holds in the run as well.

**`LimineToolProofs`.**  `EnrollsWhereSigned`, for every executable, signature and
size of checksum: after character i the search knows how much of the signature
stands in front of the next one, although it does not go back on a mismatch; so
what `enroll-config` overwrites is right behind a whole signature and inside the
file, wherever the writing of the file ends.

The rest of it is about `bios-install`, for every content of the device (whatever
its tables say), all options, block sizes, limits of the undo data and failing
transfers: `TypesHold`, `CacheStaysCoherent`, `FailedInstallIsUndone` and
`UninstallRestoresDisk`.  A device has two contents: its `Stream`, what it will
hold when the stream is emptied, and its `View`, what the program would read, which
is the dirty block in front of the stream.  The lemmas about `BlockCache` say what
each operation makes of the two: moving blocks between cache, stream and device
(`Moved`) leaves the view alone and lets the stream take over parts of it only; a
transfer of several blocks reads or changes the view on exactly its range, or, when
it fails, on the beginning of it (`TransferReaches`, by induction over the blocks).

The invariant `IInv` follows the program in phases.  While it works on the device
(`Prepared`), view and stream have the contents from before it except in places
that an entry of the undo data covers, and of the entries that cover a place the
first one holds what was there (`FirstHolds`): later entries may have saved what
this very installation wrote.  `cleanup` turns the entries around, so now it is the
last one that holds it (`Turning`, `LastHolds`), which is why they have to be undone
in that order: at entry i (`Reverting`), every place that no entry from i on covers
has its old contents back.  With the last entry gone the view is the old device,
and with the cache flushed so is the stream (`Closing`).  A failing write counts as
undone only if it changed nothing (`torn`), and nothing is claimed when undoing
fails itself.  The data file holds the entries turned around, with the device they
lead back to, so an uninstallation is the same argument from `load` on (`FileOK`,
`Fits`).  `IInv` was checked by TLC before it was proved.

Induction over data goes through sets: `SetInduction` (a set that holds 0 and n + 1
with every n holds every natural) is proved from the library's well-foundedness of
strict subsets, and with it that a function defined by recursion over `0 .. n`
exists, which its defining equation then follows from.

`LoaderFindsItsStage2` is about the installation that reports success: the boot
sector is the loader's, the two places it names hold stage 2 whole, and the
timestamp, the identity and the first blocks of the partitions are what they were,
with the flags as they were on a GPT and an active one on an MBR.  The invariant is `IInv /\ LInv`.  `LInv` says what the view holds
at each place of the program (`Sees`): on an MBR the sector but for the flags, of
which those up to `i` have been looked at (`Flagged`, `Bootable`); on a GPT the
first block as it was, and after `embed` that the halves of stage 2 have room for
themselves (`Room`); from `save` on what has been saved of the boot sector, and
between the nine writes of `install` what each of them has left (`Written`), which
the later ones must not touch.  After the last one it is the stream, and then the
disk, that holds all of it (`Stands`).

The theorem has two hypotheses.  Stage 2 is a sector at least (`STAGE2_SIZE >=
SECTOR`), as it is: otherwise its first half, which is rounded up to sectors, would
be longer than stage 2.  And `Apart(r)`, which holds of every MBR disk, and says of a
GPT what every well-formed one satisfies: its logical block is no smaller than the
boot sector, its arrays, second header and the partition for stage 2 are behind
block 0, an entry is a block at most, and the second array is behind the first.
The program reads these from the device and checks almost none of them, so on a GPT
that breaks them stage 2 is written over the boot sector or over its own first half.
`LInv` was checked by TLC too, on the states of the run `limine_install`, in which
GPT installations of both kinds under `Apart` are reached.

Only model-checked:

* Liveness: `BytesConsumed`, `BootCompletes`, `BootsWhenAnswered`.  The prover has
  no support for it under fairness.
* Which number a floating-point conversion prints (`FloatIsNearest`: one of the two
  around its argument, and the nearer one but for rounded ties).  That needs
  the arithmetic of rounding at a power of ten, division and multiplication of
  unknowns, of which the provers know little.  What is proved of these conversions
  is that they yield text, and of which length.
* `PartitionsKept` of `LimineTool`.  It does not hold for every content of a device:
  the program believes the tables it finds, and a GPT whose arrays, partitions and
  headers overlap is overwritten as they do.  It holds for the disks of the run,
  which are well formed.
* `LoaderFindsStage2` on a GPT that breaks `Apart`, as those that are well formed
  do not.

## What is assumed

* The boot loader leaves every PIC line masked (`BootMask` in `InterruptPath`, and
  `Answered` in `Boot`, which also has a boot loader that leaves the timer open).
  The theorems about `Boot` need the keyboard's line only.
* In `BootsWhenAnswered`: no code of the kernel faults, and no interrupt derails
  `kmain`.  With every line masked only the keyboard's can, so without a key the
  loop is reached whatever the devices do.  `ReadyForInterrupts`, too, speaks of
  the mask a `picUnmask` writes only where no interrupt has derailed it between its
  `in` and its `out`.
* In `Boot`: line 2 of the master is the slave's and no device raises it; the
  segments that are loaded are present, so that only a missing gate raises #NP;
  two commands or more are registered (`initVideo` one, `initShell` the rest); the
  stack has room for an interrupt and the exceptions on top of it.
* In `Shell`: the names of the commands and the default prompt are text, and the
  default prompt is well formed and fits (`NamesAssumption`, `DefaultsAssumption`).
* In `Console`: a word is wider than the screen and a glyph together.
* In `Printf`: no buffer is larger than a `size_t` can say; the characters that
  `printf` writes itself are characters; the conversion buffer for integers has
  four places or more (the code's default is 32), so that an exponent fits.
* In `LimineTool`: a device is a sequence of cells, with addresses from 0 on, and a
  cell holds a number; an executable is no shorter than the signature and a
  checksum (the program's `size_t` would wrap in front of the search).
* The build has no optimisation level, so stores happen in program order.
* The shell is modelled from the end of `initShell` on, with the prompt on the
  console.
* Callers of `util.c` and of `printf` keep to what C asks of them: `Allowed`,
  `ArgumentsFit` and `BufferIsLargeEnough`.

## Not modelled

* The prefix `0xE0` of the extended keys and the false Shifts some of them send:
  a scancode is one byte.
* Two writers in `_putchar`: `kmain` prints the prompt with interrupts on, and an
  echo may come in the middle of it.  Nor a typed tab (four cells of the screen)
  against one backspace, which needs Shell and Console together.
* Registers beyond what `derailed` says of them, and what a derailed machine does.
* The parts of `ssfn.h` that the kernel does not compile in: the file is four
  renderers, of which `SSFN_CONSOLEBITMAP_TRUECOLOR` is selected.
* `limine.h` and `limine-bios-hdd.h`: declarations and a binary image, with no
  behaviour.  The byte order of the host, the size of a device that is not a
  file, and the texts of messages of `limine.c`.
* Precisions above those of the model's fractions (the table of powers of ten in
  `printf.c` ends at nine), and locale, which there is none of.

## What is left to do

1. `System`: Shell over Console, for the tab against the backspace, and the two
   writers in `_putchar`.
2. A refinement from `Pic` to the whole operations of `InterruptPath`.
3. `PartitionsKept` for every well-formed disk.
