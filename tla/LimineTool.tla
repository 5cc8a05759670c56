----------------------------- MODULE LimineTool ------------------------------
(***************************************************************************)
(* The host tool `limine`.  Its command bios-install, which the Makefile   *)
(* runs on every image, finds out how the device is partitioned, writes    *)
(* the boot sector and the two halves of stage 2, and undoes its work when *)
(* a step fails or, with --uninstall, later.                               *)
(*                                                                         *)
(* The device is cut down to the fields the program reads and writes, one  *)
(* cell each, in the order they have on a disk; whatever spans several     *)
(* fields (a sector, a header, an array of entries) spans their cells.     *)
(* One action is one transfer with what the program does with its result.  *)
(***************************************************************************)
EXTENDS BlockCache, EnrollConfig

CONSTANTS
  Disks,                \* the devices a command may be run on
  Commands,             \* BOUND: the argument lists
  MaxRuns,              \* BOUND: how many commands are run
  Partitions,           \* BOUND: the entries of the MBR (4 in the code)
  ARRAY_LBAS,           \* what the program takes for the size of a GPT array (32)
  STAGE2_SIZE,          \* cells of stage 2
  LbSizes,              \* the guesses for the size of a logical block, in cells
  UNINSTALL_DATA_MAX,
  Executables,          \* the files a checksum is enrolled in
  EnrollCommands,       \* BOUND: the argument lists of enroll-config
  SpareDisk             \* BOUND: the device that is there when enroll-config is run

ASSUME LimineToolAssumption ==
  /\ MaxRuns \in Nat /\ Partitions \in Nat \ {0} /\ ARRAY_LBAS \in Nat
  /\ STAGE2_SIZE \in Nat \ {0} /\ UNINSTALL_DATA_MAX \in Nat
  /\ LbSizes \in Seq(Nat \ {0}) /\ SpareDisk \in Disks
  /\ \A disk \in Disks : disk \in [DOMAIN disk -> Nat] /\ \A a \in DOMAIN disk : a \in Nat /\ 0 .. a \subseteq DOMAIN disk
  /\ Executables \subseteq Seq(Nat)
  /\ \A file \in Executables : Len(file) >= Len(SIGNATURE_B2SUM) + SUM_SIZE

(* The first sector: file system names at 3, 54 and 82, the timestamp at   *)
(* 218, the place of stage 2 at 0x1a4, the disk's identity at 440, an      *)
(* active flag for each partition and the rest of its entry: 0 when its    *)
(* type says it is unused, and 1 more than its first block otherwise.      *)
OEM == 1
FAT16 == 2
FAT32 == 3
STAMP == 4
PARAMS == 5
DISK_ID == 9
Flag(p)  == DISK_ID + 2 * p - 1
Start(p) == DISK_ID + 2 * p
TABLE_SIZE == 1 + 2 * Partitions
SECTOR == DISK_ID + TABLE_SIZE + 1
EXT == 2 * SECTOR + 3                 \* byte 1080, in the third sector

(* A GPT header and an entry of the array, by the offsets of their fields. *)
SIGNATURE == 0
ALTERNATE == 1
ENTRY_LBA == 2
COUNT == 3
ENTRY_SIZE == 4
ARRAY_CRC == 5
HEADER_CRC == 6
HEADER_SIZE == 7

EFI_PART == 301
ECHFS == 302
NTFS == 303
FAT == 304
EXT2 == 305
Image(k) == 500 + k                   \* the boot sector, then stage 2

(* crc32: the remainder over all the cells, in their order.                *)
crc32(cells) ==
  LET ret[k \in 0 .. Len(cells)] == IF k = 0 THEN 0 ELSE (31 * ret[k - 1] + cells[k] + 1) % 10007
  IN  1000 + ret[Len(cells)]

VARIABLES
  pc,
  dev,        \* the device and the way to it (BlockCache)
  undo,       \* uninstall_data, up to uninstall_data_i
  udfile,     \* the uninstall data file: its count, its entries, and (history) the device before that run
  r,          \* what the options and the device have said so far
  exit,       \* the exit status
  runs,
  original,   \* the device before any command
  before,     \* the device before this command
  torn,       \* the write that failed had changed a part of its range
  unwritten,  \* fclose could not write what was left in the stream
  enrolled    \* << the executable before, the executable after >> enroll-config, or << >>

vars == << pc, dev, undo, udfile, r, exit, runs, original, before, torn, unwritten, enrolled >>

NoFile == [n |-> 0, entries |-> << << >> >>, of |-> << >>]
Nothing ==
  [uninstall |-> FALSE, file |-> FALSE, force |-> FALSE, part |-> {}, lb |-> 0, gpt |-> FALSE, mbr |-> TRUE,
   active |-> FALSE, i |-> 1, header |-> << >>, second |-> << >>, used |-> -1, count |-> 0,
   flag |-> 0, a |-> 0, b |-> 0, stamp |-> << >>, table |-> << >>, failed |-> FALSE]

Init ==
  /\ original \in Disks /\ before = original
  /\ dev = Opened(original, 0)
  /\ pc = "shell" /\ undo = << >> /\ udfile = NoFile /\ r = Nothing /\ exit = "none"
  /\ runs = 0 /\ torn = FALSE /\ unwritten = FALSE /\ enrolled = << >>
-----------------------------------------------------------------------------
(***************************************************************************)
(* Steps.  Everything a step does not name stays.                          *)
(***************************************************************************)
Process == UNCHANGED << runs, original, before, enrolled >>
Only(to, next) == pc' = to /\ r' = next /\ UNCHANGED exit
Skip(to, next) == Only(to, next) /\ Process /\ UNCHANGED << dev, undo, udfile, torn, unwritten >>

(* goto cleanup with ok still EXIT_FAILURE.                                *)
Abort == pc' = "cleanup" /\ exit' = "failure" /\ r' = r

(* device_read(...), and what is done with the cells read.                 *)
Read(loc, count, Use(_)) ==
  /\ \E o \in device_read(dev, loc, count) :
       dev' = o.dev /\ IF o.ok THEN Use(o.data) ELSE Abort
  /\ Process /\ UNCHANGED << undo, udfile, torn, unwritten >>

(* device_write(...): what is there is saved first, and counts only when   *)
(* the write has succeeded.                                                *)
Unsaved_device_write(loc, cells, to, next) ==
  /\ \E o \in device_put(dev, loc, cells) :
       dev' = o.dev /\ (IF o.ok THEN Only(to, next) ELSE Abort) /\ torn' = (~o.ok /\ o.data # << >>)
  /\ Process /\ UNCHANGED << undo, udfile, unwritten >>
OffByOne_UndoFull == Len(undo) > UNINSTALL_DATA_MAX
UndoFull == Len(undo) >= UNINSTALL_DATA_MAX
device_write(loc, cells, to, next) ==
  /\ Process /\ UNCHANGED << udfile, unwritten >>
  /\ IF UndoFull THEN Abort /\ UNCHANGED << dev, undo, torn >>
     ELSE \E s \in device_read(dev, loc, Len(cells)) :
            IF ~s.ok THEN dev' = s.dev /\ Abort /\ UNCHANGED << undo, torn >>
            ELSE \E o \in device_put(s.dev, loc, cells) :
                   /\ dev' = o.dev
                   /\ IF o.ok THEN /\ undo' = Append(undo, [loc |-> loc, data |-> s.data])
                                   /\ Only(to, next) /\ UNCHANGED torn
                      ELSE Abort /\ torn' = (o.data # << >>) /\ UNCHANGED undo
-----------------------------------------------------------------------------
(***************************************************************************)
(* The options.  A first positional argument is the device, a second one   *)
(* the number of a GPT partition, which is not initialised when it is not  *)
(* a number.  The option of the data file is recognised, and cut off, at   *)
(* its 21 characters before the "=" (limine.c:620): with nothing behind    *)
(* the "=" the file's name is "=", and the name is empty, which is an      *)
(* error, only without it.                                                 *)
(***************************************************************************)
AnyNumber == 0 .. 3
Numbers == [one |-> 1, two |-> 2, nine |-> 9, zero |-> 0]
NumberOf(arg) == IF arg \in DOMAIN Numbers THEN {Numbers[arg]} ELSE AnyNumber

Switches == {"--force-mbr", "--uninstall", "--uninstall-data-file="}
Given(argv, switch) == \E k \in DOMAIN argv : argv[k] = switch
Parsed(argv) ==
  LET rest == SelectSeq(argv, LAMBDA arg : arg \notin Switches)
      stops == {k \in DOMAIN rest : \/ rest[k] \in {"--help", "--uninstall-data-file"}
                                    \/ k = 1 /\ rest[k] # "device"}
  IN  [verdict |-> IF stops = {} THEN (IF rest = << >> THEN "failure" ELSE "run")
                   ELSE IF \E k \in stops : rest[k] = "--help" /\ \A j \in stops : k <= j THEN "success" ELSE "failure",
       r |-> [Nothing EXCEPT !.force = Given(argv, "--force-mbr"), !.uninstall = Given(argv, "--uninstall"),
                             !.file = Given(argv, "--uninstall-data-file="),
                             !.part = IF Len(rest) < 2 THEN {} ELSE NumberOf(Last(rest))]]

Ready == pc = "shell" /\ runs < MaxRuns /\ enrolled = << >>

(* A command ends at once, or opens the device.                            *)
bios_install(argv) ==
  LET s == Parsed(argv)
  IN  /\ Ready
      /\ runs' = runs + 1 /\ before' = dev.disk /\ undo' = << >> /\ torn' = FALSE /\ unwritten' = FALSE
      /\ UNCHANGED << original, udfile, enrolled >>
      /\ IF s.verdict # "run" THEN exit' = s.verdict /\ r' = Nothing /\ UNCHANGED << pc, dev >>
         ELSE /\ r' = s.r
              /\ \E o \in device_init(dev.disk, dev.faults) :
                   /\ dev' = o.dev
                   /\ IF o.ok THEN pc' = (IF s.r.uninstall THEN "load" ELSE "probe") /\ exit' = "none"
                      ELSE pc' = "close" /\ exit' = "failure"
-----------------------------------------------------------------------------
(***************************************************************************)
(* What is on the device.                                                  *)
(***************************************************************************)
Probe ==
  /\ pc = "probe"
  /\ IF r.i > Len(LbSizes) THEN Skip("flags", [r EXCEPT !.i = 1])
     ELSE Read(LbSizes[r.i], HEADER_SIZE, LAMBDA h :
            IF h[1 + SIGNATURE] # EFI_PART THEN Only("probe", [r EXCEPT !.i = @ + 1])
            ELSE IF r.force THEN Abort
            ELSE Only("secondary", [r EXCEPT !.gpt = TRUE, !.lb = LbSizes[r.i], !.header = h]))

SecondaryHeader ==
  /\ pc = "secondary"
  /\ Read(r.lb * r.header[1 + ALTERNATE], HEADER_SIZE, LAMBDA h :
       IF h[1 + SIGNATURE] = EFI_PART THEN Only("locate", [r EXCEPT !.second = h]) ELSE Abort)

(* The active flag of a partition must be 0x00 or 0x80, or is made so.     *)
Sane(flag) == flag \in {0, 128}
CheckFlag ==
  /\ pc = "flags"
  /\ Read(Flag(r.i), 1, LAMBDA c :
       IF Sane(c[1]) \/ ~r.force
         THEN Only("start", [r EXCEPT !.mbr = @ /\ Sane(c[1]), !.active = @ \/ c[1] >= 128])
         ELSE Only("mend", [r EXCEPT !.flag = (c[1] \div 128) * 128]))
MendFlag ==
  /\ pc = "mend"
  /\ device_write(Flag(r.i), << r.flag >>, "start", [r EXCEPT !.active = @ \/ r.flag = 128])

Low(start) == start \in 1 .. 63          \* used, and from a block before 63
CheckStart ==
  /\ pc = "start"
  /\ Read(Start(r.i), 1, LAMBDA c :
       IF Low(c[1]) THEN Abort
       ELSE IF r.i < Partitions THEN Only("flags", [r EXCEPT !.i = @ + 1])
       ELSE Only("hints", [r EXCEPT !.i = 1]))

(* Names of file systems where a partition table should be.                *)
Hints == << << OEM, ECHFS >>, << OEM, NTFS >>, << FAT16, FAT >>, << FAT32, FAT >>, << OEM, FAT >>, << EXT, EXT2 >> >>
CheckHint ==
  /\ pc = "hints"
  /\ IF r.i > Len(Hints) THEN Skip("active", r)
     ELSE Read(Hints[r.i][1], 1, LAMBDA c :
            IF c[1] # Hints[r.i][2] THEN Only("hints", [r EXCEPT !.i = @ + 1])
            ELSE IF r.force THEN Only("erase", r)
            ELSE Only("hints", [r EXCEPT !.i = @ + 1, !.mbr = FALSE]))
EraseHint ==
  /\ pc = "erase"
  /\ device_write(Hints[r.i][1], << 0 >>, "hints", [r EXCEPT !.i = @ + 1])

(* Without an active partition the first one is made active; without a     *)
(* partition table the program gives up.                                   *)
Activate ==
  /\ pc = "active"
  /\ IF ~r.mbr THEN Abort /\ Process /\ UNCHANGED << dev, undo, udfile, torn, unwritten >>
     ELSE IF r.active THEN Skip("locate", r)
     ELSE device_write(Flag(1), << 128 >>, "locate", r)
-----------------------------------------------------------------------------
(***************************************************************************)
(* Where stage 2 goes: after the MBR, into a GPT partition, or into the    *)
(* ends of the two GPT arrays.                                             *)
(***************************************************************************)
Sectors == (STAGE2_SIZE + SECTOR - 1) \div SECTOR
SizeA == (Sectors \div 2) * SECTOR + (IF Sectors % 2 = 1 THEN SECTOR ELSE 0)
SizeB == (Sectors \div 2) * SECTOR
AlignedDown(loc) == (loc \div r.lb) * r.lb
AlignedUp(loc) == IF loc % r.lb = 0 THEN loc ELSE AlignedDown(loc + r.lb)

Entry(header, i) == header[1 + ENTRY_LBA] * r.lb + i * header[1 + ENTRY_SIZE]

Locate ==
  /\ pc = "locate"
  /\ IF ~r.gpt THEN Skip("save", [r EXCEPT !.a = SECTOR, !.b = SECTOR + SizeA])
     ELSE Skip(IF r.part # {} THEN "partition" ELSE "scan", [r EXCEPT !.i = 0])

(* partition_num is unsigned: 0 less 1 is beyond every count.              *)
UsePartition ==
  /\ pc = "partition"
  /\ \E n \in r.part :
       IF n = 0 \/ n - 1 > r.header[1 + COUNT]
         THEN Abort /\ Process /\ UNCHANGED << dev, undo, udfile, torn, unwritten >>
         ELSE Read(Entry(r.header, n - 1), 2, LAMBDA entry :
                IF entry[1] = 0 THEN Abort
                ELSE Only("save", [r EXCEPT !.a = entry[2] * r.lb, !.b = AlignedUp(entry[2] * r.lb + SizeA)]))

ScanEntries ==
  /\ pc = "scan"
  /\ IF r.i < r.header[1 + COUNT]
       THEN Read(Entry(r.header, r.i), 2, LAMBDA entry :
              Only("scan", [r EXCEPT !.i = @ + 1, !.used = IF entry[1] # 0 THEN r.i ELSE @]))
       ELSE Skip("embed", r)

(* The arrays shrink to the blocks before the two halves; unused entries   *)
(* are cleared.                                                            *)
Killed ==       \* a division by zero
  /\ pc' = "shell" /\ exit' = "killed" /\ dev' = Opened(dev.disk, dev.faults) /\ r' = r
  /\ Process /\ UNCHANGED << undo, udfile, torn, unwritten >>
OffByOne_NoRoom(count) == count < r.used
NoRoom(count) == count <= r.used
Embed ==
  LET a == AlignedDown((r.header[1 + ENTRY_LBA] + ARRAY_LBAS) * r.lb - SizeA)
      b == AlignedDown((r.second[1 + ENTRY_LBA] + ARRAY_LBAS) * r.lb - SizeB)
      count == (a \div r.lb - r.header[1 + ENTRY_LBA]) * (r.lb \div r.header[1 + ENTRY_SIZE])
  IN  /\ pc = "embed"
      /\ IF r.header[1 + ENTRY_SIZE] = 0 THEN Killed
         ELSE IF NoRoom(count) THEN Abort /\ Process /\ UNCHANGED << dev, undo, udfile, torn, unwritten >>
         ELSE Skip("clear1", [r EXCEPT !.a = a, !.b = b, !.count = count, !.i = r.used + 1])

ClearEntry(from, header, to) ==
  /\ pc = from
  /\ IF r.i < r.count
       THEN device_write(Entry(header, r.i), [k \in 1 .. header[1 + ENTRY_SIZE] |-> 0], from, [r EXCEPT !.i = @ + 1])
       ELSE Skip(to, [r EXCEPT !.i = r.used + 1])
ClearPrimary   == ClearEntry("clear1", r.header, "clear2")
ClearSecondary == ClearEntry("clear2", r.second, "sum")

(* Both headers get the new count and the checksum of the primary array.   *)
Resealed(header, array) ==
  LET h == [header EXCEPT ![1 + COUNT] = r.count, ![1 + ARRAY_CRC] = crc32(array), ![1 + HEADER_CRC] = 0]
  IN  [h EXCEPT ![1 + HEADER_CRC] = crc32(h)]
SumArray ==
  /\ pc = "sum"
  /\ Read(Entry(r.header, 0), r.count * r.header[1 + ENTRY_SIZE], LAMBDA array :
       Only("header1", [r EXCEPT !.header = Resealed(@, array), !.second = Resealed(@, array)]))
WriteHeader  == pc = "header1" /\ device_write(r.lb, r.header, "header2", r)
WriteSecond  == pc = "header2" /\ device_write(r.lb * r.header[1 + ALTERNATE], r.second, "save", r)
-----------------------------------------------------------------------------
(***************************************************************************)
(* The installation.  The boot sector is written whole and then corrected. *)
(***************************************************************************)
SaveStamp ==
  /\ pc = "save"
  /\ Read(STAMP, 1, LAMBDA c : Only("table", [r EXCEPT !.stamp = c]))
SaveTable ==
  /\ pc = "table"
  /\ Read(DISK_ID, TABLE_SIZE, LAMBDA c : Only("install", [r EXCEPT !.table = c, !.i = 1]))

ImagePart(from, count) == [k \in 1 .. count |-> Image(from + k - 1)]

TableFirst_InstallWrites ==
  << << STAMP, r.stamp >>, << DISK_ID, r.table >>, << 0, ImagePart(0, SECTOR) >>,
     << r.a, ImagePart(SECTOR, SizeA) >>, << r.b, ImagePart(SECTOR + SizeA, STAGE2_SIZE - SizeA) >>,
     << PARAMS, << SizeA >> >>, << PARAMS + 1, << SizeB >> >>,
     << PARAMS + 2, << r.a >> >>, << PARAMS + 3, << r.b >> >> >>
InstallWrites ==
  << << 0, ImagePart(0, SECTOR) >>,
     << r.a, ImagePart(SECTOR, SizeA) >>, << r.b, ImagePart(SECTOR + SizeA, STAGE2_SIZE - SizeA) >>,
     << PARAMS, << SizeA >> >>, << PARAMS + 1, << SizeB >> >>,
     << PARAMS + 2, << r.a >> >>, << PARAMS + 3, << r.b >> >>,
     << STAMP, r.stamp >>, << DISK_ID, r.table >> >>

Install ==
  /\ pc = "install"
  /\ device_write(InstallWrites[r.i][1], InstallWrites[r.i][2],
                  IF r.i < Len(InstallWrites) THEN "install" ELSE "commit", [r EXCEPT !.i = @ + 1])

Commit ==
  /\ pc = "commit"
  /\ \E o \in device_flush_cache(dev) :
       /\ dev' = o.dev
       /\ IF o.ok THEN pc' = "cleanup" /\ exit' = "success" /\ UNCHANGED r ELSE Abort
  /\ Process /\ UNCHANGED << undo, udfile, torn, unwritten >>
-----------------------------------------------------------------------------
(***************************************************************************)
(* The way back.  The cache is dropped, not flushed, before an uninstall.  *)
(***************************************************************************)
SameOrder_reverse_uninstall_data == undo
reverse_uninstall_data == Reverse(undo)

Cleanup ==
  /\ pc = "cleanup"
  /\ undo' = reverse_uninstall_data
  /\ IF exit = "failure" THEN pc' = "uninstall" /\ dev' = Dropped(dev)
     ELSE pc' = (IF r.file THEN "store" ELSE "close") /\ dev' = dev
  /\ r' = [r EXCEPT !.i = 1]
  /\ Process /\ UNCHANGED << udfile, exit, torn, unwritten >>

(* A file that could not be written to its end is left as it is, and the   *)
(* exit status does not tell.                                              *)
store_uninstall_data ==
  /\ pc = "store" /\ pc' = "close"
  /\ \/ udfile' = [n |-> Len(undo), entries |-> undo, of |-> before] /\ UNCHANGED dev
     \/ /\ dev.faults < MaxFaults /\ dev' = [dev EXCEPT !.faults = @ + 1]
        /\ udfile' \in {udfile} \cup {[n |-> Len(undo), entries |-> e, of |-> before] : e \in {<< >>, Front(undo)}}
  /\ Process /\ UNCHANGED << undo, r, exit, torn, unwritten >>

load_uninstall_data ==
  /\ pc = "load"
  /\ IF r.file /\ udfile # NoFile /\ Len(udfile.entries) = udfile.n
       THEN pc' = "uninstall" /\ undo' = udfile.entries /\ dev' = Dropped(dev) /\ UNCHANGED exit
       ELSE pc' = "close" /\ exit' = "failure" /\ UNCHANGED << undo, dev >>
  /\ Process /\ UNCHANGED << udfile, r, torn, unwritten >>

(* One entry is written back, with one retry on an empty cache.            *)
UndoEntry ==
  /\ pc = "uninstall" /\ r.i <= Len(undo)
  /\ \E o \in device_put(dev, undo[r.i].loc, undo[r.i].data) :
       IF o.ok THEN dev' = o.dev /\ r' = [r EXCEPT !.i = @ + 1]
       ELSE \E f \in device_flush_cache(o.dev) :
            \E again \in device_put(Dropped(f.dev), undo[r.i].loc, undo[r.i].data) :
              /\ dev' = again.dev
              /\ r' = [r EXCEPT !.i = @ + 1, !.failed = @ \/ ~f.ok \/ ~again.ok]
  /\ Process /\ UNCHANGED << pc, undo, udfile, exit, torn, unwritten >>

Uninstalled ==
  /\ pc = "uninstall" /\ r.i > Len(undo) /\ pc' = "close"
  /\ \E o \in device_flush_cache(dev) :
       /\ dev' = o.dev
       /\ r' = [r EXCEPT !.failed = @ \/ ~o.ok]
       /\ exit' = IF ~r.uninstall THEN exit ELSE IF r'.failed THEN "failure" ELSE "success"
  /\ Process /\ UNCHANGED << undo, udfile, torn, unwritten >>

(* fclose: what it returns is not looked at.                               *)
Close ==
  /\ pc = "close" /\ pc' = "shell"
  /\ \E o \in Sync(dev) : dev' = Opened(o.dev.disk, o.dev.faults) /\ unwritten' = ~o.ok
  /\ Process /\ UNCHANGED << undo, udfile, r, exit, torn >>

-----------------------------------------------------------------------------
(***************************************************************************)
(* The other commands.  enroll-config has no state in common with          *)
(* bios-install, so it is run alone.                                       *)
(***************************************************************************)
EnrollDone(status, file, written) == exit' = status /\ enrolled' = << file, written >>

(* The file is opened, measured and read, which may fail, and written back *)
(* whole; that may end after any of its cells, at fwrite or, unnoticed, at *)
(* fclose.                                                                 *)
EnrollIn(file, sum) ==
  LET loc == SignatureEnd(file)
      patched == Patched(file, loc, sum)
  IN  \/ /\ UNCHANGED dev
         /\ IF loc = 0 THEN EnrollDone("failure", file, file) ELSE EnrollDone("success", file, patched)
      \/ /\ dev.faults < MaxFaults /\ dev' = [dev EXCEPT !.faults = @ + 1]
         /\ \/ EnrollDone("failure", file, file)
            \/ /\ loc # 0
               /\ \E k \in 0 .. Len(file) - 1, status \in {"success", "failure"} :
                    EnrollDone(status, file, CutOff(file, patched, k))

enroll_config(argv, file) ==
  LET s == EnrollParsed(argv)
      usable == /\ Len(s.args) >= (IF s.reset THEN 1 ELSE 2)
                /\ s.args[1] = "executable"
                /\ s.reset \/ s.args[2] = "checksum"
  IN  /\ runs' = runs + 1 /\ r' = Nothing
      /\ UNCHANGED << pc, undo, udfile, original, before, torn, unwritten >>
      /\ CASE s.help -> EnrollDone("success", file, file) /\ UNCHANGED dev
           [] ~s.help /\ ~usable -> EnrollDone("failure", file, file) /\ UNCHANGED dev
           [] OTHER -> EnrollIn(file, IF s.reset THEN Zeros ELSE Checksum)

(* help, version, --print-datadir; anything else, or nothing, is an error. *)
PrintingCommand(status) ==
  /\ Ready /\ runs' = runs + 1 /\ exit' = status /\ r' = Nothing
  /\ UNCHANGED << pc, dev, undo, udfile, original, before, torn, unwritten, enrolled >>

main ==
  \/ \E argv \in Commands : bios_install(argv)
  \/ /\ Ready /\ runs = 0 /\ original = SpareDisk
     /\ \E argv \in EnrollCommands, file \in Executables : enroll_config(argv, file)
  \/ \E status \in {"success", "failure"} : PrintingCommand(status)

Next ==
  \/ main
  \/ Probe \/ SecondaryHeader \/ CheckFlag \/ MendFlag \/ CheckStart \/ CheckHint \/ EraseHint \/ Activate
  \/ Locate \/ UsePartition \/ ScanEntries \/ Embed \/ ClearPrimary \/ ClearSecondary
  \/ SumArray \/ WriteHeader \/ WriteSecond
  \/ SaveStamp \/ SaveTable \/ Install \/ Commit
  \/ Cleanup \/ store_uninstall_data \/ load_uninstall_data \/ UndoEntry \/ Uninstalled \/ Close

Spec == Init /\ [][Next]_vars
-----------------------------------------------------------------------------
(***************************************************************************)
(* Properties.                                                             *)
(***************************************************************************)
Disk == dev.disk
Cells(disk, loc, count) == [k \in 1 .. count |-> disk[loc + k - 1]]
Exited(status) == pc = "shell" /\ exit = status /\ r # Nothing

Pcs == {"shell", "load", "probe", "secondary", "flags", "mend", "start", "hints", "erase", "active", "locate",
        "partition", "scan", "embed", "clear1", "clear2", "sum", "header1", "header2", "save", "table",
        "install", "commit", "cleanup", "store", "uninstall", "close"}

(* Type invariant: the control state, the device and the undo data keep    *)
(* their types, and the cells cached are a block's.                        *)
TypeOK ==
  /\ pc \in Pcs /\ exit \in {"none", "success", "failure", "killed"} /\ runs \in 0 .. MaxRuns
  /\ DOMAIN Disk = DOMAIN original /\ dev.faults \in 0 .. MaxFaults
  /\ Len(undo) <= UNINSTALL_DATA_MAX /\ \A i \in DOMAIN undo : undo[i].loc \in Nat
  /\ dev.cached # NoBlock => Len(dev.cache) = dev.block_size /\ dev.cached * dev.block_size \in DOMAIN Disk

(* A clean block in the cache is what the device, with what is on its way  *)
(* to it, holds there.  A read that fails leaves junk under the number of  *)
(* the last block, so it rests on everybody who goes on after a failure    *)
(* dropping the cache first.                                               *)
CacheCoherent ==
  /\ pc \notin {"shell", "cleanup", "close"} /\ ~r.failed
  /\ dev.cached # NoBlock /\ ~dev.dirty
  => dev.cache = Cells(Stream(dev), dev.cached * dev.block_size, dev.block_size)

(* After an installation the boot sector holds the program's code, names   *)
(* two places where stage 2 is found whole, and still has the timestamp,   *)
(* the disk's identity and the partitions that were there.                 *)
Installed == Exited("success") /\ ~r.uninstall /\ ~unwritten
LoaderFindsStage2 ==
  Installed =>
    /\ \A k \in 0 .. SECTOR - 1 : Disk[k] = Image(k) \/ k \in {STAMP} \cup PARAMS .. PARAMS + 3 \cup DISK_ID .. DISK_ID + TABLE_SIZE - 1
    /\ Cells(Disk, Disk[PARAMS + 2], Disk[PARAMS]) \o Cells(Disk, Disk[PARAMS + 3], STAGE2_SIZE - Disk[PARAMS])
         = ImagePart(SECTOR, STAGE2_SIZE)
    /\ \A k \in {STAMP, DISK_ID} \cup {Start(p) : p \in 1 .. Partitions} : Disk[k] = before[k]
    /\ r.gpt => \A p \in 1 .. Partitions : Disk[Flag(p)] = before[Flag(p)]
    /\ ~r.gpt => \E p \in 1 .. Partitions : Disk[Flag(p)] = 128

InArrays(a) ==
  \E h \in {r.header, r.second} :
    a \div r.lb \in h[1 + ENTRY_LBA] .. h[1 + ENTRY_LBA] + ARRAY_LBAS - 1
EntriesKept(h) ==
  \A i \in 0 .. before[r.lb + COUNT] - 1 :
    before[Entry(h, i)] # 0 =>
      Cells(Disk, Entry(h, i), h[1 + ENTRY_SIZE]) = Cells(before, Entry(h, i), h[1 + ENTRY_SIZE])
Vouches(lba) ==
  LET h == Cells(Disk, lba * r.lb, HEADER_SIZE)
  IN  /\ h[1 + ARRAY_CRC] = crc32(Cells(Disk, Entry(h, 0), h[1 + COUNT] * h[1 + ENTRY_SIZE]))
      /\ h[1 + HEADER_CRC] = crc32([h EXCEPT ![1 + HEADER_CRC] = 0])

(* Installing on a GPT keeps every partition: its entries in both arrays,  *)
(* and, unless stage 2 was to be put in one of them, its blocks.  After an *)
(* embedding, both headers vouch for the arrays as they are, with stage 2  *)
(* behind them, so that firmware still accepts the table.                  *)
PartitionsKept ==
  Installed /\ r.gpt =>
    /\ \A h \in {r.header, r.second} : EntriesKept(h)
    /\ r.part = {} =>
         /\ \A a \in DOMAIN Disk :
              a \div r.lb \in {0, 1, r.header[1 + ALTERNATE]} \/ InArrays(a) \/ Disk[a] = before[a]
         /\ \A lba \in {1, r.header[1 + ALTERNATE]} : Vouches(lba)

(* An installation that fails leaves the device as it was, unless it says  *)
(* that something could not be written back, the stream could not be       *)
(* emptied in the end, or the write that failed had been done in part.     *)
FailedInstallUndone ==
  Exited("failure") /\ ~r.uninstall /\ ~r.failed /\ ~unwritten /\ ~torn => Disk = before

(* An uninstallation that reports success gives the device the contents    *)
(* from before the installation that the data file is of, if nothing has   *)
(* changed since then outside the places which that installation wrote.    *)
Covers(entry, a) == a \in entry.loc .. entry.loc + Len(entry.data) - 1
UninstallRestores ==
  /\ Exited("success") /\ r.uninstall /\ ~unwritten
  /\ \A a \in DOMAIN Disk : before[a] = udfile.of[a] \/ \E k \in DOMAIN udfile.entries : Covers(udfile.entries[k], a)
  => Disk = udfile.of

(* "Install failed, undoing work...": the work of an installation that     *)
(* fails is undone, when undoing it meets no failure of its own.           *)
UndoingIsComplete ==
  Exited("failure") /\ ~r.uninstall /\ ~r.failed /\ ~unwritten => Disk = before

(* A checksum is only ever written right behind a whole signature, and     *)
(* nothing else of the executable changes, whatever it holds otherwise and *)
(* wherever its writing ends: of a checksum cut off the beginning is there *)
(* and the old cells follow.                                               *)
SignedAt(file, loc) ==
  /\ loc > Len(SIGNATURE_B2SUM) /\ loc + SUM_SIZE - 1 <= Len(file)
  /\ SubSeq(file, loc - Len(SIGNATURE_B2SUM), loc - 1) = SIGNATURE_B2SUM
EnrolledBehindSignature ==
  enrolled # << >> /\ enrolled[1] # enrolled[2] =>
    \E loc \in DOMAIN enrolled[1] :
      /\ SignedAt(enrolled[1], loc)
      /\ \E sum \in {Checksum, Zeros}, k \in 0 .. Len(enrolled[1]) :
           enrolled[2] = CutOff(enrolled[1], Patched(enrolled[1], loc, sum), k)
=============================================================================
