---------------------------- MODULE MCLimineTool -----------------------------
(* Constants of the TLC runs of LimineTool: small disks and executables. *)
EXTENDS LimineTool, TLC

S == SECTOR
MC_Sizes == << S, 2 * S >>

Blank(n) == [a \in 0 .. n * S - 1 |-> 20000 + a]

(* MBR disks: flags and entries of two partitions, names of file           *)
(* systems.                                                                *)
MBR(flags, starts, hints) ==
  [a \in 0 .. 4 * S - 1 |->
     CASE \E p \in 1 .. Partitions : a = Flag(p)  -> flags[CHOOSE p \in 1 .. Partitions : a = Flag(p)]
       [] \E p \in 1 .. Partitions : a = Start(p) -> starts[CHOOSE p \in 1 .. Partitions : a = Start(p)]
       [] a \in DOMAIN hints -> hints[a]
       [] OTHER -> 20000 + a]

MC_MBR ==
  {MBR(f, s, h) :
     f \in {<< 0, 0 >>, << 0, 128 >>, << 1, 0 >>, << 128, 129 >>},
     s \in {<< 0, 0 >>, << 64, 0 >>, << 2049, 1 >>},
     h \in {<< >>, OEM :> ECHFS, OEM :> FAT, FAT16 :> FAT, FAT32 :> FAT, (OEM :> NTFS) @@ (EXT :> EXT2)}}

(* GPT disks with 12 logical blocks of lb cells: header 1, array 2 to 4,   *)
(* partitions 5 to 7, second array 8 to 10, second header 11.              *)
EntrySize == 5
GPT(lb, used, valid) ==
  LET perArray == 3 * (lb \div EntrySize)
      Cell(array, k) ==
        LET i == k \div EntrySize
            f == k % EntrySize
        IN  IF i >= perArray THEN 20000
            ELSE IF f = 0 THEN (IF i \in used THEN 600 + i ELSE 0)
            ELSE IF f = 1 THEN 5 ELSE 700 + f
      Header(array) == << EFI_PART, 11, array, perArray, EntrySize, 1, 1 >>
  IN  [a \in 0 .. 12 * lb - 1 |->
         LET b == a \div lb
         IN  CASE b = 1 /\ a % lb < HEADER_SIZE           -> Header(2)[(a % lb) + 1]
               [] b = 11 /\ a % lb < HEADER_SIZE /\ valid -> Header(8)[(a % lb) + 1]
               [] b \in 2 .. 4  -> Cell(2, a - 2 * lb)
               [] b \in 8 .. 10 -> Cell(8, a - 8 * lb)
               [] OTHER -> 20000 + a]

MC_GPT == {GPT(S, used, TRUE) : used \in {{}, {0, 2}, {3}, {1, 4}}} \cup {GPT(S, {0}, FALSE), GPT(2 * S, {1}, TRUE),
  [GPT(S, {1}, TRUE) EXCEPT ![S + ENTRY_SIZE] = 0]}

MC_Disks == MC_MBR \cup MC_GPT
MC_Spare == GPT(S, {3}, TRUE)

MC_Commands ==
  {<< "device" >>, << "--force-mbr", "device", "--uninstall-data-file=" >>,
   << "device", "--uninstall-data-file=" >>, << "device", "one" >>, << "device", "nine" >>, << "device", "word" >>,
   << "--uninstall", "device", "--uninstall-data-file=" >>,
   << "--force-mbr" >>, << "--help" >>, << "--uninstall-data-file" >>}

MC_Signature == << 1, 1, 2 >>
MC_Executables == [1 .. 8 -> 0 .. 2]
MC_Enroll ==
  {<< "executable", "checksum" >>, << "--reset", "executable" >>, << "executable", "--reset" >>,
   << "--quiet", "--reset", "executable" >>, << "executable" >>, << "executable", "short" >>, << "--help" >>}
=============================================================================
