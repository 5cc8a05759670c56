CONSTANTS
  BlockSizes <- MC_Sizes
  MaxFaults = 1
  Disks <- MC_Disks
  Commands <- MC_Commands
  MaxRuns = 1
  Partitions = 2
  ARRAY_LBAS = 3
  STAGE2_SIZE = 40
  LbSizes <- MC_Sizes
  UNINSTALL_DATA_MAX = 24
  SIGNATURE_B2SUM <- MC_Signature
  SUM_SIZE = 2
  SpareDisk <- MC_Spare
  Executables <- MC_Executables
  EnrollCommands <- MC_Enroll
SPECIFICATION Spec
CHECK_DEADLOCK FALSE
INVARIANTS UndoingIsComplete
