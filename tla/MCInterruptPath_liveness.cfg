CONSTANTS
  Keys <- MC_Two
  MaxBytes = 3
  DeviceIrqs <- MC_Timer
  BootMask <- MC_Mask
SPECIFICATION FairSpec
INVARIANTS ShiftNeverSticks
PROPERTIES BytesConsumed BootCompletes
