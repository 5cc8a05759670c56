CONSTANTS
  Keys <- MC_A
  MaxBytes = 1
  DeviceIrqs <- MC_Timer
  BootMask <- MC_Mask
SPECIFICATION FairSpec
PROPERTIES ShellInitialised
