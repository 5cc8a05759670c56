CONSTANTS
  Keys <- MC_Keys
  MaxBytes = 3
  DeviceIrqs <- MC_Timer
  BootMask <- MC_Mask
SPECIFICATION Spec
INVARIANTS TypeOK InServiceMatchesHandler NoLostWakeup KeyAsTyped
