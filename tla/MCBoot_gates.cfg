SPECIFICATION Spec
CONSTANTS
  Answers <- GoodAnswers
  FirmwareMasks <- OnlyMasked
  Raised = {9}
  MaxRaises = 1
  Faults = {13}
  MaxFaults = 0
  Opened <- SlaveOpen
  MaxCalls = 2
  Commands <- ThreeCommands
  MAX_COMMANDS = 2
  StackFrames = 4
INVARIANT InterruptsHaveGates
