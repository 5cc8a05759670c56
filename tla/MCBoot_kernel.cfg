SPECIFICATION Spec
CONSTANTS
  Answers <- AllAnswers
  FirmwareMasks <- Masks
  Raised = {0, 1, 9}
  MaxRaises = 3
  Faults = {13}
  MaxFaults = 1
  Opened <- Functions_
  MaxCalls = 2
  Commands <- ThreeCommands
  MAX_COMMANDS = 2
  StackFrames = 4
INVARIANTS TypeOK ReadyForInterrupts OverrunOnlyBeforeVideo HandledIsAcknowledged CommandsComplete
PROPERTIES ExceptionsAreFinal BootsWhenAnswered
