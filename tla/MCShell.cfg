CONSTANTS
  MAX_INPUT_SIZE = 8
  MAX_PROMPT_SIZE = 4
  Chars <- MC_Two
  CmdName <- MC_TwoNames
  DefaultPrompt <- MC_Prompt
  DefaultFg <- MC_Fg
  DefaultBg <- MC_Bg
SPECIFICATION Spec
INVARIANTS TypeOK LineShown PromptWellFormed
PROPERTIES RefusedChangesNothing ImplementsLineEditor
