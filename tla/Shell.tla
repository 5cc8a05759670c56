-------------------------------- MODULE Shell --------------------------------
(***************************************************************************)
(* The shell: the key callback that edits the input buffer and, on Enter,  *)
(* runs a command; the commands; the prompt.  One action is one call of    *)
(* shellKeyCallback, which runs with interrupts off.                       *)
(***************************************************************************)
EXTENDS ShellText

CONSTANTS
  MAX_INPUT_SIZE, MAX_PROMPT_SIZE,
  Chars,          \* BOUND: the characters the user types besides Enter and Backspace
  CmdName,        \* the name of each command
  DefaultPrompt, DefaultFg, DefaultBg

ASSUME SizeAssumption == MAX_INPUT_SIZE \in Nat \ {0} /\ MAX_PROMPT_SIZE \in Nat \ {0}
ASSUME CharsAssumption == Chars \subseteq 1 .. 127 \ {BS, LF}

(* The table of commands, in the order initVideo and initShell fill it.    *)
shellCommands == << "fbinfo", "help", "clear", "echo", "fgcolor", "bgcolor", "prompt" >>

(* The prompt fits its buffer with the NUL, keeps the space that separates *)
(* it from the input and does not start with one.                          *)
WellFormed(prompt) ==
  /\ Len(prompt) \in 2 .. MAX_PROMPT_SIZE - 1
  /\ prompt[1] # SP /\ prompt[Len(prompt)] = SP

ASSUME NamesAssumption == \A i \in DOMAIN shellCommands : CmdName[shellCommands[i]] \in Seq(1 .. 127)
ASSUME DefaultsAssumption ==
  /\ DefaultPrompt \in Seq(1 .. 127) /\ WellFormed(DefaultPrompt)
  /\ DefaultFg \in [1 .. 3 -> 0 .. 255] /\ DefaultBg \in [1 .. 3 -> 0 .. 255]

(* A message of the shell, whatever its wording, is one symbol; so is the  *)
(* clearing of the screen.                                                 *)
FbInfo           == 256
Desc             == 257
UsageFg          == 258
UsageBg          == 259
UsagePrompt      == 260
PromptTooLong    == 261
SetPromptTooLong == 262
Unknown          == 263
Reset            == 264
Errors == {UsageFg, UsageBg, UsagePrompt, PromptTooLong, SetPromptTooLong, Unknown}
Symbols == 1 .. 264

VARIABLES
  inputBuffer, inputIndex,
  shellPrompt,      \* up to its NUL
  fg, bg,           \* colours, as << red, green, blue >>
  output,           \* what the command printed, if the last key ran one
  submitted,        \* << the C string that key parsed >>, or << >>
  shown             \* the last line of the console

settings == << shellPrompt, fg, bg >>
vars     == << inputBuffer, inputIndex, settings, output, submitted, shown >>

Positions == 0 .. MAX_INPUT_SIZE - 1

Init ==
  /\ inputBuffer = [i \in Positions |-> NUL] /\ inputIndex = 0
  /\ shellPrompt = DefaultPrompt /\ fg = DefaultFg /\ bg = DefaultBg
  /\ output = << >> /\ submitted = << >>
  /\ shown = DefaultPrompt
-----------------------------------------------------------------------------
(***************************************************************************)
(* The commands.  argv[1] is the name the command was called by.           *)
(***************************************************************************)
cmdFbInfo == output' = << FbInfo, LF >> /\ UNCHANGED settings

NoNewline_cmdHelp ==
  /\ output' = FlattenSeq([i \in DOMAIN shellCommands |-> CmdName[shellCommands[i]] \o << Desc >>])
  /\ UNCHANGED settings
cmdHelp ==
  /\ output' = FlattenSeq([i \in DOMAIN shellCommands |-> CmdName[shellCommands[i]] \o << Desc, LF >>])
  /\ UNCHANGED settings

cmdClear == output' = << Reset >> /\ UNCHANGED settings

NoNewline_cmdEcho(argv) == output' = Spaced(Tail(argv)) /\ UNCHANGED settings
cmdEcho(argv) == output' = Spaced(Tail(argv)) \o << LF >> /\ UNCHANGED settings

RGB(argv) == [k \in 1 .. 3 |-> Clamp(ByteOf(argv[k + 1]), 0, 255)]

NoReturn_cmdSetFgColor(argv) ==
  /\ output' = IF Len(argv) # 4 THEN << UsageFg, LF >> ELSE << >>
  /\ fg' = [k \in 1 .. 3 |-> IF k < Len(argv) THEN Clamp(ByteOf(argv[k + 1]), 0, 255) ELSE 0]
  /\ UNCHANGED << shellPrompt, bg >>
cmdSetFgColor(argv) ==
  IF Len(argv) # 4
    THEN output' = << UsageFg, LF >> /\ UNCHANGED settings
    ELSE output' = << >> /\ fg' = RGB(argv) /\ UNCHANGED << shellPrompt, bg >>

cmdSetBgColor(argv) ==
  IF Len(argv) # 4
    THEN output' = << UsageBg, LF >> /\ UNCHANGED settings
    ELSE output' = << Reset >> /\ bg' = RGB(argv) /\ UNCHANGED << shellPrompt, fg >>

(* snprintf writes the prompt and a space, as far as the buffer goes.      *)
Truncated(text, size) == SubSeq(text, 1, IF Len(text) < size THEN Len(text) ELSE size - 1)

NoReturn_shellSetPrompt(prompt) ==
  /\ output' = IF Len(prompt) + 1 >= MAX_PROMPT_SIZE THEN << SetPromptTooLong, LF >> ELSE << >>
  /\ shellPrompt' = Truncated(Append(prompt, SP), MAX_PROMPT_SIZE)
  /\ UNCHANGED << fg, bg >>
OffByOne_shellSetPrompt(prompt) ==
  IF Len(prompt) >= MAX_PROMPT_SIZE
    THEN output' = << SetPromptTooLong, LF >> /\ UNCHANGED settings
    ELSE /\ output' = << >> /\ UNCHANGED << fg, bg >>
         /\ shellPrompt' = Truncated(Append(prompt, SP), MAX_PROMPT_SIZE)
shellSetPrompt(prompt) ==
  IF Len(prompt) + 1 >= MAX_PROMPT_SIZE
    THEN output' = << SetPromptTooLong, LF >> /\ UNCHANGED settings
    ELSE /\ output' = << >> /\ UNCHANGED << fg, bg >>
         /\ shellPrompt' = Truncated(Append(prompt, SP), MAX_PROMPT_SIZE)

(* With several arguments they are joined in a local buffer first, each    *)
(* checked against it before it is added.                                  *)
cmdSetPrompt(argv) ==
  LET args == Tail(argv)
      TooLong(k) == Len(Joined(SubSeq(args, 1, k - 1))) + Len(args[k]) + 1 >= MAX_PROMPT_SIZE
  IN  CASE args = << >> \/ (args # << >> /\ args[1] = << >>) ->
             output' = << UsagePrompt, LF >> /\ UNCHANGED settings
        [] Len(args) > 1 /\ \E k \in DOMAIN args : TooLong(k) ->
             output' = << PromptTooLong, LF >> /\ UNCHANGED settings
        [] OTHER -> shellSetPrompt(Joined(args))

Execute(cmd, argv) ==
  CASE cmd = "fbinfo"  -> cmdFbInfo
    [] cmd = "help"    -> cmdHelp
    [] cmd = "clear"   -> cmdClear
    [] cmd = "echo"    -> cmdEcho(argv)
    [] cmd = "fgcolor" -> cmdSetFgColor(argv)
    [] cmd = "bgcolor" -> cmdSetBgColor(argv)
    [] cmd = "prompt"  -> cmdSetPrompt(argv)

(* The first command of that name is run.  argc is at least 1: the early   *)
(* return for argc = 0 is never taken.                                     *)
parseAndExecuteCmd(input) ==
  LET argv  == Split(input)
      name  == Lower(argv[1])
      entry == SelectInSeq(shellCommands, LAMBDA cmd : CmdName[cmd] = name)
  IN  IF entry # 0
        THEN Execute(shellCommands[entry], argv)
        ELSE output' = << Unknown >> \o name \o << LF >> /\ UNCHANGED settings
-----------------------------------------------------------------------------
(***************************************************************************)
(* The keys.                                                               *)
(***************************************************************************)
clearInputBuffer ==
  inputBuffer' = [i \in Positions |-> NUL] /\ inputIndex' = 0

(* inputBuffer[inputIndex] = '\0'; what follows may be left from           *)
(* characters that were erased.                                            *)
Missing_Terminated == inputBuffer
Terminated == [inputBuffer EXCEPT ![inputIndex] = NUL]

EnterKey ==
  /\ parseAndExecuteCmd(CString(Terminated))
  /\ submitted' = << CString(Terminated) >>
  /\ clearInputBuffer
  /\ shown' = LastLine(output', {LF, Reset}) \o shellPrompt'

BackspaceKey ==
  /\ inputIndex > 0
  /\ inputIndex' = inputIndex - 1
  /\ shown' = SubSeq(shown, 1, Len(shown) - 1)
  /\ output' = << >> /\ submitted' = << >>
  /\ UNCHANGED << inputBuffer, settings >>

OffByOne_RoomLeft == inputIndex < MAX_INPUT_SIZE
RoomLeft == inputIndex < MAX_INPUT_SIZE - 1

NormalKey(key) ==
  /\ RoomLeft
  /\ inputBuffer' = [inputBuffer EXCEPT ![inputIndex] = key]
  /\ inputIndex' = inputIndex + 1
  /\ shown' = Append(shown, key)
  /\ output' = << >> /\ submitted' = << >>
  /\ UNCHANGED settings

(* A release, a Backspace with nothing to erase, a key too many.           *)
Ignored(key, pressed) ==
  /\ ~pressed \/ (key = BS /\ inputIndex = 0) \/ (key \in Chars /\ ~RoomLeft)
  /\ UNCHANGED vars

shellKeyCallback(key, pressed) ==
  \/ pressed /\ key = LF /\ EnterKey
  \/ pressed /\ key = BS /\ BackspaceKey
  \/ pressed /\ key \in Chars /\ NormalKey(key)
  \/ Ignored(key, pressed)

Next == \E key \in Chars \cup {LF, BS}, pressed \in BOOLEAN : shellKeyCallback(key, pressed)

Spec == Init /\ [][Next]_vars
-----------------------------------------------------------------------------
(***************************************************************************)
(* Properties.                                                             *)
(***************************************************************************)
Line == Prefix(inputBuffer, inputIndex)

(* The buffer holds NULs and typed characters, and the index stays inside  *)
(* it, so that the terminator fits as well.                                *)
BufferOK ==
  /\ inputBuffer \in [Positions -> Chars \cup {NUL}]
  /\ inputIndex \in Positions

(* Type invariant: every variable of the shell keeps its type.             *)
TypeOK ==
  /\ BufferOK
  /\ shellPrompt \in Seq(1 .. 127) /\ shown \in Seq(1 .. 127) /\ submitted \in Seq(Seq(Chars))
  /\ fg \in [1 .. 3 -> 0 .. 255] /\ bg \in [1 .. 3 -> 0 .. 255]
  /\ output \in Seq(Symbols)

(* What the user sees is what will be run: the last line of the console is *)
(* the prompt and the line in the buffer, whatever was typed, erased and   *)
(* executed before.                                                        *)
LineShown == shown = shellPrompt \o Line

(* The prompt stays well formed, although two functions with different     *)
(* checks put it together: it never outgrows its buffer, starts with a     *)
(* character and ends with the space.                                      *)
PromptWellFormed == WellFormed(shellPrompt)

(* A command that is refused changes no setting.                           *)
RefusedChangesNothing ==
  [][(\E i \in DOMAIN output' : output'[i] \in Errors) => UNCHANGED settings]_vars

(* The shell implements the line editor: whatever was typed and erased     *)
(* before, the C string that is parsed on Enter is the line as edited,     *)
(* neither cut at a NUL nor followed by characters that were erased.       *)
Editor == INSTANCE LineEditor WITH line <- Line, Limit <- MAX_INPUT_SIZE - 1
ImplementsLineEditor == Editor!Spec
=============================================================================
