SPECIFICATION LibrarySpec
CONSTANTS
  Characters <- AllStrings
  Families <- AllCalls
  Cells = 14
  Bits <- TheBits
  PRINTF_NTOA_BUFFER_SIZE = 6
  PRINTF_FTOA_BUFFER_SIZE = 8
  PRINTF_DEFAULT_FLOAT_PRECISION = 2
  PRINTF_MAX_FLOAT = 1000000
  FtoaDigits = 3
  DBL_MANT_DIG = 14
  MemorySize = 5
  Memories <- FiveCells
  Operations <- AllOperations
  INT_MAX = 127
INVARIANTS LibraryTypeOK TextOrItsBeginning IntegerIsStandard FloatIsNearest FieldFilled
INVARIANTS CopiesComeOutWhole AnswersAreRight SplitsAsShellText
CHECK_DEADLOCK FALSE
