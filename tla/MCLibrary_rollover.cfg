SPECIFICATION LibrarySpec
CONSTANTS
  Characters <- AllStrings
  Families <- RolloverCalls
  Cells = 14
  Bits <- TheBits
  PRINTF_NTOA_BUFFER_SIZE = 6
  PRINTF_FTOA_BUFFER_SIZE = 8
  PRINTF_DEFAULT_FLOAT_PRECISION = 2
  PRINTF_MAX_FLOAT = 1000000
  FtoaDigits = 3
  DBL_MANT_DIG = 14
  MemorySize = 0
  Memories = {}
  Operations = {}
  INT_MAX = 127
INVARIANT RolloverHandled
CHECK_DEADLOCK FALSE
