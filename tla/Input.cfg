CONSTANTS
  HEAP_BEGIN = 64
  HEAP_SIZE = 700
  UINT32 = 2048
  LINE_CLI_SIZE = 40
  DATE_SIZE = 32
  MaxLeaks = 1
  Lines <- MCLines
  WordLength <- MCWordLength
  Kind <- MCKind
  AsDirectory <- MCAsDirectory
  Junk = "junk"
  w1 = w1
  w2 = w2
  w3 = w3
  bg = bg
  bar = bar
  Windows <- MCWindows
  background_window = bg
  top_bar_window = bar
  NULL = NULL
SPECIFICATION Spec
PROPERTIES ArgumentsPassed
INVARIANTS BlocksReturned TextsFit ExhaustedOnlyByLeaks WindowsSound
SYMMETRY Symmetry
CHECK_DEADLOCK FALSE
