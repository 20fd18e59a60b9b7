SPECIFICATION Spec
CONSTANTS
  COLS = 7
  ROWS = 3
  Messages <- MCMessages
  Outputs <- MCOutputs
  Letters <- MCLetters
  MAX_EARLY = 2
  MAX_LATE <- MCLate
INVARIANTS MessagesShown TypedIsShown
CHECK_DEADLOCK FALSE
