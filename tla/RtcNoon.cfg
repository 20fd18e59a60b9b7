CONSTANTS
  main = main
  irq = irq
  SECS = 12
  CURRENT_YEAR = 2023
  Starts <- Noon
  RegistersB <- Modes
  MaxTicks = 2
  Readers <- JustMain
SPECIFICATION Spec
CHECK_DEADLOCK FALSE
INVARIANT TwentyFourHours
