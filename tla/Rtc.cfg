CONSTANTS
  main = main
  irq = irq
  SECS = 12
  CURRENT_YEAR = 2023
  Starts <- MCStarts
  RegistersB <- Modes
  MaxTicks = 2
  Readers <- MainAndIrq
SPECIFICATION Spec
CHECK_DEADLOCK FALSE
INVARIANTS DateOfOneMoment
PROPERTY CallsEnd
