CONSTANTS
  Lines = {0, 1, 3}
  KeyEffects = {"returns", "reboots"}
  Builds = {TRUE, FALSE}
  TICKS = 4
  DATE_TICKS = 2
  ROOM = 2
SPECIFICATION Spec
INVARIANTS HandlersInPlace
PROPERTIES  RequestsServed
CHECK_DEADLOCK FALSE
