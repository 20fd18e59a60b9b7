CONSTANTS
  Lines = {12}
  KeyEffects = {"returns"}
  Builds = {TRUE}
  TICKS = 4
  DATE_TICKS = 2
  ROOM = 2
SPECIFICATION Spec
PROPERTY SlaveRequestsServed
CHECK_DEADLOCK FALSE
