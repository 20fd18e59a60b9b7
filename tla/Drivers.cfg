CONSTANTS
  Machines <- MCMachines
  LateWaits <- MCLate
  Lights <- MCLights
  MAX_KEYS = 1
SPECIFICATION KSpec
INVARIANTS InSync PortsMatchDevices KeyboardFree
PROPERTIES LightsEnd
CHECK_DEADLOCK FALSE
