SPECIFICATION Spec
CONSTANTS
  MaxPorts = 2
  MaxSlots = 2
  MaxPlugs = 1
  MaxReports = 1
INVARIANTS
  PortsInTurn
  InStep
  OneAnswer
CHECK_DEADLOCK FALSE
