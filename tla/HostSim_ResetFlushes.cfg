SPECIFICATION Spec
CONSTANTS
  Capacity = 1
  BurstLen = 2
  FaultModes = {"none"}
  MaxMade = 2
  MaxResets = 1
  MaxFaults = 0
PROPERTY ResetFlushes
