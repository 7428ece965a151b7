SPECIFICATION Spec
CONSTANTS
  Capacity = 2
  BurstLen = 2
  FaultModes = {"none", "overflow", "sensor"}
  MaxMade = 3
  MaxResets = 0
  MaxFaults = 1
INVARIANTS FlagsFollowFault StopIsPrompt
PROPERTY SamplesLeave
