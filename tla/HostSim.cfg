SPECIFICATION Spec
CONSTANTS
  Capacity = 2
  BurstLen = 2
  FaultModes = {"none"}
  MaxMade = 3
  MaxResets = 1
  MaxFaults = 0
INVARIANTS TypeOK Accounting SequencesDense
PROPERTIES PrintedInOrder StopTerminates
