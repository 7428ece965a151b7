SPECIFICATION Spec
CONSTANTS
  Capacity = 3
  MaxCommands = 6
INVARIANTS TypeOK TokenHasItem LagNeedsRecovery VerdictMatchesData
PROPERTIES StallReported NoFalseAlarm TelemetryFlows
