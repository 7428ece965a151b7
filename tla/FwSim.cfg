SPECIFICATION Spec
CONSTANTS
  Capacity = 2
  BurstLen = 2
  StallEvery = 2
  Script <- MCScript
  MaxTicks = 3
  MaxTimeouts = 1
INVARIANTS TypeOK Accounting StatusExact HealthyMeansAllBeat StatsAddUp PrintedInOrder
PROPERTY SelfTestEnds
