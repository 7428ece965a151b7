SPECIFICATION TimedSpec
CONSTANTS
  Capacity = 6
  BurstLen = 3
  StallEvery = 6
  Script <- MCScript
  MaxTicks = 100
  MaxTimeouts = 5
  MaxSlack = 8
INVARIANTS StallAtThirty SelfTestWarnsNothing SelfTestDropsNothing
