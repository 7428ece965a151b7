SPECIFICATION Spec
CONSTANTS
  Producers = {p1}
  Consumers = {c1}
  TimedConsumers = {c1}
  Items = {v1}
  NoItem = NoItem
  Capacity = 2
  Spurious = FALSE
PROPERTY ClearUnblocks
