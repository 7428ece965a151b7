SPECIFICATION Spec
CONSTANTS
  Producers = {p1}
  Consumers = {c1, c2}
  TimedConsumers = {c1}
  Items = {v1, v2}
  NoItem = NoItem
  Capacity = 3
  Spurious = TRUE
INVARIANTS TypeOK RingInv NoLostWakeup
PROPERTIES FifoSpec BlockedConsumerServed
