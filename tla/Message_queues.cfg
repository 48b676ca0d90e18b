CONSTANTS
  Messages = {m1, m2, m3}
  Refused = {m3}
  Pods = {p1, p2}
  MaxFailures = 1
  MaxDisturbances = 1
SPECIFICATION Spec
INVARIANTS
  ConsumedInOrder
  RedisAtMostOnce
PROPERTIES
  KafkaServed
CHECK_DEADLOCK FALSE
