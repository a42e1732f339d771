SPECIFICATION Spec
CONSTANTS
  i1 = i1
  i2 = i2
  d1 = d1
  d2 = d2
  d3 = d3
  Item = {i1}
  Delivery = {d1, d3}
  ItemOf <- MCOneItem
  Batch = {b1, b2}
  NoBatch = NoBatch
  MaxItems = 2
  MaxDead = 2
  MaxAttempts = 2
  TTL = 1
  BackoffSteps = 1
  Backoff <- MCBackoff
  MayMangle = TRUE
  MaxTime = 1
  MaxLock = 1
INVARIANTS
  NoDuplicates
PROPERTIES
  RedeliveryKeepsState
  QuarantineFirst
  EveryDeliveryAnswered
CHECK_DEADLOCK FALSE
