SPECIFICATION Spec
CONSTANTS
  i1 = i1
  i2 = i2
  d1 = d1
  d2 = d2
  d3 = d3
  Item = {i1, i2}
  Delivery = {d1, d2, d3}
  ItemOf <- MCItemOf
  Batch = {b1, b2, b3}
  NoBatch = NoBatch
  MaxItems = 1
  MaxDead = 1
  MaxAttempts = 2
  TTL = 1
  BackoffSteps = 1
  Backoff <- MCBackoff
  MayMangle = FALSE
  MaxTime = 1
  MaxLock = 1
SYMMETRY BatchSymmetry
INVARIANTS
  TypeOK
  AckedIsStored
  ClearSupersedes
  DeadIsJustified
  AtMostTwoLiveBatches
PROPERTIES
  BookSpec
CHECK_DEADLOCK FALSE
