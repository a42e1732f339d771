SPECIFICATION Spec
CONSTANTS
  Instance = {a, b, c}
  None = None
  TTL = 3
  Prompt = {a, b, c}
  Mortal = {a, b, c}
  MayRestart = TRUE
  MayStop = FALSE
  MayFail = TRUE
  MayMangle = TRUE
INVARIANTS
  TypeOK
  TickingWorkerNeedsSeat
PROPERTIES
  SeatIsNotStolen
  HeldSeatIsNotShared
CHECK_DEADLOCK FALSE
