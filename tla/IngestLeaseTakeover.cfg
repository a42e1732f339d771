SPECIFICATION Spec
CONSTANTS
  Instance = {a, b, c}
  None = None
  TTL = 3
  Prompt = {a, b}
  Mortal = {a, c}
  MayRestart = FALSE
  MayStop = TRUE
  MayFail = FALSE
  MayMangle = FALSE
INVARIANTS
  UsurpedHolderStops
PROPERTIES
  SeatIsTaken
CHECK_DEADLOCK FALSE
