SPECIFICATION Spec
CONSTANTS
  Instance = {a, b}
  None = None
  TTL = 3
  Prompt = {a, b}
  Mortal = {a, b}
  MayRestart = FALSE
  MayStop = TRUE
  MayFail = FALSE
  MayMangle = FALSE
PROPERTY
  ReleaseClearsOwnOnly
CHECK_DEADLOCK FALSE
