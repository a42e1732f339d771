SPECIFICATION Spec
CONSTANTS
  a1 = a1
  a2 = a2
  k1 = k1
  k2 = k2
  k3 = k3
  Address = {a1, a2}
  Kick = {k1, k2, k3}
  AddressOf <- MCAddressOf
  None = None
  MaxConcurrent = 1
  Floor = 1
  MayStop = TRUE
  MayRestart = TRUE
  MaxTime = 1
  MaxVersion = 1
  Changing = {a1}
INVARIANTS
  TypeOK
  OneDrainPerAddress
  SlotsAreExact
PROPERTIES
  KickIsHeard
  RevokedKickGetsNothing
  EveryKickAnswered
CHECK_DEADLOCK FALSE
