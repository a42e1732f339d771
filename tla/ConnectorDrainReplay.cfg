SPECIFICATION Spec
CONSTANTS
  a1 = a1
  a2 = a2
  k1 = k1
  k2 = k2
  k3 = k3
  Address = {a1}
  Kick = {k1, k2, k3}
  AddressOf <- MCOneAddress
  None = None
  MaxConcurrent = 1
  Floor = 1
  MayStop = FALSE
  MayRestart = FALSE
  MaxTime = 1
  MaxVersion = 1
  Changing = {a1}
PROPERTY
  ReplayIsPrevious
CHECK_DEADLOCK FALSE
