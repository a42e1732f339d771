SPECIFICATION Spec
CONSTANTS
  a1 = a1
  a2 = a2
  i1 = i1
  i2 = i2
  i3 = i3
  Address = {a1, a2}
  Item = {i1, i2, i3}
  AddressOf <- MCAddressOf
  Pass = {p1, p2}
  Slots = 1
  MaxPerPass = 2
  Purgeable = {i1}
  MaxDeliveries = 2
  MaxFaults = 1
  None = None
INVARIANTS
  TypeOK
  OnePassAtATime
  NudgeHasPass
  SlotsAreHeld
  BarredStaysOut
PROPERTIES
  DoneIsStored
  GatedLaneIsQuiet
  EveryDeliveryIsAnswered
