SPECIFICATION Spec
CONSTANTS
  Meeting <- MCMeeting
  Half = {"transcript", "summary"}
  Items <- MCItems
  Client = {c1}
  Device = {d1}
  Stamp <- MCStamp
  OldStamps = {0}
  Retention = 0
  MaxMeetings = 1
  MaxTombstones = 1
  RecentCap = 1
  MaxTime = 1
  MaxFaults = 1
  None = None
  m1 = m1
  m2 = m2
INVARIANTS
  TypeOK
  PurgedStaysGone
  TombstonedIsGone
  StorageBeforeAck
PROPERTIES
  ArchiveSpec
CHECK_DEADLOCK FALSE
