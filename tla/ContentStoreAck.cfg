SPECIFICATION Spec
CONSTANTS
  Meeting <- MCMeeting
  Half = {"transcript", "summary"}
  Items <- MCItems
  Client = {}
  Device = {d1}
  Stamp <- MCStamp
  OldStamps = {}
  Retention = 1
  MaxMeetings = 2
  MaxTombstones = 1
  RecentCap = 1
  MaxTime = 1
  MaxFaults = 0
  None = None
  m1 = m1
  m2 = m2
INVARIANTS
  ReconciledIsCopied
CHECK_DEADLOCK FALSE
