SPECIFICATION Spec
CONSTANTS
  Foreground = {f1, f2, f3}
  Background = {g1, g2}
  None = None
  Burst = 4
INVARIANTS
  TypeOK
  BoundedOvertaking
  WorkConserving
  TimedOutNeverRuns
PROPERTIES
  EveryJobStarts
