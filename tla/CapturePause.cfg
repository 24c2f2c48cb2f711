CONSTANTS
  t1 = t1
  t2 = t2
  q1 = q1
  q2 = q2
  NoTarget = NoTarget
  Targets <- OneTarget
  Requesters <- OneRequester
  MaxJobs = 1
  MaxRuns = 3
  MaxSlots = 2
  MaxFaults = 1
  LateCalls = FALSE
  LongErrorTargets <- OneTarget
SPECIFICATION FairSpec
PROPERTY ReservationsEnd
PROPERTY SwitchedOffDrains
