CONSTANTS
  t1 = t1
  t2 = t2
  q1 = q1
  q2 = q2
  NoTarget = NoTarget
  Targets <- OneTarget
  Requesters <- OneRequester
  MaxJobs = 2
  MaxRuns = 4
  MaxSlots = 2
  MaxFaults = 2
  LateCalls = FALSE
  LongErrorTargets <- NoTargets
SPECIFICATION Spec
CONSTRAINT NoneDown
INVARIANT QueueInv
INVARIANT AdmittedReportIsCurrent
INVARIANT CapturesOnlyItsReservation
INVARIANT NoReservationIsForgotten
PROPERTY LifecycleSpec
INVARIANT FaultlessEvidenceIsKept
