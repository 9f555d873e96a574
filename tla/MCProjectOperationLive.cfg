SPECIFICATION FairOperationSpec
CONSTANTS
  a = a
  b = b
  c = c
  d = d
  o1 = o1
  Objective <- OneObjective
  Task <- Three
  ObjectiveOf <- OfOneObjective
  Dependencies <- Independent
  Conflict <- SharedByAC
  InitialPlan <- PlanOfTwo
  RecoveryKind = {"docker", "runtime_process"}
  Caller = {"operation", "decision"}
  MaxConcurrency = 2
  MaxReplans = 1
  MaxAttempts = 3
  MaxFaults = 1
PROPERTIES
  KeepsStateTransitions
  RunEnds
  RecoveryResumes
CHECK_DEADLOCK FALSE
