SPECIFICATION OperationSpec
CONSTANTS
  a = a
  b = b
  c = c
  d = d
  o1 = o1
  Objective <- OneObjective
  Task <- Four
  ObjectiveOf <- OfOneObjective
  Dependencies <- Independent
  Conflict <- SharedByAD
  InitialPlan <- PlanOfThree
  RecoveryKind = {"docker", "runtime_process"}
  Caller = {"operation", "decision"}
  MaxConcurrency = 2
  MaxReplans = 1
  MaxAttempts = 4
  MaxFaults = 2
INVARIANTS
  OperationTypeOK
  EffectsAreRecorded
  EffectsExcluded
  CapacityRespected
CHECK_DEADLOCK FALSE
