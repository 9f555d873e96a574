SPECIFICATION StateSpec
CONSTANTS
  a = a
  b = b
  c = c
  r = r
  o1 = o1
  o2 = o2
  operation = operation
  decision = decision
  Objective <- ChainObjective
  Task <- ChainTask
  ObjectiveOf <- ChainObjectiveOf
  Dependencies <- ChainDependencies
  Conflict <- ChainConflict
  InitialPlan <- ChainPlan
  RecoveryKind = {"docker"}
  Caller = {operation, decision}
  MaxConcurrency = 2
  MaxReplans = 1
  MaxAttempts = 2
SYMMETRY AlikeCallers
INVARIANTS
  TypeOK
  StoreAccepts
  ConflictsExcluded
PROPERTIES
  RecoveryNotSkipped
  SelectionSurvivesReservation
  SchedulesTasks
  AcceptsInStages
CHECK_DEADLOCK FALSE
