SPECIFICATION Spec
CONSTANTS
  p1 = p1
  p2 = p2
  p3 = p3
  q1 = q1
  q2 = q2
  Process = {p1, p2, p3}
  Queue = {q1, q2}
  Mortal = {p1, p2, p3}
  None = None
  Torn = Torn
  CrashPoints <- EveryStep
  ThrowPoints <- FailingSteps
  MaxGeneration = 2
  MaxFaults = 1
SYMMETRY Symmetry
CHECK_DEADLOCK FALSE
INVARIANTS
  LeaseTypeOK
  WorkerOwnsEntry
PROPERTIES
  OwnerClearedAfterLease
