SPECIFICATION Spec
CONSTANTS
  p1 = p1
  p2 = p2
  p3 = p3
  q1 = q1
  q2 = q2
  Process = {p1, p2, p3}
  Queue = {q1, q2}
  Mortal = {p1}
  None = None
  Torn = Torn
  CrashPoints <- BeforeLock
  ThrowPoints <- NoStep
  MaxGeneration = 4
  MaxFaults = 1
CONSTRAINT Overlap
CHECK_DEADLOCK FALSE
INVARIANT LeaseExclusive
