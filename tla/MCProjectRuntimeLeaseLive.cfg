SPECIFICATION FairSpec
CONSTANTS
  p1 = p1
  p2 = p2
  p3 = p3
  q1 = q1
  q2 = q2
  Process = {p1, p2, p3}
  Queue = {q1}
  Mortal = {p1}
  None = None
  Torn = Torn
  CrashPoints <- CleanCrash
  ThrowPoints <- NoStep
  MaxGeneration = 1
  MaxFaults = 1
CHECK_DEADLOCK FALSE
PROPERTIES
  AbandonedLeaseCleared
  AbandonedEntryTaken
