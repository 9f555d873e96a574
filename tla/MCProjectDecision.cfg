\* Two processes, one decision, two acceptances, one fault.
CONSTANTS
  p1 = p1
  p2 = p2
  o1 = o1
  d1 = d1
  a1 = a1
  a2 = a2
  r1 = r1
  Process = {p1, p2}
  Objective = {o1}
  Decision = {d1}
  Acceptance = {a1, a2}
  Request = {r1}
  MaxGeneration = 4
  MaxIssues = 2
  MaxFaults = 1
SPECIFICATION DecisionSpec
SYMMETRY Symmetry
CONSTRAINT Bound
INVARIANTS
  DecisionTypeOK
  FinalizedMeansApplied
  AcceptanceHolds
PROPERTIES
  OnlyCurrentCapability
  QueueFollowsDecision
CHECK_DEADLOCK FALSE
