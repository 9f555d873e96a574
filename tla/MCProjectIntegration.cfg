SPECIFICATION Spec
CONSTANTS
  alpha = alpha
  beta = beta
  main = main
  old = old
  extra = extra
  Process = {p1, p2, p3}
  Project = {alpha, beta}
  Path = {main, old, extra}
  Existing = {main, old}
  Bundle <- ApartBundle
  MaxFaults = 2
SYMMETRY Symmetry
INVARIANTS
  IntegrationTypeOK
  AdoptedIsWhole
  RefusedLeavesNothing
  AdoptionsExcluded
PROPERTY NothingDisplacedIsLost
CHECK_DEADLOCK FALSE
