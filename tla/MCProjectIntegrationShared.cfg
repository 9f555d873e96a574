SPECIFICATION Spec
CONSTANTS
  alpha = alpha
  beta = beta
  main = main
  old = old
  extra = extra
  Process = {p1, p2}
  Project = {alpha, beta}
  Path = {main, old, extra}
  Existing = {main, old}
  Bundle <- SharedBundle
  MaxFaults = 0
SYMMETRY Symmetry
INVARIANT AdoptionSerialized
CHECK_DEADLOCK FALSE
