SPECIFICATION Spec
CONSTANTS
  Task = {t1, t2}
  home = h
  Home = {h}
  HomeOf <- MCHomeOf
  Purpose = {container}
  Faults = {"runner", "recovery", "restart", "engine", "host"}
  MaxCuts = 1
INVARIANTS
  DockerTypeOK
  AbsenceIsReal
  ResourcesAreCovered
  RecoveredIsTrue
  StoppedMeansCut
CHECK_DEADLOCK FALSE
