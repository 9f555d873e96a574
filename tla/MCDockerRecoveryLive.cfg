SPECIFICATION LiveSpec
CONSTANTS
  Task = {t1}
  home = h
  Home = {h}
  HomeOf <- MCHomeOf
  Purpose = {container, network}
  Faults = {"runner", "resumable", "restart"}
  MaxCuts = 2
PROPERTY RecoveryCompletes
CHECK_DEADLOCK FALSE
