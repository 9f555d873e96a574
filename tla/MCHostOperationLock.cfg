SPECIFICATION FairLockSpec
CONSTANTS
  a = a
  r = r
  s = s
  Owner = {a}
  Recoverer = {r, s}
  NoOne = NoOne
  MaxFaults = 1
INVARIANTS
  LockTypeOK
  HeldWhileRelied
  AnswerMeansGone
PROPERTIES
  LockSettles
CHECK_DEADLOCK FALSE
