SPECIFICATION Spec
CONSTANTS
  a1 = a1
  a2 = a2
  w1 = w1
  updater = updater
  NoAuth = NoAuth
  Auths = {a1, a2}
  Workers = {w1}
  Updaters = {updater}
  Interval <- MCInterval
  Lead <- MCLead
  Lifetimes = {1, 3}
  JobBuffer = 1
  PendingBackoff = 1
  FailureBackoff = 3
  IneffectiveBackoff = 1
  MaxTime = 2
  MaxUpdates = 2
  MaxResults = 1
CONSTRAINT Within
INVARIANTS NotForgotten TestsAgree
PROPERTIES DueIsRefreshed NoTightLoop
CHECK_DEADLOCK FALSE
