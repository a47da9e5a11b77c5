SPECIFICATION Spec
CONSTANTS
  a1 = a1
  a2 = a2
  w1 = w1
  updater = updater
  NoAuth = NoAuth
  Auths = {a1}
  Workers = {w1}
  Updaters = {updater}
  Interval <- MCInterval
  Lead <- MCLead
  Lifetimes = {1, 3}
  JobBuffer = 1
  PendingBackoff = 1
  FailureBackoff = 3
  IneffectiveBackoff = 1
  MaxTime = 3
  MaxUpdates = 1
  MaxResults = 2
INVARIANTS FreshnessEvaluated
CHECK_DEADLOCK FALSE
