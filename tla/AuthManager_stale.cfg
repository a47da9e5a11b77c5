SPECIFICATION Spec
CONSTANTS
  a1 = a1
  m1 = m1
  m2 = m2
  r1 = r1
  r2 = r2
  consumer = consumer
  updater = updater
  refresher = refresher
  NoAuth = NoAuth
  BackoffBase = 1
  BackoffMax = 2
  BackoffLimit = 1
  TransientCooldown = 1
  AccountCooldown = 2
  MissingCooldown = 3
  Models = {m1, m2}
  Auths = {a1}
  NoCooling = {}
  Requests = {r1, r2}
  Consumers = {consumer}
  Updaters = {updater}
  Refreshers = {refresher}
  RetryAfters = {0, 2}
  MaxTime = 1
  MaxPrograms = 3
  Scenarios <- Updating
INVARIANTS NoStaleRegistration
CHECK_DEADLOCK FALSE
