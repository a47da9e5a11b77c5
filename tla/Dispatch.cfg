SPECIFICATION Spec
CONSTANTS
  p1 = p1
  p2 = p2
  single = single
  mixed = mixed
  Auths = {1, 2, 3, 4, 5}
  Providers = {p1, p2}
  ProviderOf <- MCProviderOf
  Priority <- MCPriority
  Parent <- MCParent
  Requests = {single, mixed}
  List <- MCList
  Stream = {mixed}
  Leaving = {mixed}
  Kinds = {"invalid", "limited", "transient", "missing", "other"}
  Cooldown <- MCCooldown
  NoCooling = {2, 5}
  Retry <- MCRetry
  MaxWait = 1
  Fleets <- MCFleets
INVARIANTS TypeOK CallsBounded RecordedOnce OneStream CredentialsTakeTurns ProvidersTakeTurns
PROPERTIES WaitPaysOff EachRequestEnds
