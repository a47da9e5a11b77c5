SPECIFICATION Spec
CONSTANTS
  s1 = s1
  s2 = s2
  p1 = p1
  r1 = r1
  r2 = r2
  None = None
  Sessions = {s1, s2}
  Providers = {p1}
  Provider <- MCProvider
  Requests = {r1, r2}
  Streaming = {r2}
  Buffer = 1
  MaxMessages = 3
  MaxStops = 1
CONSTRAINT Within
INVARIANTS TypeOK ClosedIsGone Complete CredentialFollowsSession
PROPERTIES  RequestEnds
CHECK_DEADLOCK FALSE
