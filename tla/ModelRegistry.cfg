SPECIFICATION Spec
CONSTANTS
  c1 = c1
  c2 = c2
  c3 = c3
  p1 = p1
  p2 = p2
  m1 = m1
  m2 = m2
  r1 = r1
  NoProvider = NoProvider
  Clients = {c1, c2, c3}
  QuotaWindow = 2
  Models = {m1}
  Providers = {p1, p2}
  Readers = {r1}
  MaxCopies = 2
  MaxTime = 3
SYMMETRY RegistrySymmetry
INVARIANTS TypeOK CountsExact CacheFresh
