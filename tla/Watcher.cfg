SPECIFICATION Spec
CONSTANTS
  file = file
  one = one
  two = two
  account = account
  project = project
  key = key
  session = session
  r1 = r1
  r2 = r2
  Files = {file}
  Contents = {one, two}
  Projects = {account, project}
  Gives <- GivesOf
  Keys = {key}
  FilesProvider = {key}
  Sessions = {session}
  Reloaders = {r1, r2}
  Configs <- SomeConfigs
  Capacity = 1
  Budgets <- MixedPlans
  None = None
  Empty = Empty
  Broken = Broken
INVARIANTS TypeOK FollowsFiles FollowsSources ServiceFollows
PROPERTIES Settles
CHECK_DEADLOCK FALSE
