SPECIFICATION HSpec
CONSTANTS
  UserIds = {1}
  Usernames = {ann}
  Passwords = {p1, p2}
  NoPassword = NoPassword
  NoUser = NoUser
  ClaimKeys = {k}
  ClaimValues = {v}
  FailedCountMax = 1
  LockoutTimeout = 1
  Undefined = Undefined
  PostBodies <- OnePost
  PatchBodies <- LockPatches
  PartialAppliesDefaults = TRUE
  Requests = {r1, r2, r3}
  EagerQueries = TRUE
  MaxTime = 2
  ann = ann
  bob = bob
  p1 = p1
  p2 = p2
  k = k
  v = v
SYMMETRY Symmetry
INVARIANTS TypeOK TokensOwned GrantRecorded LockoutEarned
PROPERTIES LoginPromise
CHECK_DEADLOCK FALSE
