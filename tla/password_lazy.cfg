SPECIFICATION HFairSpec
CONSTANTS
  UserIds = {1, 2}
  Usernames = {ann, bob}
  Passwords = {p1, p2}
  NoPassword = NoPassword
  NoUser = NoUser
  ClaimKeys = {k}
  ClaimValues = {v}
  FailedCountMax = 1
  LockoutTimeout = 1
  Undefined = Undefined
  PostBodies <- OnePost
  PatchBodies <- NamePatches
  PartialAppliesDefaults = TRUE
  Requests = {r1}
  EagerQueries = FALSE
  MaxTime = 1
  ann = ann
  bob = bob
  p1 = p1
  p2 = p2
  k = k
  v = v
PROPERTIES AdminLockHolds LoginPromise EveryLoginAnswered
CHECK_DEADLOCK FALSE
