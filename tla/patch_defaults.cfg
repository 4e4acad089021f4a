SPECIFICATION ApiSpec
CONSTANTS
  UserIds = {1}
  Usernames = {ann, bob}
  Passwords = {p1, p2}
  NoPassword = NoPassword
  NoUser = NoUser
  ClaimKeys = {k1, k2}
  ClaimValues = {v}
  FailedCountMax = 1
  LockoutTimeout = 1
  Undefined = Undefined
  PostBodies <- PostBody
  PatchBodies <- PatchBody
  PartialAppliesDefaults = TRUE
  ann = ann
  bob = bob
  p1 = p1
  p2 = p2
  k1 = k1
  k2 = k2
  v = v
PROPERTIES PatchKeepsLock
CHECK_DEADLOCK FALSE
