SPECIFICATION EthereumFairSpec
CONSTANTS
  UserIds = {1}
  Usernames = {a1}
  Passwords = {p1}
  NoPassword = NoPassword
  NoUser = NoUser
  ClaimKeys = {"loginMethod"}
  ClaimValues = {"ethereum"}
  FailedCountMax = 1
  LockoutTimeout = 1
  Undefined = Undefined
  PostBodies <- OnePost
  PatchBodies <- LockPatch
  PartialAppliesDefaults = TRUE
  RequestIds = {q1}
  Requests = {r1, r2}
  Addresses = {a1}
  Established = {a1}
  NonceTtl = 1
  SilentCache = FALSE
  MaxTime = 1
  a1 = a1
  a2 = a2
  p1 = p1
PROPERTIES EveryLoginAnswered
CHECK_DEADLOCK FALSE
