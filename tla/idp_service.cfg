SPECIFICATION Spec
CONSTANTS
  UserIds = {1, 2}
  Usernames = {"ann", "bob"}
  Passwords = {"p1"}
  NoPassword = NoPassword
  NoUser = NoUser
  ClaimKeys = {"users", "sub", "loginMethod"}
  ClaimValues = {"admin", "bob", "ethereum"}
  FailedCountMax = 1
  LockoutTimeout = 1
  Undefined = Undefined
  PostBodies <- OnePost
  PatchBodies <- TwoPatches
  PartialAppliesDefaults = TRUE
  Providers = {"ethereum(bob)"}
  Requests = {r1}
  TokenLifetime = 1
  NoToken = NoToken
  Commands = {c1}
  Logins = {s1}
  Addresses = {"bob"}
  MaxTokens = 2
  MaxTime = 1
INVARIANTS TypeOK KeysHold AuditNamesAdmin
PROPERTIES TablesImplementRecords HandlersImplementApi AuthorityRecent DeletesUserFound
CHECK_DEADLOCK FALSE
