------------------------------ MODULE IdpService ------------------------------
(***************************************************************************)
(* The service put together: the administrators' requests behind the       *)
(* guards, the CLI and the logins, all on the same tables, and a clock.    *)
(* Of a login this module keeps what PasswordLogin and EthereumLogin show  *)
(* of it: it reads an account, then the claims of that account, and later  *)
(* signs and records a token for what it read.  adminUntil and namedUntil  *)
(* are history: they only watch.                                           *)
(***************************************************************************)
EXTENDS RequestGuards, UserCli, FiniteSets

CONSTANTS
  Logins,      \* logins under way at a time
  Addresses,   \* usernames an identity provider vouches for
  MaxTokens,   \* bound on the tokens signed
  MaxTime      \* bound on the clock

ASSUME ServiceAssumption ==
  /\ Addresses \subseteq Usernames
  /\ "loginMethod" \in ClaimKeys /\ "ethereum" \in ClaimValues
  /\ MaxTokens \in Nat
  /\ MaxTime \in Nat

VARIABLES
  login,       \* login[s]: what login s has read of an account, or NoUser
  adminUntil,  \* adminUntil[id]: the first tick after id was last an administrator
  namedUntil   \* namedUntil[id][u]: the first tick after id was last named u

vars == <<now, users, user_claims, user_tokens, serial,
          jwts, pc, context, found, login, adminUntil, namedUntil>>

Admins == {id \in live : Admin(claimsOf(id))}

Init ==
  /\ now = 0
  /\ TablesInit
  /\ GuardInit
  /\ CliInit
  /\ login = [s \in Logins |-> NoUser]
  /\ adminUntil = [id \in UserIds |-> 0]
  /\ namedUntil = [id \in UserIds |-> [u \in Usernames |-> 0]]
-----------------------------------------------------------------------------
ReadAccount(s) ==
  /\ login[s] = NoUser
  /\ \E id \in live :
       login' = [login EXCEPT ![s] =
         [id |-> id, username |-> users[id].username, claims |-> Records!NoClaims,
          read |-> now, next |-> "claims"]]
  /\ UNCHANGED <<now, tables, guardVars, found>>

(* include: { claims: true }: a SELECT of its own, on the id just read.    *)
ReadClaims(s) ==
  /\ login[s] # NoUser
  /\ login[s].next = "claims"
  /\ login' = [login EXCEPT ![s].claims = claimsOf(login[s].id), ![s].next = "sign"]
  /\ UNCHANGED <<now, tables, guardVars, found>>

GrantToken(s) ==
  /\ login[s] # NoUser
  /\ login[s].next = "sign"
  /\ Cardinality(jwts) < MaxTokens
  /\ LET token == sign(login[s], login[s].read)
     IN  /\ createToken(login[s].id, "password", token)
         /\ jwts' = jwts \cup {token}
  /\ login' = [login EXCEPT ![s] = NoUser]
  /\ UNCHANGED <<now, pc, context, found>>

LoginFails(s) ==
  /\ login[s] # NoUser
  /\ login' = [login EXCEPT ![s] = NoUser]
  /\ UNCHANGED <<now, tables, guardVars, found>>

(* The first login of an address. *)
FirstLogin(address) ==
  /\ \E id \in UserIds, modifiedBy \in Providers :
       createByProvider(id, address, "ethereum", modifiedBy)
  /\ UNCHANGED <<now, guardVars, found, login>>

Tick ==
  /\ now < MaxTime
  /\ now' = now + 1
  /\ UNCHANGED <<tables, guardVars, found, login>>

LoginNext ==
  \/ \E s \in Logins : ReadAccount(s) \/ ReadClaims(s) \/ GrantToken(s) \/ LoginFails(s)
  \/ \E address \in Addresses : FirstLogin(address)

Watch ==
  /\ adminUntil' = [id \in UserIds |-> IF id \in Admins' THEN now' + 1 ELSE adminUntil[id]]
  /\ namedUntil' = [id \in UserIds |-> [u \in Usernames |->
       IF id \in live' /\ users'[id].username = u THEN now' + 1 ELSE namedUntil[id][u]]]

Next ==
  /\ \/ GuardNext /\ UNCHANGED <<found, login>>
     \/ CliNext /\ UNCHANGED <<guardVars, login>>
     \/ LoginNext
     \/ Tick
  /\ Watch

Spec == Init /\ [][Next]_vars
-----------------------------------------------------------------------------
(* Tables, tokens, guards, commands and history are well typed.            *)
TypeOK ==
  /\ TablesTypeOK
  /\ user_tokens \subseteq [userId : UserIds, createdAt : Nat,
                           loginMethod : {"password"}, value : jwts]
  /\ pc \in [Requests -> {"idle", "authenticated", "authorized"}]
  /\ context \in [Requests -> jwts \cup {NoToken}]
  /\ found \in [Commands -> [id : UserIds, username : Usernames, createdAt : Nat] \cup {NoUser}]
  /\ adminUntil \in [UserIds -> Nat]
  /\ namedUntil \in [UserIds -> [Usernames -> Nat]]

(* What the other modules take a user for, one record with its claims,     *)
(* these tables implement: names are unique, ids do not come back, and a   *)
(* deleted user takes claims and tokens along, in whatever order requests, *)
(* commands and logins reach the database.                                 *)
TablesImplementRecords == Records!StoreSpec

(* A token is verified by its signature and its expiry only, so its claims *)
(* outlive a PATCH, a rename and the account, and it may pair a name with  *)
(* claims that the account got when it was renamed since.  By how much is  *)
(* bounded: one account was called what the token's subject is, and was an *)
(* administrator, each less than a token's lifetime and the length of the  *)
(* login before the guard lets the token in.                               *)
AuthorityRecent ==
  [][\A r \in Requests :
       pc[r] = "idle" /\ pc'[r] = "authenticated" =>
         LET t == context'[r]
         IN  Admin(t.claims) => \E id \in UserIds :
               \A until \in {adminUntil[id], namedUntil[id][t.sub]} :
                 now + 1 + t.read < until + TokenLifetime + t.iat]_vars

(* createdBy and updatedBy name the system, an identity provider, or an    *)
(* account that has been an administrator by a name it has had, even when  *)
(* the account of the token that signed for it was renamed or deleted      *)
(* before the write, and whatever its claims name as "sub".                *)
AuditNamesAdmin ==
  \A id \in live : \A by \in {users[id].createdBy, users[id].updatedBy} :
    \/ by \in Providers \cup {DEFAULT_MODIFIED_BY}
    \/ by \in Usernames /\ \E who \in UserIds : adminUntil[who] > 0 /\ namedUntil[who][by] > 0
=============================================================================
