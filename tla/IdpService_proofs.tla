--------------------------- MODULE IdpService_proofs ---------------------------
(***************************************************************************)
(* Theorems about the service put together, for every number of users,     *)
(* requests, commands, logins and tokens, and every length of its history. *)
(***************************************************************************)
EXTENDS IdpService, RelationalStore_proofs

Token == [sub : Usernames, claims : Records!Claims, exp : Nat, iat : Nat, read : Nat]

ReadAccounts == [id : UserIds, username : Usernames, claims : Records!Claims, read : Nat,
                 next : {"claims", "sign"}]

TypeInv ==
  /\ TypeOK
  /\ KeysHold
  /\ jwts \subseteq Token
  /\ login \in [Logins -> ReadAccounts \cup {NoUser}]
  /\ \A r \in Requests : pc[r] # "idle" => context[r] \in jwts

LEMMA SignType ==
  ASSUME TypeInv, NEW account \in ReadAccounts
  PROVE  /\ sign(account, account.read) \in Token
         /\ Admin(sign(account, account.read).claims) => Admin(account.claims)
<1> DEFINE claims == [k \in DOMAIN account.claims \ Registered |-> account.claims[k]]
<1>1. PICK K \in SUBSET ClaimKeys : account.claims \in [K -> ClaimValues]
  BY DEF ReadAccounts, Records!Claims
<1>2. claims \in Records!Claims
  <2>1. claims \in [K \ Registered -> ClaimValues]
    BY <1>1
  <2> QED
    BY <2>1 DEF Records!Claims
<1>3. Admin(claims) => Admin(account.claims)
  BY <1>1 DEF Admin, Has
<1>4. now + TokenLifetime \in Nat
  BY GuardAssumption DEF TypeInv, TypeOK, TablesTypeOK
<1> QED
  BY <1>2, <1>3, <1>4 DEF sign, Token, ReadAccounts, TypeInv, TypeOK, TablesTypeOK

(* What each step does to the tables, its arguments typed.                 *)
LEMMA HandlerStep ==
  ASSUME TypeInv, NEW r \in Requests, NEW call \in Call, Handler(r, call)
  PROVE  TableStep
<1>1. context[r].sub \in Modifiers
  BY DEF Handler, TypeInv, Token, Modifiers
<1>2. CASE call.op = "post"
  <2> DEFINE dto == Records!userCreateDtoSchema(call.body)
  <2>1. call.id \in UserIds /\ call.body \in Records!PostBody
    BY <1>2, TablesAssumption DEF Call
  <2>2. /\ dto.username \in Usernames /\ dto.password \in Passwords \cup {NoPassword}
        /\ dto.isLocked \in BOOLEAN /\ dto.claims \in Records!Claims
    BY <2>1, ParsedBodyType DEF Records!PostBody, Records!PatchBody
  <2>3. create(call.id, dto, context[r].sub)
    BY <1>2 DEF Handler, Statement
  <2> HIDE DEF dto
  <2> QED
    BY <1>1, <2>1, <2>2, <2>3 DEF create, TableStep
<1>3. CASE call.op = "patch"
  <2> DEFINE dto == Records!userUpdateDtoSchema(call.body)
  <2>1. call.id \in UserIds /\ dto \in Records!PatchBody
    BY <1>3, ParsedBodyType, TablesAssumption DEF Call
  <2>2. updateById(call.id, dto, context[r].sub)
    BY <1>3 DEF Handler, Statement
  <2> HIDE DEF dto
  <2> QED
    BY <1>1, <2>1, <2>2 DEF TableStep
<1>4. CASE call.op = "delete"
  BY <1>4 DEF Handler, Statement, Call, TableStep
<1> QED
  BY <1>2, <1>3, <1>4 DEF Call

LEMMA AddUserStep ==
  ASSUME NEW username \in Usernames, NEW password \in Passwords, addUser(username, password)
  PROVE  TableStep
<1>1. adminClaims \in Records!Claims
  <2>1. adminClaims \in [{"users"} -> ClaimValues]
    BY CliAssumption DEF adminClaims
  <2> QED
    BY <2>1, CliAssumption DEF Records!Claims
<1>2. PICK id \in UserIds :
        create(id, [username |-> username, password |-> password,
                    isLocked |-> FALSE, claims |-> adminClaims], DEFAULT_MODIFIED_BY)
  BY DEF addUser
<1>3. InsertRow(id, DEFAULT_MODIFIED_BY, username, password, FALSE, adminClaims)
  BY <1>2 DEF create
<1> QED
  BY <1>1, <1>3 DEF TableStep, Modifiers

LEMMA FirstLoginStep ==
  ASSUME NEW address \in Addresses, FirstLogin(address)
  PROVE  TableStep
<1> DEFINE claims == [key \in {"loginMethod"} |-> "ethereum"]
<1>1. claims \in Records!Claims
  <2>1. claims \in [{"loginMethod"} -> ClaimValues]
    BY ServiceAssumption
  <2> QED
    BY <2>1, ServiceAssumption DEF Records!Claims
<1>2. PICK id \in UserIds, by \in Providers : createByProvider(id, address, "ethereum", by)
  BY DEF FirstLogin
<1>3. InsertRow(id, by, address, NoPassword, FALSE, claims)
  BY <1>2 DEF createByProvider
<1> HIDE DEF claims
<1> QED
  BY <1>1, <1>3, ServiceAssumption DEF TableStep, Modifiers
-----------------------------------------------------------------------------
LEMMA InitType == Init => TypeInv
<1> SUFFICES ASSUME Init PROVE TypeInv
  OBVIOUS
<1>1. live = {}
  BY DEF Init, TablesInit, live
<1>2. KeysHold
  BY <1>1 DEF Init, TablesInit, KeysHold
<1> QED
  BY <1>2 DEF Init, TablesInit, GuardInit, CliInit, TypeInv, TypeOK, TablesTypeOK

(* Either the step leaves the tables alone, or it is one of theirs.        *)
LEMMA StepOfTables ==
  ASSUME TypeInv, Next
  PROVE  \/ UNCHANGED tables /\ now' \in Nat /\ now' >= now
         \/ TableStep /\ now' = now
<1> USE DEF TypeInv, TypeOK, TablesTypeOK
<1>1. CASE GuardNext
  <2>1. ASSUME NEW r \in Requests, NEW call \in Call, Handler(r, call)
        PROVE  TableStep /\ now' = now
    BY <2>1, HandlerStep DEF Handler
  <2> QED
    BY <1>1, <2>1 DEF GuardNext, AuthenticationGuard, ClaimsGuard, Refuse
<1>2. CASE CliNext
  <2>1. ASSUME NEW username \in Usernames, NEW password \in Passwords,
               addUser(username, password)
        PROVE  TableStep /\ now' = now
    BY <2>1, AddUserStep DEF addUser
  <2>2. ASSUME NEW c \in Commands, deleteUser(c)
        PROVE  TableStep /\ now' = now
    <3>1. found[c].id \in UserIds
      BY <2>2 DEF deleteUser
    <3> QED
      BY <2>2, <3>1 DEF deleteUser, TableStep
  <2> QED
    BY <1>2, <2>1, <2>2 DEF CliNext, findUser, commandFails
<1>3. CASE LoginNext
  <2>1. ASSUME NEW s \in Logins, GrantToken(s)
        PROVE  TableStep /\ now' = now
    <3>1. login[s].id \in UserIds
      BY <2>1 DEF GrantToken, ReadAccounts
    <3>2. \E value : createToken(login[s].id, "password", value)
      BY <2>1 DEF GrantToken
    <3> QED
      BY <2>1, <3>1, <3>2 DEF GrantToken, TableStep
  <2>2. ASSUME NEW address \in Addresses, FirstLogin(address)
        PROVE  TableStep /\ now' = now
    BY <2>2, FirstLoginStep DEF FirstLogin
  <2>3. ASSUME NEW s \in Logins, ReadAccount(s) \/ ReadClaims(s) \/ LoginFails(s)
        PROVE  UNCHANGED tables /\ now' = now
    BY <2>3 DEF ReadAccount, ReadClaims, LoginFails
  <2> QED
    BY <1>3, <2>1, <2>2, <2>3 DEF LoginNext
<1>4. CASE Tick
  BY <1>4 DEF Tick
<1> QED
  BY <1>1, <1>2, <1>3, <1>4 DEF Next

LEMMA SuccessorType == \A n \in Nat : n + 1 \in Nat
  OBVIOUS

LEMMA WatchType ==
  ASSUME Watch, now' \in Nat, adminUntil \in [UserIds -> Nat],
         namedUntil \in [UserIds -> [Usernames -> Nat]]
  PROVE  /\ adminUntil' \in [UserIds -> Nat]
         /\ namedUntil' \in [UserIds -> [Usernames -> Nat]]
<1>1. now' + 1 \in Nat
  BY SuccessorType, Zenon
<1>2. adminUntil' \in [UserIds -> Nat]
  <2> DEFINE until(id) == IF id \in Admins' THEN now' + 1 ELSE adminUntil[id]
  <2>1. \A id \in UserIds : until(id) \in Nat
    BY <1>1, Zenon
  <2>2. adminUntil' = [id \in UserIds |-> until(id)]
    BY Zenon DEF Watch
  <2> HIDE DEF until
  <2> QED
    BY <2>1, <2>2
<1>3. namedUntil' \in [UserIds -> [Usernames -> Nat]]
  <2> DEFINE until(id, u) ==
        IF id \in live' /\ users'[id].username = u THEN now' + 1 ELSE namedUntil[id][u]
  <2>1. \A id \in UserIds, u \in Usernames : until(id, u) \in Nat
    BY <1>1, Zenon
  <2>2. namedUntil' = [id \in UserIds |-> [u \in Usernames |-> until(id, u)]]
    BY Zenon DEF Watch
  <2> HIDE DEF until
  <2> QED
    BY <2>1, <2>2
<1> QED
  BY <1>2, <1>3

(* What the guards, the commands and the logins keep of their own.         *)
OwnTypeOK ==
  /\ user_tokens \subseteq [userId : UserIds, createdAt : Nat,
                           loginMethod : {"password"}, value : jwts]
  /\ jwts \subseteq Token
  /\ pc \in [Requests -> {"idle", "authenticated", "authorized"}]
  /\ context \in [Requests -> jwts \cup {NoToken}]
  /\ \A r \in Requests : pc[r] # "idle" => context[r] \in jwts
  /\ found \in [Commands -> [id : UserIds, username : Usernames, createdAt : Nat] \cup {NoUser}]
  /\ login \in [Logins -> ReadAccounts \cup {NoUser}]

LEMMA GuardStepType ==
  ASSUME TypeInv, GuardNext, UNCHANGED <<found, login>>
  PROVE  OwnTypeOK'
<1> USE DEF TypeInv, TypeOK, OwnTypeOK
<1>1. PICK r \in Requests :
        \/ \E token \in jwts : AuthenticationGuard(r, token)
        \/ ClaimsGuard(r)
        \/ \E call \in Call : Handler(r, call)
        \/ Refuse(r)
  BY DEF GuardNext
<1>2. ASSUME NEW token \in jwts, AuthenticationGuard(r, token) PROVE OwnTypeOK'
  BY <1>2 DEF AuthenticationGuard, Goto, tables
<1>3. CASE ClaimsGuard(r)
  BY <1>3 DEF ClaimsGuard, Goto, tables
<1>4. ASSUME NEW call \in Call, Handler(r, call) PROVE OwnTypeOK'
  <2>1. user_tokens' \subseteq user_tokens
    BY <1>4 DEF Handler, Statement, create, InsertRow, updateById, deleteById
  <2>2. Answer(r) /\ jwts' = jwts
    BY <1>4 DEF Handler
  <2> QED
    BY <2>1, <2>2 DEF Answer, Goto
<1>5. CASE Refuse(r)
  BY <1>5 DEF Refuse, Answer, Goto, tables
<1> QED
  BY <1>1, <1>2, <1>3, <1>4, <1>5

LEMMA CliStepType ==
  ASSUME TypeInv, CliNext, UNCHANGED <<guardVars, login>>
  PROVE  OwnTypeOK'
<1> USE DEF TypeInv, TypeOK, OwnTypeOK, guardVars
<1>1. ASSUME NEW username \in Usernames, NEW password \in Passwords, addUser(username, password)
      PROVE  OwnTypeOK'
  BY <1>1 DEF addUser, create, InsertRow
<1>2. ASSUME NEW c \in Commands, NEW username \in Usernames, findUser(c, username)
      PROVE  OwnTypeOK'
  <2>1. PICK id \in live :
          found' = [found EXCEPT ![c] =
            [id |-> id, username |-> username, createdAt |-> users[id].createdAt]]
    BY <1>2 DEF findUser
  <2>2. id \in UserIds /\ users[id].createdAt \in Nat
    BY DEF live, TablesTypeOK, Columns
  <2> QED
    BY <1>2, <2>1, <2>2 DEF findUser, tables
<1>3. ASSUME NEW c \in Commands, deleteUser(c) PROVE OwnTypeOK'
  BY <1>3 DEF deleteUser, deleteById
<1>4. ASSUME NEW c \in Commands, commandFails(c) PROVE OwnTypeOK'
  BY <1>4 DEF commandFails, tables
<1> QED
  BY <1>1, <1>2, <1>3, <1>4 DEF CliNext

LEMMA EmptyClaims == Records!NoClaims \in Records!Claims /\ ~Admin(Records!NoClaims)
  BY DEF Records!NoClaims, Records!Claims, Admin, Has

LEMMA LoginStepType ==
  ASSUME TypeInv, LoginNext
  PROVE  OwnTypeOK'
<1> USE DEF TypeInv, TypeOK, OwnTypeOK
<1>1. ASSUME NEW s \in Logins, ReadAccount(s) PROVE OwnTypeOK'
  <2>1. PICK id \in live :
          login' = [login EXCEPT ![s] =
            [id |-> id, username |-> users[id].username, claims |-> Records!NoClaims,
             read |-> now, next |-> "claims"]]
    BY <1>1 DEF ReadAccount
  <2>2. id \in UserIds /\ users[id].username \in Usernames /\ now \in Nat
    BY DEF live, TablesTypeOK, Columns
  <2> QED
    BY <1>1, <2>1, <2>2, EmptyClaims DEF ReadAccount, ReadAccounts, tables, guardVars
<1>5. ASSUME NEW s \in Logins, ReadClaims(s) PROVE OwnTypeOK'
  <2>1. login[s] \in ReadAccounts
    BY <1>5 DEF ReadClaims
  <2>2. claimsOf(login[s].id) \in Records!Claims
    BY PairsOfType DEF claimsOf, TablesTypeOK
  <2> QED
    BY <1>5, <2>1, <2>2 DEF ReadClaims, ReadAccounts, tables, guardVars
<1>2. ASSUME NEW s \in Logins, GrantToken(s) PROVE OwnTypeOK'
  <2> DEFINE token == sign(login[s], login[s].read)
  <2>1. login[s] \in ReadAccounts
    BY <1>2 DEF GrantToken
  <2>2. token \in Token
    BY <2>1, SignType
  <2>3. login[s].id \in UserIds /\ now \in Nat
    BY <2>1 DEF ReadAccounts, TablesTypeOK
  <2>4. /\ jwts' = jwts \cup {token}
        /\ user_tokens' = user_tokens \cup
             {[userId |-> login[s].id, createdAt |-> now,
               loginMethod |-> "password", value |-> token]}
        /\ login' = [login EXCEPT ![s] = NoUser]
        /\ UNCHANGED <<pc, context, found>>
    BY <1>2 DEF GrantToken, createToken
  <2> HIDE DEF token
  <2> QED
    BY <2>2, <2>3, <2>4
<1>3. ASSUME NEW s \in Logins, LoginFails(s) PROVE OwnTypeOK'
  BY <1>3 DEF LoginFails, tables, guardVars
<1>4. ASSUME NEW address \in Addresses, FirstLogin(address) PROVE OwnTypeOK'
  BY <1>4 DEF FirstLogin, createByProvider, InsertRow, guardVars
<1> QED
  BY <1>1, <1>2, <1>3, <1>4, <1>5 DEF LoginNext

LEMMA StepType == TypeInv /\ [Next]_vars => TypeInv'
<1> SUFFICES ASSUME TypeInv, [Next]_vars PROVE TypeInv'
  OBVIOUS
<1>1. CASE Next
  <2>1. TablesTypeOK' /\ KeysHold'
    BY <1>1, StepOfTables, TableStepKeeps, TablesKept
       DEF TypeInv, TypeOK, TablesTypeOK, tables
  <2>2. OwnTypeOK'
    <3>1. CASE Tick
      BY <3>1 DEF Tick, TypeInv, TypeOK, OwnTypeOK, tables, guardVars
    <3> QED
      BY <1>1, <3>1, GuardStepType, CliStepType, LoginStepType DEF Next
  <2>3. /\ adminUntil' \in [UserIds -> Nat]
        /\ namedUntil' \in [UserIds -> [Usernames -> Nat]]
    <3>1. now' \in Nat
      BY <2>1 DEF TablesTypeOK
    <3> QED
      BY <1>1, <3>1, WatchType DEF Next, TypeInv, TypeOK
  <2> QED
    BY <2>1, <2>2, <2>3 DEF TypeInv, TypeOK, OwnTypeOK
<1>2. CASE UNCHANGED vars
  <2>1. UNCHANGED tables
    BY <1>2 DEF vars, tables
  <2>2. KeysHold'
    BY <2>1, TablesKept DEF TypeInv
  <2> QED
    BY <1>2, <2>2 DEF vars, TypeInv, TypeOK, TablesTypeOK
<1> QED
  BY <1>1, <1>2

(* The tables, the tokens and the guards keep to their types.              *)
THEOREM ServiceTypeCorrect == Spec => []TypeOK
<1>1. TypeInv => TypeOK
  BY DEF TypeInv
<1> QED
  BY InitType, StepType, <1>1, PTL DEF Spec

(* The keys of the tables hold, whatever requests, commands and logins run.*)
THEOREM ServiceKeysHold == Spec => []KeysHold
<1>1. TypeInv => KeysHold
  BY DEF TypeInv
<1> QED
  BY InitType, StepType, <1>1, PTL DEF Spec
-----------------------------------------------------------------------------
(* Every interleaving of requests, commands and logins on the three tables *)
(* is a history of the records the other modules speak of.                 *)
THEOREM ServiceImplementsRecords == Spec => TablesImplementRecords
<1>1. Init => Records!StoreInit
  <2> SUFFICES ASSUME Init PROVE Records!StoreInit
    OBVIOUS
  <2>1. \A id \in UserIds : Joined(id) = NoUser
    BY DEF Init, TablesInit, Joined, claimsOf
  <2>2. serial = {} /\ user_tokens = {}
    BY DEF Init, TablesInit
  <2> QED
    BY <2>1, <2>2 DEF Records!StoreInit
<1>2. TypeInv /\ [Next]_vars => [Records!StoreNext]_(Records!storeVars)
  <2> SUFFICES ASSUME TypeInv, [Next]_vars PROVE [Records!StoreNext]_(Records!storeVars)
    OBVIOUS
  <2>1. UNCHANGED tables \/ TableStep
    BY StepOfTables DEF vars, tables
  <2> QED
    BY <2>1, TablesKept, TableStepRecord DEF TypeInv, TypeOK
<1> QED
  BY <1>1, <1>2, InitType, StepType, PTL DEF Spec, TablesImplementRecords, Records!StoreSpec

(* A request that gets past the guards does to the records what UsersApi   *)
(* says its handler does, to the user it names and to no other.            *)
THEOREM ServiceHandlersImplementApi == Spec => HandlersImplementApi
<1>1. ASSUME TypeInv, NEW r \in Requests, NEW call \in Call, Handler(r, call)
      PROVE  CASE call.op = "post"   -> Records!post(call.id, call.body)
               [] call.op = "patch"  -> Records!patch(call.id, call.body)
               [] call.op = "delete" -> Records!delete(call.id)
  <2>1. TablesTypeOK /\ KeysHold /\ context[r].sub \in Modifiers
    BY <1>1 DEF Handler, Token, Modifiers, TypeInv, TypeOK
  <2>2. CASE call.op = "post"
    <3> DEFINE dto == Records!userCreateDtoSchema(call.body)
    <3>1. call.id \in UserIds /\ call.body \in Records!PostBody
      BY <2>2, TablesAssumption DEF Call
    <3>2. /\ dto.username \in Usernames /\ dto.password \in Passwords \cup {NoPassword}
          /\ dto.isLocked \in BOOLEAN /\ dto.claims \in Records!Claims
      BY <3>1, ParsedBodyType DEF Records!PostBody, Records!PatchBody
    <3>3. InsertRow(call.id, context[r].sub, dto.username, dto.password, dto.isLocked, dto.claims)
      BY <1>1, <2>2 DEF Handler, Statement, create
    <3> HIDE DEF dto
    <3>4. Records!InsertUser(call.id,
            [username |-> dto.username, password |-> dto.password, accessFailedCount |-> 0,
             isLocked |-> dto.isLocked, isLockedUntil |-> 0, claims |-> dto.claims])
      BY <2>1, <3>1, <3>2, <3>3, InsertRowRecord
    <3>5. Records!post(call.id, call.body)
      BY <3>4, Zenon DEF Records!post, Records!create, Records!NewUser, dto
    <3> QED
      BY <2>2, <3>5
  <2>3. CASE call.op = "patch"
    <3> DEFINE dto == Records!userUpdateDtoSchema(call.body)
    <3>1. call.id \in UserIds /\ dto \in Records!PatchBody
      BY <2>3, ParsedBodyType, TablesAssumption DEF Call
    <3>2. updateById(call.id, dto, context[r].sub)
      BY <1>1, <2>3 DEF Handler, Statement
    <3> HIDE DEF dto
    <3>3. Records!updateById(call.id, dto)
      BY <2>1, <3>1, <3>2, UpdateByIdRecord
    <3>4. Records!patch(call.id, call.body)
      BY <3>3 DEF Records!patch, dto
    <3> QED
      BY <2>3, <3>4
  <2>4. CASE call.op = "delete"
    <3>1. call.id \in UserIds /\ deleteById(call.id)
      BY <1>1, <2>4 DEF Handler, Statement, Call
    <3>2. Records!delete(call.id)
      BY <2>1, <3>1, DeleteByIdRecord DEF Records!delete
    <3> QED
      BY <2>4, <3>2
  <2> QED
    BY <2>2, <2>3, <2>4 DEF Call
<1>2. TypeInv /\ [Next]_vars =>
        [\A r \in Requests, call \in Call : Handler(r, call) =>
           CASE call.op = "post"   -> Records!post(call.id, call.body)
             [] call.op = "patch"  -> Records!patch(call.id, call.body)
             [] call.op = "delete" -> Records!delete(call.id)]_<<now, tables, guardVars>>
  BY <1>1
<1> QED
  BY <1>2, InitType, StepType, PTL DEF Spec, HandlersImplementApi
-----------------------------------------------------------------------------
(* Since its login began, some account was called what a token's subject   *)
(* is, and was an administrator.                                           *)
Backed(read, u, admin, named) ==
  \E id \in UserIds : read < admin[id] /\ read < named[id][u]

(* Names a row may be signed with. *)
Signer(by, admin, named) ==
  \/ by \in Providers \cup {DEFAULT_MODIFIED_BY}
  \/ by \in Usernames /\ \E who \in UserIds : admin[who] > 0 /\ named[who][by] > 0

(* An account read kept its name, and administrator's claims read with it  *)
(* were its claims, at some time since the login began; a token says the   *)
(* same of some account.                                                   *)
AuthorityInv ==
  /\ \A id \in UserIds : adminUntil[id] <= now + 1
  /\ \A id \in UserIds, u \in Usernames : namedUntil[id][u] <= now + 1
  /\ \A id \in Admins : adminUntil[id] = now + 1
  /\ \A id \in live : namedUntil[id][users[id].username] = now + 1
  /\ \A s \in Logins : login[s] # NoUser =>
       /\ login[s].read <= now
       /\ login[s].read < namedUntil[login[s].id][login[s].username]
       /\ Admin(login[s].claims) => login[s].read < adminUntil[login[s].id]
  /\ \A t \in jwts : Admin(t.claims) => Backed(t.read, t.sub, adminUntil, namedUntil)
  /\ \A t \in jwts : t.exp = t.iat + TokenLifetime
  /\ \A r \in Requests : pc[r] = "authorized" => Admin(context[r].claims)
  /\ AuditNamesAdmin

LEMMA AdminIsLive ==
  ASSUME TypeInv, NEW id \in UserIds, Admin(claimsOf(id))
  PROVE  id \in Admins
<1>1. PICK key \in DOMAIN claimsOf(id) : TRUE
  BY DEF Admin, Has
<1>2. PICK c \in user_claims : c.userId = id
  BY <1>1 DEF claimsOf, PairsOf
<1>3. id \in live
  BY <1>2 DEF TypeInv, KeysHold
<1> QED
  BY <1>3 DEF Admins

LEMMA BackingLasts ==
  ASSUME TypeInv, TypeInv',
         \A id \in UserIds : adminUntil[id] <= adminUntil'[id],
         \A id \in UserIds, u \in Usernames : namedUntil[id][u] <= namedUntil'[id][u]
  PROVE  /\ \A read \in Nat, u \in Usernames :
              Backed(read, u, adminUntil, namedUntil) => Backed(read, u, adminUntil', namedUntil')
         /\ \A by : Signer(by, adminUntil, namedUntil) => Signer(by, adminUntil', namedUntil')
<1>1. /\ \A id \in UserIds : adminUntil[id] \in Nat /\ adminUntil'[id] \in Nat
      /\ \A id \in UserIds, u \in Usernames : namedUntil[id][u] \in Nat /\ namedUntil'[id][u] \in Nat
  BY DEF TypeInv, TypeOK
<1>2. \A read \in Nat, u \in Usernames, id \in UserIds :
        /\ read < adminUntil[id] => read < adminUntil'[id]
        /\ read < namedUntil[id][u] => read < namedUntil'[id][u]
  BY <1>1
<1>3. \A u \in Usernames, id \in UserIds :
        /\ adminUntil[id] > 0 => adminUntil'[id] > 0
        /\ namedUntil[id][u] > 0 => namedUntil'[id][u] > 0
  BY <1>1
<1> QED
  BY <1>2, <1>3 DEF Backed, Signer

LEMMA WatchGrows ==
  ASSUME TypeInv, AuthorityInv, Watch, now' \in Nat, now' >= now
  PROVE  /\ \A id \in UserIds : adminUntil[id] <= adminUntil'[id] /\ adminUntil'[id] <= now' + 1
         /\ \A id \in UserIds, u \in Usernames :
              namedUntil[id][u] <= namedUntil'[id][u] /\ namedUntil'[id][u] <= now' + 1
         /\ \A id \in Admins' : adminUntil'[id] = now' + 1
         /\ \A id \in live' : users'[id].username \in Usernames =>
              namedUntil'[id][users'[id].username] = now' + 1
<1>1. /\ now \in Nat /\ adminUntil \in [UserIds -> Nat]
      /\ namedUntil \in [UserIds -> [Usernames -> Nat]]
  BY DEF TypeInv, TypeOK, TablesTypeOK
<1>2. PICK n \in Nat : n = now'
  BY Zenon
<1>3. \A id \in UserIds : adminUntil'[id] = IF id \in Admins' THEN n + 1 ELSE adminUntil[id]
  BY <1>2, Zenon DEF Watch
<1>4. \A id \in UserIds, u \in Usernames : namedUntil'[id][u] =
        IF id \in live' /\ users'[id].username = u THEN n + 1 ELSE namedUntil[id][u]
  BY <1>2, Zenon DEF Watch
<1>5. /\ \A id \in UserIds : adminUntil[id] <= n + 1
      /\ \A id \in UserIds, u \in Usernames : namedUntil[id][u] <= n + 1
  <2>1. /\ \A id \in UserIds : adminUntil[id] <= now + 1
        /\ \A id \in UserIds, u \in Usernames : namedUntil[id][u] <= now + 1
    BY DEF AuthorityInv
  <2> QED
    BY <1>1, <1>2, <2>1
<1>6. \A id \in UserIds : adminUntil[id] <= adminUntil'[id] /\ adminUntil'[id] <= n + 1
  BY <1>1, <1>3, <1>5
<1>7. \A id \in UserIds, u \in Usernames :
        namedUntil[id][u] <= namedUntil'[id][u] /\ namedUntil'[id][u] <= n + 1
  BY <1>1, <1>4, <1>5
<1>8. live' \subseteq UserIds /\ Admins' \subseteq UserIds
  BY DEF live, Admins
<1>9. /\ \A id \in Admins' : adminUntil'[id] = n + 1
      /\ \A id \in live' : users'[id].username \in Usernames =>
           namedUntil'[id][users'[id].username] = n + 1
  BY <1>3, <1>4, <1>8, Zenon
<1> QED
  BY <1>2, <1>6, <1>7, <1>9, Zenon

LEMMA StepSigned ==
  ASSUME TypeInv, AuthorityInv, Next
  PROVE  \/ UNCHANGED tables
         \/ \E by : SignedBy(by) /\ Signer(by, adminUntil, namedUntil)
<1>1. TablesTypeOK /\ jwts \subseteq Token
  BY DEF TypeInv, TypeOK
<1>2. ASSUME NEW r \in Requests, NEW call \in Call, Handler(r, call)
      PROVE  SignedBy(context[r].sub) /\ Signer(context[r].sub, adminUntil, namedUntil)
  <2>1. context[r] \in Token /\ Backed(context[r].read, context[r].sub, adminUntil, namedUntil)
    BY <1>1, <1>2 DEF Handler, TypeInv, AuthorityInv
  <2>2. Signer(context[r].sub, adminUntil, namedUntil)
    BY <2>1 DEF Backed, Token, Signer, TypeInv, TypeOK
  <2>3. call.id \in UserIds
    BY DEF Call
  <2>4. SignedBy(context[r].sub)
    BY <1>1, <1>2, <2>3, InsertRowSigned, UpdateByIdSigned, DeleteByIdSigned
       DEF Handler, Statement, create
  <2> QED
    BY <2>2, <2>4
<1>3. CASE GuardNext
  BY <1>2, <1>3 DEF GuardNext, AuthenticationGuard, ClaimsGuard, Refuse
<1>4. Signer(DEFAULT_MODIFIED_BY, adminUntil, namedUntil)
  BY DEF Signer
<1>5. CASE CliNext
  <2>1. ASSUME NEW username \in Usernames, NEW password \in Passwords,
               addUser(username, password)
        PROVE  SignedBy(DEFAULT_MODIFIED_BY)
    BY <1>1, <2>1, InsertRowSigned DEF addUser, create
  <2>2. ASSUME NEW c \in Commands, deleteUser(c)
        PROVE  SignedBy(DEFAULT_MODIFIED_BY)
    <3>1. found[c].id \in UserIds
      BY <2>2 DEF deleteUser, TypeInv, TypeOK
    <3> QED
      BY <1>1, <2>2, <3>1, DeleteByIdSigned DEF deleteUser
  <2> QED
    BY <1>4, <1>5, <2>1, <2>2 DEF CliNext, findUser, commandFails
<1>6. CASE LoginNext
  <2>1. ASSUME NEW s \in Logins, GrantToken(s)
        PROVE  SignedBy(DEFAULT_MODIFIED_BY)
    <3>1. login[s].id \in UserIds
      BY <2>1 DEF GrantToken, TypeInv, ReadAccounts
    <3> QED
      BY <1>1, <2>1, <3>1, CreateTokenSigned DEF GrantToken
  <2>2. ASSUME NEW address \in Addresses, FirstLogin(address)
        PROVE  \E by : SignedBy(by) /\ Signer(by, adminUntil, namedUntil)
    <3>1. PICK id \in UserIds, by \in Providers : createByProvider(id, address, "ethereum", by)
      BY <2>2 DEF FirstLogin
    <3>2. SignedBy(by) /\ Signer(by, adminUntil, namedUntil)
      BY <1>1, <3>1, InsertRowSigned DEF createByProvider, Signer
    <3> QED
      BY <3>2
  <2> QED
    BY <1>4, <1>6, <2>1, <2>2 DEF LoginNext, ReadAccount, ReadClaims, LoginFails
<1>7. CASE Tick
  BY <1>7 DEF Tick
<1> QED
  BY <1>3, <1>5, <1>6, <1>7 DEF Next

(* Where accounts read, tokens and admitted requests come from.            *)
LEMMA StepSources ==
  ASSUME TypeInv, Next
  PROVE  /\ \A s \in Logins : login'[s] # NoUser =>
              \/ login'[s] = login[s]
              \/ \E id \in live : login'[s] =
                   [id |-> id, username |-> users[id].username, claims |-> Records!NoClaims,
                    read |-> now, next |-> "claims"]
              \/ login[s] # NoUser /\ login'[s] =
                   [login[s] EXCEPT !.claims = claimsOf(login[s].id), !.next = "sign"]
         /\ \A t \in jwts' \ jwts : \E s \in Logins :
              login[s] # NoUser /\ t = sign(login[s], login[s].read)
         /\ \A r \in Requests : pc'[r] = "authorized" =>
              /\ context'[r] = context[r]
              /\ pc[r] = "authorized" \/ Admin(context[r].claims)
<1> USE DEF TypeInv, TypeOK
<1>1. CASE GuardNext /\ UNCHANGED <<found, login>>
  <2>1. PICK r \in Requests :
          \/ \E token \in jwts : AuthenticationGuard(r, token)
          \/ ClaimsGuard(r)
          \/ \E call \in Call : Handler(r, call)
          \/ Refuse(r)
    BY <1>1 DEF GuardNext
  <2>2. /\ jwts' = jwts
        /\ \/ \E token \in jwts : /\ pc' = [pc EXCEPT ![r] = "authenticated"]
                                  /\ context' = [context EXCEPT ![r] = token]
           \/ /\ Admin(context[r].claims) /\ context' = context
              /\ pc' = [pc EXCEPT ![r] = "authorized"]
           \/ /\ pc' = [pc EXCEPT ![r] = "idle"]
              /\ context' = [context EXCEPT ![r] = NoToken]
    BY <2>1 DEF AuthenticationGuard, ClaimsGuard, Handler, Refuse, Answer, Goto
  <2> QED
    BY <1>1, <2>2
<1>2. CASE CliNext /\ UNCHANGED <<guardVars, login>>
  BY <1>2 DEF guardVars
<1>3. CASE LoginNext
  <2>1. ASSUME NEW s \in Logins, ReadAccount(s)
        PROVE  /\ UNCHANGED guardVars
               /\ \E id \in live : login' = [login EXCEPT ![s] =
                    [id |-> id, username |-> users[id].username, claims |-> Records!NoClaims,
                     read |-> now, next |-> "claims"]]
    BY <2>1 DEF ReadAccount
  <2>7. ASSUME NEW s \in Logins, ReadClaims(s)
        PROVE  /\ UNCHANGED guardVars /\ login[s] # NoUser
               /\ login' = [login EXCEPT ![s] =
                    [login[s] EXCEPT !.claims = claimsOf(login[s].id), !.next = "sign"]]
    <3>1. login[s] \in ReadAccounts
      BY <2>7 DEF ReadClaims
    <3> QED
      BY <2>7, <3>1 DEF ReadClaims, ReadAccounts
  <2>2. ASSUME NEW s \in Logins, GrantToken(s)
        PROVE  /\ login[s] # NoUser /\ login' = [login EXCEPT ![s] = NoUser]
               /\ jwts' = jwts \cup {sign(login[s], login[s].read)}
               /\ UNCHANGED <<pc, context>>
    BY <2>2 DEF GrantToken
  <2>3. ASSUME NEW s \in Logins, LoginFails(s)
        PROVE  login' = [login EXCEPT ![s] = NoUser] /\ UNCHANGED guardVars
    BY <2>3 DEF LoginFails
  <2>4. ASSUME NEW address \in Addresses, FirstLogin(address)
        PROVE  UNCHANGED <<guardVars, login>>
    BY <2>4 DEF FirstLogin
  <2>5. CASE UNCHANGED <<guardVars, login>>
    BY <2>5 DEF guardVars
  <2>6. ASSUME NEW s \in Logins,
               ReadAccount(s) \/ ReadClaims(s) \/ GrantToken(s) \/ LoginFails(s)
        PROVE  \/ /\ UNCHANGED guardVars
                  /\ \/ login' = [login EXCEPT ![s] = NoUser]
                     \/ \E id \in live : login' = [login EXCEPT ![s] =
                          [id |-> id, username |-> users[id].username,
                           claims |-> Records!NoClaims, read |-> now, next |-> "claims"]]
                     \/ /\ login[s] # NoUser
                        /\ login' = [login EXCEPT ![s] =
                             [login[s] EXCEPT !.claims = claimsOf(login[s].id), !.next = "sign"]]
               \/ /\ login[s] # NoUser /\ login' = [login EXCEPT ![s] = NoUser]
                  /\ jwts' = jwts \cup {sign(login[s], login[s].read)}
                  /\ UNCHANGED <<pc, context>>
    BY <2>1, <2>2, <2>3, <2>6, <2>7, Zenon
  <2> QED
    BY <1>3, <2>4, <2>5, <2>6 DEF LoginNext, guardVars
<1>4. CASE Tick
  BY <1>4 DEF Tick, guardVars
<1> QED
  BY <1>1, <1>2, <1>3, <1>4 DEF Next

LEMMA InitAuthority == Init => AuthorityInv
<1> SUFFICES ASSUME Init PROVE AuthorityInv
  OBVIOUS
<1>1. live = {}
  BY DEF Init, TablesInit, live
<1> QED
  BY <1>1 DEF Init, GuardInit, AuthorityInv, AuditNamesAdmin, Admins

LEMMA StepAuthority ==
  ASSUME TypeInv, TypeInv', AuthorityInv, Next
  PROVE  AuthorityInv'
<1>1. now' \in Nat /\ now' >= now /\ now \in Nat
  BY StepOfTables DEF TypeInv, TypeOK, TablesTypeOK
<1>2. /\ \A id \in UserIds : adminUntil[id] <= adminUntil'[id] /\ adminUntil'[id] <= now' + 1
      /\ \A id \in UserIds, u \in Usernames :
           namedUntil[id][u] <= namedUntil'[id][u] /\ namedUntil'[id][u] <= now' + 1
      /\ \A id \in Admins' : adminUntil'[id] = now' + 1
      /\ \A id \in live' : namedUntil'[id][users'[id].username] = now' + 1
  <2>1. \A id \in live' : users'[id].username \in Usernames
    BY DEF TypeInv, TypeOK, TablesTypeOK, live, Columns
  <2> QED
    BY <1>1, <2>1, WatchGrows DEF Next
<1>3. /\ adminUntil \in [UserIds -> Nat] /\ adminUntil' \in [UserIds -> Nat]
      /\ namedUntil \in [UserIds -> [Usernames -> Nat]]
      /\ namedUntil' \in [UserIds -> [Usernames -> Nat]]
      /\ jwts \subseteq Token /\ login \in [Logins -> ReadAccounts \cup {NoUser}]
      /\ \A r \in Requests : pc[r] # "idle" => context[r] \in jwts
  BY DEF TypeInv, TypeOK
<1>8. /\ \A read \in Nat, u \in Usernames :
           Backed(read, u, adminUntil, namedUntil) => Backed(read, u, adminUntil', namedUntil')
      /\ \A by : Signer(by, adminUntil, namedUntil) => Signer(by, adminUntil', namedUntil')
  BY <1>2, BackingLasts
<1>4. ASSUME NEW s \in Logins, login'[s] # NoUser
      PROVE  /\ login'[s].read <= now'
             /\ login'[s].read < namedUntil'[login'[s].id][login'[s].username]
             /\ Admin(login'[s].claims) => login'[s].read < adminUntil'[login'[s].id]
  <2>1. ASSUME login[s] # NoUser
        PROVE  /\ login[s] \in ReadAccounts /\ login[s].read <= now'
               /\ login[s].read < namedUntil'[login[s].id][login[s].username]
               /\ Admin(login[s].claims) => login[s].read < adminUntil'[login[s].id]
               /\ Admin(claimsOf(login[s].id)) => login[s].read < adminUntil'[login[s].id]
    <3>1. /\ login[s] \in ReadAccounts
          /\ login[s].read \in Nat /\ login[s].id \in UserIds /\ login[s].username \in Usernames
      BY <1>3, <2>1 DEF ReadAccounts
    <3>2. /\ login[s].read <= now
          /\ login[s].read < namedUntil[login[s].id][login[s].username]
          /\ Admin(login[s].claims) => login[s].read < adminUntil[login[s].id]
      BY <2>1 DEF AuthorityInv
    <3>3. Admin(claimsOf(login[s].id)) => adminUntil[login[s].id] = now + 1
      BY <3>1, AdminIsLive DEF AuthorityInv
    <3> QED
      BY <1>1, <1>2, <1>3, <3>1, <3>2, <3>3
  <2>2. ASSUME NEW id \in live, login'[s] =
                 [id |-> id, username |-> users[id].username, claims |-> Records!NoClaims,
                  read |-> now, next |-> "claims"]
        PROVE  /\ login'[s].read <= now'
               /\ login'[s].read < namedUntil'[login'[s].id][login'[s].username]
               /\ ~Admin(login'[s].claims)
    <3>1. id \in UserIds /\ users[id].username \in Usernames
      BY DEF TypeInv, TypeOK, TablesTypeOK, live, Columns
    <3>2. namedUntil[id][users[id].username] = now + 1
      BY DEF AuthorityInv
    <3> QED
      BY <1>1, <1>2, <1>3, <2>2, <3>1, <3>2, EmptyClaims
  <2>3. ASSUME login[s] # NoUser,
               login'[s] = [login[s] EXCEPT !.claims = claimsOf(login[s].id), !.next = "sign"]
        PROVE  /\ login'[s].read = login[s].read /\ login'[s].id = login[s].id
               /\ login'[s].username = login[s].username
               /\ login'[s].claims = claimsOf(login[s].id)
    BY <2>1, <2>3 DEF ReadAccounts
  <2> QED
    BY <1>4, <2>1, <2>2, <2>3, StepSources
<1>5. ASSUME NEW t \in jwts'
      PROVE  /\ Admin(t.claims) => Backed(t.read, t.sub, adminUntil', namedUntil')
             /\ t.exp = t.iat + TokenLifetime
  <2>1. CASE t \in jwts
    <3>1. t.sub \in Usernames /\ t.read \in Nat
      BY <1>3, <2>1 DEF Token
    <3> QED
      BY <1>8, <2>1, <3>1 DEF AuthorityInv
  <2>2. CASE t \notin jwts
    <3>1. PICK s \in Logins : login[s] # NoUser /\ t = sign(login[s], login[s].read)
      BY <2>2, StepSources
    <3>2. /\ login[s] \in ReadAccounts /\ login[s].id \in UserIds
          /\ login[s].username \in Usernames /\ login[s].read \in Nat
      BY <1>3, <3>1 DEF ReadAccounts
    <3>3. Admin(t.claims) => Admin(login[s].claims)
      BY <3>1, <3>2, SignType
    <3>4. Admin(login[s].claims)
            => Backed(login[s].read, login[s].username, adminUntil, namedUntil)
      BY <3>1, <3>2 DEF AuthorityInv, Backed
    <3>5. t.sub = login[s].username /\ t.read = login[s].read /\ t.exp = t.iat + TokenLifetime
      BY <3>1 DEF sign
    <3> QED
      BY <1>8, <3>2, <3>3, <3>4, <3>5
  <2> QED
    BY <2>1, <2>2
<1>6. ASSUME NEW r \in Requests, pc'[r] = "authorized" PROVE Admin(context'[r].claims)
  BY <1>6, StepSources DEF AuthorityInv
<1>7. AuditNamesAdmin'
  <2>1. \A by : Signer(by, adminUntil, namedUntil) => Signer(by, adminUntil', namedUntil')
    BY <1>8
  <2>2. \A id \in live : Signer(users[id].createdBy, adminUntil, namedUntil) /\ Signer(users[id].updatedBy, adminUntil, namedUntil)
    BY DEF AuthorityInv, AuditNamesAdmin, Signer
  <2>3. \A id \in live' : Signer(users'[id].createdBy, adminUntil', namedUntil') /\ Signer(users'[id].updatedBy, adminUntil', namedUntil')
    <3>1. CASE UNCHANGED tables
      BY <2>1, <2>2, <3>1, TablesKept DEF tables
    <3>2. ASSUME NEW by, SignedBy(by), Signer(by, adminUntil, namedUntil)
          PROVE  \A id \in live' : Signer(users'[id].createdBy, adminUntil', namedUntil') /\ Signer(users'[id].updatedBy, adminUntil', namedUntil')
      BY <2>1, <2>2, <3>2 DEF SignedBy
    <3> QED
      BY <3>1, <3>2, StepSigned
  <2> QED
    BY <2>3 DEF AuditNamesAdmin, Signer
<1> QED
  BY <1>2, <1>4, <1>5, <1>6, <1>7 DEF AuthorityInv

ServiceInv == TypeInv /\ AuthorityInv

LEMMA InitService == Init => ServiceInv
  BY InitType, InitAuthority DEF ServiceInv

LEMMA StepService == ServiceInv /\ [Next]_vars => ServiceInv'
<1> SUFFICES ASSUME ServiceInv, [Next]_vars PROVE ServiceInv'
  OBVIOUS
<1>1. TypeInv /\ AuthorityInv /\ TypeInv'
  BY StepType DEF ServiceInv
<1>2. CASE Next
  BY <1>1, <1>2, StepAuthority DEF ServiceInv
<1>3. CASE UNCHANGED vars
  <2>1. Admins' = Admins
    BY <1>3 DEF vars, Admins, live, claimsOf
  <2>2. AuthorityInv'
    BY <1>1, <1>3, <2>1 DEF vars, AuthorityInv, AuditNamesAdmin, Backed, live
  <2> QED
    BY <1>1, <2>2 DEF ServiceInv
<1> QED
  BY <1>2, <1>3

(* A request gets past the guards as an administrator's only when an       *)
(* account of that name, and with those claims, was there less than a      *)
(* token's lifetime and a login ago, whoever renamed, demoted or deleted it*)
(* since, and between the two reads of the login too.                      *)
THEOREM ServiceAuthorityRecent == Spec => AuthorityRecent
<1>1. ServiceInv /\ [Next]_vars =>
        [\A r \in Requests :
           pc[r] = "idle" /\ pc'[r] = "authenticated" =>
             LET t == context'[r]
             IN  Admin(t.claims) => \E id \in UserIds :
                   \A until \in {adminUntil[id], namedUntil[id][t.sub]} :
                     now + 1 + t.read < until + TokenLifetime + t.iat]_vars
  <2> SUFFICES ASSUME ServiceInv, Next, NEW r \in Requests,
                      pc[r] = "idle", pc'[r] = "authenticated",
                      Admin(context'[r].claims)
               PROVE  \E id \in UserIds :
                        \A until \in {adminUntil[id], namedUntil[id][context'[r].sub]} :
                          now + 1 + context'[r].read
                            < until + TokenLifetime + context'[r].iat
    BY Zenon
  <2>1. PICK token \in jwts : verify(token) /\ context'[r] = token
    <3>1. pc \in [Requests -> {"idle", "authenticated", "authorized"}]
          /\ context \in [Requests -> jwts \cup {NoToken}]
      BY DEF ServiceInv, TypeInv, TypeOK
    <3>2. pc' # pc
      OBVIOUS
    <3>3. CASE GuardNext
      <4>1. PICK q \in Requests :
              \/ \E token \in jwts : AuthenticationGuard(q, token)
              \/ ClaimsGuard(q)
              \/ \E call \in Call : Handler(q, call)
              \/ Refuse(q)
        BY <3>3 DEF GuardNext
      <4>2. ASSUME NEW token \in jwts, AuthenticationGuard(q, token)
            PROVE  q = r /\ verify(token) /\ context'[r] = token
        BY <3>1, <4>2 DEF AuthenticationGuard, Goto
      <4>3. ~ClaimsGuard(q) /\ ~Refuse(q) /\ \A call \in Call : ~Handler(q, call)
        BY <3>1 DEF ClaimsGuard, Refuse, Handler, Answer, Goto
      <4> QED
        BY <4>1, <4>2, <4>3
    <3>4. CASE CliNext /\ UNCHANGED guardVars
      BY <3>2, <3>4 DEF guardVars
    <3>5. ~LoginNext
      BY <3>2 DEF LoginNext, ReadAccount, ReadClaims, GrantToken, LoginFails, FirstLogin,
                  guardVars
    <3>6. ~Tick
      BY <3>2 DEF Tick, guardVars
    <3> QED
      BY <3>3, <3>4, <3>5, <3>6 DEF Next
  <2>2. /\ token \in Token /\ now \in Nat /\ TokenLifetime \in Nat
        /\ now < token.exp /\ token.exp = token.iat + TokenLifetime
    BY <2>1, GuardAssumption
       DEF verify, ServiceInv, TypeInv, AuthorityInv, TypeOK, TablesTypeOK
  <2>3. token.iat \in Nat /\ token.read \in Nat /\ token.sub \in Usernames
    BY <2>2 DEF Token
  <2>4. PICK id \in UserIds : /\ token.read < adminUntil[id]
                             /\ token.read < namedUntil[id][token.sub]
    BY <2>1 DEF ServiceInv, AuthorityInv, Backed
  <2>5. adminUntil[id] \in Nat /\ namedUntil[id][token.sub] \in Nat
    BY <2>3 DEF ServiceInv, TypeInv, TypeOK
  <2>6. \A until \in {adminUntil[id], namedUntil[id][token.sub]} :
          now + 1 + token.read < until + TokenLifetime + token.iat
    BY <2>2, <2>3, <2>4, <2>5
  <2> QED
    BY <2>1, <2>6
<1> QED
  BY <1>1, InitService, StepService, PTL DEF Spec, AuthorityRecent

(* The audit columns never name anybody but the system, a provider, or an  *)
(* account that has been an administrator by a name it has had, although a *)
(* token may pair a name with claims the account got after it was renamed. *)
THEOREM ServiceAuditNamesAdmin == Spec => []AuditNamesAdmin
<1>1. ServiceInv => AuditNamesAdmin
  BY DEF ServiceInv, AuthorityInv
<1> QED
  BY <1>1, InitService, StepService, PTL DEF Spec
-----------------------------------------------------------------------------
(* What a delete command looked up is still that user, as long as there is *)
(* a user with its id: ids are not given twice.                            *)
FoundInv ==
  \A c \in Commands : found[c] # NoUser =>
    /\ found[c].id \in serial
    /\ found[c].id \in live => users[found[c].id].createdAt = found[c].createdAt

LEMMA StepFound ==
  ASSUME ServiceInv, FoundInv, Next
  PROVE  FoundInv'
<1>1. TypeInv /\ AuthorityInv
  BY DEF ServiceInv
<1>2. \/ UNCHANGED tables
      \/ \E by : SignedBy(by)
  BY <1>1, StepSigned
<1>3. serial \subseteq serial'
  <2>1. TableStep => serial \subseteq serial'
    BY SerialGrows, Zenon
  <2> QED
    BY <1>1, <2>1, StepOfTables DEF tables
<1>4. ASSUME NEW c \in Commands, found'[c] # NoUser, found'[c] = found[c]
      PROVE  /\ found'[c].id \in serial'
             /\ found'[c].id \in live' => users'[found'[c].id].createdAt = found'[c].createdAt
  <2>1. CASE UNCHANGED tables
    BY <1>4, <2>1, TablesKept DEF FoundInv, tables
  <2>2. ASSUME NEW by, SignedBy(by)
        PROVE  found'[c].id \in live' => users'[found'[c].id].createdAt = found'[c].createdAt
    BY <1>4, <2>2 DEF FoundInv, SignedBy
  <2> QED
    BY <1>2, <1>3, <1>4, <2>1, <2>2 DEF FoundInv
<1>5. ASSUME NEW c \in Commands, found'[c] # NoUser, found'[c] # found[c]
      PROVE  /\ found'[c].id \in serial'
             /\ found'[c].id \in live' => users'[found'[c].id].createdAt = found'[c].createdAt
  <2>1. found \in [Commands -> [id : UserIds, username : Usernames, createdAt : Nat] \cup {NoUser}]
    BY <1>1 DEF TypeInv, TypeOK
  <2>2. PICK id \in live : /\ UNCHANGED tables
                           /\ found'[c].id = id /\ found'[c].createdAt = users[id].createdAt
    <3>1. ~(UNCHANGED found)
      BY <1>5
    <3>2. CliNext
      BY <3>1 DEF Next, LoginNext, ReadAccount, ReadClaims, GrantToken, LoginFails,
                     FirstLogin, Tick
    <3>3. \A d \in Commands : ~deleteUser(d) /\ ~commandFails(d)
      BY <1>5, <2>1 DEF deleteUser, commandFails
    <3>4. PICK d \in Commands, username \in Usernames : findUser(d, username)
      BY <3>1, <3>2, <3>3 DEF CliNext, addUser
    <3> QED
      BY <1>5, <2>1, <3>4 DEF findUser
  <2>3. live \subseteq serial
    BY <1>1 DEF TypeInv, KeysHold
  <2> QED
    BY <2>2, <2>3 DEF tables
<1> QED
  BY <1>4, <1>5 DEF FoundInv

(* A delete command never deletes a user other than the one it looked up.  *)
THEOREM ServiceDeletesUserFound == Spec => DeletesUserFound
<1>1. Init => FoundInv
  BY DEF Init, CliInit, FoundInv
<1>2. ServiceInv /\ FoundInv /\ [Next]_vars => FoundInv'
  BY StepFound DEF vars, FoundInv, live
<1>3. FoundInv /\ [Next]_vars =>
        [\A c \in Commands : found[c] # NoUser =>
           LET id == found[c].id
           IN  /\ id \in live /\ id \notin live'
               /\ found'[c] = NoUser
               => users[id].createdAt = found[c].createdAt]_<<now, tables, found>>
  BY DEF FoundInv
<1> QED
  BY <1>1, <1>2, <1>3, InitService, StepService, PTL DEF Spec, DeletesUserFound
=============================================================================
