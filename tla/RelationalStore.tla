--------------------------- MODULE RelationalStore ---------------------------
(***************************************************************************)
(* The tables "users", "user_claims" and "user_tokens" as the migrations   *)
(* under prisma/migrations leave them, audit columns and foreign keys      *)
(* included, and the statements of UserService that touch more than one    *)
(* column of one table.  UserStore and UsersApi speak of a user and its    *)
(* claims as one record; Records is that view of these tables.             *)
(*                                                                         *)
(* Prisma sends the nested writes of a call as one transaction.  An insert *)
(* that breaks a constraint changes nothing but the sequence behind        *)
(* users.id; an id lost that way is never seen, so it is left out.         *)
(***************************************************************************)
EXTENDS Naturals

CONSTANTS
  UserIds, Usernames, Passwords, NoPassword, NoUser, ClaimKeys, ClaimValues,
  FailedCountMax, LockoutTimeout,
  Undefined, PostBodies, PatchBodies, PartialAppliesDefaults,
  Providers        \* who createByProvider says created a row: method(address)

VARIABLES
  now,             \* the clock of the server and of the database
  users,           \* users[id]: the columns of a row, or NoUser
  user_claims,
  user_tokens,
  serial           \* ids the sequence of users.id has given to rows

tables == <<users, user_claims, user_tokens, serial>>

live == {id \in UserIds : users[id] # NoUser}

PairsOf(rows) == [k \in {c.key : c \in rows} |-> (CHOOSE c \in rows : c.key = k).value]

claimsOf(id) == PairsOf({c \in user_claims : c.userId = id})

(* include: { claims: true } *)
Joined(id) ==
  IF users[id] = NoUser THEN NoUser
  ELSE [username          |-> users[id].username,
        password          |-> users[id].password,
        accessFailedCount |-> users[id].accessFailedCount,
        isLocked          |-> users[id].isLocked,
        isLockedUntil     |-> users[id].isLockedUntil,
        claims            |-> claimsOf(id)]

Records == INSTANCE UsersApi WITH
  row <- [id \in UserIds |-> Joined(id)], gone <- serial \ live, tokens <- user_tokens

DEFAULT_MODIFIED_BY == "system"

Modifiers == Usernames \cup Providers \cup {DEFAULT_MODIFIED_BY}

Columns == [createdAt         : Nat,
            createdBy         : Modifiers,
            updatedBy         : Modifiers,
            username          : Usernames,
            password          : Passwords \cup {NoPassword},
            accessFailedCount : Nat,
            isLocked          : BOOLEAN,
            isLockedUntil     : Nat]

ASSUME TablesAssumption ==
  /\ NoUser \notin Columns /\ NoUser \notin Records!UserRow
  /\ Undefined \notin Usernames /\ Undefined \notin Passwords
  /\ Undefined \notin BOOLEAN /\ Undefined \notin Records!Claims
  /\ PostBodies \subseteq Records!PostBody
  /\ PatchBodies \subseteq Records!PatchBody
  /\ PartialAppliesDefaults \in BOOLEAN

ClaimRow == [userId : UserIds, key : ClaimKeys, value : ClaimValues]

TablesTypeOK ==
  /\ now \in Nat
  /\ users \in [UserIds -> Columns \cup {NoUser}]
  /\ user_claims \subseteq ClaimRow
  /\ serial \subseteq UserIds

TablesInit ==
  /\ users = [id \in UserIds |-> NoUser]
  /\ user_claims = {}
  /\ user_tokens = {}
  /\ serial = {}
-----------------------------------------------------------------------------
(* Nested writes on user_claims: the create of an insert, and the upsert   *)
(* and deleteMany of an update.                                            *)

ClaimRows(id, claims) ==
  {[userId |-> id, key |-> k, value |-> claims[k]] : k \in DOMAIN claims}

upsert(id, claims) ==
  {c \in user_claims : ~(c.userId = id /\ c.key \in DOMAIN claims)} \cup ClaimRows(id, claims)

deleteMany_AnyUser(id, rows, keep) == {c \in rows : c.key \in keep}

deleteMany(id, rows, keep) == {c \in rows : c.userId = id => c.key \in keep}
-----------------------------------------------------------------------------
NextIds_Reused == UserIds \ live

NextIds == UserIds \ serial

(* users_username_key *)
NameFree(username, id) == \A other \in live \ {id} : users[other].username # username

InsertRow(id, modifiedBy, username, password, isLocked, claims) ==
  /\ id \in NextIds
  /\ NameFree(username, id)
  /\ users' = [users EXCEPT ![id] =
       [createdAt |-> now, createdBy |-> modifiedBy, updatedBy |-> modifiedBy,
        username |-> username, password |-> password, accessFailedCount |-> 0,
        isLocked |-> isLocked, isLockedUntil |-> 0]]
  /\ user_claims' = user_claims \cup ClaimRows(id, claims)
  /\ serial' = serial \cup {id}
  /\ UNCHANGED user_tokens

create(id, dto, modifiedBy) ==
  InsertRow(id, modifiedBy, dto.username, dto.password, dto.isLocked, dto.claims)

createByProvider(id, username, loginMethod, modifiedBy) ==
  InsertRow(id, modifiedBy, username, NoPassword, FALSE,
            [key \in {"loginMethod"} |-> loginMethod])

(* Prisma leaves out of an UPDATE what is undefined. *)
Given_AsIs(field, otherwise) == field

Given(field, otherwise) == IF field = Undefined THEN otherwise ELSE field

updateById(id, dto, modifiedBy) ==
  /\ id \in live
  /\ LET username == Given(dto.username, users[id].username)
     IN  /\ NameFree(username, id)
         /\ users' = [users EXCEPT
              ![id].updatedBy = modifiedBy,
              ![id].username  = username,
              ![id].password  = Given(dto.password, @),
              ![id].isLocked  = Given(dto.isLocked, @)]
  /\ user_claims' = IF dto.claims = Undefined THEN user_claims
                    ELSE deleteMany(id, upsert(id, dto.claims), DOMAIN dto.claims)
  /\ UNCHANGED <<user_tokens, serial>>

(* ON DELETE CASCADE, on both foreign keys since the second migration.     *)
deleteById_KeepsClaims(id) ==
  /\ id \in live
  /\ users' = [users EXCEPT ![id] = NoUser]
  /\ user_tokens' = {t \in user_tokens : t.userId # id}
  /\ UNCHANGED <<user_claims, serial>>

deleteById(id) ==
  /\ id \in live
  /\ users' = [users EXCEPT ![id] = NoUser]
  /\ user_claims' = {c \in user_claims : c.userId # id}
  /\ user_tokens' = {t \in user_tokens : t.userId # id}
  /\ UNCHANGED serial

createToken(id, loginMethod, value) ==
  /\ id \in live
  /\ \A t \in user_tokens : ~(t.userId = id /\ t.createdAt = now)
  /\ users' = [users EXCEPT ![id].updatedBy = DEFAULT_MODIFIED_BY,
                            ![id].accessFailedCount = 0]
  /\ user_tokens' = user_tokens \cup
       {[userId |-> id, createdAt |-> now, loginMethod |-> loginMethod, value |-> value]}
  /\ UNCHANGED <<user_claims, serial>>
-----------------------------------------------------------------------------
(* Each table keeps to its keys: the claims of a user are a function of the*)
(* key, whatever upserts and deletes ran, no claim or token outlives its   *)
(* user, and no user has an id the sequence has yet to give.               *)
KeysHold ==
  /\ live \subseteq serial
  /\ \A c, d \in user_claims : c.userId = d.userId /\ c.key = d.key => c = d
  /\ \A s, t \in user_tokens : s.userId = t.userId /\ s.createdAt = t.createdAt => s = t
  /\ \A x \in user_claims \cup user_tokens : x.userId \in live
=============================================================================
