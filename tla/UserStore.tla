------------------------------ MODULE UserStore ------------------------------
(***************************************************************************)
(* The three PostgreSQL tables of prisma/schema.prisma and the statements  *)
(* UserService (src/services/user.service.ts) sends to them.  Prisma runs  *)
(* each write, nested writes included, as one transaction, so each is one  *)
(* atomic step here.  A read with include: { claims: true } is two SELECTs *)
(* and no transaction: findByUsername, and later claimsOf.                 *)
(*                                                                         *)
(* A row of "users" and its rows of "user_claims" are one record: the      *)
(* claims are a function on the claim keys, which is what the primary key  *)
(* (userId, key) makes of them.  A password stands for its (salt, hash)    *)
(* pair.  The code never stores accessFailedCount 0 and treats 0 and null  *)
(* alike, and no lock ends at time 0, so 0 stands for null in both.        *)
(***************************************************************************)
EXTENDS Naturals

CONSTANTS
  UserIds,         \* values the serial column "id" can take
  Usernames,
  Passwords,
  NoPassword,      \* passwordHash and passwordSalt are null
  NoUser,          \* no row has this id
  ClaimKeys,
  ClaimValues,
  FailedCountMax,  \* UserService.FailedCountMax
  LockoutTimeout   \* UserService.LockoutTimeoutMs, in ticks of the clock

LoginMethods == {"password", "ethereum"}

Claims == UNION {[K -> ClaimValues] : K \in SUBSET ClaimKeys}

NoClaims == [k \in {} |-> k]

(* A signed token: the two things in it that the properties tell apart.    *)
Jwts == [sub : Usernames, claims : Claims]

UserRow == [username          : Usernames,
            password          : Passwords \cup {NoPassword},
            accessFailedCount : Nat,
            isLocked          : BOOLEAN,
            isLockedUntil     : Nat,
            claims            : Claims]

TokenRow == [userId : UserIds, createdAt : Nat, loginMethod : LoginMethods, value : Jwts]

ASSUME StoreAssumption ==
  /\ NoPassword \notin Passwords
  /\ NoUser \notin UserRow
  /\ FailedCountMax \in Nat
  /\ LockoutTimeout \in Nat \ {0}

VARIABLES
  row,     \* row[id]: the row of "users" with its claims, or NoUser
  gone,    \* ids of deleted rows; a serial column never hands them out again
  tokens   \* the rows of "user_tokens"

storeVars == <<row, gone, tokens>>

StoreTypeOK ==
  /\ row \in [UserIds -> UserRow \cup {NoUser}]
  /\ gone \subseteq UserIds
  /\ tokens \subseteq TokenRow
-----------------------------------------------------------------------------
(* Reads.                                                                  *)

ids == {id \in UserIds : row[id] # NoUser}

FreshIds == UserIds \ (ids \cup gone)

(* A set with at most one element: username is unique. *)
findByUsername(username) == {id \in ids : row[id].username = username}

(* The claims of a row that is gone are gone with it. *)
claimsOf(id) == IF row[id] = NoUser THEN NoClaims ELSE row[id].claims

(* The primary key (userId, createdAt) of user_tokens. *)
TokenKeyTaken(id, at) == \E t \in tokens : t.userId = id /\ t.createdAt = at
-----------------------------------------------------------------------------
(* What the statements make of one row.                                    *)

getLockedUntil(at) == at + LockoutTimeout

lockUser(u, until) ==
  [u EXCEPT !.isLocked = TRUE, !.isLockedUntil = until, !.accessFailedCount = 0]

unlockUser(u) ==
  [u EXCEPT !.isLocked = FALSE, !.isLockedUntil = 0, !.accessFailedCount = 0]

(* The statement setAccessFailedCount builds at time `at`: a lock ending at*)
(* `until` when the count is past the limit, else the count alone.         *)
setAccessFailedCount_LocksAtLimit(count, at) ==
  IF count >= FailedCountMax
    THEN [count |-> 0, until |-> getLockedUntil(at)]
    ELSE [count |-> count, until |-> 0]

setAccessFailedCount(count, at) ==
  IF count > FailedCountMax
    THEN [count |-> 0, until |-> getLockedUntil(at)]
    ELSE [count |-> count, until |-> 0]

(* The database's part of that statement. *)
ApplyCount(u, write) ==
  IF write.until = 0
    THEN [u EXCEPT !.accessFailedCount = write.count]
    ELSE lockUser(u, write.until)
-----------------------------------------------------------------------------
(* Statements that change the tables.  A statement that breaks a           *)
(* constraint or finds no row (P2002, P2025) changes nothing: it is the    *)
(* statement's guard that is false.                                        *)

InsertUser(id, u) ==
  /\ id \in FreshIds
  /\ findByUsername(u.username) = {}
  /\ row' = [row EXCEPT ![id] = u]
  /\ UNCHANGED <<gone, tokens>>

UpdateUser(id, u) ==
  /\ id \in ids
  /\ findByUsername(u.username) \subseteq {id}
  /\ row' = [row EXCEPT ![id] = u]
  /\ UNCHANGED <<gone, tokens>>

(* ON DELETE CASCADE takes the claims and the tokens along. *)
deleteById_NoCascade(id) ==
  /\ id \in ids
  /\ row' = [row EXCEPT ![id] = NoUser]
  /\ gone' = gone \cup {id}
  /\ UNCHANGED tokens

deleteById(id) ==
  /\ id \in ids
  /\ row' = [row EXCEPT ![id] = NoUser]
  /\ gone' = gone \cup {id}
  /\ tokens' = {t \in tokens : t.userId # id}

createToken(id, loginMethod, value, at) ==
  /\ id \in ids
  /\ ~TokenKeyTaken(id, at)
  /\ row' = [row EXCEPT ![id].accessFailedCount = 0]
  /\ tokens' = tokens \cup
       {[userId |-> id, createdAt |-> at, loginMethod |-> loginMethod, value |-> value]}
  /\ UNCHANGED gone
-----------------------------------------------------------------------------
(* What any part of the service may do to the tables.                      *)

StoreInit ==
  /\ row = [id \in UserIds |-> NoUser]
  /\ gone = {}
  /\ tokens = {}

StoreNext ==
  \E id \in UserIds :
    \/ row'[id] # NoUser /\ (InsertUser(id, row'[id]) \/ UpdateUser(id, row'[id]))
    \/ deleteById(id)
    \/ \E t \in tokens' : createToken(id, t.loginMethod, t.value, t.createdAt)

StoreSpec == StoreInit /\ [][StoreNext]_storeVars
-----------------------------------------------------------------------------
(* Every token belongs to an account: a token insert that races a delete   *)
(* of the account must not leave a row behind (foreign key of user_tokens).*)
TokensOwned == \A t \in tokens : t.userId \in ids
=============================================================================
