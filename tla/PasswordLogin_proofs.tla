-------------------------- MODULE PasswordLogin_proofs --------------------------
(***************************************************************************)
(* Theorems about PasswordLogin, for every value of its constants.         *)
(***************************************************************************)
EXTENDS PasswordLogin, UsersApi_proofs

-----------------------------------------------------------------------------
(* A request past its first read, and one that was granted, holds a        *)
(* snapshot: without this the steps that decide on it have no type.        *)
Held == {"claims", "check", "unlock", "compare", "record", "granted"}

TypeInv ==
  /\ TypeOK
  /\ \A r \in Requests : pc[r] \in Held => user[r] \in Snapshot

LEMMA LabelsDistinct ==
  /\ Held \cap {"idle", "find", "refused", "error", "dropped"} = {}
  /\ Held \subseteq {"idle"} \cup Waiting \cup Answered
  BY DEF Held, Waiting, Answered

LEMMA StatementTypes ==
  ASSUME NEW u \in UserRow, NEW at \in Nat, NEW count \in Nat
  PROVE  /\ setAccessFailedCount(count, at).count \in Nat
         /\ setAccessFailedCount(count, at).until \in Nat
         /\ unlockUser(u) \in UserRow
         /\ sign(u) \in Jwts
         /\ \A w \in Write : ApplyCount(u, w) \in UserRow
<1>1. /\ setAccessFailedCount(count, at).count \in Nat
      /\ setAccessFailedCount(count, at).until \in Nat
  BY StoreAssumption DEF setAccessFailedCount, getLockedUntil
<1>2. unlockUser(u) \in UserRow /\ sign(u) \in Jwts
  BY DEF unlockUser, UserRow, sign, Jwts
<1>3. \A w \in Write : ApplyCount(u, w) \in UserRow
  BY DEF ApplyCount, lockUser, UserRow, Write
<1> QED
  BY <1>1, <1>2, <1>3

(* The answer to a failed attempt, whether its write is sent or not.       *)
LEMMA FailedAttemptType ==
  ASSUME TypeInv, NEW r \in Requests, pc[r] \in Held, handleFailedAttempt(r)
  PROVE  /\ pending' \subseteq Write
         /\ pc' = [pc EXCEPT ![r] = "refused"]
         /\ user' = [user EXCEPT ![r] = NoUser]
<1> DEFINE write == setAccessFailedCount(user[r].row.accessFailedCount + 1, now)
<1>1. user[r] \in Snapshot /\ now \in Nat /\ pending \subseteq Write
  BY DEF TypeInv, TypeOK, LoginTypeOK
<1>2. user[r].id \in UserIds /\ user[r].row.accessFailedCount + 1 \in Nat
      /\ user[r].row \in UserRow
  BY <1>1 DEF Snapshot, UserRow
<1>3. write.count \in Nat /\ write.until \in Nat
  BY <1>1, <1>2, StatementTypes
<1> HIDE DEF write
<1>4. [by |-> r, id |-> user[r].id, count |-> write.count, until |-> write.until] \in Write
  BY <1>2, <1>3 DEF Write
<1> QED
  BY <1>1, <1>4 DEF handleFailedAttempt, Answer, Goto, write

LEMMA ExitType == TypeInv /\ Exit /\ pending' \subseteq Write => TypeInv'
  BY LabelsDistinct
     DEF TypeInv, TypeOK, Exit, LoginTypeOK, StoreTypeOK, storeVars, Waiting, Answered, Held

LEMMA InitType == Init => TypeInv
  BY DEF Init, ApiInit, StoreInit, LoginInit, TypeInv, TypeOK, StoreTypeOK, LoginTypeOK, Held

LEMMA StepType == TypeInv /\ [Next]_vars => TypeInv'
<1> SUFFICES ASSUME TypeInv, [Next]_vars PROVE TypeInv'
  OBVIOUS
<1> USE DEF TypeInv, TypeOK, storeVars
<1>1. ASSUME NEW r \in Requests, NEW username \in Usernames, NEW password \in Passwords,
             Submit(r, username, password)
      PROVE  TypeInv'
  BY <1>1, LabelsDistinct
     DEF Submit, Goto, StoreTypeOK, LoginTypeOK, Credentials, Waiting
<1>2. ASSUME NEW r \in Requests, FindUser(r) PROVE TypeInv'
  <2>1. CASE Answer(r, "refused")
    BY <1>2, <2>1, LabelsDistinct
       DEF FindUser, Answer, Goto, StoreTypeOK, LoginTypeOK, Answered
  <2>2. ASSUME NEW id \in findByUsername(dto[r].username), Goto(r, "claims"),
               user' = [user EXCEPT ![r] = Found(id)]
        PROVE  TypeInv'
    <3>1. Found(id) \in Snapshot
      BY SnapshotTypes DEF findByUsername, Snapshot
    <3> QED
      BY <1>2, <2>2, <3>1, LabelsDistinct
         DEF FindUser, Goto, StoreTypeOK, LoginTypeOK, Waiting
  <2> QED
    BY <1>2, <2>1, <2>2 DEF FindUser, Found
<1>14. ASSUME NEW r \in Requests, FindClaims(r) PROVE TypeInv'
  <2>1. WithClaims(user[r]) \in Snapshot
    BY <1>14, SnapshotTypes DEF FindClaims, Held, Snapshot
  <2>2. user' = [user EXCEPT ![r] = WithClaims(user[r])]
    BY <1>14 DEF FindClaims, WithClaims, LoginTypeOK, Snapshot
  <2> QED
    BY <1>14, <2>1, <2>2, LabelsDistinct
       DEF FindClaims, Goto, StoreTypeOK, LoginTypeOK, Waiting
<1>3. ASSUME NEW r \in Requests, CheckAccount(r) PROVE TypeInv'
  <2>1. CASE handleFailedAttempt(r)
    <3>1. pc[r] \in Held
      BY <1>3 DEF CheckAccount, Held
    <3> QED
      BY <1>3, <2>1, <3>1, FailedAttemptType, LabelsDistinct
         DEF CheckAccount, StoreTypeOK, LoginTypeOK, Answered
  <2>2. CASE UNCHANGED <<user, pending>> /\ (Goto(r, "unlock") \/ Goto(r, "compare"))
    BY <1>3, <2>2, LabelsDistinct
       DEF CheckAccount, Goto, StoreTypeOK, LoginTypeOK, Waiting, Held
  <2> QED
    BY <1>3, <2>1, <2>2 DEF CheckAccount
<1>4. ASSUME NEW r \in Requests, UnlockUser(r) PROVE TypeInv'
  <2>1. user[r] \in Snapshot /\ row[user[r].id] \in UserRow
    BY <1>4 DEF UnlockUser, UpdateUser, ids, StoreTypeOK, Held, Snapshot
  <2>2. unlockUser(row[user[r].id]) \in UserRow
    BY <2>1, StatementTypes
  <2>3. StoreTypeOK'
    BY <1>4, <2>1, <2>2 DEF UnlockUser, UpdateUser, StoreTypeOK
  <2> QED
    BY <1>4, <2>3, LabelsDistinct
       DEF UnlockUser, Goto, Answer, LoginTypeOK, Waiting, Answered, Held
<1>5. ASSUME NEW r \in Requests, ComparePassword(r) PROVE TypeInv'
  <2>1. CASE handleFailedAttempt(r)
    <3>1. pc[r] \in Held
      BY <1>5 DEF ComparePassword, Held
    <3> QED
      BY <1>5, <2>1, <3>1, FailedAttemptType, LabelsDistinct
         DEF ComparePassword, StoreTypeOK, LoginTypeOK, Answered
  <2>2. CASE UNCHANGED <<user, pending>> /\ Goto(r, "record")
    BY <1>5, <2>2, LabelsDistinct
       DEF ComparePassword, Goto, StoreTypeOK, LoginTypeOK, Waiting, Held
  <2> QED
    BY <1>5, <2>1, <2>2 DEF ComparePassword
<1>6. ASSUME NEW r \in Requests, CreateToken(r) PROVE TypeInv'
  <2>1. user[r] \in Snapshot /\ row[user[r].id] \in UserRow
    BY <1>6 DEF CreateToken, createToken, ids, StoreTypeOK, Held, Snapshot
  <2>2. user[r].id \in UserIds /\ user[r].row \in UserRow /\ now \in Nat
    BY <2>1 DEF Snapshot, LoginTypeOK
  <2>3. [userId |-> user[r].id, createdAt |-> now, loginMethod |-> "password",
         value |-> sign(user[r].row)] \in TokenRow
    BY <2>2, StatementTypes DEF TokenRow, LoginMethods
  <2>4. [row[user[r].id] EXCEPT !.accessFailedCount = 0] \in UserRow
    BY <2>1 DEF UserRow
  <2>5. StoreTypeOK'
    BY <1>6, <2>2, <2>3, <2>4 DEF CreateToken, createToken, StoreTypeOK
  <2> QED
    BY <1>6, <2>5, LabelsDistinct
       DEF CreateToken, Goto, Answer, LoginTypeOK, Waiting, Answered, Held
<1>7. ASSUME NEW r \in Requests, QueryFails(r) PROVE TypeInv'
  BY <1>7, LabelsDistinct
     DEF QueryFails, Answer, Goto, StoreTypeOK, LoginTypeOK, Answered
<1>8. ASSUME NEW w \in pending, SettleWrite(w) PROVE TypeInv'
  <2>1. w \in Write /\ w.id \in UserIds /\ row[w.id] \in UserRow
    BY <1>8 DEF SettleWrite, ids, StoreTypeOK, LoginTypeOK, Write
  <2>2. ApplyCount(row[w.id], w) \in UserRow
    BY <2>1, StatementTypes DEF LoginTypeOK
  <2> QED
    BY <1>8, <2>1, <2>2
       DEF SettleWrite, UpdateUser, requestVars, StoreTypeOK, LoginTypeOK
<1>9. ASSUME NEW w \in pending, RejectWrite(w) PROVE TypeInv'
  <2>1. pending' \subseteq Write
    BY <1>9 DEF RejectWrite, LoginTypeOK
  <2> QED
    BY <1>9, <2>1, ExitType DEF RejectWrite, requestVars, StoreTypeOK, LoginTypeOK
<1>10. CASE Kill
  BY <1>10, ExitType DEF Kill, LoginTypeOK
<1>11. CASE Restart \/ Tick
  <2>1. StoreTypeOK' /\ UNCHANGED <<requestVars, pending>>
    BY <1>11 DEF Restart, Tick, StoreTypeOK
  <2>2. now' \in Nat
    BY <1>11 DEF Restart, Tick, LoginTypeOK
  <2>3. up' \in BOOLEAN
    <3>1. up' = TRUE \/ up' = up
      BY <1>11, Zenon DEF Restart, Tick
    <3> QED
      BY <3>1, Zenon DEF LoginTypeOK
  <2> QED
    BY <2>1, <2>2, <2>3 DEF requestVars, LoginTypeOK
<1>12. CASE Admin
  BY <1>12, ApiNextType DEF Admin, loginVars, LoginTypeOK
<1>13. CASE UNCHANGED vars
  BY <1>13 DEF vars, StoreTypeOK, LoginTypeOK
<1> QED
  BY <1>1, <1>2, <1>3, <1>4, <1>5, <1>6, <1>7, <1>8, <1>9, <1>10, <1>11, <1>12, <1>13,
     <1>14 DEF Next, Serve

(* Every state of the service is well typed, and a request past its first  *)
(* read holds the snapshot it decides on.                                  *)
THEOREM TypeCorrect == Spec => []TypeInv
<1> QED
  BY InitType, StepType, PTL DEF Spec

(* The tables and every request are well typed, as the run checks.         *)
THEOREM TypesHold == Spec => []TypeOK
<1>1. TypeInv => TypeOK
  BY DEF TypeInv
<1> QED
  BY <1>1, TypeCorrect, PTL
-----------------------------------------------------------------------------
(* What a step does to the tables, whoever takes it.                       *)
Writes ==
  \/ UNCHANGED storeVars
  \/ \E id \in UserIds, u \in UserRow : InsertUser(id, u) \/ UpdateUser(id, u)
  \/ \E id \in UserIds : deleteById(id)
  \/ \E r \in Requests : CreateToken(r)

LEMMA StepWrites == TypeInv /\ [Next]_vars => Writes
<1> SUFFICES ASSUME TypeInv, [Next]_vars PROVE Writes
  OBVIOUS
<1> USE DEF TypeInv, TypeOK
<1>1. ASSUME NEW r \in Requests, UnlockUser(r) PROVE Writes
  <2>1. user[r] \in Snapshot /\ row[user[r].id] \in UserRow
    BY <1>1 DEF UnlockUser, UpdateUser, ids, StoreTypeOK, Held, Snapshot
  <2>2. user[r].id \in UserIds /\ unlockUser(row[user[r].id]) \in UserRow
    BY <2>1, StatementTypes DEF Snapshot
  <2> QED
    BY <1>1, <2>2 DEF UnlockUser, Writes
<1>2. ASSUME NEW w \in pending, SettleWrite(w) PROVE Writes
  <2>1. w \in Write /\ w.id \in UserIds /\ row[w.id] \in UserRow
    BY <1>2 DEF SettleWrite, ids, StoreTypeOK, LoginTypeOK, Write
  <2>2. ApplyCount(row[w.id], w) \in UserRow
    BY <2>1, StatementTypes DEF LoginTypeOK
  <2> QED
    BY <1>2, <2>1, <2>2 DEF SettleWrite, Writes
<1>3. ASSUME Admin PROVE Writes
  <2>1. PICK id \in UserIds :
          \/ \E body \in PostBodies : post(id, body)
          \/ \E body \in PatchBodies : patch(id, body)
          \/ delete(id)
    BY <1>3 DEF Admin, ApiNext
  <2>2. ASSUME NEW body \in PostBodies, post(id, body) PROVE Writes
    <3>1. NewUser(userCreateDtoSchema(body)) \in UserRow
      BY NewUserType, ApiAssumption
    <3> QED
      BY <2>2, <3>1 DEF post, create, Writes
  <2>3. ASSUME NEW body \in PatchBodies, patch(id, body) PROVE Writes
    <3>1. row[id] \in UserRow
      BY <2>3 DEF patch, updateById, ids, StoreTypeOK
    <3>2. Updated(row[id], userUpdateDtoSchema(body)) \in UserRow
      BY <3>1, SchemaType, UpdatedType, ApiAssumption
    <3> QED
      BY <2>3, <3>2 DEF patch, updateById, Writes
  <2> QED
    BY <2>1, <2>2, <2>3 DEF delete, Writes
<1>4. ASSUME NEW r \in Requests, CreateToken(r) PROVE Writes
  BY <1>4 DEF Writes
<1>5. ASSUME NEW r \in Requests,
             \/ \E username \in Usernames, password \in Passwords :
                  Submit(r, username, password)
             \/ FindUser(r) \/ FindClaims(r) \/ CheckAccount(r) \/ ComparePassword(r) \/ QueryFails(r)
      PROVE  UNCHANGED storeVars
  BY <1>5 DEF Submit, FindUser, FindClaims, CheckAccount, ComparePassword, QueryFails
<1>6. ASSUME (\E w \in pending : RejectWrite(w)) \/ Kill \/ Restart \/ Tick
      PROVE  UNCHANGED storeVars
  BY <1>6 DEF RejectWrite, Kill, Restart, Tick, Exit
<1>7. UNCHANGED vars => UNCHANGED storeVars
  BY DEF vars, storeVars
<1> QED
  BY <1>1, <1>2, <1>3, <1>4, <1>5, <1>6, <1>7 DEF Next, Serve, Writes

LEMMA StepStore == TypeInv /\ [Next]_vars => [StoreNext]_storeVars
<1> SUFFICES ASSUME TypeInv, Writes PROVE [StoreNext]_storeVars
  BY StepWrites
<1>1. StoreTypeOK
  BY DEF TypeInv, TypeOK
<1>2. ASSUME NEW id \in UserIds, NEW u \in UserRow, InsertUser(id, u) \/ UpdateUser(id, u)
      PROVE  StoreNext
  BY <1>1, <1>2, InsertIsStoreStep
<1>3. ASSUME NEW r \in Requests, CreateToken(r) PROVE StoreNext
  <2>1. user[r].id \in UserIds
    BY <1>3 DEF CreateToken, createToken, ids
  <2> QED
    BY <1>3, <2>1, TokenIsStoreStep DEF CreateToken
<1> QED
  BY <1>2, <1>3 DEF Writes, StoreNext

(* The login changes the tables by the statements of the store only, also  *)
(* when one of them takes effect after its request was answered: it can be *)
(* put in the place of the store in any argument about the tables.         *)
THEOREM LoginImplementsStore == Spec => StoreSpec
<1>1. Init => StoreInit
  BY DEF Init, ApiInit
<1> QED
  BY <1>1, StepStore, TypeCorrect, PTL DEF Spec, StoreSpec

(* No token outlives its account, however a login's insert and the         *)
(* account's delete interleave.                                            *)
THEOREM TokensBelong == Spec => []TokensOwned
<1>1. Init => TokensOwned
  BY DEF Init, ApiInit, StoreInit, TokensOwned
<1>2. TypeInv => StoreTypeOK
  BY DEF TypeInv, TypeOK
<1> QED
  BY <1>1, <1>2, StepStore, StoreStepTokens, TypeCorrect, PTL DEF Spec
-----------------------------------------------------------------------------
(* A granted request stays as it is, and only CreateToken grants.          *)
LEMMA GrantSteps ==
  ASSUME TypeInv, [Next]_vars, NEW r \in Requests, pc'[r] = "granted"
  PROVE  (pc[r] = "granted" /\ user'[r] = user[r]) \/ CreateToken(r)
<1> USE DEF TypeInv, TypeOK, LoginTypeOK, Goto, Answer
<1>1. ASSUME NEW q \in Requests,
             \/ \E username \in Usernames, password \in Passwords :
                  Submit(q, username, password)
             \/ FindUser(q) \/ FindClaims(q) \/ UnlockUser(q) \/ QueryFails(q)
      PROVE  pc[r] = "granted" /\ user'[r] = user[r]
  BY <1>1 DEF Submit, FindUser, FindClaims, UnlockUser, QueryFails
<1>2. ASSUME NEW q \in Requests, CheckAccount(q) \/ ComparePassword(q)
      PROVE  pc[r] = "granted" /\ user'[r] = user[r]
  BY <1>2 DEF CheckAccount, ComparePassword, handleFailedAttempt
<1>3. ASSUME NEW q \in Requests, CreateToken(q)
      PROVE  (pc[r] = "granted" /\ user'[r] = user[r]) \/ CreateToken(r)
  <2>1. CASE q = r
    BY <1>3, <2>1
  <2>2. CASE q # r
    BY <1>3, <2>2 DEF CreateToken
  <2> QED
    BY <2>1, <2>2
<1>4. CASE Exit
  BY <1>4 DEF Exit, Waiting
<1>5. CASE UNCHANGED <<pc, user>>
  BY <1>5
<1>6. ASSUME NEW w \in pending, SettleWrite(w) \/ RejectWrite(w)
      PROVE  Exit \/ UNCHANGED <<pc, user>>
  BY <1>6 DEF SettleWrite, RejectWrite, requestVars
<1>7. ASSUME Kill \/ Restart \/ Tick \/ Admin \/ UNCHANGED vars
      PROVE  Exit \/ UNCHANGED <<pc, user>>
  BY <1>7 DEF Kill, Restart, Tick, Admin, requestVars, loginVars, vars
<1> QED
  BY <1>1, <1>2, <1>3, <1>4, <1>5, <1>6, <1>7 DEF Next, Serve

Recorded(r) ==
  \/ user[r].id \in gone
  \/ \E t \in tokens : t.userId = user[r].id /\ t.value = sign(user[r].row)

LEMMA RecordedStays ==
  ASSUME Writes, NEW r \in Requests, Recorded(r), user'[r] = user[r]
  PROVE  Recorded(r)'
<1> USE DEF Recorded, sign
<1>1. CASE UNCHANGED storeVars
  BY <1>1 DEF storeVars
<1>2. ASSUME NEW id \in UserIds, NEW u \in UserRow, InsertUser(id, u) \/ UpdateUser(id, u)
      PROVE  Recorded(r)'
  BY <1>2 DEF InsertUser, UpdateUser
<1>3. ASSUME NEW id \in UserIds, deleteById(id) PROVE Recorded(r)'
  BY <1>3 DEF deleteById
<1>4. ASSUME NEW q \in Requests, CreateToken(q) PROVE Recorded(r)'
  BY <1>4 DEF CreateToken, createToken
<1> QED
  BY <1>1, <1>2, <1>3, <1>4 DEF Writes

LEMMA StepGranted == TypeInv /\ GrantRecorded /\ [Next]_vars => GrantRecorded'
<1> SUFFICES ASSUME TypeInv, GrantRecorded, [Next]_vars,
                    NEW r \in Requests, pc'[r] = "granted"
             PROVE  Recorded(r)'
  BY DEF GrantRecorded, Recorded
<1>1. CASE pc[r] = "granted" /\ user'[r] = user[r]
  BY <1>1, StepWrites, RecordedStays DEF GrantRecorded, Recorded
<1>2. CASE CreateToken(r)
  <2>1. user'[r] = user[r]
    BY <1>2 DEF CreateToken, Goto, Answer, TypeInv, TypeOK, LoginTypeOK
  <2> DEFINE t == [userId |-> user[r].id, createdAt |-> now, loginMethod |-> "password",
                   value |-> sign(user[r].row)]
  <2>2. t \in tokens'
    BY <1>2 DEF CreateToken, createToken
  <2>3. t.userId = user'[r].id /\ t.value = sign(user'[r].row)
    BY <2>1
  <2> HIDE DEF t
  <2> QED
    BY <2>2, <2>3 DEF Recorded, sign
<1> QED
  BY <1>1, <1>2, GrantSteps

(* login grants nothing it has not recorded: the token is in user_tokens   *)
(* until the account is deleted.                                           *)
THEOREM GrantsRecorded == Spec => []GrantRecorded
<1>1. Init => GrantRecorded
  BY DEF Init, LoginInit, GrantRecorded
<1> QED
  BY <1>1, StepGranted, TypeCorrect, PTL DEF Spec
-----------------------------------------------------------------------------
(* A request holds what it held, or has just read a row or its claims.     *)
LEMMA StepSnapshots ==
  ASSUME TypeInv, [Next]_vars, NEW r \in Requests, pc'[r] \in Held
  PROVE  \/ pc[r] \in Held /\ user'[r] = user[r]
         \/ \E id \in ids : user'[r] = Found(id)
         \/ pc[r] \in Held /\ user'[r] = WithClaims(user[r])
<1> USE DEF TypeInv, TypeOK, LoginTypeOK, Goto, Answer, Held
<1>1. ASSUME NEW q \in Requests, FindUser(q)
      PROVE  \/ pc[r] \in Held /\ user'[r] = user[r]
             \/ \E id \in ids : user'[r] = Found(id)
  BY <1>1 DEF FindUser, findByUsername, Found
<1>8. ASSUME NEW q \in Requests, FindClaims(q)
      PROVE  pc[r] \in Held /\ (user'[r] = user[r] \/ user'[r] = WithClaims(user[r]))
  <2>1. user[q] \in Snapshot
    BY <1>8 DEF FindClaims
  <2> QED
    BY <1>8, <2>1 DEF FindClaims, WithClaims, Snapshot
<1>2. ASSUME NEW q \in Requests,
             \/ \E username \in Usernames, password \in Passwords :
                  Submit(q, username, password)
             \/ UnlockUser(q) \/ QueryFails(q) \/ CreateToken(q)
      PROVE  pc[r] \in Held /\ user'[r] = user[r]
  BY <1>2 DEF Submit, UnlockUser, QueryFails, CreateToken
<1>3. ASSUME NEW q \in Requests, CheckAccount(q) \/ ComparePassword(q)
      PROVE  pc[r] \in Held /\ user'[r] = user[r]
  BY <1>3 DEF CheckAccount, ComparePassword, handleFailedAttempt
<1>4. CASE Exit
  BY <1>4 DEF Exit, Waiting
<1>5. CASE UNCHANGED <<pc, user>>
  BY <1>5
<1>6. ASSUME NEW w \in pending, SettleWrite(w) \/ RejectWrite(w)
      PROVE  Exit \/ UNCHANGED <<pc, user>>
  BY <1>6 DEF SettleWrite, RejectWrite, requestVars
<1>7. ASSUME Kill \/ Restart \/ Tick \/ Admin \/ UNCHANGED vars
      PROVE  Exit \/ UNCHANGED <<pc, user>>
  BY <1>7 DEF Kill, Restart, Tick, Admin, requestVars, loginVars, vars
<1> QED
  BY <1>1, <1>2, <1>3, <1>4, <1>5, <1>6, <1>7, <1>8 DEF Next, Serve

(* Only a failed attempt adds to the writes nobody awaits.                 *)
LEMMA StepPending ==
  ASSUME TypeInv, [Next]_vars
  PROVE  \/ pending' \subseteq pending
         \/ \E r \in Requests : pc[r] \in Held /\ handleFailedAttempt(r)
<1>1. ASSUME NEW r \in Requests, Serve(r)
      PROVE  pending' \subseteq pending \/ (pc[r] \in Held /\ handleFailedAttempt(r))
  BY <1>1 DEF Serve, FindUser, FindClaims, CheckAccount, UnlockUser, ComparePassword, CreateToken,
              QueryFails, Held
<1>2. ASSUME NEW r \in Requests, NEW username, NEW password, Submit(r, username, password)
      PROVE  pending' = pending
  BY <1>2 DEF Submit
<1>3. ASSUME NEW w \in pending, SettleWrite(w) \/ RejectWrite(w)
      PROVE  pending' \subseteq pending
  BY <1>3 DEF SettleWrite, RejectWrite
<1>4. ASSUME Kill \/ Restart \/ Tick \/ Admin \/ UNCHANGED vars PROVE pending' = pending
  BY <1>4 DEF Kill, Restart, Tick, Admin, loginVars, vars
<1> QED
  BY <1>1, <1>2, <1>3, <1>4 DEF Next

-----------------------------------------------------------------------------
(* With a lazy client nothing is ever under way, so the lockout is dead    *)
(* code: no count, no timed lock, no unlock.                               *)
Uncounted(u) == u.accessFailedCount = 0 /\ u.isLockedUntil = 0

NoLockout ==
  /\ pending = {}
  /\ \A id \in ids : Uncounted(row[id])
  /\ \A r \in Requests : pc[r] # "unlock"
  /\ \A r \in Requests : pc[r] \in Held => Uncounted(user[r].row)

LEMMA StepNoLockoutRows ==
  ASSUME TypeInv, NoLockout, [Next]_vars, NEW id \in UserIds, row'[id] # NoUser
  PROVE  Uncounted(row'[id])
<1> USE DEF TypeInv, TypeOK, StoreTypeOK, ids, Uncounted, NoLockout
<1>1. row[id] # NoUser => row[id] \in UserRow
  OBVIOUS
<1>2. CASE row' = row
  BY <1>2
<1>3. ASSUME NEW r \in Requests, CreateToken(r) PROVE Uncounted(row'[id])
  BY <1>1, <1>3 DEF CreateToken, createToken, UserRow
<1>4. ASSUME NEW r \in Requests, UnlockUser(r) PROVE FALSE
  BY <1>4 DEF UnlockUser
<1>5. CASE Admin
  <2>1. PICK i \in UserIds :
          \/ \E body \in PostBodies : post(i, body)
          \/ \E body \in PatchBodies : patch(i, body)
          \/ delete(i)
    BY <1>5 DEF Admin, ApiNext
  <2>2. ASSUME NEW body \in PostBodies, post(i, body) PROVE Uncounted(row'[id])
    BY <1>1, <2>2 DEF post, create, InsertUser, NewUser
  <2>3. ASSUME NEW body \in PatchBodies, patch(i, body) PROVE Uncounted(row'[id])
    <3>1. row[i] \in UserRow
      BY <2>3 DEF patch, updateById
    <3>2. Uncounted(Updated(row[i], userUpdateDtoSchema(body)))
      BY <2>3, <3>1 DEF Updated, UserRow, patch, updateById
    <3> QED
      BY <1>1, <2>3, <3>1, <3>2 DEF patch, updateById, UpdateUser
  <2>4. CASE delete(i)
    BY <1>1, <2>4 DEF delete, deleteById
  <2> QED
    BY <2>1, <2>2, <2>3, <2>4
<1>6. ASSUME NEW r \in Requests,
             \/ \E username \in Usernames, password \in Passwords :
                  Submit(r, username, password)
             \/ FindUser(r) \/ FindClaims(r) \/ CheckAccount(r) \/ ComparePassword(r) \/ QueryFails(r)
      PROVE  row' = row
  BY <1>6 DEF Submit, FindUser, FindClaims, CheckAccount, ComparePassword, QueryFails, storeVars
<1>7. ASSUME Kill \/ Restart \/ Tick \/ UNCHANGED vars PROVE row' = row
  BY <1>7 DEF Kill, Restart, Tick, Exit, storeVars, vars
<1> QED
  BY <1>2, <1>3, <1>4, <1>5, <1>6, <1>7 DEF Next, Serve

LEMMA StepNoLockout ==
  ASSUME EagerQueries = FALSE, TypeInv, NoLockout, [Next]_vars PROVE NoLockout'
<1>1. pending' = {}
  BY StepPending DEF NoLockout, handleFailedAttempt
<1>2. \A id \in ids' : Uncounted(row'[id])
  BY StepNoLockoutRows DEF ids
<1>3. ASSUME NEW r \in Requests, pc'[r] = "unlock" PROVE FALSE
  <2> USE DEF Goto, Answer, TypeInv, TypeOK, LoginTypeOK, NoLockout
  <2>1. ASSUME NEW q \in Requests, CheckAccount(q) PROVE FALSE
    BY <1>3, <2>1 DEF CheckAccount, handleFailedAttempt, LockExpired, Uncounted, Held
  <2>2. ASSUME NEW q \in Requests,
               \/ \E username \in Usernames, password \in Passwords :
                    Submit(q, username, password)
               \/ FindUser(q) \/ FindClaims(q) \/ UnlockUser(q) \/ ComparePassword(q)
               \/ CreateToken(q) \/ QueryFails(q)
        PROVE  FALSE
    BY <1>3, <2>2 DEF Submit, FindUser, FindClaims, UnlockUser, ComparePassword, CreateToken, QueryFails,
                      handleFailedAttempt
  <2>3. ASSUME Kill \/ Restart \/ Tick \/ Admin \/ UNCHANGED vars PROVE FALSE
    BY <1>3, <2>3 DEF Kill, Exit, Restart, Tick, Admin, requestVars, loginVars, vars
  <2> QED
    BY <2>1, <2>2, <2>3 DEF Next, Serve
<1>4. ASSUME NEW r \in Requests, pc'[r] \in Held PROVE Uncounted(user'[r].row)
  <2>1. CASE pc[r] \in Held /\ user'[r] = user[r]
    BY <2>1 DEF NoLockout
  <2>2. ASSUME NEW id \in ids, user'[r] = Found(id) PROVE Uncounted(user'[r].row)
    <3>1. row[id] \in UserRow /\ Uncounted(row[id])
      BY DEF TypeInv, TypeOK, StoreTypeOK, ids, NoLockout
    <3> QED
      BY <2>2, <3>1 DEF Found, UserRow, Uncounted
  <2>3. CASE pc[r] \in Held /\ user'[r] = WithClaims(user[r])
    <3>1. user[r] \in Snapshot /\ Uncounted(user[r].row)
      BY <2>3 DEF TypeInv, NoLockout
    <3> QED
      BY <2>3, <3>1 DEF WithClaims, Snapshot, UserRow, Uncounted
  <2> QED
    BY <1>4, <2>1, <2>2, <2>3, StepSnapshots
<1> QED
  BY <1>1, <1>2, <1>3, <1>4 DEF NoLockout, Uncounted

LEMMA InitNoLockout == Init => NoLockout
  BY DEF Init, ApiInit, StoreInit, LoginInit, NoLockout, ids, Held

(* setAccessFailedCount and unlockUser never take effect with a lazy       *)
(* client: no row ever has a count or a lock that ends, so no number of    *)
(* failed attempts locks an account.                                       *)
THEOREM LockoutNeverEngages ==
  ASSUME EagerQueries = FALSE
  PROVE  Spec => [](\A id \in ids : Uncounted(row[id]))
<1>1. NoLockout => \A id \in ids : Uncounted(row[id])
  BY DEF NoLockout
<1>2. TypeInv /\ NoLockout /\ [Next]_vars => NoLockout'
  BY StepNoLockout
<1> QED
  BY <1>1, <1>2, InitNoLockout, TypeCorrect, PTL DEF Spec

(* What is left of the lock is the administrators': with a lazy client     *)
(* nothing a login does ends a lock or gives it an end.                    *)
THEOREM LazyAdminLockHolds ==
  ASSUME EagerQueries = FALSE
  PROVE  Spec => AdminLockHolds
<1>1. ASSUME TypeInv, NoLockout, Next, ~Admin, NEW id \in ids, row[id].isLocked,
             row[id].isLockedUntil = 0
      PROVE  row'[id].isLocked /\ row'[id].isLockedUntil = 0
  <2> USE DEF TypeInv, TypeOK, StoreTypeOK, ids, NoLockout
  <2>1. row[id] \in UserRow
    BY <1>1
  <2>2. ASSUME NEW r \in Requests, CreateToken(r)
        PROVE  row'[id].isLocked /\ row'[id].isLockedUntil = 0
    BY <1>1, <2>1, <2>2 DEF CreateToken, createToken, UserRow
  <2>3. ASSUME NEW r \in Requests, UnlockUser(r) PROVE FALSE
    BY <1>1, <2>3 DEF UnlockUser
  <2>4. ASSUME NEW r \in Requests,
               \/ \E username \in Usernames, password \in Passwords :
                    Submit(r, username, password)
               \/ FindUser(r) \/ FindClaims(r) \/ CheckAccount(r) \/ ComparePassword(r) \/ QueryFails(r)
        PROVE  row' = row
    BY <2>4 DEF Submit, FindUser, FindClaims, CheckAccount, ComparePassword, QueryFails, storeVars
  <2>5. ASSUME Kill \/ Restart \/ Tick PROVE row' = row
    BY <2>5 DEF Kill, Restart, Tick, Exit, storeVars
  <2> QED
    BY <1>1, <2>2, <2>3, <2>4, <2>5 DEF Next, Serve
<1>2. TypeInv /\ NoLockout /\ [Next]_vars =>
        [\A id \in ids :
           /\ row[id].isLocked /\ row[id].isLockedUntil = 0
           /\ ~Admin
           => row'[id].isLocked /\ row'[id].isLockedUntil = 0]_vars
  BY <1>1
<1>3. TypeInv /\ NoLockout /\ [Next]_vars => NoLockout'
  BY StepNoLockout
<1> QED
  BY <1>2, <1>3, InitNoLockout, TypeCorrect, PTL DEF Spec, AdminLockHolds
=============================================================================
