----------------------- MODULE PasswordLoginHistory_proofs -----------------------
(***************************************************************************)
(* Theorems about PasswordLogin that speak of its history.                 *)
(***************************************************************************)
EXTENDS PasswordLoginHistory, PasswordLogin_proofs, FiniteSetTheorems

(* A step of the history is a step of the login.                           *)
LEMMA HistoryWatches == HSpec => Spec
<1>1. HInit => Init
  BY DEF HInit
<1>2. [HNext]_hvars => [Next]_vars
  BY DEF HNext, hvars, vars
<1> QED
  BY <1>1, <1>2, PTL DEF HSpec, Spec
-----------------------------------------------------------------------------
(* A count is paid for by failed attempts on its account, in the row, in   *)
(* the writes under way and in the snapshots new counts are made from; a   *)
(* lock with an end is paid for by more of them than the limit.            *)
Paid(count, until, n) ==
  /\ count <= n
  /\ until # 0 => n > FailedCountMax

EarnedInv ==
  /\ attempts \in [UserIds -> Nat]
  /\ \A id \in ids : Paid(row[id].accessFailedCount, row[id].isLockedUntil, attempts[id])
  /\ \A w \in pending : Paid(w.count, w.until, attempts[w.id])
  /\ \A r \in Requests : pc[r] \in Held =>
       user[r].row.accessFailedCount <= attempts[user[r].id]

(* At most one attempt fails in a step.                                    *)
LEMMA FailsAlone ==
  ASSUME TypeInv, [Next]_vars, NEW r \in Requests,
         pc[r] \in {"check", "compare"}, pc'[r] = "refused"
  PROVE  \A q \in Requests : q # r => pc'[q] = pc[q]
<1> USE DEF TypeInv, TypeOK, LoginTypeOK, Goto, Answer
<1>1. ASSUME NEW q \in Requests, Serve(q)
      PROVE  \A p \in Requests : p # q => pc'[p] = pc[p]
  BY <1>1 DEF Serve, FindUser, FindClaims, CheckAccount, UnlockUser, ComparePassword, CreateToken,
              QueryFails, handleFailedAttempt
<1>2. ASSUME NEW q \in Requests, NEW username, NEW password, Submit(q, username, password)
      PROVE  \A p \in Requests : p # q => pc'[p] = pc[p]
  BY <1>2 DEF Submit
<1>3. ~Exit
  BY DEF Exit, Waiting
<1>4. ASSUME (\E w \in pending : SettleWrite(w) \/ RejectWrite(w))
             \/ Kill \/ Restart \/ Tick \/ Admin \/ UNCHANGED vars
      PROVE  pc' = pc
  BY <1>3, <1>4 DEF SettleWrite, RejectWrite, Kill, Restart, Tick, Admin, requestVars,
                    loginVars, vars
<1> QED
  BY <1>1, <1>2, <1>4 DEF Next

LEMMA FailCount ==
  ASSUME TypeInv, [Next]_vars, NEW id \in UserIds
  PROVE  /\ Cardinality(FailNow(id)) \in Nat
         /\ FailNow(id) # {} => Cardinality(FailNow(id)) = 1
<1>1. CASE FailNow(id) = {}
  BY <1>1, FS_EmptySet
<1>2. ASSUME NEW r \in FailNow(id)
      PROVE  Cardinality(FailNow(id)) = 1
  <2>1. r \in Requests /\ pc[r] \in {"check", "compare"} /\ pc'[r] = "refused"
    BY DEF FailNow
  <2>2. \A q \in FailNow(id) : q \in Requests /\ pc[q] # pc'[q]
    BY DEF FailNow
  <2>3. FailNow(id) = {r}
    BY <1>2, <2>1, <2>2, FailsAlone
  <2> QED
    BY <2>3, FS_Singleton
<1> QED
  BY <1>1, <1>2

LEMMA AttemptsGrow ==
  ASSUME TypeInv, EarnedInv, [HNext]_hvars, NEW id \in UserIds
  PROVE  /\ attempts[id] \in Nat /\ attempts'[id] \in Nat
         /\ attempts'[id] >= attempts[id]
         /\ HNext /\ FailNow(id) # {} => attempts'[id] >= attempts[id] + 1
<1>1. attempts[id] \in Nat
  BY DEF EarnedInv
<1>2. CASE HNext
  <2>1. attempts'[id] = attempts[id] + Cardinality(FailNow(id))
    BY <1>2 DEF HNext, Watch
  <2>2. /\ Cardinality(FailNow(id)) \in Nat
        /\ FailNow(id) # {} => Cardinality(FailNow(id)) = 1
    BY <1>2, FailCount DEF HNext
  <2> QED
    BY <1>1, <2>1, <2>2
<1>3. CASE UNCHANGED hvars /\ ~HNext
  BY <1>1, <1>3 DEF hvars
<1> QED
  BY <1>2, <1>3

(* What a step does to the count and the lock of a row: it leaves them,    *)
(* takes them back, or carries out a write that was under way.             *)
LEMMA StepRowLocks ==
  ASSUME TypeInv, [Next]_vars, NEW id \in UserIds, row'[id] # NoUser
  PROVE  \/ /\ row[id] # NoUser
            /\ row'[id].accessFailedCount \in {0, row[id].accessFailedCount}
            /\ row'[id].isLockedUntil \in {0, row[id].isLockedUntil}
         \/ row'[id].accessFailedCount = 0 /\ row'[id].isLockedUntil = 0
         \/ \E w \in pending : /\ w.id = id /\ row[id] # NoUser
                               /\ row'[id].accessFailedCount = w.count
                               /\ row'[id].isLockedUntil \in {w.until, row[id].isLockedUntil}
         \/ \E w \in pending : /\ w.id = id
                               /\ row'[id].accessFailedCount = 0
                               /\ row'[id].isLockedUntil = w.until
<1> USE DEF TypeInv, TypeOK, StoreTypeOK, ids
<1>0. row[id] # NoUser => row[id] \in UserRow
  OBVIOUS
<1>1. CASE row'[id] = row[id]
  BY <1>1
<1>2. ASSUME NEW r \in Requests, UnlockUser(r)
      PROVE  row'[id] = row[id] \/ (row'[id].accessFailedCount = 0 /\ row'[id].isLockedUntil = 0)
  <2>1. user[r] \in Snapshot
    BY <1>2 DEF UnlockUser, Held
  <2>2. row[user[r].id] \in UserRow
    BY <1>2, <2>1 DEF UnlockUser, UpdateUser, Snapshot
  <2> QED
    BY <1>2, <2>1, <2>2 DEF UnlockUser, UpdateUser, unlockUser, UserRow, Snapshot
<1>3. ASSUME NEW w \in pending, SettleWrite(w), w.id = id
      PROVE  \/ /\ row'[id].accessFailedCount = w.count
                /\ row'[id].isLockedUntil = row[id].isLockedUntil
             \/ /\ row'[id].accessFailedCount = 0
                /\ row'[id].isLockedUntil = w.until
  <2>1. row[id] \in UserRow
    BY <1>0, <1>3 DEF SettleWrite
  <2>2. row'[id] = ApplyCount(row[id], w)
    BY <1>3 DEF SettleWrite, UpdateUser
  <2> QED
    BY <2>1, <2>2 DEF ApplyCount, lockUser, UserRow
<1>4. ASSUME NEW w \in pending, SettleWrite(w), w.id # id
      PROVE  row'[id] = row[id]
  BY <1>4 DEF SettleWrite, UpdateUser
<1>5. ASSUME NEW r \in Requests, CreateToken(r)
      PROVE  row'[id] = row[id] \/ (/\ row[id] # NoUser /\ row'[id].accessFailedCount = 0
                                    /\ row'[id].isLockedUntil = row[id].isLockedUntil)
  <2>1. CASE user[r].id = id
    <3>1. row[id] \in UserRow
      BY <1>0, <1>5, <2>1 DEF CreateToken, createToken
    <3>2. row'[id] = [row[id] EXCEPT !.accessFailedCount = 0]
      BY <1>5, <2>1 DEF CreateToken, createToken
    <3> QED
      BY <3>1, <3>2, StoreAssumption DEF UserRow
  <2>2. CASE user[r].id # id
    BY <1>5, <2>2 DEF CreateToken, createToken
  <2> QED
    BY <2>1, <2>2
<1>6. ASSUME Admin
      PROVE  \/ /\ row[id] # NoUser
                /\ row'[id].accessFailedCount = row[id].accessFailedCount
                /\ row'[id].isLockedUntil = row[id].isLockedUntil
             \/ row'[id].accessFailedCount = 0 /\ row'[id].isLockedUntil = 0
  <2>1. PICK i \in UserIds :
          \/ \E body \in PostBodies : post(i, body)
          \/ \E body \in PatchBodies : patch(i, body)
          \/ delete(i)
    BY <1>6 DEF Admin, ApiNext
  <2>2. CASE row'[id] = row[id]
    BY <2>2
  <2>3. ASSUME NEW body \in PostBodies, post(i, body)
        PROVE  \/ row'[id] = row[id]
               \/ row'[id].accessFailedCount = 0 /\ row'[id].isLockedUntil = 0
    BY <2>3 DEF post, create, InsertUser, NewUser
  <2>4. ASSUME NEW body \in PatchBodies, patch(i, body)
        PROVE  /\ row[id] # NoUser
               /\ row'[id].accessFailedCount = row[id].accessFailedCount
               /\ row'[id].isLockedUntil = row[id].isLockedUntil
    <3>1. row[i] \in UserRow
      BY <2>4 DEF patch, updateById
    <3>2. /\ Updated(row[i], userUpdateDtoSchema(body)).accessFailedCount
               = row[i].accessFailedCount
          /\ Updated(row[i], userUpdateDtoSchema(body)).isLockedUntil = row[i].isLockedUntil
      BY <3>1 DEF Updated, UserRow
    <3> QED
      BY <2>4, <3>1, <3>2 DEF patch, updateById, UpdateUser
  <2>5. CASE delete(i)
    BY <2>5 DEF delete, deleteById
  <2> QED
    BY <2>1, <2>2, <2>3, <2>4, <2>5
<1>7. ASSUME NEW r \in Requests,
             \/ \E username \in Usernames, password \in Passwords :
                  Submit(r, username, password)
             \/ FindUser(r) \/ FindClaims(r) \/ CheckAccount(r) \/ ComparePassword(r) \/ QueryFails(r)
      PROVE  row' = row
  BY <1>7 DEF Submit, FindUser, FindClaims, CheckAccount, ComparePassword, QueryFails, storeVars
<1>8. ASSUME (\E w \in pending : RejectWrite(w)) \/ Kill \/ Restart \/ Tick \/ UNCHANGED vars
      PROVE  row' = row
  BY <1>8 DEF RejectWrite, Kill, Restart, Tick, Exit, storeVars, vars
<1>9. ASSUME NEW w \in pending, SettleWrite(w), w.id = id
      PROVE  row[id] # NoUser
  BY <1>9 DEF SettleWrite
<1> QED
  BY <1>1, <1>2, <1>3, <1>4, <1>5, <1>6, <1>7, <1>8, <1>9 DEF Next, Serve

(* Only a failed attempt adds to the writes nobody awaits.                 *)
LEMMA StepFails ==
  ASSUME TypeInv, [Next]_vars
  PROVE  \/ pending' \subseteq pending
         \/ \E r \in Requests : /\ pc[r] \in {"check", "compare"} /\ pc'[r] = "refused"
                                /\ handleFailedAttempt(r)
<1>1. ASSUME NEW r \in Requests, Serve(r)
      PROVE  \/ pending' \subseteq pending
             \/ pc[r] \in {"check", "compare"} /\ handleFailedAttempt(r)
  BY <1>1 DEF Serve, FindUser, FindClaims, CheckAccount, UnlockUser, ComparePassword, CreateToken,
              QueryFails
<1>2. ASSUME NEW r \in Requests, handleFailedAttempt(r)
      PROVE  pc'[r] = "refused"
  BY <1>2 DEF handleFailedAttempt, Answer, Goto, TypeInv, TypeOK, LoginTypeOK
<1>3. ASSUME NEW r \in Requests, NEW username, NEW password, Submit(r, username, password)
      PROVE  pending' = pending
  BY <1>3 DEF Submit
<1>4. ASSUME NEW w \in pending, SettleWrite(w) \/ RejectWrite(w)
      PROVE  pending' \subseteq pending
  BY <1>4 DEF SettleWrite, RejectWrite
<1>5. ASSUME Kill \/ Restart \/ Tick \/ Admin \/ UNCHANGED vars PROVE pending' = pending
  BY <1>5 DEF Kill, Restart, Tick, Admin, loginVars, vars
<1> QED
  BY <1>1, <1>2, <1>3, <1>4, <1>5 DEF Next

(* The limit is passed by counts only, and a count by attempts.            *)
LEMMA StatementPaid ==
  ASSUME NEW count \in Nat, NEW at, NEW n \in Nat, NEW m \in Nat, count <= n, m >= n + 1
  PROVE  Paid(setAccessFailedCount(count + 1, at).count,
              setAccessFailedCount(count + 1, at).until, m)
  BY StoreAssumption DEF Paid, setAccessFailedCount

LEMMA StepEarned == TypeInv /\ EarnedInv /\ [HNext]_hvars => EarnedInv'
<1> SUFFICES ASSUME TypeInv, EarnedInv, [HNext]_hvars PROVE EarnedInv'
  OBVIOUS
<1>0. [Next]_vars
  BY DEF HNext, hvars, vars
<1>1. attempts' \in [UserIds -> Nat]
  <2>1. attempts' = [id \in UserIds |-> attempts'[id]]
    BY DEF HNext, Watch, hvars, EarnedInv
  <2> QED
    BY <2>1, AttemptsGrow
<1>2. ASSUME NEW id \in UserIds, NEW count \in Nat, NEW until, Paid(count, until, attempts[id])
      PROVE  Paid(count, until, attempts'[id]) /\ Paid(0, until, attempts'[id])
  BY <1>2, AttemptsGrow, StoreAssumption DEF Paid
<1>3. ASSUME NEW id \in UserIds, row'[id] # NoUser
      PROVE  Paid(row'[id].accessFailedCount, row'[id].isLockedUntil, attempts'[id])
  <2>1. row[id] # NoUser =>
          /\ row[id].accessFailedCount \in Nat
          /\ Paid(row[id].accessFailedCount, row[id].isLockedUntil, attempts'[id])
          /\ Paid(0, row[id].isLockedUntil, attempts'[id])
    <3>1. row[id] # NoUser => row[id].accessFailedCount \in Nat
      BY DEF TypeInv, TypeOK, StoreTypeOK, UserRow
    <3> QED
      BY <3>1, <1>2 DEF EarnedInv, ids
  <2>2. \A w \in pending : w.id = id =>
          Paid(w.count, w.until, attempts'[id]) /\ Paid(0, w.until, attempts'[id])
    <3>1. \A w \in pending : w.count \in Nat
      BY DEF TypeInv, TypeOK, LoginTypeOK, Write
    <3> QED
      BY <3>1, <1>2 DEF EarnedInv
  <2>3. attempts'[id] \in Nat
    BY AttemptsGrow
  <2> QED
    BY <1>0, <1>3, <2>1, <2>2, <2>3, StepRowLocks DEF Paid
<1>4. ASSUME NEW w \in pending' PROVE Paid(w.count, w.until, attempts'[w.id])
  <2>1. CASE w \in pending
    <3>1. w.id \in UserIds /\ w.count \in Nat
      BY <2>1 DEF TypeInv, TypeOK, LoginTypeOK, Write
    <3> QED
      BY <1>2, <2>1, <3>1 DEF EarnedInv
  <2>2. CASE w \notin pending
    <3>1. PICK r \in Requests : /\ pc[r] \in {"check", "compare"} /\ pc'[r] = "refused"
                                /\ handleFailedAttempt(r)
      BY <1>0, <1>4, <2>2, StepFails
    <3> DEFINE count == user[r].row.accessFailedCount
               write == setAccessFailedCount(count + 1, now)
    <3>2. w = [by |-> r, id |-> user[r].id, count |-> write.count, until |-> write.until]
      BY <1>4, <2>2, <3>1 DEF handleFailedAttempt
    <3>3. /\ user[r].id \in UserIds /\ count \in Nat
          /\ count <= attempts[user[r].id]
      BY <3>1 DEF TypeInv, EarnedInv, Held, Snapshot, UserRow
    <3>4. attempts[user[r].id] \in Nat
      BY <3>3, AttemptsGrow
    <3>5. attempts'[user[r].id] \in Nat /\ attempts'[user[r].id] >= attempts[user[r].id] + 1
      <4>1. r \in FailNow(user[r].id)
        BY <3>1 DEF FailNow
      <4>2. HNext
        BY <3>1 DEF hvars
      <4> QED
        BY <3>3, <4>1, <4>2, AttemptsGrow
    <3> HIDE DEF count
    <3>6. Paid(write.count, write.until, attempts'[user[r].id])
      BY <3>3, <3>4, <3>5, StatementPaid
    <3> HIDE DEF write
    <3> QED
      BY <3>2, <3>6
  <2> QED
    BY <2>1, <2>2
<1>5. ASSUME NEW r \in Requests, pc'[r] \in Held
      PROVE  user'[r].row.accessFailedCount <= attempts'[user'[r].id]
  <2>1. CASE pc[r] \in Held /\ user'[r] = user[r]
    <3>1. /\ user[r].id \in UserIds /\ user[r].row.accessFailedCount \in Nat
          /\ user[r].row.accessFailedCount <= attempts[user[r].id]
      BY <2>1 DEF TypeInv, EarnedInv, Snapshot, UserRow
    <3> QED
      BY <2>1, <3>1, AttemptsGrow
  <2>2. ASSUME NEW id \in ids, user'[r] = Found(id)
        PROVE  user'[r].row.accessFailedCount <= attempts'[user'[r].id]
    <3>1. /\ id \in UserIds /\ row[id].accessFailedCount \in Nat
          /\ row[id].accessFailedCount <= attempts[id]
          /\ Found(id).id = id /\ Found(id).row.accessFailedCount = row[id].accessFailedCount
      BY DEF TypeInv, TypeOK, StoreTypeOK, EarnedInv, ids, UserRow, Paid, Found
    <3> QED
      BY <2>2, <3>1, AttemptsGrow
  <2>3. CASE pc[r] \in Held /\ user'[r] = WithClaims(user[r])
    <3>1. /\ user[r].id \in UserIds /\ user[r].row.accessFailedCount \in Nat
          /\ user[r].row.accessFailedCount <= attempts[user[r].id]
          /\ WithClaims(user[r]).id = user[r].id
          /\ WithClaims(user[r]).row.accessFailedCount = user[r].row.accessFailedCount
      BY <2>3 DEF TypeInv, EarnedInv, Snapshot, UserRow, WithClaims
    <3> QED
      BY <2>3, <3>1, AttemptsGrow
  <2> QED
    BY <1>0, <1>5, <2>1, <2>2, <2>3, StepSnapshots
<1> QED
  BY <1>1, <1>3, <1>4, <1>5 DEF EarnedInv, ids

LEMMA InitEarned == HInit => EarnedInv
  BY DEF HInit, Init, ApiInit, StoreInit, LoginInit, EarnedInv, ids, Held

(* No account is locked early: a lock that has an end was earned by more   *)
(* than FailedCountMax failed attempts on that account, from however stale *)
(* snapshots the counts are made and however late they are written.        *)
THEOREM LocksEarned == HSpec => []LockoutEarned
<1>1. EarnedInv => LockoutEarned
  BY DEF EarnedInv, LockoutEarned, Paid
<1> QED
  BY <1>1, InitEarned, StepEarned, HistoryWatches, TypeCorrect, PTL DEF HSpec
-----------------------------------------------------------------------------
(* LoginPromise: PasswordLogin implements LoginContract.  First the views, *)
(* over any state `a` of the accounts, so that they can be spoken of before*)
(* and after a step.                                                       *)
Views == [id : UserIds, account : Accounts]

AccountStates == [UserIds -> Accounts \cup {NoUser}]

LookUpIn(a, username) ==
  LET found == {id \in UserIds : a[id] # NoUser /\ a[id].username = username}
  IN  IF found = {} THEN {NoUser} ELSE {[id |-> id, account |-> a[id]] : id \in found}

ClaimsIn(a, id) == IF a[id] = NoUser THEN NoClaims ELSE a[id].claims

RefreshIn(a, views) ==
  {[v EXCEPT !.account.claims = ClaimsIn(a, v.id)] : v \in views \ {NoUser}}

(* Nothing a login of that name can read now is missing among the views.   *)
UpToDate(a, username, views) ==
  /\ views \subseteq Views \cup {NoUser}
  /\ LookUpIn(a, username) \subseteq views
  /\ RefreshIn(a, views) \subseteq views

(* A request past its first read has a view of its snapshot but for the    *)
(* claims, and past its second read one of all of it, so that what it has  *)
(* found out on the way to an answer stays true of that view.              *)
PromiseInv ==
  /\ \A r \in Requests : pc[r] \notin Waiting => seen[r] = {}
  /\ \A r \in Requests : pc[r] \in Waiting =>
       dto[r] \in Credentials /\ UpToDate(account, dto[r].username, seen[r])
  /\ \A r \in Requests : pc[r] \in Held \cap Waiting =>
       user[r].row.username = dto[r].username
  /\ \A r \in Requests : pc[r] = "claims" =>
       \E claims \in Claims :
         [id |-> user[r].id, account |-> [Account(user[r].row) EXCEPT !.claims = claims]]
           \in seen[r]
  /\ \A r \in Requests : pc[r] \in {"check", "unlock", "compare", "record"} =>
       [id |-> user[r].id, account |-> Account(user[r].row)] \in seen[r]
  /\ \A r \in Requests : pc[r] \in {"unlock", "compare", "record"} =>
       ~user[r].row.isLocked \/ LockExpired(user[r].row)
  /\ \A r \in Requests : pc[r] = "record" => dto[r].password = user[r].row.password

LEMMA AccountIn ==
  ASSUME NEW u \in UserRow
  PROVE  /\ Account(u) \in Accounts /\ Account(u) # NoUser
         /\ Account(u).username = u.username /\ Account(u).claims = u.claims
<1>1. Account(u) \in Accounts
  BY DEF Account, Accounts, UserRow
<1> QED
  BY <1>1, HistoryAssumption DEF Account

LEMMA AccountType ==
  ASSUME NEW rows \in [UserIds -> UserRow \cup {NoUser}]
  PROVE  [id \in UserIds |-> IF rows[id] = NoUser THEN NoUser ELSE Account(rows[id])]
           \in AccountStates
  BY AccountIn DEF AccountStates

LEMMA AccountTypes ==
  /\ TypeInv => account \in AccountStates
  /\ TypeInv' => account' \in AccountStates
<1>1. ASSUME TypeInv PROVE account \in AccountStates
  BY <1>1, AccountType DEF account, TypeInv, TypeOK, StoreTypeOK
<1>2. ASSUME TypeInv' PROVE account' \in AccountStates
  <2>1. row' \in [UserIds -> UserRow \cup {NoUser}]
    BY <1>2 DEF TypeInv, TypeOK, StoreTypeOK
  <2>2. account' = [id \in UserIds |-> IF row'[id] = NoUser THEN NoUser ELSE Account(row'[id])]
    BY DEF account, Account
  <2> QED
    BY <2>1, <2>2, AccountType
<1> QED
  BY <1>1, <1>2

(* A view with other claims. *)
LEMMA Reclaimed ==
  ASSUME NEW v \in Views, NEW c \in Claims
  PROVE  /\ [v EXCEPT !.account.claims = c] \in Views
         /\ [v EXCEPT !.account.claims = c].id = v.id
         /\ [v EXCEPT !.account.claims = c]
              = [id |-> v.id, account |-> [v.account EXCEPT !.claims = c]]
         /\ [v EXCEPT !.account.claims = c].account.claims = c
         /\ v.account.claims = c => [v EXCEPT !.account.claims = c] = v
<1>1. v.id \in UserIds /\ v.account \in Accounts
  BY DEF Views
<1>2. [v.account EXCEPT !.claims = c] \in Accounts /\ [v.account EXCEPT !.claims = c].claims = c
  BY <1>1 DEF Accounts
<1>3. [v EXCEPT !.account.claims = c]
        = [id |-> v.id, account |-> [v.account EXCEPT !.claims = c]]
  BY DEF Views
<1>4. ASSUME v.account.claims = c PROVE [v.account EXCEPT !.claims = c] = v.account
  BY <1>1, <1>4 DEF Accounts
<1>5. v = [id |-> v.id, account |-> v.account]
  BY DEF Views
<1> QED
  BY <1>1, <1>2, <1>3, <1>4, <1>5 DEF Views

(* Looking once leaves nothing to be seen by looking again.                *)
LEMMA LookingSuffices ==
  ASSUME NEW a \in AccountStates, NEW username, NEW views \in SUBSET (Views \cup {NoUser})
  PROVE  UpToDate(a, username, views \cup LookUpIn(a, username) \cup RefreshIn(a, views))
<1> USE DEF AccountStates
<1> DEFINE all == views \cup LookUpIn(a, username) \cup RefreshIn(a, views)
           fresh(v) == [v EXCEPT !.account.claims = ClaimsIn(a, v.id)]
<1>1. \A id \in UserIds : ClaimsIn(a, id) \in Claims
  BY NoClaimsType DEF ClaimsIn, Accounts
<1>2. \A v \in Views : /\ fresh(v) \in Views /\ fresh(fresh(v)) = fresh(v)
                       /\ v.account.claims = ClaimsIn(a, v.id) => fresh(v) = v
  <2> SUFFICES ASSUME NEW v \in Views
               PROVE  /\ fresh(v) \in Views /\ fresh(fresh(v)) = fresh(v)
                      /\ v.account.claims = ClaimsIn(a, v.id) => fresh(v) = v
    OBVIOUS
  <2>1. ClaimsIn(a, v.id) \in Claims
    BY <1>1 DEF Views
  <2>2. /\ fresh(v) \in Views /\ fresh(v).id = v.id
        /\ fresh(v).account.claims = ClaimsIn(a, v.id)
        /\ v.account.claims = ClaimsIn(a, v.id) => fresh(v) = v
    BY <2>1, Reclaimed
  <2>3. fresh(v).account.claims = ClaimsIn(a, fresh(v).id)
        /\ ClaimsIn(a, fresh(v).id) \in Claims
    BY <2>1, <2>2
  <2>4. fresh(fresh(v)) = fresh(v)
    <3> DEFINE f == fresh(v)
    <3>1. f \in Views /\ f.account.claims = ClaimsIn(a, f.id) /\ ClaimsIn(a, f.id) \in Claims
      BY <2>2, <2>3
    <3> HIDE DEF f
    <3>2. [f EXCEPT !.account.claims = ClaimsIn(a, f.id)] = f
      BY <3>1, Reclaimed
    <3> QED
      BY <3>2 DEF f
  <2> QED
    BY <2>2, <2>4
<1>3. LookUpIn(a, username) \subseteq Views \cup {NoUser}
  BY DEF LookUpIn, Views
<1>4. \A v \in LookUpIn(a, username) \ {NoUser} : v.account.claims = ClaimsIn(a, v.id)
  BY DEF LookUpIn, ClaimsIn
<1>5. RefreshIn(a, views) = {fresh(v) : v \in views \ {NoUser}}
  BY DEF RefreshIn
<1>6. RefreshIn(a, all) = {fresh(v) : v \in all \ {NoUser}}
  BY DEF RefreshIn
<1> HIDE DEF fresh
<1>7. \A v \in all \ {NoUser} : v \in Views /\ fresh(v) \in all
  BY <1>2, <1>3, <1>4, <1>5
<1> QED
  BY <1>6, <1>7 DEF UpToDate

(* What a step that is watched adds to what a request has seen.            *)
LEMMA StepSeen ==
  ASSUME TypeInv', Watch, NEW r \in Requests
  PROVE  /\ pc'[r] \in Waiting =>
              seen'[r] = seen[r] \cup LookUpIn(account', dto'[r].username)
                                 \cup RefreshIn(account', seen[r])
         /\ pc'[r] \notin Waiting => seen'[r] = {}
<1>1. pc'[r] \in {"idle"} \cup Waiting \cup Answered
  BY DEF TypeInv, TypeOK, LoginTypeOK
<1>2. (IF pc'[r] \in Waiting THEN "open"
       ELSE IF pc'[r] \in {"error", "dropped"} THEN "failed" ELSE pc'[r]) = "open"
      <=> pc'[r] \in Waiting
  BY <1>1 DEF Waiting, Answered
<1>3. /\ Contract!LookUp(dto[r].username)' = LookUpIn(account', dto'[r].username)
      /\ \A id : Contract!Claims(id)' = ClaimsIn(account', id)
  BY DEF Contract!LookUp, Contract!Claims, LookUpIn, ClaimsIn
<1>4. seen'[r] =
        IF pc'[r] \notin Waiting THEN {}
        ELSE seen[r] \cup Contract!LookUp(dto[r].username)'
               \cup {[v EXCEPT !.account.claims = Contract!Claims(v.id)'] : v \in seen[r] \ {NoUser}}
  BY <1>2 DEF Watch, Contract!Look
<1> QED
  BY <1>3, <1>4 DEF RefreshIn

(* What a step does to a request that is being served after it.            *)
LEMMA StepRequest ==
  ASSUME TypeInv, [Next]_vars, NEW r \in Requests, pc'[r] \in Waiting
  PROVE  \/ /\ pc[r] = "idle" /\ pc'[r] = "find" /\ dto'[r] \in Credentials
         \/ /\ pc[r] \in Waiting /\ dto'[r] = dto[r]
            /\ \/ pc'[r] = pc[r] /\ user'[r] = user[r]
               \/ /\ pc'[r] = "claims"
                  /\ \E id \in findByUsername(dto[r].username) : user'[r] = Found(id)
               \/ /\ pc[r] = "claims" /\ pc'[r] = "check"
                  /\ user'[r] = WithClaims(user[r])
               \/ /\ pc[r] = "check" /\ user'[r] = user[r]
                  /\ \/ pc'[r] = "unlock" /\ LockExpired(user[r].row) /\ user[r].row.isLocked
                     \/ pc'[r] = "compare" /\ ~user[r].row.isLocked
               \/ pc[r] = "unlock" /\ pc'[r] = "compare" /\ user'[r] = user[r]
               \/ /\ pc[r] = "compare" /\ pc'[r] = "record" /\ user'[r] = user[r]
                  /\ dto[r].password = user[r].row.password
<1> USE DEF TypeInv, TypeOK, LoginTypeOK, Goto, Answer, Waiting
<1>1. ASSUME NEW q \in Requests, NEW username \in Usernames, NEW password \in Passwords,
             Submit(q, username, password)
      PROVE  \/ pc[r] = "idle" /\ pc'[r] = "find" /\ dto'[r] \in Credentials
             \/ pc'[r] = pc[r] /\ user'[r] = user[r] /\ dto'[r] = dto[r]
  BY <1>1 DEF Submit, Credentials
<1>2. ASSUME NEW q \in Requests, FindUser(q)
      PROVE  /\ dto'[r] = dto[r]
             /\ \/ pc'[r] = pc[r] /\ user'[r] = user[r]
                \/ /\ pc[r] = "find" /\ pc'[r] = "claims"
                   /\ \E id \in findByUsername(dto[r].username) : user'[r] = Found(id)
  BY <1>2 DEF FindUser, Found
<1>9. ASSUME NEW q \in Requests, FindClaims(q)
      PROVE  /\ dto'[r] = dto[r]
             /\ \/ pc'[r] = pc[r] /\ user'[r] = user[r]
                \/ /\ pc[r] = "claims" /\ pc'[r] = "check"
                   /\ user'[r] = WithClaims(user[r])
  <2>1. user[q] \in Snapshot
    BY <1>9 DEF FindClaims, Held
  <2> QED
    BY <1>9, <2>1 DEF FindClaims, WithClaims, Snapshot
<1>3. ASSUME NEW q \in Requests, CheckAccount(q)
      PROVE  /\ dto'[r] = dto[r]
             /\ \/ pc'[r] = pc[r] /\ user'[r] = user[r]
                \/ /\ pc[r] = "check" /\ user'[r] = user[r]
                   /\ \/ pc'[r] = "unlock" /\ LockExpired(user[r].row) /\ user[r].row.isLocked
                      \/ pc'[r] = "compare" /\ ~user[r].row.isLocked
  BY <1>3 DEF CheckAccount, handleFailedAttempt
<1>4. ASSUME NEW q \in Requests, UnlockUser(q)
      PROVE  /\ dto'[r] = dto[r] /\ user'[r] = user[r]
             /\ pc'[r] = pc[r] \/ (pc[r] = "unlock" /\ pc'[r] = "compare")
  BY <1>4 DEF UnlockUser
<1>5. ASSUME NEW q \in Requests, ComparePassword(q)
      PROVE  /\ dto'[r] = dto[r] /\ user'[r] = user[r]
             /\ \/ pc'[r] = pc[r]
                \/ /\ pc[r] = "compare" /\ pc'[r] = "record"
                   /\ dto[r].password = user[r].row.password
  BY <1>5 DEF ComparePassword, handleFailedAttempt
<1>6. ASSUME NEW q \in Requests, CreateToken(q) \/ QueryFails(q)
      PROVE  pc'[r] = pc[r] /\ user'[r] = user[r] /\ dto'[r] = dto[r]
  BY <1>6 DEF CreateToken, QueryFails
<1>7. ~Exit
  BY DEF Exit
<1>8. ASSUME (\E w \in pending : SettleWrite(w) \/ RejectWrite(w))
             \/ Kill \/ Restart \/ Tick \/ Admin \/ UNCHANGED vars
      PROVE  pc' = pc /\ user' = user /\ dto' = dto
  BY <1>7, <1>8 DEF SettleWrite, RejectWrite, Kill, Restart, Tick, Admin, requestVars,
                    loginVars, vars
<1> QED
  BY <1>1, <1>2, <1>3, <1>4, <1>5, <1>6, <1>8, <1>9 DEF Next, Serve

LEMMA StepClock ==
  ASSUME TypeInv, [Next]_vars
  PROVE  now \in Nat /\ now' \in Nat /\ now' >= now
<1>1. now \in Nat
  BY DEF TypeInv, TypeOK, LoginTypeOK
<1>2. Tick \/ now' = now
  BY DEF Next, Serve, Submit, FindUser, FindClaims, CheckAccount, UnlockUser, ComparePassword,
         CreateToken, QueryFails, SettleWrite, RejectWrite, Exit, Kill, Restart, Admin,
         loginVars, vars
<1> QED
  BY <1>1, <1>2 DEF Tick

LEMMA StaysExpired ==
  ASSUME NEW u \in UserRow, LockExpired(u), now \in Nat, now' \in Nat, now' >= now
  PROVE  u.isLockedUntil # 0 /\ now' > u.isLockedUntil
  BY DEF LockExpired, UserRow

LEMMA InitPromise == HInit => PromiseInv
  BY DEF HInit, Init, ApiInit, StoreInit, LoginInit, PromiseInv, Waiting, Held

(* What a request has found by name is among its views.                    *)
LEMMA FoundSeen ==
  ASSUME TypeInv, NEW views, NEW username, UpToDate(account, username, views),
         NEW id \in findByUsername(username)
  PROVE  /\ Found(id).row \in UserRow /\ Found(id).row.username = username
         /\ \E claims \in Claims :
              [id |-> Found(id).id,
               account |-> [Account(Found(id).row) EXCEPT !.claims = claims]] \in views
<1>1. id \in UserIds /\ row[id] \in UserRow /\ row[id].username = username
  BY DEF findByUsername, ids, TypeInv, TypeOK, StoreTypeOK
<1>2. account[id] = Account(row[id]) /\ account[id] # NoUser /\ account[id].username = username
  BY <1>1, AccountIn, StoreAssumption DEF account
<1>3. [id |-> id, account |-> Account(row[id])] \in views
  BY <1>1, <1>2 DEF UpToDate, LookUpIn
<1>4. [Account(Found(id).row) EXCEPT !.claims = row[id].claims] = Account(row[id])
  BY <1>1 DEF Found, Account, UserRow
<1> QED
  BY <1>1, <1>3, <1>4, NoClaimsType DEF Found, UserRow

(* And so is what it makes of a view by reading the claims.                *)
LEMMA ClaimsSeen ==
  ASSUME TypeInv, NEW views, NEW username, UpToDate(account, username, views),
         NEW u \in Snapshot, NEW claims \in Claims,
         [id |-> u.id, account |-> [Account(u.row) EXCEPT !.claims = claims]] \in views
  PROVE  [id |-> WithClaims(u).id, account |-> Account(WithClaims(u).row)] \in views
<1> DEFINE v == [id |-> u.id, account |-> [Account(u.row) EXCEPT !.claims = claims]]
           fresh == [v EXCEPT !.account.claims = ClaimsIn(account, v.id)]
<1>1. u.id \in UserIds /\ u.row \in UserRow
  BY DEF Snapshot
<1>2. ClaimsIn(account, u.id) = claimsOf(u.id)
  <2>1. row[u.id] # NoUser => row[u.id] \in UserRow
    BY <1>1 DEF TypeInv, TypeOK, StoreTypeOK
  <2> QED
    BY <1>1, <2>1, AccountIn DEF ClaimsIn, claimsOf, account
<1>3. v \in Views
  BY <1>1, AccountIn DEF Views, Accounts
<1>4. v # NoUser
  BY <1>3, HistoryAssumption DEF Views
<1>5. fresh \in views
  BY <1>4 DEF UpToDate, RefreshIn
<1>6. fresh = [id |-> WithClaims(u).id, account |-> Account(WithClaims(u).row)]
  <2> DEFINE c == claimsOf(u.id)
  <2>1. c \in Claims /\ v.id = u.id
    BY SnapshotTypes, <1>1, NoClaimsType
       DEF claimsOf, TypeInv, TypeOK, StoreTypeOK, UserRow
  <2>2. fresh = [id |-> u.id, account |-> [v.account EXCEPT !.claims = c]]
    <3>1. fresh = [v EXCEPT !.account.claims = c]
      BY <1>2, <2>1
    <3> HIDE DEF v, c, fresh
    <3> QED
      BY <1>3, <2>1, <3>1, Reclaimed
  <2>3. [v.account EXCEPT !.claims = c] = [Account(u.row) EXCEPT !.claims = c]
    BY <1>1 DEF Account
  <2>4. WithClaims(u) = [id |-> u.id, row |-> [u.row EXCEPT !.claims = c]]
    BY DEF WithClaims, Snapshot
  <2>5. Account([u.row EXCEPT !.claims = c]) = [Account(u.row) EXCEPT !.claims = c]
    BY <1>1 DEF Account, UserRow
  <2> HIDE DEF c, v, fresh
  <2> QED
    BY <2>2, <2>3, <2>4, <2>5
<1> QED
  BY <1>5, <1>6

LEMMA StepPromise == TypeInv /\ TypeInv' /\ PromiseInv /\ [HNext]_hvars => PromiseInv'
<1> SUFFICES ASSUME TypeInv, TypeInv', PromiseInv, [HNext]_hvars PROVE PromiseInv'
  OBVIOUS
<1>1. [Next]_vars
  BY DEF HNext, hvars, vars
<1>2. CASE UNCHANGED hvars
  <2>1. account' = account
    BY <1>2 DEF hvars, account, Account
  <2> QED
    BY <1>2, <2>1 DEF hvars, PromiseInv, Account, LockExpired
<1>3. CASE HNext
  <2>1. Watch
    BY <1>3 DEF HNext
  <2>2. ASSUME NEW r \in Requests, pc'[r] \notin Waiting PROVE seen'[r] = {}
    BY <2>1, <2>2, StepSeen
  <2>3. ASSUME NEW r \in Requests, pc'[r] \in Waiting PROVE seen[r] \subseteq seen'[r]
    BY <2>1, <2>3, StepSeen
  <2>4. ASSUME NEW r \in Requests, pc'[r] \in Waiting
        PROVE  dto'[r] \in Credentials /\ UpToDate(account', dto'[r].username, seen'[r])
    <3>1. dto'[r] \in Credentials
      BY <1>1, <2>4, StepRequest DEF PromiseInv
    <3>2. seen[r] \in SUBSET (Views \cup {NoUser})
      BY DEF PromiseInv, UpToDate
    <3>3. account' \in AccountStates
      BY AccountTypes
    <3>4. UpToDate(account', dto'[r].username,
                   seen[r] \cup LookUpIn(account', dto'[r].username)
                           \cup RefreshIn(account', seen[r]))
      BY <3>2, <3>3, LookingSuffices
    <3> QED
      BY <2>1, <2>4, <3>1, <3>4, StepSeen
  <2>5. ASSUME NEW r \in Requests, pc'[r] \in Held \cap Waiting
        PROVE  user'[r].row.username = dto'[r].username
    <3>1. pc'[r] \in Waiting /\ pc'[r] # "find" /\ "find" \notin Held
      BY <2>5 DEF Held
    <3>2. CASE /\ pc[r] \in Held \cap Waiting /\ dto'[r] = dto[r]
               /\ user'[r] = user[r] \/ user'[r] = WithClaims(user[r])
      <4>1. user[r] \in Snapshot
        BY <3>2 DEF TypeInv
      <4>2. WithClaims(user[r]).row.username = user[r].row.username
        BY <4>1 DEF WithClaims, Snapshot, UserRow
      <4> QED
        BY <3>2, <4>2 DEF PromiseInv
    <3>3. ASSUME NEW id \in findByUsername(dto[r].username), pc[r] \in Waiting,
                 dto'[r] = dto[r], user'[r] = Found(id)
          PROVE  user'[r].row.username = dto'[r].username
      BY <3>3, FoundSeen DEF PromiseInv
    <3>4. {"claims", "check", "unlock", "compare", "record"} \subseteq Held \cap Waiting
      BY DEF Held, Waiting
    <3> QED
      BY <1>1, <2>5, <3>1, <3>2, <3>3, <3>4, StepRequest
  <2>6. ASSUME NEW r \in Requests, pc'[r] = "claims"
        PROVE  \E claims \in Claims :
                 [id |-> user'[r].id,
                  account |-> [Account(user'[r].row) EXCEPT !.claims = claims]] \in seen'[r]
    <3>1. pc'[r] \in Waiting
      BY <2>6 DEF Waiting
    <3>2. CASE pc[r] = "claims" /\ user'[r] = user[r]
      BY <2>3, <3>1, <3>2 DEF PromiseInv
    <3>3. ASSUME NEW id \in findByUsername(dto[r].username), pc[r] \in Waiting,
                 user'[r] = Found(id)
          PROVE  \E claims \in Claims :
                   [id |-> user'[r].id,
                    account |-> [Account(user'[r].row) EXCEPT !.claims = claims]] \in seen'[r]
      BY <2>3, <3>1, <3>3, FoundSeen DEF PromiseInv
    <3> QED
      BY <1>1, <2>6, <3>1, <3>2, <3>3, StepRequest
  <2>7. ASSUME NEW r \in Requests, pc'[r] \in {"check", "unlock", "compare", "record"}
        PROVE  [id |-> user'[r].id, account |-> Account(user'[r].row)] \in seen'[r]
    <3>1. pc'[r] \in Waiting
      BY <2>7 DEF Waiting
    <3>2. CASE pc[r] \in {"check", "unlock", "compare", "record"} /\ user'[r] = user[r]
      BY <2>3, <3>1, <3>2 DEF PromiseInv
    <3>3. CASE pc[r] = "claims" /\ user'[r] = WithClaims(user[r])
      <4>1. user[r] \in Snapshot /\ pc[r] \in Waiting
        BY <3>3 DEF TypeInv, Held, Waiting
      <4>2. PICK claims \in Claims :
              [id |-> user[r].id, account |-> [Account(user[r].row) EXCEPT !.claims = claims]]
                \in seen[r]
        BY <3>3 DEF PromiseInv
      <4> QED
        BY <2>3, <3>1, <3>3, <4>1, <4>2, ClaimsSeen DEF PromiseInv
    <3> QED
      BY <1>1, <2>7, <3>1, <3>2, <3>3, StepRequest
  <2>8. ASSUME NEW r \in Requests, pc'[r] \in {"unlock", "compare", "record"},
               user'[r].row.isLocked
        PROVE  user'[r].row.isLockedUntil # 0 /\ now' > user'[r].row.isLockedUntil
    <3>1. pc'[r] \in Waiting
      BY <2>8 DEF Waiting
    <3>2. user'[r] = user[r] /\ LockExpired(user[r].row)
          /\ pc[r] \in {"check", "unlock", "compare", "record"}
      BY <1>1, <2>8, <3>1, StepRequest DEF PromiseInv
    <3>3. user[r].row \in UserRow
      BY <3>2 DEF TypeInv, Held, Snapshot
    <3> QED
      BY <1>1, <3>2, <3>3, StepClock, StaysExpired
  <2>9. ASSUME NEW r \in Requests, pc'[r] = "record"
        PROVE  dto'[r].password = user'[r].row.password
    <3>1. pc'[r] \in Waiting
      BY <2>9 DEF Waiting
    <3> QED
      BY <1>1, <2>9, <3>1, StepRequest DEF PromiseInv
  <2> QED
    BY <2>2, <2>4, <2>5, <2>6, <2>7, <2>8, <2>9 DEF PromiseInv, Account, LockExpired
<1> QED
  BY <1>2, <1>3

(* A step in which no request is opened, granted or refused.               *)
LEMMA WorldSimulates ==
  ASSUME TypeInv, TypeInv', Watch,
         now \in Nat, now' \in Nat, now' >= now, dto' = dto,
         \A r \in Requests : \/ pc'[r] = pc[r]
                             \/ /\ pc[r] \in Waiting
                                /\ pc'[r] \in Waiting \cup {"error", "dropped"},
         \A r \in Requests : pc'[r] = "granted" => user'[r] = user[r]
  PROVE  Contract!World
<1> DEFINE failing == {r \in Requests : pc[r] \in Waiting /\ pc'[r] \in {"error", "dropped"}}
<1>1. account' \in [UserIds -> Accounts \cup {NoUser}]
  BY AccountTypes DEF AccountStates
<1>2. failing \subseteq Contract!Open
  BY DEF Contract!Open
<1>3. \A r \in Requests : pc'[r] \in Waiting \/ pc'[r] = pc[r] \/ r \in failing
  OBVIOUS
<1>4. {"error", "dropped"} \cap Waiting = {}
  BY DEF Waiting
<1>5. \A r \in Requests :
        (IF pc'[r] \in Waiting THEN "open"
         ELSE IF pc'[r] \in {"error", "dropped"} THEN "failed" ELSE pc'[r])
        = IF r \in failing THEN "failed"
          ELSE IF pc[r] \in Waiting THEN "open"
          ELSE IF pc[r] \in {"error", "dropped"} THEN "failed" ELSE pc[r]
  BY <1>4
<1>6. Contract!Look
  BY DEF Watch
<1>7. [r \in Requests |-> IF pc'[r] = "granted" THEN sign(user'[r].row) ELSE NoUser]
      = [r \in Requests |-> IF pc[r] = "granted" THEN sign(user[r].row) ELSE NoUser]
  BY DEF Waiting, sign
<1> HIDE DEF failing
<1> QED
  BY <1>1, <1>2, <1>5, <1>6, <1>7 DEF Contract!World, sign

LEMMA AccountsKept ==
  ASSUME \A id \in UserIds : \/ row'[id] = row[id]
                             \/ /\ row[id] # NoUser /\ row'[id] # NoUser
                                /\ Account(row'[id]) = Account(row[id])
  PROVE  account' = account
  BY DEF account, Account

(* An answer ends one session and leaves the others as they are.           *)
LEMMA AnswerEnds ==
  ASSUME TypeInv, Watch, now' = now, dto' = dto, account' = account,
         NEW r \in Requests, NEW answer \in {"granted", "refused"},
         pc[r] \in Waiting, pc' = [pc EXCEPT ![r] = answer]
  PROVE  Contract!End(r, answer)
<1> USE DEF TypeInv, TypeOK, LoginTypeOK
<1>1. /\ "granted" \notin Waiting /\ "refused" \notin Waiting
      /\ "error" \notin Waiting /\ "dropped" \notin Waiting
  BY DEF Waiting
<1>2. r \in Contract!Open
  BY DEF Contract!Open
<1>3. Contract!Look
  BY DEF Watch
<1>4. \A q \in Requests :
        (IF pc'[q] \in Waiting THEN "open"
         ELSE IF pc'[q] \in {"error", "dropped"} THEN "failed" ELSE pc'[q])
        = IF q = r THEN answer
          ELSE IF pc[q] \in Waiting THEN "open"
          ELSE IF pc[q] \in {"error", "dropped"} THEN "failed" ELSE pc[q]
  BY <1>1
<1> QED
  BY <1>2, <1>3, <1>4 DEF Contract!End

LEMMA SubmitSimulates ==
  ASSUME TypeInv, Watch, NEW r \in Requests,
         NEW username \in Usernames, NEW password \in Passwords,
         Submit(r, username, password)
  PROVE  Contract!Begin(r)
<1> USE DEF TypeInv, TypeOK, LoginTypeOK, Submit, Goto
<1>1. account' = account
  BY AccountsKept DEF storeVars
<1>2. "idle" \notin Waiting /\ "find" \in Waiting
  BY DEF Waiting
<1>3. pc[r] = "idle" /\ pc' = [pc EXCEPT ![r] = "find"]
  OBVIOUS
<1>4. dto' = [dto EXCEPT ![r] = [username |-> username, password |-> password]]
  OBVIOUS
<1>5. Contract!Look
  BY DEF Watch
<1>6. \A q \in Requests :
        (IF pc'[q] \in Waiting THEN "open"
         ELSE IF pc'[q] \in {"error", "dropped"} THEN "failed" ELSE pc'[q])
        = IF q = r THEN "open"
          ELSE IF pc[q] \in Waiting THEN "open"
          ELSE IF pc[q] \in {"error", "dropped"} THEN "failed" ELSE pc[q]
  BY <1>2, <1>3
<1>7. [q \in Requests |-> IF pc'[q] = "granted" THEN sign(user'[q].row) ELSE NoUser]
      = [q \in Requests |-> IF pc[q] = "granted" THEN sign(user[q].row) ELSE NoUser]
  BY <1>3 DEF sign
<1>8. now' = now
  OBVIOUS
<1>9. [q \in Requests |->
         IF pc[q] \in Waiting THEN "open"
         ELSE IF pc[q] \in {"error", "dropped"} THEN "failed" ELSE pc[q]][r] = "idle"
  BY <1>2, <1>3
<1> QED
  BY <1>1, <1>4, <1>5, <1>6, <1>7, <1>8, <1>9 DEF Contract!Begin, sign

(* A refusal is because of a view the request has.                         *)
LEMMA RefusalSimulates ==
  ASSUME TypeInv, Watch, row' = row, now' = now, dto' = dto,
         NEW r \in Requests, pc[r] \in Waiting, pc' = [pc EXCEPT ![r] = "refused"],
         user' = [user EXCEPT ![r] = NoUser],
         NEW v \in seen[r], v = NoUser \/ ~Contract!Entitles(v.account, dto[r].password, now)
  PROVE  Contract!Refuse(r)
<1>1. account' = account
  BY AccountsKept
<1>2. Contract!End(r, "refused")
  BY <1>1, AnswerEnds
<1>3. [q \in Requests |-> IF pc'[q] = "granted" THEN sign(user'[q].row) ELSE NoUser]
      = [q \in Requests |-> IF pc[q] = "granted" THEN sign(user[q].row) ELSE NoUser]
  BY DEF sign, TypeInv, TypeOK, LoginTypeOK, Waiting
<1> QED
  BY <1>2, <1>3 DEF Contract!Refuse, sign

LEMMA FindUserSimulates ==
  ASSUME TypeInv, PromiseInv, Watch, NEW r \in Requests, FindUser(r), Answer(r, "refused"),
         findByUsername(dto[r].username) = {}
  PROVE  Contract!Refuse(r)
<1>1. pc[r] \in Waiting
  BY DEF FindUser, Waiting
<1>2. LookUpIn(account, dto[r].username) \subseteq seen[r]
  BY <1>1 DEF PromiseInv, UpToDate
<1>3. \A id \in UserIds : account[id] # NoUser => account[id].username # dto[r].username
  BY DEF findByUsername, ids, account, Account
<1>4. LookUpIn(account, dto[r].username) = {NoUser}
  BY <1>3 DEF LookUpIn
<1> QED
  BY <1>1, <1>2, <1>4, RefusalSimulates DEF FindUser, Answer, Goto, storeVars

LEMMA FailedAttemptSimulates ==
  ASSUME TypeInv, PromiseInv, Watch, NEW r \in Requests,
         CheckAccount(r) \/ ComparePassword(r), handleFailedAttempt(r)
  PROVE  Contract!Refuse(r)
<1> USE DEF TypeInv, TypeOK, LoginTypeOK
<1>1. /\ pc[r] \in {"check", "compare"} /\ pc[r] \in Waiting /\ pc[r] \in Held
      /\ row' = row /\ now' = now /\ dto' = dto
      /\ pc' = [pc EXCEPT ![r] = "refused"] /\ user' = [user EXCEPT ![r] = NoUser]
  BY DEF CheckAccount, ComparePassword, handleFailedAttempt, Answer, Goto, storeVars,
         Waiting, Held
<1> DEFINE u == user[r].row
           v == [id |-> user[r].id, account |-> Account(u)]
<1>2. u \in UserRow /\ v \in seen[r] /\ dto[r].password \in Passwords
  BY <1>1 DEF PromiseInv, Snapshot, Credentials
<1>3. ASSUME CheckAccount(r)
      PROVE  u.password = NoPassword \/ (u.isLocked /\ ~LockExpired(u))
  <2>1. pc'[r] = "refused"
    BY <1>1
  <2> QED
    BY <1>3, <2>1 DEF CheckAccount, Goto
<1>4. ASSUME ComparePassword(r) PROVE dto[r].password # u.password
  <2>1. pc'[r] = "refused"
    BY <1>1
  <2> QED
    BY <1>4, <2>1 DEF ComparePassword, Goto
<1>5. ~Contract!Entitles(v.account, dto[r].password, now)
  <2>1. /\ v.account.password = u.password /\ v.account.isLocked = u.isLocked
        /\ v.account.isLockedUntil = u.isLockedUntil
    BY DEF Account
  <2> HIDE DEF v, u
  <2> QED
    BY <1>2, <1>3, <1>4, <2>1, StoreAssumption DEF Contract!Entitles, LockExpired
<1> HIDE DEF v, u
<1> QED
  BY <1>1, <1>2, <1>5, RefusalSimulates

LEMMA GrantSimulates ==
  ASSUME TypeInv, PromiseInv, Watch, NEW r \in Requests, CreateToken(r), Goto(r, "granted"),
         UNCHANGED user
  PROVE  Contract!Grant(r)
<1> USE DEF TypeInv, TypeOK, LoginTypeOK
<1>1. /\ pc[r] = "record" /\ pc[r] \in Waiting /\ pc[r] \in Held
      /\ now' = now /\ dto' = dto /\ user' = user
      /\ pc' = [pc EXCEPT ![r] = "granted"]
  BY DEF CreateToken, Goto, Waiting, Held
<1>2. account' = account
  <2>1. row' = [row EXCEPT ![user[r].id].accessFailedCount = 0] /\ user[r].id \in ids
    BY DEF CreateToken, createToken
  <2>2. row[user[r].id] \in UserRow
    BY <2>1 DEF ids, StoreTypeOK
  <2>3. row'[user[r].id] = [row[user[r].id] EXCEPT !.accessFailedCount = 0]
    BY <2>1 DEF ids, StoreTypeOK
  <2>4. row'[user[r].id] \in UserRow
    BY <2>2, <2>3 DEF UserRow
  <2> QED
    BY <2>1, <2>2, <2>3, <2>4, AccountsKept, StoreAssumption
       DEF ids, StoreTypeOK, Account, UserRow
<1>3. Contract!End(r, "granted")
  BY <1>1, <1>2, AnswerEnds
<1> DEFINE u == user[r].row
           v == [id |-> user[r].id, account |-> Account(u)]
<1>4. u \in UserRow /\ v \in seen[r] /\ dto[r].password = u.password
      /\ (u.isLocked => LockExpired(u)) /\ u.username = dto[r].username
  BY <1>1 DEF PromiseInv, Snapshot
<1>5. v # NoUser
  <2>1. v \in [id : UserIds, account : Accounts]
    BY <1>1, <1>4, AccountIn DEF Snapshot
  <2> QED
    BY <2>1, HistoryAssumption
<1>6. /\ v.account.username = u.username
      /\ sign(u) = [sub |-> v.account.username, claims |-> v.account.claims]
  BY DEF Account, sign
<1>7. Contract!Entitles(v.account, dto[r].password, now)
  <2>1. /\ v.account.password = u.password /\ v.account.isLocked = u.isLocked
        /\ v.account.isLockedUntil = u.isLockedUntil
    BY DEF Account
  <2> HIDE DEF v, u
  <2> QED
    BY <1>4, <2>1 DEF Contract!Entitles, LockExpired
<1>8. [q \in Requests |-> IF pc'[q] = "granted" THEN sign(user'[q].row) ELSE NoUser]
      = [[q \in Requests |-> IF pc[q] = "granted" THEN sign(user[q].row) ELSE NoUser]
         EXCEPT ![r] = sign(u)]
  BY <1>1 DEF sign
<1> HIDE DEF v, u
<1> QED
  BY <1>3, <1>4, <1>5, <1>6, <1>7, <1>8 DEF Contract!Grant, sign

(* Every step of a login is one of the contract's, or none.                *)
LEMMA StepContract ==
  ASSUME TypeInv, TypeInv', PromiseInv, HNext
  PROVE  Contract!Next
<1> USE DEF TypeInv, TypeOK, LoginTypeOK
<1>1. Next /\ Watch /\ [Next]_vars
  BY DEF HNext
<1>2. now \in Nat /\ now' \in Nat /\ now' >= now
  BY <1>1, StepClock
<1>3. ASSUME NEW r \in Requests, NEW username \in Usernames, NEW password \in Passwords,
             Submit(r, username, password)
      PROVE  Contract!Next
  BY <1>1, <1>3, SubmitSimulates DEF Contract!Next
<1>4. ASSUME dto' = dto,
             \A r \in Requests : \/ pc'[r] = pc[r]
                                 \/ /\ pc[r] \in Waiting
                                    /\ pc'[r] \in Waiting \cup {"error", "dropped"},
             \A r \in Requests : pc'[r] = "granted" => user'[r] = user[r]
      PROVE  Contract!Next
  BY <1>1, <1>2, <1>4, WorldSimulates DEF Contract!Next
<1>5. ASSUME NEW r \in Requests, FindUser(r) PROVE Contract!Next
  <2>1. CASE findByUsername(dto[r].username) = {} /\ Answer(r, "refused")
    BY <1>1, <1>5, <2>1, FindUserSimulates DEF Contract!Next
  <2>2. ASSUME NEW id, Goto(r, "claims"), user' = [user EXCEPT ![r] = Found(id)]
        PROVE  Contract!Next
    BY <1>4, <1>5, <2>2 DEF FindUser, Goto, Waiting
  <2> QED
    BY <1>5, <2>1, <2>2 DEF FindUser, Found
<1>6. ASSUME NEW r \in Requests, CheckAccount(r) \/ ComparePassword(r)
      PROVE  Contract!Next
  <2>1. CASE handleFailedAttempt(r)
    BY <1>1, <1>6, <2>1, FailedAttemptSimulates DEF Contract!Next
  <2>2. CASE UNCHANGED user /\ (Goto(r, "unlock") \/ Goto(r, "compare") \/ Goto(r, "record"))
    BY <1>4, <1>6, <2>2 DEF CheckAccount, ComparePassword, Goto, Waiting
  <2> QED
    BY <1>6, <2>1, <2>2 DEF CheckAccount, ComparePassword
<1>7. ASSUME NEW r \in Requests, FindClaims(r) \/ UnlockUser(r) \/ QueryFails(r)
      PROVE  Contract!Next
  BY <1>4, <1>7 DEF FindClaims, UnlockUser, QueryFails, Goto, Answer, Waiting
<1>8. ASSUME NEW r \in Requests, CreateToken(r) PROVE Contract!Next
  <2>1. CASE Goto(r, "granted") /\ UNCHANGED user
    BY <1>1, <1>8, <2>1, GrantSimulates DEF Contract!Next
  <2>2. CASE Answer(r, "error")
    BY <1>4, <1>8, <2>2 DEF CreateToken, Goto, Answer, Waiting
  <2> QED
    BY <1>8, <2>1, <2>2 DEF CreateToken
<1>9. CASE Exit
  BY <1>4, <1>9 DEF Exit, Waiting
<1>10. CASE UNCHANGED <<pc, dto, user>>
  BY <1>4, <1>10
<1>11. ASSUME (\E w \in pending : SettleWrite(w) \/ RejectWrite(w))
              \/ Kill \/ Restart \/ Tick \/ Admin
       PROVE  Exit \/ UNCHANGED <<pc, dto, user>>
  BY <1>11 DEF SettleWrite, RejectWrite, Kill, Restart, Tick, Admin, requestVars, loginVars
<1> QED
  BY <1>1, <1>3, <1>5, <1>6, <1>7, <1>8, <1>9, <1>10, <1>11 DEF Next, Serve

LEMMA StutterContract ==
  ASSUME UNCHANGED hvars
  PROVE  UNCHANGED Contract!vars
<1>1. account' = account
  BY AccountsKept DEF hvars
<1> QED
  BY <1>1 DEF hvars, Contract!vars, sign

LEMMA InitContract ==
  ASSUME HInit
  PROVE  Contract!Init
<1>1. account \in [UserIds -> Accounts \cup {NoUser}]
  BY DEF HInit, Init, ApiInit, StoreInit, account
<1> QED
  BY <1>1 DEF HInit, Init, LoginInit, Contract!Init, Waiting

(* login keeps LoginContract, whatever runs beside it: it is granted the   *)
(* token of one view of the account, or refused because of one, although it*)
(* reads the account and its claims apart, decides over several awaits, and*)
(* on what it read before them.                                            *)
THEOREM LoginKeepsPromise == HSpec => LoginPromise
<1>1. TypeInv /\ TypeInv' /\ PromiseInv /\ [HNext]_hvars => [Contract!Next]_(Contract!vars)
  BY StepContract, StutterContract
<1> QED
  BY <1>1, InitContract, InitPromise, StepPromise, HistoryWatches, TypeCorrect, PTL
     DEF HSpec, LoginPromise, Contract!Spec
=============================================================================
