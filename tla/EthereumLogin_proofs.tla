------------------------- MODULE EthereumLogin_proofs -------------------------
(***************************************************************************)
(* Theorems about EthereumLogin, for every value of its constants.         *)
(***************************************************************************)
EXTENDS EthereumLogin, UsersApi_proofs

(* A request that was sent has a message, one that is to be signed for has *)
(* an account, and so has whoever started a call that is still under way,  *)
(* even when it was answered or dropped since.                             *)
HasAccount == {"claims", "sign", "settle", "granted"}

TypeInv ==
  /\ EthereumTypeOK
  /\ \A r \in Requests : pc[r] # "idle" => message[r] \in Message
  /\ \A r \in Requests : pc[r] \in HasAccount => user[r] \in Snapshot
  /\ \A job \in jobs : message[job.by] \in Message /\ user[job.by] \in Snapshot

LEMMA ProviderUserType ==
  ASSUME NEW address \in Addresses
  PROVE  ProviderUser(address) \in UserRow
<1>1. [key \in {"loginMethod"} |-> "ethereum"] \in Claims
  <2>1. {"loginMethod"} \in SUBSET ClaimKeys /\ "ethereum" \in ClaimValues
    BY EthereumAssumption
  <2>2. [key \in {"loginMethod"} |-> "ethereum"] \in [{"loginMethod"} -> ClaimValues]
    BY <2>1
  <2> QED
    BY <2>1, <2>2 DEF Claims
<1>2. address \in Usernames
  BY EthereumAssumption
<1> QED
  BY <1>1, <1>2 DEF ProviderUser, UserRow

LEMMA TokenType ==
  ASSUME StoreTypeOK, NEW s \in Snapshot, now \in Nat, row[s.id] # NoUser,
         createToken(s.id, "password", sign(s.row), now)
  PROVE  StoreTypeOK'
<1>1. s.id \in UserIds /\ s.row \in UserRow /\ row[s.id] \in UserRow
  BY DEF Snapshot, StoreTypeOK
<1>2. sign(s.row) \in Jwts
  BY <1>1 DEF sign, UserRow, Jwts
<1>3. [userId |-> s.id, createdAt |-> now, loginMethod |-> "password",
       value |-> sign(s.row)] \in TokenRow
  BY <1>1, <1>2 DEF TokenRow, LoginMethods
<1>4. [row[s.id] EXCEPT !.accessFailedCount = 0] \in UserRow
  BY <1>1 DEF UserRow
<1> QED
  BY <1>1, <1>3, <1>4 DEF createToken, StoreTypeOK

(* The end of a call moves its request along, or finds it answered.        *)
MovedOn ==
  /\ jobs' \subseteq jobs
  /\ pc' \in [Requests -> {"idle"} \cup Waiting \cup Answered]
  /\ \A r \in Requests : pc[r] = "idle" => pc'[r] = "idle"
  /\ \A r \in Requests : pc'[r] \in HasAccount => pc[r] \in HasAccount

LEMMA SettledType ==
  TypeInv => \A job \in jobs : \A ok \in BOOLEAN : Settled(job, ok) => MovedOn
<1> SUFFICES ASSUME TypeInv, NEW job \in jobs, NEW ok \in BOOLEAN, Settled(job, ok)
             PROVE  MovedOn
  OBVIOUS
<1>1. job.by \in Requests
  BY DEF TypeInv, EthereumTypeOK, Job
<1> QED
  BY <1>1 DEF TypeInv, EthereumTypeOK, Settled, MovedOn, Waiting, Answered, HasAccount

LEMMA CallMoves ==
  ASSUME TypeInv, NEW job \in jobs, Settle(job)
  PROVE  MovedOn
  BY SettledType, Zenon DEF Settle, DelNonce, CreateToken, TokenFails

(* With nothing else changed but the tables and the cache, types are kept. *)
LEMMA MovedOnType ==
  ASSUME TypeInv, MovedOn, StoreTypeOK', cache' \in [RequestIds -> Nat],
         UNCHANGED <<now, issued, message, user>>
  PROVE  TypeInv'
<1>1. EthereumTypeOK'
  BY DEF TypeInv, EthereumTypeOK, MovedOn
<1>2. \A r \in Requests : pc'[r] # "idle" => message'[r] \in Message
  BY DEF TypeInv, MovedOn
<1>3. \A r \in Requests : pc'[r] \in HasAccount => user'[r] \in Snapshot
  BY DEF TypeInv, MovedOn
<1>4. \A job \in jobs' : message'[job.by] \in Message /\ user'[job.by] \in Snapshot
  BY DEF TypeInv, MovedOn
<1> QED
  BY <1>1, <1>2, <1>3, <1>4 DEF TypeInv

LEMMA InitType == EthereumInit => TypeInv
  BY DEF EthereumInit, ApiInit, StoreInit, TypeInv, EthereumTypeOK, StoreTypeOK, HasAccount

LEMMA StepType == TypeInv /\ [EthereumNext]_vars => TypeInv'
<1> SUFFICES ASSUME TypeInv, [EthereumNext]_vars PROVE TypeInv'
  OBVIOUS
<1> USE DEF TypeInv, EthereumTypeOK, storeVars
<1>1. ASSUME NEW q \in RequestIds, init(q) PROVE TypeInv'
  <2>1. cache' \in [RequestIds -> Nat]
    BY <1>1, EthereumAssumption DEF init
  <2> QED
    BY <1>1, <2>1 DEF init, StoreTypeOK
<1>2. ASSUME NEW r \in Requests, NEW m \in Message, Submit(r, m) PROVE TypeInv'
  BY <1>2 DEF Submit, Goto, StoreTypeOK, Waiting, HasAccount
<1>3. ASSUME NEW r \in Requests,
             \/ GetNonce(r) \/ verifyMessage(r) \/ getTransactionCount(r)
             \/ CreateConflicts(r) \/ QueryFails(r)
      PROVE  TypeInv'
  <2>1. /\ UNCHANGED <<storeVars, now, issued, cache, message, user, jobs>>
        /\ pc[r] # "idle"
        /\ \E label \in (Waiting \cup Answered) \ HasAccount : pc' = [pc EXCEPT ![r] = label]
    BY <1>3 DEF GetNonce, verifyMessage, getTransactionCount, CreateConflicts, QueryFails,
                Goto, Waiting, Answered, HasAccount
  <2> QED
    BY <2>1 DEF StoreTypeOK
<1>4. ASSUME NEW r \in Requests, FindUser(r) PROVE TypeInv'
  <2>1. CASE Goto(r, "count") /\ UNCHANGED user
    BY <1>4, <2>1 DEF FindUser, Goto, StoreTypeOK, Waiting, HasAccount
  <2>2. ASSUME NEW id \in findByUsername(message[r].address), Goto(r, "claims"),
               user' = [user EXCEPT ![r] = Found(id)]
        PROVE  TypeInv'
    <3>1. Found(id) \in Snapshot
      BY SnapshotTypes DEF findByUsername, Snapshot
    <3> QED
      BY <1>4, <2>2, <3>1 DEF FindUser, Goto, StoreTypeOK, Waiting
  <2> QED
    BY <1>4, <2>1, <2>2 DEF FindUser, Found
<1>14. ASSUME NEW r \in Requests, FindClaims(r) PROVE TypeInv'
  <2>1. user[r] \in Snapshot
    BY <1>14 DEF FindClaims, HasAccount
  <2>2. WithClaims(user[r]) \in Snapshot
    BY <2>1, SnapshotTypes DEF Snapshot
  <2>3. user' = [user EXCEPT ![r] = WithClaims(user[r])]
    BY <1>14, <2>1 DEF FindClaims, WithClaims, Snapshot
  <2> QED
    BY <1>14, <2>2, <2>3 DEF FindClaims, Goto, StoreTypeOK, Waiting, HasAccount
<1>5. ASSUME NEW r \in Requests, createByProvider(r) PROVE TypeInv'
  <2> DEFINE u == ProviderUser(message[r].address)
  <2>1. u \in UserRow
    BY <1>5, ProviderUserType DEF createByProvider, Message
  <2> HIDE DEF u
  <2>2. PICK id \in FreshIds :
          /\ InsertUser(id, u)
          /\ \/ Goto(r, "sign") /\ user' = [user EXCEPT ![r] = [id |-> id, row |-> u]]
             \/ Goto(r, "error") /\ UNCHANGED user
    BY <1>5 DEF createByProvider, u
  <2>3. StoreTypeOK' /\ [id |-> id, row |-> u] \in Snapshot
    BY <2>1, <2>2 DEF InsertUser, StoreTypeOK, FreshIds, Snapshot
  <2>4. pc[r] # "idle" /\ UNCHANGED <<now, issued, cache, message, jobs>>
    BY <1>5 DEF createByProvider
  <2>5. \A s \in Requests : pc'[s] # "idle" => message'[s] \in Message
    BY <2>2, <2>4 DEF Goto
  <2>6. \A s \in Requests : pc'[s] \in HasAccount => user'[s] \in Snapshot
    BY <2>2, <2>3 DEF Goto, HasAccount
  <2>7. \A job \in jobs' : message'[job.by] \in Message /\ user'[job.by] \in Snapshot
    <3>1. \A job \in jobs : job.by \in Requests
      BY DEF Job
    <3> QED
      BY <2>2, <2>3, <2>4, <3>1
  <2>8. /\ user' \in [Requests -> Snapshot \cup {NoUser}]
        /\ pc' \in [Requests -> {"idle"} \cup Waiting \cup Answered]
    BY <2>2, <2>3 DEF Goto, Waiting, Answered
  <2> QED
    BY <2>3, <2>4, <2>5, <2>6, <2>7, <2>8
<1>6. ASSUME NEW r \in Requests, Sign(r) PROVE TypeInv'
  <2>1. jobs' = jobs \cup [by : {r}, op : {"del", "token"}]
    BY <1>6 DEF Sign
  <2>2. jobs' \subseteq Job
    BY <2>1 DEF Job
  <2>3. message[r] \in Message /\ user[r] \in Snapshot
    BY <1>6 DEF Sign, HasAccount
  <2>4. \A job \in jobs' : message[job.by] \in Message /\ user[job.by] \in Snapshot
    BY <2>1, <2>3
  <2> QED
    BY <1>6, <2>2, <2>4 DEF Sign, Goto, StoreTypeOK, Waiting, HasAccount
<1>7. ASSUME NEW job \in jobs, DelNonce(job) PROVE TypeInv'
  <2>1. MovedOn
    BY <1>7, CallMoves DEF Settle
  <2>2. cache' \in [RequestIds -> Nat]
    <3>1. cache' = cache \/ cache' = [cache EXCEPT ![message[job.by].requestId] = 0]
      BY <1>7, Zenon DEF DelNonce
    <3> QED
      BY <3>1
  <2>3. UNCHANGED <<storeVars, now, issued, message, user>>
    BY <1>7 DEF DelNonce
  <2> QED
    BY <2>1, <2>2, <2>3, MovedOnType DEF StoreTypeOK
<1>8. ASSUME NEW job \in jobs, CreateToken(job) PROVE TypeInv'
  <2>1. MovedOn
    BY <1>8, CallMoves DEF Settle
  <2>2. user[job.by] \in Snapshot /\ row[user[job.by].id] # NoUser
    BY <1>8 DEF CreateToken, createToken, ids
  <2>3. StoreTypeOK'
    BY <1>8, <2>2, TokenType DEF CreateToken
  <2>4. UNCHANGED <<now, issued, cache, message, user>>
    BY <1>8 DEF CreateToken
  <2> QED
    BY <2>1, <2>3, <2>4, MovedOnType
<1>9. ASSUME NEW job \in jobs, TokenFails(job) PROVE TypeInv'
  <2>1. MovedOn
    BY <1>9, CallMoves DEF Settle
  <2> QED
    BY <1>9, <2>1, MovedOnType DEF TokenFails, StoreTypeOK
<1>10. CASE Restart
  BY <1>10 DEF Restart, StoreTypeOK, Waiting, Answered, HasAccount
<1>11. CASE Tick
  BY <1>11 DEF Tick, StoreTypeOK
<1>12. CASE Admin
  BY <1>12, ApiNextType DEF Admin
<1>13. CASE UNCHANGED vars
  BY <1>13 DEF vars, StoreTypeOK
<1> QED
  BY <1>1, <1>2, <1>3, <1>4, <1>5, <1>6, <1>7, <1>8, <1>9, <1>10, <1>11, <1>12, <1>13,
     <1>14 DEF EthereumNext, Serve, Settle

(* Every state of the service is well typed, and whoever is at the signing *)
(* or behind it has the account and the message it acts on.                *)
THEOREM TypeCorrect == EthereumSpec => []TypeInv
<1> QED
  BY InitType, StepType, PTL DEF EthereumSpec

(* The state of EthereumLogin is well typed, as its run checks.            *)
THEOREM TypesHold == EthereumSpec => []EthereumTypeOK
<1>1. TypeInv => EthereumTypeOK
  BY DEF TypeInv
<1> QED
  BY <1>1, TypeCorrect, PTL
-----------------------------------------------------------------------------
(* What a step does to the tables, whoever takes it.                       *)
LEMMA StepStore == TypeInv /\ [EthereumNext]_vars => [StoreNext]_storeVars
<1> SUFFICES ASSUME TypeInv, [EthereumNext]_vars PROVE [StoreNext]_storeVars
  OBVIOUS
<1>1. StoreTypeOK
  BY DEF TypeInv, EthereumTypeOK
<1>2. ASSUME NEW r \in Requests, createByProvider(r) PROVE StoreNext
  <2>1. PICK id \in FreshIds : InsertUser(id, ProviderUser(message[r].address))
    BY <1>2 DEF createByProvider
  <2>2. id \in UserIds /\ ProviderUser(message[r].address) \in UserRow
    BY <1>2, ProviderUserType DEF createByProvider, FreshIds, TypeInv, Message
  <2> QED
    BY <1>1, <2>1, <2>2, InsertIsStoreStep
<1>3. ASSUME NEW job \in jobs, CreateToken(job) PROVE StoreNext
  <2>1. user[job.by].id \in UserIds
    BY <1>3 DEF CreateToken, createToken, ids
  <2> QED
    BY <1>3, <2>1, TokenIsStoreStep DEF CreateToken
<1>4. Admin => StoreNext
  BY <1>1, ApiIsStoreStep DEF Admin
<1>5. ASSUME NEW r \in Requests,
             \/ \E m \in Message : Submit(r, m)
             \/ GetNonce(r) \/ verifyMessage(r) \/ FindUser(r) \/ FindClaims(r)
             \/ getTransactionCount(r)
             \/ CreateConflicts(r) \/ Sign(r) \/ QueryFails(r)
             \/ \E job \in jobs : DelNonce(job) \/ TokenFails(job)
      PROVE  UNCHANGED storeVars
  BY <1>5 DEF Submit, GetNonce, verifyMessage, FindUser, FindClaims, getTransactionCount,
              CreateConflicts, Sign, QueryFails, DelNonce, TokenFails
<1>6. (\E q \in RequestIds : init(q)) \/ Restart \/ Tick \/ UNCHANGED vars
        => UNCHANGED storeVars
  BY DEF init, Restart, Tick, vars, storeVars
<1> QED
  BY <1>2, <1>3, <1>4, <1>5, <1>6 DEF EthereumNext, Serve, Settle

(* This login too changes the tables by the statements of the store only,  *)
(* also when one of the two calls of Promise.all takes effect after its    *)
(* request was answered.                                                   *)
THEOREM EthereumImplementsStore == EthereumSpec => StoreSpec
<1>1. EthereumInit => StoreInit
  BY DEF EthereumInit, ApiInit
<1> QED
  BY <1>1, StepStore, TypeCorrect, PTL DEF EthereumSpec, StoreSpec

(* No token outlives its account, although the insert of the token runs on *)
(* unheeded once the other call of Promise.all has failed.                 *)
THEOREM TokensBelong == EthereumSpec => []TokensOwned
<1>1. EthereumInit => TokensOwned
  BY DEF EthereumInit, ApiInit, StoreInit, TokensOwned
<1>2. TypeInv => StoreTypeOK
  BY DEF TypeInv, EthereumTypeOK
<1> QED
  BY <1>1, <1>2, StepStore, StoreStepTokens, TypeCorrect, PTL DEF EthereumSpec
-----------------------------------------------------------------------------
(* Promise.all: a call of r is done when r was granted, or is still waiting*)
(* but no longer for this call.                                            *)
Call(r, op) == [by |-> r, op |-> op]

Done(r, op) == pc[r] = "granted" \/ (pc[r] = "settle" /\ Call(r, op) \notin jobs)

(* How one is done: it was under way, and this step is its success.        *)
Succeeds(r, op) ==
  /\ Call(r, op) \in jobs
  /\ op = "token" => CreateToken(Call(r, op))
  /\ op = "del" => SilentCache \/ cache' = [cache EXCEPT ![message[r].requestId] = 0]

LEMMA DelNonceEnds ==
  ASSUME NEW job, DelNonce(job)
  PROVE  /\ job.op = "del"
         /\ \/ Settled(job, FALSE)
            \/ /\ Settled(job, TRUE)
               /\ SilentCache \/ cache' = [cache EXCEPT ![message[job.by].requestId] = 0]
  BY Zenon DEF DelNonce

LEMMA CreateTokenEnds ==
  ASSUME NEW job, CreateToken(job)
  PROVE  job.op = "token" /\ (Settled(job, FALSE) \/ Settled(job, TRUE))
  BY Zenon DEF CreateToken

(* A failed call is never what gets its request granted, or keeps it       *)
(* waiting.                                                                *)
LEMMA FailureAnswers ==
  ASSUME TypeInv, NEW job \in jobs, Settled(job, FALSE), NEW r \in Requests, NEW op,
         Done(r, op)'
  PROVE  Done(r, op)
<1>1. job \in Job
  BY DEF TypeInv, EthereumTypeOK
<1>2. pc'[r] = pc[r]
  BY <1>1 DEF TypeInv, EthereumTypeOK, Job, Settled, Done
<1>3. CASE pc[r] = "granted"
  BY <1>3 DEF Done
<1>4. CASE pc[r] = "settle"
  <2>1. job.by # r
    BY <1>1, <1>2, <1>4 DEF TypeInv, EthereumTypeOK, Job, Settled
  <2>2. Call(r, op) \notin jobs
    BY <1>2, <1>4, <2>1 DEF Done, Settled, Call
  <2> QED
    BY <1>4, <2>2 DEF Done
<1> QED
  BY <1>2, <1>3, <1>4 DEF Done

LEMMA SuccessCounts ==
  ASSUME TypeInv, NEW job \in jobs, Settled(job, TRUE), NEW r \in Requests,
         NEW op \in {"del", "token"}, Done(r, op)', ~Done(r, op)
  PROVE  job = Call(r, op)
<1>1. job \in Job /\ job.by \in Requests
  BY DEF TypeInv, EthereumTypeOK, Job
<1>2. pc[r] = "settle" /\ Call(r, op) \in jobs
  BY <1>1 DEF TypeInv, EthereumTypeOK, Settled, Done
<1>3. Call(r, op) \notin jobs'
  <2>1. CASE pc'[r] = "settle"
    BY <2>1 DEF Done
  <2>2. CASE pc'[r] = "granted"
    BY <1>1, <1>2, <2>2 DEF TypeInv, EthereumTypeOK, Settled, Call
  <2> QED
    BY <2>1, <2>2 DEF Done
<1> QED
  BY <1>2, <1>3 DEF Settled

(* A call gets done by its own success only, and a request one of whose    *)
(* calls is done keeps its account and its message.                        *)
LEMMA DoneSteps ==
  ASSUME TypeInv, [EthereumNext]_vars, NEW r \in Requests, NEW op \in {"del", "token"},
         Done(r, op)'
  PROVE  /\ Done(r, op) \/ Succeeds(r, op)
         /\ user'[r] = user[r] /\ message'[r] = message[r]
<1> USE DEF TypeInv, EthereumTypeOK
<1>1. ASSUME NEW q \in Requests,
             \/ \E m \in Message : Submit(q, m)
             \/ GetNonce(q) \/ verifyMessage(q) \/ FindUser(q) \/ FindClaims(q)
             \/ getTransactionCount(q)
             \/ createByProvider(q) \/ CreateConflicts(q) \/ QueryFails(q)
      PROVE  /\ Done(r, op)
             /\ user'[r] = user[r] /\ message'[r] = message[r]
  <2>1. UNCHANGED jobs
    BY <1>1 DEF Submit, GetNonce, verifyMessage, FindUser, FindClaims, getTransactionCount,
                createByProvider, CreateConflicts, QueryFails
  <2>2. /\ q # r /\ pc'[r] = pc[r]
        /\ user'[r] = user[r] /\ message'[r] = message[r]
    BY <1>1 DEF Submit, GetNonce, verifyMessage, FindUser, FindClaims, getTransactionCount,
                createByProvider, CreateConflicts, QueryFails, Goto, Done
  <2> QED
    BY <2>1, <2>2 DEF Done, Call
<1>2. ASSUME NEW q \in Requests, Sign(q)
      PROVE  /\ Done(r, op)
             /\ user'[r] = user[r] /\ message'[r] = message[r]
  <2>1. q # r
    BY <1>2 DEF Sign, Goto, Done, Call
  <2> QED
    BY <1>2, <2>1 DEF Sign, Goto, Done, Call
<1>3. ASSUME NEW job \in jobs, Settle(job)
      PROVE  /\ Done(r, op) \/ Succeeds(r, op)
             /\ user'[r] = user[r] /\ message'[r] = message[r]
  <2>1. user'[r] = user[r] /\ message'[r] = message[r]
    BY <1>3 DEF Settle, DelNonce, CreateToken, TokenFails
  <2>2. CASE Settled(job, FALSE)
    BY <2>1, <2>2, FailureAnswers
  <2>3. CASE DelNonce(job) /\ Settled(job, TRUE) /\ ~Done(r, op)
    <3>1. job = Call(r, op)
      BY <2>3, SuccessCounts
    <3>2. op = "del" /\ job.by = r
      BY <2>3, <3>1, Zenon DEF DelNonce, Call
    <3>3. ~Settled(job, FALSE)
      BY <2>3, FailureAnswers
    <3>4. SilentCache \/ cache' = [cache EXCEPT ![message[r].requestId] = 0]
      BY <2>3, <3>2, <3>3, DelNonceEnds
    <3> QED
      BY <2>1, <3>1, <3>2, <3>4 DEF Succeeds
  <2>4. CASE CreateToken(job) /\ Settled(job, TRUE) /\ ~Done(r, op)
    <3>1. job = Call(r, op)
      BY <2>4, SuccessCounts
    <3>2. op = "token"
      BY <2>4, <3>1, Zenon DEF CreateToken, Call
    <3> QED
      BY <2>1, <2>4, <3>1, <3>2, Zenon DEF Succeeds
  <2>5. \/ Settled(job, FALSE)
        \/ (DelNonce(job) \/ CreateToken(job)) /\ Settled(job, TRUE)
    BY <1>3, DelNonceEnds, CreateTokenEnds, Zenon DEF Settle, TokenFails
  <2> QED
    BY <2>1, <2>2, <2>3, <2>4, <2>5
<1>4. CASE Restart
  BY <1>4 DEF Restart, Done, Waiting
<1>5. CASE (\E q \in RequestIds : init(q)) \/ Tick \/ Admin \/ UNCHANGED vars
  BY <1>5 DEF init, Tick, Admin, vars, Done, Call
<1> QED
  BY <1>1, <1>2, <1>3, <1>4, <1>5 DEF EthereumNext, Serve
-----------------------------------------------------------------------------
Recorded(r) ==
  \/ user[r].id \in gone
  \/ \E t \in tokens : t.userId = user[r].id /\ t.value = sign(user[r].row)

(* No step loses a token whose account is not deleted in that step.        *)
LEMMA TokensKept ==
  ASSUME [EthereumNext]_vars
  PROVE  gone \subseteq gone' /\ \A t \in tokens : t \in tokens' \/ t.userId \in gone'
<1>1. CASE Admin
  BY <1>1 DEF Admin, ApiNext, post, create, InsertUser, patch, updateById, UpdateUser,
              delete, deleteById
<1>2. ASSUME NEW r \in Requests, createByProvider(r)
      PROVE  UNCHANGED <<gone, tokens>>
  BY <1>2 DEF createByProvider, InsertUser
<1>3. ASSUME NEW job, CreateToken(job)
      PROVE  gone' = gone /\ tokens \subseteq tokens'
  BY <1>3 DEF CreateToken, createToken
<1>4. ASSUME NEW r \in Requests,
             \/ \E m \in Message : Submit(r, m)
             \/ GetNonce(r) \/ verifyMessage(r) \/ FindUser(r) \/ FindClaims(r)
             \/ getTransactionCount(r)
             \/ CreateConflicts(r) \/ Sign(r) \/ QueryFails(r)
             \/ \E job \in jobs : DelNonce(job) \/ TokenFails(job)
      PROVE  UNCHANGED <<gone, tokens>>
  BY <1>4 DEF Submit, GetNonce, verifyMessage, FindUser, FindClaims, getTransactionCount,
              CreateConflicts, Sign, QueryFails, DelNonce, TokenFails, storeVars
<1>5. CASE (\E q \in RequestIds : init(q)) \/ Restart \/ Tick \/ UNCHANGED vars
  BY <1>5 DEF init, Restart, Tick, vars, storeVars
<1> QED
  BY <1>1, <1>2, <1>3, <1>4, <1>5 DEF EthereumNext, Serve, Settle

(* Inductive: also a request that only waits for the delete of its nonce   *)
(* has its token on record.                                                *)
RecordInv == TypeInv /\ \A r \in Requests : Done(r, "token") => Recorded(r)

LEMMA StepRecorded == RecordInv /\ [EthereumNext]_vars => RecordInv'
<1> SUFFICES ASSUME RecordInv, [EthereumNext]_vars,
                    NEW r \in Requests, Done(r, "token")'
             PROVE  Recorded(r)'
  BY StepType DEF RecordInv
<1>1. /\ Done(r, "token") \/ Succeeds(r, "token")
      /\ user'[r] = user[r]
  BY DoneSteps DEF RecordInv
<1>2. CASE Done(r, "token")
  BY <1>1, <1>2, TokensKept DEF RecordInv, Recorded, sign
<1>3. CASE Succeeds(r, "token")
  <2> DEFINE t == [userId |-> user[r].id, createdAt |-> now, loginMethod |-> "password",
                   value |-> sign(user[r].row)]
  <2>1. t \in tokens'
    BY <1>3 DEF Succeeds, CreateToken, createToken, Call
  <2>2. t.userId = user'[r].id /\ t.value = sign(user'[r].row)
    BY <1>1
  <2> HIDE DEF t
  <2> QED
    BY <2>1, <2>2 DEF Recorded, sign
<1> QED
  BY <1>1, <1>2, <1>3

(* A granted token is on record as long as its account is, however the two *)
(* calls of Promise.all, the administrators and a restart interleave.      *)
THEOREM GrantsRecorded == EthereumSpec => []GrantRecorded
<1>1. EthereumInit => RecordInv
  BY InitType DEF EthereumInit, RecordInv, Done
<1>2. RecordInv => GrantRecorded
  BY DEF RecordInv, Done, Recorded, GrantRecorded
<1> QED
  BY <1>1, <1>2, StepRecorded, PTL DEF EthereumSpec
-----------------------------------------------------------------------------
(* A request past the signature check carries the nonce of a request id    *)
(* that was handed out: init never writes under that id again.             *)
Verified == {"find", "claims", "count", "create", "sign", "settle", "granted"}

IssuedInv ==
  /\ \A r \in Requests : pc[r] # "idle" /\ message[r].genuine => message[r].requestId \in issued
  /\ \A r \in Requests : pc[r] \in Verified => message[r].genuine

LEMMA MessageSteps ==
  ASSUME TypeInv, [EthereumNext]_vars, NEW r \in Requests
  PROVE  /\ issued \subseteq issued'
         /\ \/ message'[r] = message[r] /\ (pc'[r] # "idle" => pc[r] # "idle")
            \/ /\ message'[r].genuine => message'[r].requestId \in issued
               /\ pc'[r] = "nonce"
<1> USE DEF TypeInv, EthereumTypeOK
<1>1. ASSUME NEW q \in Requests, NEW m \in Message, Submit(q, m)
      PROVE  \/ message'[r] = message[r] /\ pc'[r] = pc[r]
             \/ /\ message'[r].genuine => message'[r].requestId \in issued
                /\ pc'[r] = "nonce"
  <2>1. CASE q = r
    <3>1. message'[r] = m
      BY <1>1, <2>1 DEF Submit
    <3> QED
      BY <1>1, <2>1, <3>1 DEF Submit, Goto
  <2>2. CASE q # r
    BY <1>1, <2>2 DEF Submit, Goto
  <2> QED
    BY <2>1, <2>2
<1>2. ASSUME NEW q \in Requests,
             \/ GetNonce(q) \/ verifyMessage(q) \/ FindUser(q) \/ FindClaims(q)
             \/ getTransactionCount(q)
             \/ createByProvider(q) \/ CreateConflicts(q) \/ Sign(q) \/ QueryFails(q)
      PROVE  message' = message /\ issued' = issued /\ (pc'[r] # "idle" => pc[r] # "idle")
  BY <1>2 DEF GetNonce, verifyMessage, FindUser, FindClaims, getTransactionCount,
              createByProvider, CreateConflicts, Sign, QueryFails, Goto
<1>3. ASSUME NEW job \in jobs, Settle(job)
      PROVE  message' = message /\ issued' = issued /\ (pc'[r] # "idle" => pc[r] # "idle")
  <2>1. message' = message /\ issued' = issued
    BY <1>3 DEF Settle, DelNonce, CreateToken, TokenFails
  <2>2. MovedOn
    BY <1>3, CallMoves
  <2> QED
    BY <2>1, <2>2 DEF MovedOn
<1>4. CASE Restart
  BY <1>4 DEF Restart, Waiting
<1>5. CASE (\E q \in RequestIds : init(q)) \/ Tick \/ Admin \/ UNCHANGED vars
  BY <1>5 DEF init, Tick, Admin, vars
<1>6. ASSUME NEW q \in Requests, NEW m \in Message, Submit(q, m)
      PROVE  issued' = issued
  BY <1>6 DEF Submit
<1> QED
  BY <1>1, <1>2, <1>3, <1>4, <1>5, <1>6 DEF EthereumNext, Serve

(* Only the signature check lets a request in.                             *)
LEMMA VerifiedSteps ==
  ASSUME TypeInv, [EthereumNext]_vars, NEW r \in Requests, pc'[r] \in Verified
  PROVE  message'[r] = message[r] /\ (pc[r] \in Verified \/ message[r].genuine)
<1> USE DEF TypeInv, EthereumTypeOK
<1>1. ASSUME NEW q \in Requests,
             \/ \E m \in Message : Submit(q, m)
             \/ GetNonce(q) \/ FindUser(q) \/ FindClaims(q)
             \/ getTransactionCount(q)
             \/ createByProvider(q) \/ CreateConflicts(q) \/ Sign(q) \/ QueryFails(q)
      PROVE  message'[r] = message[r] /\ pc[r] \in Verified
  BY <1>1 DEF Submit, GetNonce, FindUser, FindClaims, getTransactionCount,
              createByProvider, CreateConflicts, Sign, QueryFails, Goto, Verified
<1>2. ASSUME NEW q \in Requests, verifyMessage(q)
      PROVE  message'[r] = message[r] /\ (pc[r] \in Verified \/ message[r].genuine)
  <2>1. CASE q = r
    <3>1. CASE message[q].genuine
      BY <1>2, <2>1, <3>1 DEF verifyMessage
    <3>2. CASE ~message[q].genuine
      BY <1>2, <2>1, <3>2 DEF verifyMessage, Goto, Verified
    <3> QED
      BY <3>1, <3>2
  <2>2. CASE q # r
    BY <1>2, <2>2 DEF verifyMessage, Goto
  <2> QED
    BY <2>1, <2>2
<1>3. ASSUME NEW job \in jobs, Settle(job)
      PROVE  message'[r] = message[r] /\ pc[r] \in Verified
  <2>1. message'[r] = message[r]
    BY <1>3 DEF Settle, DelNonce, CreateToken, TokenFails
  <2>2. PICK ok \in BOOLEAN : Settled(job, ok)
    BY <1>3, Zenon DEF Settle, DelNonce, CreateToken, TokenFails
  <2>3. pc[r] \in Verified
    BY <2>2 DEF Settled, Job, Verified
  <2> QED
    BY <2>1, <2>3
<1>4. CASE Restart
  BY <1>4 DEF Restart, Waiting, Verified
<1>5. CASE (\E q \in RequestIds : init(q)) \/ Tick \/ Admin \/ UNCHANGED vars
  BY <1>5 DEF init, Tick, Admin, vars
<1> QED
  BY <1>1, <1>2, <1>3, <1>4, <1>5 DEF EthereumNext, Serve

LEMMA StepIssued == TypeInv /\ IssuedInv /\ [EthereumNext]_vars => IssuedInv'
<1> SUFFICES ASSUME TypeInv, IssuedInv, [EthereumNext]_vars PROVE IssuedInv'
  OBVIOUS
<1>1. ASSUME NEW r \in Requests, pc'[r] # "idle", message'[r].genuine
      PROVE  message'[r].requestId \in issued'
  BY <1>1, MessageSteps DEF IssuedInv
<1>2. ASSUME NEW r \in Requests, pc'[r] \in Verified
      PROVE  message'[r].genuine
  <2>1. message'[r] = message[r] /\ (pc[r] \in Verified \/ message[r].genuine)
    BY <1>2, VerifiedSteps
  <2> QED
    BY <2>1 DEF IssuedInv
<1> QED
  BY <1>1, <1>2 DEF IssuedInv

(* A nonce that was handed out is never written to the cache again: only   *)
(* init writes one, under an id it never used before.                      *)
LEMMA CacheSteps ==
  ASSUME TypeInv, [EthereumNext]_vars, NEW q \in issued
  PROVE  cache'[q] \in {cache[q], 0}
<1> USE DEF TypeInv, EthereumTypeOK
<1>1. ASSUME NEW i \in RequestIds, init(i) PROVE cache'[q] = cache[q]
  BY <1>1 DEF init
<1>2. ASSUME NEW job \in jobs, DelNonce(job) PROVE cache'[q] \in {cache[q], 0}
  <2>1. cache' = cache \/ cache' = [cache EXCEPT ![message[job.by].requestId] = 0]
    BY <1>2, Zenon DEF DelNonce
  <2> QED
    BY <2>1
<1>3. ASSUME NEW r \in Requests,
             \/ \E m \in Message : Submit(r, m)
             \/ GetNonce(r) \/ verifyMessage(r) \/ FindUser(r) \/ FindClaims(r)
             \/ getTransactionCount(r)
             \/ createByProvider(r) \/ CreateConflicts(r) \/ Sign(r) \/ QueryFails(r)
             \/ \E job \in jobs : CreateToken(job) \/ TokenFails(job)
      PROVE  UNCHANGED cache
  BY <1>3 DEF Submit, GetNonce, verifyMessage, FindUser, FindClaims, getTransactionCount,
              createByProvider, CreateConflicts, Sign, QueryFails, CreateToken, TokenFails
<1>4. CASE Restart \/ Tick \/ Admin \/ UNCHANGED vars
  BY <1>4 DEF Restart, Tick, Admin, vars
<1> QED
  BY <1>1, <1>2, <1>3, <1>4 DEF EthereumNext, Serve, Settle

(* Inductive: also a request that only waits for its token has retired its *)
(* nonce, and that nonce was one init had handed out.                      *)
RetiredInv ==
  /\ TypeInv
  /\ IssuedInv
  /\ ~SilentCache => \A r \in Requests : Done(r, "del") => cache[message[r].requestId] = 0

LEMMA StepRetired == RetiredInv /\ [EthereumNext]_vars => RetiredInv'
<1> SUFFICES ASSUME RetiredInv, [EthereumNext]_vars, ~SilentCache,
                    NEW r \in Requests, Done(r, "del")'
             PROVE  cache'[message'[r].requestId] = 0
  BY StepType, StepIssued DEF RetiredInv
<1>1. /\ Done(r, "del") \/ Succeeds(r, "del")
      /\ message'[r] = message[r]
  BY DoneSteps DEF RetiredInv
<1>2. CASE Done(r, "del")
  <2>1. message[r].requestId \in issued
    BY <1>2 DEF RetiredInv, IssuedInv, Done, Verified
  <2> QED
    BY <1>1, <1>2, <2>1, CacheSteps DEF RetiredInv
<1>3. CASE Succeeds(r, "del")
  <2>1. message[r] \in Message /\ cache \in [RequestIds -> Nat]
    BY <1>3 DEF Succeeds, Call, RetiredInv, TypeInv, EthereumTypeOK
  <2> QED
    BY <1>1, <1>3, <2>1 DEF Succeeds, Message
<1> QED
  BY <1>1, <1>2, <1>3

LEMMA InitRetired == EthereumInit => RetiredInv
  BY InitType DEF EthereumInit, RetiredInv, IssuedInv, Verified, Done

(* With a cache that tells the truth, the nonce of a granted login is gone *)
(* and stays gone: the login cannot be repeated with the same message.     *)
THEOREM NoncesRetired == EthereumSpec => []NonceRetired
<1>1. RetiredInv => NonceRetired
  BY DEF RetiredInv, Done, NonceRetired
<1> QED
  BY <1>1, InitRetired, StepRetired, PTL DEF EthereumSpec
=============================================================================
