----------------------- MODULE EthereumLoginHistory_proofs -----------------------
(***************************************************************************)
(* EthereumLogin implements EthereumContract, for every value of the       *)
(* constants.                                                              *)
(***************************************************************************)
EXTENDS EthereumLoginHistory, EthereumLogin_proofs

(* A step of the history is a step of the login.                           *)
LEMMA HistoryWatches == HSpec => EthereumSpec
<1>1. HInit => EthereumInit
  BY DEF HInit
<1>2. [HNext]_hvars => [EthereumNext]_vars
  BY DEF HNext, hvars, vars
<1> QED
  BY <1>1, <1>2, PTL DEF HSpec, EthereumSpec
-----------------------------------------------------------------------------
(* First the views, over any state `a` of the accounts, so that they can be*)
(* spoken of before and after a step.                                      *)
Views == [id : UserIds, account : Accounts]

AccountStates == [UserIds -> Accounts \cup {NoUser}]

LookUpIn(a, address) ==
  LET found == {id \in UserIds : a[id] # NoUser /\ a[id].username = address}
  IN  IF found = {} THEN {NoUser} ELSE {[id |-> id, account |-> a[id]] : id \in found}

ClaimsIn(a, id) == IF a[id] = NoUser THEN NoClaims ELSE a[id].claims

RefreshIn(a, views) ==
  {[v EXCEPT !.account.claims = ClaimsIn(a, v.id)] : v \in views \ {NoUser}}

(* Nothing a login of that name can read now is missing among the views.   *)
UpToDate(a, address, views) ==
  /\ views \subseteq Views \cup {NoUser}
  /\ LookUpIn(a, address) \subseteq views
  /\ RefreshIn(a, views) \subseteq views

(* What a request has found out stays true of something it has seen: its   *)
(* nonce was alive, its address had no account, it has a view of its       *)
(* account, but for the claims until it has read them too.                 *)
CheckedNonce == {"verify", "find", "claims", "count", "create", "sign", "settle"}

PromiseInv ==
  /\ \A r \in Requests : pc[r] \notin Waiting => accounts[r] = {}
  /\ \A r \in Requests : pc[r] \in Waiting =>
       /\ nonce[message[r].requestId] \in nonces[r]
       /\ UpToDate(account, message[r].address, accounts[r])
  /\ \A r \in Requests : pc[r] \in CheckedNonce /\ message[r].genuine => "live" \in nonces[r]
  /\ \A r \in Requests : pc[r] \in {"count", "create"} => NoUser \in accounts[r]
  /\ \A r \in Requests : pc[r] \in {"claims", "sign", "settle"} =>
       user[r].row.username = message[r].address
  /\ \A r \in Requests : pc[r] = "claims" =>
       \E claims \in Claims :
         [id |-> user[r].id, account |-> [Account(user[r].row) EXCEPT !.claims = claims]]
           \in accounts[r]
  /\ \A r \in Requests : pc[r] \in {"sign", "settle"} =>
       [id |-> user[r].id, account |-> Account(user[r].row)] \in accounts[r]

LEMMA AccountIn ==
  ASSUME NEW u \in UserRow
  PROVE  /\ Account(u) \in Accounts /\ Account(u) # NoUser
         /\ Account(u).username = u.username /\ Account(u).claims = u.claims
<1>1. Account(u) \in Accounts
  BY DEF Account, Accounts, UserRow
<1> QED
  BY <1>1, HistoryAssumption DEF Account

LEMMA AccountType ==
  ASSUME NEW rows \in [UserIds -> UserRow \cup {NoUser}]
  PROVE  [id \in UserIds |-> IF rows[id] = NoUser THEN NoUser ELSE Account(rows[id])]
           \in AccountStates
  BY AccountIn DEF AccountStates

LEMMA AccountTypes ==
  /\ TypeInv => account \in AccountStates
  /\ TypeInv' => account' \in AccountStates
<1>1. ASSUME TypeInv PROVE account \in AccountStates
  BY <1>1, AccountType DEF account, TypeInv, EthereumTypeOK, StoreTypeOK
<1>2. ASSUME TypeInv' PROVE account' \in AccountStates
  <2>1. row' \in [UserIds -> UserRow \cup {NoUser}]
    BY <1>2 DEF TypeInv, EthereumTypeOK, StoreTypeOK
  <2>2. account' = [id \in UserIds |-> IF row'[id] = NoUser THEN NoUser ELSE Account(row'[id])]
    BY DEF account, Account
  <2> QED
    BY <2>1, <2>2, AccountType
<1> QED
  BY <1>1, <1>2

(* A view with other claims. *)
LEMMA Reclaimed ==
  ASSUME NEW v \in Views, NEW c \in Claims
  PROVE  /\ [v EXCEPT !.account.claims = c] \in Views
         /\ [v EXCEPT !.account.claims = c].id = v.id
         /\ [v EXCEPT !.account.claims = c]
              = [id |-> v.id, account |-> [v.account EXCEPT !.claims = c]]
         /\ [v EXCEPT !.account.claims = c].account.claims = c
         /\ v.account.claims = c => [v EXCEPT !.account.claims = c] = v
<1>1. v.id \in UserIds /\ v.account \in Accounts
  BY DEF Views
<1>2. [v.account EXCEPT !.claims = c] \in Accounts /\ [v.account EXCEPT !.claims = c].claims = c
  BY <1>1 DEF Accounts
<1>3. [v EXCEPT !.account.claims = c]
        = [id |-> v.id, account |-> [v.account EXCEPT !.claims = c]]
  BY DEF Views
<1>4. ASSUME v.account.claims = c PROVE [v.account EXCEPT !.claims = c] = v.account
  BY <1>1, <1>4 DEF Accounts
<1>5. v = [id |-> v.id, account |-> v.account]
  BY DEF Views
<1> QED
  BY <1>1, <1>2, <1>3, <1>4, <1>5 DEF Views

(* Looking once leaves nothing to be seen by looking again.                *)
LEMMA LookingSuffices ==
  ASSUME NEW a \in AccountStates, NEW address, NEW views \in SUBSET (Views \cup {NoUser})
  PROVE  UpToDate(a, address, views \cup LookUpIn(a, address) \cup RefreshIn(a, views))
<1> USE DEF AccountStates
<1> DEFINE all == views \cup LookUpIn(a, address) \cup RefreshIn(a, views)
           fresh(v) == [v EXCEPT !.account.claims = ClaimsIn(a, v.id)]
<1>1. \A id \in UserIds : ClaimsIn(a, id) \in Claims
  BY NoClaimsType DEF ClaimsIn, Accounts
<1>2. \A v \in Views : /\ fresh(v) \in Views /\ fresh(fresh(v)) = fresh(v)
                       /\ v.account.claims = ClaimsIn(a, v.id) => fresh(v) = v
  <2> SUFFICES ASSUME NEW v \in Views
               PROVE  /\ fresh(v) \in Views /\ fresh(fresh(v)) = fresh(v)
                      /\ v.account.claims = ClaimsIn(a, v.id) => fresh(v) = v
    OBVIOUS
  <2>1. ClaimsIn(a, v.id) \in Claims
    BY <1>1 DEF Views
  <2>2. /\ fresh(v) \in Views /\ fresh(v).id = v.id
        /\ fresh(v).account.claims = ClaimsIn(a, v.id)
        /\ v.account.claims = ClaimsIn(a, v.id) => fresh(v) = v
    BY <2>1, Reclaimed
  <2>3. fresh(v).account.claims = ClaimsIn(a, fresh(v).id)
        /\ ClaimsIn(a, fresh(v).id) \in Claims
    BY <2>1, <2>2
  <2>4. fresh(fresh(v)) = fresh(v)
    <3> DEFINE f == fresh(v)
    <3>1. f \in Views /\ f.account.claims = ClaimsIn(a, f.id) /\ ClaimsIn(a, f.id) \in Claims
      BY <2>2, <2>3
    <3> HIDE DEF f
    <3>2. [f EXCEPT !.account.claims = ClaimsIn(a, f.id)] = f
      BY <3>1, Reclaimed
    <3> QED
      BY <3>2 DEF f
  <2> QED
    BY <2>2, <2>4
<1>3. LookUpIn(a, address) \subseteq Views \cup {NoUser}
  BY DEF LookUpIn, Views
<1>4. \A v \in LookUpIn(a, address) \ {NoUser} : v.account.claims = ClaimsIn(a, v.id)
  BY DEF LookUpIn, ClaimsIn
<1>5. RefreshIn(a, views) = {fresh(v) : v \in views \ {NoUser}}
  BY DEF RefreshIn
<1>6. RefreshIn(a, all) = {fresh(v) : v \in all \ {NoUser}}
  BY DEF RefreshIn
<1> HIDE DEF fresh
<1>7. \A v \in all \ {NoUser} : v \in Views /\ fresh(v) \in all
  BY <1>2, <1>3, <1>4, <1>5
<1> QED
  BY <1>6, <1>7 DEF UpToDate

(* What a step that is watched adds to what a request has seen.            *)
LEMMA StepSeen ==
  ASSUME TypeInv', Watch, NEW r \in Requests
  PROVE  /\ pc'[r] \in Waiting =>
              /\ nonces'[r] = nonces[r] \cup {nonce'[message'[r].requestId]}
              /\ accounts'[r] = accounts[r] \cup LookUpIn(account', message'[r].address)
                                   \cup RefreshIn(account', accounts[r])
         /\ pc'[r] \notin Waiting => accounts'[r] = {}
<1>1. pc'[r] \in {"idle"} \cup Waiting \cup Answered
  BY DEF TypeInv, EthereumTypeOK
<1>2. (IF pc'[r] \in Waiting THEN "open"
       ELSE IF pc'[r] \in {"error", "dropped"} THEN "failed" ELSE pc'[r]) = "open"
      <=> pc'[r] \in Waiting
  BY <1>1 DEF Waiting, Answered
<1>3. /\ Contract!LookUp(message[r].address)' = LookUpIn(account', message'[r].address)
      /\ \A id : Contract!Claims(id)' = ClaimsIn(account', id)
  BY DEF Contract!LookUp, Contract!Claims, LookUpIn, ClaimsIn
<1>4. /\ nonces'[r] =
           IF pc'[r] \in Waiting THEN nonces[r] \cup {nonce'[message'[r].requestId]} ELSE {}
      /\ accounts'[r] =
           IF pc'[r] \notin Waiting THEN {}
           ELSE accounts[r] \cup Contract!LookUp(message[r].address)'
                  \cup {[v EXCEPT !.account.claims = Contract!Claims(v.id)'] :
                          v \in accounts[r] \ {NoUser}}
  BY <1>2 DEF Watch, Contract!Look
<1> QED
  BY <1>3, <1>4 DEF RefreshIn

-----------------------------------------------------------------------------
(* A nonce is handed out once and dies once.                               *)
LEMMA StepClock ==
  ASSUME TypeInv, [EthereumNext]_vars
  PROVE  now \in Nat /\ now' \in Nat /\ now' >= now
<1>1. now \in Nat
  BY DEF TypeInv, EthereumTypeOK
<1>2. Tick \/ now' = now
  BY DEF EthereumNext, Serve, Settle, init, Submit, GetNonce, verifyMessage, FindUser, FindClaims,
         getTransactionCount, createByProvider, CreateConflicts, Sign, QueryFails,
         DelNonce, CreateToken, TokenFails, Restart, Admin, vars
<1> QED
  BY <1>1, <1>2 DEF Tick

LEMMA NoncesAge ==
  ASSUME TypeInv, [EthereumNext]_vars, NEW q \in RequestIds
  PROVE  nonce'[q] \in {nonce[q], "dead"} \/ nonce[q] = "unissued"
<1>1. CASE q \in issued
  <2>1. q \in issued'
    <3>1. issued' = issued \/ \E i \in RequestIds : init(i)
      BY DEF EthereumNext, Serve, Settle, Submit, GetNonce, verifyMessage, FindUser, FindClaims,
             getTransactionCount, createByProvider, CreateConflicts, Sign, QueryFails,
             DelNonce, CreateToken, TokenFails, Restart, Tick, Admin, vars
    <3> QED
      BY <1>1, <3>1 DEF init
  <2>2. cache'[q] \in {cache[q], 0} /\ cache[q] \in Nat
    BY <1>1, CacheSteps DEF TypeInv, EthereumTypeOK
  <2>3. now' < cache'[q] => now < cache[q]
    BY <2>2, StepClock
  <2> QED
    BY <1>1, <2>1, <2>3 DEF nonce, Cached
<1>2. CASE q \notin issued
  BY <1>2 DEF nonce
<1> QED
  BY <1>1, <1>2
-----------------------------------------------------------------------------
(* What a step does to a request that is being served after it.            *)
LEMMA StepRequest ==
  ASSUME TypeInv, [EthereumNext]_vars, NEW r \in Requests, pc'[r] \in Waiting
  PROVE  \/ pc[r] = "idle" /\ pc'[r] = "nonce"
         \/ /\ pc[r] \in Waiting /\ message'[r] = message[r]
            /\ \/ pc'[r] = pc[r] /\ user'[r] = user[r]
               \/ /\ pc[r] = "nonce" /\ pc'[r] = "verify"
                  /\ Cached(message[r].requestId)
               \/ pc[r] = "verify" /\ pc'[r] = "find"
               \/ /\ pc[r] = "find" /\ pc'[r] = "count"
                  /\ findByUsername(message[r].address) = {}
               \/ /\ pc[r] = "find" /\ pc'[r] = "claims"
                  /\ \E id \in findByUsername(message[r].address) : user'[r] = Found(id)
               \/ /\ pc[r] = "claims" /\ pc'[r] = "sign"
                  /\ user'[r] = WithClaims(user[r])
               \/ pc[r] = "count" /\ pc'[r] = "create"
               \/ /\ pc[r] = "create" /\ pc'[r] = "sign"
                  /\ \E id \in UserIds :
                       LET u == ProviderUser(message[r].address)
                       IN  InsertUser(id, u) /\ user'[r] = [id |-> id, row |-> u]
               \/ pc[r] = "sign" /\ pc'[r] = "settle" /\ user'[r] = user[r]
<1> USE DEF TypeInv, EthereumTypeOK, Goto, Waiting
<1>1. ASSUME NEW q \in Requests, NEW m \in Message, Submit(q, m)
      PROVE  \/ pc[r] = "idle" /\ pc'[r] = "nonce"
             \/ pc'[r] = pc[r] /\ user'[r] = user[r] /\ message'[r] = message[r]
  BY <1>1 DEF Submit
<1>2. ASSUME NEW q \in Requests, GetNonce(q) \/ verifyMessage(q)
      PROVE  /\ message'[r] = message[r] /\ user'[r] = user[r]
             /\ \/ pc'[r] = pc[r]
                \/ /\ pc[r] = "nonce" /\ pc'[r] = "verify"
                   /\ Cached(message[r].requestId)
                \/ pc[r] = "verify" /\ pc'[r] = "find"
  BY <1>2 DEF GetNonce, verifyMessage
<1>3. ASSUME NEW q \in Requests, FindUser(q)
      PROVE  /\ message'[r] = message[r]
             /\ \/ pc'[r] = pc[r] /\ user'[r] = user[r]
                \/ /\ pc[r] = "find" /\ pc'[r] = "count"
                   /\ findByUsername(message[r].address) = {}
                \/ /\ pc[r] = "find" /\ pc'[r] = "claims"
                   /\ \E id \in findByUsername(message[r].address) : user'[r] = Found(id)
  BY <1>3 DEF FindUser, Found
<1>10. ASSUME NEW q \in Requests, FindClaims(q)
       PROVE  /\ message'[r] = message[r]
              /\ \/ pc'[r] = pc[r] /\ user'[r] = user[r]
                 \/ /\ pc[r] = "claims" /\ pc'[r] = "sign"
                    /\ user'[r] = WithClaims(user[r])
  <2>1. user[q] \in Snapshot
    BY <1>10 DEF FindClaims, HasAccount
  <2> QED
    BY <1>10, <2>1 DEF FindClaims, WithClaims, Snapshot
<1>4. ASSUME NEW q \in Requests, getTransactionCount(q) \/ CreateConflicts(q) \/ QueryFails(q)
      PROVE  /\ message'[r] = message[r] /\ user'[r] = user[r]
             /\ pc'[r] = pc[r] \/ (pc[r] = "count" /\ pc'[r] = "create")
  BY <1>4 DEF getTransactionCount, CreateConflicts, QueryFails
<1>5. ASSUME NEW q \in Requests, createByProvider(q)
      PROVE  /\ message'[r] = message[r]
             /\ \/ pc'[r] = pc[r] /\ user'[r] = user[r]
                \/ /\ pc[r] = "create" /\ pc'[r] = "sign"
                   /\ \E id \in UserIds :
                        LET u == ProviderUser(message[r].address)
                        IN  InsertUser(id, u) /\ user'[r] = [id |-> id, row |-> u]
  <2>1. PICK id \in FreshIds :
          LET u == ProviderUser(message[q].address)
          IN  /\ InsertUser(id, u)
              /\ \/ Goto(q, "sign") /\ user' = [user EXCEPT ![q] = [id |-> id, row |-> u]]
                 \/ Goto(q, "error") /\ UNCHANGED user
    BY <1>5 DEF createByProvider
  <2>2. id \in UserIds
    BY DEF FreshIds
  <2>3. pc[q] = "create" /\ message' = message
    BY <1>5 DEF createByProvider
  <2>4. CASE q # r
    BY <2>1, <2>3, <2>4
  <2>5. CASE q = r
    <3> DEFINE u == ProviderUser(message[r].address)
    <3> HIDE DEF u
    <3>1. Goto(r, "sign") /\ user' = [user EXCEPT ![r] = [id |-> id, row |-> u]]
      BY <2>1, <2>5 DEF u
    <3>2. pc'[r] = "sign" /\ user'[r] = [id |-> id, row |-> u] /\ InsertUser(id, u)
      BY <2>1, <2>5, <3>1 DEF u
    <3> QED
      BY <2>2, <2>3, <2>5, <3>2 DEF u
  <2> QED
    BY <2>4, <2>5
<1>6. ASSUME NEW q \in Requests, Sign(q)
      PROVE  /\ message'[r] = message[r] /\ user'[r] = user[r]
             /\ pc'[r] = pc[r] \/ (pc[r] = "sign" /\ pc'[r] = "settle")
  BY <1>6 DEF Sign
<1>7. ASSUME NEW job \in jobs, Settle(job)
      PROVE  message'[r] = message[r] /\ user'[r] = user[r] /\ pc'[r] = pc[r]
  <2>1. message' = message /\ user' = user
    BY <1>7 DEF Settle, DelNonce, CreateToken, TokenFails
  <2>2. PICK ok \in BOOLEAN : Settled(job, ok)
    BY <1>7, Zenon DEF Settle, DelNonce, CreateToken, TokenFails
  <2>3. pc'[r] = pc[r]
    BY <2>2 DEF Settled, Job
  <2> QED
    BY <2>1, <2>3
<1>8. ~Restart
  BY DEF Restart
<1>9. ASSUME (\E q \in RequestIds : init(q)) \/ Tick \/ Admin \/ UNCHANGED vars
      PROVE  pc' = pc /\ user' = user /\ message' = message
  BY <1>9 DEF init, Tick, Admin, vars
<1> QED
  BY <1>1, <1>2, <1>3, <1>4, <1>5, <1>6, <1>7, <1>8, <1>9, <1>10
     DEF EthereumNext, Serve

LEMMA InitPromise == HInit => PromiseInv
  BY DEF HInit, EthereumInit, ApiInit, StoreInit, PromiseInv, Waiting, CheckedNonce

LEMMA NothingFound ==
  ASSUME NEW address, findByUsername(address) = {}
  PROVE  LookUpIn(account, address) = {NoUser}
<1>1. \A id \in UserIds : account[id] # NoUser => account[id].username # address
  BY DEF findByUsername, ids, account, Account
<1> QED
  BY <1>1 DEF LookUpIn

(* What a request finds by name is among its views.                        *)
LEMMA RowSeen ==
  ASSUME TypeInv, NEW views, NEW address, UpToDate(account, address, views),
         NEW id \in findByUsername(address)
  PROVE  /\ row[id] \in UserRow /\ Found(id).id \in UserIds
         /\ [id |-> Found(id).id, account |-> Account(row[id])] \in views
<1>1. id \in UserIds /\ row[id] \in UserRow /\ row[id].username = address
  BY DEF findByUsername, ids, TypeInv, EthereumTypeOK, StoreTypeOK
<1>2. account[id] = Account(row[id]) /\ account[id] # NoUser /\ account[id].username = address
  BY <1>1, AccountIn, StoreAssumption DEF account
<1> QED
  BY <1>1, <1>2 DEF UpToDate, LookUpIn, Found

(* What a request has found by name is among its views.                    *)
LEMMA FoundSeen ==
  ASSUME TypeInv, NEW views, NEW address, UpToDate(account, address, views),
         NEW id \in findByUsername(address)
  PROVE  /\ Found(id).row \in UserRow /\ Found(id).row.username = address
         /\ \E claims \in Claims :
              [id |-> Found(id).id,
               account |-> [Account(Found(id).row) EXCEPT !.claims = claims]] \in views
<1>1. id \in UserIds /\ row[id] \in UserRow /\ row[id].username = address
  BY DEF findByUsername, ids, TypeInv, EthereumTypeOK, StoreTypeOK
<1>2. account[id] = Account(row[id]) /\ account[id] # NoUser /\ account[id].username = address
  BY <1>1, AccountIn, StoreAssumption DEF account
<1>3. [id |-> id, account |-> Account(row[id])] \in views
  BY <1>1, <1>2 DEF UpToDate, LookUpIn
<1>4. [Account(Found(id).row) EXCEPT !.claims = row[id].claims] = Account(row[id])
  BY <1>1 DEF Found, Account, UserRow
<1> QED
  BY <1>1, <1>3, <1>4, NoClaimsType DEF Found, UserRow

(* And so is what it makes of a view by reading the claims.                *)
LEMMA ClaimsSeen ==
  ASSUME TypeInv, NEW views, NEW address, UpToDate(account, address, views),
         NEW u \in Snapshot, NEW claims \in Claims,
         [id |-> u.id, account |-> [Account(u.row) EXCEPT !.claims = claims]] \in views
  PROVE  [id |-> WithClaims(u).id, account |-> Account(WithClaims(u).row)] \in views
<1> DEFINE v == [id |-> u.id, account |-> [Account(u.row) EXCEPT !.claims = claims]]
           fresh == [v EXCEPT !.account.claims = ClaimsIn(account, v.id)]
<1>1. u.id \in UserIds /\ u.row \in UserRow
  BY DEF Snapshot
<1>2. ClaimsIn(account, u.id) = claimsOf(u.id)
  <2>1. row[u.id] # NoUser => row[u.id] \in UserRow
    BY <1>1 DEF TypeInv, EthereumTypeOK, StoreTypeOK
  <2> QED
    BY <1>1, <2>1, AccountIn DEF ClaimsIn, claimsOf, account
<1>3. v \in Views
  BY <1>1, AccountIn DEF Views, Accounts
<1>4. v # NoUser
  BY <1>3, HistoryAssumption DEF Views
<1>5. fresh \in views
  BY <1>4 DEF UpToDate, RefreshIn
<1>6. fresh = [id |-> WithClaims(u).id, account |-> Account(WithClaims(u).row)]
  <2> DEFINE c == claimsOf(u.id)
  <2>1. c \in Claims /\ v.id = u.id
    BY SnapshotTypes, <1>1, NoClaimsType
       DEF claimsOf, TypeInv, EthereumTypeOK, StoreTypeOK, UserRow
  <2>2. fresh = [id |-> u.id, account |-> [v.account EXCEPT !.claims = c]]
    <3>1. fresh = [v EXCEPT !.account.claims = c]
      BY <1>2, <2>1
    <3> HIDE DEF v, c, fresh
    <3> QED
      BY <1>3, <2>1, <3>1, Reclaimed
  <2>3. [v.account EXCEPT !.claims = c] = [Account(u.row) EXCEPT !.claims = c]
    BY <1>1 DEF Account
  <2>4. WithClaims(u) = [id |-> u.id, row |-> [u.row EXCEPT !.claims = c]]
    BY DEF WithClaims, Snapshot
  <2>5. Account([u.row EXCEPT !.claims = c]) = [Account(u.row) EXCEPT !.claims = c]
    BY <1>1 DEF Account, UserRow
  <2> HIDE DEF c, v, fresh
  <2> QED
    BY <2>2, <2>3, <2>4, <2>5
<1> QED
  BY <1>5, <1>6

(* An account just inserted is found under its name.                       *)
LEMMA InsertSeen ==
  ASSUME TypeInv, NEW u \in UserRow, NEW id \in UserIds, InsertUser(id, u)
  PROVE  [id |-> id, account |-> Account(u)] \in LookUpIn(account', u.username)
<1>1. row'[id] = u /\ u # NoUser
  BY StoreAssumption DEF InsertUser, TypeInv, EthereumTypeOK, StoreTypeOK
<1>2. account'[id] = Account(u)
  BY <1>1 DEF account, Account
<1>3. account'[id] # NoUser /\ account'[id].username = u.username
  BY <1>2, AccountIn
<1> QED
  BY <1>2, <1>3 DEF LookUpIn

LEMMA StepPromise == RetiredInv /\ PromiseInv /\ [HNext]_hvars => PromiseInv'
<1> SUFFICES ASSUME RetiredInv, PromiseInv, [HNext]_hvars PROVE PromiseInv'
  OBVIOUS
<1>1. [EthereumNext]_vars /\ TypeInv /\ IssuedInv
  BY DEF HNext, hvars, vars, RetiredInv
<1>2. CASE UNCHANGED hvars
  <2>1. account' = account /\ nonce' = nonce
    BY <1>2 DEF hvars, account, Account, nonce, Cached
  <2> QED
    BY <1>2, <2>1 DEF hvars, PromiseInv, Account
<1>3. CASE HNext
  <2>1. Watch /\ TypeInv'
    BY <1>1, <1>3, StepType DEF HNext
  <2>2. ASSUME NEW r \in Requests, pc'[r] \notin Waiting PROVE accounts'[r] = {}
    BY <2>1, <2>2, StepSeen
  <2>3. ASSUME NEW r \in Requests, pc'[r] \in Waiting
        PROVE  /\ nonce'[message'[r].requestId] \in nonces'[r]
               /\ nonces[r] \subseteq nonces'[r] /\ accounts[r] \subseteq accounts'[r]
               /\ LookUpIn(account', message'[r].address) \subseteq accounts'[r]
    BY <2>1, <2>3, StepSeen
  <2>4. ASSUME NEW r \in Requests, pc'[r] \in Waiting
        PROVE  UpToDate(account', message'[r].address, accounts'[r])
    <3>1. accounts[r] \in SUBSET (Views \cup {NoUser})
      BY DEF PromiseInv, UpToDate
    <3>2. account' \in AccountStates
      BY <2>1, AccountTypes
    <3>3. UpToDate(account', message'[r].address,
                   accounts[r] \cup LookUpIn(account', message'[r].address)
                               \cup RefreshIn(account', accounts[r]))
      BY <3>1, <3>2, LookingSuffices
    <3> QED
      BY <2>1, <2>4, <3>3, StepSeen
  <2>5. ASSUME NEW r \in Requests, pc'[r] \in CheckedNonce, message'[r].genuine
        PROVE  "live" \in nonces'[r]
    <3>1. pc'[r] \in Waiting /\ pc'[r] # "nonce"
      BY <2>5 DEF Waiting, CheckedNonce
    <3>2. pc[r] \in Waiting /\ message'[r] = message[r]
      BY <1>1, <3>1, StepRequest
    <3>3. CASE pc[r] \in CheckedNonce
      BY <2>3, <2>5, <3>1, <3>2, <3>3 DEF PromiseInv
    <3>4. CASE pc[r] = "nonce" /\ Cached(message[r].requestId)
      <4>1. message[r].requestId \in issued /\ message[r].requestId \in RequestIds
        BY <1>1, <2>5, <3>2, <3>4 DEF IssuedInv, TypeInv, Message
      <4>2. nonce[message[r].requestId] = "live"
        BY <3>4, <4>1 DEF nonce
      <4> QED
        BY <2>3, <3>1, <3>2, <4>2 DEF PromiseInv
    <3> QED
      BY <1>1, <2>5, <3>1, <3>3, <3>4, StepRequest DEF CheckedNonce
  <2>6. ASSUME NEW r \in Requests, pc'[r] \in {"count", "create"}
        PROVE  NoUser \in accounts'[r]
    <3>1. pc'[r] \in Waiting
      BY <2>6 DEF Waiting
    <3>2. pc[r] \in Waiting
      BY <1>1, <2>6, <3>1, StepRequest
    <3>3. CASE pc[r] \in {"count", "create"}
      BY <2>3, <3>1, <3>3 DEF PromiseInv
    <3>4. CASE findByUsername(message[r].address) = {}
      <4>1. LookUpIn(account, message[r].address) = {NoUser}
        BY <3>4, NothingFound
      <4> QED
        BY <2>3, <3>1, <3>2, <4>1 DEF PromiseInv, UpToDate
    <3> QED
      BY <1>1, <2>6, <3>1, <3>3, <3>4, StepRequest
  <2>7. ASSUME NEW r \in Requests, pc'[r] = "claims"
        PROVE  /\ user'[r].row.username = message'[r].address
               /\ \E claims \in Claims :
                    [id |-> user'[r].id,
                     account |-> [Account(user'[r].row) EXCEPT !.claims = claims]] \in accounts'[r]
    <3>1. pc'[r] \in Waiting
      BY <2>7 DEF Waiting
    <3>2. pc[r] \in Waiting /\ message'[r] = message[r]
      BY <1>1, <2>7, <3>1, StepRequest
    <3>3. CASE pc[r] = "claims" /\ user'[r] = user[r]
      BY <2>3, <3>1, <3>2, <3>3 DEF PromiseInv
    <3>4. ASSUME NEW id \in findByUsername(message[r].address), user'[r] = Found(id)
          PROVE  /\ user'[r].row.username = message'[r].address
                 /\ \E claims \in Claims :
                      [id |-> user'[r].id,
                       account |-> [Account(user'[r].row) EXCEPT !.claims = claims]] \in accounts'[r]
      <4>1. UpToDate(account, message[r].address, accounts[r])
        BY <3>2 DEF PromiseInv
      <4> DEFINE f == Found(id)
      <4>2. /\ f.row.username = message[r].address
            /\ \E claims \in Claims :
                 [id |-> f.id, account |-> [Account(f.row) EXCEPT !.claims = claims]] \in accounts[r]
        BY <1>1, <3>4, <4>1, FoundSeen
      <4> HIDE DEF f
      <4>3. user'[r] = f
        BY <3>4 DEF f
      <4>4. accounts[r] \subseteq accounts'[r]
        BY <2>3, <3>1
      <4> QED
        BY <3>2, <4>2, <4>3, <4>4
    <3> QED
      BY <1>1, <2>7, <3>1, <3>3, <3>4, StepRequest
  <2>8. ASSUME NEW r \in Requests, pc'[r] \in {"sign", "settle"}
        PROVE  /\ user'[r].row.username = message'[r].address
               /\ [id |-> user'[r].id, account |-> Account(user'[r].row)] \in accounts'[r]
    <3>1. pc'[r] \in Waiting
      BY <2>8 DEF Waiting
    <3>2. pc[r] \in Waiting /\ message'[r] = message[r] /\ message[r].address \in Addresses
      BY <1>1, <2>8, <3>1, StepRequest DEF TypeInv, Waiting, Message
    <3>3. CASE pc[r] \in {"sign", "settle"} /\ user'[r] = user[r]
      BY <2>3, <3>1, <3>2, <3>3 DEF PromiseInv
    <3>4. CASE pc[r] = "claims" /\ user'[r] = WithClaims(user[r])
      <4>1. user[r] \in Snapshot
        BY <1>1, <3>4 DEF TypeInv, HasAccount
      <4>2. PICK claims \in Claims :
              [id |-> user[r].id, account |-> [Account(user[r].row) EXCEPT !.claims = claims]]
                \in accounts[r]
        BY <3>4 DEF PromiseInv
      <4>3. WithClaims(user[r]).row.username = user[r].row.username
        BY <4>1 DEF WithClaims, Snapshot, UserRow
      <4> QED
        BY <1>1, <2>3, <3>1, <3>2, <3>4, <4>1, <4>2, <4>3, ClaimsSeen DEF PromiseInv
    <3>5. ASSUME NEW id \in UserIds, InsertUser(id, ProviderUser(message[r].address)),
                 user'[r] = [id |-> id, row |-> ProviderUser(message[r].address)]
          PROVE  /\ user'[r].row.username = message'[r].address
                 /\ [id |-> user'[r].id, account |-> Account(user'[r].row)] \in accounts'[r]
      <4> DEFINE u == ProviderUser(message[r].address)
      <4>1. u \in UserRow /\ u.username = message[r].address
        BY <3>2, ProviderUserType DEF ProviderUser
      <4>2. user'[r].row = u /\ user'[r].id = id
        BY <3>5
      <4>3. InsertUser(id, u)
        BY <3>5
      <4> HIDE DEF u
      <4>4. [id |-> id, account |-> Account(u)] \in LookUpIn(account', message[r].address)
        BY <1>1, <4>1, <4>3, InsertSeen
      <4> QED
        BY <2>3, <3>1, <3>2, <4>1, <4>2, <4>4
    <3> QED
      BY <1>1, <2>8, <3>1, <3>3, <3>4, <3>5, StepRequest
  <2> QED
    BY <2>2, <2>3, <2>4, <2>5, <2>6, <2>7, <2>8 DEF PromiseInv, Account
<1> QED
  BY <1>2, <1>3
-----------------------------------------------------------------------------
(* The steps of a login as steps of the contract.                          *)
(* A step in which no request is opened, granted or refused.               *)
LEMMA WorldSimulates ==
  ASSUME TypeInv, TypeInv', [EthereumNext]_vars, Watch, message' = message,
         \A r \in Requests : \/ pc'[r] = pc[r]
                             \/ /\ pc[r] \in Waiting
                                /\ pc'[r] \in Waiting \cup {"error", "dropped"},
         \A r \in Requests : pc'[r] = "granted" => user'[r] = user[r]
  PROVE  Contract!World
<1> DEFINE failing == {r \in Requests : pc[r] \in Waiting /\ pc'[r] \in {"error", "dropped"}}
<1>1. account' \in [UserIds -> Accounts \cup {NoUser}]
  BY AccountTypes DEF AccountStates
<1>2. failing \subseteq Contract!Open
  BY DEF Contract!Open
<1>3. {"error", "dropped"} \cap Waiting = {}
  BY DEF Waiting
<1>4. \A r \in Requests :
        (IF pc'[r] \in Waiting THEN "open"
         ELSE IF pc'[r] \in {"error", "dropped"} THEN "failed" ELSE pc'[r])
        = IF r \in failing THEN "failed"
          ELSE IF pc[r] \in Waiting THEN "open"
          ELSE IF pc[r] \in {"error", "dropped"} THEN "failed" ELSE pc[r]
  BY <1>3
<1>5. nonce' \in [RequestIds -> {"unissued", "live", "dead"}]
  BY DEF nonce
<1>6. \A q \in RequestIds : nonce'[q] \in {nonce[q], "dead"} \/ nonce[q] = "unissued"
  BY NoncesAge
<1>7. Contract!Look
  BY DEF Watch
<1>8. [r \in Requests |-> IF pc'[r] = "granted" THEN sign(user'[r].row) ELSE NoUser]
      = [r \in Requests |-> IF pc[r] = "granted" THEN sign(user[r].row) ELSE NoUser]
  BY DEF Waiting, sign
<1> HIDE DEF failing
<1> QED
  BY <1>1, <1>2, <1>4, <1>5, <1>6, <1>7, <1>8 DEF Contract!World, sign

LEMMA AccountsKept ==
  ASSUME \A id \in UserIds : \/ row'[id] = row[id]
                             \/ /\ row[id] # NoUser /\ row'[id] # NoUser
                                /\ Account(row'[id]) = Account(row[id])
  PROVE  account' = account
  BY DEF account, Account

(* An answer ends one session and leaves the others as they are.           *)
LEMMA AnswerEnds ==
  ASSUME TypeInv, TypeInv', Watch, message' = message, account' = account,
         NEW r \in Requests, NEW answer \in {"granted", "refused"},
         pc[r] \in Waiting, pc' = [pc EXCEPT ![r] = answer]
  PROVE  Contract!End(r, answer)
<1>1. /\ "granted" \notin Waiting /\ "refused" \notin Waiting
      /\ "error" \notin Waiting /\ "dropped" \notin Waiting
  BY DEF Waiting
<1>2. r \in Contract!Open
  BY DEF Contract!Open
<1>3. \A q \in Requests :
        (IF pc'[q] \in Waiting THEN "open"
         ELSE IF pc'[q] \in {"error", "dropped"} THEN "failed" ELSE pc'[q])
        = IF q = r THEN answer
          ELSE IF pc[q] \in Waiting THEN "open"
          ELSE IF pc[q] \in {"error", "dropped"} THEN "failed" ELSE pc[q]
  BY <1>1 DEF TypeInv, EthereumTypeOK
<1>4. Contract!Look
  BY DEF Watch
<1> QED
  BY <1>2, <1>3, <1>4 DEF Contract!End

LEMMA SubmitSimulates ==
  ASSUME TypeInv, TypeInv', Watch, NEW r \in Requests, NEW m \in Message, Submit(r, m)
  PROVE  Contract!Begin(r)
<1>1. /\ pc[r] = "idle" /\ pc' = [pc EXCEPT ![r] = "nonce"]
      /\ message' = [message EXCEPT ![r] = m]
      /\ UNCHANGED <<row, now, issued, cache, user>>
  BY DEF Submit, Goto, storeVars
<1>2. account' = account
  BY <1>1, AccountsKept
<1>3. nonce' = nonce
  BY <1>1 DEF nonce, Cached
<1>4. "idle" \notin Waiting /\ "nonce" \in Waiting
  BY DEF Waiting
<1>5. \A q \in Requests :
        (IF pc'[q] \in Waiting THEN "open"
         ELSE IF pc'[q] \in {"error", "dropped"} THEN "failed" ELSE pc'[q])
        = IF q = r THEN "open"
          ELSE IF pc[q] \in Waiting THEN "open"
          ELSE IF pc[q] \in {"error", "dropped"} THEN "failed" ELSE pc[q]
  BY <1>1, <1>4 DEF TypeInv, EthereumTypeOK
<1>6. [q \in Requests |->
         IF pc[q] \in Waiting THEN "open"
         ELSE IF pc[q] \in {"error", "dropped"} THEN "failed" ELSE pc[q]][r] = "idle"
  BY <1>1, <1>4
<1>7. [q \in Requests |-> IF pc'[q] = "granted" THEN sign(user'[q].row) ELSE NoUser]
      = [q \in Requests |-> IF pc[q] = "granted" THEN sign(user[q].row) ELSE NoUser]
  BY <1>1 DEF sign, TypeInv, EthereumTypeOK
<1>8. m.genuine => nonce[m.requestId] # "unissued"
  BY DEF Submit, Message, nonce
<1>9. Contract!Look
  BY DEF Watch
<1>10. \E asking \in [requestId : RequestIds, address : Addresses, genuine : BOOLEAN] :
         /\ asking.genuine => nonce[asking.requestId] # "unissued"
         /\ message' = [message EXCEPT ![r] = asking]
  BY <1>1, <1>8 DEF Message
<1> QED
  <2> DEFINE at(p) == IF p \in Waiting THEN "open"
                      ELSE IF p \in {"error", "dropped"} THEN "failed" ELSE p
  <2>1. [q \in Requests |-> at(pc'[q])] = [[q \in Requests |-> at(pc[q])] EXCEPT ![r] = "open"]
    BY <1>5
  <2>2. [q \in Requests |-> at(pc[q])][r] = "idle"
    BY <1>6
  <2>3. UNCHANGED <<nonce, account>>
    BY <1>2, <1>3
  <2>4. UNCHANGED [q \in Requests |-> IF pc[q] = "granted" THEN sign(user[q].row) ELSE NoUser]
    BY <1>7 DEF sign
  <2> QED
    BY <1>9, <1>10, <2>1, <2>2, <2>3, <2>4 DEF Contract!Begin

(* A refusal is for what the request has seen.                             *)
LEMMA RefusalSimulates ==
  ASSUME TypeInv, TypeInv', Watch, NEW r \in Requests, pc[r] \in Waiting,
         pc' = [pc EXCEPT ![r] = "refused"],
         UNCHANGED <<row, now, issued, cache, message, user>>,
         \/ \E n \in nonces[r] : n # "live"
         \/ ~message[r].genuine
         \/ NoUser \in accounts[r] /\ message[r].address \notin Established
         \/ NoUser \in accounts[r] /\ accounts[r] # {NoUser}
  PROVE  Contract!Refuse(r)
<1>1. account' = account
  BY AccountsKept
<1>2. nonce' = nonce
  BY DEF nonce, Cached
<1>3. Contract!End(r, "refused")
  BY <1>1, AnswerEnds
<1>4. [q \in Requests |-> IF pc'[q] = "granted" THEN sign(user'[q].row) ELSE NoUser]
      = [q \in Requests |-> IF pc[q] = "granted" THEN sign(user[q].row) ELSE NoUser]
  BY DEF sign, TypeInv, EthereumTypeOK, Waiting
<1> QED
  BY <1>2, <1>3, <1>4 DEF Contract!Refuse, sign

LEMMA TurnedDownSimulates ==
  ASSUME TypeInv, TypeInv', PromiseInv, Watch, NEW r \in Requests,
         GetNonce(r) \/ verifyMessage(r) \/ getTransactionCount(r) \/ CreateConflicts(r),
         Goto(r, "refused")
  PROVE  Contract!Refuse(r)
<1>1. /\ pc[r] \in {"nonce", "verify", "count", "create"}
      /\ pc' = [pc EXCEPT ![r] = "refused"]
      /\ UNCHANGED <<row, now, issued, cache, message, user>>
  BY DEF GetNonce, verifyMessage, getTransactionCount, CreateConflicts, Goto, storeVars
<1>2. pc[r] \in Waiting /\ pc'[r] = "refused"
  BY <1>1 DEF Waiting, TypeInv, EthereumTypeOK
<1>3. /\ message[r].requestId \in RequestIds /\ message[r].address \in Addresses
      /\ nonce[message[r].requestId] \in nonces[r]
      /\ LookUpIn(account, message[r].address) \subseteq accounts[r]
  BY <1>2 DEF TypeInv, Message, PromiseInv, UpToDate, Waiting
<1>4. CASE GetNonce(r)
  <2>1. ~Cached(message[r].requestId)
    BY <1>1, <1>2, <1>4 DEF GetNonce, Goto, TypeInv, EthereumTypeOK
  <2>2. nonce[message[r].requestId] # "live"
    BY <1>3, <2>1 DEF nonce
  <2> QED
    BY <1>1, <1>2, <1>3, <2>2, RefusalSimulates
<1>5. CASE verifyMessage(r)
  <2>1. ~message[r].genuine
    BY <1>1, <1>2, <1>5 DEF verifyMessage, Goto, TypeInv, EthereumTypeOK
  <2> QED
    BY <1>1, <1>2, <2>1, RefusalSimulates
<1>6. CASE getTransactionCount(r)
  <2>1. message[r].address \notin Established /\ pc[r] = "count"
    BY <1>1, <1>2, <1>6 DEF getTransactionCount, Goto, TypeInv, EthereumTypeOK
  <2>2. NoUser \in accounts[r]
    BY <2>1 DEF PromiseInv
  <2> QED
    BY <1>1, <1>2, <2>1, <2>2, RefusalSimulates
<1>7. CASE CreateConflicts(r)
  <2>1. pc[r] = "create" /\ findByUsername(message[r].address) # {}
    BY <1>7 DEF CreateConflicts
  <2>2. NoUser \in accounts[r]
    BY <2>1 DEF PromiseInv
  <2>3. PICK id \in findByUsername(message[r].address) : TRUE
    BY <2>1
  <2>4. /\ [id |-> Found(id).id, account |-> Account(row[id])] \in accounts[r]
        /\ row[id] \in UserRow /\ Found(id).id \in UserIds
    BY <1>2, <2>3, RowSeen DEF PromiseInv
  <2>5. [id |-> Found(id).id, account |-> Account(row[id])] # NoUser
    BY <2>4, AccountIn, HistoryAssumption
  <2>6. accounts[r] # {NoUser}
    BY <2>4, <2>5
  <2> QED
    BY <1>1, <1>2, <2>2, <2>6, RefusalSimulates
<1> QED
  BY <1>4, <1>5, <1>6, <1>7

(* The end of a call leaves the accounts as they are, and of the nonces it *)
(* may kill the one it was for.                                            *)
LEMMA CallKeepsAccounts ==
  ASSUME TypeInv, NEW job \in jobs, Settle(job)
  PROVE  account' = account
<1>1. CASE DelNonce(job) \/ TokenFails(job)
  <2>1. row' = row
    BY <1>1 DEF DelNonce, TokenFails, storeVars
  <2> QED
    BY <2>1, AccountsKept
<1>2. CASE CreateToken(job)
  <2> DEFINE id == user[job.by].id
  <2>1. row' = [row EXCEPT ![id].accessFailedCount = 0] /\ id \in ids
    BY <1>2 DEF CreateToken, createToken
  <2> HIDE DEF id
  <2>2. id \in UserIds /\ row[id] \in UserRow /\ row \in [UserIds -> UserRow \cup {NoUser}]
    BY <2>1 DEF ids, TypeInv, EthereumTypeOK, StoreTypeOK
  <2>3. row'[id] = [row[id] EXCEPT !.accessFailedCount = 0]
    BY <2>1, <2>2
  <2>4. row'[id] \in UserRow /\ Account(row'[id]) = Account(row[id])
    BY <2>2, <2>3 DEF UserRow, Account
  <2>5. row[id] # NoUser /\ row'[id] # NoUser
    BY <2>2, <2>4, StoreAssumption
  <2>6. \A i \in UserIds : i # id => row'[i] = row[i]
    BY <2>1, <2>2
  <2> QED
    BY <2>4, <2>5, <2>6, AccountsKept
<1> QED
  BY <1>1, <1>2 DEF Settle

LEMMA CallKillsNonce ==
  ASSUME TypeInv, IssuedInv, NEW job \in jobs, Settle(job), NEW r \in Requests, r = job.by,
         pc[r] = "settle"
  PROVE  nonce' \in {nonce, [nonce EXCEPT ![message[r].requestId] = "dead"]}
<1> DEFINE q == message[r].requestId
<1>1. q \in issued /\ q \in RequestIds
  BY DEF IssuedInv, Verified, TypeInv, Message
<1>2. now' = now /\ issued' = issued
  BY DEF Settle, DelNonce, CreateToken, TokenFails
<1>3. cache' = cache \/ cache' = [cache EXCEPT ![q] = 0]
  <2>1. CASE DelNonce(job)
    BY <2>1, Zenon DEF DelNonce
  <2>2. CASE CreateToken(job) \/ TokenFails(job)
    BY <2>2 DEF CreateToken, TokenFails
  <2> QED
    BY <2>1, <2>2 DEF Settle
<1> HIDE DEF q
<1>4. CASE cache' = cache
  BY <1>2, <1>4 DEF nonce, Cached
<1>5. CASE cache' = [cache EXCEPT ![q] = 0]
  <2>1. now \in Nat /\ cache \in [RequestIds -> Nat]
    BY DEF TypeInv, EthereumTypeOK
  <2>2. \A i \in RequestIds : cache'[i] = IF i = q THEN 0 ELSE cache[i]
    BY <1>5, <2>1
  <2>3. ~(now < 0)
    BY <2>1
  <2>4. nonce' = [i \in RequestIds |-> IF i = q THEN "dead" ELSE nonce[i]]
    BY <1>1, <1>2, <2>2, <2>3 DEF nonce, Cached
  <2>5. nonce' = [nonce EXCEPT ![q] = "dead"]
    BY <2>4 DEF nonce
  <2> QED
    BY <2>5 DEF q
<1> QED
  BY <1>3, <1>4, <1>5

LEMMA GrantSimulates ==
  ASSUME RetiredInv, RetiredInv', PromiseInv, Watch, NEW job \in jobs, Settle(job),
         NEW r \in Requests, r = job.by, pc[r] = "settle",
         pc' = [pc EXCEPT ![r] = "granted"]
  PROVE  Contract!Grant(r)
<1>1. TypeInv /\ TypeInv' /\ IssuedInv /\ IssuedInv'
  BY DEF RetiredInv
<1>2. message' = message /\ user' = user
  BY DEF Settle, DelNonce, CreateToken, TokenFails
<1>3. account' = account
  BY <1>1, CallKeepsAccounts
<1>4. pc[r] \in Waiting /\ pc'[r] = "granted"
  BY <1>1 DEF Waiting, TypeInv, EthereumTypeOK
<1>5. Contract!End(r, "granted")
  BY <1>1, <1>2, <1>3, <1>4, AnswerEnds
<1>6. message[r].genuine /\ "live" \in nonces[r]
  BY <1>1 DEF IssuedInv, Verified, PromiseInv, CheckedNonce
<1>7. nonce' \in {nonce, [nonce EXCEPT ![message[r].requestId] = "dead"]}
  BY <1>1, CallKillsNonce
<1>8. ~SilentCache => nonce'[message[r].requestId] = "dead"
  <2>1. message'[r].requestId \in issued' /\ message'[r].requestId \in RequestIds
    BY <1>1, <1>4 DEF IssuedInv, Verified, TypeInv, Message
  <2>2. ~SilentCache => cache'[message'[r].requestId] = 0
    BY <1>4 DEF RetiredInv, Done
  <2>3. now' \in Nat
    BY <1>1 DEF TypeInv, EthereumTypeOK
  <2> QED
    BY <1>2, <2>1, <2>2, <2>3 DEF nonce, Cached
<1> DEFINE v == [id |-> user[r].id, account |-> Account(user[r].row)]
<1>9. /\ v \in accounts[r] \ {NoUser} /\ v.account.username = message[r].address
      /\ sign(user[r].row) = [sub |-> v.account.username, claims |-> v.account.claims]
  <2>1. user[r].id \in UserIds /\ user[r].row \in UserRow
    BY <1>1 DEF TypeInv, HasAccount, Snapshot
  <2>2. v \in [id : UserIds, account : Accounts]
    BY <2>1, AccountIn
  <2> QED
    BY <2>1, <2>2, HistoryAssumption, AccountIn DEF PromiseInv, sign
<1> HIDE DEF v
<1>10. [q \in Requests |-> IF pc'[q] = "granted" THEN sign(user'[q].row) ELSE NoUser]
       = [[q \in Requests |-> IF pc[q] = "granted" THEN sign(user[q].row) ELSE NoUser]
          EXCEPT ![r] = sign(user[r].row)]
  BY <1>1, <1>2, <1>4 DEF sign, TypeInv, EthereumTypeOK
<1>11. [q \in Requests |-> IF pc'[q] = "granted" THEN sign(user'[q].row) ELSE NoUser]
       = [[q \in Requests |-> IF pc[q] = "granted" THEN sign(user[q].row) ELSE NoUser]
          EXCEPT ![r] = [sub |-> v.account.username, claims |-> v.account.claims]]
  BY <1>9, <1>10
<1> QED
  BY <1>5, <1>6, <1>7, <1>8, <1>9, <1>11 DEF Contract!Grant, sign

(* Every step of a login is one of the contract's, or none.                *)
LEMMA StepContract ==
  ASSUME RetiredInv, RetiredInv', PromiseInv, HNext
  PROVE  Contract!Next
<1>1. EthereumNext /\ Watch /\ [EthereumNext]_vars /\ TypeInv /\ TypeInv'
  BY DEF HNext, RetiredInv
<1>2. ASSUME message' = message,
             \A r \in Requests : \/ pc'[r] = pc[r]
                                 \/ /\ pc[r] \in Waiting
                                    /\ pc'[r] \in Waiting \cup {"error", "dropped"},
             \A r \in Requests : pc'[r] = "granted" => user'[r] = user[r]
      PROVE  Contract!Next
  BY <1>1, <1>2, WorldSimulates DEF Contract!Next
<1> USE DEF TypeInv, EthereumTypeOK
<1>3. ASSUME NEW r \in Requests, NEW m \in Message, Submit(r, m) PROVE Contract!Next
  BY <1>1, <1>3, SubmitSimulates DEF Contract!Next
<1>4. ASSUME NEW r \in Requests,
             GetNonce(r) \/ verifyMessage(r) \/ getTransactionCount(r) \/ CreateConflicts(r)
      PROVE  Contract!Next
  <2>1. CASE Goto(r, "refused")
    BY <1>1, <1>4, <2>1, TurnedDownSimulates DEF Contract!Next
  <2>2. CASE Goto(r, "verify") \/ Goto(r, "find") \/ Goto(r, "create")
    BY <1>1, <1>2, <1>4, <2>2
       DEF GetNonce, verifyMessage, getTransactionCount, CreateConflicts, Goto, Waiting
  <2> QED
    BY <1>4, <2>1, <2>2 DEF GetNonce, verifyMessage, getTransactionCount, CreateConflicts
<1>5. ASSUME NEW r \in Requests, FindUser(r) \/ FindClaims(r) \/ createByProvider(r)
      PROVE  Contract!Next
  <2>1. /\ message' = message /\ pc[r] \in {"find", "claims", "create"}
        /\ Goto(r, "count") \/ Goto(r, "claims") \/ Goto(r, "sign") \/ Goto(r, "error")
        /\ \A q \in Requests : q # r => user'[q] = user[q]
    BY <1>1, <1>5 DEF FindUser, FindClaims, createByProvider
  <2> QED
    BY <1>1, <1>2, <2>1 DEF Goto, Waiting
<1>6. ASSUME NEW r \in Requests, Sign(r) \/ QueryFails(r) PROVE Contract!Next
  BY <1>1, <1>2, <1>6 DEF Sign, QueryFails, Goto, Waiting
<1>7. ASSUME NEW job \in jobs, Settle(job) PROVE Contract!Next
  <2>1. message' = message /\ user' = user /\ job.by \in Requests
    BY <1>1, <1>7 DEF Settle, DelNonce, CreateToken, TokenFails, Job
  <2>2. PICK ok \in BOOLEAN : Settled(job, ok)
    BY <1>7, Zenon DEF Settle, DelNonce, CreateToken, TokenFails
  <2>3. CASE pc' = pc
    BY <1>2, <2>1, <2>3
  <2>4. CASE pc[job.by] = "settle" /\ pc' = [pc EXCEPT ![job.by] = "granted"]
    BY <1>1, <1>7, <2>1, <2>4, GrantSimulates DEF Contract!Next
  <2>5. CASE /\ pc[job.by] = "settle"
             /\ pc' = [pc EXCEPT ![job.by] = "error"] \/ pc' = [pc EXCEPT ![job.by] = "settle"]
    BY <1>1, <1>2, <2>1, <2>5 DEF Waiting
  <2> QED
    BY <2>2, <2>3, <2>4, <2>5 DEF Settled
<1>8. CASE Restart
  BY <1>1, <1>2, <1>8 DEF Restart, Waiting
<1>9. CASE (\E q \in RequestIds : init(q)) \/ Tick \/ Admin
  BY <1>2, <1>9 DEF init, Tick, Admin
<1> QED
  BY <1>1, <1>3, <1>4, <1>5, <1>6, <1>7, <1>8, <1>9 DEF EthereumNext, Serve

LEMMA StutterContract ==
  ASSUME UNCHANGED hvars
  PROVE  UNCHANGED Contract!vars
<1>1. account' = account
  BY AccountsKept DEF hvars
<1>2. nonce' = nonce
  BY DEF hvars, nonce, Cached
<1> QED
  BY <1>1, <1>2 DEF hvars, Contract!vars, sign

LEMMA InitContract ==
  ASSUME HInit
  PROVE  Contract!Init
<1>1. account \in [UserIds -> Accounts \cup {NoUser}]
  BY DEF HInit, EthereumInit, ApiInit, StoreInit, account
<1>2. nonce = [q \in RequestIds |-> "unissued"]
  BY DEF HInit, EthereumInit, nonce
<1> QED
  BY <1>1, <1>2 DEF HInit, EthereumInit, Contract!Init, Waiting

(* login keeps EthereumContract, whatever runs beside it: it is granted the*)
(* token of one view of the account for a nonce that was alive, which is   *)
(* then dead if the cache tells the truth, or refused for what it saw,     *)
(* although it reads the account and its claims apart, and looks at nonce, *)
(* account and insert before awaits it relies on them after.               *)
THEOREM LoginKeepsPromise == HSpec => EthereumPromise
<1>1. RetiredInv /\ RetiredInv' /\ PromiseInv /\ [HNext]_hvars
        => [Contract!Next]_(Contract!vars)
  BY StepContract, StutterContract
<1>2. HInit => RetiredInv
  BY InitRetired DEF HInit
<1>3. RetiredInv /\ [HNext]_hvars => RetiredInv'
  BY StepRetired DEF HNext, hvars, vars
<1> QED
  BY <1>1, <1>2, <1>3, InitContract, InitPromise, StepPromise, PTL
     DEF HSpec, EthereumPromise, Contract!Spec
=============================================================================
