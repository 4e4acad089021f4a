----------------------------- MODULE EthereumLogin -----------------------------
(***************************************************************************)
(* EthereumLoginService                                                    *)
(* (src/services/login-providers/ethereum-login.service.ts): init hands    *)
(* out a nonce and keeps it in the cache for a while, login trades a       *)
(* message signed over that nonce for a token.  Every `await` ends a step. *)
(* The cache is a Redis server shared by all processes; the chain is       *)
(* reached through a public provider.                                      *)
(***************************************************************************)
EXTENDS UsersApi

CONSTANTS
  RequestIds,   \* the UUIDs init can draw; no UUID is drawn twice
  Requests,     \* each is one login request, used once
  Addresses,    \* wallet addresses, which are the usernames of their accounts
  Established,  \* those with at least MinEthTransactions transactions
  NonceTtl,     \* EthereumLoginService.RequestIdTtlMs, in ticks of the clock
  SilentCache,  \* the cache client reports failed writes as done
  MaxTime       \* bound on the clock

ASSUME EthereumAssumption ==
  /\ Addresses \subseteq Usernames
  /\ Established \subseteq Addresses
  /\ NonceTtl \in Nat \ {0}
  /\ SilentCache \in BOOLEAN
  /\ MaxTime \in Nat
  /\ "loginMethod" \in ClaimKeys
  /\ "ethereum" \in ClaimValues

VARIABLES
  now,
  issued,   \* request ids whose nonce was handed out
  cache,    \* cache[q]: when the nonce under q expires, or 0
  pc,       \* pc[r]: the await request r is at, or how it was answered
  message,  \* message[r]: the signed message in the body of r
  user,     \* user[r]: id and row as r read or created them, or NoUser
  jobs      \* the two calls Promise.all has under way for a request

vars == <<row, gone, tokens, now, issued, cache, pc, message, user, jobs>>

Message == [requestId : RequestIds, address : Addresses, genuine : BOOLEAN]
Snapshot == [id : UserIds, row : UserRow]
Job == [by : Requests, op : {"del", "token"}]

Waiting == {"nonce", "verify", "find", "claims", "count", "create", "sign", "settle"}
Answered == {"granted", "refused", "error", "dropped"}

(* Tables, cache, messages, snapshots and calls are well typed.            *)
EthereumTypeOK ==
  /\ StoreTypeOK
  /\ now \in Nat
  /\ issued \subseteq RequestIds
  /\ cache \in [RequestIds -> Nat]
  /\ pc \in [Requests -> {"idle"} \cup Waiting \cup Answered]
  /\ message \in [Requests -> Message \cup {NoUser}]
  /\ user \in [Requests -> Snapshot \cup {NoUser}]
  /\ jobs \subseteq Job

EthereumInit ==
  /\ ApiInit
  /\ now = 0
  /\ issued = {}
  /\ cache = [q \in RequestIds |-> 0]
  /\ pc = [r \in Requests |-> "idle"]
  /\ message = [r \in Requests |-> NoUser]
  /\ user = [r \in Requests |-> NoUser]
  /\ jobs = {}
-----------------------------------------------------------------------------
Goto(r, label) == pc' = [pc EXCEPT ![r] = label]

(* A key written a lifetime ago is gone from the cache. *)
Cached(q) == now < cache[q]

(* The nonce is answered with whether or not the write to the cache took.  *)
init(q) ==
  /\ q \notin issued
  /\ issued' = issued \cup {q}
  /\ \/ cache' = [cache EXCEPT ![q] = now + NonceTtl]
     \/ SilentCache /\ UNCHANGED cache
  /\ UNCHANGED <<storeVars, now, pc, message, user, jobs>>

(* A genuine message carries the nonce of its request id, signed by its    *)
(* address; only who was handed the nonce can send one.                    *)
Submit(r, m) ==
  /\ pc[r] = "idle"
  /\ m.genuine => m.requestId \in issued
  /\ Goto(r, "nonce")
  /\ message' = [message EXCEPT ![r] = m]
  /\ UNCHANGED <<storeVars, now, issued, cache, user, jobs>>

GetNonce(r) ==
  /\ pc[r] = "nonce"
  /\ Goto(r, IF Cached(message[r].requestId) THEN "verify" ELSE "refused")
  /\ UNCHANGED <<storeVars, now, issued, cache, message, user, jobs>>

verifyMessage(r) ==
  /\ pc[r] = "verify"
  /\ Goto(r, IF message[r].genuine THEN "find" ELSE "refused")
  /\ UNCHANGED <<storeVars, now, issued, cache, message, user, jobs>>

FindUser(r) ==
  /\ pc[r] = "find"
  /\ LET found == findByUsername(message[r].address)
     IN  \/ /\ found = {}
            /\ Goto(r, "count")
            /\ UNCHANGED user
         \/ \E id \in found :
              /\ Goto(r, "claims")
              /\ user' = [user EXCEPT ![r] =
                   [id |-> id, row |-> [row[id] EXCEPT !.claims = NoClaims]]]
  /\ UNCHANGED <<storeVars, now, issued, cache, message, jobs>>

(* include: { claims: true }: a SELECT of its own, on the id just read.    *)
FindClaims(r) ==
  /\ pc[r] = "claims"
  /\ Goto(r, "sign")
  /\ user' = [user EXCEPT ![r].row.claims = claimsOf(user[r].id)]
  /\ UNCHANGED <<storeVars, now, issued, cache, message, jobs>>

getTransactionCount(r) ==
  /\ pc[r] = "count"
  /\ Goto(r, IF message[r].address \in Established THEN "create" ELSE "refused")
  /\ UNCHANGED <<storeVars, now, issued, cache, message, user, jobs>>

ProviderUser_NoLock(address) ==
  [username          |-> address,
   password          |-> NoPassword,
   accessFailedCount |-> 0,
   isLocked          |-> Undefined,
   isLockedUntil     |-> 0,
   claims            |-> [key \in {"loginMethod"} |-> "ethereum"]]

ProviderUser(address) ==
  [username          |-> address,
   password          |-> NoPassword,
   accessFailedCount |-> 0,
   isLocked          |-> FALSE,
   isLockedUntil     |-> 0,
   claims            |-> [key \in {"loginMethod"} |-> "ethereum"]]

(* The insert, with its answer or with the answer lost. *)
createByProvider(r) ==
  /\ pc[r] = "create"
  /\ \E id \in FreshIds :
       LET u == ProviderUser(message[r].address)
       IN  /\ InsertUser(id, u)
           /\ \/ Goto(r, "sign") /\ user' = [user EXCEPT ![r] = [id |-> id, row |-> u]]
              \/ Goto(r, "error") /\ UNCHANGED user
  /\ UNCHANGED <<now, issued, cache, message, jobs>>

CreateConflicts_GoesOn(r) ==
  /\ pc[r] = "create"
  /\ \E id \in findByUsername(message[r].address) :
       user' = [user EXCEPT ![r] = [id |-> id, row |-> ProviderUser(message[r].address)]]
  /\ Goto(r, "sign")
  /\ UNCHANGED <<storeVars, now, issued, cache, message, jobs>>

(* Somebody created the account since the read (P2002): 409. *)
CreateConflicts(r) ==
  /\ pc[r] = "create"
  /\ findByUsername(message[r].address) # {}
  /\ Goto(r, "refused")
  /\ UNCHANGED <<storeVars, now, issued, cache, message, user, jobs>>

sign(u) == [sub |-> u.username, claims |-> u.claims]

(* The token is signed and Promise.all starts both calls at once. *)
Sign_TokenOnly(r) ==
  /\ pc[r] = "sign"
  /\ Goto(r, "settle")
  /\ jobs' = jobs \cup {[by |-> r, op |-> "token"]}
  /\ UNCHANGED <<storeVars, now, issued, cache, message, user>>

Sign(r) ==
  /\ pc[r] = "sign"
  /\ Goto(r, "settle")
  /\ jobs' = jobs \cup [by : {r}, op : {"del", "token"}]
  /\ UNCHANGED <<storeVars, now, issued, cache, message, user>>

(* A call of Promise.all is done: the login is granted with the last one,  *)
(* and fails with the first that fails.  The other one goes on unheeded.   *)
Settled_AnyOf(job, ok) ==
  /\ job \in jobs
  /\ jobs' = jobs \ {job}
  /\ pc' = IF pc[job.by] # "settle" THEN pc
           ELSE [pc EXCEPT ![job.by] = IF ok THEN "granted" ELSE "error"]

Settled_NeverRejects(job, ok) ==
  /\ job \in jobs
  /\ jobs' = jobs \ {job}
  /\ pc' = IF pc[job.by] = "settle" /\ ok /\ ~\E j \in jobs' : j.by = job.by
           THEN [pc EXCEPT ![job.by] = "granted"]
           ELSE pc

Settled(job, ok) ==
  /\ job \in jobs
  /\ jobs' = jobs \ {job}
  /\ pc' = IF pc[job.by] # "settle" THEN pc
           ELSE [pc EXCEPT ![job.by] =
                   IF ~ok THEN "error"
                   ELSE IF \E j \in jobs' : j.by = job.by THEN "settle"
                   ELSE "granted"]

DelNonce(job) ==
  /\ job.op = "del"
  /\ \E done, ok \in BOOLEAN :
       /\ ok => done \/ SilentCache
       /\ cache' = IF done THEN [cache EXCEPT ![message[job.by].requestId] = 0] ELSE cache
       /\ Settled(job, ok)
  /\ UNCHANGED <<storeVars, now, issued, message, user>>

(* The login method it records is LoginMethods.PASSWORD. *)
CreateToken(job) ==
  /\ job.op = "token"
  /\ createToken(user[job.by].id, "password", sign(user[job.by].row), now)
  /\ \E ok \in BOOLEAN : Settled(job, ok)
  /\ UNCHANGED <<now, issued, cache, message, user>>

TokenFails(job) ==
  /\ job.op = "token"
  /\ Settled(job, FALSE)
  /\ UNCHANGED <<storeVars, now, issued, cache, message, user>>

(* The cache, the database or the chain cannot be reached: 500. *)
QueryFails(r) ==
  /\ pc[r] \in {"nonce", "find", "claims", "count", "create"}
  /\ Goto(r, "error")
  /\ UNCHANGED <<storeVars, now, issued, cache, message, user, jobs>>
-----------------------------------------------------------------------------
(* The process ends and another takes over.  A call already sent may still *)
(* take effect, or never.                                                  *)
Restart ==
  /\ pc' = [r \in Requests |-> IF pc[r] \in Waiting THEN "dropped" ELSE pc[r]]
  /\ jobs' \in SUBSET jobs
  /\ UNCHANGED <<storeVars, now, issued, cache, message, user>>

Tick ==
  /\ now < MaxTime
  /\ now' = now + 1
  /\ UNCHANGED <<storeVars, issued, cache, pc, message, user, jobs>>

Admin == ApiNext /\ UNCHANGED <<now, issued, cache, pc, message, user, jobs>>

Settle(job) == DelNonce(job) \/ CreateToken(job) \/ TokenFails(job)

Serve(r) ==
  \/ GetNonce(r)
  \/ verifyMessage(r)
  \/ FindUser(r)
  \/ FindClaims(r)
  \/ getTransactionCount(r)
  \/ createByProvider(r)
  \/ CreateConflicts(r)
  \/ Sign(r)
  \/ QueryFails(r)
  \/ \E job \in jobs : job.by = r /\ Settle(job)

EthereumNext ==
  \/ \E q \in RequestIds : init(q)
  \/ \E r \in Requests :
       \/ \E m \in Message : Submit(r, m)
       \/ Serve(r)
  \/ Restart
  \/ Tick
  \/ Admin

EthereumSpec == EthereumInit /\ [][EthereumNext]_vars

(* An await comes back: each store answers every call, one way or another. *)
EthereumFairSpec == EthereumSpec /\ \A r \in Requests : WF_vars(Serve(r))
-----------------------------------------------------------------------------
(* A granted login has used its nonce up: once Promise.all has answered, no*)
(* later request finds that nonce (as far as the cache tells the truth).   *)
NonceRetired ==
  ~SilentCache => \A r \in Requests :
    pc[r] = "granted" => cache[message[r].requestId] = 0

(* A granted token is on record as long as its account is, although the    *)
(* insert runs beside the delete of the nonce and may fail by itself.      *)
GrantRecorded ==
  \A r \in Requests : pc[r] = "granted" =>
    \/ user[r].id \in gone
    \/ \E t \in tokens : t.userId = user[r].id /\ t.value = sign(user[r].row)

(* user_tokens is keyed by the login method: what this provider records    *)
(* says so.                                                                *)
TokenNamesMethod == \A t \in tokens : t.loginMethod = "ethereum"

(* A locked account gets no token: "The user has been locked".             *)
LockedNotGranted ==
  \A r \in Requests : pc[r] = "granted" => ~user[r].row.isLocked

(* Every login that reaches the server is answered, or dropped with it.    *)
EveryLoginAnswered ==
  \A r \in Requests : pc[r] = "nonce" ~> pc[r] \in Answered
=============================================================================
