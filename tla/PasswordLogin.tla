----------------------------- MODULE PasswordLogin -----------------------------
(***************************************************************************)
(* PasswordLoginService.login                                              *)
(* (src/services/login-providers/password-login.service.ts) as the requests*)
(* of one server process run it: every `await` ends a step, so requests    *)
(* interleave there with each other and with the administrators' requests. *)
(* What a request read, first the row and then its claims, is its snapshot;*)
(* the later steps decide on it and write to the row as it is by then.     *)
(*                                                                         *)
(* handleFailedAttempt does not await the statement it builds.  The        *)
(* generated Prisma client returns a lazy promise, sent to the database    *)
(* only when somebody awaits it, so with that client the statement is      *)
(* dropped (EagerQueries = FALSE).  With a client that sends on call       *)
(* (EagerQueries = TRUE) it is under way while the request is answered,    *)
(* and its rejection is nobody's: Node ends the process.                   *)
(***************************************************************************)
EXTENDS UsersApi

CONSTANTS
  Requests,      \* each is one login request, used once
  EagerQueries,  \* the database client sends a statement nobody awaits
  MaxTime        \* bound on the clock

ASSUME LoginAssumption ==
  /\ EagerQueries \in BOOLEAN
  /\ MaxTime \in Nat

VARIABLES
  now,      \* Date.now(), also the database's now()
  pc,       \* pc[r]: the await request r is at, or how it was answered
  dto,      \* dto[r]: the credentials in the body of r
  user,     \* user[r]: id and row as r read them, or NoUser
  pending,  \* statements under way that nobody awaits
  up        \* the server process runs

requestVars == <<pc, dto, user>>
loginVars == <<now, pc, dto, user, pending, up>>
vars == <<row, gone, tokens, now, pc, dto, user, pending, up>>

Credentials == [username : Usernames, password : Passwords]
Snapshot == [id : UserIds, row : UserRow]
Write == [by : Requests, id : UserIds, count : Nat, until : Nat]

Waiting == {"find", "claims", "check", "unlock", "compare", "record"}
Answered == {"granted", "refused", "error", "dropped"}

LoginTypeOK ==
  /\ now \in Nat
  /\ pc \in [Requests -> {"idle"} \cup Waiting \cup Answered]
  /\ dto \in [Requests -> Credentials \cup {NoUser}]
  /\ user \in [Requests -> Snapshot \cup {NoUser}]
  /\ pending \subseteq Write
  /\ up \in BOOLEAN

LoginInit ==
  /\ now = 0
  /\ pc = [r \in Requests |-> "idle"]
  /\ dto = [r \in Requests |-> NoUser]
  /\ user = [r \in Requests |-> NoUser]
  /\ pending = {}
  /\ up = TRUE

Init == ApiInit /\ LoginInit
-----------------------------------------------------------------------------
(* How the steps of a request end.                                         *)

Goto(r, label) == pc' = [pc EXCEPT ![r] = label]

(* The request is over without a token; its snapshot is garbage. *)
Answer(r, reply) ==
  /\ Goto(r, reply)
  /\ user' = [user EXCEPT ![r] = NoUser]

(* The statement is built from the snapshot, and a lock's end from now.    *)
handleFailedAttempt(r) ==
  /\ pending' = IF EagerQueries
       THEN LET write == setAccessFailedCount(user[r].row.accessFailedCount + 1, now)
            IN  pending \cup {[by |-> r, id |-> user[r].id,
                               count |-> write.count, until |-> write.until]}
       ELSE pending
  /\ Answer(r, "refused")

(* Object.fromEntries(user.claims) signed for user.username. *)
sign(u) == [sub |-> u.username, claims |-> u.claims]
-----------------------------------------------------------------------------
(* The steps of login.                                                     *)

Submit(r, username, password) ==
  /\ up
  /\ pc[r] = "idle"
  /\ Goto(r, "find")
  /\ dto' = [dto EXCEPT ![r] = [username |-> username, password |-> password]]
  /\ UNCHANGED <<storeVars, now, user, pending, up>>

FindUser(r) ==
  /\ pc[r] = "find"
  /\ LET found == findByUsername(dto[r].username)
     IN  \/ /\ found = {}
            /\ Answer(r, "refused")
         \/ \E id \in found :
              /\ Goto(r, "claims")
              /\ user' = [user EXCEPT ![r] =
                   [id |-> id, row |-> [row[id] EXCEPT !.claims = NoClaims]]]
  /\ UNCHANGED <<storeVars, now, dto, pending, up>>

(* include: { claims: true }: a SELECT of its own, on the id just read.    *)
FindClaims(r) ==
  /\ pc[r] = "claims"
  /\ Goto(r, "check")
  /\ user' = [user EXCEPT ![r].row.claims = claimsOf(user[r].id)]
  /\ UNCHANGED <<storeVars, now, dto, pending, up>>

LockExpired(u) == u.isLockedUntil # 0 /\ now > u.isLockedUntil

(* `await` continues in a microtask of its own, so the checks are a step   *)
(* apart from the read.                                                    *)
CheckAccount_ForgetsNull(r) ==
  /\ pc[r] = "check"
  /\ LET u == user[r].row
     IN  \/ /\ u.password = NoPassword \/ (u.isLocked /\ ~(now > u.isLockedUntil))
            /\ handleFailedAttempt(r)
         \/ /\ u.password # NoPassword
            /\ u.isLocked /\ now > u.isLockedUntil
            /\ Goto(r, "unlock")
            /\ UNCHANGED <<user, pending>>
         \/ /\ u.password # NoPassword
            /\ ~u.isLocked
            /\ Goto(r, "compare")
            /\ UNCHANGED <<user, pending>>
  /\ UNCHANGED <<storeVars, now, dto, up>>

CheckAccount_IgnoresEnd(r) ==
  /\ pc[r] = "check"
  /\ LET u == user[r].row
     IN  \/ /\ u.password = NoPassword \/ u.isLocked
            /\ handleFailedAttempt(r)
         \/ /\ u.password # NoPassword
            /\ ~u.isLocked
            /\ Goto(r, "compare")
            /\ UNCHANGED <<user, pending>>
  /\ UNCHANGED <<storeVars, now, dto, up>>

CheckAccount(r) ==
  /\ pc[r] = "check"
  /\ LET u == user[r].row
     IN  \/ /\ u.password = NoPassword \/ (u.isLocked /\ ~LockExpired(u))
            /\ handleFailedAttempt(r)
         \/ /\ u.password # NoPassword
            /\ u.isLocked /\ LockExpired(u)
            /\ Goto(r, "unlock")
            /\ UNCHANGED <<user, pending>>
         \/ /\ u.password # NoPassword
            /\ ~u.isLocked
            /\ Goto(r, "compare")
            /\ UNCHANGED <<user, pending>>
  /\ UNCHANGED <<storeVars, now, dto, up>>

(* The unlock reaches the database; the row may have changed, or gone,     *)
(* since the read.  The answer comes back, or the connection fails.        *)
UnlockUser(r) ==
  /\ pc[r] = "unlock"
  /\ UpdateUser(user[r].id, unlockUser(row[user[r].id]))
  /\ \/ Goto(r, "compare") /\ UNCHANGED user
     \/ Answer(r, "error")
  /\ UNCHANGED <<now, dto, pending, up>>

ComparePassword_NeverAnswers(r) ==
  /\ pc[r] = "compare"
  /\ dto[r].password = user[r].row.password
  /\ Goto(r, "record")
  /\ UNCHANGED <<storeVars, now, dto, user, pending, up>>

ComparePassword_ReadsAgain(r) ==
  /\ pc[r] = "compare"
  /\ LET id == user[r].id
         matches == id \in ids /\ dto[r].password = row[id].password
     IN  \/ ~matches /\ handleFailedAttempt(r)
         \/ /\ matches
            /\ Goto(r, "record")
            /\ UNCHANGED <<user, pending>>
  /\ UNCHANGED <<storeVars, now, dto, up>>

ComparePassword(r) ==
  /\ pc[r] = "compare"
  /\ \/ /\ dto[r].password # user[r].row.password
        /\ handleFailedAttempt(r)
     \/ /\ dto[r].password = user[r].row.password
        /\ Goto(r, "record")
        /\ UNCHANGED <<user, pending>>
  /\ UNCHANGED <<storeVars, now, dto, up>>

CreateToken_RepliesFirst(r) ==
  /\ pc[r] = "record"
  /\ Goto(r, "granted")
  /\ UNCHANGED <<storeVars, now, dto, user, pending, up>>

CreateToken(r) ==
  /\ pc[r] = "record"
  /\ createToken(user[r].id, "password", sign(user[r].row), now)
  /\ \/ Goto(r, "granted") /\ UNCHANGED user
     \/ Answer(r, "error")
  /\ UNCHANGED <<now, dto, pending, up>>

(* A statement of login rejects: the row is gone, the token's key is taken,*)
(* or the database cannot be reached.  Nothing catches it: 500.            *)
QueryFails(r) ==
  /\ pc[r] \in {"find", "claims", "unlock", "record"}
  /\ Answer(r, "error")
  /\ UNCHANGED <<storeVars, now, dto, pending, up>>
-----------------------------------------------------------------------------
(* The statements nobody awaits, and the process.                          *)

(* The database carries one out; only `up` decides whether anyone is there *)
(* to notice, so it also happens after the process is gone.                *)
SettleWrite(w) ==
  /\ w \in pending
  /\ w.id \in ids
  /\ UpdateUser(w.id, ApplyCount(row[w.id], w))
  /\ pending' = pending \ {w}
  /\ UNCHANGED <<now, requestVars, up>>

(* The requests of a process that ends get no answer. *)
Exit ==
  /\ up' = FALSE
  /\ pc' = [r \in Requests |-> IF pc[r] \in Waiting THEN "dropped" ELSE pc[r]]
  /\ user' = [r \in Requests |-> IF pc[r] \in Waiting THEN NoUser ELSE user[r]]
  /\ UNCHANGED <<storeVars, now, dto>>

(* One is rejected: the account is gone, or the database unreachable.  The *)
(* rejection is unhandled and ends the process, if it is still there.      *)
RejectWrite(w) ==
  /\ w \in pending
  /\ pending' = pending \ {w}
  /\ IF up THEN Exit ELSE UNCHANGED <<storeVars, now, requestVars, up>>

(* The process is killed or redeployed. *)
Kill == up /\ Exit /\ UNCHANGED pending

Restart ==
  /\ ~up
  /\ up' = TRUE
  /\ UNCHANGED <<storeVars, now, requestVars, pending>>

Tick ==
  /\ now < MaxTime
  /\ now' = now + 1
  /\ UNCHANGED <<storeVars, requestVars, pending, up>>

Admin == ApiNext /\ UNCHANGED loginVars
-----------------------------------------------------------------------------
(* The next step of request r that needs nothing from outside. *)
Serve(r) ==
  \/ FindUser(r)
  \/ FindClaims(r)
  \/ CheckAccount(r)
  \/ UnlockUser(r)
  \/ ComparePassword(r)
  \/ CreateToken(r)
  \/ QueryFails(r)

Next ==
  \/ \E r \in Requests :
       \/ \E username \in Usernames, password \in Passwords : Submit(r, username, password)
       \/ Serve(r)
  \/ \E w \in pending : SettleWrite(w) \/ RejectWrite(w)
  \/ Kill
  \/ Restart
  \/ Tick
  \/ Admin

Spec == Init /\ [][Next]_vars

(* Node runs a step whose await has come back, and every statement is      *)
(* answered, one way or the other.  Nobody has to submit, restart or kill. *)
Fairness == \A r \in Requests : WF_vars(Serve(r))
-----------------------------------------------------------------------------
(* Tables, requests, snapshots and writes under way are well typed.        *)
TypeOK == StoreTypeOK /\ LoginTypeOK

(* login hands out no token it has not recorded: as long as the account is *)
(* there, its row in user_tokens is, even when the account was changed or  *)
(* the process restarted since.                                            *)
GrantRecorded ==
  \A r \in Requests : pc[r] = "granted" =>
    \/ user[r].id \in gone
    \/ \E t \in tokens : t.userId = user[r].id /\ t.value = sign(user[r].row)

(* Only an administrator ends a lock that has no end of its own.  The      *)
(* message of a locked login says so: "Contact an administrator."          *)
AdminLockHolds ==
  [][\A id \in ids :
       /\ row[id].isLocked /\ row[id].isLockedUntil = 0
       /\ ~Admin
       => row'[id].isLocked /\ row'[id].isLockedUntil = 0]_vars

(* Every request that reaches the server is answered, or dropped by a      *)
(* process that ends.                                                      *)
EveryLoginAnswered ==
  \A r \in Requests : pc[r] = "find" ~> pc[r] \in Answered
=============================================================================
