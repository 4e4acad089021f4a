-------------------------- MODULE PasswordLoginHistory --------------------------
(***************************************************************************)
(* PasswordLogin with the history its properties speak of.  The history    *)
(* only watches: every step is a step of PasswordLogin, and what it records*)
(* is a function of that step.                                             *)
(***************************************************************************)
EXTENDS PasswordLogin, FiniteSets

VARIABLES
  attempts,  \* attempts[id]: failed attempts on the account, ever
  streak,    \* streak[id]: failed attempts since something reset the count
  seen,      \* seen[r]: views of the requested account while r is served
  serial     \* every request so far came after the writes of the others

histVars == <<attempts, streak, seen, serial>>
hvars == <<row, gone, tokens, now, pc, dto, user, pending, up,
           attempts, streak, seen, serial>>

(* What the lookup and the claims of an account look like to a login.      *)
Account(u) ==
  [username |-> u.username, password |-> u.password,
   isLocked |-> u.isLocked, isLockedUntil |-> u.isLockedUntil, claims |-> u.claims]

Accounts == [username : Usernames, password : Passwords \cup {NoPassword},
             isLocked : BOOLEAN, isLockedUntil : Nat, claims : Claims]

account == [id \in UserIds |-> IF row[id] = NoUser THEN NoUser ELSE Account(row[id])]

ASSUME HistoryAssumption ==
  NoUser \notin Accounts \cup [id : UserIds, account : Accounts]

Contract == INSTANCE LoginContract WITH
  Sessions  <- Requests,
  Ids       <- UserIds,
  Nobody    <- NoUser,
  clock     <- now,
  session   <- [r \in Requests |->
                 IF pc[r] \in Waiting THEN "open"
                 ELSE IF pc[r] \in {"error", "dropped"} THEN "failed" ELSE pc[r]],
  asked     <- dto,
  token     <- [r \in Requests |-> IF pc[r] = "granted" THEN sign(user[r].row) ELSE NoUser]
-----------------------------------------------------------------------------
HInit ==
  /\ Init
  /\ attempts = [id \in UserIds |-> 0]
  /\ streak = [id \in UserIds |-> 0]
  /\ seen = [r \in Requests |-> {}]
  /\ serial = TRUE
-----------------------------------------------------------------------------
(* Requests that fail an attempt on account id in this step. *)
FailNow(id) ==
  {r \in Requests : pc[r] \in {"check", "compare"} /\ pc'[r] = "refused" /\ user[r].id = id}

Locked(u) == u # NoUser /\ u.isLocked

(* What takes the count back: the end of a lock, the end of the account, a *)
(* token, a count that never reached the row.                              *)
ResetNow(id) ==
  \/ Locked(row[id]) /\ ~Locked(row'[id])
  \/ row'[id] = NoUser
  \/ \E r \in Requests : pc[r] = "record" /\ pc'[r] # "record" /\ user[r].id = id
  \/ \E w \in pending \ pending' :
       w.id = id /\ row'[id] = row[id] /\ ApplyCount(row[id], w) # row[id]

Quiet == pending = {} /\ \A r \in Requests : pc[r] \notin Waiting

Watch ==
  /\ attempts' = [id \in UserIds |-> attempts[id] + Cardinality(FailNow(id))]
  /\ streak' = [id \in UserIds |->
       IF ResetNow(id) THEN 0 ELSE streak[id] + Cardinality(FailNow(id))]
  /\ Contract!Look
  /\ serial' = (serial /\ ((\E r \in Requests : pc[r] = "idle" /\ pc'[r] # "idle") => Quiet))

HNext == Next /\ Watch

HSpec == HInit /\ [][HNext]_hvars

HFairSpec == HSpec /\ Fairness
-----------------------------------------------------------------------------
(* Whatever runs beside it, a login is granted exactly the token that the  *)
(* account, as its row was at one moment while the request was served and  *)
(* its claims at that moment or later, entitles to, and is refused only    *)
(* because of such a row: deciding on a snapshot across the awaits of      *)
(* login must not mix two rows, nor sign claims older than the row.        *)
LoginPromise == Contract!Spec

(* The lockout never hits an account early: a lock that has an end was     *)
(* earned by more than FailedCountMax failed attempts on that very account *)
(* (setAccessFailedCount, from stale snapshots and late writes).           *)
LockoutEarned ==
  \A id \in ids : row[id].isLockedUntil # 0 => attempts[id] > FailedCountMax

(* FailedCountMax: of requests that come one at a time, once more than that*)
(* have failed with nothing in between that takes the count back, and no   *)
(* write is under way, the account is locked.                              *)
LockoutEngages ==
  serial /\ pending = {} => \A id \in ids : streak[id] > FailedCountMax => row[id].isLocked
=============================================================================
