-------------------------- MODULE EthereumLoginHistory --------------------------
(***************************************************************************)
(* EthereumLogin with what its requests could see while they were served.  *)
(* The history only watches: every step is a step of EthereumLogin, and    *)
(* what it records is a function of that step.                             *)
(***************************************************************************)
EXTENDS EthereumLogin

VARIABLES
  nonces,   \* nonces[r]: states of the nonce r names while r is served
  accounts  \* accounts[r]: views of the account r asks for while r is served

hvars == <<row, gone, tokens, now, issued, cache, pc, message, user, jobs, nonces, accounts>>

nonce == [q \in RequestIds |->
  IF q \notin issued THEN "unissued" ELSE IF Cached(q) THEN "live" ELSE "dead"]

Account(u) == [username |-> u.username, claims |-> u.claims]

Accounts == [username : Usernames, claims : Claims]

account == [id \in UserIds |-> IF row[id] = NoUser THEN NoUser ELSE Account(row[id])]

ASSUME HistoryAssumption ==
  NoUser \notin Accounts \cup [id : UserIds, account : Accounts]

Contract == INSTANCE EthereumContract WITH
  Sessions  <- Requests,
  Nonces    <- RequestIds,
  Ids       <- UserIds,
  Nobody    <- NoUser,
  NoncesDie <- ~SilentCache,
  session   <- [r \in Requests |->
                 IF pc[r] \in Waiting THEN "open"
                 ELSE IF pc[r] \in {"error", "dropped"} THEN "failed" ELSE pc[r]],
  asked     <- message,
  token     <- [r \in Requests |-> IF pc[r] = "granted" THEN sign(user[r].row) ELSE NoUser]
-----------------------------------------------------------------------------
HInit ==
  /\ EthereumInit
  /\ nonces = [r \in Requests |-> {}]
  /\ accounts = [r \in Requests |-> {}]

(* What a request could see, step by step, is the contract's to say. *)
Watch == Contract!Look

HNext == EthereumNext /\ Watch

HSpec == HInit /\ [][HNext]_hvars
-----------------------------------------------------------------------------
(* Whatever runs beside it, a login is granted the token of its address,   *)
(* with the claims the account had when it was read or later in the login, *)
(* for a nonce that was alive at some time while it was served and that    *)
(* nobody can use again; it is refused for the nonce or the account it     *)
(* found.  The nonce, the account, its claims and the insert of a new one  *)
(* are each looked at before an await and relied on after it.              *)
EthereumPromise == Contract!Spec
=============================================================================
