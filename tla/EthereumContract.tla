---------------------------- MODULE EthereumContract ----------------------------
(***************************************************************************)
(* What an Ethereum login promises, whatever the requests beside it do.  A *)
(* nonce is handed out once, lives for a while and then is dead for good.  *)
(* A session is opened with a signed message.  While it is open it watches *)
(* its nonce and gathers views of the account of its address: the account  *)
(* as it was at one moment, with the claims of that moment or a later one, *)
(* since nothing reads an account and its claims together.  It is granted  *)
(* the token of a view if the nonce was alive, and then the nonce is dead; *)
(* it is refused for what it saw of the two; or it fails.                  *)
(***************************************************************************)
CONSTANTS
  Sessions,
  Nonces,
  Addresses,
  Established,  \* addresses that may have an account made for them
  Ids,          \* what an account keeps when it is renamed
  Accounts,     \* records with username and claims
  NoClaims,     \* what is left of the claims of a deleted account
  Nobody,       \* no account has this id, or this address
  NoncesDie     \* a nonce traded for a token is dead

VARIABLES
  nonce,     \* nonce[n]: unissued, live or dead
  account,   \* account[id]
  session,   \* session[s]: how far s is
  asked,     \* asked[s]: the message s was opened with
  nonces,    \* nonces[s]: the states of its nonce while s is open
  accounts,  \* accounts[s]: the views s has of its account while it is open
  token      \* token[s]: what a granted session got

vars == <<nonce, account, session, asked, nonces, accounts, token>>

Open == {s \in Sessions : session[s] = "open"}

Claims(id) == IF account[id] = Nobody THEN NoClaims ELSE account[id].claims

LookUp(address) ==
  LET found == {id \in Ids : account[id] # Nobody /\ account[id].username = address}
  IN  IF found = {} THEN {Nobody} ELSE {[id |-> id, account |-> account[id]] : id \in found}

Look ==
  /\ nonces' = [s \in Sessions |->
       IF session'[s] = "open" THEN nonces[s] \cup {nonce'[asked'[s].requestId]} ELSE {}]
  /\ accounts' = [s \in Sessions |->
       IF session'[s] # "open" THEN {}
       ELSE accounts[s] \cup LookUp(asked[s].address)'
              \cup {[v EXCEPT !.account.claims = Claims(v.id)'] : v \in accounts[s] \ {Nobody}}]

Init ==
  /\ nonce = [n \in Nonces |-> "unissued"]
  /\ account \in [Ids -> Accounts \cup {Nobody}]
  /\ session = [s \in Sessions |-> "idle"]
  /\ nonces = [s \in Sessions |-> {}]
  /\ accounts = [s \in Sessions |-> {}]

(* Nobody signs a nonce that was not handed out. *)
Begin(s) ==
  /\ session[s] = "idle"
  /\ session' = [session EXCEPT ![s] = "open"]
  /\ \E m \in [requestId : Nonces, address : Addresses, genuine : BOOLEAN] :
       /\ m.genuine => nonce[m.requestId] # "unissued"
       /\ asked' = [asked EXCEPT ![s] = m]
  /\ Look
  /\ UNCHANGED <<nonce, account, token>>

End(s, answer) ==
  /\ s \in Open
  /\ session' = [session EXCEPT ![s] = answer]
  /\ Look
  /\ UNCHANGED <<account, asked>>

Grant(s) ==
  /\ End(s, "granted")
  /\ asked[s].genuine
  /\ "live" \in nonces[s]
  /\ nonce' \in {nonce, [nonce EXCEPT ![asked[s].requestId] = "dead"]}
  /\ NoncesDie => nonce'[asked[s].requestId] = "dead"
  /\ \E v \in accounts[s] \ {Nobody} :
       /\ v.account.username = asked[s].address
       /\ token' = [token EXCEPT ![s] = [sub |-> v.account.username, claims |-> v.account.claims]]

(* For a dead nonce, a forged message, or an address without an account    *)
(* that is not established or gets its account from somebody else.         *)
Refuse(s) ==
  /\ End(s, "refused")
  /\ \/ \E n \in nonces[s] : n # "live"
     \/ ~asked[s].genuine
     \/ Nobody \in accounts[s] /\ asked[s].address \notin Established
     \/ Nobody \in accounts[s] /\ accounts[s] # {Nobody}
  /\ UNCHANGED <<nonce, token>>

(* Nonces are handed out and die, accounts change, some sessions fail. *)
World ==
  /\ nonce' \in [Nonces -> {"unissued", "live", "dead"}]
  /\ \A n \in Nonces : nonce'[n] \in {nonce[n], "dead"} \/ nonce[n] = "unissued"
  /\ account' \in [Ids -> Accounts \cup {Nobody}]
  /\ \E failing \in SUBSET Open :
       session' = [s \in Sessions |-> IF s \in failing THEN "failed" ELSE session[s]]
  /\ Look
  /\ UNCHANGED <<asked, token>>

Next ==
  \/ World
  \/ \E s \in Sessions : Begin(s) \/ Grant(s) \/ Refuse(s)

Spec == Init /\ [][Next]_vars
=============================================================================
