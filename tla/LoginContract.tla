----------------------------- MODULE LoginContract -----------------------------
(***************************************************************************)
(* What a password login promises, whatever the requests running beside it *)
(* do.  A session is opened with a name and a password.  While it is open  *)
(* the accounts may change and time passes, and the session gathers views  *)
(* of the account of that name.  A view is an account as it was at one     *)
(* moment, but for its claims: these are of that moment or of a later one, *)
(* since nothing reads an account and its claims together.  A session ends *)
(* in one of three ways: granted the token of a view that entitles to it,  *)
(* refused because of one that does not, or failed.                        *)
(***************************************************************************)
EXTENDS Naturals

CONSTANTS
  Sessions,
  Ids,        \* what an account keeps when it is renamed
  Usernames,
  Passwords,
  Accounts,   \* records with username, password, isLocked, isLockedUntil, claims
  NoClaims,   \* what is left of the claims of a deleted account
  Nobody      \* no account has this id, or this name

VARIABLES
  clock,
  account,    \* account[id]
  session,    \* session[s]: how far s is
  asked,      \* asked[s]: the name and the password s was opened with
  seen,       \* seen[s]: the views s has of that account while it is open
  token       \* token[s]: what a granted session got

vars == <<clock, account, session, asked, seen, token>>

Open == {s \in Sessions : session[s] = "open"}

Claims(id) == IF account[id] = Nobody THEN NoClaims ELSE account[id].claims

LookUp(username) ==
  LET found == {id \in Ids : account[id] # Nobody /\ account[id].username = username}
  IN  IF found = {} THEN {Nobody} ELSE {[id |-> id, account |-> account[id]] : id \in found}

Look ==
  seen' = [s \in Sessions |->
    IF session'[s] # "open" THEN {}
    ELSE seen[s] \cup LookUp(asked[s].username)'
           \cup {[v EXCEPT !.account.claims = Claims(v.id)'] : v \in seen[s] \ {Nobody}}]

(* A locked account entitles only when the lock has an end that has passed.*)
Entitles(a, password, at) ==
  /\ a.password = password
  /\ a.isLocked => a.isLockedUntil # 0 /\ at > a.isLockedUntil

Init ==
  /\ clock = 0
  /\ account \in [Ids -> Accounts \cup {Nobody}]
  /\ session = [s \in Sessions |-> "idle"]
  /\ seen = [s \in Sessions |-> {}]

Begin(s) ==
  /\ session[s] = "idle"
  /\ session' = [session EXCEPT ![s] = "open"]
  /\ \E username \in Usernames, password \in Passwords :
       asked' = [asked EXCEPT ![s] = [username |-> username, password |-> password]]
  /\ Look
  /\ UNCHANGED <<clock, account, token>>

End(s, answer) ==
  /\ s \in Open
  /\ session' = [session EXCEPT ![s] = answer]
  /\ Look
  /\ UNCHANGED <<clock, account, asked>>

Grant(s) ==
  /\ End(s, "granted")
  /\ \E v \in seen[s] \ {Nobody} :
       /\ v.account.username = asked[s].username
       /\ Entitles(v.account, asked[s].password, clock)
       /\ token' = [token EXCEPT ![s] =
            [sub |-> v.account.username, claims |-> v.account.claims]]

Refuse(s) ==
  /\ End(s, "refused")
  /\ \E v \in seen[s] : v = Nobody \/ ~Entitles(v.account, asked[s].password, clock)
  /\ UNCHANGED token

(* Accounts change, time passes, and some sessions fail. *)
World ==
  /\ clock' >= clock
  /\ account' \in [Ids -> Accounts \cup {Nobody}]
  /\ \E failing \in SUBSET Open :
       session' = [s \in Sessions |-> IF s \in failing THEN "failed" ELSE session[s]]
  /\ Look
  /\ UNCHANGED <<asked, token>>

Next ==
  \/ \E s \in Sessions : Begin(s) \/ Grant(s) \/ Refuse(s)
  \/ World

Spec == Init /\ [][Next]_vars
=============================================================================
