----------------------------- MODULE RequestGuards -----------------------------
(***************************************************************************)
(* The administrators' requests as the server admits and serves them:      *)
(* AuthenticationGuard verifies the token and sets the request's user,     *)
(* ClaimsGuard looks at its claims, the handler of UsersController sends   *)
(* its statement in that user's name.  Each awaits the one before, so      *)
(* whatever the token says may be outdated when the statement runs.        *)
(*                                                                         *)
(* A token is what TokenSigningService.sign makes of an account; issuer,   *)
(* audience and algorithm are the same for every token and left out.  A    *)
(* request that is turned down (400, 401, 403, 404, 409) changes nothing.  *)
(* Nothing reads its route or its body before the handler does, so the     *)
(* call is chosen there.                                                   *)
(***************************************************************************)
EXTENDS RelationalStore

CONSTANTS
  Requests,        \* requests the server handles at a time
  TokenLifetime,   \* expireInMinutes, in ticks of the clock
  NoToken          \* nobody has been authenticated for this request

ASSUME GuardAssumption == TokenLifetime \in Nat \ {0}

VARIABLES
  jwts,            \* tokens signed so far
  pc,              \* pc[r]: how far the guards have let request r
  context          \* context[r]: UserContextService.user and res.locals.user

guardVars == <<jwts, pc, context>>

Registered == {"iss", "aud", "iat", "exp", "sub"}

(* The id of a post is the one the database will give the row. *)
Call == [op : {"post"}, id : UserIds, body : PostBodies]
          \cup [op : {"patch"}, id : UserIds, body : PatchBodies]
          \cup [op : {"delete"}, id : UserIds]

GuardInit ==
  /\ jwts = {}
  /\ pc = [r \in Requests |-> "idle"]
  /\ context = [r \in Requests |-> NoToken]
-----------------------------------------------------------------------------
(* `read` is not in the token: it is when the login read the account.      *)
sign_ClaimsLast(user, read) ==
  [sub    |-> IF "sub" \in DOMAIN user.claims THEN user.claims["sub"] ELSE user.username,
   claims |-> [k \in DOMAIN user.claims \ Registered |-> user.claims[k]],
   exp    |-> now + TokenLifetime,
   iat    |-> now,
   read   |-> read]

sign(user, read) ==
  [sub    |-> user.username,
   claims |-> [k \in DOMAIN user.claims \ Registered |-> user.claims[k]],
   exp    |-> now + TokenLifetime,
   iat    |-> now,
   read   |-> read]

(* An "nbf" of the user's own is a string, and no token with one verifies. *)
verify_IgnoresExpiry(token) == token \in jwts /\ "nbf" \notin DOMAIN token.claims

verify(token) == token \in jwts /\ "nbf" \notin DOMAIN token.claims /\ now < token.exp

Has(claims, key, value) == key \in DOMAIN claims /\ claims[key] = value

(* RequiredClaims([Claims.USERS, ClaimsAccessLevel.ADMIN]) *)
Admin(claims) == Has(claims, "users", "admin")
-----------------------------------------------------------------------------
Goto(r, label) == pc' = [pc EXCEPT ![r] = label]

Answer(r) ==
  /\ Goto(r, "idle")
  /\ context' = [context EXCEPT ![r] = NoToken]

(* AllowAnonymous is on the login and health routes only. *)
AuthenticationGuard(r, token) ==
  /\ pc[r] = "idle"
  /\ verify(token)
  /\ context' = [context EXCEPT ![r] = token]
  /\ Goto(r, "authenticated")
  /\ UNCHANGED <<now, tables, jwts>>

ClaimsGuard(r) ==
  /\ pc[r] = "authenticated"
  /\ Admin(context[r].claims)
  /\ Goto(r, "authorized")
  /\ UNCHANGED <<now, tables, jwts, context>>

(* What the schema makes of the body, and the statement it ends in. *)
Statement(call, sub) ==
  \/ /\ call.op = "post"
     /\ create(call.id, Records!userCreateDtoSchema(call.body), sub)
  \/ /\ call.op = "patch"
     /\ updateById(call.id, Records!userUpdateDtoSchema(call.body), sub)
  \/ /\ call.op = "delete"
     /\ deleteById(call.id)

(* The statement reaches the database after the password is hashed. *)
Handler(r, call) ==
  /\ pc[r] = "authorized"
  /\ Statement(call, context[r].sub)
  /\ Answer(r)
  /\ UNCHANGED <<now, jwts>>

(* Any of the refusals, 500, or the end of the process. *)
Refuse(r) ==
  /\ pc[r] # "idle"
  /\ Answer(r)
  /\ UNCHANGED <<now, tables, jwts>>

GuardNext ==
  \E r \in Requests :
    \/ \E token \in jwts : AuthenticationGuard(r, token)
    \/ ClaimsGuard(r)
    \/ \E call \in Call : Handler(r, call)
    \/ Refuse(r)
-----------------------------------------------------------------------------
(* A handler's nested write has the effect UsersApi gives it, on the user  *)
(* it names and on no other, between the requests of everybody else.       *)
HandlersImplementApi ==
  [][\A r \in Requests, call \in Call : Handler(r, call) =>
       CASE call.op = "post"   -> Records!post(call.id, call.body)
         [] call.op = "patch"  -> Records!patch(call.id, call.body)
         [] call.op = "delete" -> Records!delete(call.id)]_<<now, tables, guardVars>>
=============================================================================
