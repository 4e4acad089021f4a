------------------------------- MODULE UsersApi -------------------------------
(***************************************************************************)
(* The administrators' side of the service: UsersController                *)
(* (src/controllers/users.controller.ts) behind its ZodValidationPipe.     *)
(* Each handler sends one statement, so each is one atomic step; a request *)
(* the pipe or the database turns down (400, 404, 409) changes nothing.    *)
(***************************************************************************)
EXTENDS UserStore

CONSTANTS
  Undefined,               \* the value of a field the body leaves out
  PostBodies,              \* the bodies administrators send
  PatchBodies,
  PartialAppliesDefaults   \* a default inside .partial() fills an omitted field

PatchBody == [username : Usernames \cup {Undefined},
              password : Passwords \cup {Undefined},
              isLocked : BOOLEAN \cup {Undefined},
              claims   : Claims \cup {Undefined}]

PostBody == {b \in PatchBody : b.username # Undefined /\ b.password # Undefined}

ASSUME ApiAssumption ==
  /\ Undefined \notin Usernames
  /\ Undefined \notin Passwords
  /\ Undefined \notin BOOLEAN
  /\ Undefined \notin Claims
  /\ PostBodies \subseteq PostBody
  /\ PatchBodies \subseteq PatchBody
  /\ PartialAppliesDefaults \in BOOLEAN
-----------------------------------------------------------------------------
(* What the schemas make of a body.                                        *)

Given(field, otherwise) == IF field = Undefined THEN otherwise ELSE field

userCreateDtoSchema(body) ==
  [body EXCEPT !.isLocked = Given(@, FALSE), !.claims = Given(@, NoClaims)]

userUpdateDtoSchema(body) ==
  IF PartialAppliesDefaults THEN userCreateDtoSchema(body) ELSE body
-----------------------------------------------------------------------------
(* The statements of UserService.                                          *)

NewUser(dto) ==
  [username          |-> dto.username,
   password          |-> dto.password,
   accessFailedCount |-> 0,
   isLocked          |-> dto.isLocked,
   isLockedUntil     |-> 0,
   claims            |-> dto.claims]

create(id, dto) == InsertUser(id, NewUser(dto))

(* The nested write on user_claims: upsert the given pairs, then           *)
(* deleteMany of the keys that are not among them.                         *)
upsert(old, new) ==
  [k \in DOMAIN old \cup DOMAIN new |-> IF k \in DOMAIN new THEN new[k] ELSE old[k]]

deleteMany(claims, keep) == [k \in DOMAIN claims \cap keep |-> claims[k]]

updateClaims(old, new) == deleteMany(upsert(old, new), DOMAIN new)

Updated_NullsOmitted(u, dto) ==
  [u EXCEPT !.username = dto.username,
            !.password = Given(dto.password, @),
            !.isLocked = Given(dto.isLocked, @),
            !.claims   = IF dto.claims = Undefined THEN @ ELSE updateClaims(@, dto.claims)]

(* isLockedUntil and accessFailedCount stay as they are. *)
Updated(u, dto) ==
  [u EXCEPT !.username = Given(dto.username, @),
            !.password = Given(dto.password, @),
            !.isLocked = Given(dto.isLocked, @),
            !.claims   = IF dto.claims = Undefined THEN @ ELSE updateClaims(@, dto.claims)]

updateById(id, dto) == id \in ids /\ UpdateUser(id, Updated(row[id], dto))
-----------------------------------------------------------------------------
(* The handlers.                                                           *)

post(id, body) == create(id, userCreateDtoSchema(body))

patch(id, body) == updateById(id, userUpdateDtoSchema(body))

delete(id) == deleteById(id)

ApiInit == StoreInit

ApiNext ==
  \E id \in UserIds :
    \/ \E body \in PostBodies : post(id, body)
    \/ \E body \in PatchBodies : patch(id, body)
    \/ delete(id)

ApiSpec == ApiInit /\ [][ApiNext]_storeVars
-----------------------------------------------------------------------------
(* A PATCH whose body says nothing of the lock keeps it: the update DTO is *)
(* a Partial of the create DTO, and updateById hands Prisma its fields one *)
(* by one, undefined for those to leave alone.                             *)
PatchKeepsLock ==
  [][\A id \in UserIds, body \in PatchBodies :
       patch(id, body) /\ body.isLocked = Undefined =>
         row'[id].isLocked = row[id].isLocked]_storeVars
=============================================================================
