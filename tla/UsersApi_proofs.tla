--------------------------- MODULE UsersApi_proofs ---------------------------
(***************************************************************************)
(* What the administrators' statements keep, for every value of the        *)
(* constants: the lemmas both login services rest on.                      *)
(***************************************************************************)
EXTENDS UsersApi, TLAPS

(* The claims an update leaves: what the body gave, typed. *)
LEMMA NoClaimsType == NoClaims \in Claims
  BY DEF NoClaims, Claims

(* The nested write of updateById, an upsert of the given pairs and then a *)
(* delete of the other keys, leaves exactly the given claims.              *)
THEOREM ClaimsReplaced ==
  ASSUME NEW old \in Claims, NEW new \in Claims
  PROVE  updateClaims(old, new) = new
<1>1. PICK K \in SUBSET ClaimKeys : new \in [K -> ClaimValues]
  BY DEF Claims
<1>2. updateClaims(old, new) = [k \in K |-> new[k]]
  BY <1>1 DEF updateClaims, deleteMany, upsert
<1> QED
  BY <1>1, <1>2

LEMMA UpdateClaimsType ==
  ASSUME NEW old \in Claims, NEW new \in Claims
  PROVE  updateClaims(old, new) \in Claims
  BY ClaimsReplaced

(* A parsed body still has the shape of a body. *)
LEMMA SchemaType ==
  ASSUME NEW body \in PatchBody
  PROVE  /\ userCreateDtoSchema(body) \in PatchBody
         /\ userUpdateDtoSchema(body) \in PatchBody
         /\ userCreateDtoSchema(body).isLocked \in BOOLEAN
         /\ userCreateDtoSchema(body).claims \in Claims
         /\ userCreateDtoSchema(body).username = body.username
         /\ userCreateDtoSchema(body).password = body.password
  BY NoClaimsType, ApiAssumption
     DEF PatchBody, userCreateDtoSchema, userUpdateDtoSchema, Given

LEMMA UpdatedType ==
  ASSUME NEW u \in UserRow, NEW d \in PatchBody
  PROVE  Updated(u, d) \in UserRow
<1>1. d.claims # Undefined => updateClaims(u.claims, d.claims) \in Claims
  BY UpdateClaimsType DEF UserRow, PatchBody
<1> QED
  BY <1>1 DEF Updated, Given, UserRow, PatchBody

LEMMA NewUserType ==
  ASSUME NEW body \in PostBody
  PROVE  NewUser(userCreateDtoSchema(body)) \in UserRow
<1>1. body \in PatchBody /\ body.username \in Usernames /\ body.password \in Passwords
  BY DEF PostBody, PatchBody
<1> QED
  BY <1>1, SchemaType DEF NewUser, UserRow

(* What the two reads of findByUsername make of a login's snapshot. *)
Found(id) == [id |-> id, row |-> [row[id] EXCEPT !.claims = NoClaims]]

WithClaims(u) == [u EXCEPT !.row.claims = claimsOf(u.id)]

LEMMA SnapshotTypes ==
  ASSUME StoreTypeOK
  PROVE  /\ \A id \in UserIds : claimsOf(id) \in Claims
         /\ \A id \in ids : Found(id) \in [id : UserIds, row : UserRow]
         /\ \A u \in [id : UserIds, row : UserRow] :
              WithClaims(u) \in [id : UserIds, row : UserRow]
<1>1. \A id \in ids : row[id] \in UserRow
  BY DEF StoreTypeOK, ids
<1>2. \A id \in UserIds : claimsOf(id) \in Claims
  BY <1>1, NoClaimsType DEF claimsOf, ids, UserRow
<1> QED
  BY <1>1, <1>2, NoClaimsType DEF Found, WithClaims, UserRow, ids

(* Every statement of an administrator keeps the tables typed. *)
LEMMA ApiNextType == StoreTypeOK /\ ApiNext => StoreTypeOK'
<1> SUFFICES ASSUME StoreTypeOK, ApiNext PROVE StoreTypeOK'
  OBVIOUS
<1>1. PICK id \in UserIds :
        \/ \E body \in PostBodies : post(id, body)
        \/ \E body \in PatchBodies : patch(id, body)
        \/ delete(id)
  BY DEF ApiNext
<1>2. ASSUME NEW body \in PostBodies, post(id, body) PROVE StoreTypeOK'
  <2>1. NewUser(userCreateDtoSchema(body)) \in UserRow
    BY NewUserType, ApiAssumption
  <2> QED
    BY <1>2, <2>1 DEF post, create, InsertUser, StoreTypeOK
<1>3. ASSUME NEW body \in PatchBodies, patch(id, body) PROVE StoreTypeOK'
  <2>1. id \in ids /\ row[id] \in UserRow
    BY <1>3 DEF patch, updateById, ids, StoreTypeOK
  <2>2. Updated(row[id], userUpdateDtoSchema(body)) \in UserRow
    BY <2>1, SchemaType, UpdatedType, ApiAssumption
  <2> QED
    BY <1>3, <2>2 DEF patch, updateById, UpdateUser, StoreTypeOK
<1>4. CASE delete(id)
  BY <1>4 DEF delete, deleteById, StoreTypeOK
<1> QED
  BY <1>1, <1>2, <1>3, <1>4
-----------------------------------------------------------------------------
(* The contract of the tables: what a statement of any part of the service *)
(* does to them is a step of StoreSpec, and such a step keeps usernames    *)
(* unique and tokens owned.                                                *)
NamesUnique == \A i, j \in ids : row[i].username = row[j].username => i = j

LEMMA InsertIsStoreStep ==
  ASSUME StoreTypeOK, NEW id \in UserIds, NEW u \in UserRow,
         InsertUser(id, u) \/ UpdateUser(id, u)
  PROVE  StoreNext
<1>1. id \in UserIds /\ row' = [row EXCEPT ![id] = u]
  BY DEF InsertUser, UpdateUser
<1>2. row'[id] = u /\ u # NoUser
  BY <1>1, StoreAssumption DEF StoreTypeOK
<1> QED
  BY <1>2 DEF StoreNext

LEMMA TokenIsStoreStep ==
  ASSUME NEW id \in UserIds, NEW loginMethod, NEW value, NEW at,
         createToken(id, loginMethod, value, at)
  PROVE  StoreNext
<1> DEFINE t == [userId |-> id, createdAt |-> at, loginMethod |-> loginMethod,
                 value |-> value]
<1>1. t \in tokens'
  BY DEF createToken
<1>2. createToken(id, t.loginMethod, t.value, t.createdAt)
  OBVIOUS
<1> HIDE DEF t
<1> QED
  BY <1>1, <1>2 DEF StoreNext

LEMMA ApiIsStoreStep == StoreTypeOK /\ ApiNext => StoreNext
<1> SUFFICES ASSUME StoreTypeOK, ApiNext PROVE StoreNext
  OBVIOUS
<1>1. PICK id \in UserIds :
        \/ \E body \in PostBodies : post(id, body)
        \/ \E body \in PatchBodies : patch(id, body)
        \/ delete(id)
  BY DEF ApiNext
<1>2. ASSUME NEW body \in PostBodies, post(id, body) PROVE StoreNext
  <2>1. NewUser(userCreateDtoSchema(body)) \in UserRow
    BY NewUserType, ApiAssumption
  <2> QED
    BY <1>2, <2>1, InsertIsStoreStep DEF post, create
<1>3. ASSUME NEW body \in PatchBodies, patch(id, body) PROVE StoreNext
  <2>1. row[id] \in UserRow
    BY <1>3 DEF patch, updateById, ids, StoreTypeOK
  <2>2. Updated(row[id], userUpdateDtoSchema(body)) \in UserRow
    BY <2>1, SchemaType, UpdatedType, ApiAssumption
  <2> QED
    BY <1>3, <2>2, InsertIsStoreStep DEF patch, updateById
<1> QED
  BY <1>1, <1>2, <1>3 DEF delete, StoreNext

LEMMA StoreStepNames == StoreTypeOK /\ NamesUnique /\ [StoreNext]_storeVars => NamesUnique'
<1> SUFFICES ASSUME StoreTypeOK, NamesUnique, [StoreNext]_storeVars PROVE NamesUnique'
  OBVIOUS
<1> USE DEF NamesUnique, ids, StoreTypeOK
<1>1. CASE UNCHANGED storeVars
  BY <1>1 DEF storeVars
<1>2. ASSUME NEW id \in UserIds, NEW u, InsertUser(id, u) \/ UpdateUser(id, u)
      PROVE  NamesUnique'
  <2>1. \A i \in ids \ {id} : row[i].username # u.username
    BY <1>2 DEF InsertUser, UpdateUser, findByUsername
  <2>2. row' = [row EXCEPT ![id] = u]
    BY <1>2 DEF InsertUser, UpdateUser
  <2> QED
    BY <2>1, <2>2
<1>3. ASSUME NEW id \in UserIds, deleteById(id) PROVE NamesUnique'
  BY <1>3 DEF deleteById
<1>4. ASSUME NEW id \in UserIds, NEW t, createToken(id, t.loginMethod, t.value, t.createdAt)
      PROVE  NamesUnique'
  <2>1. row' = [row EXCEPT ![id].accessFailedCount = 0] /\ id \in ids
    BY <1>4 DEF createToken
  <2>2. \A i \in ids : row[i] \in UserRow
    OBVIOUS
  <2>3. \A i \in ids' : i \in ids /\ row'[i].username = row[i].username
    BY <2>1, <2>2 DEF UserRow
  <2> QED
    BY <2>3
<1> QED
  BY <1>1, <1>2, <1>3, <1>4 DEF StoreNext

LEMMA StoreStepTokens == StoreTypeOK /\ TokensOwned /\ [StoreNext]_storeVars => TokensOwned'
<1> SUFFICES ASSUME StoreTypeOK, TokensOwned, [StoreNext]_storeVars PROVE TokensOwned'
  OBVIOUS
<1> USE DEF TokensOwned, ids, StoreTypeOK
<1>1. CASE UNCHANGED storeVars
  BY <1>1 DEF storeVars
<1>2. ASSUME NEW id \in UserIds, row'[id] # NoUser,
             InsertUser(id, row'[id]) \/ UpdateUser(id, row'[id])
      PROVE  TokensOwned'
  <2>1. tokens' = tokens /\ row' = [row EXCEPT ![id] = row'[id]]
    BY <1>2 DEF InsertUser, UpdateUser
  <2> DEFINE u == row'[id]
  <2>2. row' = [row EXCEPT ![id] = u] /\ u # NoUser
    BY <1>2, <2>1
  <2> HIDE DEF u
  <2>3. \A i \in UserIds : row[i] # NoUser => row'[i] # NoUser
    BY <2>2
  <2> QED
    BY <2>1, <2>3
<1>3. ASSUME NEW id \in UserIds, deleteById(id) PROVE TokensOwned'
  BY <1>3 DEF deleteById
<1>4. ASSUME NEW id \in UserIds, NEW t, createToken(id, t.loginMethod, t.value, t.createdAt)
      PROVE  TokensOwned'
  <2>1. row' = [row EXCEPT ![id].accessFailedCount = 0] /\ row[id] \in UserRow
    BY <1>4 DEF createToken
  <2>2. row'[id] \in UserRow
    BY <2>1 DEF UserRow
  <2>3. \A i \in UserIds : row[i] # NoUser => row'[i] # NoUser
    BY <2>1, <2>2, StoreAssumption
  <2>4. \A s \in tokens' : s \in tokens \/ s.userId = id
    BY <1>4 DEF createToken
  <2> QED
    BY <1>4, <2>3, <2>4 DEF createToken
<1> QED
  BY <1>1, <1>2, <1>3, <1>4 DEF StoreNext
-----------------------------------------------------------------------------
(* What a PATCH does to the fields its body leaves out: it resets the lock *)
(* and drops the claims exactly where the defaults of the create schema    *)
(* stand in for them, and keeps them otherwise.                            *)
THEOREM OmittedFields ==
  ASSUME StoreTypeOK, NEW id \in UserIds, NEW body \in PatchBodies, patch(id, body)
  PROVE  /\ body.isLocked = Undefined =>
              row'[id].isLocked = IF PartialAppliesDefaults THEN FALSE ELSE row[id].isLocked
         /\ body.claims = Undefined =>
              row'[id].claims = IF PartialAppliesDefaults THEN NoClaims ELSE row[id].claims
<1> DEFINE d == userUpdateDtoSchema(body)
<1>1. /\ row[id] \in UserRow /\ row' = [row EXCEPT ![id] = Updated(row[id], d)]
      /\ d \in PatchBody
  BY SchemaType, ApiAssumption DEF patch, updateById, UpdateUser, ids, StoreTypeOK
<1>2. row'[id] = Updated(row[id], d)
  BY <1>1 DEF StoreTypeOK
<1>3. body.isLocked = Undefined =>
        d.isLocked = IF PartialAppliesDefaults THEN FALSE ELSE Undefined
  BY ApiAssumption DEF userUpdateDtoSchema, userCreateDtoSchema, Given, PatchBody
<1>4. body.claims = Undefined =>
        d.claims = IF PartialAppliesDefaults THEN NoClaims ELSE Undefined
  BY ApiAssumption DEF userUpdateDtoSchema, userCreateDtoSchema, Given, PatchBody
<1>5. row'[id].isLocked = Given(d.isLocked, row[id].isLocked)
  BY <1>1, <1>2 DEF Updated, UserRow
<1>6. row'[id].claims =
        IF d.claims = Undefined THEN row[id].claims ELSE updateClaims(row[id].claims, d.claims)
  BY <1>1, <1>2 DEF Updated, UserRow
<1>7. updateClaims(row[id].claims, NoClaims) = NoClaims
  BY <1>1, ClaimsReplaced, NoClaimsType DEF UserRow
<1> HIDE DEF d
<1> QED
  BY <1>3, <1>4, <1>5, <1>6, <1>7, NoClaimsType, ApiAssumption DEF Given
=============================================================================
