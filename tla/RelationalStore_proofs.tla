------------------------- MODULE RelationalStore_proofs -------------------------
(***************************************************************************)
(* Each statement on the three tables has the effect its namesake in       *)
(* UserStore and UsersApi has on the record Joined makes of a user, for    *)
(* every value of the constants.                                           *)
(***************************************************************************)
EXTENDS RelationalStore, TLAPS

(* The claims of a user survive the way into rows and back. *)
LEMMA PairsOfRows ==
  ASSUME NEW id, NEW f \in Records!Claims
  PROVE  PairsOf(ClaimRows(id, f)) = f
<1> DEFINE rows == ClaimRows(id, f)
<1>1. PICK K \in SUBSET ClaimKeys : f \in [K -> ClaimValues]
  BY DEF Records!Claims
<1>2. \A c \in rows : c.key \in DOMAIN f /\ c.value = f[c.key]
  BY DEF ClaimRows
<1>3. ASSUME NEW k \in DOMAIN f PROVE \E c \in rows : c.key = k
  <2>1. [userId |-> id, key |-> k, value |-> f[k]] \in rows
    BY DEF ClaimRows
  <2> QED
    BY <2>1
<1> HIDE DEF rows
<1>4. {c.key : c \in rows} = DOMAIN f
  BY <1>2, <1>3
<1>5. ASSUME NEW k \in DOMAIN f PROVE (CHOOSE c \in rows : c.key = k).value = f[k]
  BY <1>2, <1>3
<1>6. PairsOf(rows) = [k \in DOMAIN f |-> f[k]]
  <2> DEFINE val(k) == (CHOOSE c \in rows : c.key = k).value
  <2>1. PairsOf(rows) = [k \in DOMAIN f |-> val(k)]
    BY <1>4, Zenon DEF PairsOf
  <2>2. \A k \in DOMAIN f : val(k) = f[k]
    BY <1>5
  <2> HIDE DEF val
  <2> QED
    BY <2>1, <2>2
<1> QED
  BY <1>1, <1>6 DEF rows

LEMMA PairsOfType ==
  ASSUME NEW rows \in SUBSET ClaimRow
  PROVE  PairsOf(rows) \in Records!Claims
<1>1. {c.key : c \in rows} \in SUBSET ClaimKeys
  BY DEF ClaimRow
<1>2. ASSUME NEW k \in {c.key : c \in rows}
      PROVE  (CHOOSE c \in rows : c.key = k).value \in ClaimValues
  BY DEF ClaimRow
<1>3. PairsOf(rows) \in [{c.key : c \in rows} -> ClaimValues]
  BY <1>2 DEF PairsOf
<1> QED
  BY <1>1, <1>3 DEF Records!Claims

(* The nested upsert and deleteMany leave the given claims and no other.   *)
LEMMA UpdateClaimsRecord ==
  ASSUME NEW old \in Records!Claims, NEW new \in Records!Claims
  PROVE  Records!updateClaims(old, new) = new
<1>1. PICK K \in SUBSET ClaimKeys : new \in [K -> ClaimValues]
  BY DEF Records!Claims
<1>2. Records!updateClaims(old, new) = [k \in K |-> new[k]]
  BY <1>1 DEF Records!updateClaims, Records!deleteMany, Records!upsert
<1> QED
  BY <1>1, <1>2

LEMMA WrittenRows ==
  ASSUME NEW id, NEW claims,
         user_claims' = deleteMany(id, upsert(id, claims), DOMAIN claims)
  PROVE  /\ {c \in user_claims' : c.userId = id} = ClaimRows(id, claims)
         /\ \A o : o # id => {c \in user_claims' : c.userId = o}
                            = {c \in user_claims : c.userId = o}
<1>1. \A c \in ClaimRows(id, claims) : c.userId = id /\ c.key \in DOMAIN claims
  BY DEF ClaimRows
<1> QED
  BY <1>1 DEF deleteMany, upsert
-----------------------------------------------------------------------------
(* The record of a user.                                                   *)

LEMMA JoinedType ==
  ASSUME TablesTypeOK, NEW id \in live
  PROVE  /\ Joined(id) \in Records!UserRow
         /\ Joined(id) # NoUser
<1>1. users[id] \in Columns /\ users[id] # NoUser
  BY DEF TablesTypeOK, live
<1>2. claimsOf(id) \in Records!Claims
  BY PairsOfType DEF TablesTypeOK, claimsOf
<1>3. Joined(id) \in Records!UserRow
  BY <1>1, <1>2 DEF Joined, claimsOf, Columns, Records!UserRow
<1> QED
  BY <1>3, TablesAssumption

LEMMA IdsLive ==
  ASSUME TablesTypeOK
  PROVE  Records!ids = live
<1>1. \A id \in UserIds : id \in live <=> Joined(id) # NoUser
  BY JoinedType DEF live, Joined, claimsOf
<1> QED
  BY <1>1 DEF Records!ids, live

LEMMA JoinedKept ==
  ASSUME NEW id \in UserIds, users'[id] = users[id],
         {c \in user_claims' : c.userId = id} = {c \in user_claims : c.userId = id}
  PROVE  Joined(id)' = Joined(id)
  BY DEF Joined, claimsOf

LEMMA NamesUnique ==
  ASSUME TablesTypeOK, NEW id \in UserIds, NEW username, NameFree(username, id)
  PROVE  Records!findByUsername(username) \subseteq {id}
<1>1. \A o \in live : Joined(o).username = users[o].username
  BY DEF Joined, claimsOf, live
<1> QED
  BY <1>1, IdsLive DEF Records!findByUsername, NameFree, live
-----------------------------------------------------------------------------
(* The statements.                                                         *)

LEMMA InsertRowRecord ==
  ASSUME TablesTypeOK, KeysHold,
         NEW id \in UserIds, NEW by \in Modifiers, NEW username \in Usernames,
         NEW password \in Passwords \cup {NoPassword}, NEW isLocked \in BOOLEAN,
         NEW claims \in Records!Claims,
         InsertRow(id, by, username, password, isLocked, claims)
  PROVE  Records!InsertUser(id,
           [username |-> username, password |-> password, accessFailedCount |-> 0,
            isLocked |-> isLocked, isLockedUntil |-> 0, claims |-> claims])
<1> DEFINE u == [username |-> username, password |-> password, accessFailedCount |-> 0,
                 isLocked |-> isLocked, isLockedUntil |-> 0, claims |-> claims]
           columns == [createdAt |-> now, createdBy |-> by, updatedBy |-> by,
                       username |-> username, password |-> password,
                       accessFailedCount |-> 0, isLocked |-> isLocked, isLockedUntil |-> 0]
<1>1. id \notin serial /\ id \notin live
  BY DEF InsertRow, NextIds, KeysHold
<1>2. id \in Records!FreshIds
  BY <1>1, IdsLive DEF Records!FreshIds
<1>3. Records!findByUsername(username) = {}
  <2>1. Records!findByUsername(username) \subseteq {id}
    BY NamesUnique DEF InsertRow
  <2>2. Records!findByUsername(username) \subseteq live
    BY IdsLive DEF Records!findByUsername
  <2> QED
    BY <1>1, <2>1, <2>2
<1>4. columns \in Columns
  BY DEF Columns, TablesTypeOK
<1>5. users'[id] = columns /\ columns # NoUser
  BY <1>4, TablesAssumption DEF InsertRow, TablesTypeOK
<1>6. {c \in user_claims' : c.userId = id} = ClaimRows(id, claims)
  BY <1>1 DEF InsertRow, KeysHold, ClaimRows
<1>7. Joined(id)' = u
  <2>1. PairsOf({c \in user_claims' : c.userId = id}) = claims
    BY <1>6, PairsOfRows
  <2> QED
    BY <1>5, <2>1 DEF Joined, claimsOf
<1>8. ASSUME NEW o \in UserIds, o # id PROVE Joined(o)' = Joined(o)
  <2>1. users'[o] = users[o]
    BY <1>8 DEF InsertRow, TablesTypeOK
  <2>2. {c \in user_claims' : c.userId = o} = {c \in user_claims : c.userId = o}
    BY <1>8 DEF InsertRow, ClaimRows
  <2> QED
    BY <2>1, <2>2, JoinedKept
<1>9. live' = live \cup {id}
  BY <1>5 DEF InsertRow, live, TablesTypeOK
<1> QED
  <2>1. serial' \ live' = serial \ live
    BY <1>1, <1>9 DEF InsertRow
  <2>2. user_tokens' = user_tokens
    BY DEF InsertRow
  <2> HIDE DEF u
  <2> QED
    BY <1>2, <1>3, <1>7, <1>8, <2>1, <2>2 DEF Records!InsertUser, u

LEMMA UpdateByIdRecord ==
  ASSUME TablesTypeOK, KeysHold,
         NEW id \in UserIds, NEW dto \in Records!PatchBody, NEW by \in Modifiers,
         updateById(id, dto, by)
  PROVE  Records!updateById(id, dto)
<1> DEFINE u == Records!Updated(Joined(id), dto)
           username == Given(dto.username, users[id].username)
<1>1. id \in live /\ users[id] \in Columns /\ users[id] # NoUser
  BY DEF updateById, live, TablesTypeOK
<1>2. Joined(id) \in Records!UserRow
  BY <1>1, JoinedType
<1>3. u.username = username
  BY <1>1 DEF Records!Updated, Records!Given, Given, Joined, claimsOf
<1>4. Records!findByUsername(u.username) \subseteq {id}
  BY <1>3, NamesUnique DEF updateById
<1>5. users' = [users EXCEPT ![id] =
        [users[id] EXCEPT !.updatedBy = by, !.username = username,
                          !.password = Given(dto.password, @),
                          !.isLocked = Given(dto.isLocked, @)]]
  BY DEF updateById, TablesTypeOK
<1>6. users'[id] \in Columns
  <2>1. /\ username \in Usernames
        /\ Given(dto.password, users[id].password) \in Passwords \cup {NoPassword}
        /\ Given(dto.isLocked, users[id].isLocked) \in BOOLEAN
    BY <1>1 DEF Given, Records!PatchBody, Columns
  <2> QED
    BY <1>1, <1>5, <2>1 DEF Columns, TablesTypeOK
<1>7. claimsOf(id)' = u.claims
  <2>1. CASE dto.claims = Undefined
    <3>1. claimsOf(id)' = claimsOf(id)
      BY <2>1 DEF updateById, claimsOf
    <3> QED
      BY <1>1, <2>1, <3>1 DEF Records!Updated, Joined, claimsOf
  <2>2. CASE dto.claims # Undefined
    <3>1. dto.claims \in Records!Claims
      BY <2>2 DEF Records!PatchBody
    <3>2. claimsOf(id)' = dto.claims
      <4>1. {c \in user_claims' : c.userId = id} = ClaimRows(id, dto.claims)
        BY <2>2, WrittenRows DEF updateById
      <4>2. PairsOf(ClaimRows(id, dto.claims)) = dto.claims
        BY <3>1, PairsOfRows
      <4> QED
        BY <4>1, <4>2 DEF claimsOf
    <3>3. Records!updateClaims(Joined(id).claims, dto.claims) = dto.claims
      BY <1>2, <3>1, UpdateClaimsRecord DEF Records!UserRow
    <3> QED
      BY <1>1, <2>2, <3>2, <3>3 DEF Records!Updated, Joined, claimsOf
  <2> QED
    BY <2>1, <2>2
<1>8. Joined(id)' = u
  <2>1. users'[id] # NoUser
    BY <1>6, TablesAssumption
  <2>2. Joined(id)' = [username          |-> username,
                       password          |-> Given(dto.password, users[id].password),
                       accessFailedCount |-> users[id].accessFailedCount,
                       isLocked          |-> Given(dto.isLocked, users[id].isLocked),
                       isLockedUntil     |-> users[id].isLockedUntil,
                       claims            |-> u.claims]
    <3>1. users'[id] = [users[id] EXCEPT !.updatedBy = by, !.username = username,
                          !.password = Given(dto.password, @),
                          !.isLocked = Given(dto.isLocked, @)]
      BY <1>5 DEF TablesTypeOK
    <3>2. Joined(id)' = [username          |-> users'[id].username,
                         password          |-> users'[id].password,
                         accessFailedCount |-> users'[id].accessFailedCount,
                         isLocked          |-> users'[id].isLocked,
                         isLockedUntil     |-> users'[id].isLockedUntil,
                         claims            |-> claimsOf(id)']
      BY <2>1 DEF Joined, claimsOf
    <3> HIDE DEF u, username
    <3> QED
      BY <1>1, <1>7, <3>1, <3>2 DEF Columns
  <2>3. u = [username          |-> username,
             password          |-> Given(dto.password, users[id].password),
             accessFailedCount |-> users[id].accessFailedCount,
             isLocked          |-> Given(dto.isLocked, users[id].isLocked),
             isLockedUntil     |-> users[id].isLockedUntil,
             claims            |-> u.claims]
    <3> DEFINE j == Joined(id)
    <3>1. /\ j.username = users[id].username
          /\ j.password = users[id].password
          /\ j.accessFailedCount = users[id].accessFailedCount
          /\ j.isLocked = users[id].isLocked
          /\ j.isLockedUntil = users[id].isLockedUntil
      BY <1>1 DEF Joined, claimsOf
    <3>2. j \in Records!UserRow
      BY <1>2
    <3> HIDE DEF j
    <3>3. Records!Updated(j, dto) =
            [username          |-> Given(dto.username, j.username),
             password          |-> Given(dto.password, j.password),
             accessFailedCount |-> j.accessFailedCount,
             isLocked          |-> Given(dto.isLocked, j.isLocked),
             isLockedUntil     |-> j.isLockedUntil,
             claims            |-> Records!Updated(j, dto).claims]
      <4> DEFINE claims == IF dto.claims = Undefined THEN j.claims
                           ELSE Records!updateClaims(j.claims, dto.claims)
      <4>1. Records!Updated(j, dto) =
              [j EXCEPT !.username = Given(dto.username, @),
                        !.password = Given(dto.password, @),
                        !.isLocked = Given(dto.isLocked, @),
                        !.claims   = claims]
        BY DEF Records!Updated, Records!Given, Given
      <4> HIDE DEF claims
      <4> QED
        BY <3>2, <4>1 DEF Records!UserRow
    <3> QED
      BY <3>1, <3>3 DEF j
  <2> QED
    BY <2>2, <2>3
<1>9. ASSUME NEW o \in UserIds, o # id PROVE Joined(o)' = Joined(o)
  <2>1. users'[o] = users[o]
    BY <1>5, <1>9 DEF TablesTypeOK
  <2>2. {c \in user_claims' : c.userId = o} = {c \in user_claims : c.userId = o}
    BY <1>9, WrittenRows DEF updateById
  <2> QED
    BY <2>1, <2>2, JoinedKept
<1>10. live' = live
  <2>1. users'[id] # NoUser
    BY <1>6, TablesAssumption
  <2> QED
    BY <1>1, <1>5, <2>1 DEF live, TablesTypeOK
<1> QED
  <2>1. serial' = serial /\ user_tokens' = user_tokens
    BY DEF updateById
  <2>2. id \in Records!ids
    BY <1>1, IdsLive
  <2> HIDE DEF u
  <2>3. Records!UpdateUser(id, u)
    BY <1>4, <1>8, <1>9, <1>10, <2>1, <2>2 DEF Records!UpdateUser
  <2>4. [o \in UserIds |-> Joined(o)][id] = Joined(id)
    OBVIOUS
  <2> QED
    BY <2>2, <2>3, <2>4 DEF Records!updateById, u

LEMMA DeleteByIdRecord ==
  ASSUME TablesTypeOK, KeysHold, NEW id \in UserIds, deleteById(id)
  PROVE  Records!deleteById(id)
<1>1. Joined(id)' = NoUser
  BY DEF deleteById, Joined, claimsOf, TablesTypeOK
<1>2. ASSUME NEW o \in UserIds, o # id PROVE Joined(o)' = Joined(o)
  <2>1. users'[o] = users[o]
    BY <1>2 DEF deleteById, TablesTypeOK
  <2>2. {c \in user_claims' : c.userId = o} = {c \in user_claims : c.userId = o}
    BY <1>2 DEF deleteById
  <2> QED
    BY <2>1, <2>2, JoinedKept
<1>3. serial' \ live' = (serial \ live) \cup {id}
  <2>1. live' = live \ {id}
    BY DEF deleteById, live, TablesTypeOK
  <2> QED
    BY <2>1 DEF deleteById, KeysHold
<1>4. id \in Records!ids
  BY IdsLive DEF deleteById
<1> QED
  BY <1>1, <1>2, <1>3, <1>4 DEF Records!deleteById, deleteById

LEMMA CreateTokenRecord ==
  ASSUME TablesTypeOK, NEW id \in UserIds, NEW loginMethod, NEW value,
         createToken(id, loginMethod, value)
  PROVE  Records!createToken(id, loginMethod, value, now)
<1>1. users[id] \in Columns /\ users[id] # NoUser /\ id \in live
  BY DEF createToken, live, TablesTypeOK
<1>2. users' = [users EXCEPT ![id] =
        [users[id] EXCEPT !.updatedBy = DEFAULT_MODIFIED_BY, !.accessFailedCount = 0]]
  BY DEF createToken, TablesTypeOK
<1>3. users'[id] \in Columns /\ users'[id] # NoUser
  <2>1. users'[id] \in Columns
    BY <1>1, <1>2 DEF Columns, Modifiers, TablesTypeOK
  <2> QED
    BY <2>1, TablesAssumption
<1>4. Joined(id)' = [Joined(id) EXCEPT !.accessFailedCount = 0]
  BY <1>1, <1>2, <1>3 DEF createToken, Joined, claimsOf, Columns, TablesTypeOK
<1>5. ASSUME NEW o \in UserIds, o # id PROVE Joined(o)' = Joined(o)
  BY <1>2, <1>5, JoinedKept DEF createToken, TablesTypeOK
<1>6. live' = live
  BY <1>1, <1>2, <1>3 DEF live, TablesTypeOK
<1>7. id \in Records!ids
  BY <1>1, IdsLive
<1> QED
  BY <1>4, <1>5, <1>6, <1>7 DEF Records!createToken, Records!TokenKeyTaken, createToken
-----------------------------------------------------------------------------
(* The statements keep the tables typed and their keys.                    *)

LEMMA InsertRowKeeps ==
  ASSUME TablesTypeOK, KeysHold, now' = now,
         NEW id \in UserIds, NEW by \in Modifiers, NEW username \in Usernames,
         NEW password \in Passwords \cup {NoPassword}, NEW isLocked \in BOOLEAN,
         NEW claims \in Records!Claims,
         InsertRow(id, by, username, password, isLocked, claims)
  PROVE  TablesTypeOK' /\ KeysHold' /\ live' = live \cup {id} /\ users'[id] \in Columns
<1> DEFINE columns == [createdAt |-> now, createdBy |-> by, updatedBy |-> by,
                       username |-> username, password |-> password,
                       accessFailedCount |-> 0, isLocked |-> isLocked, isLockedUntil |-> 0]
<1>1. columns \in Columns /\ columns # NoUser
  BY TablesAssumption DEF Columns, TablesTypeOK
<1>2. users' = [users EXCEPT ![id] = columns] /\ id \notin live /\ id \notin serial
  BY DEF InsertRow, NextIds, KeysHold
<1> HIDE DEF columns
<1>3. ClaimRows(id, claims) \subseteq ClaimRow
  BY DEF ClaimRows, ClaimRow, Records!Claims
<1>4. live' = live \cup {id}
  BY <1>1, <1>2 DEF live, TablesTypeOK
<1>5. KeysHold'
  BY <1>2, <1>4 DEF InsertRow, KeysHold, ClaimRows
<1> QED
  BY <1>1, <1>2, <1>3, <1>4, <1>5 DEF InsertRow, TablesTypeOK

LEMMA UpdateByIdKeeps ==
  ASSUME TablesTypeOK, KeysHold, now' = now,
         NEW id \in UserIds, NEW dto \in Records!PatchBody, NEW by \in Modifiers,
         updateById(id, dto, by)
  PROVE  TablesTypeOK' /\ KeysHold' /\ live' = live
<1> DEFINE columns ==
      [users[id] EXCEPT !.updatedBy = by,
                        !.username = Given(dto.username, @),
                        !.password = Given(dto.password, @),
                        !.isLocked = Given(dto.isLocked, @)]
<1>1. id \in live /\ users[id] \in Columns
  BY DEF updateById, live, TablesTypeOK
<1>2. users' = [users EXCEPT ![id] = columns]
  BY DEF updateById, TablesTypeOK
<1>3. columns \in Columns
  <2>1. /\ Given(dto.username, users[id].username) \in Usernames
        /\ Given(dto.password, users[id].password) \in Passwords \cup {NoPassword}
        /\ Given(dto.isLocked, users[id].isLocked) \in BOOLEAN
    BY <1>1 DEF Given, Records!PatchBody, Columns
  <2> QED
    BY <1>1, <2>1 DEF Columns
<1> HIDE DEF columns
<1>4. columns # NoUser
  BY <1>3, TablesAssumption
<1>5. live' = live
  BY <1>1, <1>2, <1>4 DEF live, TablesTypeOK
<1>6. /\ users' \in [UserIds -> Columns \cup {NoUser}]
      /\ user_tokens' = user_tokens /\ serial' = serial
  <2>1. users' \in [UserIds -> Columns \cup {NoUser}]
    BY <1>2, <1>3 DEF TablesTypeOK
  <2> QED
    BY <2>1 DEF updateById
<1>7. CASE dto.claims = Undefined
  <2>1. user_claims' = user_claims
    BY <1>7 DEF updateById
  <2> QED
    BY <1>5, <1>6, <2>1 DEF KeysHold, TablesTypeOK
<1>8. CASE dto.claims # Undefined
  <2>1. dto.claims \in Records!Claims
    BY <1>8 DEF Records!PatchBody
  <2>2. user_claims' = deleteMany(id, upsert(id, dto.claims), DOMAIN dto.claims)
    BY <1>8 DEF updateById
  <2>3. \A c \in ClaimRows(id, dto.claims) : c \in ClaimRow /\ c.userId = id
    BY <2>1 DEF ClaimRows, ClaimRow, Records!Claims
  <2>4. \A c, d \in ClaimRows(id, dto.claims) : c.key = d.key => c = d
    BY DEF ClaimRows
  <2>5. user_claims' \subseteq ClaimRow
    BY <2>2, <2>3 DEF deleteMany, upsert, TablesTypeOK
  <2>6. \A c \in ClaimRows(id, dto.claims) : c.key \in DOMAIN dto.claims
    BY DEF ClaimRows
  <2>7. \A c, d \in user_claims' : c.userId = d.userId /\ c.key = d.key => c = d
    BY <2>2, <2>3, <2>4, <2>6 DEF deleteMany, upsert, KeysHold
  <2>8. \A c \in user_claims' : c.userId \in live
    BY <1>1, <2>2, <2>3 DEF deleteMany, upsert, KeysHold
  <2>9. TablesTypeOK'
    BY <1>6, <2>5 DEF TablesTypeOK
  <2>10. KeysHold'
    BY <1>5, <1>6, <2>7, <2>8 DEF KeysHold
  <2> QED
    BY <1>5, <2>9, <2>10
<1> QED
  BY <1>7, <1>8

LEMMA DeleteByIdKeeps ==
  ASSUME TablesTypeOK, KeysHold, now' = now, NEW id \in UserIds, deleteById(id)
  PROVE  TablesTypeOK' /\ KeysHold' /\ live' = live \ {id}
<1>1. live' = live \ {id}
  BY DEF deleteById, live, TablesTypeOK
<1> QED
  BY <1>1 DEF deleteById, KeysHold, TablesTypeOK

LEMMA CreateTokenKeeps ==
  ASSUME TablesTypeOK, KeysHold, now' = now,
         NEW id \in UserIds, NEW loginMethod, NEW value, createToken(id, loginMethod, value)
  PROVE  TablesTypeOK' /\ KeysHold' /\ live' = live
<1> DEFINE columns ==
      [users[id] EXCEPT !.updatedBy = DEFAULT_MODIFIED_BY, !.accessFailedCount = 0]
<1>1. id \in live /\ users[id] \in Columns
  BY DEF createToken, live, TablesTypeOK
<1>2. users' = [users EXCEPT ![id] = columns]
  BY DEF createToken, TablesTypeOK
<1>3. columns \in Columns
  BY <1>1 DEF Columns, Modifiers
<1> HIDE DEF columns
<1>4. columns # NoUser
  BY <1>3, TablesAssumption
<1>5. live' = live
  BY <1>1, <1>2, <1>4 DEF live, TablesTypeOK
<1>6. TablesTypeOK'
  BY <1>2, <1>3 DEF createToken, TablesTypeOK
<1>7. KeysHold'
  <2> DEFINE token == [userId |-> id, createdAt |-> now,
                       loginMethod |-> loginMethod, value |-> value]
  <2>1. /\ user_tokens' = user_tokens \cup {token}
        /\ user_claims' = user_claims /\ serial' = serial
        /\ \A t \in user_tokens : ~(t.userId = id /\ t.createdAt = now)
    BY DEF createToken
  <2>2. token.userId = id /\ token.createdAt = now
    OBVIOUS
  <2> HIDE DEF token
  <2> QED
    BY <1>1, <1>5, <2>1, <2>2 DEF KeysHold
<1> QED
  BY <1>5, <1>6, <1>7
-----------------------------------------------------------------------------
(* What any part of the service does to the tables, its arguments typed.   *)
TableStep ==
  \E id \in UserIds :
    \/ \E by \in Modifiers, username \in Usernames, password \in Passwords \cup {NoPassword},
          isLocked \in BOOLEAN, claims \in Records!Claims :
         InsertRow(id, by, username, password, isLocked, claims)
    \/ \E dto \in Records!PatchBody, by \in Modifiers : updateById(id, dto, by)
    \/ deleteById(id)
    \/ \E loginMethod, value : createToken(id, loginMethod, value)

LEMMA ParsedBodyType ==
  ASSUME NEW body \in Records!PatchBody
  PROVE  /\ Records!userCreateDtoSchema(body) \in Records!PatchBody
         /\ Records!userUpdateDtoSchema(body) \in Records!PatchBody
         /\ Records!userCreateDtoSchema(body).isLocked \in BOOLEAN
         /\ Records!userCreateDtoSchema(body).claims \in Records!Claims
         /\ Records!userCreateDtoSchema(body).username = body.username
         /\ Records!userCreateDtoSchema(body).password = body.password
<1>1. Records!NoClaims \in Records!Claims
  BY DEF Records!NoClaims, Records!Claims
<1> QED
  BY <1>1, TablesAssumption
     DEF Records!PatchBody, Records!userCreateDtoSchema, Records!userUpdateDtoSchema,
         Records!Given

LEMMA UpdatedRecordType ==
  ASSUME NEW u \in Records!UserRow, NEW dto \in Records!PatchBody
  PROVE  Records!Updated(u, dto) \in Records!UserRow
<1>1. dto.claims # Undefined => Records!updateClaims(u.claims, dto.claims) \in Records!Claims
  BY UpdateClaimsRecord DEF Records!UserRow, Records!PatchBody
<1> QED
  BY <1>1 DEF Records!Updated, Records!Given, Records!UserRow, Records!PatchBody

LEMMA TableStepKeeps ==
  ASSUME TablesTypeOK, KeysHold, now' = now, TableStep
  PROVE  TablesTypeOK' /\ KeysHold'
<1>1. PICK id \in UserIds :
        \/ \E by \in Modifiers, username \in Usernames, password \in Passwords \cup {NoPassword},
              isLocked \in BOOLEAN, claims \in Records!Claims :
             InsertRow(id, by, username, password, isLocked, claims)
        \/ \E dto \in Records!PatchBody, by \in Modifiers : updateById(id, dto, by)
        \/ deleteById(id)
        \/ \E loginMethod, value : createToken(id, loginMethod, value)
  BY Zenon DEF TableStep
<1> QED
  BY <1>1, InsertRowKeeps, UpdateByIdKeeps, DeleteByIdKeeps, CreateTokenKeeps, Zenon

(* The ids given to rows only grow in number.                              *)
LEMMA SerialGrows ==
  ASSUME TableStep
  PROVE  serial \subseteq serial'
<1>1. PICK id \in UserIds :
        \/ \E by \in Modifiers, username \in Usernames, password \in Passwords \cup {NoPassword},
              isLocked \in BOOLEAN, claims \in Records!Claims :
             InsertRow(id, by, username, password, isLocked, claims)
        \/ \E dto \in Records!PatchBody, by \in Modifiers : updateById(id, dto, by)
        \/ deleteById(id)
        \/ \E loginMethod, value : createToken(id, loginMethod, value)
  BY Zenon DEF TableStep
<1>2. ASSUME NEW by, NEW username, NEW password, NEW isLocked, NEW claims,
             InsertRow(id, by, username, password, isLocked, claims)
      PROVE  serial \subseteq serial'
  BY <1>2, Zenon DEF InsertRow
<1>3. ASSUME NEW dto, NEW by, updateById(id, dto, by)
      PROVE  serial' = serial
  BY <1>3, Zenon DEF updateById
<1>4. deleteById(id) => serial' = serial
  BY Zenon DEF deleteById
<1>5. ASSUME NEW loginMethod, NEW value, createToken(id, loginMethod, value)
      PROVE  serial' = serial
  BY <1>5, Zenon DEF createToken
<1> QED
  BY <1>1, <1>2, <1>3, <1>4, <1>5, Zenon

(* A step of the tables is a step of the records they stand for.           *)
LEMMA TableStepRecord ==
  ASSUME TablesTypeOK, KeysHold, TableStep
  PROVE  Records!StoreNext
<1>1. PICK id \in UserIds :
        \/ \E by \in Modifiers, username \in Usernames, password \in Passwords \cup {NoPassword},
              isLocked \in BOOLEAN, claims \in Records!Claims :
             InsertRow(id, by, username, password, isLocked, claims)
        \/ \E dto \in Records!PatchBody, by \in Modifiers : updateById(id, dto, by)
        \/ deleteById(id)
        \/ \E loginMethod, value : createToken(id, loginMethod, value)
  BY Zenon DEF TableStep
<1> DEFINE records == [o \in UserIds |-> Joined(o)]
<1>2. ASSUME NEW by \in Modifiers, NEW username \in Usernames,
             NEW password \in Passwords \cup {NoPassword}, NEW isLocked \in BOOLEAN,
             NEW claims \in Records!Claims,
             InsertRow(id, by, username, password, isLocked, claims)
      PROVE  Records!StoreNext
  <2> DEFINE u == [username |-> username, password |-> password, accessFailedCount |-> 0,
                   isLocked |-> isLocked, isLockedUntil |-> 0, claims |-> claims]
  <2>1. Records!InsertUser(id, u)
    BY <1>2, InsertRowRecord
  <2>2. u \in Records!UserRow
    BY DEF Records!UserRow
  <2> HIDE DEF u
  <2>3. records'[id] = u
    BY <2>1 DEF Records!InsertUser
  <2> QED
    BY <2>1, <2>2, <2>3, TablesAssumption DEF Records!StoreNext
<1>3. ASSUME NEW dto \in Records!PatchBody, NEW by \in Modifiers, updateById(id, dto, by)
      PROVE  Records!StoreNext
  <2> DEFINE u == Records!Updated(records[id], dto)
  <2>1. Records!UpdateUser(id, u)
    BY <1>3, UpdateByIdRecord DEF Records!updateById
  <2>2. u \in Records!UserRow
    BY <1>3, JoinedType, UpdatedRecordType DEF updateById
  <2> HIDE DEF u
  <2>3. records'[id] = u
    BY <2>1 DEF Records!UpdateUser
  <2> QED
    BY <2>1, <2>2, <2>3, TablesAssumption DEF Records!StoreNext
<1>4. CASE deleteById(id)
  BY <1>4, DeleteByIdRecord DEF Records!StoreNext
<1>5. ASSUME NEW loginMethod, NEW value, createToken(id, loginMethod, value)
      PROVE  Records!StoreNext
  <2> DEFINE token == [userId |-> id, createdAt |-> now,
                       loginMethod |-> loginMethod, value |-> value]
  <2>1. Records!createToken(id, loginMethod, value, now)
    BY <1>5, CreateTokenRecord
  <2>2. token \in user_tokens'
    BY <1>5 DEF createToken
  <2>3. Records!createToken(id, token.loginMethod, token.value, token.createdAt)
    BY <2>1
  <2> QED
    BY <2>2, <2>3 DEF Records!StoreNext
<1> QED
  BY <1>1, <1>2, <1>3, <1>4, <1>5, Zenon

LEMMA TablesKept ==
  ASSUME UNCHANGED tables
  PROVE  /\ UNCHANGED Records!storeVars
         /\ live' = live
         /\ KeysHold => KeysHold'
<1>1. live' = live
  BY DEF tables, live
<1>2. ASSUME NEW id \in UserIds PROVE Joined(id)' = Joined(id)
  BY JoinedKept DEF tables
<1>3. UNCHANGED Records!storeVars
  BY <1>1, <1>2 DEF Records!storeVars, tables
<1> QED
  BY <1>1, <1>3 DEF KeysHold, tables
-----------------------------------------------------------------------------
(* Who a statement signs a row for, and when a row says it was made.       *)
SignedBy(by) ==
  \A o \in live' :
    \/ o \notin serial /\ users'[o].createdBy = by /\ users'[o].updatedBy = by
    \/ /\ o \in live
       /\ users'[o].createdAt = users[o].createdAt
       /\ users'[o].createdBy = users[o].createdBy
       /\ users'[o].updatedBy \in {users[o].updatedBy, by}

LEMMA InsertRowSigned ==
  ASSUME TablesTypeOK, NEW id \in UserIds, NEW by, NEW username, NEW password,
         NEW isLocked, NEW claims, InsertRow(id, by, username, password, isLocked, claims)
  PROVE  SignedBy(by)
<1>1. \A o \in live' : o # id => o \in live /\ users'[o] = users[o]
  BY DEF InsertRow, live, TablesTypeOK
<1>2. users'[id].createdBy = by /\ users'[id].updatedBy = by
  BY DEF InsertRow, TablesTypeOK
<1>3. id \notin serial
  BY DEF InsertRow, NextIds
<1> QED
  BY <1>1, <1>2, <1>3 DEF SignedBy

LEMMA UpdateByIdSigned ==
  ASSUME TablesTypeOK, NEW id \in UserIds, NEW dto, NEW by, updateById(id, dto, by)
  PROVE  SignedBy(by)
<1> DEFINE columns ==
      [users[id] EXCEPT !.updatedBy = by,
                        !.username = Given(dto.username, @),
                        !.password = Given(dto.password, @),
                        !.isLocked = Given(dto.isLocked, @)]
<1>1. id \in live /\ users[id] \in Columns
  BY DEF updateById, live, TablesTypeOK
<1>2. users' = [users EXCEPT ![id] = columns]
  BY DEF updateById, TablesTypeOK
<1>3. /\ columns.createdAt = users[id].createdAt
      /\ columns.createdBy = users[id].createdBy
      /\ columns.updatedBy = by
  BY <1>1 DEF Columns
<1> HIDE DEF columns
<1>4. \A o \in live' : o # id => o \in live /\ users'[o] = users[o]
  BY <1>2 DEF live, TablesTypeOK
<1> QED
  BY <1>1, <1>2, <1>3, <1>4 DEF SignedBy, TablesTypeOK

LEMMA DeleteByIdSigned ==
  ASSUME TablesTypeOK, NEW id \in UserIds, NEW by, deleteById(id)
  PROVE  SignedBy(by)
  BY DEF deleteById, live, SignedBy, TablesTypeOK

LEMMA CreateTokenSigned ==
  ASSUME TablesTypeOK, NEW id \in UserIds, NEW loginMethod, NEW value,
         createToken(id, loginMethod, value)
  PROVE  SignedBy(DEFAULT_MODIFIED_BY)
<1> DEFINE columns ==
      [users[id] EXCEPT !.updatedBy = DEFAULT_MODIFIED_BY, !.accessFailedCount = 0]
<1>1. id \in live /\ users[id] \in Columns
  BY DEF createToken, live, TablesTypeOK
<1>2. users' = [users EXCEPT ![id] = columns]
  BY DEF createToken, TablesTypeOK
<1>3. /\ columns.createdAt = users[id].createdAt
      /\ columns.createdBy = users[id].createdBy
      /\ columns.updatedBy = DEFAULT_MODIFIED_BY
  BY <1>1 DEF Columns
<1> HIDE DEF columns
<1>4. \A o \in live' : o # id => o \in live /\ users'[o] = users[o]
  BY <1>2 DEF live, TablesTypeOK
<1> QED
  BY <1>1, <1>2, <1>3, <1>4 DEF SignedBy, TablesTypeOK
=============================================================================
