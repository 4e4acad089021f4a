-------------------------------- MODULE UserCli --------------------------------
(***************************************************************************)
(* The `user` commands of the CLI (cli/app-action-commands.ts).  Each is a *)
(* process of its own beside the server: add sends one statement, delete   *)
(* looks the user up by name and then deletes by id.                       *)
(***************************************************************************)
EXTENDS RelationalStore

CONSTANT Commands   \* delete commands that run at a time

ASSUME CliAssumption == "users" \in ClaimKeys /\ "admin" \in ClaimValues

VARIABLE found      \* found[c]: the user delete command c has looked up

CliInit == found = [c \in Commands |-> NoUser]

adminClaims == [key \in {"users"} |-> "admin"]

addUser(username, password) ==
  /\ \E id \in UserIds :
       create(id, [username |-> username, password |-> password,
                   isLocked |-> FALSE, claims |-> adminClaims], DEFAULT_MODIFIED_BY)
  /\ UNCHANGED <<now, found>>

(* No such user: the command throws and changes nothing. *)
findUser(c, username) ==
  /\ found[c] = NoUser
  /\ \E id \in live :
       /\ users[id].username = username
       /\ found' = [found EXCEPT ![c] =
            [id |-> id, username |-> username, createdAt |-> users[id].createdAt]]
  /\ UNCHANGED <<now, tables>>

deleteUser(c) ==
  /\ found[c] # NoUser
  /\ deleteById(found[c].id)
  /\ found' = [found EXCEPT ![c] = NoUser]
  /\ UNCHANGED now

(* The statement is rejected, or the command is interrupted. *)
commandFails(c) ==
  /\ found[c] # NoUser
  /\ found' = [found EXCEPT ![c] = NoUser]
  /\ UNCHANGED <<now, tables>>

CliNext ==
  \/ \E username \in Usernames, password \in Passwords : addUser(username, password)
  \/ \E c \in Commands :
       \/ \E username \in Usernames : findUser(c, username)
       \/ deleteUser(c)
       \/ commandFails(c)
-----------------------------------------------------------------------------
(* A delete command deletes the user it looked up, although it names it by *)
(* an id only, and that user may be renamed or deleted, and its name taken *)
(* by another, before the delete arrives.                                  *)
DeletesUserFound ==
  [][\A c \in Commands : found[c] # NoUser =>
       LET id == found[c].id
       IN  /\ id \in live /\ id \notin live'
           /\ found'[c] = NoUser
           => users[id].createdAt = found[c].createdAt]_<<now, tables, found>>
=============================================================================
