---------------------------- MODULE MCPasswordLogin ----------------------------
(* Constants for checking PasswordLogin with TLC.                          *)
EXTENDS PasswordLogin, TLC

CONSTANTS ann, bob, p1, p2, k, v

Nothing == [username |-> Undefined, password |-> Undefined,
            isLocked |-> Undefined, claims |-> Undefined]

OnePost == {[Nothing EXCEPT !.username = ann, !.password = p1]}

(* A lock and an unlock. *)
LockPatches == {[Nothing EXCEPT !.isLocked = TRUE], [Nothing EXCEPT !.isLocked = FALSE]}

(* A lock, and a change of what a login is decided on. *)
ChangePatches ==
  {[Nothing EXCEPT !.isLocked = TRUE],
   [Nothing EXCEPT !.password = p2, !.claims = k :> v]}

(* These, and a change of whose account it is along with all else a login  *)
(* is decided on.  Each resets what it leaves out, as a PATCH does here.   *)
NamePatches == ChangePatches \cup
  {[Nothing EXCEPT !.username = bob, !.password = p2, !.claims = k :> v]}

Symmetry == Permutations(Requests)
=============================================================================
