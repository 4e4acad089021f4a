----------------------------- MODULE MCIdpService -----------------------------
(* Constants for checking IdpService with TLC.                             *)
EXTENDS IdpService, TLC

Nothing == [username |-> Undefined, password |-> Undefined,
            isLocked |-> Undefined, claims |-> Undefined]

OnePost == {[Nothing EXCEPT !.username = "bob", !.password = "p1"]}

(* One makes an administrator whose claims name somebody else as "sub"; the*)
(* other renames, and takes every claim, as a PATCH without claims does.   *)
TwoPatches ==
  {[Nothing EXCEPT !.claims = ("users" :> "admin") @@ ("sub" :> "bob")],
   [Nothing EXCEPT !.username = "bob"]}
=============================================================================
