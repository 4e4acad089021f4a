---------------------------- MODULE MCEthereumLogin ----------------------------
(* Constants for checking EthereumLogin with TLC.                          *)
EXTENDS EthereumLogin, TLC

CONSTANTS a1, a2, p1

Nothing == [username |-> Undefined, password |-> Undefined,
            isLocked |-> Undefined, claims |-> Undefined]

(* An administrator may take the name of an address, and lock accounts.    *)
OnePost == {[Nothing EXCEPT !.username = a1, !.password = p1]}

(* The account of one address becomes that of another, and loses the claims*)
(* the PATCH leaves out.                                                   *)
RenamePatch == {[Nothing EXCEPT !.username = a2]}

LockPatch == {[Nothing EXCEPT !.isLocked = TRUE]}

Symmetry == Permutations(Requests) \cup Permutations(RequestIds)
=============================================================================
