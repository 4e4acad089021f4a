------------------------------- MODULE MCUsersApi -------------------------------
(* Constants for checking UsersApi with TLC: every body there is.          *)
EXTENDS UsersApi

CONSTANTS ann, bob, p1, p2, k1, k2, v
=============================================================================
