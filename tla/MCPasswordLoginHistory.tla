------------------------- MODULE MCPasswordLoginHistory -------------------------
(* Constants for checking PasswordLoginHistory with TLC.                   *)
EXTENDS MCPasswordLogin, PasswordLoginHistory
=============================================================================
