------------------------- MODULE MCEthereumLoginHistory -------------------------
(* Constants for checking EthereumLoginHistory with TLC.                   *)
EXTENDS MCEthereumLogin, EthereumLoginHistory
=============================================================================
