------------------------------- MODULE MCEthTx -------------------------------
(***************************************************************************)
(* Instances of EthTx for TLC: the two tasks of a build with USE_DHCP.     *)
(***************************************************************************)
EXTENDS EthTx
==============================================================================
