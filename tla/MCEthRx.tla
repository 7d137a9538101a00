------------------------------- MODULE MCEthRx -------------------------------
(***************************************************************************)
(* Instances of EthRx for TLC; the configurations give the sizes.          *)
(***************************************************************************)
EXTENDS EthRx
==============================================================================
