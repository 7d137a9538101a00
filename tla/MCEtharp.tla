------------------------------ MODULE MCEtharp ------------------------------
(* Etharp on a table of two entries and three hosts, one of which changes  *)
(* its hardware address to one that is free, from one it shared.           *)
EXTENDS Etharp

CONSTANTS peer, mGw, mOld, mNew

MCMacsOf == [h \in Hosts \cup NonUnicast |->
                CASE h = Gateway -> {mGw}
                  [] h = peer    -> {mOld, mNew}
                  [] OTHER       -> {mOld}]
=============================================================================
