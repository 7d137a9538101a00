---------------------------- MODULE MCSysTimeouts ----------------------------
(***************************************************************************)
(* Two of tcpip_thread's timers and the port's own, with small intervals   *)
(* that keep the order of the real ones: TCP 250 ms, DHCP 500 ms, ARP 5 s. *)
(***************************************************************************)
EXTENDS SysTimeouts

MCStartup == <<"arp", "dhcp_fine">>
MCInterval == [h \in {"arp", "dhcp_fine", ARP_TMR, TCP_TMR} |->
                 IF h \in {"arp", ARP_TMR} THEN 4 ELSE IF h = "dhcp_fine" THEN 2 ELSE 1]
==============================================================================
