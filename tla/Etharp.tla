------------------------------- MODULE Etharp -------------------------------
(***************************************************************************)
(* The ARP cache of lwIP (netif/etharp.c) as this firmware builds it:      *)
(* ARP_QUEUEING, ETHARP_TRUST_IP_MAC and LWIP_NETIF_HWADDRHINT are 0, the  *)
(* address and the gateway are static (netconf.c).  All of it runs in      *)
(* tcpip_thread, so a call is one step; what interleaves are packets to    *)
(* send, ARP packets of any host in any order, and the five second timer.  *)
(***************************************************************************)
EXTENDS Integers

CONSTANTS Hosts,        \* unicast IP addresses of the local network
          Gateway,      \* netif->gw
          Far,          \* unicast addresses outside the local network
          NonUnicast,   \* broadcast, multicast and the any address
          Macs,         \* hardware addresses
          MacsOf,       \* the hardware addresses each sender may have
          GroupMac,     \* the hardware address of a broadcast or a group
          NoAddr,       \* the zeroes arp_table starts with
          TableSize,    \* ARP_TABLE_SIZE
          MaxAge,       \* ARP_MAXAGE
          MaxPending,   \* ARP_MAXPENDING
          CtimeMod      \* 256: ctime is a u8_t

ASSUME EtharpAssumption ==
    /\ Gateway \in Hosts
    /\ Hosts \cap NonUnicast = {} /\ Hosts \cap Far = {} /\ Far \cap NonUnicast = {}
    /\ MacsOf \in [Hosts \cup NonUnicast -> SUBSET Macs]
    /\ NoAddr \notin Hosts /\ NoAddr \notin Macs /\ GroupMac \notin Macs
    /\ TableSize \in Nat \ {0}
    /\ MaxAge \in Nat \ {0} /\ MaxPending \in Nat \ {0} /\ CtimeMod \in Nat
    /\ MaxAge < CtimeMod /\ MaxPending < CtimeMod

VARIABLES arp_table,            \* the cache
          etharp_cached_entry,  \* the slot find_entry returned last
          out,                  \* the frame the last call put on the link
          latest                \* ghost: each host's last announcement, while it is valid

vars == <<arp_table, etharp_cached_entry, out, latest>>

Slots == 0 .. (TableSize - 1)
ERR_MEM == -1

NoFrame == [type |-> "none", hop |-> NoAddr, dst |-> NoAddr]
NotHeard == [mac |-> NoAddr, age |-> MaxAge]

Entry == [state : {"EMPTY", "PENDING", "STABLE"}, ipaddr : Hosts \cup {NoAddr},
          ethaddr : Macs \cup {NoAddr}, ctime : 0 .. (CtimeMod - 1)]

Init ==
    /\ arp_table = [i \in Slots |-> [state |-> "EMPTY", ipaddr |-> NoAddr,
                                     ethaddr |-> NoAddr, ctime |-> 0]]
    /\ etharp_cached_entry = 0
    /\ out = NoFrame
    /\ latest = [h \in Hosts |-> NotHeard]

-----------------------------------------------------------------------------
(* find_entry *)

InState(s) == {i \in Slots : arp_table[i].state = s}

Matching(ip) == {i \in Slots : /\ arp_table[i].state # "EMPTY"
                               /\ arp_table[i].ipaddr = ip}

CacheHit(ip) == /\ arp_table[etharp_cached_entry].state = "STABLE"
                /\ arp_table[etharp_cached_entry].ipaddr = ip

First(S) == CHOOSE i \in S : \A j \in S : i <= j

\* Mutant: the youngest entry is recycled.
OldestIsYoungest(S) ==
    CHOOSE i \in S : \A j \in S :
        \/ arp_table[j].ctime > arp_table[i].ctime
        \/ arp_table[j].ctime = arp_table[i].ctime /\ j <= i

\* The sweep compares with >=: of two entries of one age the later one wins.
Oldest(S) ==
    CHOOSE i \in S : \A j \in S :
        \/ arp_table[j].ctime < arp_table[i].ctime
        \/ arp_table[j].ctime = arp_table[i].ctime /\ j <= i

\* b) choose the least destructive entry to recycle.
Candidate ==
    IF InState("EMPTY") # {} THEN First(InState("EMPTY"))
    ELSE IF InState("STABLE") # {} THEN Oldest(InState("STABLE"))
    ELSE Oldest(InState("PENDING"))

Recycled(i, ip) ==
    [arp_table EXCEPT ![i] =
        [state |-> "EMPTY", ipaddr |-> ip, ethaddr |-> @.ethaddr, ctime |-> 0]]

\* Mutant: the search ends at the first empty entry.
find_entryStopsAtEmpty(ip, hard) ==
    IF CacheHit(ip) THEN [i |-> etharp_cached_entry, table |-> arp_table]
    ELSE IF \E i \in Matching(ip) : \A e \in InState("EMPTY") : i < e
         THEN [i |-> First(Matching(ip)), table |-> arp_table]
    ELSE IF InState("EMPTY") = {} /\ ~hard THEN [i |-> ERR_MEM, table |-> arp_table]
    ELSE [i |-> Candidate, table |-> Recycled(Candidate, ip)]

\* The slot find_entry returns and the table it leaves.  hard is the flag
\* ETHARP_TRY_HARD; a match is found before any slot is recycled.
find_entry(ip, hard) ==
    IF CacheHit(ip) THEN [i |-> etharp_cached_entry, table |-> arp_table]
    ELSE IF Matching(ip) # {} THEN [i |-> First(Matching(ip)), table |-> arp_table]
    ELSE IF InState("EMPTY") = {} /\ ~hard THEN [i |-> ERR_MEM, table |-> arp_table]
    ELSE [i |-> Candidate, table |-> Recycled(Candidate, ip)]

Remember(i) == etharp_cached_entry' = IF i = ERR_MEM THEN etharp_cached_entry ELSE i

-----------------------------------------------------------------------------
(* Packets to send *)

Frame(type, hop, dst) == out' = [type |-> type, hop |-> hop, dst |-> dst]

\* etharp_raw: the pbuf of the request may not be available.
etharp_request(ip) ==
    \/ Frame("ARP", ip, GroupMac)
    \/ out' = NoFrame

\* Mutant: a repeated query starts the time limit again.
etharp_queryRenews(ip) ==
    LET f == find_entry(ip, TRUE)
    IN  /\ Remember(f.i)
        /\ IF f.table[f.i].state = "STABLE"
           THEN arp_table' = f.table /\ Frame("IP", ip, f.table[f.i].ethaddr)
           ELSE /\ arp_table' = [f.table EXCEPT ![f.i].state = "PENDING", ![f.i].ctime = 0]
                /\ etharp_request(ip)

\* Mutant: a packet is sent to an entry that is still pending.
etharp_querySendsPending(ip) ==
    LET f == find_entry(ip, TRUE)
    IN  /\ Remember(f.i)
        /\ IF f.table[f.i].state = "EMPTY"
           THEN arp_table' = [f.table EXCEPT ![f.i].state = "PENDING"] /\ etharp_request(ip)
           ELSE arp_table' = f.table /\ Frame("IP", ip, f.table[f.i].ethaddr)

\* Without queueing, a packet for a host whose address is pending is dropped.
etharp_query(ip) ==
    LET f == find_entry(ip, TRUE)
    IN  /\ Remember(f.i)
        /\ IF f.i = ERR_MEM
           THEN arp_table' = arp_table /\ out' = NoFrame
           ELSE IF f.table[f.i].state = "STABLE"
           THEN arp_table' = f.table /\ Frame("IP", ip, f.table[f.i].ethaddr)
           ELSE arp_table' = [f.table EXCEPT ![f.i].state = "PENDING"] /\ etharp_request(ip)

\* Room for the header is always there and the gateway is always set, so
\* ERR_BUF and ERR_RTE do not occur.
etharp_output(dst) ==
    /\ \/ dst \in NonUnicast /\ Frame("IP", dst, GroupMac)
                             /\ UNCHANGED <<arp_table, etharp_cached_entry>>
       \/ dst \in Hosts /\ etharp_query(dst)
       \/ dst \in Far /\ etharp_query(Gateway)
    /\ UNCHANGED latest

-----------------------------------------------------------------------------
(* Packets received *)

\* Mutant: an entry that is stable is not updated.
update_arp_entryOnce(ip, mac, hard) ==
    IF ip \in NonUnicast
    THEN UNCHANGED <<arp_table, etharp_cached_entry>>
    ELSE LET f == find_entry(ip, hard)
         IN  /\ Remember(f.i)
             /\ arp_table' =
                  IF f.i = ERR_MEM \/ f.table[f.i].state = "STABLE" THEN arp_table
                  ELSE [f.table EXCEPT ![f.i] =
                           [state |-> "STABLE", ipaddr |-> @.ipaddr, ethaddr |-> mac, ctime |-> 0]]

update_arp_entry(ip, mac, hard) ==
    IF ip \in NonUnicast
    THEN UNCHANGED <<arp_table, etharp_cached_entry>>
    ELSE LET f == find_entry(ip, hard)
         IN  /\ Remember(f.i)
             /\ arp_table' =
                  IF f.i = ERR_MEM THEN arp_table
                  ELSE [f.table EXCEPT ![f.i] =
                           [state |-> "STABLE", ipaddr |-> @.ipaddr, ethaddr |-> mac, ctime |-> 0]]

Heard(ip, mac) ==
    latest' = IF ip \in Hosts THEN [latest EXCEPT ![ip] = [mac |-> mac, age |-> 0]]
              ELSE latest

\* Mutant: every ARP packet may recycle an entry.
etharp_arp_inputAlwaysHard(sip, mac, for_us, op) ==
    /\ update_arp_entry(sip, mac, TRUE)
    /\ Heard(sip, mac)
    /\ IF op = "REQUEST" /\ for_us THEN Frame("ARP", sip, mac) ELSE out' = NoFrame

\* The sender of any ARP packet is entered, with recycling only when the
\* packet is for us (its target is netif->ip_addr); a request for us is answered.
etharp_arp_input(sip, mac, for_us, op) ==
    /\ update_arp_entry(sip, mac, for_us)
    /\ Heard(sip, mac)
    /\ IF op = "REQUEST" /\ for_us THEN Frame("ARP", sip, mac) ELSE out' = NoFrame

\* An IP frame (ETHARP_TRUST_IP_MAC is 0), another type, or an ARP packet that
\* is too short or not IPv4 over Ethernet: the cache is left alone.
NotForArp == out' = NoFrame /\ UNCHANGED <<arp_table, etharp_cached_entry, latest>>

\* Hosts stands for every sender of ARP packets: update_arp_entry does not ask
\* whether the address is one of the local network.
ethernet_input ==
    \/ \E sip \in Hosts \cup NonUnicast, for_us \in BOOLEAN, op \in {"REQUEST", "REPLY"} :
           \E mac \in MacsOf[sip] : etharp_arp_input(sip, mac, for_us, op)
    \/ NotForArp

-----------------------------------------------------------------------------
(* The timer *)

Expired(e) == \/ e.state = "STABLE" /\ e.ctime >= MaxAge
              \/ e.state = "PENDING" /\ e.ctime >= MaxPending

Older(e) == [e EXCEPT !.ctime = (@ + 1) % CtimeMod]

etharp_tmr ==
    /\ arp_table' = [i \in Slots |->
           LET e == Older(arp_table[i])
           IN  IF Expired(e) THEN [e EXCEPT !.state = "EMPTY"] ELSE e]
    /\ latest' = [h \in Hosts |->
           IF latest[h].age + 1 < MaxAge THEN [latest[h] EXCEPT !.age = @ + 1] ELSE NotHeard]
    /\ out' = NoFrame
    /\ UNCHANGED etharp_cached_entry

Next ==
    \/ \E dst \in Hosts \cup Far \cup NonUnicast : etharp_output(dst)
    \/ ethernet_input
    \/ etharp_tmr

Spec == Init /\ [][Next]_vars

\* tcpip_thread arms arp_timer again each time it runs (SysTimeouts, PeriodicRuns)
\* and gets to it as long as its mailbox runs empty now and then.
FairSpec == Spec /\ WF_vars(etharp_tmr)

-----------------------------------------------------------------------------
(* Properties *)

\* The state stays in its types; ctime is a byte and wraps (struct
\* etharp_entry, etharp_tmr).
TypeOK ==
    /\ arp_table \in [Slots -> Entry]
    /\ etharp_cached_entry \in Slots
    /\ out \in [type : {"none", "IP", "ARP"}, hop : Hosts \cup NonUnicast \cup {NoAddr},
                dst : Macs \cup {GroupMac, NoAddr}]
    /\ latest \in [Hosts -> [mac : Macs \cup {NoAddr}, age : 0 .. MaxAge]]

\* No host has two entries: find_entry searches the whole table before it
\* creates one, whatever was expired, recycled or cached in between.
NoDuplicates ==
    \A i, j \in Slots :
        /\ arp_table[i].state # "EMPTY" /\ arp_table[j].state # "EMPTY"
        /\ arp_table[i].ipaddr = arp_table[j].ipaddr
        => i = j

\* A stable entry holds the address its host announced last, and its ctime is
\* the age of that announcement: a slot that was expired, recycled or resolved
\* for another host shows nothing of its past.
StableIsLatest ==
    \A i \in Slots : arp_table[i].state = "STABLE" =>
        /\ arp_table[i].ipaddr \in Hosts
        /\ latest[arp_table[i].ipaddr] =
              [mac |-> arp_table[i].ethaddr, age |-> arp_table[i].ctime]
        /\ arp_table[i].ctime < MaxAge

\* An IP packet for a host, or through the gateway, is sent only to the
\* address that host announced last, and less than ARP_MAXAGE ticks ago.
UnicastToOwner ==
    out.type = "IP" /\ out.hop \in Hosts =>
        out.dst = latest[out.hop].mac /\ latest[out.hop].age < MaxAge

Known(ip) == Matching(ip) # {}

\* A host is forgotten only when its entry expires or when the table is full;
\* a stable entry then goes only if no stable one is older, a pending one only
\* if nothing is stable and no pending one is older (find_entry's choice).
ForgetsLeastValuable ==
    [][\A h \in Hosts : \A i \in Matching(h) :
          ~Known(h)' =>
              \/ Expired(Older(arp_table[i])) /\ arp_table'[i].state = "EMPTY"
              \/ /\ InState("EMPTY") = {}
                 /\ InState("STABLE") # {} => arp_table[i].state = "STABLE"
                 /\ \A j \in InState(arp_table[i].state) :
                        arp_table[j].ctime <= arp_table[i].ctime
      ]_vars

\* ARP packets between other hosts are entered while there is room, but never
\* push out a host we know: recycling is kept for packets that are for us.
SnoopingForgetsNone ==
    [][(\E h \in Hosts : Known(h) /\ ~Known(h)') =>
          ~ \E sip \in Hosts : \E mac \in MacsOf[sip] :
                etharp_arp_input(sip, mac, FALSE, "REQUEST")
      ]_vars

\* A query that is not answered does not occupy its entry for ever, however
\* often it is repeated: it is answered, recycled or expires.
PendingEnds ==
    \A i \in Slots, h \in Hosts :
        (arp_table[i].state = "PENDING" /\ arp_table[i].ipaddr = h)
            ~> ~(arp_table[i].state = "PENDING" /\ arp_table[i].ipaddr = h)
=============================================================================
