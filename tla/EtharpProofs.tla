---------------------------- MODULE EtharpProofs ----------------------------
(***************************************************************************)
(* The ARP cache for every table size, every number of hosts and every     *)
(* pair of time limits.                                                    *)
(***************************************************************************)
EXTENDS Etharp, WellFoundedInduction, TLAPS

LessNat == OpToRel(<, Nat)

\* Every non-empty set of natural numbers has a least element.
LEMMA LeastNat ==
    ASSUME NEW S \in SUBSET Nat, S # {}
    PROVE  \E x \in S : \A y \in S : x <= y
<1>1. IsWellFoundedOn(LessNat, Nat)
    BY NatLessThanWellFounded DEF LessNat
<1>2. PICK x \in S : \A y \in S : ~ (<<y, x>> \in LessNat)
    BY <1>1, WFMin
<1>3. \A y \in S : ~ (y < x)
    BY <1>2 DEF LessNat, OpToRel
<1> QED BY <1>3

\* The sweep's choices of find_entry are slots of the set they are taken from.
LEMMA FirstIn ==
    ASSUME NEW S \in SUBSET Slots, S # {}
    PROVE  First(S) \in S
<1>1. S \in SUBSET Nat
    BY DEF Slots
<1>2. \E i \in S : \A j \in S : i <= j
    BY <1>1, LeastNat
<1> QED BY <1>2 DEF First

LEMMA OldestIn ==
    ASSUME arp_table \in [Slots -> Entry], NEW S \in SUBSET Slots, S # {}
    PROVE  /\ Oldest(S) \in S
           /\ \A j \in S : arp_table[j].ctime <= arp_table[Oldest(S)].ctime
<1> USE EtharpAssumption
<1> DEFINE Young == {CtimeMod - arp_table[i].ctime : i \in S}
<1>1. \A i \in S : arp_table[i].ctime \in 0 .. (CtimeMod - 1) /\ i \in 0 .. (TableSize - 1)
    BY DEF Slots, Entry
<1>2. Young \in SUBSET Nat /\ Young # {}
    BY <1>1
<1> HIDE DEF Young
<1>3. PICK y \in Young : \A z \in Young : y <= z
    BY <1>2, LeastNat
<1>4. PICK a \in S : y = CtimeMod - arp_table[a].ctime
    BY <1>3 DEF Young
<1>5. \A j \in S : arp_table[j].ctime <= arp_table[a].ctime
    BY <1>1, <1>3, <1>4 DEF Young
<1> DEFINE Late == {TableSize - i : i \in {j \in S : arp_table[j].ctime = arp_table[a].ctime}}
<1>6. Late \in SUBSET Nat /\ Late # {}
    BY <1>1
<1> HIDE DEF Late
<1>7. PICK l \in Late : \A z \in Late : l <= z
    BY <1>6, LeastNat
<1>8. PICK b \in S : arp_table[b].ctime = arp_table[a].ctime /\ l = TableSize - b
    BY <1>7 DEF Late
<1>9. ASSUME NEW j \in S, arp_table[j].ctime = arp_table[a].ctime
      PROVE  j <= b
  <2>1. TableSize - j \in Late
      BY <1>9 DEF Late
  <2>2. l <= TableSize - j
      BY <1>7, <2>1
  <2> QED BY <1>1, <1>8, <2>2
<1>10. \A j \in S : \/ arp_table[j].ctime < arp_table[b].ctime
                    \/ arp_table[j].ctime = arp_table[b].ctime /\ j <= b
    BY <1>1, <1>5, <1>8, <1>9
<1> DEFINE k == Oldest(S)
<1>11. k \in S /\ \A j \in S : \/ arp_table[j].ctime < arp_table[k].ctime
                               \/ arp_table[j].ctime = arp_table[k].ctime /\ j <= k
    BY <1>10 DEF Oldest
<1> HIDE DEF k
<1>12. \A j \in S : arp_table[j].ctime <= arp_table[k].ctime
    BY <1>1, <1>11
<1> QED BY <1>11, <1>12 DEF k

\* The slot that find_entry recycles exists: the table is never empty of slots,
\* so a caller that tries hard always gets an entry.
LEMMA CandidateIn ==
    ASSUME arp_table \in [Slots -> Entry]
    PROVE  Candidate \in Slots
<1>1. \A s : InState(s) \in SUBSET Slots
    BY DEF InState
<1>2. 0 \in Slots
    BY EtharpAssumption DEF Slots
<1>3. InState("EMPTY") # {} \/ InState("STABLE") # {} \/ InState("PENDING") # {}
    BY <1>2 DEF InState, Entry
<1> QED BY <1>1, <1>3, FirstIn, OldestIn DEF Candidate

-----------------------------------------------------------------------------
\* What find_entry promises to its callers: a slot of the table or ERR_MEM, and
\* in the slot either the host's own entry or a fresh one in state EMPTY, with
\* every other entry as it was and none of them for this host.
LEMMA FindEntry ==
    ASSUME TypeOK, NoDuplicates, NEW ip \in Hosts, NEW hard \in BOOLEAN
    PROVE  LET f == find_entry(ip, hard)
           IN  /\ f.i \in Slots \cup {ERR_MEM}
               /\ f.table \in [Slots -> Entry]
               /\ f.i = ERR_MEM => f.table = arp_table /\ ~hard /\ Matching(ip) = {}
               /\ f.i \in Slots =>
                    /\ f.table[f.i].ipaddr = ip
                    /\ \A j \in Slots \ {f.i} :
                          /\ f.table[j] = arp_table[j]
                          /\ arp_table[j].state # "EMPTY" => arp_table[j].ipaddr # ip
                    /\ \/ f.table[f.i] = arp_table[f.i] /\ arp_table[f.i].state # "EMPTY"
                       \/ f.table[f.i].state = "EMPTY" /\ (hard \/ arp_table[f.i].state = "EMPTY")
<1> USE DEF ERR_MEM
<1>0. ERR_MEM \notin Slots
    BY DEF Slots
<1>1. arp_table \in [Slots -> Entry] /\ etharp_cached_entry \in Slots
    BY DEF TypeOK
<1>2. CASE CacheHit(ip)
  <2>1. find_entry(ip, hard) = [i |-> etharp_cached_entry, table |-> arp_table]
      BY <1>2 DEF find_entry
  <2> QED BY <1>0, <1>1, <1>2, <2>1 DEF CacheHit, NoDuplicates
<1>3. CASE ~CacheHit(ip) /\ Matching(ip) # {}
  <2> DEFINE k == First(Matching(ip))
  <2>1. k \in Matching(ip)
      BY <1>3, FirstIn DEF Matching
  <2>2. find_entry(ip, hard) = [i |-> k, table |-> arp_table]
      BY <1>3 DEF find_entry
  <2> HIDE DEF k
  <2> QED BY <1>0, <1>1, <2>1, <2>2 DEF Matching, NoDuplicates
<1>4. CASE ~CacheHit(ip) /\ Matching(ip) = {} /\ InState("EMPTY") = {} /\ ~hard
  <2>1. find_entry(ip, hard) = [i |-> ERR_MEM, table |-> arp_table]
      BY <1>4 DEF find_entry
  <2> QED BY <1>0, <1>1, <1>4, <2>1
<1>5. CASE ~CacheHit(ip) /\ Matching(ip) = {} /\ ~(InState("EMPTY") = {} /\ ~hard)
  <2> DEFINE k == Candidate
  <2>1. k \in Slots
      BY <1>1, CandidateIn
  <2>2. find_entry(ip, hard) = [i |-> k, table |-> Recycled(k, ip)]
      BY <1>5 DEF find_entry
  <2> HIDE DEF k
  <2>3. /\ Recycled(k, ip) \in [Slots -> Entry]
        /\ Recycled(k, ip)[k].ipaddr = ip
        /\ Recycled(k, ip)[k].state = "EMPTY"
        /\ \A j \in Slots \ {k} : Recycled(k, ip)[j] = arp_table[j]
    <3> DEFINE e == [state |-> "EMPTY", ipaddr |-> ip, ethaddr |-> arp_table[k].ethaddr, ctime |-> 0]
    <3>1. arp_table[k] \in Entry
        BY <1>1, <2>1
    <3>a. 0 \in 0 .. (CtimeMod - 1)
        BY EtharpAssumption
    <3>2. e \in Entry /\ e.ipaddr = ip /\ e.state = "EMPTY"
        BY <3>1, <3>a DEF Entry
    <3>3. Recycled(k, ip) = [arp_table EXCEPT ![k] = e]
        BY DEF Recycled
    <3> HIDE DEF e
    <3> QED BY <1>1, <2>1, <3>2, <3>3
  <2>4. \A j \in Slots : arp_table[j].state # "EMPTY" => arp_table[j].ipaddr # ip
      BY <1>5 DEF Matching
  <2>5. hard \/ arp_table[k].state = "EMPTY"
    <3>1. InState("EMPTY") # {} => k \in InState("EMPTY")
        BY FirstIn DEF k, Candidate, InState
    <3> QED BY <1>5, <3>1 DEF InState
  <2> QED BY <1>0, <2>1, <2>2, <2>3, <2>4, <2>5
<1> QED BY <1>2, <1>3, <1>4, <1>5

-----------------------------------------------------------------------------
\* The inductive invariant.  UnicastToOwner needs the two others: a packet goes
\* to the address in the slot that find_entry returns, and that is the host's
\* only because no other entry of the host exists and the slot is up to date.
Cache == arp_table \in [Slots -> Entry] /\ etharp_cached_entry \in Slots
Heards == latest \in [Hosts -> [mac : Macs \cup {NoAddr}, age : 0 .. MaxAge]]
Frames == out \in [type : {"none", "IP", "ARP"}, hop : Hosts \cup NonUnicast \cup {NoAddr},
                   dst : Macs \cup {GroupMac, NoAddr}]
IInv == TypeOK /\ NoDuplicates /\ StableIsLatest /\ UnicastToOwner

LEMMA InitInv == Init => IInv
<1> SUFFICES ASSUME Init PROVE IInv
    OBVIOUS
<1> USE EtharpAssumption DEF Init
<1>1. 0 \in Slots /\ 0 \in 0 .. (CtimeMod - 1) /\ MaxAge \in 0 .. MaxAge
    BY DEF Slots
<1>2. TypeOK
    BY <1>1 DEF TypeOK, Entry, NoFrame, NotHeard
<1>3. NoDuplicates /\ StableIsLatest
    BY DEF NoDuplicates, StableIsLatest
<1>4. UnicastToOwner
    BY DEF UnicastToOwner, NoFrame
<1> QED BY <1>2, <1>3, <1>4 DEF IInv

\* Entering the sender of an ARP packet keeps the cache right.
LEMMA UpdateInv ==
    ASSUME IInv, NEW ip \in Hosts, NEW mac \in Macs, NEW hard \in BOOLEAN,
           update_arp_entry(ip, mac, hard), Heard(ip, mac)
    PROVE  Cache' /\ Heards' /\ NoDuplicates' /\ StableIsLatest'
<1> DEFINE f == find_entry(ip, hard)
<1>1. TypeOK /\ NoDuplicates /\ StableIsLatest
    BY DEF IInv
<1>2. /\ f.i \in Slots \cup {ERR_MEM}
      /\ f.table \in [Slots -> Entry]
      /\ f.i = ERR_MEM => Matching(ip) = {}
      /\ f.i \in Slots =>
           /\ f.table[f.i].ipaddr = ip
           /\ \A j \in Slots \ {f.i} :
                 /\ f.table[j] = arp_table[j]
                 /\ arp_table[j].state # "EMPTY" => arp_table[j].ipaddr # ip
    BY <1>1, FindEntry
<1>3. /\ etharp_cached_entry' = IF f.i = ERR_MEM THEN etharp_cached_entry ELSE f.i
      /\ arp_table' = IF f.i = ERR_MEM THEN arp_table
                      ELSE [f.table EXCEPT ![f.i] =
                              [state |-> "STABLE", ipaddr |-> @.ipaddr, ethaddr |-> mac, ctime |-> 0]]
    BY EtharpAssumption DEF update_arp_entry, Remember
<1>4. latest' = [latest EXCEPT ![ip] = [mac |-> mac, age |-> 0]]
    BY DEF Heard
<1> HIDE DEF f
<1>5. ERR_MEM \notin Slots
    BY DEF Slots, ERR_MEM
<1>6. Heards'
    BY <1>1, <1>4, EtharpAssumption DEF TypeOK, Heards
<1>7. CASE f.i = ERR_MEM
  <2>1. arp_table' = arp_table /\ etharp_cached_entry' = etharp_cached_entry
      BY <1>3, <1>7
  <2>2. \A j \in Slots : arp_table[j].state # "EMPTY" => arp_table[j].ipaddr # ip
      BY <1>2, <1>7 DEF Matching
  <2>3. Cache' /\ NoDuplicates'
      BY <1>1, <2>1 DEF TypeOK, Cache, NoDuplicates
  <2>4. StableIsLatest'
    <3> SUFFICES ASSUME NEW j \in Slots, arp_table'[j].state = "STABLE"
                 PROVE  /\ arp_table'[j].ipaddr \in Hosts
                        /\ latest'[arp_table'[j].ipaddr] =
                              [mac |-> arp_table'[j].ethaddr, age |-> arp_table'[j].ctime]
                        /\ arp_table'[j].ctime < MaxAge
        BY DEF StableIsLatest
    <3>1. arp_table[j].ipaddr # ip /\ arp_table[j].ipaddr \in Hosts
        BY <1>1, <2>1, <2>2 DEF StableIsLatest
    <3>2. latest'[arp_table[j].ipaddr] = latest[arp_table[j].ipaddr]
        BY <1>1, <1>4, <3>1 DEF TypeOK
    <3> QED BY <1>1, <2>1, <3>2 DEF StableIsLatest
  <2> QED BY <1>6, <2>3, <2>4
<1>8. CASE f.i \in Slots
  <2> DEFINE e == [state |-> "STABLE", ipaddr |-> ip, ethaddr |-> mac, ctime |-> 0]
  <2>1. arp_table' = [f.table EXCEPT ![f.i] = e] /\ etharp_cached_entry' = f.i
      BY <1>2, <1>3, <1>5, <1>8
  <2>2. 0 \in 0 .. (CtimeMod - 1)
      BY EtharpAssumption
  <2>3. e \in Entry
      BY <2>2 DEF Entry
  <2>4. /\ arp_table'[f.i] = e
        /\ \A j \in Slots \ {f.i} : arp_table'[j] = arp_table[j]
      BY <1>2, <1>8, <2>1
  <2>5. Cache'
      BY <1>2, <1>8, <2>1, <2>3 DEF Cache
  <2>6. NoDuplicates'
      BY <1>1, <1>2, <1>8, <2>4 DEF NoDuplicates
  <2>7. StableIsLatest'
    <3> SUFFICES ASSUME NEW j \in Slots, arp_table'[j].state = "STABLE"
                 PROVE  /\ arp_table'[j].ipaddr \in Hosts
                        /\ latest'[arp_table'[j].ipaddr] =
                              [mac |-> arp_table'[j].ethaddr, age |-> arp_table'[j].ctime]
                        /\ arp_table'[j].ctime < MaxAge
        BY DEF StableIsLatest
    <3>1. CASE j = f.i
        BY <1>1, <1>4, <2>4, <3>1, EtharpAssumption DEF TypeOK
    <3>2. CASE j # f.i
      <4>1. arp_table'[j] = arp_table[j] /\ arp_table[j].ipaddr # ip /\ arp_table[j].ipaddr \in Hosts
          BY <1>1, <1>2, <1>8, <2>4, <3>2 DEF StableIsLatest
      <4>2. latest'[arp_table[j].ipaddr] = latest[arp_table[j].ipaddr]
          BY <1>1, <1>4, <4>1 DEF TypeOK
      <4> QED BY <1>1, <4>1, <4>2 DEF StableIsLatest
    <3> QED BY <3>1, <3>2
  <2> QED BY <1>6, <2>5, <2>6, <2>7
<1> QED BY <1>2, <1>7, <1>8

\* Looking a host up for a packet keeps the cache right, and the packet goes
\* out only to a stable entry of the host.
LEMMA QueryInv ==
    ASSUME IInv, NEW ip \in Hosts, etharp_query(ip), latest' = latest
    PROVE  Cache' /\ Frames' /\ NoDuplicates' /\ StableIsLatest' /\ UnicastToOwner'
<1> DEFINE f == find_entry(ip, TRUE)
<1>1. TypeOK /\ NoDuplicates /\ StableIsLatest
    BY DEF IInv
<1>2. /\ f.i \in Slots \cup {ERR_MEM}
      /\ f.table \in [Slots -> Entry]
      /\ f.i # ERR_MEM
      /\ f.i \in Slots =>
           /\ f.table[f.i].ipaddr = ip
           /\ \A j \in Slots \ {f.i} :
                 /\ f.table[j] = arp_table[j]
                 /\ arp_table[j].state # "EMPTY" => arp_table[j].ipaddr # ip
           /\ \/ f.table[f.i] = arp_table[f.i] /\ arp_table[f.i].state # "EMPTY"
              \/ f.table[f.i].state = "EMPTY"
    BY <1>1, FindEntry
<1>3. /\ etharp_cached_entry' = f.i
      /\ \/ /\ f.table[f.i].state = "STABLE"
            /\ arp_table' = f.table
            /\ out' = [type |-> "IP", hop |-> ip, dst |-> f.table[f.i].ethaddr]
         \/ /\ f.table[f.i].state # "STABLE"
            /\ arp_table' = [f.table EXCEPT ![f.i].state = "PENDING"]
            /\ out' \in {NoFrame, [type |-> "ARP", hop |-> ip, dst |-> GroupMac]}
    BY <1>2 DEF etharp_query, Remember, Frame, etharp_request
<1> HIDE DEF f
<1>4. f.i \in Slots
    BY <1>2
<1>5. CASE f.table[f.i].state = "STABLE"
  <2>1. arp_table' = f.table /\ f.table[f.i] = arp_table[f.i]
      BY <1>2, <1>3, <1>4, <1>5
  <2>2. arp_table' = arp_table
      BY <1>1, <1>2, <1>4, <2>1 DEF TypeOK
  <2>3. Cache' /\ NoDuplicates' /\ StableIsLatest'
      BY <1>1, <1>3, <1>4, <2>2 DEF TypeOK, Cache, NoDuplicates, StableIsLatest
  <2>4. arp_table[f.i].ipaddr = ip /\ arp_table[f.i].state = "STABLE" /\ arp_table[f.i] \in Entry
      BY <1>1, <1>2, <1>4, <1>5, <2>1 DEF TypeOK
  <2>5. out' = [type |-> "IP", hop |-> ip, dst |-> arp_table[f.i].ethaddr]
      BY <1>3, <1>5, <2>1
  <2>6. Frames'
      BY <2>4, <2>5 DEF Frames, Entry
  <2>7. latest[ip] = [mac |-> arp_table[f.i].ethaddr, age |-> arp_table[f.i].ctime]
        /\ arp_table[f.i].ctime < MaxAge
      BY <1>1, <1>4, <2>4 DEF StableIsLatest
  <2>8. UnicastToOwner'
      BY <2>5, <2>7 DEF UnicastToOwner
  <2> QED BY <2>3, <2>6, <2>8
<1>6. CASE f.table[f.i].state # "STABLE"
  <2> DEFINE e == [f.table[f.i] EXCEPT !.state = "PENDING"]
  <2>1. f.table[f.i] \in Entry
      BY <1>2, <1>4
  <2>2. e \in Entry /\ e.state = "PENDING" /\ e.ipaddr = ip
      BY <1>2, <1>4, <2>1 DEF Entry
  <2>3. arp_table' = [f.table EXCEPT ![f.i] = e]
      BY <1>3, <1>6
  <2> HIDE DEF e
  <2>4. /\ arp_table'[f.i] = e
        /\ \A j \in Slots \ {f.i} : arp_table'[j] = arp_table[j]
      BY <1>2, <1>4, <2>3
  <2>5. Cache'
      BY <1>2, <1>3, <1>4, <2>2, <2>3 DEF Cache
  <2>6. NoDuplicates'
      BY <1>1, <1>2, <1>4, <2>2, <2>4 DEF NoDuplicates
  <2>7. StableIsLatest'
      BY <1>1, <2>2, <2>4 DEF StableIsLatest
  <2>8. Frames' /\ UnicastToOwner'
      BY <1>3, <1>6 DEF Frames, UnicastToOwner, NoFrame
  <2> QED BY <2>5, <2>6, <2>7, <2>8
<1> QED BY <1>5, <1>6

\* A tick ages the entries and the announcements alike, and ends both at once.
LEMMA TmrInv ==
    ASSUME IInv, etharp_tmr
    PROVE  IInv'
<1> DEFINE e(i) == Older(arp_table[i])
<1> USE EtharpAssumption
<1>1. TypeOK /\ NoDuplicates /\ StableIsLatest
    BY DEF IInv
<1>2. ASSUME NEW i \in Slots
      PROVE  /\ e(i) \in Entry
             /\ e(i).state = arp_table[i].state
             /\ e(i).ipaddr = arp_table[i].ipaddr
             /\ e(i).ethaddr = arp_table[i].ethaddr
             /\ e(i).ctime = (arp_table[i].ctime + 1) % CtimeMod
  <2>1. arp_table[i] \in Entry
      BY <1>1 DEF TypeOK
  <2>2. (arp_table[i].ctime + 1) % CtimeMod \in 0 .. (CtimeMod - 1)
      BY <2>1 DEF Entry
  <2> QED BY <2>1, <2>2 DEF Older, Entry
<1>3. ASSUME NEW i \in Slots
      PROVE  /\ arp_table'[i] \in Entry
             /\ arp_table'[i].ipaddr = arp_table[i].ipaddr
             /\ arp_table'[i].ethaddr = arp_table[i].ethaddr
             /\ arp_table'[i].ctime = (arp_table[i].ctime + 1) % CtimeMod
             /\ arp_table'[i].state # "EMPTY" => arp_table'[i].state = arp_table[i].state
             /\ arp_table'[i].state = "STABLE" => arp_table'[i].ctime < MaxAge
  <2>1. arp_table'[i] = IF Expired(e(i)) THEN [e(i) EXCEPT !.state = "EMPTY"] ELSE e(i)
      BY DEF etharp_tmr
  <2>2. CASE Expired(e(i))
      BY <1>2, <2>1, <2>2 DEF Entry
  <2>3. CASE ~Expired(e(i))
    <3> DEFINE d == e(i)
    <3>1. d \in Entry /\ arp_table'[i] = d
        BY <1>2, <2>1, <2>3
    <3>2. ~Expired(d)
        BY <2>3
    <3> HIDE DEF d
    <3>3. d.state = "STABLE" => d.ctime < MaxAge
        BY <3>1, <3>2 DEF Expired, Entry
    <3> QED BY <1>2, <3>1, <3>3 DEF d
  <2> QED BY <2>2, <2>3
<1>4. Cache'
    BY <1>1, <1>3 DEF etharp_tmr, TypeOK, Cache
<1>5. NoDuplicates'
    BY <1>1, <1>3 DEF NoDuplicates
<1>6. Heards'
  <2> SUFFICES ASSUME NEW h \in Hosts
               PROVE  latest'[h] \in [mac : Macs \cup {NoAddr}, age : 0 .. MaxAge]
      BY DEF Heards, etharp_tmr
  <2>1. latest[h] \in [mac : Macs \cup {NoAddr}, age : 0 .. MaxAge]
      BY <1>1 DEF TypeOK
  <2>2. latest'[h] = IF latest[h].age + 1 < MaxAge
                     THEN [latest[h] EXCEPT !.age = latest[h].age + 1] ELSE NotHeard
      BY DEF etharp_tmr
  <2>3. MaxAge \in 0 .. MaxAge
      OBVIOUS
  <2> QED BY <2>1, <2>2, <2>3 DEF NotHeard
<1>7. StableIsLatest'
  <2> SUFFICES ASSUME NEW i \in Slots, arp_table'[i].state = "STABLE"
               PROVE  /\ arp_table'[i].ipaddr \in Hosts
                      /\ latest'[arp_table'[i].ipaddr] =
                            [mac |-> arp_table'[i].ethaddr, age |-> arp_table'[i].ctime]
                      /\ arp_table'[i].ctime < MaxAge
      BY DEF StableIsLatest
  <2> DEFINE h == arp_table[i].ipaddr
             c == arp_table[i].ctime
             n == arp_table[i].ethaddr
  <2>1. /\ arp_table[i].state = "STABLE" /\ arp_table'[i].ipaddr = h /\ arp_table'[i].ethaddr = n
        /\ arp_table'[i].ctime = (c + 1) % CtimeMod /\ arp_table'[i].ctime < MaxAge
      BY <1>3
  <2>2. h \in Hosts /\ latest[h] = [mac |-> n, age |-> c] /\ c < MaxAge
      BY <1>1, <2>1 DEF StableIsLatest
  <2>3. c \in 0 .. (CtimeMod - 1)
      BY <1>1 DEF TypeOK, Entry
  <2> HIDE DEF h, c, n
  <2>4. (c + 1) % CtimeMod = c + 1
      BY <2>2, <2>3
  <2>5. latest'[h] = IF c + 1 < MaxAge THEN [latest[h] EXCEPT !.age = c + 1] ELSE NotHeard
      BY <2>2 DEF etharp_tmr
  <2>6. latest'[h] = [mac |-> n, age |-> c + 1]
      BY <2>1, <2>2, <2>4, <2>5
  <2> QED BY <2>1, <2>2, <2>4, <2>6
<1>8. Frames' /\ UnicastToOwner'
    BY DEF etharp_tmr, Frames, UnicastToOwner, NoFrame
<1> QED BY <1>4, <1>5, <1>6, <1>7, <1>8 DEF IInv, TypeOK, Cache, Heards, Frames

LEMMA StutterInv == IInv /\ UNCHANGED vars => IInv'
BY DEF IInv, TypeOK, NoDuplicates, StableIsLatest, UnicastToOwner, vars

LEMMA NextInv ==
    ASSUME IInv, Next
    PROVE  IInv'
<1> USE EtharpAssumption
<1>1. TypeOK /\ NoDuplicates /\ StableIsLatest
    BY DEF IInv
<1>2. CASE \E dst \in Hosts \cup Far \cup NonUnicast : etharp_output(dst)
  <2>1. PICK dst \in Hosts \cup Far \cup NonUnicast : etharp_output(dst)
      BY <1>2
  <2>2. latest' = latest /\ Heards'
      BY <1>1, <2>1 DEF etharp_output, TypeOK, Heards
  <2>3. CASE \E ip \in Hosts : etharp_query(ip)
      BY <2>2, <2>3, QueryInv DEF IInv, TypeOK, Cache, Heards, Frames
  <2>4. CASE dst \in NonUnicast /\ Frame("IP", dst, GroupMac)
             /\ UNCHANGED <<arp_table, etharp_cached_entry>>
    <3>1. Frames'
        BY <2>4 DEF Frame, Frames
    <3>2. dst \notin Hosts
        BY <2>4
    <3>3. UnicastToOwner'
        BY <2>4, <3>2 DEF Frame, UnicastToOwner
    <3>4. Cache' /\ NoDuplicates' /\ StableIsLatest'
        BY <1>1, <2>2, <2>4 DEF TypeOK, Cache, NoDuplicates, StableIsLatest
    <3> QED BY <2>2, <3>1, <3>3, <3>4 DEF IInv, TypeOK, Cache, Heards, Frames
  <2> QED BY <2>1, <2>3, <2>4 DEF etharp_output
<1>3. ASSUME NEW sip \in Hosts \cup NonUnicast, NEW for_us \in BOOLEAN,
             NEW op \in {"REQUEST", "REPLY"}, NEW mac \in MacsOf[sip],
             etharp_arp_input(sip, mac, for_us, op)
      PROVE  IInv'
  <2>1. mac \in Macs
      OBVIOUS
  <2>2. out' = NoFrame \/ out' = [type |-> "ARP", hop |-> sip, dst |-> mac]
      BY <1>3 DEF etharp_arp_input, Frame
  <2>3. Frames' /\ UnicastToOwner'
      BY <2>1, <2>2 DEF Frames, UnicastToOwner, NoFrame
  <2>4. update_arp_entry(sip, mac, for_us) /\ Heard(sip, mac)
      BY <1>3 DEF etharp_arp_input
  <2>5. CASE sip \in Hosts
      BY <2>1, <2>3, <2>4, <2>5, UpdateInv DEF IInv, TypeOK, Cache, Heards, Frames
  <2>6. CASE sip \notin Hosts
    <3>1. UNCHANGED <<arp_table, etharp_cached_entry, latest>>
        BY <2>4, <2>6 DEF update_arp_entry, Heard
    <3> QED BY <1>1, <2>3, <3>1
            DEF IInv, TypeOK, Frames, NoDuplicates, StableIsLatest
  <2> QED BY <2>5, <2>6
<1>4. CASE NotForArp
  <2>1. Frames' /\ UnicastToOwner'
      BY <1>4 DEF NotForArp, Frames, UnicastToOwner, NoFrame
  <2> QED BY <1>1, <1>4, <2>1 DEF NotForArp, IInv, TypeOK, Frames, NoDuplicates, StableIsLatest
<1>5. CASE ethernet_input
    BY <1>3, <1>4, <1>5 DEF ethernet_input
<1>6. CASE etharp_tmr
    BY <1>6, TmrInv
<1> QED BY <1>2, <1>5, <1>6 DEF Next

\* The invariant holds of every run of the cache.
LEMMA EtharpInv == Spec => []IInv
<1>1. Init => IInv
    BY InitInv
<1>2. IInv /\ [Next]_vars => IInv'
    BY NextInv, StutterInv
<1> QED BY <1>1, <1>2, PTL DEF Spec

\* The cache keeps its types, for any table size and any time limits.
THEOREM EtharpTypes == Spec => []TypeOK
BY EtharpInv, PTL DEF IInv

\* find_entry never creates a second entry for a host.
THEOREM EtharpNoDuplicates == Spec => []NoDuplicates
BY EtharpInv, PTL DEF IInv

\* A stable entry holds its host's last announcement and the age of it.
THEOREM EtharpStableIsLatest == Spec => []StableIsLatest
BY EtharpInv, PTL DEF IInv

\* A unicast packet goes to the address its next hop announced last, and only
\* while that announcement is valid.
THEOREM EtharpUnicastToOwner == Spec => []UnicastToOwner
BY EtharpInv, PTL DEF IInv

\* An ARP packet that is not for us never makes the cache forget a host
\* (update_arp_entry without ETHARP_TRY_HARD).
THEOREM EtharpSnooping == Spec => SnoopingForgetsNone
<1> DEFINE Step == (\E h \in Hosts : Known(h) /\ ~Known(h)') =>
               ~ \E sip \in Hosts : \E mac \in MacsOf[sip] :
                     etharp_arp_input(sip, mac, FALSE, "REQUEST")
<1>1. IInv => Step
  <2> SUFFICES ASSUME IInv, NEW h \in Hosts, Known(h),
                      NEW sip \in Hosts, NEW mac \in MacsOf[sip],
                      etharp_arp_input(sip, mac, FALSE, "REQUEST")
               PROVE  Known(h)'
      OBVIOUS
  <2> DEFINE f == find_entry(sip, FALSE)
  <2>1. TypeOK /\ NoDuplicates
      BY DEF IInv
  <2>a. /\ f.i \in Slots \cup {ERR_MEM}
        /\ f.table \in [Slots -> Entry]
        /\ f.i = ERR_MEM => f.table = arp_table /\ ~FALSE /\ Matching(sip) = {}
        /\ f.i \in Slots =>
             /\ f.table[f.i].ipaddr = sip
             /\ \A j \in Slots \ {f.i} :
                   /\ f.table[j] = arp_table[j]
                   /\ arp_table[j].state # "EMPTY" => arp_table[j].ipaddr # sip
             /\ \/ f.table[f.i] = arp_table[f.i] /\ arp_table[f.i].state # "EMPTY"
                \/ f.table[f.i].state = "EMPTY" /\ (FALSE \/ arp_table[f.i].state = "EMPTY")
      BY <2>1, FindEntry, Zenon
  <2> HIDE DEF f
  <2>2. /\ f.i \in Slots \cup {ERR_MEM}
        /\ f.table \in [Slots -> Entry]
        /\ f.i \in Slots =>
             /\ f.table[f.i].ipaddr = sip
             /\ \A j \in Slots \ {f.i} : f.table[j] = arp_table[j]
             /\ \/ f.table[f.i] = arp_table[f.i]
                \/ arp_table[f.i].state = "EMPTY"
      BY <2>a
  <2>3. arp_table' = IF f.i = ERR_MEM THEN arp_table
                     ELSE [f.table EXCEPT ![f.i] =
                             [state |-> "STABLE", ipaddr |-> @.ipaddr, ethaddr |-> mac, ctime |-> 0]]
      BY EtharpAssumption DEF etharp_arp_input, update_arp_entry, f
  <2>4. PICK j \in Slots : arp_table[j].state # "EMPTY" /\ arp_table[j].ipaddr = h
      BY DEF Known, Matching
  <2>5. arp_table'[j].state # "EMPTY" /\ arp_table'[j].ipaddr = h
    <3>1. CASE f.i = ERR_MEM
        BY <2>3, <2>4, <3>1
    <3>2. CASE f.i # ERR_MEM /\ j = f.i
        BY <2>2, <2>3, <2>4, <3>2
    <3>3. CASE f.i # ERR_MEM /\ j # f.i
        BY <2>2, <2>3, <2>4, <3>3
    <3> QED BY <3>1, <3>2, <3>3
  <2> QED BY <2>5 DEF Known, Matching
<1> QED BY <1>1, EtharpInv, PTL DEF SnoopingForgetsNone

-----------------------------------------------------------------------------
\* The table is full, and of the entries that may go this one goes first.
LeastValuable(i) ==
    /\ InState("EMPTY") = {}
    /\ InState("STABLE") # {} => arp_table[i].state = "STABLE"
    /\ \A j \in InState(arp_table[i].state) : arp_table[j].ctime <= arp_table[i].ctime

LEMMA CandidateLeast ==
    ASSUME arp_table \in [Slots -> Entry], arp_table[Candidate].state # "EMPTY"
    PROVE  LeastValuable(Candidate)
<1>1. \A s : InState(s) \in SUBSET Slots
    BY DEF InState
<1>2. 0 \in Slots
    BY EtharpAssumption DEF Slots
<1>3. InState("EMPTY") # {} \/ InState("STABLE") # {} \/ InState("PENDING") # {}
    BY <1>2 DEF InState, Entry
<1>4. InState("EMPTY") = {}
  <2>1. InState("EMPTY") # {} => Candidate \in InState("EMPTY")
      BY <1>1, FirstIn DEF Candidate
  <2> QED BY <2>1 DEF InState
<1>5. CASE InState("STABLE") # {}
  <2>1. Candidate = Oldest(InState("STABLE"))
      BY <1>4, <1>5 DEF Candidate
  <2>2. /\ Candidate \in InState("STABLE")
        /\ \A j \in InState("STABLE") : arp_table[j].ctime <= arp_table[Candidate].ctime
      BY <1>1, <1>5, <2>1, OldestIn
  <2>3. arp_table[Candidate].state = "STABLE"
      BY <2>2 DEF InState
  <2> QED BY <1>4, <2>2, <2>3 DEF LeastValuable
<1>6. CASE InState("STABLE") = {}
  <2>1. Candidate = Oldest(InState("PENDING")) /\ InState("PENDING") # {}
      BY <1>3, <1>4, <1>6 DEF Candidate
  <2>2. /\ Candidate \in InState("PENDING")
        /\ \A j \in InState("PENDING") : arp_table[j].ctime <= arp_table[Candidate].ctime
      BY <1>1, <2>1, OldestIn
  <2>3. arp_table[Candidate].state = "PENDING"
      BY <2>2 DEF InState
  <2> QED BY <1>4, <1>6, <2>2, <2>3 DEF LeastValuable
<1> QED BY <1>5, <1>6

\* An entry that find_entry takes from its host is the least valuable one.
LEMMA FindEntryTakes ==
    ASSUME TypeOK, NoDuplicates, NEW ip \in Hosts, NEW hard \in BOOLEAN,
           NEW f, f = find_entry(ip, hard), f.i \in Slots,
           arp_table[f.i].state # "EMPTY"
    PROVE  f.table[f.i] = arp_table[f.i] \/ LeastValuable(f.i)
<1>1. f.table = arp_table \/ (f.i = Candidate /\ f.table = Recycled(Candidate, ip))
    BY DEF find_entry
<1>2. f.i = Candidate => LeastValuable(f.i)
    BY CandidateLeast DEF TypeOK
<1> QED BY <1>1, <1>2

\* What a call that looks up ip does to the entry of a host h.
LEMMA LookupForgets ==
    ASSUME IInv, NEW ip \in Hosts, NEW hard \in BOOLEAN, NEW f, f = find_entry(ip, hard),
           f.i \in Slots, NEW e, e.state # "EMPTY", e.ipaddr = f.table[f.i].ipaddr,
           arp_table' = [f.table EXCEPT ![f.i] = e],
           NEW h \in Hosts, NEW i \in Matching(h), ~Known(h)'
    PROVE  LeastValuable(i)
<1>1. TypeOK /\ NoDuplicates
    BY DEF IInv
<1>2. /\ f.table \in [Slots -> Entry]
      /\ \A j \in Slots \ {f.i} : f.table[j] = arp_table[j]
    BY <1>1, FindEntry
<1>3. i \in Slots /\ arp_table[i].state # "EMPTY" /\ arp_table[i].ipaddr = h
    BY DEF Matching
<1>4. ~(arp_table'[i].state # "EMPTY" /\ arp_table'[i].ipaddr = h)
    BY <1>3 DEF Known, Matching
<1>5. i = f.i
    BY <1>2, <1>3, <1>4
<1>6. f.table[f.i] # arp_table[f.i]
    BY <1>2, <1>3, <1>4, <1>5
<1> QED BY <1>1, <1>3, <1>5, <1>6, FindEntryTakes

\* A host is forgotten only when etharp_tmr finds its entry too old or when
\* find_entry needs the room, and then it is the host that is worth least.
THEOREM EtharpForgets == Spec => ForgetsLeastValuable
<1> DEFINE Lost(h, i) == \/ Expired(Older(arp_table[i])) /\ arp_table'[i].state = "EMPTY"
                         \/ LeastValuable(i)
           Step == \A h \in Hosts : \A i \in Matching(h) : ~Known(h)' => Lost(h, i)
<1>1. ASSUME IInv, Next PROVE Step
  <2> SUFFICES ASSUME NEW h \in Hosts, NEW i \in Matching(h), ~Known(h)' PROVE Lost(h, i)
      OBVIOUS
  <2>1. TypeOK /\ NoDuplicates
      BY <1>1 DEF IInv
  <2>2. i \in Slots /\ arp_table[i].state # "EMPTY" /\ arp_table[i].ipaddr = h
      BY DEF Matching
  <2>3. arp_table' # arp_table
      BY <2>2 DEF Known, Matching
  <2>4. ASSUME NEW ip \in Hosts, etharp_query(ip) PROVE Lost(h, i)
    <3> DEFINE f == find_entry(ip, TRUE)
               e == [f.table[f.i] EXCEPT !.state = "PENDING"]
    <3>1. f.i \in Slots \cup {ERR_MEM} /\ f.table \in [Slots -> Entry]
        BY <2>1, FindEntry
    <3>2. \/ arp_table' = arp_table
          \/ f.i # ERR_MEM /\ arp_table' = f.table /\ f.table[f.i].state = "STABLE"
          \/ f.i # ERR_MEM /\ arp_table' = [f.table EXCEPT ![f.i] = e]
        BY <2>4 DEF etharp_query
    <3> HIDE DEF f
    <3>3. CASE f.i # ERR_MEM /\ arp_table' = [f.table EXCEPT ![f.i] = e]
      <4>1. f.i \in Slots /\ f.table[f.i] \in Entry
          BY <3>1, <3>3
      <4>2. e.state # "EMPTY" /\ e.ipaddr = f.table[f.i].ipaddr
          BY <4>1 DEF Entry
      <4> HIDE DEF e
      <4>3. LeastValuable(i)
          BY <1>1, <3>3, <4>1, <4>2, LookupForgets DEF f
      <4> QED BY <4>3
    <3>4. CASE f.i # ERR_MEM /\ arp_table' = f.table /\ f.table[f.i].state = "STABLE"
      <4> DEFINE d == f.table[f.i]
      <4>1. f.i \in Slots /\ d.state # "EMPTY" /\ d.ipaddr = f.table[f.i].ipaddr
          BY <3>1, <3>4
      <4>2. arp_table' = [f.table EXCEPT ![f.i] = d]
          BY <3>1, <3>4
      <4> HIDE DEF d
      <4>3. LeastValuable(i)
          BY <1>1, <4>1, <4>2, LookupForgets DEF f
      <4> QED BY <4>3
    <3> QED BY <2>3, <3>2, <3>3, <3>4
  <2>5. ASSUME NEW sip \in Hosts \cup NonUnicast, NEW mac, NEW for_us \in BOOLEAN,
               update_arp_entry(sip, mac, for_us)
        PROVE  Lost(h, i)
    <3>1. sip \in Hosts /\ sip \notin NonUnicast
        BY <2>3, <2>5, EtharpAssumption DEF update_arp_entry
    <3> DEFINE f == find_entry(sip, for_us)
               e == [state |-> "STABLE", ipaddr |-> f.table[f.i].ipaddr, ethaddr |-> mac,
                     ctime |-> 0]
    <3>2. f.i \in Slots \cup {ERR_MEM}
        BY <2>1, <3>1, FindEntry
    <3>3. f.i # ERR_MEM /\ arp_table' = [f.table EXCEPT ![f.i] = e]
        BY <2>3, <2>5, <3>1 DEF update_arp_entry
    <3>4. e.state # "EMPTY" /\ e.ipaddr = f.table[f.i].ipaddr
        OBVIOUS
    <3> HIDE DEF f, e
    <3>5. LeastValuable(i)
        BY <1>1, <3>1, <3>2, <3>3, <3>4, LookupForgets DEF f
    <3> QED BY <3>5
  <2>6. CASE etharp_tmr
    <3> DEFINE e == Older(arp_table[i])
    <3>1. arp_table'[i] = IF Expired(e) THEN [e EXCEPT !.state = "EMPTY"] ELSE e
        BY <2>2, <2>6 DEF etharp_tmr
    <3>2. e.state = arp_table[i].state /\ e.ipaddr = h /\ arp_table[i] \in Entry
        BY <2>1, <2>2 DEF TypeOK, Entry, Older
    <3>3. [e EXCEPT !.state = "EMPTY"].state = "EMPTY"
        BY <3>2 DEF Older, Entry
    <3>4. ~(arp_table'[i].state # "EMPTY" /\ arp_table'[i].ipaddr = h)
        BY <2>2 DEF Known, Matching
    <3> HIDE DEF e
    <3>5. Expired(e)
        BY <2>2, <3>1, <3>2, <3>4
    <3> QED BY <3>1, <3>3, <3>5 DEF e
  <2>7. CASE \E dst \in Hosts \cup Far \cup NonUnicast : etharp_output(dst)
      BY <2>3, <2>4, <2>7, EtharpAssumption DEF etharp_output
  <2>8. CASE ethernet_input
      BY <2>3, <2>5, <2>8 DEF ethernet_input, etharp_arp_input, NotForArp
  <2> QED BY <1>1, <2>6, <2>7, <2>8 DEF Next
<1>2. IInv /\ [Next]_vars => [Step]_vars
    BY <1>1
<1>3. ForgetsLeastValuable <=> [][Step]_vars
    BY DEF ForgetsLeastValuable, LeastValuable
<1> HIDE DEF Step
<1> QED BY <1>2, <1>3, EtharpInv, PTL DEF Spec
=============================================================================
