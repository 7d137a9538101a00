---------------------------- MODULE TcpEchoProofs ----------------------------
(***************************************************************************)
(* Proofs about TcpEcho for any number of senders, netconns, serials and   *)
(* requests.  IInv is the conjunction of TypeOK and of the strengthenings  *)
(* of the five safety invariants; each of them is shown to be preserved    *)
(* by every action.                                                        *)
(***************************************************************************)
EXTENDS TcpEcho, Str2IntProofs

\* Between the raise of flag_recv_success and the start of the thread the
\* request is counted and its thread is not.
TableInv ==
    /\ ThreadTable
    /\ tpc \in {"client", "spawn"} => s_nextthread < BootThreads + requests
    /\ tpc = "success" => requests < MaxRequests

\* While the flag is up, a sender that is not just about to take it down has a
\* request it has not answered; so has one that is about to write.
WriteInv ==
    \A i \in Senders :
        /\ writes[i] <= requests
        /\ pc[i] \in {"gen", "put1", "put2", "write"} => writes[i] < requests
        /\ flag_recv_success = 1 /\ pc[i] \notin {"writing", "wret", "clear"}
              => writes[i] < requests

\* Where a serial on its way to a packet may be, and from when on it is one
\* that was received.
SerialInv ==
    /\ requests > 0 \/ tpc = "success" => recv_serial \in received
    /\ \A i \in Senders :
        /\ pc[i] \in {"put1", "put2"} => serial_no[i] \in received
        /\ pc[i] \in {"put2", "write", "writing"} => post_packet[1] \in received
        /\ pc[i] \in {"write", "writing"} => post_packet[2] \in received
        /\ pc[i] = "writing" /\ write_offset[i] = 1 => queued[i] \in received
    /\ PostedWasReceived

\* The life of a sender after its first and after its second write error.
FailureInv ==
    \A i \in Senders :
        /\ failed[i] <= 2
        /\ failed[i] > 0 => HasConn(i)
        /\ pc[i] = "wret" /\ pcb[i] = "null" => ERR_IS_FATAL(err[i])
        /\ pc[i] = "writing" => pcb[i] = "estab"
        /\ pc[i] = "clret" => pcb[i] = "null"
        /\ pc[i] = "closing" => pcb[i] # "null"
        /\ failed[i] = 1 =>
             \/ pc[i] = "clear" /\ errWrite[i] # "ERR_OK"
             \/ pc[i] \in {"close", "closing"}
             \/ pcb[i] = "null" /\ pc[i] # "clear"
        /\ failed[i] = 2 =>
             /\ pcb[i] = "null"
             /\ \/ pc[i] = "clear" /\ errWrite[i] # "ERR_OK"
                \/ pc[i] = "close"
                \/ pc[i] = "clret" /\ err[i] # "ERR_OK"

IInv == TypeOK /\ PoolAccounting /\ TableInv /\ WriteInv /\ SerialInv /\ FailureInv

USE ThreadMaxAssumption, NetconnAssumption, MaxRequestsAssumption DEF BootThreads

\* The senders are finitely many, and so are those that hold a netconn.
LEMMA HoldersFinite == IsFiniteSet(Holders) /\ Cardinality(Holders) \in Nat
<1>1. IsFiniteSet(Senders)
  BY FS_Interval DEF Senders
<1> QED
  BY <1>1, FS_Subset, FS_CardinalityType DEF Holders

LEMMA InitIInv == Init => IInv
<1> SUFFICES ASSUME Init PROVE IInv
  OBVIOUS
<1>1. PoolAccounting
  <2>1. Holders = {}
    BY DEF Init, Holders, HasConn, Senders
  <2> QED
    BY <2>1, FS_EmptySet DEF Init, PoolAccounting, Listeners, Served
<1> QED
  BY <1>1 DEF Init, IInv, TypeOK, TableInv, WriteInv, SerialInv, FailureInv,
         ThreadTable, PostedWasReceived, HasConn, ERR_IS_FATAL, Senders, Words,
         TPC, PC, PCB, ERR, Posting

\* do_writemore keeps the types and leaves the sender waiting or woken.
LEMMA WritemoreType ==
    ASSUME TypeOK, NEW i \in Senders, NEW offset \in 0..1, do_writemore(i, offset)
    PROVE  /\ err' \in [Senders -> ERR]
           /\ write_offset' \in [Senders -> 0..1]
           /\ queued' \in [Senders -> Words]
           /\ posted' \subseteq [1..2 -> Words]
           /\ pc' \in [Senders -> PC]
           /\ pc' \in {[pc EXCEPT ![i] = "writing"], [pc EXCEPT ![i] = "wret"]}
<1> USE DEF TypeOK
<1>1. PICK n \in offset .. 2 :
        /\ \E e \in {"ERR_OK", "ERR_BUF"} \cup
                     (IF n = offset THEN {err[i]} ELSE {}) :
             err' = [err EXCEPT ![i] = e]
        /\ write_offset' = [write_offset EXCEPT ![i] = n % 2]
        /\ queued' = [queued EXCEPT ![i] = IF n = 1 /\ offset = 0
                                             THEN post_packet[1] ELSE @]
        /\ posted' = IF n < 2 THEN posted
                     ELSE posted \cup {[post_packet EXCEPT ![1] =
                                           IF offset = 0 THEN @ ELSE queued[i]]}
        /\ pc' = [pc EXCEPT ![i] = IF n < 2 THEN "writing" ELSE "wret"]
  BY DEF do_writemore
<1>2. n % 2 \in 0..1
  BY <1>1
<1>3. write_offset' \in [Senders -> 0..1]
  BY <1>1, <1>2
<1>4. err' \in [Senders -> ERR]
  BY <1>1 DEF ERR
<1>5. queued' \in [Senders -> Words]
  BY <1>1
<1>6. posted' \subseteq [1..2 -> Words]
  <2>1. CASE n < 2  BY <1>1, <2>1
  <2>2. CASE ~(n < 2)
    <3> DEFINE p == [post_packet EXCEPT ![1] = IF offset = 0 THEN @ ELSE queued[i]]
    <3>1. p \in [1..2 -> Words]
      OBVIOUS
    <3>2. posted' = posted \cup {p}
      BY <1>1, <2>2
    <3> QED  BY <3>1, <3>2
  <2> QED  BY <2>1, <2>2
<1>7. pc' \in {[pc EXCEPT ![i] = "writing"], [pc EXCEPT ![i] = "wret"]}
  BY <1>1
<1>8. pc' \in [Senders -> PC]
  BY <1>7 DEF PC, Posting
<1> QED
  BY <1>3, <1>4, <1>5, <1>6, <1>7, <1>8

\* Every action keeps the types.
LEMMA TypeStep == IInv /\ [Next]_vars => TypeOK'
<1> SUFFICES ASSUME IInv, [Next]_vars PROVE TypeOK'
  OBVIOUS
<1> USE DEF IInv, TypeOK, TableInv, ThreadTable, Senders, Words, TPC, PC, PCB, ERR,
            Posting, globals, server, netconns, senders
<1>1. CASE ServerSetup      BY <1>1, SMTT(30) DEF ServerSetup
<1>2. CASE ServerAccept     BY <1>2 DEF ServerAccept
<1>3. CASE ServerRecv       BY <1>3 DEF ServerRecv
<1>4. CASE ServerEcho       BY <1>4 DEF ServerEcho
<1>5. ASSUME NEW f \in Fragments, ServerSerial(f) PROVE TypeOK'
  BY <1>5 DEF ServerSerial, Serials
<1>6. CASE ServerSuccess    BY <1>6 DEF ServerSuccess
<1>7. CASE ServerClient     BY <1>7 DEF ServerClient
<1>8. CASE ServerSpawn
  <2>1. CASE s_nextthread < SYS_THREAD_MAX
    <3>1. s_nextthread' = s_nextthread + 1 /\ s_nextthread + 1 \in Senders
      BY <1>8, <2>1 DEF ServerSpawn
    <3>2. pc' \in [Senders -> PC]
      BY <1>8, <2>1, <3>1 DEF ServerSpawn
    <3> QED  BY <1>8, <2>1, <3>1, <3>2 DEF ServerSpawn
  <2>2. CASE ~(s_nextthread < SYS_THREAD_MAX)
    BY <1>8, <2>2 DEF ServerSpawn
  <2> QED  BY <2>1, <2>2
<1>9. CASE ServerNext       BY <1>9 DEF ServerNext
<1>10. CASE ServerClose
  <2>1. memp < MEMP_NUM_NETCONN
    BY <1>10, HoldersFinite DEF ServerClose, PoolAccounting, Listeners, Served
  <2> QED  BY <1>10, <2>1 DEF ServerClose
<1>11. CASE PeerConnects    BY <1>11 DEF PeerConnects
<1>12. ASSUME NEW i \in Senders, SenderStart(i) PROVE TypeOK'  BY <1>12 DEF SenderStart
<1>13. ASSUME NEW i \in Senders, SenderNew(i) PROVE TypeOK'  BY <1>13 DEF SenderNew
<1>14. ASSUME NEW i \in Senders, SenderSeesClient(i) PROVE TypeOK'
  BY <1>14 DEF SenderSeesClient
<1>15. ASSUME NEW i \in Senders, SenderConnect(i) PROVE TypeOK'  BY <1>15, ZenonT(30) DEF SenderConnect
<1>16. ASSUME NEW i \in Senders, SenderConnectReturns(i) PROVE TypeOK'
  BY <1>16 DEF SenderConnectReturns
<1>17. ASSUME NEW i \in Senders, SenderCheck(i) PROVE TypeOK'  BY <1>17 DEF SenderCheck
<1>18. ASSUME NEW i \in Senders, SenderGen(i) PROVE TypeOK'  BY <1>18 DEF SenderGen
<1>19. ASSUME NEW i \in Senders, NEW h \in 1..2, SenderPut(i, h) PROVE TypeOK'
  BY <1>19 DEF SenderPut
<1>20. ASSUME NEW i \in Senders, SenderWrite(i) PROVE TypeOK'
  <2>1. CASE ~ERR_IS_FATAL(err[i]) /\ pcb[i] = "estab"
    <3>1. PICK offset \in 0..1 : do_writemore(i, offset)
      BY <1>20, <2>1 DEF SenderWrite
    <3>2. /\ err' \in [Senders -> ERR]
          /\ write_offset' \in [Senders -> 0..1]
          /\ queued' \in [Senders -> Words]
          /\ posted' \subseteq [1..2 -> Words]
          /\ pc' \in [Senders -> PC]
      BY <3>1, WritemoreType
    <3>3. writes' \in [Senders -> Nat]
      BY <1>20 DEF SenderWrite
    <3> QED  BY <1>20, <3>2, <3>3 DEF SenderWrite
  <2>2. CASE ~(~ERR_IS_FATAL(err[i]) /\ pcb[i] = "estab")
    <3>1. err' \in [Senders -> ERR] /\ pc' \in [Senders -> PC]
      BY <1>20, <2>2 DEF SenderWrite
    <3>2. writes' \in [Senders -> Nat]
      BY <1>20 DEF SenderWrite
    <3> QED  BY <1>20, <2>2, <3>1, <3>2 DEF SenderWrite
  <2> QED  BY <2>1, <2>2
<1>21. ASSUME NEW i \in Senders, SenderWriteReturns(i) PROVE TypeOK'
  BY <1>21, SMTT(30) DEF SenderWriteReturns
<1>22. ASSUME NEW i \in Senders, SenderClear(i) PROVE TypeOK'  BY <1>22 DEF SenderClear
<1>23. ASSUME NEW i \in Senders, SenderClose(i) PROVE TypeOK'
  <2>1. CASE pcb[i] = "null"  BY <1>23, <2>1 DEF SenderClose
  <2>2. CASE do_close_internal(i)  BY <1>23, <2>2 DEF SenderClose, do_close_internal
  <2> QED  BY <1>23, <2>1, <2>2 DEF SenderClose
<1>24. ASSUME NEW i \in Senders, SenderCloseReturns(i) PROVE TypeOK'
  BY <1>24 DEF SenderCloseReturns
<1>25. ASSUME NEW i \in Senders, Connected(i) PROVE TypeOK'  BY <1>25 DEF Connected
<1>26. ASSUME NEW i \in Senders, ConnLost(i) PROVE TypeOK'  BY <1>26 DEF ConnLost, Woken
<1>27. ASSUME NEW i \in Senders, PeerAnswers(i) PROVE TypeOK'  BY <1>27 DEF PeerAnswers
<1>28. ASSUME NEW i \in Senders, WriteGoesOn(i) PROVE TypeOK'
  BY <1>28, WritemoreType DEF WriteGoesOn
<1>29. ASSUME NEW i \in Senders, CloseGoesOn(i) PROVE TypeOK'
  BY <1>29 DEF CloseGoesOn, do_close_internal
<1>30. CASE UNCHANGED vars  BY <1>30 DEF vars
<1> QED
  BY <1>1, <1>2, <1>3, <1>4, <1>5, <1>6, <1>7, <1>8, <1>9, <1>10, <1>11, <1>12,
     <1>13, <1>14, <1>15, <1>16, <1>17, <1>18, <1>19, <1>20, <1>21, <1>22, <1>23,
     <1>24, <1>25, <1>26, <1>27, <1>28, <1>29, <1>30
     DEF Next, tcpecho_thread, tcp_sendData_thread, tcpip_thread

\* A new thread takes an entry that no sender lives in.
LEMMA SpawnFresh ==
    ASSUME TypeOK, ThreadTable, ServerSpawn, NEW i \in Senders
    PROVE  pc'[i] = pc[i] \/ (pc[i] = "absent" /\ pc'[i] = "start")
<1>1. CASE s_nextthread < SYS_THREAD_MAX
  <2>1. s_nextthread + 1 \in Senders /\ pc[s_nextthread + 1] = "absent"
    BY <1>1 DEF TypeOK, ThreadTable, Senders
  <2> QED
    BY <1>1, <2>1 DEF ServerSpawn, TypeOK
<1>2. CASE ~(s_nextthread < SYS_THREAD_MAX)
  BY <1>2 DEF ServerSpawn
<1> QED
  BY <1>1, <1>2

\* The thread table grows by one entry per flagged serial.
LEMMA TableStep == IInv /\ [Next]_vars => TableInv'
<1> SUFFICES ASSUME IInv, [Next]_vars PROVE TableInv'
  OBVIOUS
<1> USE DEF IInv, TypeOK, TableInv, ThreadTable, Senders, globals, server, netconns, senders
<1>1. CASE ServerSetup  BY <1>1 DEF ServerSetup
<1>2. CASE ServerAccept  BY <1>2 DEF ServerAccept
<1>3. CASE ServerRecv  BY <1>3 DEF ServerRecv
<1>4. CASE ServerEcho  BY <1>4 DEF ServerEcho
<1>5. ASSUME NEW f \in Fragments, ServerSerial(f) PROVE TableInv'
  BY <1>5 DEF ServerSerial
<1>6. CASE ServerSuccess  BY <1>6 DEF ServerSuccess
<1>7. CASE ServerClient  BY <1>7 DEF ServerClient
<1>8. CASE ServerSpawn  BY <1>8, SMTT(30) DEF ServerSpawn
<1>9. CASE ServerNext  BY <1>9 DEF ServerNext
<1>10. CASE ServerClose  BY <1>10 DEF ServerClose
<1>11. CASE PeerConnects  BY <1>11 DEF PeerConnects
<1>12. ASSUME NEW i \in Senders, SenderStart(i) PROVE TableInv'
  BY <1>12 DEF SenderStart
<1>13. ASSUME NEW i \in Senders, SenderNew(i) PROVE TableInv'
  BY <1>13 DEF SenderNew
<1>14. ASSUME NEW i \in Senders, SenderSeesClient(i) PROVE TableInv'
  BY <1>14 DEF SenderSeesClient
<1>15. ASSUME NEW i \in Senders, SenderConnect(i) PROVE TableInv'
  BY <1>15 DEF SenderConnect
<1>16. ASSUME NEW i \in Senders, SenderConnectReturns(i) PROVE TableInv'
  BY <1>16 DEF SenderConnectReturns
<1>17. ASSUME NEW i \in Senders, SenderCheck(i) PROVE TableInv'
  BY <1>17 DEF SenderCheck
<1>18. ASSUME NEW i \in Senders, SenderGen(i) PROVE TableInv'
  BY <1>18 DEF SenderGen
<1>19. ASSUME NEW i \in Senders, NEW h \in 1..2, SenderPut(i, h) PROVE TableInv'
  BY <1>19 DEF SenderPut
<1>20. ASSUME NEW i \in Senders, SenderWrite(i) PROVE TableInv'
  BY <1>20 DEF SenderWrite, do_writemore
<1>21. ASSUME NEW i \in Senders, SenderWriteReturns(i) PROVE TableInv'
  BY <1>21 DEF SenderWriteReturns
<1>22. ASSUME NEW i \in Senders, SenderClear(i) PROVE TableInv'
  BY <1>22 DEF SenderClear
<1>23. ASSUME NEW i \in Senders, SenderClose(i) PROVE TableInv'
  BY <1>23 DEF SenderClose, do_close_internal
<1>24. ASSUME NEW i \in Senders, SenderCloseReturns(i) PROVE TableInv'
  BY <1>24 DEF SenderCloseReturns
<1>25. ASSUME NEW i \in Senders, Connected(i) PROVE TableInv'
  BY <1>25 DEF Connected
<1>26. ASSUME NEW i \in Senders, ConnLost(i) PROVE TableInv'
  BY <1>26 DEF ConnLost, Woken
<1>27. ASSUME NEW i \in Senders, PeerAnswers(i) PROVE TableInv'
  BY <1>27 DEF PeerAnswers
<1>28. ASSUME NEW i \in Senders, WriteGoesOn(i) PROVE TableInv'
  BY <1>28 DEF WriteGoesOn, do_writemore
<1>29. ASSUME NEW i \in Senders, CloseGoesOn(i) PROVE TableInv'
  BY <1>29 DEF CloseGoesOn, do_close_internal
<1>30. CASE UNCHANGED vars  BY <1>30 DEF vars
<1> QED
  BY <1>1, <1>2, <1>3, <1>4, <1>5, <1>6, <1>7, <1>8, <1>9, <1>10, <1>11, <1>12,
     <1>13, <1>14, <1>15, <1>16, <1>17, <1>18, <1>19, <1>20, <1>21, <1>22, <1>23,
     <1>24, <1>25, <1>26, <1>27, <1>28, <1>29, <1>30
     DEF Next, tcpecho_thread, tcp_sendData_thread, tcpip_thread

\* A write uses up the request that raised the flag.
LEMMA WriteStep == IInv /\ [Next]_vars => WriteInv'
<1> SUFFICES ASSUME IInv, [Next]_vars PROVE WriteInv'
  OBVIOUS
<1> USE DEF IInv, TypeOK, WriteInv, Senders, globals, server, netconns, senders
<1>1. CASE ServerSetup  BY <1>1 DEF ServerSetup
<1>2. CASE ServerAccept  BY <1>2 DEF ServerAccept
<1>3. CASE ServerRecv  BY <1>3 DEF ServerRecv
<1>4. CASE ServerEcho  BY <1>4 DEF ServerEcho
<1>5. ASSUME NEW f \in Fragments, ServerSerial(f) PROVE WriteInv'
  BY <1>5 DEF ServerSerial
<1>6. CASE ServerSuccess  BY <1>6 DEF ServerSuccess
<1>7. CASE ServerClient  BY <1>7 DEF ServerClient
<1>8. CASE ServerSpawn
  <2>1. TypeOK /\ ThreadTable
    BY DEF TableInv
  <2>2. \A i \in Senders : pc'[i] = pc[i] \/ (pc[i] = "absent" /\ pc'[i] = "start")
    BY <1>8, <2>1, SpawnFresh
  <2> QED  BY <1>8, <2>2 DEF ServerSpawn
<1>9. CASE ServerNext  BY <1>9 DEF ServerNext
<1>10. CASE ServerClose  BY <1>10 DEF ServerClose
<1>11. CASE PeerConnects  BY <1>11 DEF PeerConnects
<1>12. ASSUME NEW i \in Senders, SenderStart(i) PROVE WriteInv'
  BY <1>12 DEF SenderStart
<1>13. ASSUME NEW i \in Senders, SenderNew(i) PROVE WriteInv'
  BY <1>13 DEF SenderNew
<1>14. ASSUME NEW i \in Senders, SenderSeesClient(i) PROVE WriteInv'
  BY <1>14 DEF SenderSeesClient
<1>15. ASSUME NEW i \in Senders, SenderConnect(i) PROVE WriteInv'
  BY <1>15 DEF SenderConnect
<1>16. ASSUME NEW i \in Senders, SenderConnectReturns(i) PROVE WriteInv'
  BY <1>16 DEF SenderConnectReturns
<1>17. ASSUME NEW i \in Senders, SenderCheck(i) PROVE WriteInv'
  BY <1>17 DEF SenderCheck
<1>18. ASSUME NEW i \in Senders, SenderGen(i) PROVE WriteInv'
  BY <1>18 DEF SenderGen
<1>19. ASSUME NEW i \in Senders, NEW h \in 1..2, SenderPut(i, h) PROVE WriteInv'
  BY <1>19 DEF SenderPut
<1>20. ASSUME NEW i \in Senders, SenderWrite(i) PROVE WriteInv'
  <2>1. pc' \in {[pc EXCEPT ![i] = "writing"], [pc EXCEPT ![i] = "wret"]}
    <3>1. CASE ~ERR_IS_FATAL(err[i]) /\ pcb[i] = "estab"
      <4>1. PICK offset \in 0..1 : do_writemore(i, offset)
        BY <1>20, <3>1 DEF SenderWrite
      <4> QED  BY <4>1, WritemoreType
    <3>2. CASE ~(~ERR_IS_FATAL(err[i]) /\ pcb[i] = "estab")
      BY <1>20, <3>2 DEF SenderWrite
    <3> QED  BY <3>1, <3>2
  <2> QED  BY <1>20, <2>1 DEF SenderWrite
<1>21. ASSUME NEW i \in Senders, SenderWriteReturns(i) PROVE WriteInv'
  BY <1>21 DEF SenderWriteReturns
<1>22. ASSUME NEW i \in Senders, SenderClear(i) PROVE WriteInv'
  BY <1>22 DEF SenderClear
<1>23. ASSUME NEW i \in Senders, SenderClose(i) PROVE WriteInv'
  BY <1>23 DEF SenderClose, do_close_internal
<1>24. ASSUME NEW i \in Senders, SenderCloseReturns(i) PROVE WriteInv'
  BY <1>24 DEF SenderCloseReturns
<1>25. ASSUME NEW i \in Senders, Connected(i) PROVE WriteInv'
  BY <1>25 DEF Connected
<1>26. ASSUME NEW i \in Senders, ConnLost(i) PROVE WriteInv'
  BY <1>26 DEF ConnLost, Woken
<1>27. ASSUME NEW i \in Senders, PeerAnswers(i) PROVE WriteInv'
  BY <1>27 DEF PeerAnswers
<1>28. ASSUME NEW i \in Senders, WriteGoesOn(i) PROVE WriteInv'
  <2>1. pc' \in {[pc EXCEPT ![i] = "writing"], [pc EXCEPT ![i] = "wret"]}
    BY <1>28, WritemoreType DEF WriteGoesOn
  <2> QED  BY <1>28, <2>1 DEF WriteGoesOn
<1>29. ASSUME NEW i \in Senders, CloseGoesOn(i) PROVE WriteInv'
  BY <1>29 DEF CloseGoesOn, do_close_internal
<1>30. CASE UNCHANGED vars  BY <1>30 DEF vars
<1> QED
  BY <1>1, <1>2, <1>3, <1>4, <1>5, <1>6, <1>7, <1>8, <1>9, <1>10, <1>11, <1>12,
     <1>13, <1>14, <1>15, <1>16, <1>17, <1>18, <1>19, <1>20, <1>21, <1>22, <1>23,
     <1>24, <1>25, <1>26, <1>27, <1>28, <1>29, <1>30
     DEF Next, tcpecho_thread, tcp_sendData_thread, tcpip_thread

\* A packet is built from serials that were received.
LEMMA SerialStep == IInv /\ [Next]_vars => SerialInv'
<1> SUFFICES ASSUME IInv, [Next]_vars PROVE SerialInv'
  OBVIOUS
<1> USE DEF IInv, TypeOK, WriteInv, SerialInv, PostedWasReceived, Words, globals, server, netconns, senders
<1>1. CASE ServerSetup  BY <1>1 DEF ServerSetup
<1>2. CASE ServerAccept  BY <1>2 DEF ServerAccept
<1>3. CASE ServerRecv  BY <1>3 DEF ServerRecv
<1>4. CASE ServerEcho  BY <1>4 DEF ServerEcho
<1>5. ASSUME NEW f \in Fragments, ServerSerial(f) PROVE SerialInv'
  BY <1>5 DEF ServerSerial
<1>6. CASE ServerSuccess  BY <1>6 DEF ServerSuccess
<1>7. CASE ServerClient  BY <1>7 DEF ServerClient
<1>8. CASE ServerSpawn  BY <1>8 DEF ServerSpawn
<1>9. CASE ServerNext  BY <1>9 DEF ServerNext
<1>10. CASE ServerClose  BY <1>10 DEF ServerClose
<1>11. CASE PeerConnects  BY <1>11 DEF PeerConnects
<1>12. ASSUME NEW i \in Senders, SenderStart(i) PROVE SerialInv'
  BY <1>12 DEF SenderStart
<1>13. ASSUME NEW i \in Senders, SenderNew(i) PROVE SerialInv'
  BY <1>13 DEF SenderNew
<1>14. ASSUME NEW i \in Senders, SenderSeesClient(i) PROVE SerialInv'
  BY <1>14 DEF SenderSeesClient
<1>15. ASSUME NEW i \in Senders, SenderConnect(i) PROVE SerialInv'
  BY <1>15 DEF SenderConnect
<1>16. ASSUME NEW i \in Senders, SenderConnectReturns(i) PROVE SerialInv'
  BY <1>16 DEF SenderConnectReturns
<1>17. ASSUME NEW i \in Senders, SenderCheck(i) PROVE SerialInv'
  BY <1>17 DEF SenderCheck
<1>18. ASSUME NEW i \in Senders, SenderGen(i) PROVE SerialInv'
  BY <1>18 DEF SenderGen
<1>19. ASSUME NEW i \in Senders, NEW h \in 1..2, SenderPut(i, h) PROVE SerialInv'
  BY <1>19 DEF SenderPut
<1>20. ASSUME NEW i \in Senders, SenderWrite(i) PROVE SerialInv'
  BY <1>20 DEF SenderWrite, do_writemore
<1>21. ASSUME NEW i \in Senders, SenderWriteReturns(i) PROVE SerialInv'
  BY <1>21 DEF SenderWriteReturns
<1>22. ASSUME NEW i \in Senders, SenderClear(i) PROVE SerialInv'
  BY <1>22 DEF SenderClear
<1>23. ASSUME NEW i \in Senders, SenderClose(i) PROVE SerialInv'
  BY <1>23 DEF SenderClose, do_close_internal
<1>24. ASSUME NEW i \in Senders, SenderCloseReturns(i) PROVE SerialInv'
  BY <1>24 DEF SenderCloseReturns
<1>25. ASSUME NEW i \in Senders, Connected(i) PROVE SerialInv'
  BY <1>25 DEF Connected
<1>26. ASSUME NEW i \in Senders, ConnLost(i) PROVE SerialInv'
  BY <1>26 DEF ConnLost, Woken
<1>27. ASSUME NEW i \in Senders, PeerAnswers(i) PROVE SerialInv'
  BY <1>27 DEF PeerAnswers
<1>28. ASSUME NEW i \in Senders, WriteGoesOn(i) PROVE SerialInv'
  BY <1>28 DEF WriteGoesOn, do_writemore
<1>29. ASSUME NEW i \in Senders, CloseGoesOn(i) PROVE SerialInv'
  BY <1>29 DEF CloseGoesOn, do_close_internal
<1>30. CASE UNCHANGED vars  BY <1>30 DEF vars
<1> QED
  BY <1>1, <1>2, <1>3, <1>4, <1>5, <1>6, <1>7, <1>8, <1>9, <1>10, <1>11, <1>12,
     <1>13, <1>14, <1>15, <1>16, <1>17, <1>18, <1>19, <1>20, <1>21, <1>22, <1>23,
     <1>24, <1>25, <1>26, <1>27, <1>28, <1>29, <1>30
     DEF Next, tcpecho_thread, tcp_sendData_thread, tcpip_thread

\* A sender that failed has lost its pcb, and one that failed twice is caught
\* in its close loop.
LEMMA FailureStep == IInv /\ [Next]_vars => FailureInv'
<1> SUFFICES ASSUME IInv, [Next]_vars PROVE FailureInv'
  OBVIOUS
<1> USE DEF IInv, TypeOK, FailureInv, HasConn, ERR_IS_FATAL, PC, PCB, ERR, Posting, globals, server, netconns, senders
<1>1. CASE ServerSetup  BY <1>1 DEF ServerSetup
<1>2. CASE ServerAccept  BY <1>2 DEF ServerAccept
<1>3. CASE ServerRecv  BY <1>3 DEF ServerRecv
<1>4. CASE ServerEcho  BY <1>4 DEF ServerEcho
<1>5. ASSUME NEW f \in Fragments, ServerSerial(f) PROVE FailureInv'
  BY <1>5 DEF ServerSerial
<1>6. CASE ServerSuccess  BY <1>6 DEF ServerSuccess
<1>7. CASE ServerClient  BY <1>7 DEF ServerClient
<1>8. CASE ServerSpawn
  <2>1. TypeOK /\ ThreadTable
    BY DEF TableInv
  <2>2. \A i \in Senders : pc'[i] = pc[i] \/ (pc[i] = "absent" /\ pc'[i] = "start")
    BY <1>8, <2>1, SpawnFresh
  <2> QED  BY <1>8, <2>2 DEF ServerSpawn
<1>9. CASE ServerNext  BY <1>9 DEF ServerNext
<1>10. CASE ServerClose  BY <1>10 DEF ServerClose
<1>11. CASE PeerConnects  BY <1>11 DEF PeerConnects
<1>12. ASSUME NEW i \in Senders, SenderStart(i) PROVE FailureInv'
  BY <1>12 DEF SenderStart
<1>13. ASSUME NEW i \in Senders, SenderNew(i) PROVE FailureInv'
  BY <1>13 DEF SenderNew
<1>14. ASSUME NEW i \in Senders, SenderSeesClient(i) PROVE FailureInv'
  BY <1>14 DEF SenderSeesClient
<1>15. ASSUME NEW i \in Senders, SenderConnect(i) PROVE FailureInv'
  BY <1>15 DEF SenderConnect
<1>16. ASSUME NEW i \in Senders, SenderConnectReturns(i) PROVE FailureInv'
  BY <1>16 DEF SenderConnectReturns
<1>17. ASSUME NEW i \in Senders, SenderCheck(i) PROVE FailureInv'
  BY <1>17 DEF SenderCheck
<1>18. ASSUME NEW i \in Senders, SenderGen(i) PROVE FailureInv'
  BY <1>18 DEF SenderGen
<1>19. ASSUME NEW i \in Senders, NEW h \in 1..2, SenderPut(i, h) PROVE FailureInv'
  BY <1>19 DEF SenderPut
<1>20. ASSUME NEW i \in Senders, SenderWrite(i) PROVE FailureInv'
  BY <1>20 DEF SenderWrite, do_writemore
<1>21. ASSUME NEW i \in Senders, SenderWriteReturns(i) PROVE FailureInv'
  BY <1>21 DEF SenderWriteReturns
<1>22. ASSUME NEW i \in Senders, SenderClear(i) PROVE FailureInv'
  BY <1>22 DEF SenderClear
<1>23. ASSUME NEW i \in Senders, SenderClose(i) PROVE FailureInv'
  BY <1>23 DEF SenderClose, do_close_internal
<1>24. ASSUME NEW i \in Senders, SenderCloseReturns(i) PROVE FailureInv'
  BY <1>24 DEF SenderCloseReturns
<1>25. ASSUME NEW i \in Senders, Connected(i) PROVE FailureInv'
  BY <1>25 DEF Connected
<1>26. ASSUME NEW i \in Senders, ConnLost(i) PROVE FailureInv'
  BY <1>26 DEF ConnLost, Woken
<1>27. ASSUME NEW i \in Senders, PeerAnswers(i) PROVE FailureInv'
  BY <1>27 DEF PeerAnswers
<1>28. ASSUME NEW i \in Senders, WriteGoesOn(i) PROVE FailureInv'
  BY <1>28 DEF WriteGoesOn, do_writemore
<1>29. ASSUME NEW i \in Senders, CloseGoesOn(i) PROVE FailureInv'
  BY <1>29 DEF CloseGoesOn, do_close_internal
<1>30. CASE UNCHANGED vars  BY <1>30 DEF vars
<1> QED
  BY <1>1, <1>2, <1>3, <1>4, <1>5, <1>6, <1>7, <1>8, <1>9, <1>10, <1>11, <1>12,
     <1>13, <1>14, <1>15, <1>16, <1>17, <1>18, <1>19, <1>20, <1>21, <1>22, <1>23,
     <1>24, <1>25, <1>26, <1>27, <1>28, <1>29, <1>30
     DEF Next, tcpecho_thread, tcp_sendData_thread, tcpip_thread

\* Every action that takes or gives back a netconn accounts for it.
LEMMA PoolStep == IInv /\ [Next]_vars => PoolAccounting'
<1> SUFFICES ASSUME IInv, [Next]_vars PROVE PoolAccounting'
  OBVIOUS
<1> USE HoldersFinite DEF globals, server, netconns, senders
<1> DEFINE Rest == memp + backlog + Listeners + Served
<1>a. ASSUME Holders' = Holders, Rest' = Rest PROVE PoolAccounting'
  BY <1>a DEF IInv, PoolAccounting
<1>b. ASSUME UNCHANGED <<memp, backlog, tpc>> PROVE Rest' = Rest
  BY <1>b DEF Listeners, Served
<1>1. CASE ServerSetup
  <2>1. Holders' = Holders  BY <1>1 DEF ServerSetup, Holders, HasConn
  <2> QED  BY <1>1, <1>a, <2>1 DEF ServerSetup, Listeners, Served, IInv, TypeOK
<1>2. CASE ServerAccept
  <2>1. Holders' = Holders  BY <1>2 DEF ServerAccept, Holders, HasConn
  <2> QED  BY <1>2, <1>a, <2>1 DEF ServerAccept, Listeners, Served, IInv, TypeOK
<1>3. CASE ServerRecv
  <2>1. Holders' = Holders  BY <1>3 DEF ServerRecv, Holders, HasConn
  <2> QED  BY <1>3, <1>a, <2>1 DEF ServerRecv, Listeners, Served, IInv, TypeOK
<1>4. CASE ServerEcho
  <2>1. Holders' = Holders  BY <1>4 DEF ServerEcho, Holders, HasConn
  <2> QED  BY <1>4, <1>a, <2>1 DEF ServerEcho, Listeners, Served, IInv, TypeOK
<1>5. ASSUME NEW f \in Fragments, ServerSerial(f) PROVE PoolAccounting'
  <2>1. Holders' = Holders  BY <1>5 DEF ServerSerial, Holders, HasConn
  <2> QED  BY <1>5, <1>a, <2>1 DEF ServerSerial, Listeners, Served, IInv, TypeOK
<1>6. CASE ServerSuccess
  <2>1. Holders' = Holders  BY <1>6 DEF ServerSuccess, Holders, HasConn
  <2> QED  BY <1>6, <1>a, <2>1 DEF ServerSuccess, Listeners, Served, IInv, TypeOK
<1>7. CASE ServerClient
  <2>1. Holders' = Holders  BY <1>7 DEF ServerClient, Holders, HasConn
  <2> QED  BY <1>7, <1>a, <2>1 DEF ServerClient, Listeners, Served, IInv, TypeOK
<1>8. CASE ServerSpawn
  <2>1. \A i \in Senders : HasConn(i)' <=> HasConn(i)
    BY <1>8, SpawnFresh DEF IInv, TableInv, HasConn
  <2>2. Holders' = Holders
    BY <2>1 DEF Holders
  <2> QED  BY <1>8, <1>a, <2>2 DEF ServerSpawn, Listeners, Served
<1>9. CASE ServerNext
  <2>1. Holders' = Holders  BY <1>9 DEF ServerNext, Holders, HasConn
  <2> QED  BY <1>9, <1>a, <2>1 DEF ServerNext, Listeners, Served, IInv, TypeOK
<1>10. CASE ServerClose
  <2>1. Holders' = Holders  BY <1>10 DEF ServerClose, Holders, HasConn
  <2> QED  BY <1>10, <1>a, <2>1 DEF ServerClose, Listeners, Served, IInv, TypeOK
<1>11. CASE PeerConnects
  <2>1. Holders' = Holders  BY <1>11 DEF PeerConnects, Holders, HasConn
  <2> QED  BY <1>11, <1>a, <2>1 DEF PeerConnects, Listeners, Served, IInv, TypeOK
<1>12. ASSUME NEW i \in Senders, SenderStart(i) PROVE PoolAccounting'
  <2>1. Holders' = Holders  BY <1>12 DEF SenderStart, Holders, HasConn, IInv, TypeOK
  <2> QED  BY <1>12, <1>a, <1>b, <2>1 DEF SenderStart
<1>13. ASSUME NEW i \in Senders, SenderNew(i) PROVE PoolAccounting'
  <2>1. Holders' = Holders \cup {i} /\ i \notin Holders
    BY <1>13 DEF SenderNew, Holders, HasConn, IInv, TypeOK
  <2>2. Cardinality(Holders') = Cardinality(Holders) + 1
    BY <2>1, FS_AddElement
  <2> QED
    BY <1>13, <2>2 DEF SenderNew, PoolAccounting, Listeners, Served, IInv, TypeOK
<1>14. ASSUME NEW i \in Senders, SenderSeesClient(i) PROVE PoolAccounting'
  <2>1. Holders' = Holders  BY <1>14 DEF SenderSeesClient, Holders, HasConn, IInv, TypeOK
  <2> QED  BY <1>14, <1>a, <1>b, <2>1 DEF SenderSeesClient
<1>15. ASSUME NEW i \in Senders, SenderConnect(i) PROVE PoolAccounting'
  <2>1. Holders' = Holders  BY <1>15 DEF SenderConnect, Holders, HasConn, IInv, TypeOK
  <2> QED  BY <1>15, <1>a, <1>b, <2>1 DEF SenderConnect
<1>16. ASSUME NEW i \in Senders, SenderConnectReturns(i) PROVE PoolAccounting'
  <2>1. Holders' = Holders  BY <1>16 DEF SenderConnectReturns, Holders, HasConn, IInv, TypeOK
  <2> QED  BY <1>16, <1>a, <1>b, <2>1 DEF SenderConnectReturns
<1>17. ASSUME NEW i \in Senders, SenderCheck(i) PROVE PoolAccounting'
  <2>1. Holders' = Holders  BY <1>17 DEF SenderCheck, Holders, HasConn, IInv, TypeOK
  <2> QED  BY <1>17, <1>a, <1>b, <2>1 DEF SenderCheck
<1>18. ASSUME NEW i \in Senders, SenderGen(i) PROVE PoolAccounting'
  <2>1. Holders' = Holders  BY <1>18 DEF SenderGen, Holders, HasConn, IInv, TypeOK
  <2> QED  BY <1>18, <1>a, <1>b, <2>1 DEF SenderGen
<1>19. ASSUME NEW i \in Senders, NEW h \in 1..2, SenderPut(i, h) PROVE PoolAccounting'
  <2>1. Holders' = Holders  BY <1>19 DEF SenderPut, Holders, HasConn, IInv, TypeOK
  <2> QED  BY <1>19, <1>a, <1>b, <2>1 DEF SenderPut
<1>20. ASSUME NEW i \in Senders, SenderWrite(i) PROVE PoolAccounting'
  <2>1. Holders' = Holders  BY <1>20 DEF SenderWrite, do_writemore, Holders, HasConn, IInv, TypeOK
  <2> QED  BY <1>20, <1>a, <1>b, <2>1 DEF SenderWrite, do_writemore
<1>21. ASSUME NEW i \in Senders, SenderWriteReturns(i) PROVE PoolAccounting'
  <2>1. Holders' = Holders  BY <1>21 DEF SenderWriteReturns, Holders, HasConn, IInv, TypeOK
  <2> QED  BY <1>21, <1>a, <1>b, <2>1 DEF SenderWriteReturns
<1>22. ASSUME NEW i \in Senders, SenderClear(i) PROVE PoolAccounting'
  <2>1. Holders' = Holders  BY <1>22 DEF SenderClear, Holders, HasConn, IInv, TypeOK
  <2> QED  BY <1>22, <1>a, <1>b, <2>1 DEF SenderClear
<1>23. ASSUME NEW i \in Senders, SenderClose(i) PROVE PoolAccounting'
  <2>1. Holders' = Holders  BY <1>23 DEF SenderClose, do_close_internal, Holders, HasConn, IInv, TypeOK
  <2> QED  BY <1>23, <1>a, <1>b, <2>1 DEF SenderClose, do_close_internal
<1>24. ASSUME NEW i \in Senders, SenderCloseReturns(i) PROVE PoolAccounting'
  <2>1. Holders' = Holders  BY <1>24 DEF SenderCloseReturns, Holders, HasConn, IInv, TypeOK
  <2> QED  BY <1>24, <1>a, <1>b, <2>1 DEF SenderCloseReturns
<1>25. ASSUME NEW i \in Senders, Connected(i) PROVE PoolAccounting'
  <2>1. Holders' = Holders  BY <1>25 DEF Connected, Holders, HasConn, IInv, TypeOK
  <2> QED  BY <1>25, <1>a, <1>b, <2>1 DEF Connected
<1>26. ASSUME NEW i \in Senders, ConnLost(i) PROVE PoolAccounting'
  <2>1. Holders' = Holders  BY <1>26 DEF ConnLost, Woken, Holders, HasConn, IInv, TypeOK
  <2> QED  BY <1>26, <1>a, <1>b, <2>1 DEF ConnLost, Woken
<1>27. ASSUME NEW i \in Senders, PeerAnswers(i) PROVE PoolAccounting'
  <2>1. Holders' = Holders  BY <1>27 DEF PeerAnswers, Holders, HasConn, IInv, TypeOK
  <2> QED  BY <1>27, <1>a, <1>b, <2>1 DEF PeerAnswers
<1>28. ASSUME NEW i \in Senders, WriteGoesOn(i) PROVE PoolAccounting'
  <2>1. Holders' = Holders
    BY <1>28 DEF WriteGoesOn, do_writemore, Holders, HasConn, IInv, TypeOK
  <2> QED  BY <1>28, <1>a, <1>b, <2>1 DEF WriteGoesOn, do_writemore
<1>29. ASSUME NEW i \in Senders, CloseGoesOn(i) PROVE PoolAccounting'
  <2>1. Holders' = Holders
    BY <1>29 DEF CloseGoesOn, do_close_internal, Holders, HasConn, IInv, TypeOK
  <2> QED  BY <1>29, <1>a, <1>b, <2>1 DEF CloseGoesOn, do_close_internal
<1>30. CASE UNCHANGED vars
  <2>1. Holders' = Holders  BY <1>30 DEF vars, Holders, HasConn
  <2> QED  BY <1>30, <1>a, <1>b, <2>1 DEF vars
<1> QED
  BY <1>1, <1>2, <1>3, <1>4, <1>5, <1>6, <1>7, <1>8, <1>9, <1>10, <1>11, <1>12,
     <1>13, <1>14, <1>15, <1>16, <1>17, <1>18, <1>19, <1>20, <1>21, <1>22, <1>23,
     <1>24, <1>25, <1>26, <1>27, <1>28, <1>29, <1>30
     DEF Next, tcpecho_thread, tcp_sendData_thread, tcpip_thread

\* IInv is an invariant of the specification.
LEMMA Inductive == Spec => []IInv
<1>1. IInv /\ [Next]_vars => IInv'
  BY TypeStep, PoolStep, TableStep, WriteStep, SerialStep, FailureStep DEF IInv
<1> QED
  BY <1>1, InitIInv, PTL DEF Spec

\* The threads and the tcpip thread keep every variable in its range: the pool
\* counter stays between 0 and MEMP_NUM_NETCONN and the table index never passes
\* SYS_THREAD_MAX, whatever the sizes.
THEOREM TypeCorrect == Spec => []TypeOK
<1>1. IInv => TypeOK
  BY DEF IInv
<1> QED
  BY <1>1, Inductive, PTL

\* No interleaving of tcpecho_thread, the senders and the tcpip thread loses a
\* netconn or gives one back twice.
THEOREM PoolAccounted == Spec => []PoolAccounting
<1>1. IInv => PoolAccounting
  BY DEF IInv
<1> QED
  BY <1>1, Inductive, PTL

\* The thread table holds at most one sender per flagged serial and no sender
\* runs outside the entry taken for it.
THEOREM TableGrowth == Spec => []ThreadTable
<1>1. IInv => ThreadTable
  BY DEF IInv, TableInv
<1> QED
  BY <1>1, Inductive, PTL

\* A sender never posts twice for one raise of flag_recv_success, however many
\* senders clear the flag behind its back.
THEOREM WritesBounded == Spec => []OneWritePerRequest
<1>1. IInv => OneWritePerRequest
  BY DEF IInv, WriteInv, OneWritePerRequest
<1> QED
  BY <1>1, Inductive, PTL

\* A packet carries nothing but received serials, although recv_serial and
\* post_packet are shared without a lock.
THEOREM PacketsGenuine == Spec => []PostedWasReceived
<1>1. IInv => PostedWasReceived
  BY DEF IInv, SerialInv
<1> QED
  BY <1>1, Inductive, PTL

\* Every sender is lost after its second failed netconn_write at the latest.
THEOREM FailuresBounded == Spec => []TwoFailuresAtMost
<1>1. IInv => TwoFailuresAtMost
  BY DEF IInv, FailureInv, TwoFailuresAtMost
<1> QED
  BY <1>1, Inductive, PTL

\* A netconn that has lost its pcb never gets another: only netconn_new makes
\* one, and a sender calls it only while it holds no netconn.
THEOREM LostForGood == Spec => NeverReconnects
<1> DEFINE Lost(i) == HasConn(i) /\ pcb[i] = "null"
<1>1. ASSUME TypeOK, [Next]_vars, NEW j \in Senders, Lost(j)
      PROVE  pcb'[j] = "null"
  <2> USE <1>1 DEF TypeOK, HasConn
  <2>1. CASE tcpecho_thread
    BY <2>1 DEF tcpecho_thread, ServerSetup, ServerAccept, ServerRecv, ServerEcho,
          ServerSerial, ServerSuccess, ServerClient, ServerSpawn, ServerNext,
          ServerClose, netconns
  <2>2. CASE PeerConnects
    BY <2>2 DEF PeerConnects, netconns
  <2>3. ASSUME NEW i \in Senders, tcp_sendData_thread(i) PROVE pcb'[j] = "null"
    BY <2>3 DEF tcp_sendData_thread, SenderStart, SenderSeesClient,
       SenderConnectReturns, SenderCheck, SenderGen, SenderPut,
       SenderWriteReturns, SenderClear, SenderCloseReturns, netconns
  <2>4. ASSUME NEW i \in Senders, tcpip_thread(i) PROVE pcb'[j] = "null"
    <3>1. CASE SenderNew(i)  BY <3>1 DEF SenderNew
    <3>2. CASE SenderConnect(i)  BY <3>2 DEF SenderConnect
    <3>3. CASE Connected(i) \/ ConnLost(i) \/ PeerAnswers(i)
      BY <3>3 DEF Connected, ConnLost, PeerAnswers
    <3>4. CASE SenderWrite(i) \/ WriteGoesOn(i)
      BY <3>4 DEF SenderWrite, WriteGoesOn
    <3>5. CASE SenderClose(i) \/ CloseGoesOn(i)
      BY <3>5 DEF SenderClose, CloseGoesOn, do_close_internal
    <3> QED
      BY <2>4, <3>1, <3>2, <3>3, <3>4, <3>5 DEF tcpip_thread
  <2>5. CASE UNCHANGED vars
    BY <2>5 DEF vars, netconns
  <2> QED
    BY <2>1, <2>2, <2>3, <2>4, <2>5 DEF Next
<1>2. TypeOK /\ [Next]_vars =>
        [\A i \in Senders : HasConn(i) /\ pcb[i] = "null" => pcb'[i] = "null"]_vars
  BY <1>1
<1> QED
  BY <1>2, TypeCorrect, PTL DEF Spec, NeverReconnects

\* Whatever the peers send and whatever is left in the packet buffers,
\* tcpecho_thread parses a part whose number is delimited as that number
\* (str2int, for every buffer and width of int).
THEOREM RequestsParsed == Spec => ParsesRequest
<1>1. ASSUME NEW f \in Fragments, ServerSerial(f), Delimited(f)
      PROVE  recv_serial' = Wrap(Value(Payload(f)))
  <2>1. f \in Fragment
    BY FragmentsAssumption
  <2>2. str2int(f.buf) = {Wrap(Value(Payload(f)))}
    BY <1>1, <2>1, DelimitedParsed
  <2>3. recv_serial' \in str2int(f.buf)
    BY <1>1 DEF ServerSerial
  <2> QED  BY <2>2, <2>3
<1>2. [Next]_vars =>
        [\A f \in Fragments :
            ServerSerial(f) /\ Delimited(f) => recv_serial' = Wrap(Value(Payload(f)))]_vars
  BY <1>1
<1> QED
  BY <1>2, PTL DEF Spec, ParsesRequest

==============================================================================
