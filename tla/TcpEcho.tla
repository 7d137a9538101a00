------------------------------- MODULE TcpEcho -------------------------------
(***************************************************************************)
(* The two kinds of application thread of Project/FreeRTOS/working:       *)
(*                                                                         *)
(*  - tcpecho_thread accepts connections on RECV_PORT, echoes what it      *)
(*    receives, parses a serial number out of it, raises flag_recv_success *)
(*    and flag_Client and starts one more sender thread;                   *)
(*  - every tcp_sendData_thread waits for flag_Client, connects to the     *)
(*    collecting server and posts one JSON packet, built in the shared     *)
(*    buffer post_packet, whenever it sees flag_recv_success.              *)
(*                                                                         *)
(* All of them have the same priority and are time sliced, and nothing     *)
(* protects the globals: one action is one access to a global or one       *)
(* netconn call.  A netconn call is two steps or more: the work done by    *)
(* tcpip_thread, for which the caller waits, and the caller's later read   *)
(* of conn->err, which tcpip_thread may have changed again.                *)
(***************************************************************************)
EXTENDS Str2Int, FiniteSets

CONSTANTS
    SYS_THREAD_MAX,    \* entries of sys_arch.c's thread table
    MEMP_NUM_NETCONN,  \* netconns in lwIP's pool
    Fragments,         \* what the peers' data look like to tcpecho_thread
    MaxRequests        \* bound: serials >= 0 the peer sends

\* main() fills three entries of the thread table before the scheduler runs:
\* tcpip_thread, tcpecho_thread and one sender.
BootThreads == 3

ASSUME ThreadMaxAssumption == SYS_THREAD_MAX \in Nat /\ SYS_THREAD_MAX >= BootThreads
ASSUME NetconnAssumption == MEMP_NUM_NETCONN \in Nat \ {0}
ASSUME FragmentsAssumption == Fragments \subseteq Fragment
ASSUME MaxRequestsAssumption == MaxRequests \in Nat

\* The serials that can be parsed.
Serials == UNION {str2int(f.buf) : f \in Fragments}

\* A sender is named by its entry in the thread table.
Senders == BootThreads .. SYS_THREAD_MAX

VARIABLES
    s_nextthread,       \* entries of the thread table in use
    flag_recv_success,  \* a serial waits to be posted
    flag_Client,        \* a sender should connect
    recv_serial,        \* the last serial parsed
    post_packet,        \* the two halves of the serial inside the packet
    tpc,                \* program counter of tcpecho_thread
    backlog,            \* accepted netconns in the acceptmbox
    memp,               \* free elements of the netconn pool
    pc,                 \* program counter of each sender
    pcb,                \* conn->pcb.tcp of each sender's netconn
    err,                \* conn->err of each sender's netconn
    serial_no,          \* request_serial_no of json_Packet_Gen, per sender
    errWrite,           \* local of each sender
    write_offset,       \* halves of the packet TCP has of a write that waits
    queued,             \* the first of them
    \* history
    requests,           \* serials >= 0 that were flagged
    received,           \* values parsed out of received data
    posted,             \* serials of the packets handed to TCP
    writes,             \* netconn_write calls made by each sender
    failed              \* those that returned an error

globals == <<flag_recv_success, flag_Client, recv_serial, post_packet>>
server == <<tpc, backlog, s_nextthread, requests, received>>
netconns == <<pcb, err, write_offset, queued>>
senders == <<pc, serial_no, errWrite, posted, writes, failed>>
vars == <<globals, server, memp, netconns, senders>>

(***************************************************************************)
(* Values                                                                  *)
(***************************************************************************)
TPC == {"setup", "noconn", "nobind", "deaf", "accept", "recv", "echo", "serial",
        "success", "client", "spawn", "next", "close"}
\* The part of the loop between the check of flag_recv_success and its reset.
Posting == {"gen", "put1", "put2", "write", "writing", "wret", "clear"}
PC == {"absent", "start", "new", "loop", "connect", "connecting", "cret",
       "check", "close", "closing", "clret"} \cup Posting
\* "stalled" is a pcb in SYN_SENT whose SYN could not be queued.
PCB == {"null", "closed", "syn", "stalled", "estab"}
ERR == {"ERR_OK", "ERR_BUF", "ERR_RST", "ERR_VAL", "ERR_MEM"}
ERR_IS_FATAL(e) == e \in {"ERR_RST", "ERR_VAL"}
Words == Serials \cup {0}

TypeOK ==
    /\ s_nextthread \in BootThreads .. SYS_THREAD_MAX
    /\ flag_recv_success \in {0, 1}
    /\ flag_Client \in {0, 1}
    /\ recv_serial \in Words
    /\ post_packet \in [1..2 -> Words]
    /\ tpc \in TPC
    /\ backlog \in Nat
    /\ memp \in 0..MEMP_NUM_NETCONN
    /\ pc \in [Senders -> PC]
    /\ pcb \in [Senders -> PCB]
    /\ err \in [Senders -> ERR]
    /\ serial_no \in [Senders -> Words]
    /\ errWrite \in [Senders -> ERR]
    /\ write_offset \in [Senders -> 0..1]
    /\ queued \in [Senders -> Words]
    /\ requests \in 0..MaxRequests
    /\ received \subseteq Serials
    /\ posted \subseteq [1..2 -> Words]
    /\ writes \in [Senders -> Nat]
    /\ failed \in [Senders -> Nat]

\* The globals are zeroed at start-up; main() has created the server thread
\* and the first sender.
Init ==
    /\ s_nextthread = BootThreads
    /\ flag_recv_success = 0
    /\ flag_Client = 0
    /\ recv_serial = 0
    /\ post_packet = [h \in 1..2 |-> 0]
    /\ tpc = "setup"
    /\ backlog = 0
    /\ memp = MEMP_NUM_NETCONN
    /\ pc = [i \in Senders |-> IF i = BootThreads THEN "start" ELSE "absent"]
    /\ pcb = [i \in Senders |-> "null"]
    /\ err = [i \in Senders |-> "ERR_OK"]
    /\ serial_no = [i \in Senders |-> 0]
    /\ errWrite = [i \in Senders |-> "ERR_OK"]
    /\ write_offset = [i \in Senders |-> 0]
    /\ queued = [i \in Senders |-> 0]
    /\ requests = 0
    /\ received = {}
    /\ posted = {}
    /\ writes = [i \in Senders |-> 0]
    /\ failed = [i \in Senders |-> 0]

(***************************************************************************)
(* tcpecho_thread                                                          *)
(***************************************************************************)
\* netconn_new, netconn_bind and netconn_listen.  Without a netconn or a port
\* the thread prints a message and returns, keeping the netconn; the result of
\* netconn_listen is not looked at, and without an acceptmbox netconn_accept
\* returns NULL for ever.
ServerSetup ==
    /\ tpc = "setup"
    /\ \/ tpc' = "noconn" /\ UNCHANGED memp
       \/ memp > 0 /\ memp' = memp - 1 /\ tpc' \in {"nobind", "deaf", "accept"}
    /\ UNCHANGED <<backlog, s_nextthread, requests, received, globals, netconns, senders>>

\* accept_function in the tcpip thread: a peer's connection gets a netconn
\* from the pool and is queued, or is refused when the pool is empty.
PeerConnects ==
    /\ tpc \notin {"setup", "noconn", "nobind", "deaf"}
    /\ memp > 0
    /\ memp' = memp - 1
    /\ backlog' = backlog + 1
    /\ UNCHANGED <<tpc, s_nextthread, requests, received, globals, netconns, senders>>

\* netconn_accept takes a queued connection.
ServerAccept ==
    /\ tpc = "accept"
    /\ backlog > 0
    /\ backlog' = backlog - 1
    /\ tpc' = "recv"
    /\ UNCHANGED <<s_nextthread, requests, received, memp, globals, netconns, senders>>

\* netconn_recv: a netbuf, or NULL when the peer has closed or an error came.
ServerRecv ==
    /\ tpc = "recv"
    /\ tpc' \in {"echo", "close"}
    /\ UNCHANGED <<backlog, s_nextthread, requests, received, memp, globals, netconns, senders>>

\* netconn_write of the fragment; its result is stored and never read.
ServerEcho ==
    /\ tpc = "echo"
    /\ tpc' = "serial"
    /\ UNCHANGED <<backlog, s_nextthread, requests, received, memp, globals, netconns, senders>>

\* Mutant: the thread is started before the sign is tested.
ServerSerialStartsThread(f) ==
    /\ tpc = "serial"
    /\ \E v \in str2int(f.buf) :
         /\ v >= 0 => requests < MaxRequests
         /\ recv_serial' = v
         /\ received' = received \cup {v}
         /\ tpc' = IF v >= 0 THEN "success" ELSE "spawn"
    /\ UNCHANGED <<backlog, s_nextthread, requests, flag_recv_success, flag_Client,
                   post_packet, memp, netconns, senders>>

\* Mutant: the serial is parsed into a local variable.
ServerSerialLocal(f) ==
    /\ tpc = "serial"
    /\ \E v \in str2int(f.buf) :
         /\ v >= 0 => requests < MaxRequests
         /\ received' = received \cup {v}
         /\ tpc' = IF v >= 0 THEN "success" ELSE "next"
    /\ UNCHANGED <<backlog, s_nextthread, requests, globals, memp, netconns, senders>>

\* recv_serial = str2int(data), whatever its sign; then the sign is tested.
\* Data is one part of a netbuf, the first or one that netbuf_next reached.
ServerSerial(f) ==
    /\ tpc = "serial"
    /\ \E v \in str2int(f.buf) :
         /\ v >= 0 => requests < MaxRequests
         /\ recv_serial' = v
         /\ received' = received \cup {v}
         /\ tpc' = IF v >= 0 THEN "success" ELSE "next"
    /\ UNCHANGED <<backlog, s_nextthread, requests, flag_recv_success, flag_Client,
                   post_packet, memp, netconns, senders>>

\* flag_recv_success = 1
ServerSuccess ==
    /\ tpc = "success"
    /\ flag_recv_success' = 1
    /\ requests' = requests + 1
    /\ tpc' = "client"
    /\ UNCHANGED <<backlog, s_nextthread, received, flag_Client, recv_serial,
                   post_packet, memp, netconns, senders>>

\* flag_Client = 1
ServerClient ==
    /\ tpc = "client"
    /\ flag_Client' = 1
    /\ tpc' = "spawn"
    /\ UNCHANGED <<backlog, s_nextthread, requests, received, flag_recv_success,
                   recv_serial, post_packet, memp, netconns, senders>>

\* tcp_SendData_init: sys_thread_new takes a table entry whether or not
\* xTaskCreate finds memory for the task, and does nothing when the table is
\* full.
ServerSpawn ==
    /\ tpc = "spawn"
    /\ tpc' = "next"
    /\ IF s_nextthread < SYS_THREAD_MAX
         THEN /\ s_nextthread' = s_nextthread + 1
              /\ \/ pc' = [pc EXCEPT ![s_nextthread + 1] = "start"]
                 \/ pc' = pc
         ELSE UNCHANGED <<s_nextthread, pc>>
    /\ UNCHANGED <<backlog, requests, received, memp, globals, netconns,
                   serial_no, errWrite, posted, writes, failed>>

\* netbuf_next: another fragment of the same netbuf, or netbuf_delete and back
\* to netconn_recv.
ServerNext ==
    /\ tpc = "next"
    /\ tpc' \in {"echo", "recv"}
    /\ UNCHANGED <<backlog, s_nextthread, requests, received, memp, globals, netconns, senders>>

\* Mutant: netconn_delete is missing.
ServerCloseKeepsNetconn ==
    /\ tpc = "close"
    /\ tpc' = "accept"
    /\ UNCHANGED <<backlog, s_nextthread, requests, received, memp, globals, netconns, senders>>

\* netconn_close and netconn_delete give the netconn back to the pool.
ServerClose ==
    /\ tpc = "close"
    /\ tpc' = "accept"
    /\ memp' = memp + 1
    /\ UNCHANGED <<backlog, s_nextthread, requests, received, globals, netconns, senders>>

tcpecho_thread ==
    \/ ServerSetup \/ ServerAccept \/ ServerRecv \/ ServerEcho
    \/ (\E f \in Fragments : ServerSerial(f))
    \/ ServerSuccess \/ ServerClient \/ ServerSpawn \/ ServerNext \/ ServerClose

(***************************************************************************)
(* tcp_sendData_thread                                                     *)
(***************************************************************************)
\* The first statement of a new sender: flag_Client = 0.
SenderStart(i) ==
    /\ pc[i] = "start"
    /\ flag_Client' = 0
    /\ pc' = [pc EXCEPT ![i] = "new"]
    /\ UNCHANGED <<flag_recv_success, recv_serial, post_packet, server, memp, netconns,
                   serial_no, errWrite, posted, writes, failed>>

\* netconn_new, repeated until it returns a netconn.
SenderNew(i) ==
    /\ pc[i] = "new"
    /\ memp > 0
    /\ memp' = memp - 1
    /\ pc' = [pc EXCEPT ![i] = "loop"]
    /\ pcb' = [pcb EXCEPT ![i] = "closed"]
    /\ err' = [err EXCEPT ![i] = "ERR_OK"]
    /\ UNCHANGED <<globals, server, write_offset, queued, serial_no, errWrite, posted,
                   writes, failed>>

\* if (flag_Client == 1)
SenderSeesClient(i) ==
    /\ pc[i] = "loop"
    /\ flag_Client = 1
    /\ pc' = [pc EXCEPT ![i] = "connect"]
    /\ UNCHANGED <<memp, globals, server, netconns, serial_no, errWrite, posted, writes, failed>>

\* Mutant: do_connect allocates a pcb for a netconn that has lost its own.
SenderConnectNewPcb(i) ==
    /\ pc[i] = "connect"
    /\ pc' = [pc EXCEPT ![i] = "connecting"]
    /\ pcb' = [pcb EXCEPT ![i] = "syn"]
    /\ err' = [err EXCEPT ![i] = "ERR_OK"]
    /\ UNCHANGED <<memp, globals, server, write_offset, queued, serial_no, errWrite, posted,
                   writes, failed>>

\* netconn_connect, the part done by do_connect: with no pcb left it completes
\* at once and leaves conn->err as it is.
SenderConnect(i) ==
    /\ pc[i] = "connect"
    /\ \/ /\ pcb[i] = "null"
          /\ pc' = [pc EXCEPT ![i] = "cret"]
          /\ UNCHANGED <<pcb, err>>
       \/ /\ pcb[i] = "closed"
          /\ pc' = [pc EXCEPT ![i] = "connecting"]
          /\ \/ /\ pcb' = [pcb EXCEPT ![i] = "syn"]
                /\ err' = [err EXCEPT ![i] = "ERR_OK"]
             \/ /\ pcb' = [pcb EXCEPT ![i] = "stalled"]
                /\ err' = [err EXCEPT ![i] = "ERR_MEM"]
    /\ UNCHANGED <<memp, globals, server, write_offset, queued, serial_no, errWrite, posted,
                   writes, failed>>

\* do_connected: the peer accepted.
Connected(i) ==
    /\ pc[i] = "connecting"
    /\ pcb[i] = "syn"
    /\ pcb' = [pcb EXCEPT ![i] = "estab"]
    /\ err' = [err EXCEPT ![i] = "ERR_OK"]
    /\ pc' = [pc EXCEPT ![i] = "cret"]
    /\ UNCHANGED <<memp, globals, server, write_offset, queued, serial_no, errWrite, posted,
                   writes, failed>>

\* err_tcp: the connection is refused, reset or timed out; the pcb is gone.
\* A thread that waits for its call to complete is woken.
Woken == [connecting |-> "cret", writing |-> "wret", closing |-> "clret"]
ConnLost(i) ==
    /\ pcb[i] \in {"syn", "estab"}
    /\ pcb' = [pcb EXCEPT ![i] = "null"]
    /\ err' = [err EXCEPT ![i] = "ERR_RST"]
    /\ pc' = [pc EXCEPT ![i] = IF @ \in DOMAIN Woken THEN Woken[@] ELSE @]
    /\ UNCHANGED <<memp, globals, server, write_offset, queued, serial_no, errWrite, posted,
                   writes, failed>>

\* recv_tcp: an answer of the peer, left unread in the recvmbox, resets
\* conn->err; a close that waits has taken the callback away.
PeerAnswers(i) ==
    /\ pcb[i] = "estab"
    /\ pc[i] # "closing"
    /\ err' = [err EXCEPT ![i] = "ERR_OK"]
    /\ UNCHANGED <<memp, globals, server, pcb, write_offset, queued, senders>>

\* The caller of netconn_connect reads conn->err: it goes on when it is
\* ERR_OK, and calls netconn_connect again when it is not.
SenderConnectReturns(i) ==
    /\ pc[i] = "cret"
    /\ pc' = [pc EXCEPT ![i] = IF err[i] = "ERR_OK" THEN "check" ELSE "connect"]
    /\ UNCHANGED <<memp, globals, server, netconns, serial_no, errWrite, posted, writes, failed>>

\* Mutant: the sender waits for both flags.
SenderCheckBoth(i) ==
    /\ pc[i] = "check"
    /\ flag_recv_success = 1
    /\ flag_Client = 1
    /\ pc' = [pc EXCEPT ![i] = "gen"]
    /\ UNCHANGED <<memp, globals, server, netconns, serial_no, errWrite, posted, writes, failed>>

\* if (flag_recv_success)
SenderCheck(i) ==
    /\ pc[i] = "check"
    /\ flag_recv_success = 1
    /\ pc' = [pc EXCEPT ![i] = "gen"]
    /\ UNCHANGED <<memp, globals, server, netconns, serial_no, errWrite, posted, writes, failed>>

\* json_Packet_Gen: the serial is read once, into a local buffer.
SenderGen(i) ==
    /\ pc[i] = "gen"
    /\ serial_no' = [serial_no EXCEPT ![i] = recv_serial]
    /\ pc' = [pc EXCEPT ![i] = "put1"]
    /\ UNCHANGED <<memp, globals, server, netconns, errWrite, posted, writes, failed>>

\* json_Packet_Gen: the last sprintf writes the shared packet piece by piece.
SenderPut(i, h) ==
    /\ pc[i] = IF h = 1 THEN "put1" ELSE "put2"
    /\ post_packet' = [post_packet EXCEPT ![h] = serial_no[i]]
    /\ pc' = [pc EXCEPT ![i] = IF h = 1 THEN "put2" ELSE "write"]
    /\ UNCHANGED <<flag_recv_success, flag_Client, recv_serial, server, memp, netconns,
                   serial_no, errWrite, posted, writes, failed>>

\* do_writemore: what there is room for is copied out of post_packet, which may
\* be another sender's by now.  With the second half the call is complete;
\* until then the caller waits.  tcp_output may report ERR_BUF, and a copy for
\* which there is no memory leaves conn->err alone.
do_writemore(i, offset) ==
    \E n \in offset .. 2 :
        /\ \E e \in {"ERR_OK", "ERR_BUF"} \cup
                     (IF n = offset THEN {err[i]} ELSE {}) :
             err' = [err EXCEPT ![i] = e]
        /\ write_offset' = [write_offset EXCEPT ![i] = n % 2]
        /\ queued' = [queued EXCEPT ![i] = IF n = 1 /\ offset = 0
                                             THEN post_packet[1] ELSE @]
        /\ posted' = IF n < 2 THEN posted
                     ELSE posted \cup {[post_packet EXCEPT ![1] =
                                           IF offset = 0 THEN @ ELSE queued[i]]}
        /\ pc' = [pc EXCEPT ![i] = IF n < 2 THEN "writing" ELSE "wret"]

\* netconn_write, the part done by do_write.  A fatal conn->err is left as it
\* is, and a missing pcb is ERR_VAL.
SenderWrite(i) ==
    /\ pc[i] = "write"
    /\ IF ~ERR_IS_FATAL(err[i]) /\ pcb[i] = "estab"
         THEN do_writemore(i, 0)
         ELSE /\ err' = [err EXCEPT ![i] = IF ERR_IS_FATAL(@) THEN @ ELSE "ERR_VAL"]
              /\ pc' = [pc EXCEPT ![i] = "wret"]
              /\ UNCHANGED <<write_offset, queued, posted>>
    /\ writes' = [writes EXCEPT ![i] = @ + 1]
    /\ UNCHANGED <<memp, globals, server, pcb, serial_no, errWrite, failed>>

\* sent_tcp or poll_tcp goes on with a write that waits.  Neither need come:
\* a peer may keep its window closed for ever.
WriteGoesOn(i) ==
    /\ pc[i] = "writing"
    /\ do_writemore(i, write_offset[i])
    /\ UNCHANGED <<memp, globals, server, pcb, serial_no, errWrite, writes, failed>>

\* netconn_write returns conn->err; flag_Client = 0.
SenderWriteReturns(i) ==
    /\ pc[i] = "wret"
    /\ errWrite' = [errWrite EXCEPT ![i] = err[i]]
    /\ failed' = [failed EXCEPT ![i] = IF err[i] = "ERR_OK" THEN @ ELSE @ + 1]
    /\ flag_Client' = 0
    /\ pc' = [pc EXCEPT ![i] = "clear"]
    /\ UNCHANGED <<flag_recv_success, recv_serial, post_packet, server, memp, netconns,
                   serial_no, posted, writes>>

\* Mutant: flag_recv_success is not reset.
SenderClearNothing(i) ==
    /\ pc[i] = "clear"
    /\ pc' = [pc EXCEPT ![i] = IF errWrite[i] = "ERR_OK" THEN "check" ELSE "close"]
    /\ UNCHANGED <<globals, server, memp, netconns, serial_no, errWrite, posted, writes, failed>>

\* Mutant: the write loop does not look at errWrite.
SenderClearGoesOn(i) ==
    /\ pc[i] = "clear"
    /\ flag_recv_success' = 0
    /\ pc' = [pc EXCEPT ![i] = "check"]
    /\ UNCHANGED <<flag_Client, recv_serial, post_packet, server, memp, netconns,
                   serial_no, errWrite, posted, writes, failed>>

\* flag_recv_success = 0, then while (errWrite == ERR_OK).
SenderClear(i) ==
    /\ pc[i] = "clear"
    /\ flag_recv_success' = 0
    /\ pc' = [pc EXCEPT ![i] = IF errWrite[i] = "ERR_OK" THEN "check" ELSE "close"]
    /\ UNCHANGED <<flag_Client, recv_serial, post_packet, server, memp, netconns,
                   serial_no, errWrite, posted, writes, failed>>

\* do_close_internal: tcp_close leaves no pcb and ERR_OK, or finds no memory
\* for the FIN, and then the caller waits.
do_close_internal(i) ==
    \/ /\ pcb' = [pcb EXCEPT ![i] = "null"]
       /\ err' = [err EXCEPT ![i] = "ERR_OK"]
       /\ pc' = [pc EXCEPT ![i] = "clret"]
    \/ /\ pc' = [pc EXCEPT ![i] = "closing"]
       /\ UNCHANGED <<pcb, err>>

\* netconn_close, the part done by do_close: a netconn that has no pcb gives
\* ERR_VAL.
SenderClose(i) ==
    /\ pc[i] = "close"
    /\ IF pcb[i] = "null"
         THEN /\ err' = [err EXCEPT ![i] = "ERR_VAL"]
              /\ pc' = [pc EXCEPT ![i] = "clret"]
              /\ UNCHANGED pcb
         ELSE do_close_internal(i)
    /\ UNCHANGED <<memp, globals, server, write_offset, queued, serial_no, errWrite, posted,
                   writes, failed>>

\* sent_tcp or poll_tcp tries to close again.
CloseGoesOn(i) ==
    /\ pc[i] = "closing"
    /\ do_close_internal(i)
    /\ UNCHANGED <<memp, globals, server, write_offset, queued, serial_no, errWrite, posted,
                   writes, failed>>

\* while (netconn_close(sendConn) != ERR_OK); the netconn is never deleted.
SenderCloseReturns(i) ==
    /\ pc[i] = "clret"
    /\ pc' = [pc EXCEPT ![i] = IF err[i] = "ERR_OK" THEN "loop" ELSE "close"]
    /\ UNCHANGED <<memp, globals, server, netconns, serial_no, errWrite, posted, writes, failed>>

\* What the sender does itself, and what tcpip_thread does for it.
tcp_sendData_thread(i) ==
    \/ SenderStart(i) \/ SenderSeesClient(i) \/ SenderConnectReturns(i)
    \/ SenderCheck(i) \/ SenderGen(i) \/ (\E h \in 1..2 : SenderPut(i, h))
    \/ SenderWriteReturns(i) \/ SenderClear(i) \/ SenderCloseReturns(i)

tcpip_thread(i) ==
    \/ SenderNew(i) \/ SenderConnect(i) \/ Connected(i) \/ ConnLost(i) \/ PeerAnswers(i)
    \/ SenderWrite(i) \/ WriteGoesOn(i) \/ SenderClose(i) \/ CloseGoesOn(i)

Next ==
    \/ tcpecho_thread
    \/ PeerConnects
    \/ \E i \in Senders : tcp_sendData_thread(i) \/ tcpip_thread(i)

Spec == Init /\ [][Next]_vars

\* The threads have one priority and FreeRTOS time slices them, so each of
\* them runs again and again.  tcpip_thread, which may be held up in err_tcp,
\* and the peers owe nothing.
FairSpec == Spec /\ \A i \in Senders : WF_vars(tcp_sendData_thread(i))

(***************************************************************************)
(* Properties                                                              *)
(***************************************************************************)
\* The netconns of the pool are exactly those somebody holds: the listener,
\* the queued connections, the connection being served and one per sender
\* that got through netconn_new.  tcpecho_thread's netconn_delete is the only
\* way back into the pool.
HasConn(i) == pc[i] \notin {"absent", "start", "new"}
Listeners == IF tpc \in {"setup", "noconn"} THEN 0 ELSE 1
Served == IF tpc \in {"setup", "noconn", "nobind", "deaf", "accept"} THEN 0 ELSE 1
Holders == {i \in Senders : HasConn(i)}
PoolAccounting ==
    memp + backlog + Listeners + Served + Cardinality(Holders) = MEMP_NUM_NETCONN

\* A sender is started only for a serial that was flagged, and always lives in
\* the table entry taken for it.
ThreadTable ==
    /\ s_nextthread <= BootThreads + requests
    /\ \A i \in Senders : pc[i] # "absent" => i <= s_nextthread

\* No sender calls netconn_write twice for one flagged serial: between two of
\* its calls it has cleared flag_recv_success and the server has set it again.
\* (Two senders may both answer the same serial.)
OneWritePerRequest == \A i \in Senders : writes[i] <= requests

\* str2int reads a part whose number is delimited as that number, to the width
\* of int, whatever lies behind it in the buffer and however often the sum
\* overflowed on the way.
ParsesRequest ==
    [][\A f \in Fragments :
          ServerSerial(f) /\ Delimited(f) => recv_serial' = Wrap(Value(Payload(f)))]_vars

\* Whatever the interleaving of the server and of the senders that share
\* recv_serial and post_packet, each half of the serial in a packet comes from
\* a serial that was received: the zero the globals start with is never sent.
PostedWasReceived == \A p \in posted : p[1] \in received /\ p[2] \in received

\* A sender meets at most two write errors in its life: after the first its
\* netconn has no pcb, and netconn_close then returns ERR_VAL for ever.
TwoFailuresAtMost == \A i \in Senders : failed[i] <= 2

\* A sender whose connection is gone never gets another one: it keeps its
\* netconn, and netconn_connect does nothing for a netconn without a pcb.
NeverReconnects ==
    [][\A i \in Senders : HasConn(i) /\ pcb[i] = "null" => pcb'[i] = "null"]_vars

\* As long as a sender sits in its write loop, a flagged serial is taken off
\* the flag, by that sender or by another one, if no call of netconn_write
\* waits for ever.
InWrite(i) == pc[i] \in {"write", "writing"}
PendingServed ==
    (\A i \in Senders : []<>~InWrite(i)) =>
        ((flag_recv_success = 1 /\ \E i \in Senders : pc[i] = "check")
            ~> flag_recv_success = 0)

==============================================================================
