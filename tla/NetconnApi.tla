------------------------------ MODULE NetconnApi ------------------------------
(***************************************************************************)
(* lwIP's netconn API under the firmware's threads: api_lib.c in the       *)
(* callers, api_msg.c and the receiving side of TCP in tcpip_thread, and   *)
(* the mailboxes and semaphores of sys_arch.c between them.                *)
(*                                                                         *)
(* A netconn and its pcb are one record; a callback or a do_ function is   *)
(* an operator that gives the records it may leave behind.  tcpip_thread   *)
(* has a higher priority than its callers, so each message and each timer  *)
(* is one step, except where tcpip_thread itself waits: in err_tcp.        *)
(***************************************************************************)
EXTENDS Integers, Sequences, FiniteSets, Functions

CONSTANTS Server,       \* tcpecho_thread
          Senders,      \* tcp_sendData_threads; a sender's netconn bears its name
          Accepts,      \* the netconns left for accepted connections
          Packet,       \* a TCPIP_MSG_INPKT message
          NoConn,       \* tcpip_thread waits for nobody
          QueueLength,  \* of tcpip_thread's mailbox and the listener's
          RecvLength,   \* of a recvmbox; in this port both are archMESG_QUEUE_LENGTH
          NumInpkt,     \* MEMP_NUM_TCPIP_MSG_INPKT
          MaxData       \* bound: data segments the peer of each netconn sends

Threads == {Server} \cup Senders
Conns == Senders \cup Accepts

\* Six messages fit into a mailbox, three accepted netconns into the pool
\* beside the listener's.
ASSUME NamesAssumption ==
    /\ Server \notin Senders
    /\ Packet \notin Threads
    /\ Senders \cap Accepts = {}
    /\ NoConn \notin Conns
    /\ Accepts # {}
ASSUME SizesAssumption ==
    /\ QueueLength \in Nat \ {0}
    /\ RecvLength \in Nat \ {0}
    /\ NumInpkt \in Nat \ {0}
    /\ MaxData \in [Conns -> Nat]
    /\ IsFiniteSet(Accepts)
    /\ Cardinality(Accepts) <= QueueLength

VARIABLES mbox,        \* tcpip_thread's mailbox: callers' messages and packets
          acceptmbox,  \* the listener's mailbox
          inpkt,       \* free elements of MEMP_TCPIP_MSG_INPKT
          blocked,     \* the netconn whose recvmbox err_tcp waits for
          held,        \* 1 when it does so while handling a packet
          pc, fn, cur, \* of each thread: place, function called, netconn
          conn         \* the netconns

vars == <<mbox, acceptmbox, inpkt, blocked, held, pc, fn, cur, conn>>
tcpip == <<inpkt, blocked, held>>
threads == <<pc, fn, cur>>

(***************************************************************************)
(* A netconn.  refused_data and the entries of recvmbox are the numbers of *)
(* data segments; 0 stands for NULL.  recv tells whether the pcb's receive *)
(* callback is recv_tcp.  rcv_nxt and taken count the segments that TCP    *)
(* accepted and netconn_recv returned.                                     *)
(***************************************************************************)
Errs == {"ERR_OK", "ERR_MEM", "ERR_BUF", "ERR_RST", "ERR_CLSD", "ERR_CONN",
         "ERR_VAL", "ERR_ISCONN"}
ERR_IS_FATAL(e) == e \notin {"ERR_OK", "ERR_MEM", "ERR_BUF"}

\* "stalled": tcp_connect could not queue the SYN.  "freed": tcp_input freed
\* the pcb and the netconn still points to it.
Pcbs == {"null", "closed", "stalled", "syn_sent", "estab", "close_wait",
         "last_ack", "freed"}
Live == {"syn_sent", "estab", "close_wait", "last_ack"}

Netconns ==
    [used : BOOLEAN, pcb : Pcbs, recv : BOOLEAN,
     state : {"NONE", "CONNECT", "WRITE", "CLOSE"}, err : Errs,
     op_completed : 0..1, recvmbox : Seq(Nat), refused_data : Nat,
     write_msg : BOOLEAN, rcv_nxt : Nat, taken : Nat]

netconn_alloc ==
    [used |-> TRUE, pcb |-> "null", recv |-> FALSE, state |-> "NONE",
     err |-> "ERR_OK", op_completed |-> 0, recvmbox |-> <<>>,
     refused_data |-> 0, write_msg |-> FALSE, rcv_nxt |-> 1, taken |-> 0]

\* netconn_free: the mailbox is drained, the semaphore deleted, and the netconn
\* goes back to the pool.  The pcb and the operation stay: netconn_delete
\* resets conn->pcb, but that does not make a pcb forget its netconn.
netconn_free(n) == [netconn_alloc EXCEPT !.used = FALSE, !.pcb = n.pcb, !.state = n.state]

sys_sem_signal(n) == [n EXCEPT !.op_completed = 1]
HasRoom(n) == Len(n.recvmbox) < RecvLength

(***************************************************************************)
(* The callbacks of a pcb                                                  *)
(***************************************************************************)
\* Mutant: the data is forgotten when the mailbox is full.
EventRecvForgets(n, p) ==
    IF ~n.recv THEN n
    ELSE IF HasRoom(n)
         THEN [n EXCEPT !.err = "ERR_OK", !.recvmbox = Append(@, p)]
         ELSE [n EXCEPT !.err = "ERR_OK"]

\* Mutant: nobody looks whether there is room.
EventRecvAlways(n, p) ==
    IF ~n.recv THEN n
    ELSE [n EXCEPT !.err = "ERR_OK", !.recvmbox = Append(@, p)]

\* TCP_EVENT_RECV for data p.  recv_tcp resets conn->err, then tries to post;
\* what it refuses is kept by the caller.  tcp_recv_null drops the data.
EventRecv(n, p) ==
    IF ~n.recv THEN n
    ELSE IF HasRoom(n)
         THEN [n EXCEPT !.err = "ERR_OK", !.recvmbox = Append(@, p)]
         ELSE [n EXCEPT !.err = "ERR_OK", !.refused_data = p]

\* tcp_close needs memory for a FIN once the connection is established.
tcp_close(n) == IF n.pcb \in {"estab", "close_wait"} THEN {"ERR_OK", "ERR_MEM"} ELSE {"ERR_OK"}

\* The callback of a pcb without one, at the end of the stream: close.
tcp_recv_null(n) ==
    {IF e = "ERR_OK" THEN [n EXCEPT !.pcb = "last_ack"] ELSE n : e \in tcp_close(n)}

\* TCP_EVENT_RECV for the end of the stream.  Nobody keeps a NULL that
\* recv_tcp could not post.
EventEof(n) ==
    IF n.recv
      THEN {[n EXCEPT !.err = "ERR_OK",
                      !.recvmbox = IF HasRoom(n) THEN Append(@, 0) ELSE @]}
      ELSE tcp_recv_null(n)

\* Data refused before is offered again, by tcp_input and by tcp_fasttmr.
Redeliver(n) ==
    IF n.refused_data = 0 THEN n
    ELSE EventRecv([n EXCEPT !.refused_data = 0], n.refused_data)

\* tcp_write takes all of the data, a part of it, or none for want of memory,
\* and refuses a pcb that is not connected.
tcp_write(n) == IF n.pcb \in {"syn_sent", "estab", "close_wait"}
                  THEN {"all", "part", "ERR_MEM"} ELSE {"ERR_CONN"}

\* The operation of n is over with result e.
Ended(n, e) == sys_sem_signal([n EXCEPT !.err = e, !.state = "NONE"])

\* Mutant: write_msg is not reset when everything was written.
do_writemoreKeepsMsg(n) ==
    UNION {CASE w = "all" -> {Ended(n, e) : e \in {"ERR_OK", "ERR_BUF"}}
             [] w = "part" -> {[n EXCEPT !.err = e] : e \in {"ERR_OK", "ERR_BUF"}}
             [] w = "ERR_MEM" -> {n}
             [] w = "ERR_CONN" -> {Ended(n, "ERR_CONN")}
             : w \in tcp_write(n)}

\* What was written is sent, with the error of tcp_output.  sent_tcp or
\* poll_tcp come back for the rest; ERR_MEM is only a temporary error.
do_writemore(n) ==
    UNION {CASE w = "all" -> {Ended([n EXCEPT !.write_msg = FALSE], e) :
                                e \in {"ERR_OK", "ERR_BUF"}}
             [] w = "part" -> {[n EXCEPT !.err = e] : e \in {"ERR_OK", "ERR_BUF"}}
             [] w = "ERR_MEM" -> {n}
             [] w = "ERR_CONN" -> {Ended(n, "ERR_CONN")}
             : w \in tcp_write(n)}

\* Mutant: the caller is released whether or not the pcb could be closed.
do_close_internalGivesUp(n) ==
    {IF e = "ERR_OK"
       THEN Ended([n EXCEPT !.pcb = "null", !.recv = FALSE, !.refused_data = 0,
                            !.rcv_nxt = 1], e)
       ELSE Ended([n EXCEPT !.recv = FALSE], e) : e \in tcp_close(n)}

\* The callbacks are taken off the pcb.  Either tcp_close ends the operation,
\* or all callbacks but recv are put back.
do_close_internal(n) ==
    {IF e = "ERR_OK"
       THEN Ended([n EXCEPT !.pcb = "null", !.recv = FALSE, !.refused_data = 0,
                            !.rcv_nxt = 1], e)
       ELSE [n EXCEPT !.recv = FALSE] : e \in tcp_close(n)}

\* sent_tcp and poll_tcp: go on with the operation that waits.
GoOn(n) ==
    CASE n.state = "WRITE" -> do_writemore(n)
      [] n.state = "CLOSE" -> do_close_internal(n)
      [] OTHER -> {n}

do_connected(n) ==
    sys_sem_signal([n EXCEPT !.pcb = "estab", !.err = "ERR_OK",
                             !.recv = TRUE, !.state = "NONE"])

(***************************************************************************)
(* The functions tcpip_thread executes for a caller                        *)
(***************************************************************************)
do_newconn(n) ==
    {sys_sem_signal([n EXCEPT !.err = "ERR_MEM"]),
     sys_sem_signal([n EXCEPT !.err = "ERR_OK", !.pcb = "closed", !.recv = TRUE])}

\* tcp_connect fails when the pcb is not closed, and when the SYN finds no
\* memory; its pcb is active all the same.
tcp_connect(n) ==
    IF n.pcb = "closed"
      THEN {[n EXCEPT !.pcb = "syn_sent", !.err = "ERR_OK"],
            [n EXCEPT !.pcb = "stalled", !.err = "ERR_MEM"]}
      ELSE {[n EXCEPT !.err = "ERR_ISCONN"]}

\* Mutant: the caller is released although do_connected will do so again.
do_connectAcks(n) ==
    IF n.pcb = "null" THEN {sys_sem_signal(n)}
    ELSE {sys_sem_signal(k) :
            k \in tcp_connect([n EXCEPT !.state = "CONNECT", !.recv = TRUE])}

\* The semaphore is signalled by do_connected or err_tcp, later; here only
\* when there is no pcb, and then conn->err is not touched.
do_connect(n) ==
    IF n.pcb = "null" THEN {sys_sem_signal(n)}
    ELSE tcp_connect([n EXCEPT !.state = "CONNECT", !.recv = TRUE])

\* Mutant: the caller is not released.
do_recvSilent(n) == {n}

\* tcp_recved only opens the window.
do_recv(n) == {sys_sem_signal(n)}

do_write(n) ==
    IF ERR_IS_FATAL(n.err) THEN {sys_sem_signal(n)}
    ELSE IF n.pcb = "null" THEN {sys_sem_signal([n EXCEPT !.err = "ERR_VAL"])}
    ELSE do_writemore([n EXCEPT !.state = "WRITE", !.write_msg = TRUE])

do_close(n) ==
    IF n.pcb = "null" THEN {sys_sem_signal([n EXCEPT !.err = "ERR_VAL"])}
    ELSE do_close_internal([n EXCEPT !.state = "CLOSE"])

do_delconn(n) ==
    IF n.pcb = "null" THEN {sys_sem_signal(n)}
    ELSE do_close_internal([n EXCEPT !.state = "CLOSE"])

ApiFunctions == {"do_newconn", "do_connect", "do_recv", "do_write", "do_close",
                 "do_delconn"}
function(f, n) ==
    CASE f = "do_newconn" -> do_newconn(n)
      [] f = "do_connect" -> do_connect(n)
      [] f = "do_recv" -> do_recv(n)
      [] f = "do_write" -> do_write(n)
      [] f = "do_close" -> do_close(n)
      [] f = "do_delconn" -> do_delconn(n)

(***************************************************************************)
(* tcp_input for the pcb of a netconn                                      *)
(***************************************************************************)
\* The callback for new data, and the one for the end of the stream.
Data(n, flags) ==
    IF "data" \in flags /\ n.pcb # "null" /\ n.recv
      THEN EventRecv([n EXCEPT !.rcv_nxt = @ + 1], n.rcv_nxt) ELSE n
Fin(n, flags) == IF "fin" \in flags /\ n.pcb # "null" THEN EventEof(n) ELSE {n}

\* tcp_receive, then sent, recv and recv with NULL, as long as the pcb still
\* belongs to the netconn: sent_tcp may have closed it.
Receive(n, flags) ==
    LET n1 == IF "fin" \in flags THEN [n EXCEPT !.pcb = "close_wait"] ELSE n
    IN  UNION {Fin(Data(k, flags), flags) : k \in IF "acked" \in flags THEN GoOn(n1) ELSE {n1}}

\* tcp_process for a segment without RST.  In LAST_ACK the acknowledgement of
\* the FIN frees the pcb, and no callback is called.
tcp_process(n, max) ==
    CASE n.pcb = "syn_sent" -> {do_connected(n)}
      [] n.pcb = "estab" ->
           UNION {Receive(n, flags) :
                    flags \in {x \in SUBSET {"acked", "data", "fin"} :
                                 "data" \in x => n.rcv_nxt <= max}}
      [] n.pcb = "close_wait" -> Receive(n, {"acked"})
      [] n.pcb = "last_ack" -> {[n EXCEPT !.pcb = "freed"]} \cup GoOn(n)
      [] OTHER -> {n}

\* err_tcp up to its sys_mbox_post; the pcb is gone.  ERR_RST stands for
\* ERR_ABRT as well.
err_tcp_lost(n) ==
    [n EXCEPT !.pcb = "null", !.recv = FALSE, !.err = "ERR_RST",
              !.refused_data = 0, !.rcv_nxt = 1]

\* Mutant: the reader is not told.
err_tcp_postedNothing(n) ==
    IF n.state = "NONE" THEN n ELSE sys_sem_signal([n EXCEPT !.state = "NONE"])

\* Mutant: a caller that waits for its data to be written is not told.
err_tcp_postedKeepsWriter(n) ==
    LET k == [n EXCEPT !.recvmbox = Append(@, 0)]
    IN  IF n.state \in {"NONE", "WRITE"} THEN k
        ELSE sys_sem_signal([k EXCEPT !.state = "NONE"])

\* err_tcp from its sys_mbox_post on: whatever the caller waits for has ended.
err_tcp_posted(n) ==
    LET k == [n EXCEPT !.recvmbox = Append(@, 0)]
    IN  IF n.state = "NONE" THEN k
        ELSE sys_sem_signal([k EXCEPT !.state = "NONE"])

(***************************************************************************)
(* tcpip_thread                                                            *)
(***************************************************************************)
\* The connection of c, now n, is lost.  k elements of the pool go back when
\* tcpip_thread is through.
ConnectionLost(c, n, k) ==
    /\ IF HasRoom(n)
         THEN /\ conn' = [conn EXCEPT ![c] = err_tcp_posted(err_tcp_lost(n))]
              /\ inpkt' = inpkt + k
              /\ UNCHANGED <<blocked, held>>
         ELSE /\ conn' = [conn EXCEPT ![c] = err_tcp_lost(n)]
              /\ blocked' = c
              /\ held' = k
              /\ UNCHANGED inpkt
    /\ UNCHANGED <<acceptmbox, threads>>

\* There is room again: sys_mbox_post returns and err_tcp goes on.
ErrTcpGoesOn ==
    /\ blocked # NoConn
    /\ HasRoom(conn[blocked])
    /\ conn' = [conn EXCEPT ![blocked] = err_tcp_posted(@)]
    /\ blocked' = NoConn
    /\ inpkt' = inpkt + held
    /\ held' = 0
    /\ UNCHANGED <<mbox, acceptmbox, threads>>

\* TCPIP_MSG_API
ApiMsg(t) ==
    /\ blocked = NoConn
    /\ mbox # <<>>
    /\ Head(mbox) = t
    /\ mbox' = Tail(mbox)
    /\ \E n \in function(fn[t], conn[cur[t]]) : conn' = [conn EXCEPT ![cur[t]] = n]
    /\ UNCHANGED <<acceptmbox, tcpip, threads>>

\* TCPIP_MSG_INPKT with a segment for the connection of c.  A pcb whose data
\* is refused once more does not even see it.
PacketFor(c) ==
    /\ conn[c].pcb \in Live
    /\ LET n == Redeliver(conn[c])
       IN  \/ \E k \in IF n.refused_data # 0 THEN {n} ELSE tcp_process(n, MaxData[c]) :
                /\ conn' = [conn EXCEPT ![c] = k]
                /\ inpkt' = inpkt + 1
                /\ UNCHANGED <<acceptmbox, blocked, held, threads>>
           \/ /\ n.refused_data = 0
              /\ ConnectionLost(c, n, 1)

\* The acknowledgement of a SYN_RCVD pcb, with data or not: accept_function
\* makes a netconn of it.
accept_function(c) ==
    /\ ~conn[c].used
    /\ \E flags \in {x \in SUBSET {"data", "fin"} : "data" \in x => MaxData[c] > 0} :
         \E n \in Receive([netconn_alloc EXCEPT !.pcb = "estab", !.recv = TRUE], flags) :
           conn' = [conn EXCEPT ![c] = n]
    /\ acceptmbox' = Append(acceptmbox, c)
    /\ inpkt' = inpkt + 1
    /\ UNCHANGED <<blocked, held, threads>>

\* A packet that reaches no connection; also a SYN_RCVD pcb without a netconn.
StrayPacket ==
    /\ inpkt' = inpkt + 1
    /\ UNCHANGED <<acceptmbox, blocked, held, threads, conn>>

InPkt ==
    /\ blocked = NoConn
    /\ mbox # <<>>
    /\ Head(mbox) = Packet
    /\ mbox' = Tail(mbox)
    /\ \/ \E c \in Conns : PacketFor(c)
       \/ \E c \in Accepts : accept_function(c)
       \/ StrayPacket

\* tcp_fasttmr
tcp_fasttmr(c) ==
    /\ blocked = NoConn
    /\ conn[c].pcb \in Live
    /\ conn[c].refused_data # 0
    /\ conn' = [conn EXCEPT ![c] = Redeliver(@)]
    /\ UNCHANGED <<mbox, acceptmbox, tcpip, threads>>

\* tcp_slowtmr: the poll callback, or the end of a connection that nobody
\* answers or that tcp_alloc needs the room of.
tcp_slowtmr(c) ==
    /\ blocked = NoConn
    /\ UNCHANGED mbox
    /\ \/ /\ conn[c].pcb \in Live
          /\ \E n \in GoOn(conn[c]) : conn' = [conn EXCEPT ![c] = n]
          /\ UNCHANGED <<acceptmbox, tcpip, threads>>
       \/ /\ conn[c].pcb \in Live \cup {"stalled"}
          /\ ConnectionLost(c, conn[c], 0)

\* Mutant: an element is lost when the mailbox is full.
tcpip_inputLeaks ==
    /\ inpkt > 0
    /\ mbox' = IF Len(mbox) < QueueLength THEN Append(mbox, Packet) ELSE mbox
    /\ inpkt' = inpkt - 1
    /\ UNCHANGED <<acceptmbox, blocked, held, threads, conn>>

\* Eth_if hands a packet over.  It is dropped when the pool is empty or the
\* mailbox full; the element is given back then.
tcpip_input ==
    /\ inpkt > 0
    /\ Len(mbox) < QueueLength
    /\ mbox' = Append(mbox, Packet)
    /\ inpkt' = inpkt - 1
    /\ UNCHANGED <<acceptmbox, blocked, held, threads, conn>>

(***************************************************************************)
(* The threads.  tcpip_apimsg posts the message, which lies on the         *)
(* caller's stack, and waits for the netconn's semaphore.                  *)
(***************************************************************************)
Places == {"accept", "recv", "fetch", "new", "idle", "loop", "post", "wait"}

\* t makes a call; or calls the next function at once.
Calls(t, f) ==
    /\ pc' = [pc EXCEPT ![t] = "post"]
    /\ fn' = [fn EXCEPT ![t] = f]

Goes(t, place) ==
    /\ pc' = [pc EXCEPT ![t] = place]
    /\ UNCHANGED fn

sys_mbox_post(t) ==
    /\ pc[t] = "post"
    /\ Len(mbox) < QueueLength
    /\ mbox' = Append(mbox, t)
    /\ Goes(t, "wait")
    /\ UNCHANGED <<acceptmbox, tcpip, cur, conn>>

\* netconn_accept
netconn_accept ==
    /\ pc[Server] = "accept"
    /\ acceptmbox # <<>>
    /\ cur' = [cur EXCEPT ![Server] = Head(acceptmbox)]
    /\ acceptmbox' = Tail(acceptmbox)
    /\ Goes(Server, "recv")
    /\ UNCHANGED <<mbox, tcpip, conn>>

\* netconn_recv up to its sys_arch_mbox_fetch.  Without a netbuf, and on a
\* connection that has failed, it returns NULL and the server closes.
netconn_recv ==
    /\ pc[Server] = "recv"
    /\ LET c == cur[Server]
       IN  \/ ~ERR_IS_FATAL(conn[c].err) /\ Goes(Server, "fetch") /\ UNCHANGED conn
           \/ ERR_IS_FATAL(conn[c].err) /\ Calls(Server, "do_close") /\ UNCHANGED conn
           \/ /\ ~ERR_IS_FATAL(conn[c].err)
              /\ Calls(Server, "do_close")
              /\ conn' = [conn EXCEPT ![c].err = "ERR_MEM"]
    /\ UNCHANGED <<mbox, acceptmbox, tcpip, cur>>

\* netconn_recv after it: NULL is the end, data is reported to the stack.
Fetched(n) ==
    LET k == [n EXCEPT !.recvmbox = Tail(@)]
    IN  IF Head(n.recvmbox) # 0 THEN [k EXCEPT !.taken = @ + 1]
        ELSE [k EXCEPT !.err = IF @ = "ERR_OK" THEN "ERR_CLSD" ELSE @]

sys_arch_mbox_fetch ==
    /\ pc[Server] = "fetch"
    /\ LET c == cur[Server]
       IN  /\ conn[c].recvmbox # <<>>
           /\ conn' = [conn EXCEPT ![c] = Fetched(@)]
           /\ Calls(Server, IF Head(conn[c].recvmbox) = 0 THEN "do_close" ELSE "do_recv")
    /\ UNCHANGED <<mbox, acceptmbox, tcpip, cur>>

\* What tcpecho_thread does next.  A netbuf may hold several parts, each of
\* which is written; the results of write and close are not looked at.
ServerReturns ==
    /\ \/ fn[Server] = "do_recv" /\ Calls(Server, "do_write")
       \/ fn[Server] = "do_write" /\ (Calls(Server, "do_write") \/ Goes(Server, "recv"))
       \/ fn[Server] = "do_close" /\ Calls(Server, "do_delconn")
       \/ fn[Server] = "do_delconn" /\ Goes(Server, "accept")
    /\ IF fn[Server] = "do_delconn"
         THEN /\ conn' = [conn EXCEPT ![cur[Server]] =
                            netconn_free(@)]
              /\ cur' = [cur EXCEPT ![Server] = NoConn]
         ELSE /\ conn' = [conn EXCEPT ![cur[Server]].op_completed = 0]
              /\ UNCHANGED cur

\* What tcp_sendData_thread does next.
SenderReturns(s) ==
    LET ok == conn[s].err = "ERR_OK"
        Next1(good, bad) == IF ok THEN good ELSE bad
    IN  /\ CASE fn[s] = "do_newconn" -> Next1(Goes(s, "idle"), Goes(s, "new"))
             [] fn[s] = "do_connect" -> Next1(Goes(s, "loop"), Calls(s, "do_connect"))
             [] fn[s] = "do_write" -> Next1(Goes(s, "loop"), Calls(s, "do_close"))
             [] fn[s] = "do_close" -> Next1(Goes(s, "idle"), Calls(s, "do_close"))
        /\ LET n == [conn[s] EXCEPT !.op_completed = 0]
           IN  conn' = [conn EXCEPT ![s] = IF fn[s] = "do_newconn" /\ ~ok
                                             THEN netconn_free(n) ELSE n]
        /\ UNCHANGED cur

sys_arch_sem_wait(t) ==
    /\ pc[t] = "wait"
    /\ conn[cur[t]].op_completed = 1
    /\ IF t = Server THEN ServerReturns ELSE SenderReturns(t)
    /\ UNCHANGED <<mbox, acceptmbox, tcpip>>

\* A sender's own steps: netconn_new, and netconn_connect and netconn_write
\* when flag_Client and flag_recv_success say so.
SenderCalls(s) ==
    /\ \/ /\ pc[s] = "new"
          /\ Calls(s, "do_newconn")
          /\ conn' = [conn EXCEPT ![s] = netconn_alloc]
       \/ pc[s] = "idle" /\ Calls(s, "do_connect") /\ UNCHANGED conn
       \/ pc[s] = "loop" /\ Calls(s, "do_write") /\ UNCHANGED conn
    /\ UNCHANGED <<mbox, acceptmbox, tcpip, cur>>

(***************************************************************************)
(* The specification                                                       *)
(***************************************************************************)
\* tcpip_thread runs and tcpecho_thread listens.
Init ==
    /\ mbox = <<>>
    /\ acceptmbox = <<>>
    /\ inpkt = NumInpkt
    /\ blocked = NoConn
    /\ held = 0
    /\ pc = [t \in Threads |-> IF t = Server THEN "accept" ELSE "new"]
    /\ fn = [t \in Threads |-> "do_recv"]
    /\ cur = [t \in Threads |-> IF t = Server THEN NoConn ELSE t]
    /\ conn = [c \in Conns |-> netconn_free(netconn_alloc)]

tcpip_thread == InPkt \/ ErrTcpGoesOn \/ \E t \in Threads : ApiMsg(t)
tcp_tmr == \E c \in Conns : tcp_fasttmr(c) \/ tcp_slowtmr(c)
tcpecho_thread ==
    \/ netconn_accept \/ netconn_recv \/ sys_arch_mbox_fetch
    \/ sys_mbox_post(Server) \/ sys_arch_sem_wait(Server)
tcp_sendData_thread(s) == sys_mbox_post(s) \/ sys_arch_sem_wait(s)

Next ==
    \/ tcpip_thread \/ tcp_tmr \/ tcpip_input
    \/ tcpecho_thread
    \/ \E s \in Senders : tcp_sendData_thread(s) \/ SenderCalls(s)

Spec == Init /\ [][Next]_vars

\* tcpip_thread takes every message from its mailbox, a thread goes on when
\* what it waits for is there, and the TCP timer offers refused data again.
\* Nothing is assumed of the peers, of memory, or of a sender's flags.
FairSpec ==
    /\ Spec
    /\ WF_vars(tcpip_thread) /\ WF_vars(tcpecho_thread)
    /\ \A s \in Senders : WF_vars(tcp_sendData_thread(s))
    /\ WF_vars(\E c \in Conns : tcp_fasttmr(c))

(***************************************************************************)
(* Properties                                                              *)
(***************************************************************************)
TypeOK ==
    /\ mbox \in Seq(Threads \cup {Packet}) /\ Len(mbox) <= QueueLength
    /\ acceptmbox \in Seq(Accepts)
    /\ inpkt \in 0..NumInpkt /\ held \in 0..1
    /\ blocked \in Conns \cup {NoConn}
    /\ pc \in [Threads -> Places]
    /\ fn \in [Threads -> ApiFunctions]
    /\ cur \in [Threads -> Conns \cup {NoConn}]
    /\ conn \in [Conns -> Netconns]
    /\ \A c \in Conns : Len(conn[c].recvmbox) <= RecvLength

\* A call of t is somewhere: about to be posted, in the mailbox, or an
\* operation that its netconn has not ended yet.
Pending(t) ==
    \/ pc[t] = "post"
    \/ t \in Range(mbox)
    \/ cur[t] # NoConn /\ conn[cur[t]].state # "NONE"

Signalled(t) == cur[t] # NoConn /\ conn[cur[t]].op_completed = 1

Phase(t) ==
    CASE pc[t] \in {"post", "wait"} /\ Pending(t) /\ ~Signalled(t) -> "asked"
      [] pc[t] = "wait" /\ ~Pending(t) /\ Signalled(t) -> "answered"
      [] pc[t] \notin {"post", "wait"} /\ ~Pending(t) /\ ~Signalled(t) -> "idle"
      [] OTHER -> "confused"

\* tcpip_apimsg, the do_ functions, the callbacks and err_tcp together: every
\* call is answered at most once, no answer is left over for the next call,
\* and nothing of a call remains when its caller goes on.
Calling == INSTANCE ApiCall WITH phase <- [t \in Threads |-> Phase(t)]
CallSpec == Calling!Spec

\* write_msg points to the stack of the caller of netconn_write.  Whenever
\* do_writemore may follow it, that caller is still waiting; and what
\* do_write asserts, that nobody is writing already, holds.
WriteMsgValid ==
    \A c \in Conns :
      /\ conn[c].state = "WRITE" =>
           /\ conn[c].write_msg
           /\ \E t \in Threads : cur[t] = c /\ pc[t] = "wait" /\ fn[t] = "do_write"
      /\ conn[c].pcb # "null" /\ conn[c].state # "WRITE" => ~conn[c].write_msg

\* netconn_free: once a netconn is back in the pool no pcb calls back into it,
\* no mailbox names it and tcpip_thread does not wait for it.
FreeIsForgotten ==
    \A c \in Conns : ~conn[c].used =>
      /\ conn[c].pcb = "null"
      /\ conn[c].state = "NONE"
      /\ c \notin Range(acceptmbox)
      /\ c # blocked
      /\ cur[Server] # c

\* The k segments after those the reader has taken are in its mailbox, the last
\* perhaps refused, with nothing but NULL behind them; TCP accepted no others.
Holds(n, k) ==
    /\ \A i \in DOMAIN n.recvmbox : n.recvmbox[i] = IF i <= k THEN n.taken + i ELSE 0
    /\ n.refused_data = IF k > Len(n.recvmbox) THEN n.taken + k ELSE 0
    /\ n.recv => n.rcv_nxt = n.taken + k + 1

\* recv_tcp, refused_data and netconn_recv: what TCP accepted reaches the
\* reader once and in order, through a mailbox that overflows on the way.
StreamIntact ==
    \A c \in Conns : \E k \in 0..(Len(conn[c].recvmbox) + 1) : Holds(conn[c], k)

PacketsIn(s) == {i \in DOMAIN s : s[i] = Packet}

\* tcpip_input and tcpip_thread: an element of the pool is free, in the
\* mailbox, or in the hands of a tcpip_thread that waits in err_tcp.
InpktAccounting == inpkt + held + Cardinality(PacketsIn(mbox)) = NumInpkt

\* A call that needs nothing from a peer comes back once its message is in the
\* mailbox, unless tcpip_thread is held up in err_tcp.
ShortCallsReturn ==
    \A t \in Threads :
      (pc[t] = "wait" /\ fn[t] \in {"do_newconn", "do_recv"})
        ~> (pc[t] # "wait" \/ blocked # NoConn)

\* A connection that ended while tcpecho_thread reads from it is noticed: the
\* reader gets what is in the mailbox and then NULL.
LossWakesReader ==
    (pc[Server] = "fetch" /\ conn[cur[Server]].pcb = "null")
      ~> (pc[Server] # "fetch" \/ blocked # NoConn)

\* A call that waits for its connection has one: whenever the pcb is lost, to a
\* reset, a timer or a close, the operation of connect, write or close has ended
\* and its caller is signalled, unless err_tcp is still on its way there.  Only a
\* close may be left with a pcb that tcp_input has freed.
LossEndsOperation ==
    \A c \in Conns : c # blocked =>
      /\ conn[c].state = "CONNECT" => conn[c].pcb \in {"stalled", "syn_sent"}
      /\ conn[c].state = "WRITE" => conn[c].pcb \in {"estab", "close_wait"}
      /\ conn[c].state = "CLOSE" => conn[c].pcb # "null"

\* The comment at err_tcp says that it signals conn->sem, posts to all conn
\* mboxes and leaves the decision to the application thread: tcpip_thread
\* itself always gets through it.
ErrTcpEnds == (blocked # NoConn) ~> (blocked = NoConn)

\* The comment in tcp_input says that the receive callback is called with NULL
\* to indicate EOF: a reader whose peer has closed does not wait for ever.
EofWakesReader ==
    (pc[Server] = "fetch" /\ conn[cur[Server]].pcb = "close_wait")
      ~> (pc[Server] # "fetch" \/ blocked # NoConn)

==============================================================================
