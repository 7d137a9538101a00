-------------------------- MODULE NetconnApiProofs --------------------------
(***************************************************************************)
(* The netconn API for every number of senders and accepted connections,   *)
(* every mailbox length, every pool size and every amount of data.         *)
(***************************************************************************)
EXTENDS NetconnApi, FiniteSetTheorems, SequenceTheorems, TLAPS

(***************************************************************************)
(* The inductive invariant                                                 *)
(***************************************************************************)
\* What the state of a netconn's pcb says of its other members.
PcbInv(n) ==
    /\ n.pcb = "null" => ~n.recv
    /\ n.pcb # "null" /\ ~n.recv => n.state = "CLOSE"
    /\ n.pcb = "closed" => n.state = "NONE"
    /\ n.pcb \in {"stalled", "syn_sent"} => n.state = "CONNECT"
    /\ n.pcb \in {"estab", "close_wait"} => n.state # "CONNECT"
    /\ n.pcb \in {"last_ack", "freed"} => n.state = "CLOSE"

\* What the operation of a netconn says of its other members.
OpInv(n) ==
    /\ n.op_completed = 1 => n.state = "NONE"
    /\ n.state = "WRITE" => n.write_msg
    /\ n.write_msg => n.state = "WRITE" \/ n.pcb = "null"
    /\ ~n.used => n.pcb = "null" /\ n.state = "NONE" /\ n.op_completed = 0

\* Before the connection stands nothing has been received; while the peer may
\* send more, no NULL is in the mailbox.
StreamInv(n) ==
    /\ Len(n.recvmbox) <= RecvLength
    /\ \E k \in 0..(Len(n.recvmbox) + 1) : Holds(n, k)
    /\ n.pcb \in {"closed", "stalled", "syn_sent"} =>
         /\ n.recvmbox = <<>>
         /\ n.refused_data = 0
         /\ n.rcv_nxt = 1
         /\ n.taken = 0
    /\ n.pcb = "null" => n.refused_data = 0
    /\ n.pcb = "estab" => \A i \in DOMAIN n.recvmbox : n.recvmbox[i] # 0

ConnInv(n) == n \in Netconns /\ PcbInv(n) /\ OpInv(n) /\ StreamInv(n)

Idle(n) == n.state = "NONE" /\ n.op_completed = 0

\* No pcb will ever call back into c, and err_tcp does not wait for it.
Quiet(c) == conn[c].pcb = "null" /\ blocked # c

\* What a caller may rely on when it calls f, and when f has returned.
Pre(f, c) ==
    /\ f = "do_newconn" => conn[c] = netconn_alloc /\ blocked # c
    /\ f = "do_connect" => conn[c].pcb \in {"null", "closed"}
    /\ f = "do_write" => conn[c].pcb # "closed"
    /\ f = "do_delconn" => Quiet(c)

Post(f, c) ==
    /\ f = "do_newconn" => IF conn[c].err = "ERR_OK" THEN conn[c].pcb = "closed" ELSE Quiet(c)
    /\ f = "do_connect" => \/ conn[c].pcb = "null"
                           \/ conn[c].pcb # "closed" /\ conn[c].err = "ERR_OK"
    /\ f = "do_write" => conn[c].pcb # "closed"
    /\ f \in {"do_close", "do_delconn"} => Quiet(c)

\* The function whose call a pending operation belongs to.
Matches(f, state) ==
    /\ state = "CONNECT" => f = "do_connect"
    /\ state = "WRITE" => f = "do_write"
    /\ state = "CLOSE" => f \in {"do_close", "do_delconn"}

\* The stages of a thread.
Resting(t) ==
    /\ pc[t] \notin {"post", "wait"}
    /\ t \notin Range(mbox)
    /\ pc[t] # "accept" =>
         /\ Idle(conn[cur[t]])
         /\ conn[cur[t]].used <=> pc[t] # "new"
         /\ pc[t] = "idle" => conn[cur[t]].pcb \in {"null", "closed"}
         /\ pc[t] = "loop" => conn[cur[t]].pcb # "closed"

Asking(t) ==
    /\ \/ pc[t] = "post" /\ t \notin Range(mbox)
       \/ pc[t] = "wait" /\ t \in Range(mbox)
    /\ Idle(conn[cur[t]])
    /\ conn[cur[t]].used
    /\ Pre(fn[t], cur[t])

Running(t) ==
    /\ pc[t] = "wait" /\ t \notin Range(mbox)
    /\ conn[cur[t]].state # "NONE"
    /\ conn[cur[t]].op_completed = 0
    /\ conn[cur[t]].used
    /\ Matches(fn[t], conn[cur[t]].state)

Asked(t) == Asking(t) \/ Running(t)

Answered(t) ==
    /\ pc[t] = "wait" /\ t \notin Range(mbox)
    /\ conn[cur[t]].state = "NONE"
    /\ conn[cur[t]].op_completed = 1
    /\ conn[cur[t]].used
    /\ Post(fn[t], cur[t])

ThreadInv(t) == Resting(t) \/ Asked(t) \/ Answered(t)

\* Which netconn a thread works with, and which calls it makes.
NamesInv ==
    /\ \A s \in Senders : /\ cur[s] = s
                          /\ pc[s] \in {"new", "idle", "loop", "post", "wait"}
                          /\ fn[s] # "do_delconn"
                          /\ pc[s] \in {"post", "wait"} => fn[s] # "do_recv"
    /\ cur[Server] \in Accepts \cup {NoConn}
    /\ cur[Server] = NoConn <=> pc[Server] = "accept"
    /\ pc[Server] \in {"accept", "recv", "fetch", "post", "wait"}
    /\ fn[Server] \notin {"do_newconn", "do_connect"}

\* tcpip_thread in err_tcp.
BlockedInv ==
    /\ blocked # NoConn => conn[blocked].used /\ conn[blocked].pcb = "null"
    /\ \A c \in Conns : conn[c].pcb = "null" /\ conn[c].state # "NONE" => blocked = c
    /\ blocked = NoConn => held = 0

\* A thread has at most one message in the mailbox.
Once(s) == \A i, j \in DOMAIN s : s[i] = s[j] /\ s[i] # Packet => i = j

\* An accepted netconn is in the listener's mailbox, with the server, or
\* nowhere; only the server starts an operation on it.
AcceptInv ==
    /\ \A i, j \in DOMAIN acceptmbox : acceptmbox[i] = acceptmbox[j] => i = j
    /\ \A c \in Range(acceptmbox) : conn[c].used /\ c # cur[Server]
    /\ \A c \in Accepts :
         /\ conn[c].pcb \notin {"closed", "stalled", "syn_sent"}
         /\ ~Idle(conn[c]) => cur[Server] = c
         /\ ~conn[c].used => cur[Server] # c

TypeInv ==
    /\ mbox \in Seq(Threads \cup {Packet}) /\ Len(mbox) <= QueueLength
    /\ acceptmbox \in Seq(Accepts)
    /\ inpkt \in Nat /\ held \in 0..1
    /\ blocked \in Conns \cup {NoConn}
    /\ pc \in [Threads -> Places]
    /\ fn \in [Threads -> ApiFunctions]
    /\ cur \in [Threads -> Conns \cup {NoConn}]
    /\ conn \in [Conns -> Netconns]

DataInv ==
    /\ TypeInv
    /\ \A c \in Conns : ConnInv(conn[c])
    /\ NamesInv /\ BlockedInv /\ Once(mbox) /\ AcceptInv
    /\ InpktAccounting

IInv == DataInv /\ \A t \in Threads : ThreadInv(t)

(***************************************************************************)
(* Steps of TCP and its callbacks on one netconn                           *)
(***************************************************************************)
\* What TCP may make of a netconn n: an operation goes on or is answered, a
\* connection comes to stand, is closed by the peer, or is lost.
Evolves(n, k) ==
    /\ ConnInv(k)
    /\ k.used = n.used
    /\ k.pcb # "closed"
    /\ k.pcb \in {"stalled", "syn_sent"} => n.pcb = k.pcb
    /\ n.pcb = "null" => k.pcb = "null"
    /\ \/ k.state = n.state /\ k.op_completed = n.op_completed
       \/ /\ n.state # "NONE" /\ k.state = "NONE" /\ k.op_completed = 1
          /\ n.state = "CONNECT" => k.pcb = "null" \/ k.err = "ERR_OK"
          /\ n.state = "CLOSE" => k.pcb = "null"
    /\ k.pcb = "null" => k.state = "NONE"
    /\ n.state = "NONE" /\ n.err = "ERR_OK" => k.pcb = "null" \/ k.err = "ERR_OK"

LEMMA EvolvesTrans ==
    ASSUME NEW n, NEW k, NEW l, Evolves(n, k), Evolves(k, l)
    PROVE  Evolves(n, l)
BY DEF Evolves

\* A mailbox without NULL and without refused data holds all that was received.
LEMMA HoldsAll ==
    ASSUME NEW n, ConnInv(n), n.refused_data = 0,
           \A i \in DOMAIN n.recvmbox : n.recvmbox[i] # 0
    PROVE  Holds(n, Len(n.recvmbox))
<1> DEFINE L == Len(n.recvmbox)
<1>1. n.recvmbox \in Seq(Nat) /\ n.taken \in Nat /\ n.rcv_nxt \in Nat
    BY DEF ConnInv, Netconns
<1>2. PICK k \in 0..(L + 1) : Holds(n, k)
    BY DEF ConnInv, StreamInv
<1>3. L \in Nat /\ DOMAIN n.recvmbox = 1..L
    BY <1>1
<1>4. ~(k > L)
    BY <1>1, <1>2, <1>3 DEF Holds
<1>5. k = L
  <2> SUFFICES ASSUME k < L PROVE FALSE
      BY <1>2, <1>3, <1>4
  <2>1. L \in DOMAIN n.recvmbox
      BY <1>2, <1>3
  <2> QED BY <1>2, <1>3, <2>1 DEF Holds
<1> QED BY <1>2, <1>5

\* One more segment, or one more NULL, behind what is in a mailbox.
LEMMA AppendSegment ==
    ASSUME NEW s \in Seq(Nat), NEW b \in Nat, NEW p \in Nat, p = b + Len(s) + 1,
           \A i \in DOMAIN s : s[i] = b + i
    PROVE  /\ Append(s, p) \in Seq(Nat)
           /\ Len(Append(s, p)) = Len(s) + 1
           /\ DOMAIN Append(s, p) = 1..(Len(s) + 1)
           /\ \A i \in DOMAIN Append(s, p) : Append(s, p)[i] = b + i
<1> DEFINE L == Len(s)
           q == Append(s, p)
<1>1. L \in Nat /\ DOMAIN s = 1..L /\ p \in Nat
    OBVIOUS
<1>2. /\ q \in Seq(Nat) /\ Len(q) = L + 1
      /\ q[L + 1] = p /\ \A i \in 1..L : q[i] = s[i]
    BY <1>1, AppendProperties
<1>3. DOMAIN q = 1..(L + 1)
    BY <1>2
<1>4. ASSUME NEW i \in DOMAIN q PROVE q[i] = b + i
  <2>1. i \in 1..L \/ i = L + 1
      BY <1>1, <1>3, <1>4
  <2> QED BY <1>1, <1>2, <2>1
<1> QED BY <1>2, <1>3, <1>4

LEMMA AppendNull ==
    ASSUME NEW s \in Seq(Nat)
    PROVE  /\ Append(s, 0) \in Seq(Nat)
           /\ Len(s) \in Nat /\ Len(Append(s, 0)) = Len(s) + 1
           /\ DOMAIN s = 1..Len(s) /\ DOMAIN Append(s, 0) = 1..(Len(s) + 1)
           /\ Append(s, 0)[Len(s) + 1] = 0
           /\ \A i \in 1..Len(s) : Append(s, 0)[i] = s[i]
BY AppendProperties

LEMMA DataEvolves ==
    ASSUME NEW n, ConnInv(n), n.refused_data = 0, NEW flags,
           \A i \in DOMAIN n.recvmbox : n.recvmbox[i] # 0,
           n.pcb \in {"estab", "close_wait", "null"},
           n.pcb = "null" => n.state = "NONE",
           NEW k, k = Data(n, flags)
    PROVE  Evolves(n, k) /\ k.pcb = n.pcb /\ (HasRoom(k) => k.refused_data = 0)
<1> DEFINE L == Len(n.recvmbox)
<1>1. Holds(n, L)
    BY HoldsAll
<1>2. n \in Netconns
    BY DEF ConnInv
<1>3. n.recvmbox \in Seq(Nat) /\ n.taken \in Nat /\ n.rcv_nxt \in Nat /\ L \in Nat
    BY <1>2 DEF Netconns
<1>4. CASE k = n
    BY <1>4 DEF Evolves, ConnInv, PcbInv
<1>5. CASE k # n /\ HasRoom(n)
  <2>1. k = [n EXCEPT !.rcv_nxt = @ + 1, !.err = "ERR_OK", !.recvmbox = Append(@, n.rcv_nxt)]
      BY <1>2, <1>5 DEF Data, EventRecv, HasRoom, Netconns
  <2>2. n.recv /\ n.pcb # "null"
      BY <1>5 DEF Data
  <2>3. n.rcv_nxt = n.taken + L + 1 /\ \A i \in DOMAIN n.recvmbox : n.recvmbox[i] = n.taken + i
      BY <1>1, <1>3, <2>2 DEF Holds
  <2> DEFINE q == Append(n.recvmbox, n.rcv_nxt)
  <2>4. /\ q \in Seq(Nat) /\ Len(q) = L + 1 /\ DOMAIN q = 1..(L + 1)
        /\ \A i \in DOMAIN q : q[i] = n.taken + i
    <3>1. n.rcv_nxt = n.taken + Len(n.recvmbox) + 1
        BY <2>3
    <3> QED BY ONLY <1>3, <2>3, <3>1, AppendSegment, ZenonT(30)
  <2> HIDE DEF q, L
  <2>5. k \in Netconns
    <3>1. n.rcv_nxt + 1 \in Nat
        BY <1>3
    <3> QED BY <1>2, <2>1, <2>4, <3>1 DEF Netconns, Errs, q
  <2>6. /\ k.used = n.used /\ k.pcb = n.pcb /\ k.recv = n.recv /\ k.state = n.state
        /\ k.op_completed = n.op_completed /\ k.refused_data = 0
        /\ k.write_msg = n.write_msg /\ k.taken = n.taken /\ k.rcv_nxt = n.rcv_nxt + 1
        /\ k.err = "ERR_OK" /\ k.recvmbox = q
      BY <1>2, <2>1 DEF Netconns, q
  <2>7. Holds(k, L + 1)
      BY <1>3, <2>3, <2>4, <2>6 DEF Holds
  <2>8. StreamInv(k)
    <3>1. L + 1 <= RecvLength
        BY <1>3, <1>5, SizesAssumption DEF HasRoom, L
    <3>2. \A i \in DOMAIN q : q[i] # 0
        BY <1>3, <2>4
    <3> QED BY <1>3, <2>4, <2>6, <2>7, <3>1, <3>2 DEF StreamInv
  <2> QED BY <2>2, <2>5, <2>6, <2>8 DEF Evolves, ConnInv, PcbInv, OpInv
<1>6. CASE k # n /\ ~HasRoom(n)
  <2>1. k = [n EXCEPT !.rcv_nxt = @ + 1, !.err = "ERR_OK", !.refused_data = n.rcv_nxt]
      BY <1>2, <1>6 DEF Data, EventRecv, HasRoom, Netconns
  <2>2. n.recv /\ n.pcb # "null"
      BY <1>6 DEF Data
  <2>3. k \in Netconns
    <3>1. n.rcv_nxt + 1 \in Nat
        BY <1>3
    <3> QED BY <1>2, <1>3, <2>1, <3>1 DEF Netconns, Errs
  <2>4. /\ k.used = n.used /\ k.pcb = n.pcb /\ k.recv = n.recv /\ k.state = n.state
        /\ k.op_completed = n.op_completed /\ k.refused_data = n.rcv_nxt
        /\ k.write_msg = n.write_msg /\ k.taken = n.taken /\ k.rcv_nxt = n.rcv_nxt + 1
        /\ k.err = "ERR_OK" /\ k.recvmbox = n.recvmbox
      BY <1>2, <2>1 DEF Netconns
  <2>5. n.rcv_nxt = n.taken + L + 1
      BY <1>1, <2>2 DEF Holds
  <2>6. Holds(k, L + 1)
      BY <1>1, <1>3, <2>2, <2>4, <2>5 DEF Holds
  <2>7. StreamInv(k)
      BY <1>3, <2>2, <2>4, <2>6 DEF StreamInv, ConnInv
  <2>8. ~HasRoom(k)
      BY <1>6, <2>4 DEF HasRoom
  <2> QED BY <2>2, <2>3, <2>4, <2>7, <2>8 DEF Evolves, ConnInv, PcbInv, OpInv
<1> QED BY <1>4, <1>5, <1>6

\* The stream of a netconn whose mailbox is left alone: refused data may be
\* dropped once nobody takes more.
LEMMA StreamKept ==
    ASSUME NEW n \in Netconns, NEW k \in Netconns, StreamInv(n),
           k.recvmbox = n.recvmbox, k.taken = n.taken,
           \/ k.refused_data = n.refused_data /\ k.rcv_nxt = n.rcv_nxt /\ (k.recv => n.recv)
           \/ k.refused_data = 0 /\ ~k.recv,
           k.pcb = n.pcb \/ k.pcb \in {"null", "close_wait", "last_ack", "freed"},
           k.pcb \in {"closed", "stalled", "syn_sent"} => k.rcv_nxt = n.rcv_nxt,
           k.pcb = "null" => k.refused_data = 0
    PROVE  StreamInv(k)
<1> DEFINE L == Len(n.recvmbox)
<1>1. n.recvmbox \in Seq(Nat) /\ n.taken \in Nat /\ L \in Nat /\ DOMAIN n.recvmbox = 1..L
    BY DEF Netconns
<1>2. PICK j \in 0..(L + 1) : Holds(n, j)
    BY DEF StreamInv
<1> HIDE DEF L
<1>3. CASE k.refused_data = n.refused_data /\ k.rcv_nxt = n.rcv_nxt /\ (k.recv => n.recv)
  <2>1. Holds(k, j)
      BY <1>2, <1>3 DEF Holds
  <2> QED BY <1>2, <1>3, <2>1 DEF StreamInv, L
<1>4. CASE k.refused_data = 0 /\ ~k.recv
  <2> DEFINE i == IF j > L THEN L ELSE j
  <2>1. i \in 0..(L + 1) /\ ~(i > L) /\ \A x \in 1..L : x <= i <=> x <= j
      BY <1>1, <1>2
  <2> HIDE DEF i
  <2>2. Holds(k, i)
      BY <1>1, <1>2, <1>4, <2>1 DEF Holds, L
  <2> QED BY <1>4, <2>1, <2>2 DEF StreamInv, L
<1> QED BY <1>3, <1>4

\* A NULL behind the stream.
LEMMA StreamEnds ==
    ASSUME NEW n \in Netconns, NEW k \in Netconns, StreamInv(n), HasRoom(n),
           n.refused_data = 0, k.refused_data = 0, k.recvmbox = Append(n.recvmbox, 0),
           k.taken = n.taken, k.rcv_nxt = n.rcv_nxt, k.recv => n.recv,
           k.pcb \in {"null", "close_wait"}
    PROVE  StreamInv(k)
<1> DEFINE L == Len(n.recvmbox)
           q == Append(n.recvmbox, 0)
<1>1. n.recvmbox \in Seq(Nat) /\ n.taken \in Nat
    BY DEF Netconns
<1>2. /\ q \in Seq(Nat) /\ L \in Nat /\ Len(q) = L + 1
      /\ DOMAIN n.recvmbox = 1..L /\ DOMAIN q = 1..(L + 1)
      /\ q[L + 1] = 0 /\ \A i \in 1..L : q[i] = n.recvmbox[i]
    BY <1>1, AppendNull
<1>3. PICK j \in 0..(L + 1) : Holds(n, j)
    BY DEF StreamInv
<1>4. L + 1 <= RecvLength
    BY <1>2, SizesAssumption DEF HasRoom
<1>5. k.recvmbox = q
    OBVIOUS
<1> HIDE DEF L, q
<1>6. ~(j > L)
    BY <1>1, <1>2, <1>3 DEF Holds, L
<1>7. \A i \in DOMAIN q : q[i] = IF i <= j THEN n.taken + i ELSE 0
  <2> SUFFICES ASSUME NEW i \in 1..(L + 1) PROVE q[i] = IF i <= j THEN n.taken + i ELSE 0
      BY <1>2
  <2>1. CASE i = L + 1
      BY <1>2, <1>3, <1>6, <2>1
  <2>2. CASE i \in 1..L
      BY <1>2, <1>3, <2>2 DEF Holds
  <2> QED BY <1>2, <2>1, <2>2
<1>8. Holds(k, j)
    BY <1>2, <1>3, <1>5, <1>6, <1>7 DEF Holds
<1> QED BY <1>2, <1>3, <1>4, <1>5, <1>6, <1>8 DEF StreamInv

\* The answer to a caller.
LEMMA SignalFields ==
    ASSUME NEW n \in Netconns, NEW k, k = sys_sem_signal(n)
    PROVE  /\ k \in Netconns /\ k.op_completed = 1
           /\ k.used = n.used /\ k.pcb = n.pcb /\ k.recv = n.recv /\ k.state = n.state
           /\ k.refused_data = n.refused_data /\ k.write_msg = n.write_msg
           /\ k.taken = n.taken /\ k.rcv_nxt = n.rcv_nxt /\ k.err = n.err
           /\ k.recvmbox = n.recvmbox
<1>1. k \in Netconns
    BY SMTT(30) DEF sys_sem_signal, Netconns
<1> QED BY <1>1 DEF sys_sem_signal, Netconns

LEMMA EndedFields ==
    ASSUME NEW n \in Netconns, NEW e \in Errs, NEW k, k = Ended(n, e)
    PROVE  /\ k \in Netconns /\ k.op_completed = 1 /\ k.state = "NONE" /\ k.err = e
           /\ k.used = n.used /\ k.pcb = n.pcb /\ k.recv = n.recv
           /\ k.refused_data = n.refused_data /\ k.write_msg = n.write_msg
           /\ k.taken = n.taken /\ k.rcv_nxt = n.rcv_nxt
           /\ k.recvmbox = n.recvmbox
<1> DEFINE j == [n EXCEPT !.err = e, !.state = "NONE"]
<1>1. j \in Netconns
    BY DEF Netconns
<1>2. /\ j.state = "NONE" /\ j.err = e /\ j.used = n.used /\ j.pcb = n.pcb
      /\ j.recv = n.recv /\ j.refused_data = n.refused_data /\ j.write_msg = n.write_msg
      /\ j.taken = n.taken /\ j.rcv_nxt = n.rcv_nxt /\ j.recvmbox = n.recvmbox
    BY DEF Netconns
<1>3. k = sys_sem_signal(j)
    BY DEF Ended
<1> HIDE DEF j
<1> QED BY <1>1, <1>2, <1>3, SignalFields

LEMMA WritemoreEvolves ==
    ASSUME NEW n \in Netconns, ConnInv(n), n.state = "WRITE", n.pcb # "null",
           NEW k \in do_writemore(n)
    PROVE  /\ Evolves(n, k)
           /\ k.pcb = n.pcb /\ k.recvmbox = n.recvmbox /\ k.refused_data = n.refused_data
<1>1. n.pcb \in {"estab", "close_wait"}
    BY DEF ConnInv, PcbInv, Netconns, Pcbs
<1>2. \/ \E e \in {"ERR_OK", "ERR_BUF"} :
           \/ k = Ended([n EXCEPT !.write_msg = FALSE], e)
           \/ k = [n EXCEPT !.err = e]
      \/ k = n
  <2>1. PICK w \in {"all", "part", "ERR_MEM"} :
          k \in CASE w = "all" -> {Ended([n EXCEPT !.write_msg = FALSE], e) :
                                     e \in {"ERR_OK", "ERR_BUF"}}
                 [] w = "part" -> {[n EXCEPT !.err = e] : e \in {"ERR_OK", "ERR_BUF"}}
                 [] w = "ERR_MEM" -> {n}
                 [] w = "ERR_CONN" -> {Ended(n, "ERR_CONN")}
      BY <1>1 DEF do_writemore, tcp_write
  <2>2. CASE w = "all"
      BY <2>1, <2>2
  <2>3. CASE w = "part"
      BY <2>1, <2>3
  <2>4. CASE w = "ERR_MEM"
      BY <2>1, <2>4
  <2> QED BY <2>1, <2>2, <2>3, <2>4
<1>3. CASE k = n
    BY <1>1, <1>3 DEF Evolves
<1>4. ASSUME NEW e \in {"ERR_OK", "ERR_BUF"}, k = Ended([n EXCEPT !.write_msg = FALSE], e)
      PROVE  /\ Evolves(n, k)
             /\ k.pcb = n.pcb /\ k.recvmbox = n.recvmbox /\ k.refused_data = n.refused_data
  <2> DEFINE j == [n EXCEPT !.write_msg = FALSE]
  <2>1. /\ j \in Netconns /\ j.write_msg = FALSE /\ j.used = n.used /\ j.pcb = n.pcb
        /\ j.recv = n.recv /\ j.refused_data = n.refused_data
        /\ j.taken = n.taken /\ j.rcv_nxt = n.rcv_nxt /\ j.recvmbox = n.recvmbox
      BY DEF Netconns
  <2>2. k = Ended(j, e) /\ e \in Errs
      BY <1>4 DEF Errs
  <2> HIDE DEF j
  <2>3. /\ k \in Netconns /\ k.used = n.used /\ k.pcb = n.pcb /\ k.recv = n.recv
        /\ k.state = "NONE" /\ k.op_completed = 1 /\ k.refused_data = n.refused_data
        /\ k.write_msg = FALSE /\ k.taken = n.taken /\ k.rcv_nxt = n.rcv_nxt
        /\ k.err = e /\ k.recvmbox = n.recvmbox
      BY <2>1, <2>2, EndedFields
  <2>4. StreamInv(k)
      BY <1>1, <2>2, <2>3, StreamKept DEF ConnInv
  <2> QED BY <1>1, <1>4, <2>2, <2>3, <2>4 DEF Evolves, ConnInv, PcbInv, OpInv
<1>5. ASSUME NEW e \in {"ERR_OK", "ERR_BUF"}, k = [n EXCEPT !.err = e]
      PROVE  /\ Evolves(n, k)
             /\ k.pcb = n.pcb /\ k.recvmbox = n.recvmbox /\ k.refused_data = n.refused_data
  <2>2. k \in Netconns
      BY <1>5 DEF Netconns, Errs
  <2>3. /\ k.used = n.used /\ k.pcb = n.pcb /\ k.recv = n.recv /\ k.state = n.state
        /\ k.op_completed = n.op_completed /\ k.refused_data = n.refused_data
        /\ k.write_msg = n.write_msg /\ k.taken = n.taken /\ k.rcv_nxt = n.rcv_nxt
        /\ k.err = e /\ k.recvmbox = n.recvmbox
      BY <1>5 DEF Netconns
  <2>4. StreamInv(k)
      BY <1>1, <2>2, <2>3, StreamKept DEF ConnInv
  <2> QED BY <1>1, <2>2, <2>3, <2>4 DEF Evolves, ConnInv, PcbInv, OpInv
<1> QED BY <1>2, <1>3, <1>4, <1>5

\* do_close_internal for do_close, do_delconn and the callbacks.
LEMMA CloseInternal ==
    ASSUME NEW n \in Netconns, StreamInv(n), n.state = "CLOSE", n.op_completed = 0,
           n.used, ~n.write_msg, n.pcb # "null", NEW k \in do_close_internal(n)
    PROVE  /\ ConnInv(k) /\ k.used
           /\ \/ k.pcb = "null" /\ k.state = "NONE" /\ k.op_completed = 1
              \/ /\ k.pcb = n.pcb /\ n.pcb \in {"estab", "close_wait"}
                 /\ k.state = "CLOSE" /\ k.op_completed = 0
                 /\ k.err = n.err
           /\ k.recvmbox = n.recvmbox
           /\ k.refused_data \in {0, n.refused_data}
<1>1. CASE k = Ended([n EXCEPT !.pcb = "null", !.recv = FALSE, !.refused_data = 0,
                              !.rcv_nxt = 1], "ERR_OK")
  <2> DEFINE j == [n EXCEPT !.pcb = "null", !.recv = FALSE, !.refused_data = 0, !.rcv_nxt = 1]
  <2>1. /\ j \in Netconns /\ j.used = n.used /\ j.pcb = "null" /\ j.recv = FALSE
        /\ j.refused_data = 0 /\ j.write_msg = n.write_msg /\ j.taken = n.taken
        /\ j.recvmbox = n.recvmbox
      BY DEF Netconns, Pcbs
  <2>2. PICK e \in Errs : k = Ended(j, e)
      BY <1>1 DEF Errs
  <2> HIDE DEF j
  <2>3. /\ k \in Netconns /\ k.used = n.used /\ k.pcb = "null" /\ k.recv = FALSE
        /\ k.state = "NONE" /\ k.op_completed = 1 /\ k.refused_data = 0
        /\ k.write_msg = n.write_msg /\ k.taken = n.taken /\ k.recvmbox = n.recvmbox
      BY ONLY <2>1, <2>2, EndedFields
  <2>4. StreamInv(k)
      BY <2>2, <2>3, StreamKept
  <2> QED BY <2>2, <2>3, <2>4 DEF ConnInv, PcbInv, OpInv
<1>2. CASE n.pcb \in {"estab", "close_wait"} /\ k = [n EXCEPT !.recv = FALSE]
  <2>2. k \in Netconns
      BY <1>2 DEF Netconns
  <2>3. /\ k.used = n.used /\ k.pcb = n.pcb /\ k.recv = FALSE /\ k.state = n.state
        /\ k.op_completed = n.op_completed /\ k.refused_data = n.refused_data
        /\ k.write_msg = n.write_msg /\ k.taken = n.taken /\ k.rcv_nxt = n.rcv_nxt
        /\ k.err = n.err /\ k.recvmbox = n.recvmbox
      BY <1>2 DEF Netconns
  <2>4. StreamInv(k)
      BY <1>2, <2>2, <2>3, StreamKept
  <2> QED BY <1>2, <2>2, <2>3, <2>4 DEF ConnInv, PcbInv, OpInv
<1> QED BY <1>1, <1>2 DEF do_close_internal, tcp_close

LEMMA GoOnEvolves ==
    ASSUME NEW n \in Netconns, ConnInv(n), n.pcb \notin {"null", "closed"}, NEW k \in GoOn(n)
    PROVE  /\ Evolves(n, k)
           /\ k.pcb \in {n.pcb, "null"} /\ k.recvmbox = n.recvmbox
           /\ k.refused_data \in {0, n.refused_data}
<1>1. CASE n.state = "WRITE"
    BY <1>1, WritemoreEvolves DEF GoOn
<1>2. CASE n.state = "CLOSE"
  <2>1. /\ StreamInv(n) /\ n.op_completed = 0 /\ n.used /\ ~n.write_msg
      BY <1>2 DEF ConnInv, OpInv, Netconns
  <2>2. k \in do_close_internal(n)
      BY <1>2 DEF GoOn
  <2>3. /\ ConnInv(k) /\ k.used
        /\ \/ k.pcb = "null" /\ k.state = "NONE" /\ k.op_completed = 1
           \/ /\ k.pcb = n.pcb /\ n.pcb \in {"estab", "close_wait"}
              /\ k.state = "CLOSE" /\ k.op_completed = 0
              /\ k.err = n.err
        /\ k.recvmbox = n.recvmbox
        /\ k.refused_data \in {0, n.refused_data}
      BY <1>2, <2>1, <2>2, CloseInternal
  <2> QED BY <1>2, <2>1, <2>3 DEF Evolves
<1>3. CASE n.state \notin {"WRITE", "CLOSE"}
  <2>1. k = n
      BY <1>3 DEF GoOn
  <2> QED BY <2>1 DEF Evolves
<1> QED BY <1>1, <1>2, <1>3

\* A FIN: the pcb is in CLOSE_WAIT before the callbacks are called.
LEMMA CloseWaitEvolves ==
    ASSUME NEW n \in Netconns, ConnInv(n), n.pcb = "estab",
           NEW k, k = [n EXCEPT !.pcb = "close_wait"]
    PROVE  /\ Evolves(n, k) /\ k \in Netconns /\ k.pcb = "close_wait"
           /\ k.recvmbox = n.recvmbox /\ k.refused_data = n.refused_data
<1>1. k \in Netconns
    BY DEF Netconns, Pcbs
<1>2. /\ k.used = n.used /\ k.pcb = "close_wait" /\ k.recv = n.recv /\ k.state = n.state
      /\ k.op_completed = n.op_completed /\ k.refused_data = n.refused_data
      /\ k.write_msg = n.write_msg /\ k.taken = n.taken /\ k.rcv_nxt = n.rcv_nxt
      /\ k.err = n.err /\ k.recvmbox = n.recvmbox
    BY DEF Netconns
<1>3. StreamInv(k)
    BY <1>1, <1>2, StreamKept DEF ConnInv
<1> QED BY <1>1, <1>2, <1>3 DEF Evolves, ConnInv, PcbInv, OpInv

LEMMA FinEvolves ==
    ASSUME NEW n \in Netconns, ConnInv(n), NEW flags,
           "fin" \in flags => n.pcb \in {"close_wait", "null"},
           n.pcb # "closed", n.pcb = "null" => n.state = "NONE",
           HasRoom(n) => n.refused_data = 0,
           NEW k \in Fin(n, flags)
    PROVE  Evolves(n, k)
<1>1. CASE k = n
    BY <1>1 DEF Evolves
<1>2. CASE k # n /\ n.recv
  <2>1. n.pcb = "close_wait"
      BY <1>2 DEF Fin
  <2>2. k = [n EXCEPT !.err = "ERR_OK",
                      !.recvmbox = IF HasRoom(n) THEN Append(@, 0) ELSE @]
      BY <1>2 DEF Fin, EventEof
  <2> DEFINE q == IF HasRoom(n) THEN Append(n.recvmbox, 0) ELSE n.recvmbox
  <2>3. n.recvmbox \in Seq(Nat)
      BY DEF Netconns
  <2>4. q \in Seq(Nat)
      BY <2>3, AppendNull
  <2>5. k = [n EXCEPT !.err = "ERR_OK", !.recvmbox = q]
      BY <2>2
  <2> HIDE DEF q
  <2>6. k \in Netconns
      BY <2>4, <2>5 DEF Netconns, Errs
  <2>7. /\ k.used = n.used /\ k.pcb = n.pcb /\ k.recv = n.recv /\ k.state = n.state
        /\ k.op_completed = n.op_completed /\ k.refused_data = n.refused_data
        /\ k.write_msg = n.write_msg /\ k.taken = n.taken /\ k.rcv_nxt = n.rcv_nxt
        /\ k.err = "ERR_OK" /\ k.recvmbox = q
      BY <2>5 DEF Netconns
  <2>8. StreamInv(k)
    <3>1. CASE HasRoom(n)
        BY <2>1, <2>6, <2>7, <3>1, StreamEnds DEF ConnInv, q
    <3>2. CASE ~HasRoom(n)
        BY <2>1, <2>6, <2>7, <3>2, StreamKept DEF ConnInv, q
    <3> QED BY <3>1, <3>2
  <2> QED BY <2>1, <2>6, <2>7, <2>8 DEF Evolves, ConnInv, PcbInv, OpInv
<1>3. CASE k # n /\ ~n.recv
  <2>1. n.pcb = "close_wait"
      BY <1>3 DEF Fin
  <2>2. k = [n EXCEPT !.pcb = "last_ack"]
      BY <1>3 DEF Fin, EventEof, tcp_recv_null
  <2>3. k \in Netconns
      BY <2>2 DEF Netconns, Pcbs
  <2>4. /\ k.used = n.used /\ k.pcb = "last_ack" /\ k.recv = n.recv /\ k.state = n.state
        /\ k.op_completed = n.op_completed /\ k.refused_data = n.refused_data
        /\ k.write_msg = n.write_msg /\ k.taken = n.taken /\ k.rcv_nxt = n.rcv_nxt
        /\ k.err = n.err /\ k.recvmbox = n.recvmbox
      BY <2>2 DEF Netconns
  <2>5. StreamInv(k)
      BY <2>3, <2>4, StreamKept DEF ConnInv
  <2> QED BY <1>3, <2>1, <2>3, <2>4, <2>5 DEF Evolves, ConnInv, PcbInv, OpInv
<1> QED BY <1>1, <1>2, <1>3

LEMMA ReceiveEvolves ==
    ASSUME NEW n \in Netconns, ConnInv(n), n.refused_data = 0,
           NEW flags,
           n.pcb \in {"estab", "close_wait"},
           "data" \in flags \/ "fin" \in flags => n.pcb = "estab",
           NEW k \in Receive(n, flags)
    PROVE  Evolves(n, k)
<1> DEFINE n1 == IF "fin" \in flags THEN [n EXCEPT !.pcb = "close_wait"] ELSE n
<1>1. /\ Evolves(n, n1) /\ n1 \in Netconns /\ n1.recvmbox = n.recvmbox
      /\ n1.refused_data = 0 /\ n1.pcb = IF "fin" \in flags THEN "close_wait" ELSE n.pcb
  <2>1. CASE "fin" \in flags
      BY <2>1, CloseWaitEvolves
  <2>2. CASE "fin" \notin flags
      BY <2>2 DEF Evolves
  <2> QED BY <2>1, <2>2
<1>2. PICK n2 \in IF "acked" \in flags THEN GoOn(n1) ELSE {n1} : k \in Fin(Data(n2, flags), flags)
    BY DEF Receive
<1> HIDE DEF n1
<1>3. ConnInv(n1) /\ n1.pcb \in {"estab", "close_wait"}
    BY <1>1 DEF Evolves
<1>4. /\ Evolves(n1, n2) /\ n2.pcb \in {n1.pcb, "null"} /\ n2.recvmbox = n.recvmbox
      /\ n2.refused_data = 0
  <2>1. CASE "acked" \in flags
      BY <1>1, <1>2, <1>3, <2>1, GoOnEvolves
  <2>2. CASE "acked" \notin flags
      BY <1>1, <1>2, <1>3, <2>2 DEF Evolves
  <2> QED BY <2>1, <2>2
<1> DEFINE n3 == Data(n2, flags)
<1>5. /\ Evolves(n2, n3) /\ (HasRoom(n3) => n3.refused_data = 0)
      /\ n3.pcb = n2.pcb
  <2>1. ConnInv(n2) /\ n2 \in Netconns /\ (n2.pcb = "null" => n2.state = "NONE")
      BY <1>4 DEF Evolves, ConnInv
  <2>2. CASE "data" \in flags
    <3>1. \A i \in DOMAIN n2.recvmbox : n2.recvmbox[i] # 0
        BY <1>4, <2>2 DEF ConnInv, StreamInv
    <3>2. n2.pcb \in {"estab", "close_wait", "null"}
        BY <1>3, <1>4
    <3> QED BY <1>4, <2>1, <3>1, <3>2, DataEvolves
  <2>3. CASE "data" \notin flags
      BY <1>3, <1>4, <2>1, <2>3 DEF Data, Evolves
  <2> QED BY <2>2, <2>3
<1> HIDE DEF n3
<1>6. Evolves(n3, k)
  <2>1. /\ n3 \in Netconns /\ ConnInv(n3) /\ n3.pcb # "closed"
        /\ n3.pcb = "null" => n3.state = "NONE"
      BY <1>5 DEF Evolves, ConnInv
  <2>2. "fin" \in flags => n3.pcb \in {"close_wait", "null"}
      BY <1>1, <1>4, <1>5
  <2>3. k \in Fin(n3, flags)
      BY <1>2 DEF n3
  <2> QED BY <1>5, <2>1, <2>2, <2>3, FinEvolves
<1> QED BY <1>1, <1>4, <1>5, <1>6, EvolvesTrans

\* Refused data is offered again.
LEMMA RedeliverEvolves ==
    ASSUME NEW n \in Netconns, ConnInv(n), n.pcb \in Live, NEW k, k = Redeliver(n)
    PROVE  /\ Evolves(n, k) /\ k.pcb = n.pcb /\ k.state = n.state
           /\ k.op_completed = n.op_completed
<1> DEFINE L == Len(n.recvmbox)
           p == n.refused_data
<1>1. n.recvmbox \in Seq(Nat) /\ n.taken \in Nat /\ p \in Nat /\ L \in Nat
    BY DEF Netconns
<1>2. CASE p = 0
    BY <1>2 DEF Redeliver, Live, Evolves
<1>3. CASE p # 0
  <2>1. PICK j \in 0..(L + 1) : Holds(n, j)
      BY DEF ConnInv, StreamInv
  <2>2. j = L + 1
      BY <1>1, <1>3, <2>1 DEF Holds
  <2>3. /\ p = n.taken + L + 1
        /\ \A i \in DOMAIN n.recvmbox : n.recvmbox[i] = n.taken + i
      BY <1>1, <1>3, <2>1, <2>2 DEF Holds
  <2>4. n.pcb \notin {"closed", "stalled", "syn_sent", "null", "freed"}
      BY <1>3 DEF ConnInv, StreamInv, Live
  <2>5. CASE ~n.recv
    <3>1. k = [n EXCEPT !.refused_data = 0]
        BY <1>3, <2>5 DEF Redeliver, EventRecv, Netconns
    <3>2. k \in Netconns
        BY <3>1, SMTT(30) DEF Netconns
    <3>3. /\ k.used = n.used /\ k.pcb = n.pcb /\ k.recv = n.recv /\ k.state = n.state
          /\ k.op_completed = n.op_completed /\ k.refused_data = 0
          /\ k.write_msg = n.write_msg /\ k.taken = n.taken /\ k.rcv_nxt = n.rcv_nxt
          /\ k.err = n.err /\ k.recvmbox = n.recvmbox
        BY <3>1 DEF Netconns
    <3>4. StreamInv(k)
        BY <2>4, <2>5, <3>2, <3>3, StreamKept DEF ConnInv
    <3> QED BY <2>4, <3>2, <3>3, <3>4 DEF Evolves, ConnInv, PcbInv, OpInv
  <2>6. CASE n.recv /\ ~HasRoom(n)
    <3>1. k = [n EXCEPT !.err = "ERR_OK"]
        BY <1>3, <2>6 DEF Redeliver, EventRecv, Netconns, HasRoom
    <3>2. k \in Netconns
        BY <3>1 DEF Netconns, Errs
    <3>3. /\ k.used = n.used /\ k.pcb = n.pcb /\ k.recv = n.recv /\ k.state = n.state
          /\ k.op_completed = n.op_completed /\ k.refused_data = p
          /\ k.write_msg = n.write_msg /\ k.taken = n.taken /\ k.rcv_nxt = n.rcv_nxt
          /\ k.err = "ERR_OK" /\ k.recvmbox = n.recvmbox
        BY <3>1 DEF Netconns
    <3>4. StreamInv(k)
        BY <2>4, <2>6, <3>2, <3>3, StreamKept DEF ConnInv
    <3> QED BY <2>4, <3>2, <3>3, <3>4 DEF Evolves, ConnInv, PcbInv, OpInv
  <2>7. CASE n.recv /\ HasRoom(n)
    <3> DEFINE q == Append(n.recvmbox, p)
    <3>1. k = [n EXCEPT !.refused_data = 0, !.err = "ERR_OK", !.recvmbox = q]
        BY <1>3, <2>7 DEF Redeliver, EventRecv, Netconns, HasRoom
    <3>2. /\ q \in Seq(Nat) /\ Len(q) = L + 1 /\ DOMAIN q = 1..(L + 1)
          /\ \A i \in DOMAIN q : q[i] = n.taken + i
        BY ONLY <1>1, <2>3, AppendSegment, ZenonT(30)
    <3>3. L + 1 <= RecvLength
        BY <1>1, <2>7, SizesAssumption DEF HasRoom
    <3> HIDE DEF q, L
    <3>4. k \in Netconns
      <4>1. q \in Seq(Nat)
          BY <3>2
      <4>2. [n EXCEPT !.refused_data = 0] \in Netconns
          BY DEF Netconns
      <4>3. k = [[n EXCEPT !.refused_data = 0] EXCEPT !.err = "ERR_OK", !.recvmbox = q]
          BY <3>1
      <4> QED BY ONLY <4>1, <4>2, <4>3 DEF Netconns, Errs
    <3>5. /\ k.used = n.used /\ k.pcb = n.pcb /\ k.recv = n.recv /\ k.state = n.state
          /\ k.op_completed = n.op_completed /\ k.refused_data = 0
          /\ k.write_msg = n.write_msg /\ k.taken = n.taken /\ k.rcv_nxt = n.rcv_nxt
          /\ k.err = "ERR_OK" /\ k.recvmbox = q
        BY <3>1 DEF Netconns
    <3>6. Holds(k, L + 1)
        BY <1>1, <2>1, <2>2, <2>7, <3>2, <3>5 DEF Holds
    <3>7. StreamInv(k)
      <4>1. \A i \in DOMAIN q : q[i] # 0
          BY <1>1, <3>2
      <4> QED BY <1>1, <2>4, <3>2, <3>3, <3>5, <3>6, <4>1 DEF StreamInv
    <3> QED BY <2>4, <3>4, <3>5, <3>7 DEF Evolves, ConnInv, PcbInv, OpInv
  <2> QED BY <2>5, <2>6, <2>7
<1> QED BY <1>2, <1>3

LEMMA ConnectedEvolves ==
    ASSUME NEW n \in Netconns, ConnInv(n), n.pcb = "syn_sent", NEW k, k = do_connected(n)
    PROVE  Evolves(n, k)
<1> DEFINE j == [n EXCEPT !.pcb = "estab", !.err = "ERR_OK", !.recv = TRUE, !.state = "NONE"]
<1>1. j \in Netconns
    BY DEF Netconns, Pcbs, Errs
<1>2. /\ j.used = n.used /\ j.pcb = "estab" /\ j.recv = TRUE /\ j.state = "NONE"
      /\ j.refused_data = n.refused_data
      /\ j.write_msg = n.write_msg /\ j.taken = n.taken /\ j.rcv_nxt = n.rcv_nxt
      /\ j.err = "ERR_OK" /\ j.recvmbox = n.recvmbox
    BY DEF Netconns
<1>3. k = sys_sem_signal(j)
    BY DEF do_connected
<1> HIDE DEF j
<1>4. /\ k \in Netconns /\ k.used = n.used /\ k.pcb = "estab" /\ k.recv = TRUE
      /\ k.state = "NONE" /\ k.op_completed = 1 /\ k.refused_data = n.refused_data
      /\ k.write_msg = n.write_msg /\ k.taken = n.taken /\ k.rcv_nxt = n.rcv_nxt
      /\ k.err = "ERR_OK" /\ k.recvmbox = n.recvmbox
    BY ONLY <1>1, <1>2, <1>3, SignalFields
<1>5. /\ n.recvmbox = <<>> /\ n.refused_data = 0 /\ n.rcv_nxt = 1 /\ n.taken = 0
      /\ n.state = "CONNECT" /\ ~n.write_msg
    BY DEF ConnInv, StreamInv, PcbInv, OpInv
<1>6. Holds(k, 0)
    BY <1>4, <1>5 DEF Holds
<1>7. StreamInv(k)
    BY <1>4, <1>5, <1>6, SizesAssumption DEF StreamInv
<1> QED BY <1>4, <1>5, <1>7 DEF Evolves, ConnInv, PcbInv, OpInv

\* A segment for a pcb whose refused data has been taken.
LEMMA ProcessEvolves ==
    ASSUME NEW n \in Netconns, ConnInv(n), n.pcb \in Live, n.refused_data = 0,
           NEW max \in Nat, NEW k \in tcp_process(n, max)
    PROVE  Evolves(n, k)
<1>1. CASE n.pcb = "syn_sent"
    BY <1>1, ConnectedEvolves DEF tcp_process
<1>2. CASE n.pcb = "estab"
  <2>1. PICK flags : k \in Receive(n, flags)
      BY <1>2 DEF tcp_process
  <2> QED BY <1>2, <2>1, ReceiveEvolves
<1>3. CASE n.pcb = "close_wait"
  <2>1. k \in Receive(n, {"acked"})
      BY <1>3 DEF tcp_process
  <2> QED BY <1>3, <2>1, ReceiveEvolves
<1>4. CASE n.pcb = "last_ack"
  <2>1. CASE k \in GoOn(n)
      BY <1>4, <2>1, GoOnEvolves
  <2>2. CASE k = [n EXCEPT !.pcb = "freed"]
    <3>1. k \in Netconns
        BY <2>2 DEF Netconns, Pcbs
    <3>2. /\ k.used = n.used /\ k.pcb = "freed" /\ k.recv = n.recv /\ k.state = n.state
          /\ k.op_completed = n.op_completed /\ k.refused_data = n.refused_data
          /\ k.write_msg = n.write_msg /\ k.taken = n.taken /\ k.rcv_nxt = n.rcv_nxt
          /\ k.err = n.err /\ k.recvmbox = n.recvmbox
        BY <2>2 DEF Netconns
    <3>3. StreamInv(k)
        BY <3>1, <3>2, StreamKept DEF ConnInv
    <3> QED BY <1>4, <3>1, <3>2, <3>3 DEF Evolves, ConnInv, PcbInv, OpInv
  <2> QED BY <1>4, <2>1, <2>2 DEF tcp_process
<1> QED BY <1>1, <1>2, <1>3, <1>4 DEF Live

\* err_tcp: the pcb is gone, and the operation is answered when the NULL is
\* posted.
LEMMA LostFields ==
    ASSUME NEW n \in Netconns, ConnInv(n), NEW k, k = err_tcp_lost(n)
    PROVE  /\ k \in Netconns /\ ConnInv(k) /\ k.used = n.used /\ k.pcb = "null"
           /\ k.state = n.state /\ k.op_completed = n.op_completed
           /\ k.recvmbox = n.recvmbox /\ k.refused_data = 0
<1>1. k \in Netconns
    BY DEF err_tcp_lost, Netconns, Pcbs, Errs
<1>2. /\ k.used = n.used /\ k.pcb = "null" /\ k.recv = FALSE /\ k.state = n.state
      /\ k.op_completed = n.op_completed /\ k.refused_data = 0
      /\ k.write_msg = n.write_msg /\ k.taken = n.taken /\ k.recvmbox = n.recvmbox
    BY DEF err_tcp_lost, Netconns
<1>3. StreamInv(k)
    BY <1>1, <1>2, StreamKept DEF ConnInv
<1> QED BY <1>1, <1>2, <1>3 DEF ConnInv, PcbInv, OpInv

LEMMA PostedFields ==
    ASSUME NEW n \in Netconns, ConnInv(n), n.pcb = "null", HasRoom(n),
           NEW k, k = err_tcp_posted(n)
    PROVE  /\ k \in Netconns /\ ConnInv(k) /\ k.used = n.used /\ k.pcb = "null"
           /\ k.state = "NONE"
           /\ k.op_completed = IF n.state = "NONE" THEN n.op_completed ELSE 1
<1> DEFINE q == Append(n.recvmbox, 0)
           j == [n EXCEPT !.recvmbox = q]
           i == IF n.state = "NONE" THEN j ELSE [j EXCEPT !.state = "NONE"]
<1>1. q \in Seq(Nat)
  <2>1. n.recvmbox \in Seq(Nat)
      BY DEF Netconns
  <2> QED BY <2>1, AppendNull
<1>2. k = IF n.state = "NONE" THEN i ELSE sys_sem_signal(i)
    BY DEF err_tcp_posted
<1> HIDE DEF q
<1>3. /\ i \in Netconns /\ i.used = n.used /\ i.pcb = n.pcb /\ i.recv = n.recv
      /\ i.state = "NONE" /\ i.op_completed = n.op_completed
      /\ i.refused_data = n.refused_data /\ i.write_msg = n.write_msg
      /\ i.taken = n.taken /\ i.rcv_nxt = n.rcv_nxt /\ i.recvmbox = q
    BY <1>1 DEF Netconns
<1> HIDE DEF i
<1>4. /\ k \in Netconns /\ k.used = n.used /\ k.pcb = n.pcb /\ k.recv = n.recv
      /\ k.state = "NONE" /\ k.refused_data = n.refused_data /\ k.write_msg = n.write_msg
      /\ k.op_completed = IF n.state = "NONE" THEN n.op_completed ELSE 1
      /\ k.taken = n.taken /\ k.rcv_nxt = n.rcv_nxt /\ k.recvmbox = q
  <2>1. CASE n.state = "NONE"
      BY <1>2, <1>3, <2>1
  <2>2. CASE n.state # "NONE"
      BY ONLY <1>2, <1>3, <2>2, SignalFields
  <2> QED BY <2>1, <2>2
<1>5. n.refused_data = 0
    BY DEF ConnInv, StreamInv
<1>6. StreamInv(k)
    BY <1>4, <1>5, StreamEnds DEF ConnInv, q
<1> QED BY <1>4, <1>6 DEF ConnInv, PcbInv, OpInv

(***************************************************************************)
(* The functions of api_msg.c on one netconn                               *)
(***************************************************************************)
\* What f makes of the netconn n of its caller: the call is answered, or an
\* operation of the netconn is left that will answer it.
Executes(f, n, k) ==
    /\ ConnInv(k)
    /\ k.used
    /\ \/ /\ k.state = "NONE" /\ k.op_completed = 1
          /\ f = "do_newconn" => IF k.err = "ERR_OK" THEN k.pcb = "closed" ELSE k.pcb = "null"
          /\ f = "do_connect" => k.pcb = "null"
          /\ f = "do_write" => k.pcb # "closed"
          /\ f \in {"do_close", "do_delconn"} => k.pcb = "null"
       \/ /\ k.state # "NONE" /\ k.op_completed = 0 /\ k.pcb # "null"
          /\ Matches(f, k.state)
    /\ f \notin {"do_newconn", "do_connect"} /\ k.pcb \in {"closed", "stalled", "syn_sent"} =>
         k.pcb = n.pcb

\* An answer that changes at most conn->err.
LEMMA SignalExecutes ==
    ASSUME NEW n \in Netconns, ConnInv(n), Idle(n), n.used, NEW e \in Errs,
           NEW k, k = sys_sem_signal(n) \/ k = sys_sem_signal([n EXCEPT !.err = e])
    PROVE  /\ ConnInv(k) /\ k.used /\ k.state = "NONE" /\ k.op_completed = 1
           /\ k.pcb = n.pcb /\ k.err \in {n.err, e}
<1>1. PICK j \in {n, [n EXCEPT !.err = e]} : k = sys_sem_signal(j)
    OBVIOUS
<1>2. /\ j \in Netconns /\ j.used = n.used /\ j.pcb = n.pcb /\ j.recv = n.recv
      /\ j.state = n.state /\ j.refused_data = n.refused_data /\ j.err \in {n.err, e}
      /\ j.write_msg = n.write_msg /\ j.taken = n.taken /\ j.rcv_nxt = n.rcv_nxt
      /\ j.recvmbox = n.recvmbox
    BY <1>1 DEF Netconns
<1>3. /\ k \in Netconns /\ k.used = n.used /\ k.pcb = n.pcb /\ k.recv = n.recv
      /\ k.state = n.state /\ k.refused_data = n.refused_data /\ k.err \in {n.err, e}
      /\ k.write_msg = n.write_msg /\ k.taken = n.taken /\ k.rcv_nxt = n.rcv_nxt
      /\ k.recvmbox = n.recvmbox /\ k.op_completed = 1
    BY ONLY <1>1, <1>2, SignalFields
<1>4. StreamInv(k)
    BY <1>3, StreamKept DEF ConnInv, StreamInv
<1> QED BY <1>3, <1>4 DEF ConnInv, PcbInv, OpInv, Idle

\* A netconn through which nothing has gone yet.
Blank(k) ==
    /\ k \in Netconns /\ k.state = "NONE" /\ k.recvmbox = <<>> /\ k.refused_data = 0
    /\ k.write_msg = FALSE /\ k.rcv_nxt = 1 /\ k.taken = 0

LEMMA BlankInv ==
    ASSUME NEW k, Blank(k), k.used \/ (k.pcb = "null" /\ k.op_completed = 0),
           \/ k.pcb = "null" /\ k.recv = FALSE
           \/ k.pcb \in {"closed", "estab"} /\ k.recv = TRUE
    PROVE  ConnInv(k)
<1>1. Holds(k, 0)
    BY DEF Holds, Blank
<1>2. StreamInv(k)
    BY <1>1, SizesAssumption DEF StreamInv, Blank
<1> QED BY <1>2 DEF ConnInv, PcbInv, OpInv, Blank

LEMMA AllocFields ==
    /\ Blank(netconn_alloc) /\ netconn_alloc.used = TRUE /\ netconn_alloc.pcb = "null"
    /\ netconn_alloc.recv = FALSE /\ netconn_alloc.op_completed = 0
    /\ netconn_alloc.err = "ERR_OK" /\ ConnInv(netconn_alloc) /\ Idle(netconn_alloc)
<1>1. netconn_alloc \in Netconns
    BY DEF netconn_alloc, Netconns, Pcbs, Errs
<1>2. /\ Blank(netconn_alloc) /\ netconn_alloc.used = TRUE /\ netconn_alloc.pcb = "null"
      /\ netconn_alloc.recv = FALSE /\ netconn_alloc.op_completed = 0
      /\ netconn_alloc.err = "ERR_OK"
    BY <1>1 DEF netconn_alloc, Blank
<1> QED BY <1>2, BlankInv DEF Idle, Blank

LEMMA FreeFields ==
    ASSUME NEW n \in Netconns, n.pcb = "null", n.state = "NONE", NEW k, k = netconn_free(n)
    PROVE  /\ k \in Netconns /\ ConnInv(k) /\ k.used = FALSE /\ k.pcb = "null" /\ Idle(k)
<1> DEFINE a == netconn_alloc
<1>1. a \in Netconns /\ Blank(a) /\ a.pcb = "null" /\ a.recv = FALSE /\ a.op_completed = 0
    BY AllocFields DEF Blank
<1>2. k = [a EXCEPT !.used = FALSE, !.pcb = "null", !.state = "NONE"]
    BY DEF netconn_free
<1> HIDE DEF a
<1>3. k \in Netconns
    BY ONLY <1>1, <1>2 DEF Netconns, Pcbs
<1>4. /\ k.used = FALSE /\ k.pcb = "null" /\ k.recv = FALSE /\ k.state = "NONE"
      /\ k.op_completed = 0 /\ k.recvmbox = <<>> /\ k.refused_data = 0
      /\ k.write_msg = FALSE /\ k.rcv_nxt = 1 /\ k.taken = 0
    BY ONLY <1>1, <1>2 DEF Netconns, Blank
<1> QED BY <1>3, <1>4, BlankInv DEF Blank, Idle

LEMMA NewconnExecutes ==
    ASSUME NEW n, n = netconn_alloc, NEW k \in do_newconn(n)
    PROVE  Executes("do_newconn", n, k)
<1>1. /\ Blank(n) /\ n \in Netconns /\ n.used = TRUE /\ n.pcb = "null"
      /\ n.recv = FALSE /\ n.op_completed = 0 /\ ConnInv(n) /\ Idle(n)
    BY AllocFields DEF Blank
<1>2. CASE k = sys_sem_signal([n EXCEPT !.err = "ERR_MEM"])
  <2> DEFINE e == "ERR_MEM"
  <2>1. e \in Errs /\ k = sys_sem_signal([n EXCEPT !.err = e])
      BY <1>2 DEF Errs
  <2>2. n.err = "ERR_OK" /\ k.err = "ERR_MEM"
      BY <1>1, <1>2, AllocFields DEF sys_sem_signal, Netconns
  <2> HIDE DEF e
  <2>3. /\ ConnInv(k) /\ k.used /\ k.state = "NONE" /\ k.op_completed = 1
        /\ k.pcb = n.pcb
      BY <1>1, <2>1, SignalExecutes
  <2> QED BY <1>1, <2>2, <2>3 DEF Executes
<1>3. CASE k = sys_sem_signal([n EXCEPT !.err = "ERR_OK", !.pcb = "closed", !.recv = TRUE])
  <2> DEFINE j == [n EXCEPT !.err = "ERR_OK", !.pcb = "closed", !.recv = TRUE]
  <2>1. j \in Netconns
      BY <1>1 DEF Netconns, Errs, Pcbs
  <2>2. /\ Blank(j) /\ j.used = TRUE /\ j.pcb = "closed" /\ j.recv = TRUE
        /\ j.err = "ERR_OK"
      BY <1>1, <2>1 DEF Netconns, Blank
  <2>3. k = sys_sem_signal(j)
      BY <1>3
  <2> HIDE DEF j
  <2>4. /\ Blank(k) /\ k.used = TRUE /\ k.pcb = "closed" /\ k.recv = TRUE
        /\ k.err = "ERR_OK" /\ k.op_completed = 1
      BY ONLY <2>1, <2>2, <2>3, SignalFields DEF Blank
  <2>5. ConnInv(k)
      BY <2>4, BlankInv
  <2> QED BY <2>4, <2>5 DEF Executes, Blank
<1> QED BY <1>2, <1>3 DEF do_newconn

LEMMA ConnectExecutes ==
    ASSUME NEW n \in Netconns, ConnInv(n), Idle(n), n.used, n.pcb \in {"null", "closed"},
           NEW k \in do_connect(n)
    PROVE  Executes("do_connect", n, k)
<1>1. CASE n.pcb = "null"
  <2>1. k = sys_sem_signal(n) /\ n.err \in Errs
      BY <1>1 DEF do_connect, Netconns
  <2>2. /\ ConnInv(k) /\ k.used /\ k.state = "NONE" /\ k.op_completed = 1 /\ k.pcb = n.pcb
      BY <2>1, SignalExecutes
  <2> QED BY <1>1, <2>2 DEF Executes
<1>2. CASE n.pcb = "closed"
  <2> DEFINE j == [n EXCEPT !.state = "CONNECT", !.recv = TRUE]
  <2>1. j \in Netconns
      BY DEF Netconns
  <2>2. /\ j.used = n.used /\ j.pcb = "closed" /\ j.recv = TRUE /\ j.state = "CONNECT"
        /\ j.op_completed = n.op_completed /\ j.refused_data = n.refused_data
        /\ j.write_msg = n.write_msg /\ j.taken = n.taken /\ j.rcv_nxt = n.rcv_nxt
        /\ j.recvmbox = n.recvmbox
      BY <1>2 DEF Netconns
  <2>3. k \in tcp_connect(j)
      BY <1>2 DEF do_connect
  <2> HIDE DEF j
  <2>4. PICK p \in {"syn_sent", "stalled"}, e \in {"ERR_OK", "ERR_MEM"} :
          k = [j EXCEPT !.pcb = p, !.err = e]
      BY <2>2, <2>3 DEF tcp_connect
  <2>5. k \in Netconns
      BY ONLY <2>1, <2>4 DEF Netconns, Errs, Pcbs
  <2>6. /\ k.used = n.used /\ k.pcb = p /\ k.recv = TRUE /\ k.state = "CONNECT"
        /\ k.op_completed = n.op_completed /\ k.refused_data = n.refused_data
        /\ k.write_msg = n.write_msg /\ k.taken = n.taken /\ k.rcv_nxt = n.rcv_nxt
        /\ k.recvmbox = n.recvmbox
      BY ONLY <2>1, <2>2, <2>4 DEF Netconns
  <2>7. /\ n.recvmbox = <<>> /\ n.refused_data = 0 /\ n.rcv_nxt = 1 /\ n.taken = 0
        /\ ~n.write_msg /\ n.op_completed = 0
      BY <1>2 DEF ConnInv, StreamInv, OpInv, Idle
  <2>8. Holds(k, 0)
      BY <2>6, <2>7 DEF Holds
  <2>9. StreamInv(k)
      BY <2>6, <2>7, <2>8, SizesAssumption DEF StreamInv
  <2> QED BY <2>5, <2>6, <2>7, <2>9 DEF Executes, ConnInv, PcbInv, OpInv, Matches
<1> QED BY <1>1, <1>2

LEMMA WriteExecutes ==
    ASSUME NEW n \in Netconns, ConnInv(n), Idle(n), n.used, n.pcb # "closed",
           NEW k \in do_write(n)
    PROVE  Executes("do_write", n, k)
<1>1. CASE ERR_IS_FATAL(n.err) \/ n.pcb = "null"
  <2>1. PICK e \in Errs : k = sys_sem_signal(n) \/ k = sys_sem_signal([n EXCEPT !.err = e])
      BY <1>1 DEF do_write, Errs
  <2>2. /\ ConnInv(k) /\ k.used /\ k.state = "NONE" /\ k.op_completed = 1 /\ k.pcb = n.pcb
      BY <2>1, SignalExecutes
  <2> QED BY <2>2 DEF Executes
<1>2. CASE ~ERR_IS_FATAL(n.err) /\ n.pcb # "null"
  <2> DEFINE j == [n EXCEPT !.state = "WRITE", !.write_msg = TRUE]
  <2>1. j \in Netconns
      BY DEF Netconns
  <2>2. /\ j.used = n.used /\ j.pcb = n.pcb /\ j.recv = n.recv /\ j.state = "WRITE"
        /\ j.op_completed = n.op_completed /\ j.refused_data = n.refused_data
        /\ j.write_msg = TRUE /\ j.taken = n.taken /\ j.rcv_nxt = n.rcv_nxt
        /\ j.recvmbox = n.recvmbox
      BY DEF Netconns
  <2>3. k \in do_writemore(j)
      BY <1>2 DEF do_write
  <2> HIDE DEF j
  <2>4. StreamInv(j)
      BY <1>2, <2>1, <2>2, StreamKept DEF ConnInv
  <2>5. ConnInv(j)
      BY <1>2, <2>1, <2>2, <2>4 DEF ConnInv, PcbInv, OpInv, Idle
  <2>6. Evolves(j, k) /\ k.pcb = j.pcb
      BY <1>2, <2>1, <2>2, <2>3, <2>5, WritemoreEvolves
  <2> QED BY <1>2, <2>2, <2>6 DEF Executes, Evolves, Matches, Idle
<1> QED BY <1>1, <1>2

LEMMA CloseExecutes ==
    ASSUME NEW n \in Netconns, ConnInv(n), Idle(n), n.used,
           NEW f \in {"do_close", "do_delconn"}, NEW k \in function(f, n)
    PROVE  Executes(f, n, k)
<1>1. CASE n.pcb = "null"
  <2>1. PICK e \in Errs : k = sys_sem_signal(n) \/ k = sys_sem_signal([n EXCEPT !.err = e])
      BY <1>1 DEF function, do_close, do_delconn, Errs
  <2>2. /\ ConnInv(k) /\ k.used /\ k.state = "NONE" /\ k.op_completed = 1 /\ k.pcb = n.pcb
      BY <2>1, SignalExecutes
  <2> QED BY <1>1, <2>2 DEF Executes
<1>2. CASE n.pcb # "null"
  <2> DEFINE j == [n EXCEPT !.state = "CLOSE"]
  <2>1. j \in Netconns
      BY DEF Netconns
  <2>2. /\ j.used = n.used /\ j.pcb = n.pcb /\ j.recv = n.recv /\ j.state = "CLOSE"
        /\ j.op_completed = n.op_completed /\ j.refused_data = n.refused_data
        /\ j.write_msg = n.write_msg /\ j.taken = n.taken /\ j.rcv_nxt = n.rcv_nxt
        /\ j.recvmbox = n.recvmbox
      BY DEF Netconns
  <2>3. k \in do_close_internal(j)
      BY <1>2 DEF function, do_close, do_delconn
  <2> HIDE DEF j
  <2>4. StreamInv(j)
      BY <1>2, <2>1, <2>2, StreamKept DEF ConnInv
  <2>5. j.op_completed = 0 /\ j.used /\ ~j.write_msg /\ j.pcb # "null" /\ j.state = "CLOSE"
      BY <1>2, <2>2 DEF ConnInv, OpInv, Idle
  <2>6. /\ ConnInv(k) /\ k.used
        /\ \/ k.pcb = "null" /\ k.state = "NONE" /\ k.op_completed = 1
           \/ /\ k.pcb = j.pcb /\ j.pcb \in {"estab", "close_wait"}
              /\ k.state = "CLOSE" /\ k.op_completed = 0
      BY <2>1, <2>3, <2>4, <2>5, CloseInternal
  <2> QED BY <2>6 DEF Executes, Matches
<1> QED BY <1>1, <1>2

LEMMA FunctionExecutes ==
    ASSUME NEW n \in Netconns, ConnInv(n), Idle(n), n.used, NEW f \in ApiFunctions,
           f = "do_newconn" => n = netconn_alloc,
           f = "do_connect" => n.pcb \in {"null", "closed"},
           f = "do_write" => n.pcb # "closed",
           NEW k \in function(f, n)
    PROVE  Executes(f, n, k)
<1>1. CASE f = "do_newconn"
    BY <1>1, NewconnExecutes DEF function
<1>2. CASE f = "do_connect"
    BY <1>2, ConnectExecutes DEF function
<1>3. CASE f = "do_recv"
  <2>1. k = sys_sem_signal(n) /\ n.err \in Errs
      BY <1>3 DEF function, do_recv, Netconns
  <2>2. /\ ConnInv(k) /\ k.used /\ k.state = "NONE" /\ k.op_completed = 1 /\ k.pcb = n.pcb
      BY <2>1, SignalExecutes
  <2> QED BY <1>3, <2>2 DEF Executes
<1>4. CASE f = "do_write"
    BY <1>4, WriteExecutes DEF function
<1>5. CASE f \in {"do_close", "do_delconn"}
    BY <1>5, CloseExecutes
<1> QED BY <1>1, <1>2, <1>3, <1>4, <1>5 DEF ApiFunctions

(***************************************************************************)
(* The callers' own steps on a netconn                                     *)
(***************************************************************************)
LEMMA ErrKeepsInv ==
    ASSUME NEW n \in Netconns, ConnInv(n), NEW e \in Errs, NEW k, k = [n EXCEPT !.err = e]
    PROVE  /\ ConnInv(k) /\ k.used = n.used /\ k.pcb = n.pcb /\ k.state = n.state
           /\ k.op_completed = n.op_completed
<1>1. k \in Netconns
    BY SMTT(30) DEF Netconns
<1>2. /\ k.used = n.used /\ k.pcb = n.pcb /\ k.recv = n.recv /\ k.state = n.state
      /\ k.op_completed = n.op_completed /\ k.refused_data = n.refused_data
      /\ k.write_msg = n.write_msg /\ k.taken = n.taken /\ k.rcv_nxt = n.rcv_nxt
      /\ k.recvmbox = n.recvmbox
    BY DEF Netconns
<1>3. StreamInv(k)
  <2>1. StreamInv(n) /\ (n.pcb = "null" => n.refused_data = 0)
      BY DEF ConnInv, StreamInv
  <2> QED BY <1>1, <1>2, <2>1, StreamKept
<1> QED BY <1>1, <1>2, <1>3 DEF ConnInv, PcbInv, OpInv

LEMMA TakenKeepsInv ==
    ASSUME NEW n \in Netconns, ConnInv(n), NEW k, k = [n EXCEPT !.op_completed = 0]
    PROVE  /\ ConnInv(k) /\ k.used = n.used /\ k.pcb = n.pcb /\ k.state = n.state
           /\ k.op_completed = 0 /\ k.err = n.err
<1>1. k \in Netconns
    BY SMTT(30) DEF Netconns
<1>2. /\ k.used = n.used /\ k.pcb = n.pcb /\ k.recv = n.recv /\ k.state = n.state
      /\ k.op_completed = 0 /\ k.refused_data = n.refused_data
      /\ k.write_msg = n.write_msg /\ k.taken = n.taken /\ k.rcv_nxt = n.rcv_nxt
      /\ k.recvmbox = n.recvmbox /\ k.err = n.err
    BY DEF Netconns
<1>3. StreamInv(k)
  <2>1. StreamInv(n) /\ (n.pcb = "null" => n.refused_data = 0)
      BY DEF ConnInv, StreamInv
  <2> QED BY <1>1, <1>2, <2>1, StreamKept
<1> QED BY <1>1, <1>2, <1>3 DEF ConnInv, PcbInv, OpInv

LEMMA FetchedKeepsInv ==
    ASSUME NEW n \in Netconns, ConnInv(n), n.recvmbox # <<>>, NEW k, k = Fetched(n)
    PROVE  /\ ConnInv(k) /\ k.used = n.used /\ k.pcb = n.pcb /\ k.state = n.state
           /\ k.op_completed = n.op_completed
<1> DEFINE m == n.recvmbox
           q == Tail(m)
           L == Len(m)
           t == IF Head(m) # 0 THEN n.taken + 1 ELSE n.taken
           e == IF Head(m) = 0 /\ n.err = "ERR_OK" THEN "ERR_CLSD" ELSE n.err
<1>1. m \in Seq(Nat) /\ n.taken \in Nat /\ n.rcv_nxt \in Nat /\ n.err \in Errs
    BY DEF Netconns
<1>2. /\ q \in Seq(Nat) /\ Len(q) = L - 1 /\ Head(m) = m[1]
      /\ L \in Nat \ {0} /\ DOMAIN m = 1..L
      /\ \A i \in 1..(L - 1) : q[i] = m[i + 1]
    BY <1>1, HeadTailProperties
<1>3. DOMAIN q = 1..(L - 1)
    BY <1>2
<1>4. t \in Nat /\ e \in Errs
    BY <1>1 DEF Errs
<1>5. k = [n EXCEPT !.recvmbox = q, !.taken = t, !.err = e]
    BY DEF Fetched, Netconns
<1>6. PICK j \in 0..(L + 1) : Holds(n, j)
    BY DEF ConnInv, StreamInv
<1>7. /\ \A i \in 1..L : m[i] = IF i <= j THEN n.taken + i ELSE 0
      /\ n.refused_data = IF j > L THEN n.taken + j ELSE 0
      /\ n.recv => n.rcv_nxt = n.taken + j + 1
    BY <1>2, <1>6 DEF Holds
<1>8. L <= RecvLength /\ (n.pcb = "estab" => \A i \in 1..L : m[i] # 0)
    BY <1>2 DEF ConnInv, StreamInv
<1>9. n.pcb \notin {"closed", "stalled", "syn_sent"}
    BY DEF ConnInv, StreamInv
<1>10. n.pcb = "null" => n.refused_data = 0
    BY DEF ConnInv, StreamInv
<1> DEFINE h == IF j = 0 THEN 0 ELSE j - 1
<1>11. t = IF j = 0 THEN n.taken ELSE n.taken + 1
    BY <1>1, <1>2, <1>6, <1>7
<1> HIDE DEF q, t, e, m, L
<1>12. k \in Netconns
    BY ONLY <1>2, <1>4, <1>5, n \in Netconns DEF Netconns
<1>13. /\ k.used = n.used /\ k.pcb = n.pcb /\ k.recv = n.recv /\ k.state = n.state
       /\ k.op_completed = n.op_completed /\ k.refused_data = n.refused_data
       /\ k.write_msg = n.write_msg /\ k.taken = t /\ k.rcv_nxt = n.rcv_nxt
       /\ k.recvmbox = q
    BY <1>5 DEF Netconns
<1>14. h \in 0..L /\ L \in Nat /\ RecvLength \in Nat
    BY <1>2, <1>6, SizesAssumption
<1>15. Holds(k, h)
  <2>1. \A i \in DOMAIN q : q[i] = IF i <= h THEN t + i ELSE 0
    <3> SUFFICES ASSUME NEW i \in 1..(L - 1) PROVE q[i] = IF i <= h THEN t + i ELSE 0
        BY <1>3
    <3>1. q[i] = IF i + 1 <= j THEN n.taken + (i + 1) ELSE 0
        BY <1>2, <1>7
    <3>2. CASE j = 0
        BY <1>1, <1>11, <3>1, <3>2
    <3>3. CASE j # 0
      <4>0. i \in Int /\ n.taken \in Nat /\ t = n.taken + 1
          BY <1>1, <1>2, <1>11, <3>3
      <4>1. h = j - 1 /\ t + i = n.taken + (i + 1)
          BY <3>3, <4>0
      <4>2. i + 1 <= j <=> i <= h
          BY <1>2, <1>6, <4>0, <4>1, SMTT(30)
      <4> QED BY ONLY <3>1, <4>0, <4>1, <4>2
    <3> QED BY <3>2, <3>3
  <2>2. n.refused_data = IF h > L - 1 THEN t + h ELSE 0
      BY <1>1, <1>2, <1>6, <1>7, <1>11
  <2>3. n.recv => n.rcv_nxt = t + h + 1
      BY <1>1, <1>2, <1>6, <1>7, <1>11
  <2> QED BY <1>2, <1>13, <2>1, <2>2, <2>3 DEF Holds
<1>16. StreamInv(k)
  <2>1. n.pcb = "estab" => \A i \in DOMAIN q : q[i] # 0
      BY <1>2, <1>3, <1>8
  <2>2. h \in 0..(Len(q) + 1) /\ Len(q) <= RecvLength
      BY <1>2, <1>8, <1>14
  <2> QED BY <1>9, <1>10, <1>13, <1>15, <2>1, <2>2 DEF StreamInv
<1> QED BY <1>12, <1>13, <1>16 DEF ConnInv, PcbInv, OpInv

(***************************************************************************)
(* Mailboxes                                                               *)
(***************************************************************************)
LEMMA PacketsFinite ==
    ASSUME NEW S, NEW s \in Seq(S)
    PROVE  IsFiniteSet(PacketsIn(s)) /\ Cardinality(PacketsIn(s)) \in Nat
<1>1. Len(s) \in Int /\ DOMAIN s = 1..Len(s)
    OBVIOUS
<1>2. IsFiniteSet(1..Len(s))
    BY <1>1, FS_Interval
<1>3. PacketsIn(s) \in SUBSET (1..Len(s))
    BY <1>1 DEF PacketsIn
<1> QED BY <1>2, <1>3, FS_Subset, FS_CardinalityType

LEMMA AppendMsg ==
    ASSUME NEW S, NEW s \in Seq(S), NEW x \in S
    PROVE  /\ Append(s, x) \in Seq(S) /\ Len(Append(s, x)) = Len(s) + 1
           /\ \A y : y \in Range(Append(s, x)) <=> y \in Range(s) \/ y = x
           /\ Once(s) /\ (x = Packet \/ x \notin Range(s)) => Once(Append(s, x))
           /\ Cardinality(PacketsIn(Append(s, x))) =
                Cardinality(PacketsIn(s)) + IF x = Packet THEN 1 ELSE 0
<1> DEFINE L == Len(s)
           q == Append(s, x)
<1>1. L \in Nat /\ DOMAIN s = 1..L
    OBVIOUS
<1>2. /\ q \in Seq(S) /\ Len(q) = L + 1
      /\ q[L + 1] = x /\ \A i \in 1..L : q[i] = s[i]
    BY AppendProperties
<1>3. DOMAIN q = 1..(L + 1)
    BY <1>2
<1> HIDE DEF L, q
<1>4. ASSUME NEW y PROVE y \in Range(q) <=> y \in Range(s) \/ y = x
  <2>1. ASSUME y \in Range(q) PROVE y \in Range(s) \/ y = x
    <3>1. PICK i \in 1..(L + 1) : q[i] = y
        BY <1>3, <2>1 DEF Range
    <3>2. i \in 1..L \/ i = L + 1
        BY <1>1, <3>1
    <3> QED BY <1>1, <1>2, <3>1, <3>2 DEF Range
  <2>2. ASSUME y \in Range(s) PROVE y \in Range(q)
    <3>1. PICK i \in 1..L : s[i] = y
        BY <1>1, <2>2 DEF Range
    <3>2. i \in DOMAIN q /\ q[i] = y
        BY <1>1, <1>2, <1>3, <3>1
    <3> QED BY <3>2 DEF Range
  <2>3. x \in Range(q)
    <3>1. L + 1 \in DOMAIN q
        BY <1>1, <1>3
    <3> QED BY <1>2, <3>1 DEF Range
  <2> QED BY <2>1, <2>2, <2>3
<1>5. ASSUME Once(s), x = Packet \/ x \notin Range(s) PROVE Once(q)
  <2> SUFFICES ASSUME NEW i \in 1..(L + 1), NEW j \in 1..(L + 1), q[i] = q[j], q[i] # Packet
               PROVE  i = j
      BY <1>3 DEF Once
  <2>1. CASE i \in 1..L /\ j \in 1..L
      BY <1>1, <1>2, <1>5, <2>1 DEF Once
  <2>2. CASE i \in 1..L /\ j = L + 1
      BY <1>1, <1>2, <1>5, <2>2 DEF Range
  <2>3. CASE i = L + 1 /\ j \in 1..L
      BY <1>1, <1>2, <1>5, <2>3 DEF Range
  <2> QED BY <1>1, <2>1, <2>2, <2>3
<1>6. Cardinality(PacketsIn(q)) = Cardinality(PacketsIn(s)) + IF x = Packet THEN 1 ELSE 0
  <2>1. IsFiniteSet(PacketsIn(s)) /\ Cardinality(PacketsIn(s)) \in Nat
      BY PacketsFinite
  <2>2. L + 1 \notin PacketsIn(s)
      BY <1>1 DEF PacketsIn
  <2>3. CASE x = Packet
    <3>1. PacketsIn(q) = PacketsIn(s) \cup {L + 1}
        BY <1>1, <1>2, <1>3, <2>3 DEF PacketsIn
    <3> QED BY <2>1, <2>2, <2>3, <3>1, FS_AddElement
  <2>4. CASE x # Packet
    <3>1. PacketsIn(q) = PacketsIn(s)
        BY <1>1, <1>2, <1>3, <2>4 DEF PacketsIn
    <3> QED BY <2>1, <2>4, <3>1
  <2> QED BY <2>3, <2>4
<1> QED BY <1>2, <1>4, <1>5, <1>6 DEF L, q

LEMMA TailMsg ==
    ASSUME NEW S, NEW s \in Seq(S), s # <<>>
    PROVE  /\ Tail(s) \in Seq(S) /\ Len(Tail(s)) = Len(s) - 1
           /\ Head(s) \in S /\ Head(s) \in Range(s)
           /\ \A y : y \in Range(Tail(s)) => y \in Range(s)
           /\ \A y : y \in Range(s) => y \in Range(Tail(s)) \/ y = Head(s)
           /\ Once(s) => Once(Tail(s)) /\ (Head(s) # Packet => Head(s) \notin Range(Tail(s)))
           /\ Cardinality(PacketsIn(Tail(s))) =
                Cardinality(PacketsIn(s)) - IF Head(s) = Packet THEN 1 ELSE 0
<1> DEFINE L == Len(s)
           q == Tail(s)
           x == Head(s)
<1>1. L \in Nat \ {0} /\ DOMAIN s = 1..L
    OBVIOUS
<1>2. /\ q \in Seq(S) /\ Len(q) = L - 1 /\ x \in S /\ x = s[1]
      /\ \A i \in 1..(L - 1) : q[i] = s[i + 1]
    BY HeadTailProperties
<1>3. DOMAIN q = 1..(L - 1)
    BY <1>2
<1> HIDE DEF L, q, x
<1>4. x \in Range(s)
    BY <1>1, <1>2 DEF Range
<1>5. ASSUME NEW y, y \in Range(q) PROVE y \in Range(s)
  <2>1. PICK i \in 1..(L - 1) : q[i] = y
      BY <1>3, <1>5 DEF Range
  <2>2. i + 1 \in 1..L /\ s[i + 1] = y
      BY <1>1, <1>2, <2>1
  <2> QED BY <1>1, <2>2 DEF Range
<1>6. ASSUME NEW y, y \in Range(s) PROVE y \in Range(q) \/ y = x
  <2>1. PICK i \in 1..L : s[i] = y
      BY <1>1, <1>6 DEF Range
  <2>2. CASE i = 1
      BY <1>2, <2>1, <2>2
  <2>3. CASE i # 1
    <3>1. i - 1 \in 1..(L - 1) /\ (i - 1) + 1 = i
        BY <1>1, <2>1, <2>3
    <3>2. q[i - 1] = y
        BY <1>2, <2>1, <3>1
    <3> QED BY <1>3, <3>1, <3>2 DEF Range
  <2> QED BY <2>2, <2>3
<1>7. ASSUME Once(s) PROVE Once(q) /\ (x # Packet => x \notin Range(q))
  <2>1. Once(q)
    <3> SUFFICES ASSUME NEW i \in 1..(L - 1), NEW j \in 1..(L - 1), q[i] = q[j], q[i] # Packet
                 PROVE  i = j
        BY <1>3 DEF Once
    <3>1. /\ i + 1 \in DOMAIN s /\ j + 1 \in DOMAIN s
          /\ q[i] = s[i + 1] /\ q[j] = s[j + 1]
        BY <1>1, <1>2
    <3>2. i + 1 = j + 1
        BY <1>7, <3>1 DEF Once
    <3> QED BY <3>2
  <2>2. ASSUME x # Packet, x \in Range(q) PROVE FALSE
    <3>1. PICK i \in 1..(L - 1) : q[i] = x
        BY <1>3, <2>2 DEF Range
    <3>2. i + 1 \in DOMAIN s /\ 1 \in DOMAIN s /\ s[i + 1] = s[1] /\ s[1] # Packet
        BY <1>1, <1>2, <2>2, <3>1
    <3>3. i + 1 = 1
        BY <1>7, <3>2 DEF Once
    <3> QED BY <3>1, <3>3
  <2> QED BY <2>1, <2>2
<1>8. Cardinality(PacketsIn(q)) = Cardinality(PacketsIn(s)) - IF x = Packet THEN 1 ELSE 0
  <2>1. IsFiniteSet(PacketsIn(s)) /\ Cardinality(PacketsIn(s)) \in Nat
        /\ IsFiniteSet(PacketsIn(q))
      BY <1>2, PacketsFinite
  <2> DEFINE R == PacketsIn(s) \ {1}
             f == [i \in PacketsIn(q) |-> i + 1]
  <2>2. f \in [PacketsIn(q) -> R]
      BY <1>1, <1>2, <1>3 DEF PacketsIn
  <2>3. \A a, b \in PacketsIn(q) : f[a] = f[b] => a = b
      BY <1>3 DEF PacketsIn
  <2>4. ASSUME NEW r \in R PROVE \E a \in PacketsIn(q) : f[a] = r
    <3>1. r \in 1..L /\ r # 1 /\ s[r] = Packet
        BY <1>1, <2>4 DEF PacketsIn
    <3>2. r - 1 \in 1..(L - 1) /\ (r - 1) + 1 = r
        BY <1>1, <3>1
    <3>3. r - 1 \in PacketsIn(q)
        BY <1>2, <1>3, <3>1, <3>2 DEF PacketsIn
    <3> QED BY <3>2, <3>3
  <2>5. f \in Bijection(PacketsIn(q), R)
      BY <2>2, <2>3, <2>4 DEF Bijection, Injection, Surjection, IsInjective
  <2>6. ExistsBijection(PacketsIn(q), R)
      BY <2>5 DEF ExistsBijection
  <2> HIDE DEF R, f
  <2>7. Cardinality(R) = Cardinality(PacketsIn(q))
      BY <2>1, <2>6, FS_Bijection
  <2>8. Cardinality(R) = IF 1 \in PacketsIn(s) THEN Cardinality(PacketsIn(s)) - 1
                         ELSE Cardinality(PacketsIn(s))
      BY <2>1, FS_RemoveElement DEF R
  <2>9. 1 \in PacketsIn(s) <=> x = Packet
      BY <1>1, <1>2 DEF PacketsIn
  <2> QED BY <2>1, <2>7, <2>8, <2>9
<1> QED BY <1>2, <1>4, <1>5, <1>6, <1>7, <1>8 DEF L, q, x

(***************************************************************************)
(* Steps of the system                                                     *)
(***************************************************************************)
\* What a step does to the stage of a thread.
Stays(t) ==
    \/ Resting(t) /\ Resting(t)'
    \/ Asked(t) /\ Asked(t)'
    \/ Answered(t) /\ Answered(t)'

Moves(t) ==
    \/ Stays(t)
    \/ Resting(t) /\ Asked(t)'
    \/ Asked(t) /\ Answered(t)'
    \/ Answered(t) /\ (Resting(t)' \/ Asked(t)')

Step == \E t \in Threads : Moves(t) /\ \A u \in Threads \ {t} : Stays(u)

\* Two threads never work with the same netconn.
LEMMA OwnConn ==
    ASSUME NamesInv, NEW t \in Threads, NEW u \in Threads, t # u
    PROVE  cur[t] # cur[u]
BY NamesAssumption DEF NamesInv, Threads, Conns

\* A thread whose netconn, message and err_tcp are left alone stays where it is.
LEMMA Untouched ==
    ASSUME IInv, NEW t \in Threads, UNCHANGED <<pc[t], fn[t], cur[t]>>,
           t \in Range(mbox)' <=> t \in Range(mbox),
           cur[t] # NoConn => /\ conn'[cur[t]] = conn[cur[t]]
                              /\ blocked' = cur[t] => blocked = cur[t]
    PROVE  Stays(t)
<1>1. ThreadInv(t)
    BY DEF IInv
<1>2. CASE Resting(t)
  <2>1. cur[t] = NoConn => pc[t] = "accept"
      BY NamesAssumption DEF IInv, DataInv, NamesInv, Threads, Conns
  <2> QED BY <1>2, <2>1 DEF Stays, Resting
<1>3. cur[t] = NoConn => pc[t] \notin {"post", "wait"}
    BY NamesAssumption DEF IInv, DataInv, NamesInv, Threads, Conns
<1>4. CASE Asking(t)
  <2>1. cur[t] # NoConn
      BY <1>3, <1>4 DEF Asking
  <2>2. Asking(t)'
      BY <1>4, <2>1 DEF Asking, Pre, Quiet
  <2> QED BY <1>4, <2>2 DEF Stays, Asked
<1>5. CASE Running(t)
  <2>1. cur[t] # NoConn
      BY <1>3, <1>5 DEF Running
  <2>2. Running(t)'
      BY <1>5, <2>1 DEF Running
  <2> QED BY <1>5, <2>2 DEF Stays, Asked
<1>6. CASE Answered(t)
  <2>1. cur[t] # NoConn
      BY <1>3, <1>6 DEF Answered
  <2>2. Answered(t)'
      BY <1>6, <2>1 DEF Answered, Post, Quiet
  <2> QED BY <1>6, <2>2 DEF Stays
<1> QED BY <1>1, <1>2, <1>4, <1>5, <1>6 DEF ThreadInv, Asked

\* What tcpip_thread does to the netconn c on its own account: TCP makes k of
\* it, or err_tcp has to wait for room in its mailbox.
TcpStep(c, k) ==
    /\ conn' = [conn EXCEPT ![c] = k]
    /\ UNCHANGED <<acceptmbox, threads>>
    /\ \/ Evolves(conn[c], k) /\ blocked' = NoConn /\ held' = 0
       \/ /\ ConnInv(k) /\ k.used = conn[c].used /\ k.pcb = "null"
          /\ k.state = conn[c].state /\ k.op_completed = conn[c].op_completed
          /\ blocked' = c
    /\ \/ blocked = NoConn /\ conn[c].pcb \notin {"null", "closed"}
       \/ blocked = c

LEMMA TcpStepThread ==
    ASSUME IInv, NEW c \in Conns, NEW k, TcpStep(c, k), NEW t \in Threads, cur[t] = c,
           t \in Range(mbox)' <=> t \in Range(mbox)
    PROVE  Stays(t) \/ (Asked(t) /\ Answered(t)')
<1> DEFINE n == conn[c]
<1>1. ThreadInv(t) /\ ConnInv(n) /\ pc' = pc /\ fn' = fn /\ cur' = cur
    BY DEF IInv, DataInv, TcpStep, threads
<1>2. conn'[c] = k
    BY DEF IInv, DataInv, TypeInv, TcpStep
<1>3. blocked = c => n.pcb = "null" /\ n.used
    BY NamesAssumption DEF IInv, DataInv, BlockedInv
<1>4. blocked = c \/ n.pcb \notin {"null", "closed"}
    BY DEF TcpStep
<1>5. /\ k.used = n.used /\ k.pcb # "closed" /\ (n.pcb = "null" => k.pcb = "null")
      /\ \/ k.state = n.state /\ k.op_completed = n.op_completed
         \/ /\ n.state # "NONE" /\ k.state = "NONE" /\ k.op_completed = 1
            /\ blocked' = NoConn
            /\ n.state = "CONNECT" => k.pcb = "null" \/ k.err = "ERR_OK"
            /\ n.state = "CLOSE" => k.pcb = "null"
      /\ n.state = "NONE" /\ n.err = "ERR_OK" => k.pcb = "null" \/ k.err = "ERR_OK"
    BY DEF TcpStep, Evolves
<1>6. c # NoConn
    BY NamesAssumption
<1> HIDE DEF n
<1>7. CASE Resting(t)
  <2>1. Resting(t)'
      BY <1>1, <1>2, <1>3, <1>4, <1>5, <1>7 DEF Resting, Idle, n
  <2> QED BY <1>7, <2>1 DEF Stays
<1>8. CASE Asking(t)
  <2>1. Asking(t)'
    <3>1. fn[t] \notin {"do_newconn", "do_delconn"}
        BY <1>3, <1>4, <1>8, AllocFields DEF Asking, Pre, Quiet, n
    <3>2. Pre(fn[t], c)'
        BY <1>1, <1>2, <1>3, <1>4, <1>5, <1>8, <3>1 DEF Asking, Pre, n
    <3> QED BY <1>1, <1>2, <1>5, <1>8, <3>2 DEF Asking, Idle, n
  <2> QED BY <1>8, <2>1 DEF Stays, Asked
<1>9. CASE Running(t)
  <2>1. CASE k.state = n.state /\ k.op_completed = n.op_completed
    <3>1. Running(t)'
        BY <1>1, <1>2, <1>5, <1>9, <2>1 DEF Running, n
    <3> QED BY <1>9, <3>1 DEF Stays, Asked
  <2>2. CASE ~(k.state = n.state /\ k.op_completed = n.op_completed)
    <3>1. fn[t] \in ApiFunctions /\ n.state \in {"CONNECT", "WRITE", "CLOSE"}
        BY <1>9 DEF IInv, DataInv, TypeInv, Netconns, Running, n
    <3>2. Post(fn[t], c)'
        BY <1>1, <1>2, <1>5, <1>6, <1>9, <2>2, <3>1 DEF Running, Matches, Post, Quiet, n
    <3>3. Answered(t)'
        BY <1>1, <1>2, <1>5, <1>9, <2>2, <3>2 DEF Answered, Running, n
    <3> QED BY <1>9, <3>3 DEF Asked
  <2> QED BY <2>1, <2>2
<1>10. CASE Answered(t)
  <2>1. fn[t] \notin {"do_newconn", "do_close", "do_delconn"}
      BY <1>3, <1>4, <1>10 DEF Answered, Post, Quiet, n
  <2>2. Post(fn[t], c)'
      BY <1>1, <1>2, <1>5, <1>10, <2>1 DEF Answered, Post, n
  <2>3. Answered(t)'
      BY <1>1, <1>2, <1>5, <1>10, <2>2 DEF Answered, n
  <2> QED BY <1>10, <2>3 DEF Stays
<1> QED BY <1>1, <1>7, <1>8, <1>9, <1>10 DEF ThreadInv, Asked

LEMMA TcpStepInv ==
    ASSUME IInv, NEW c \in Conns, NEW k, TcpStep(c, k), TypeInv', Once(mbox)',
           InpktAccounting', \A t \in Threads : t \in Range(mbox)' <=> t \in Range(mbox)
    PROVE  DataInv' /\ Step
<1> DEFINE n == conn[c]
<1>1. /\ TypeInv /\ ConnInv(n) /\ NamesInv /\ BlockedInv /\ AcceptInv
      /\ \A d \in Conns : ConnInv(conn[d])
    BY DEF IInv, DataInv
<1>2. conn'[c] = k /\ \A d \in Conns \ {c} : conn'[d] = conn[d]
    BY <1>1 DEF TypeInv, TcpStep
<1>3. pc' = pc /\ fn' = fn /\ cur' = cur /\ acceptmbox' = acceptmbox
    BY DEF TcpStep, threads
<1>4. /\ ConnInv(k) /\ k.used = n.used /\ k.pcb # "closed"
      /\ k.pcb \in {"stalled", "syn_sent"} => n.pcb = k.pcb
      /\ Idle(n) => Idle(k)
      /\ blocked' = NoConn => held' = 0 /\ (k.pcb = "null" => k.state = "NONE")
      /\ blocked' # NoConn => blocked' = c /\ k.pcb = "null"
      /\ blocked \in {NoConn, c}
    BY NamesAssumption DEF TcpStep, Evolves, Idle
<1>5. n.used
    BY <1>1, NamesAssumption DEF TcpStep, BlockedInv, ConnInv, OpInv
<1> HIDE DEF n
<1>6. \A d \in Conns : ConnInv(conn'[d])
    BY <1>1, <1>2, <1>4
<1>7. NamesInv'
    BY <1>1, <1>3 DEF NamesInv
<1>8. BlockedInv'
  <2>1. \A d \in Conns \ {c} : conn[d].pcb = "null" => conn[d].state = "NONE"
      BY <1>1, <1>4, NamesAssumption DEF BlockedInv
  <2>2. k.used /\ c \in Conns
      BY <1>4, <1>5
  <2>3. blocked' # NoConn => conn'[blocked'].used /\ conn'[blocked'].pcb = "null"
      BY <1>2, <1>4, <2>2
  <2>4. \A d \in Conns : conn'[d].pcb = "null" /\ conn'[d].state # "NONE" => blocked' = d
      BY <1>2, <1>4, <2>1
  <2> QED BY <1>4, <2>3, <2>4 DEF BlockedInv
<1>9. AcceptInv'
  <2>1. Accepts \subseteq Conns /\ Range(acceptmbox) \subseteq Conns
      BY <1>1 DEF Conns, TypeInv, Range
  <2>2. \A d \in Conns : conn'[d].used = conn[d].used /\ (Idle(conn[d]) => Idle(conn'[d]))
      BY <1>2, <1>4 DEF n
  <2>3. ASSUME NEW d \in Accepts
        PROVE  conn'[d].pcb \notin {"closed", "stalled", "syn_sent"}
    <3>1. conn[d].pcb \notin {"closed", "stalled", "syn_sent"}
        BY <1>1 DEF AcceptInv
    <3>2. CASE d = c
        BY <1>2, <1>4, <3>1, <3>2 DEF n
    <3>3. CASE d # c
        BY <1>2, <2>1, <3>1, <3>3
    <3> QED BY <3>2, <3>3
  <2>4. Range(acceptmbox)' = Range(acceptmbox)
      BY <1>3
  <2> QED BY <1>1, <1>3, <2>1, <2>2, <2>3, <2>4 DEF AcceptInv
<1>10. DataInv'
    BY <1>6, <1>7, <1>8, <1>9 DEF DataInv
<1>11. ASSUME NEW t \in Threads, cur[t] # c PROVE Stays(t)
  <2>1. cur[t] # NoConn => cur[t] \in Conns \ {c}
      BY <1>1, <1>11 DEF TypeInv
  <2>2. t \in Range(mbox)' <=> t \in Range(mbox)
      OBVIOUS
  <2>3. cur[t] # NoConn => conn'[cur[t]] = conn[cur[t]] /\ blocked' # cur[t]
      BY <1>2, <1>4, <1>11, <2>1
  <2> QED BY <1>3, <2>2, <2>3, Untouched
<1>12. Step
  <2>1. CASE \E t \in Threads : cur[t] = c
    <3>1. PICK t \in Threads : cur[t] = c
        BY <2>1
    <3>2. Moves(t)
        BY <3>1, TcpStepThread DEF Moves
    <3>3. \A u \in Threads \ {t} : cur[u] # c
        BY <1>1, <3>1, OwnConn
    <3>4. \A u \in Threads \ {t} : Stays(u)
        BY <1>11, <3>3
    <3> QED BY <3>2, <3>4 DEF Step
  <2>2. CASE \A t \in Threads : cur[t] # c
    <3>1. Server \in Threads
        BY DEF Threads
    <3> QED BY <1>11, <2>2, <3>1 DEF Step, Moves
  <2> QED BY <2>1, <2>2
<1> QED BY <1>10, <1>12

\* The connection of c is lost, after n was made of it.
LEMMA LostStep ==
    ASSUME IInv, NEW c \in Conns, blocked = NoConn, conn[c].pcb \notin {"null", "closed"},
           NEW n \in Netconns, Evolves(conn[c], n), n.pcb = conn[c].pcb,
           n.state = conn[c].state, n.op_completed = conn[c].op_completed,
           NEW j \in 0..1, ConnectionLost(c, n, j)
    PROVE  \E k \in Netconns : TcpStep(c, k) /\ held' \in 0..1 /\ inpkt' \in Nat
                               /\ inpkt' + held' = inpkt + held + j
<1>1. held = 0 /\ inpkt \in Nat
    BY DEF IInv, DataInv, BlockedInv, TypeInv
<1> DEFINE l == err_tcp_lost(n)
           k == err_tcp_posted(l)
<1>2. ConnInv(n)
    BY DEF Evolves
<1>3. /\ l \in Netconns /\ ConnInv(l) /\ l.used = n.used /\ l.pcb = "null"
      /\ l.state = n.state /\ l.op_completed = n.op_completed /\ l.recvmbox = n.recvmbox
    BY <1>2, LostFields
<1> HIDE DEF l
<1>4. CASE HasRoom(n)
  <2>1. HasRoom(l)
      BY <1>3, <1>4 DEF HasRoom
  <2>2. /\ k \in Netconns /\ ConnInv(k) /\ k.used = n.used /\ k.pcb = "null"
        /\ k.state = "NONE"
        /\ k.op_completed = IF n.state = "NONE" THEN n.op_completed ELSE 1
      BY <1>3, <2>1, PostedFields
  <2>3. conn' = [conn EXCEPT ![c] = k] /\ inpkt' = inpkt + j /\ blocked' = blocked /\ held' = held
      BY <1>4 DEF ConnectionLost, l
  <2> HIDE DEF k
  <2>4. Evolves(conn[c], k)
      BY <2>2 DEF Evolves
  <2>5. TcpStep(c, k)
      BY <1>1, <2>3, <2>4 DEF TcpStep, ConnectionLost
  <2> QED BY <1>1, <2>2, <2>3, <2>5
<1>5. CASE ~HasRoom(n)
  <2>1. conn' = [conn EXCEPT ![c] = l] /\ blocked' = c /\ held' = j /\ inpkt' = inpkt
      BY <1>5 DEF ConnectionLost, l
  <2>2. TcpStep(c, l)
      BY <1>3, <2>1 DEF TcpStep, ConnectionLost, Evolves
  <2> QED BY <1>1, <1>3, <2>1, <2>2
<1> QED BY <1>4, <1>5

\* tcpip_thread takes a packet from its mailbox.
LEMMA TakesPacket ==
    ASSUME IInv, mbox # <<>>, Head(mbox) = Packet, mbox' = Tail(mbox)
    PROVE  /\ mbox' \in Seq(Threads \cup {Packet}) /\ Len(mbox') <= QueueLength
           /\ Once(mbox)'
           /\ \A t \in Threads : t \in Range(mbox)' <=> t \in Range(mbox)
           /\ inpkt' + held' = inpkt + held + 1 => InpktAccounting'
<1>1. /\ mbox \in Seq(Threads \cup {Packet}) /\ Len(mbox) <= QueueLength /\ Once(mbox)
      /\ InpktAccounting /\ inpkt \in Nat /\ held \in 0..1
    BY DEF IInv, DataInv, TypeInv
<1> DEFINE q == Tail(mbox)
<1>2. /\ q \in Seq(Threads \cup {Packet}) /\ Len(q) = Len(mbox) - 1
      /\ \A y : y \in Range(q) => y \in Range(mbox)
      /\ \A y : y \in Range(mbox) => y \in Range(q) \/ y = Packet
      /\ Once(q)
      /\ Cardinality(PacketsIn(q)) = Cardinality(PacketsIn(mbox)) - 1
    BY <1>1, TailMsg
<1>3. mbox' = q
    OBVIOUS
<1> HIDE DEF q
<1>4. Len(mbox) \in Nat /\ QueueLength \in Nat
    BY <1>1, SizesAssumption
<1>5. Range(mbox)' = Range(q) /\ Once(mbox)'
    BY <1>2, <1>3 DEF Range, Once
<1>6. \A t \in Threads : t # Packet
    BY NamesAssumption
<1>7. inpkt' + held' = inpkt + held + 1 => InpktAccounting'
  <2>1. inpkt + held + Cardinality(PacketsIn(mbox)) = NumInpkt
      BY <1>1 DEF InpktAccounting
  <2>2. Cardinality(PacketsIn(mbox)) \in Nat
      BY <1>1, PacketsFinite
  <2>3. inpkt' + held' = inpkt + held + 1 =>
          inpkt' + held' + Cardinality(PacketsIn(q)) = NumInpkt
      BY <1>1, <1>2, <2>1, <2>2
  <2>4. InpktAccounting' <=> inpkt' + held' + Cardinality(PacketsIn(mbox')) = NumInpkt
      BY DEF InpktAccounting
  <2> QED BY <1>3, <2>3, <2>4
<1>8. Len(q) <= QueueLength
    BY <1>1, <1>2, <1>4
<1>9. \A t \in Threads : t \in Range(mbox)' <=> t \in Range(mbox)
    BY <1>2, <1>5, <1>6
<1> QED BY <1>2, <1>3, <1>5, <1>7, <1>8, <1>9

LEMMA PacketForStep ==
    ASSUME IInv, NEW c \in Conns, blocked = NoConn, PacketFor(c)
    PROVE  \E k \in Netconns : TcpStep(c, k) /\ held' \in 0..1 /\ inpkt' \in Nat
                               /\ inpkt' + held' = inpkt + held + 1
<1>1. /\ ConnInv(conn[c]) /\ conn[c] \in Netconns /\ held = 0 /\ inpkt \in Nat
      /\ MaxData[c] \in Nat
    BY SizesAssumption DEF IInv, DataInv, BlockedInv, TypeInv
<1>2. conn[c].pcb \in Live /\ conn[c].pcb \notin {"null", "closed"}
    BY DEF PacketFor, Live
<1> DEFINE n == Redeliver(conn[c])
<1>3. /\ Evolves(conn[c], n) /\ n.pcb = conn[c].pcb /\ n.state = conn[c].state
      /\ n.op_completed = conn[c].op_completed
    BY <1>1, <1>2, RedeliverEvolves
<1>4. n \in Netconns /\ ConnInv(n)
    BY <1>3 DEF Evolves, ConnInv
<1>5. ASSUME NEW k \in IF n.refused_data # 0 THEN {n} ELSE tcp_process(n, MaxData[c]),
             conn' = [conn EXCEPT ![c] = k], inpkt' = inpkt + 1,
             UNCHANGED <<acceptmbox, blocked, held, threads>>
      PROVE  \E l \in Netconns : TcpStep(c, l) /\ held' \in 0..1 /\ inpkt' \in Nat
                                 /\ inpkt' + held' = inpkt + held + 1
  <2>1. Evolves(conn[c], k)
    <3>1. CASE n.refused_data # 0
        BY <1>3, <1>5, <3>1
    <3>2. CASE n.refused_data = 0
      <4>1. k \in tcp_process(n, MaxData[c]) /\ n.pcb \in Live
          BY <1>2, <1>3, <1>5, <3>2
      <4> HIDE DEF n
      <4>2. Evolves(n, k)
          BY <1>1, <1>4, <3>2, <4>1, ProcessEvolves
      <4> QED BY <1>3, <4>2, EvolvesTrans
    <3> QED BY <3>1, <3>2
  <2>2. k \in Netconns
      BY <2>1 DEF Evolves, ConnInv
  <2>3. TcpStep(c, k)
      BY <1>1, <1>2, <1>5, <2>1 DEF TcpStep
  <2> QED BY <1>1, <1>5, <2>2, <2>3
<1>6. ASSUME ConnectionLost(c, n, 1)
      PROVE  \E l \in Netconns : TcpStep(c, l) /\ held' \in 0..1 /\ inpkt' \in Nat
                                 /\ inpkt' + held' = inpkt + held + 1
  <2> HIDE DEF n
  <2> QED BY <1>2, <1>3, <1>4, <1>6, LostStep
<1> QED BY <1>5, <1>6 DEF PacketFor

LEMMA TcpStepTyped ==
    ASSUME IInv, NEW c \in Conns, NEW k \in Netconns, TcpStep(c, k),
           mbox' \in Seq(Threads \cup {Packet}), Len(mbox') <= QueueLength,
           inpkt' \in Nat, held' \in 0..1
    PROVE  TypeInv'
BY DEF IInv, DataInv, TypeInv, TcpStep, threads

\* tcpip_thread's mailbox is left alone.
LEMMA SameMailbox ==
    ASSUME IInv, mbox' = mbox
    PROVE  /\ mbox' \in Seq(Threads \cup {Packet}) /\ Len(mbox') <= QueueLength
           /\ Once(mbox)'
           /\ \A t \in Threads : t \in Range(mbox)' <=> t \in Range(mbox)
           /\ inpkt' + held' = inpkt + held => InpktAccounting'
<1>1. /\ mbox \in Seq(Threads \cup {Packet}) /\ Len(mbox) <= QueueLength /\ Once(mbox)
      /\ InpktAccounting
    BY DEF IInv, DataInv, TypeInv
<1>2. Once(mbox)' /\ Range(mbox)' = Range(mbox)
    BY <1>1 DEF Once, Range
<1>3. inpkt' + held' = inpkt + held => InpktAccounting'
    BY <1>1 DEF InpktAccounting
<1> QED BY <1>1, <1>2, <1>3

\* A SYN_RCVD pcb becomes an accepted netconn.
LEMMA AcceptStep ==
    ASSUME IInv, blocked = NoConn, NEW c \in Accepts, accept_function(c),
           mbox # <<>>, Head(mbox) = Packet, mbox' = Tail(mbox)
    PROVE  DataInv' /\ Step
<1>1. /\ TypeInv /\ NamesInv /\ BlockedInv /\ AcceptInv
      /\ \A d \in Conns : ConnInv(conn[d])
    BY DEF IInv, DataInv
<1>2. c \in Conns /\ ~conn[c].used
    BY DEF Conns, accept_function
<1> DEFINE n == [netconn_alloc EXCEPT !.pcb = "estab", !.recv = TRUE]
<1>3. PICK flags \in SUBSET {"data", "fin"} :
        \E k \in Receive(n, flags) : conn' = [conn EXCEPT ![c] = k]
    BY DEF accept_function
<1> PICK k \in Receive(n, flags) : conn' = [conn EXCEPT ![c] = k]
    BY <1>3
<1>4. /\ acceptmbox' = Append(acceptmbox, c) /\ inpkt' = inpkt + 1
      /\ blocked' = blocked /\ held' = held /\ pc' = pc /\ fn' = fn /\ cur' = cur
    BY DEF accept_function, threads
<1>5. /\ n \in Netconns /\ Blank(n) /\ n.used = TRUE /\ n.pcb = "estab" /\ n.recv = TRUE
      /\ n.op_completed = 0
    BY AllocFields DEF Blank, Netconns, Pcbs
<1> HIDE DEF n
<1>6. ConnInv(n) /\ n.refused_data = 0 /\ n.state = "NONE"
    BY <1>5, BlankInv DEF Blank
<1>7. Evolves(n, k)
    BY <1>3, <1>5, <1>6, ReceiveEvolves
<1>8. /\ ConnInv(k) /\ k \in Netconns /\ k.used
      /\ k.pcb \notin {"closed", "stalled", "syn_sent"}
      /\ k.state = "NONE" /\ k.op_completed = 0
    BY <1>5, <1>6, <1>7 DEF Evolves, ConnInv
<1>9. conn'[c] = k /\ \A d \in Conns \ {c} : conn'[d] = conn[d]
    BY <1>1, <1>2, <1>3 DEF TypeInv
<1>10. c \notin Range(acceptmbox) /\ cur[Server] # c
    BY <1>1, <1>2 DEF AcceptInv
<1> DEFINE q == Append(acceptmbox, c)
<1>11. /\ acceptmbox \in Seq(Accepts) /\ q \in Seq(Accepts)
       /\ \A y : y \in Range(q) <=> y \in Range(acceptmbox) \/ y = c
       /\ \A i, j \in DOMAIN q : q[i] = q[j] => i = j
  <2>1. acceptmbox \in Seq(Accepts) /\ q \in Seq(Accepts)
      BY <1>1 DEF TypeInv
  <2>2. \A y : y \in Range(q) <=> y \in Range(acceptmbox) \/ y = c
      BY <2>1, AppendMsg
  <2> DEFINE L == Len(acceptmbox)
  <2>3. L \in Nat /\ DOMAIN acceptmbox = 1..L /\ DOMAIN q = 1..(L + 1)
        /\ q[L + 1] = c /\ \A i \in 1..L : q[i] = acceptmbox[i]
      BY <2>1
  <2> HIDE DEF L, q
  <2>4. \A i \in 1..L : q[i] # c
      BY <1>10, <2>3 DEF Range
  <2>5. \A i, j \in 1..L : q[i] = q[j] => i = j
      BY <1>1, <2>3 DEF AcceptInv
  <2>6. ASSUME NEW i \in 1..(L + 1), NEW j \in 1..(L + 1), q[i] = q[j] PROVE i = j
    <3>1. (i \in 1..L \/ i = L + 1) /\ (j \in 1..L \/ j = L + 1)
        BY <2>3
    <3> QED BY <2>3, <2>4, <2>5, <2>6, <3>1
  <2> QED BY <2>1, <2>2, <2>3, <2>6
<1>12. acceptmbox' = q
    BY <1>4
<1> HIDE DEF q
<1>13. /\ mbox' \in Seq(Threads \cup {Packet}) /\ Len(mbox') <= QueueLength /\ Once(mbox)'
       /\ \A t \in Threads : t \in Range(mbox)' <=> t \in Range(mbox)
       /\ inpkt' + held' = inpkt + held + 1 => InpktAccounting'
    BY TakesPacket
<1>14. inpkt' \in Nat /\ inpkt' + held' = inpkt + held + 1
    BY <1>1, <1>4 DEF TypeInv
<1>15. TypeInv'
    BY <1>1, <1>3, <1>4, <1>8, <1>11, <1>12, <1>13, <1>14 DEF TypeInv
<1>16. \A d \in Conns : ConnInv(conn'[d])
    BY <1>1, <1>8, <1>9
<1>17. NamesInv'
    BY <1>1, <1>4 DEF NamesInv
<1>18. BlockedInv'
    BY <1>1, <1>4, <1>8, <1>9 DEF BlockedInv
<1>19. AcceptInv'
  <2>1. \A d \in Accepts : d \in Conns
      BY DEF Conns
  <2>2. Range(acceptmbox)' = Range(q) /\ Range(acceptmbox) \subseteq Conns
      BY <1>11, <1>12, <2>1 DEF Range
  <2>3. \A d \in Range(q) : conn'[d].used /\ d # cur[Server]
      BY <1>1, <1>8, <1>9, <1>10, <1>11, <2>2 DEF AcceptInv
  <2>4. Idle(k)
      BY <1>8 DEF Idle
  <2>5. ASSUME NEW d \in Accepts
        PROVE  /\ conn'[d].pcb \notin {"closed", "stalled", "syn_sent"}
               /\ ~Idle(conn'[d]) => cur[Server] = d
               /\ ~conn'[d].used => cur[Server] # d
    <3>1. CASE d = c
        BY <1>8, <1>9, <2>4, <3>1
    <3>2. CASE d # c
        BY <1>1, <1>9, <2>1, <3>2 DEF AcceptInv
    <3> QED BY <3>1, <3>2
  <2> QED BY <1>4, <1>11, <1>12, <2>2, <2>3, <2>5 DEF AcceptInv
<1>20. DataInv'
    BY <1>13, <1>14, <1>15, <1>16, <1>17, <1>18, <1>19 DEF DataInv
<1>21. ASSUME NEW t \in Threads PROVE Stays(t)
  <2>1. cur[t] # c
      BY <1>1, <1>10, NamesAssumption DEF NamesInv, Threads
  <2>2. cur[t] # NoConn => cur[t] \in Conns \ {c}
      BY <1>1, <2>1 DEF TypeInv
  <2>3. t \in Range(mbox)' <=> t \in Range(mbox)
      BY <1>13
  <2>4. cur[t] # NoConn => /\ conn'[cur[t]] = conn[cur[t]]
                           /\ blocked' = cur[t] => blocked = cur[t]
      BY <1>4, <1>9, <2>2
  <2> QED BY <1>4, <2>3, <2>4, Untouched
<1>22. Server \in Threads
    BY DEF Threads
<1> QED BY <1>20, <1>21, <1>22 DEF Step, Moves

LEMMA InPktStep ==
    ASSUME IInv, InPkt
    PROVE  DataInv' /\ Step
<1>1. blocked = NoConn /\ mbox # <<>> /\ Head(mbox) = Packet /\ mbox' = Tail(mbox)
    BY DEF InPkt
<1>2. /\ mbox' \in Seq(Threads \cup {Packet}) /\ Len(mbox') <= QueueLength /\ Once(mbox)'
      /\ \A t \in Threads : t \in Range(mbox)' <=> t \in Range(mbox)
      /\ inpkt' + held' = inpkt + held + 1 => InpktAccounting'
    BY <1>1, TakesPacket
<1>3. ASSUME NEW c \in Conns, PacketFor(c) PROVE DataInv' /\ Step
  <2>1. PICK k \in Netconns : TcpStep(c, k) /\ held' \in 0..1 /\ inpkt' \in Nat
                              /\ inpkt' + held' = inpkt + held + 1
      BY <1>1, <1>3, PacketForStep
  <2>2. TypeInv'
      BY <1>2, <2>1, TcpStepTyped
  <2> QED BY <1>2, <2>1, <2>2, TcpStepInv
<1>4. ASSUME NEW c \in Accepts, accept_function(c) PROVE DataInv' /\ Step
    BY <1>1, <1>4, AcceptStep
<1>5. ASSUME StrayPacket PROVE DataInv' /\ Step
  <2>1. /\ TypeInv /\ NamesInv /\ BlockedInv /\ AcceptInv
        /\ \A d \in Conns : ConnInv(conn[d])
      BY DEF IInv, DataInv
  <2>2. /\ inpkt' = inpkt + 1 /\ acceptmbox' = acceptmbox /\ blocked' = blocked
        /\ held' = held /\ pc' = pc /\ fn' = fn /\ cur' = cur /\ conn' = conn
      BY <1>5 DEF StrayPacket, threads
  <2>3. inpkt' \in Nat /\ inpkt' + held' = inpkt + held + 1
      BY <2>1, <2>2 DEF TypeInv
  <2>4. TypeInv'
      BY <1>2, <2>1, <2>2, <2>3 DEF TypeInv
  <2>5. NamesInv' /\ BlockedInv'
      BY <2>1, <2>2 DEF NamesInv, BlockedInv
  <2>6. AcceptInv'
    <3>1. Range(acceptmbox)' = Range(acceptmbox)
        BY <2>2
    <3> QED BY <2>1, <2>2, <3>1 DEF AcceptInv
  <2>7. DataInv'
      BY <1>2, <2>1, <2>2, <2>3, <2>4, <2>5, <2>6 DEF DataInv
  <2>8. \A t \in Threads : Stays(t)
      BY <1>2, <2>2, Untouched
  <2>9. Server \in Threads
      BY DEF Threads
  <2> QED BY <2>7, <2>8, <2>9 DEF Step, Moves
<1> QED BY <1>3, <1>4, <1>5 DEF InPkt

LEMMA ErrTcpStep ==
    ASSUME IInv, ErrTcpGoesOn
    PROVE  DataInv' /\ Step
<1> DEFINE c == blocked
           n == conn[c]
           k == err_tcp_posted(n)
<1>1. c \in Conns /\ n \in Netconns /\ ConnInv(n) /\ n.pcb = "null" /\ n.used /\ HasRoom(n)
    BY DEF IInv, DataInv, TypeInv, BlockedInv, ErrTcpGoesOn
<1>2. /\ k \in Netconns /\ ConnInv(k) /\ k.used = n.used /\ k.pcb = "null"
      /\ k.state = "NONE"
      /\ k.op_completed = IF n.state = "NONE" THEN n.op_completed ELSE 1
    BY <1>1, PostedFields
<1>3. conn' = [conn EXCEPT ![c] = k]
    BY DEF ErrTcpGoesOn
<1> HIDE DEF k
<1>4. Evolves(n, k)
    BY <1>1, <1>2 DEF Evolves
<1>5. TcpStep(c, k)
    BY <1>3, <1>4 DEF TcpStep, ErrTcpGoesOn
<1>6. inpkt' \in Nat /\ held' \in 0..1 /\ inpkt' + held' = inpkt + held
    BY DEF IInv, DataInv, TypeInv, ErrTcpGoesOn
<1>7. mbox' = mbox
    BY DEF ErrTcpGoesOn
<1> HIDE DEF c, n
<1>8. TypeInv'
    BY <1>1, <1>2, <1>5, <1>6, <1>7, SameMailbox, TcpStepTyped
<1> QED BY <1>1, <1>5, <1>6, <1>7, <1>8, SameMailbox, TcpStepInv

LEMMA TimerStep ==
    ASSUME IInv, NEW c \in Conns, tcp_fasttmr(c) \/ tcp_slowtmr(c)
    PROVE  DataInv' /\ Step
<1> DEFINE n == conn[c]
<1>1. /\ blocked = NoConn /\ n \in Netconns /\ ConnInv(n) /\ held = 0 /\ inpkt \in Nat
      /\ n.pcb \notin {"null", "closed"} /\ mbox' = mbox
    BY DEF IInv, DataInv, TypeInv, BlockedInv, tcp_fasttmr, tcp_slowtmr, Live
<1>2. \E k \in Netconns : TcpStep(c, k) /\ held' \in 0..1 /\ inpkt' \in Nat
                           /\ inpkt' + held' = inpkt + held
  <2>1. ASSUME NEW k, Evolves(n, k), conn' = [conn EXCEPT ![c] = k],
               UNCHANGED <<acceptmbox, tcpip, threads>>
        PROVE  \E l \in Netconns : TcpStep(c, l) /\ held' \in 0..1 /\ inpkt' \in Nat
                                   /\ inpkt' + held' = inpkt + held
    <3>1. k \in Netconns
        BY <2>1 DEF Evolves, ConnInv
    <3>2. TcpStep(c, k)
        BY <1>1, <2>1 DEF TcpStep, tcpip
    <3> QED BY <1>1, <2>1, <3>1, <3>2 DEF tcpip
  <2>2. CASE tcp_fasttmr(c)
    <3>1. n.pcb \in Live /\ conn' = [conn EXCEPT ![c] = Redeliver(n)]
        BY <2>2 DEF tcp_fasttmr
    <3>2. Evolves(n, Redeliver(n))
        BY <1>1, <3>1, RedeliverEvolves
    <3> QED BY <2>1, <2>2, <3>1, <3>2 DEF tcp_fasttmr
  <2>3. CASE tcp_slowtmr(c)
    <3>1. ASSUME NEW k \in GoOn(n), conn' = [conn EXCEPT ![c] = k],
                 UNCHANGED <<acceptmbox, tcpip, threads>>
          PROVE  \E l \in Netconns : TcpStep(c, l) /\ held' \in 0..1 /\ inpkt' \in Nat
                                     /\ inpkt' + held' = inpkt + held
      <4>1. Evolves(n, k)
          BY <1>1, <3>1, GoOnEvolves
      <4> QED BY <2>1, <3>1, <4>1
    <3>2. ASSUME ConnectionLost(c, n, 0)
          PROVE  \E l \in Netconns : TcpStep(c, l) /\ held' \in 0..1 /\ inpkt' \in Nat
                                     /\ inpkt' + held' = inpkt + held
      <4>1. Evolves(n, n)
          BY <1>1 DEF Evolves, ConnInv, PcbInv
      <4>2. 0 \in 0..1 /\ inpkt + held + 0 = inpkt + held
          BY <1>1
      <4> QED BY <1>1, <3>2, <4>1, <4>2, LostStep
    <3> QED BY <2>3, <3>1, <3>2 DEF tcp_slowtmr
  <2> QED BY <2>2, <2>3
<1>3. PICK k \in Netconns : TcpStep(c, k) /\ held' \in 0..1 /\ inpkt' \in Nat
                            /\ inpkt' + held' = inpkt + held
    BY <1>2
<1>4. TypeInv'
    BY <1>1, <1>3, SameMailbox, TcpStepTyped
<1> QED BY <1>1, <1>3, <1>4, SameMailbox, TcpStepInv

LEMMA TcpipInputStep ==
    ASSUME IInv, tcpip_input
    PROVE  DataInv' /\ Step
<1>1. /\ TypeInv /\ NamesInv /\ BlockedInv /\ AcceptInv /\ Once(mbox) /\ InpktAccounting
      /\ \A d \in Conns : ConnInv(conn[d])
    BY DEF IInv, DataInv
<1>2. /\ inpkt > 0 /\ inpkt' = inpkt - 1 /\ acceptmbox' = acceptmbox /\ blocked' = blocked
      /\ held' = held /\ pc' = pc /\ fn' = fn /\ cur' = cur /\ conn' = conn
      /\ Len(mbox) < QueueLength
    BY DEF tcpip_input, threads
<1> DEFINE S == Threads \cup {Packet}
           q == Append(mbox, Packet)
<1>3. mbox \in Seq(S) /\ Packet \in S /\ mbox' = q
    BY <1>1 DEF TypeInv, tcpip_input
<1>4. /\ q \in Seq(S) /\ Len(q) = Len(mbox) + 1
      /\ \A y : y \in Range(q) <=> y \in Range(mbox) \/ y = Packet
      /\ Once(q)
      /\ Cardinality(PacketsIn(q)) = Cardinality(PacketsIn(mbox)) + 1
    BY <1>1, <1>3, AppendMsg
<1>5. Len(mbox) \in Nat /\ QueueLength \in Nat /\ Cardinality(PacketsIn(mbox)) \in Nat
    BY <1>3, PacketsFinite, SizesAssumption
<1> HIDE DEF q
<1>6. Len(q) <= QueueLength /\ inpkt' \in Nat
    BY <1>1, <1>2, <1>4, <1>5 DEF TypeInv
<1>7. TypeInv'
    BY <1>1, <1>2, <1>3, <1>4, <1>6 DEF TypeInv
<1>8. NamesInv' /\ BlockedInv'
    BY <1>1, <1>2 DEF NamesInv, BlockedInv
<1>9. AcceptInv'
  <2>1. Range(acceptmbox)' = Range(acceptmbox)
      BY <1>2
  <2> QED BY <1>1, <1>2, <2>1 DEF AcceptInv
<1>10. Once(mbox)'
    BY <1>3, <1>4
<1>11. InpktAccounting'
  <2>1. inpkt + held + Cardinality(PacketsIn(mbox)) = NumInpkt /\ inpkt \in Nat /\ held \in 0..1
      BY <1>1 DEF InpktAccounting, TypeInv
  <2>2. (inpkt - 1) + held + Cardinality(PacketsIn(q)) = NumInpkt
      BY <1>4, <1>5, <2>1
  <2> QED BY <1>2, <1>3, <2>2 DEF InpktAccounting
<1>12. DataInv'
    BY <1>1, <1>2, <1>7, <1>8, <1>9, <1>10, <1>11 DEF DataInv
<1>13. \A t \in Threads : t \in Range(mbox)' <=> t \in Range(mbox)
    BY <1>3, <1>4, NamesAssumption
<1>14. \A t \in Threads : Stays(t)
    BY <1>2, <1>13, Untouched
<1>15. Server \in Threads
    BY DEF Threads
<1> QED BY <1>12, <1>14, <1>15 DEF Step, Moves

(***************************************************************************)
(* Steps of a thread, or on its behalf                                     *)
(***************************************************************************)
\* k agrees with what err_tcp and the server know of the netconn c.
Fits(c, k) ==
    /\ k.pcb = "null" /\ k.state # "NONE" => blocked = c
    /\ blocked = c => k.used /\ k.pcb = "null"
    /\ c \in Accepts => /\ k.pcb \notin {"closed", "stalled", "syn_sent"}
                        /\ ~Idle(k) => cur'[Server] = c
                        /\ ~k.used => cur'[Server] # c
    /\ cur'[Server] \in {cur[Server], NoConn}

\* A step of t that makes k of its netconn c and leaves all others alone.
LEMMA CallerStep ==
    ASSUME IInv, NEW t \in Threads, NEW c \in Conns, cur[t] = c,
           NEW k \in Netconns, ConnInv(k), conn' = [conn EXCEPT ![c] = k],
           acceptmbox' = acceptmbox, blocked' = blocked, held' = held,
           \A u \in Threads \ {t} : /\ UNCHANGED <<pc[u], fn[u], cur[u]>>
                                    /\ u \in Range(mbox)' <=> u \in Range(mbox),
           TypeInv', NamesInv', Once(mbox)', InpktAccounting', Moves(t), Fits(c, k)
    PROVE  DataInv' /\ Step
<1>1. /\ TypeInv /\ NamesInv /\ BlockedInv /\ AcceptInv
      /\ \A d \in Conns : ConnInv(conn[d])
    BY DEF IInv, DataInv
<1>2. conn'[c] = k /\ \A d \in Conns \ {c} : conn'[d] = conn[d]
    BY <1>1 DEF TypeInv
<1> USE DEF Fits
<1>3. \A d \in Conns : ConnInv(conn'[d])
    BY <1>1, <1>2
<1>4. BlockedInv'
  <2>1. blocked' # NoConn => conn'[blocked'].used /\ conn'[blocked'].pcb = "null"
      BY <1>1, <1>2 DEF BlockedInv, TypeInv
  <2>2. \A d \in Conns : conn'[d].pcb = "null" /\ conn'[d].state # "NONE" => blocked' = d
      BY <1>1, <1>2 DEF BlockedInv
  <2> QED BY <1>1, <2>1, <2>2 DEF BlockedInv
<1>5. AcceptInv'
  <2>1. \A d \in Accepts : d \in Conns /\ d # NoConn
      BY NamesAssumption DEF Conns
  <2>2. Range(acceptmbox)' = Range(acceptmbox) /\ Range(acceptmbox) \subseteq Accepts
      BY <1>1 DEF TypeInv, Range
  <2>3. c \in Accepts => t = Server
      BY <1>1, NamesAssumption DEF NamesInv, Threads
  <2>4. t # Server => cur'[Server] = cur[Server]
      BY DEF Threads
  <2>5. ASSUME NEW d \in Range(acceptmbox) PROVE conn'[d].used /\ d # cur'[Server]
    <3>1. conn[d].used /\ d # cur[Server] /\ d \in Accepts /\ d # NoConn
        BY <1>1, <2>1, <2>2 DEF AcceptInv
    <3>2. d # c
        BY <2>3, <3>1
    <3> QED BY <1>2, <2>1, <3>1, <3>2
  <2>6. ASSUME NEW d \in Accepts
        PROVE  /\ conn'[d].pcb \notin {"closed", "stalled", "syn_sent"}
               /\ ~Idle(conn'[d]) => cur'[Server] = d
               /\ ~conn'[d].used => cur'[Server] # d
    <3>1. CASE d = c
        BY <1>2, <3>1
    <3>2. CASE d # c
      <4>1. conn'[d] = conn[d] /\ d # NoConn
          BY <1>2, <2>1, <3>2
      <4>2. /\ conn[d].pcb \notin {"closed", "stalled", "syn_sent"}
            /\ ~Idle(conn[d]) => cur[Server] = d
            /\ ~conn[d].used => cur[Server] # d
          BY <1>1 DEF AcceptInv
      <4> QED BY <2>4, <3>2, <4>1, <4>2
    <3> QED BY <3>1, <3>2
  <2> QED BY <1>1, <2>2, <2>5, <2>6 DEF AcceptInv
<1>6. DataInv'
    BY <1>3, <1>4, <1>5 DEF DataInv
<1>7. ASSUME NEW u \in Threads \ {t} PROVE Stays(u)
  <2>1. cur[u] # c
      BY <1>1, OwnConn
  <2>2. cur[u] # NoConn => cur[u] \in Conns \ {c}
      BY <1>1, <2>1 DEF TypeInv
  <2>3. u \in Range(mbox)' <=> u \in Range(mbox)
      OBVIOUS
  <2>4. cur[u] # NoConn => /\ conn'[cur[u]] = conn[cur[u]]
                           /\ blocked' = cur[u] => blocked = cur[u]
      BY <1>2, <2>2
  <2> QED BY <2>3, <2>4, Untouched
<1> QED BY <1>6, <1>7 DEF Step

\* The netconn a thread works with.
LEMMA OwnNetconn ==
    ASSUME IInv, NEW t \in Threads, pc[t] # "accept"
    PROVE  /\ cur[t] \in Conns /\ conn[cur[t]] \in Netconns /\ ConnInv(conn[cur[t]])
           /\ t = Server => cur[t] \in Accepts
           /\ t # Server => t \in Senders /\ cur[t] = t /\ cur[t] \notin Accepts
           /\ cur[t] # NoConn
           /\ conn[cur[t]].pcb = "null" /\ conn[cur[t]].state # "NONE" => blocked = cur[t]
           /\ blocked = cur[t] => conn[cur[t]].used /\ conn[cur[t]].pcb = "null"
           /\ cur[t] \in Accepts => conn[cur[t]].pcb \notin {"closed", "stalled", "syn_sent"}
<1>1. TypeInv /\ NamesInv /\ BlockedInv /\ AcceptInv /\ \A d \in Conns : ConnInv(conn[d])
    BY DEF IInv, DataInv
<1>2. cur[t] \in Conns /\ cur[t] # NoConn /\ (t = Server => cur[t] \in Accepts)
      /\ (t # Server => t \in Senders /\ cur[t] = t /\ cur[t] \notin Accepts)
    BY <1>1, NamesAssumption DEF NamesInv, Threads, Conns
<1> QED BY <1>1, <1>2 DEF TypeInv, BlockedInv, AcceptInv

\* A thread goes to place p, or calls f there, with k for its netconn.
LEMMA OwnStep ==
    ASSUME IInv, NEW t \in Threads, pc[t] # "accept", NEW p \in Places, NEW f \in ApiFunctions,
           NEW k \in Netconns, ConnInv(k), Idle(k),
           pc' = [pc EXCEPT ![t] = p], fn' = [fn EXCEPT ![t] = f],
           conn' = [conn EXCEPT ![cur[t]] = k],
           UNCHANGED <<mbox, acceptmbox, tcpip, cur>>,
           t = Server => /\ p \in {"recv", "fetch", "post"}
                         /\ f \notin {"do_newconn", "do_connect"}
                         /\ k.used,
           t # Server => /\ p \in {"new", "idle", "loop", "post"}
                         /\ f # "do_delconn"
                         /\ p = "post" => f # "do_recv",
           k.used \/ blocked # cur[t],
           k.pcb = conn[cur[t]].pcb,
           Moves(t)
    PROVE  DataInv' /\ Step
<1>1. TypeInv /\ NamesInv /\ InpktAccounting
    BY DEF IInv, DataInv
<1>2. /\ acceptmbox' = acceptmbox /\ inpkt' = inpkt /\ blocked' = blocked /\ held' = held
      /\ cur' = cur /\ mbox' = mbox
    BY DEF tcpip
<1>3. /\ pc'[t] = p /\ fn'[t] = f
      /\ \A u \in Threads \ {t} : pc'[u] = pc[u] /\ fn'[u] = fn[u]
    BY <1>1 DEF TypeInv
<1>4. /\ Once(mbox)' /\ InpktAccounting'
      /\ \A u \in Threads : u \in Range(mbox)' <=> u \in Range(mbox)
    BY <1>2, SameMailbox
<1>5. TypeInv'
    BY <1>1, <1>2 DEF TypeInv
<1>6. /\ cur[t] \in Conns
      /\ blocked = cur[t] => conn[cur[t]].pcb = "null"
      /\ cur[t] \in Accepts => conn[cur[t]].pcb \notin {"closed", "stalled", "syn_sent"}
      /\ t # Server => cur[t] \notin Accepts
    BY OwnNetconn
<1>7. NamesInv'
  <2>1. ASSUME NEW s \in Senders
        PROVE  /\ cur[s] = s /\ pc'[s] \in {"new", "idle", "loop", "post", "wait"}
               /\ fn'[s] # "do_delconn"
               /\ pc'[s] \in {"post", "wait"} => fn'[s] # "do_recv"
    <3>1. s \in Threads /\ s # Server
        BY NamesAssumption DEF Threads
    <3>2. CASE s = t
        BY <1>1, <1>3, <3>1, <3>2 DEF NamesInv
    <3>3. CASE s # t
        BY <1>1, <1>3, <3>1, <3>3 DEF NamesInv
    <3> QED BY <3>2, <3>3
  <2>2. /\ cur[Server] = NoConn <=> pc'[Server] = "accept"
        /\ pc'[Server] \in {"accept", "recv", "fetch", "post", "wait"}
        /\ fn'[Server] \notin {"do_newconn", "do_connect"}
    <3>1. Server \in Threads
        BY DEF Threads
    <3>2. CASE t = Server
        BY <1>1, <1>3, <3>2 DEF NamesInv
    <3>3. CASE t # Server
        BY <1>1, <1>3, <3>1, <3>3 DEF NamesInv
    <3> QED BY <3>2, <3>3
  <2> QED BY <1>1, <1>2, <2>1, <2>2 DEF NamesInv
<1>8. k.state = "NONE"
    BY DEF Idle
<1>9. \A u \in Threads \ {t} : /\ UNCHANGED <<pc[u], fn[u], cur[u]>>
                               /\ u \in Range(mbox)' <=> u \in Range(mbox)
    BY <1>2, <1>3, <1>4
<1> DEFINE c == cur[t]
<1>10. Fits(c, k)
    BY <1>2, <1>6, <1>8 DEF Fits
<1>11. c \in Conns /\ cur[t] = c
    BY <1>6
<1> HIDE DEF c
<1>12. conn' = [conn EXCEPT ![c] = k]
    BY <1>11
<1> QED BY ONLY IInv, t \in Threads, k \in Netconns, ConnInv(k), Moves(t),
               <1>2, <1>4, <1>5, <1>7, <1>9, <1>10, <1>11, <1>12, CallerStep

LEMMA PostStep ==
    ASSUME IInv, NEW t \in Threads, sys_mbox_post(t)
    PROVE  DataInv' /\ Step
<1>1. TypeInv /\ NamesInv /\ InpktAccounting /\ Once(mbox)
    BY DEF IInv, DataInv
<1>2. /\ acceptmbox' = acceptmbox /\ inpkt' = inpkt /\ blocked' = blocked /\ held' = held
      /\ cur' = cur /\ fn' = fn /\ conn' = conn /\ mbox' = Append(mbox, t)
      /\ pc[t] = "post" /\ pc' = [pc EXCEPT ![t] = "wait"] /\ Len(mbox) < QueueLength
    BY DEF sys_mbox_post, Goes, tcpip
<1>3. pc'[t] = "wait" /\ \A u \in Threads \ {t} : pc'[u] = pc[u]
    BY <1>1, <1>2 DEF TypeInv
<1>4. Asking(t) /\ t \notin Range(mbox)
    BY <1>2 DEF IInv, ThreadInv, Resting, Asked, Asking, Running, Answered
<1> DEFINE S == Threads \cup {Packet}
           q == Append(mbox, t)
<1>5. mbox \in Seq(S) /\ t \in S /\ t # Packet /\ mbox' = q
    BY <1>1, <1>2, NamesAssumption DEF TypeInv
<1>6. /\ q \in Seq(S) /\ Len(q) = Len(mbox) + 1
      /\ \A y : y \in Range(q) <=> y \in Range(mbox) \/ y = t
      /\ Once(q)
      /\ Cardinality(PacketsIn(q)) = Cardinality(PacketsIn(mbox)) + 0
    BY <1>1, <1>4, <1>5, AppendMsg
<1>7. Len(mbox) \in Nat /\ QueueLength \in Nat /\ Cardinality(PacketsIn(mbox)) \in Nat
    BY <1>5, PacketsFinite, SizesAssumption
<1> HIDE DEF q
<1>8. Len(q) <= QueueLength
    BY <1>2, <1>6, <1>7
<1>9. TypeInv'
  <2>1. pc' \in [Threads -> Places]
      BY <1>1, <1>2 DEF TypeInv, Places
  <2> QED BY <1>1, <1>2, <1>5, <1>6, <1>8, <2>1 DEF TypeInv
<1>10. Once(mbox)' /\ Range(mbox)' = Range(q)
    BY <1>5, <1>6
<1>11. InpktAccounting'
    BY <1>1, <1>2, <1>5, <1>6, <1>7 DEF InpktAccounting
<1>12. NamesInv'
  <2>1. Server \in Threads /\ Senders \subseteq Threads
      BY DEF Threads
  <2> QED BY <1>1, <1>2, <1>3, <2>1 DEF NamesInv
<1>13. Asking(t)'
  <2>1. t \in Range(mbox)'
      BY <1>6, <1>10
  <2>2. Pre(fn[t], cur[t])'
      BY <1>2, <1>4 DEF Asking, Pre, Quiet
  <2> QED BY <1>2, <1>3, <1>4, <2>1, <2>2 DEF Asking
<1>14. Moves(t)
    BY <1>4, <1>13 DEF Moves, Stays, Asked
<1> DEFINE c == cur[t]
           k == conn[c]
<1>15. /\ c \in Conns /\ k \in Netconns /\ ConnInv(k)
       /\ k.pcb = "null" /\ k.state # "NONE" => blocked = c
       /\ blocked = c => k.used /\ k.pcb = "null"
       /\ c \in Accepts => k.pcb \notin {"closed", "stalled", "syn_sent"}
       /\ Idle(k) /\ k.used
    BY <1>2, <1>4, OwnNetconn DEF Asking
<1>16. conn' = [conn EXCEPT ![c] = k]
    BY <1>1, <1>2 DEF TypeInv
<1>17. \A u \in Threads \ {t} : /\ UNCHANGED <<pc[u], fn[u], cur[u]>>
                                /\ u \in Range(mbox)' <=> u \in Range(mbox)
    BY <1>2, <1>3, <1>6, <1>10
<1>18. cur[t] = c /\ Fits(c, k)
    BY <1>2, <1>15 DEF Fits
<1> HIDE DEF c, k
<1> QED BY <1>2, <1>9, <1>10, <1>11, <1>12, <1>14, <1>15, <1>16, <1>17, <1>18, CallerStep

LEMMA ApiMsgStep ==
    ASSUME IInv, NEW t \in Threads, ApiMsg(t)
    PROVE  DataInv' /\ Step
<1>1. TypeInv /\ NamesInv /\ InpktAccounting /\ Once(mbox)
    BY DEF IInv, DataInv
<1>2. /\ acceptmbox' = acceptmbox /\ inpkt' = inpkt /\ blocked' = blocked /\ held' = held
      /\ cur' = cur /\ fn' = fn /\ pc' = pc /\ mbox' = Tail(mbox)
      /\ blocked = NoConn /\ mbox # <<>> /\ Head(mbox) = t
    BY DEF ApiMsg, tcpip, threads
<1> DEFINE S == Threads \cup {Packet}
           q == Tail(mbox)
<1>3. mbox \in Seq(S) /\ t # Packet /\ mbox' = q
    BY <1>1, <1>2, NamesAssumption DEF TypeInv
<1>4. /\ q \in Seq(S) /\ Len(q) = Len(mbox) - 1 /\ t \in Range(mbox)
      /\ \A y : y \in Range(q) => y \in Range(mbox)
      /\ \A y : y \in Range(mbox) => y \in Range(q) \/ y = t
      /\ Once(q) /\ t \notin Range(q)
      /\ Cardinality(PacketsIn(q)) = Cardinality(PacketsIn(mbox)) - 0
    BY <1>1, <1>2, <1>3, TailMsg
<1>5. Len(mbox) \in Nat /\ QueueLength \in Nat /\ Cardinality(PacketsIn(mbox)) \in Nat
      /\ Len(mbox) <= QueueLength
    BY <1>1, <1>3, PacketsFinite, SizesAssumption DEF TypeInv
<1> HIDE DEF q
<1>6. Asking(t) /\ pc[t] = "wait"
    BY <1>4 DEF IInv, ThreadInv, Resting, Asked, Asking, Running, Answered
<1> DEFINE c == cur[t]
           n == conn[c]
           f == fn[t]
<1>7. /\ c \in Conns /\ n \in Netconns /\ ConnInv(n) /\ c # NoConn
      /\ c \in Accepts => n.pcb \notin {"closed", "stalled", "syn_sent"}
      /\ c \in Accepts => t = Server
    BY <1>6, OwnNetconn
<1>8. Idle(n) /\ n.used /\ Pre(f, c) /\ f \in ApiFunctions
    BY <1>1, <1>6 DEF Asking, TypeInv
<1>9. PICK k \in function(f, n) : conn' = [conn EXCEPT ![c] = k]
    BY DEF ApiMsg
<1>10. Executes(f, n, k)
  <2>1. /\ f = "do_newconn" => n = netconn_alloc
        /\ f = "do_connect" => n.pcb \in {"null", "closed"}
        /\ f = "do_write" => n.pcb # "closed"
      BY <1>8 DEF Pre
  <2> HIDE DEF n, f
  <2> QED BY <1>7, <1>8, <1>9, <2>1, FunctionExecutes
<1>11. k \in Netconns /\ ConnInv(k) /\ k.used
    BY <1>10 DEF Executes, ConnInv
<1>12. conn'[c] = k
    BY <1>1, <1>7, <1>9 DEF TypeInv
<1>13. t = Server => f \notin {"do_newconn", "do_connect"}
    BY <1>1 DEF NamesInv
<1> HIDE DEF c, n, f
<1>14. Len(q) <= QueueLength
    BY <1>4, <1>5
<1>15. TypeInv'
    BY <1>1, <1>2, <1>3, <1>4, <1>9, <1>11, <1>14 DEF TypeInv
<1>16. Once(mbox)' /\ Range(mbox)' = Range(q)
    BY <1>3, <1>4
<1>17. InpktAccounting'
  <2>1. Cardinality(PacketsIn(q)) = Cardinality(PacketsIn(mbox))
      BY <1>4, <1>5
  <2> QED BY <1>1, <1>2, <1>3, <2>1 DEF InpktAccounting
<1>18. NamesInv'
    BY <1>1, <1>2 DEF NamesInv
<1>19. Moves(t)
  <2>1. pc'[t] = "wait" /\ t \notin Range(mbox)' /\ conn'[cur'[t]] = k /\ cur'[t] = c /\ fn'[t] = f
      BY <1>2, <1>4, <1>6, <1>12, <1>16 DEF c, f
  <2>2. CASE k.state = "NONE" /\ k.op_completed = 1
    <3>1. Post(fn[t], cur[t])'
        BY <1>2, <1>7, <1>10, <2>1, <2>2 DEF Post, Quiet, Executes
    <3>2. Answered(t)'
        BY <1>11, <2>1, <2>2, <3>1 DEF Answered
    <3> QED BY <1>6, <3>2 DEF Moves, Asked
  <2>3. CASE k.state # "NONE" /\ k.op_completed = 0
    <3>1. Running(t)'
        BY <1>10, <1>11, <2>1, <2>3 DEF Running, Executes
    <3> QED BY <1>6, <3>1 DEF Moves, Stays, Asked
  <2> QED BY <1>10, <2>2, <2>3 DEF Executes
<1>20. Fits(c, k)
  <2>1. c \in Accepts => k.pcb \notin {"closed", "stalled", "syn_sent"}
      BY <1>7, <1>10, <1>13 DEF Executes
  <2> QED BY <1>2, <1>7, <1>10, <1>11, <2>1 DEF Executes, Fits, c
<1>21. \A u \in Threads \ {t} : /\ UNCHANGED <<pc[u], fn[u], cur[u]>>
                                /\ u \in Range(mbox)' <=> u \in Range(mbox)
    BY <1>2, <1>4, <1>16
<1>22. cur[t] = c
    BY DEF c
<1> QED BY <1>2, <1>7, <1>9, <1>11, <1>15, <1>16, <1>17, <1>18, <1>19, <1>20, <1>21, <1>22,
           CallerStep

\* The stages of a thread, told by its place.
LEMMA StageResting ==
    ASSUME IInv, NEW t \in Threads, pc[t] \notin {"post", "wait"}
    PROVE  Resting(t)
BY DEF IInv, ThreadInv, Asked, Asking, Running, Answered

LEMMA StageAnswered ==
    ASSUME IInv, NEW t \in Threads, pc[t] = "wait", conn[cur[t]].op_completed = 1
    PROVE  Answered(t)
BY DEF IInv, ThreadInv, Resting, Asked, Asking, Running, Idle

\* A thread calls f, or goes on with something else.
LEMMA GoesAsking ==
    ASSUME IInv, NEW t \in Threads, Resting(t) \/ Answered(t), NEW k \in Netconns,
           pc'[t] = "post", t \notin Range(mbox)', conn'[cur'[t]] = k, Idle(k), k.used,
           Pre(fn[t], cur[t])'
    PROVE  Moves(t)
<1>1. Asking(t)'
    BY DEF Asking
<1> QED BY <1>1 DEF Moves, Asked

LEMMA GoesResting ==
    ASSUME IInv, NEW t \in Threads, Resting(t) \/ Answered(t), NEW k \in Netconns,
           pc'[t] \notin {"post", "wait"}, t \notin Range(mbox)', conn'[cur'[t]] = k, Idle(k),
           k.used <=> pc'[t] # "new",
           pc'[t] = "idle" => k.pcb \in {"null", "closed"},
           pc'[t] = "loop" => k.pcb # "closed"
    PROVE  Moves(t)
<1>1. Resting(t)'
    BY DEF Resting
<1> QED BY <1>1 DEF Moves, Stays

LEMMA ReadStep ==
    ASSUME IInv, netconn_recv \/ sys_arch_mbox_fetch
    PROVE  DataInv' /\ Step
<1> DEFINE t == Server
           c == cur[t]
           n == conn[c]
<1>1. TypeInv /\ t \in Threads /\ pc[t] \in {"recv", "fetch"}
    BY DEF IInv, DataInv, Threads, netconn_recv, sys_arch_mbox_fetch
<1>2. Resting(t) /\ Idle(n) /\ n.used /\ t \notin Range(mbox)
  <2>1. Resting(t)
      BY <1>1, StageResting
  <2> QED BY <1>1, <2>1 DEF Resting
<1>3. c \in Conns /\ n \in Netconns /\ ConnInv(n)
    BY <1>1, OwnNetconn
<1>4. UNCHANGED <<mbox, acceptmbox, tcpip, cur>>
    BY DEF netconn_recv, sys_arch_mbox_fetch
<1>5. t \notin Range(mbox)' /\ cur'[t] = c
    BY <1>2, <1>4
<1> HIDE DEF n
<1>6. ASSUME NEW k \in Netconns, ConnInv(k), k.used = n.used, k.pcb = n.pcb,
             k.state = n.state, k.op_completed = n.op_completed,
             conn' = [conn EXCEPT ![c] = k],
             \/ Goes(t, "fetch")
             \/ Calls(t, "do_close") \/ Calls(t, "do_recv")
      PROVE  DataInv' /\ Step
  <2>1. Idle(k) /\ k.used /\ conn'[c] = k /\ k.pcb = conn[cur[t]].pcb
      BY <1>1, <1>2, <1>3, <1>6 DEF Idle, TypeInv, n
  <2>2. PICK p \in {"fetch", "post"}, f \in ApiFunctions :
          /\ pc' = [pc EXCEPT ![t] = p] /\ fn' = [fn EXCEPT ![t] = f]
          /\ f \notin {"do_newconn", "do_connect"}
          /\ p = "post" => f \in {"do_close", "do_recv"}
    <3>1. fn[t] \in ApiFunctions /\ fn = [fn EXCEPT ![t] = fn[t]]
          /\ fn[t] \notin {"do_newconn", "do_connect"}
        BY <1>1 DEF TypeInv, IInv, DataInv, NamesInv
    <3>2. {"do_close", "do_recv"} \subseteq ApiFunctions
        BY DEF ApiFunctions
    <3> QED BY <1>6, <3>1, <3>2 DEF Goes, Calls
  <2>3. pc'[t] = p /\ fn'[t] = f
      BY <1>1, <2>2 DEF TypeInv
  <2>4. Moves(t)
    <3>1. CASE p = "fetch"
        BY <1>1, <1>2, <1>5, <1>6, <2>1, <2>3, <3>1, GoesResting
    <3>2. CASE p = "post"
      <4>1. Pre(fn[t], cur[t])'
          BY <2>2, <2>3, <3>2 DEF Pre
      <4> QED BY <1>1, <1>2, <1>5, <1>6, <2>1, <2>3, <3>2, <4>1, GoesAsking
    <3> QED BY <2>2, <3>1, <3>2
  <2>5. p \in Places /\ p \in {"recv", "fetch", "post"} /\ pc[t] # "accept"
      BY <1>1, <2>2 DEF Places
  <2> HIDE DEF t
  <2> QED BY <1>1, <1>4, <1>6, <2>1, <2>2, <2>4, <2>5, OwnStep DEF t
<1>7. CASE netconn_recv
  <2>1. CASE conn' = conn
    <3>1. conn' = [conn EXCEPT ![c] = n]
        BY <1>1, <2>1 DEF TypeInv, n
    <3>2. Goes(t, "fetch") \/ Calls(t, "do_close")
        BY <1>7 DEF netconn_recv
    <3> QED BY <1>3, <1>6, <3>1, <3>2
  <2>2. CASE conn' = [conn EXCEPT ![c].err = "ERR_MEM"] /\ Calls(t, "do_close")
    <3> DEFINE k == [n EXCEPT !.err = "ERR_MEM"]
    <3>1. conn' = [conn EXCEPT ![c] = k]
        BY <2>2 DEF n
    <3>2. /\ ConnInv(k) /\ k.used = n.used /\ k.pcb = n.pcb /\ k.state = n.state
          /\ k.op_completed = n.op_completed
        BY <1>3, ErrKeepsInv DEF Errs
    <3>3. k \in Netconns
        BY <3>2 DEF ConnInv
    <3> HIDE DEF k
    <3> QED BY <1>6, <2>2, <3>1, <3>2, <3>3
  <2> QED BY <1>7, <2>1, <2>2 DEF netconn_recv
<1>8. CASE sys_arch_mbox_fetch
  <2> DEFINE k == Fetched(n)
  <2>1. n.recvmbox # <<>> /\ conn' = [conn EXCEPT ![c] = k]
        /\ (Calls(t, "do_close") \/ Calls(t, "do_recv"))
      BY <1>8 DEF sys_arch_mbox_fetch, n
  <2>2. /\ ConnInv(k) /\ k.used = n.used /\ k.pcb = n.pcb /\ k.state = n.state
        /\ k.op_completed = n.op_completed
      BY <1>3, <2>1, FetchedKeepsInv
  <2>3. k \in Netconns
      BY <2>2 DEF ConnInv
  <2> HIDE DEF k
  <2> QED BY <1>6, <2>1, <2>2, <2>3
<1> QED BY <1>7, <1>8

LEMMA AcceptsStep ==
    ASSUME IInv, netconn_accept
    PROVE  DataInv' /\ Step
<1>1. /\ TypeInv /\ NamesInv /\ BlockedInv /\ AcceptInv
      /\ \A d \in Conns : ConnInv(conn[d])
    BY DEF IInv, DataInv
<1> DEFINE t == Server
           c == Head(acceptmbox)
           q == Tail(acceptmbox)
<1>2. /\ pc[t] = "accept" /\ acceptmbox # <<>> /\ cur' = [cur EXCEPT ![t] = c]
      /\ acceptmbox' = q /\ pc' = [pc EXCEPT ![t] = "recv"] /\ fn' = fn /\ mbox' = mbox
      /\ inpkt' = inpkt /\ blocked' = blocked /\ held' = held /\ conn' = conn
    BY DEF netconn_accept, Goes, tcpip
<1>3. t \in Threads /\ cur[t] = NoConn
    BY <1>1, <1>2 DEF Threads, NamesInv
<1>4. acceptmbox \in Seq(Accepts)
    BY <1>1 DEF TypeInv
<1>5. /\ q \in Seq(Accepts) /\ c \in Accepts /\ c \in Range(acceptmbox)
      /\ \A y : y \in Range(q) => y \in Range(acceptmbox)
    BY <1>2, <1>4, TailMsg
<1>6. c \in Conns /\ c # NoConn
    BY <1>5, NamesAssumption DEF Conns
<1>7. /\ c \notin Range(q)
      /\ \A i, j \in DOMAIN q : q[i] = q[j] => i = j
  <2> DEFINE L == Len(acceptmbox)
  <2>1. /\ L \in Nat \ {0} /\ DOMAIN acceptmbox = 1..L /\ DOMAIN q = 1..(L - 1)
        /\ c = acceptmbox[1] /\ \A i \in 1..(L - 1) : q[i] = acceptmbox[i + 1]
      BY <1>2, <1>4
  <2> HIDE DEF L, q, c
  <2>2. \A i \in 1..(L - 1) : i + 1 \in 1..L /\ i + 1 # 1
      BY <2>1
  <2>3. \A i, j \in 1..L : acceptmbox[i] = acceptmbox[j] => i = j
      BY <1>1, <2>1 DEF AcceptInv
  <2>4. \A i \in 1..(L - 1) : q[i] # c
      BY <2>1, <2>2, <2>3
  <2>5. ASSUME NEW i \in 1..(L - 1), NEW j \in 1..(L - 1), q[i] = q[j] PROVE i = j
    <3>1. i + 1 = j + 1
        BY <2>1, <2>2, <2>3, <2>5
    <3> QED BY <3>1, <2>1
  <2> QED BY <2>1, <2>4, <2>5 DEF Range
<1>8. conn[c].used /\ Idle(conn[c])
    BY <1>1, <1>3, <1>5, <1>6 DEF AcceptInv
<1> HIDE DEF c, q
<1>9. /\ cur'[t] = c /\ pc'[t] = "recv"
      /\ \A u \in Threads \ {t} : cur'[u] = cur[u] /\ pc'[u] = pc[u]
    BY <1>1, <1>2, <1>3 DEF TypeInv
<1>10. /\ Once(mbox)' /\ InpktAccounting'
       /\ \A u \in Threads : u \in Range(mbox)' <=> u \in Range(mbox)
    BY <1>2, SameMailbox
<1>11. TypeInv'
  <2>1. pc' \in [Threads -> Places] /\ cur' \in [Threads -> Conns \cup {NoConn}]
      BY <1>1, <1>2, <1>6 DEF TypeInv, Places
  <2> QED BY <1>1, <1>2, <1>5, <2>1 DEF TypeInv
<1>12. NamesInv'
  <2>1. \A s \in Senders : s \in Threads \ {t}
      BY NamesAssumption DEF Threads
  <2> QED BY <1>1, <1>2, <1>5, <1>6, <1>9, <2>1 DEF NamesInv
<1>13. BlockedInv'
    BY <1>1, <1>2 DEF BlockedInv
<1>14. AcceptInv'
  <2>1. Range(acceptmbox)' = Range(q)
      BY <1>2
  <2>2. \A d \in Range(q) : conn[d].used /\ d # c
      BY <1>1, <1>5, <1>7 DEF AcceptInv
  <2>3. \A d \in Accepts : /\ conn[d].pcb \notin {"closed", "stalled", "syn_sent"}
                           /\ ~Idle(conn[d]) => c = d
                           /\ ~conn[d].used => c # d
    <3> SUFFICES ASSUME NEW d \in Accepts
                 PROVE  /\ conn[d].pcb \notin {"closed", "stalled", "syn_sent"}
                        /\ Idle(conn[d])
                        /\ ~conn[d].used => c # d
        OBVIOUS
    <3>1. d # NoConn
        BY NamesAssumption DEF Conns
    <3>2. /\ conn[d].pcb \notin {"closed", "stalled", "syn_sent"}
          /\ ~Idle(conn[d]) => cur[Server] = d
        BY <1>1 DEF AcceptInv
    <3>3. Idle(conn[d])
        BY <1>3, <3>1, <3>2 DEF Idle
    <3>4. ~conn[d].used => c # d
        BY <1>8
    <3> QED BY <3>2, <3>3, <3>4
  <2>4. cur'[Server] = c /\ conn' = conn /\ acceptmbox' = q
      BY <1>2, <1>9
  <2>5. /\ \A d \in Range(acceptmbox)' : conn'[d].used /\ d # cur'[Server]
        /\ \A d \in Accepts : /\ conn'[d].pcb \notin {"closed", "stalled", "syn_sent"}
                              /\ ~Idle(conn'[d]) => cur'[Server] = d
                              /\ ~conn'[d].used => cur'[Server] # d
      BY <2>1, <2>2, <2>3, <2>4
  <2>6. \A i, j \in DOMAIN acceptmbox' : acceptmbox'[i] = acceptmbox'[j] => i = j
      BY <1>7, <2>4
  <2> QED BY <2>5, <2>6 DEF AcceptInv
<1>15. DataInv'
    BY <1>1, <1>2, <1>10, <1>11, <1>12, <1>13, <1>14 DEF DataInv
<1>16. Moves(t)
  <2>1. Resting(t)
      BY <1>2, <1>3, StageResting
  <2>2. Resting(t)'
      BY <1>2, <1>3, <1>8, <1>9, <1>10, <2>1 DEF Resting
  <2> QED BY <2>1, <2>2 DEF Moves, Stays
<1>17. \A u \in Threads \ {t} : Stays(u)
    BY <1>2, <1>9, <1>10, Untouched
<1> QED BY <1>3, <1>15, <1>16, <1>17 DEF Step

LEMMA ServerReturnsStep ==
    ASSUME IInv, sys_arch_sem_wait(Server)
    PROVE  DataInv' /\ Step
<1> DEFINE t == Server
           c == cur[t]
           n == conn[c]
<1>1. TypeInv /\ NamesInv /\ t \in Threads /\ pc[t] = "wait" /\ ServerReturns
      /\ UNCHANGED <<mbox, acceptmbox, tcpip>>
    BY DEF IInv, DataInv, Threads, sys_arch_sem_wait
<1>2. Answered(t)
    BY <1>1, StageAnswered DEF sys_arch_sem_wait
<1>3. /\ c \in Conns /\ c \in Accepts /\ n \in Netconns /\ ConnInv(n)
      /\ n.pcb \notin {"closed", "stalled", "syn_sent"} /\ c # NoConn
    BY <1>1, OwnNetconn
<1>4. n.state = "NONE" /\ n.used /\ Post(fn[t], c) /\ t \notin Range(mbox)
    BY <1>2 DEF Answered
<1>5. /\ mbox' = mbox /\ acceptmbox' = acceptmbox /\ inpkt' = inpkt /\ blocked' = blocked
      /\ held' = held
    BY <1>1 DEF tcpip
<1>6. t \notin Range(mbox)'
    BY <1>4, <1>5
<1> HIDE DEF n
<1>7. CASE fn[t] # "do_delconn"
  <2> DEFINE k == [n EXCEPT !.op_completed = 0]
  <2>1. conn' = [conn EXCEPT ![c] = k] /\ cur' = cur
      BY <1>1, <1>7 DEF ServerReturns, n
  <2>2. /\ ConnInv(k) /\ k.used = n.used /\ k.pcb = n.pcb /\ k.state = n.state
        /\ k.op_completed = 0
      BY <1>3, TakenKeepsInv
  <2>3. k \in Netconns
      BY <2>2 DEF ConnInv
  <2> HIDE DEF k
  <2>4. Idle(k) /\ k.used /\ conn'[c] = k /\ k.pcb = conn[cur[t]].pcb
      BY <1>1, <1>3, <1>4, <2>1, <2>2 DEF Idle, TypeInv, n
  <2>5. PICK p \in {"recv", "post"}, f \in {"do_recv", "do_write", "do_close", "do_delconn"} :
          /\ pc' = [pc EXCEPT ![t] = p] /\ fn' = [fn EXCEPT ![t] = f]
          /\ p = "post" => f \in {"do_write", "do_delconn"}
          /\ f = "do_delconn" => fn[t] = "do_close"
    <3>1. /\ fn[t] \in {"do_recv", "do_write", "do_close", "do_delconn"}
          /\ fn = [fn EXCEPT ![t] = fn[t]]
        BY <1>1 DEF TypeInv, NamesInv, ApiFunctions
    <3>2. CASE Goes(t, "recv") /\ fn[t] = "do_write"
        BY <1>7, <3>1, <3>2 DEF Goes
    <3>3. CASE Calls(t, "do_write")
        BY <3>3 DEF Calls
    <3>4. CASE Calls(t, "do_delconn") /\ fn[t] = "do_close"
        BY <3>4 DEF Calls
    <3> QED BY <1>1, <1>7, <3>2, <3>3, <3>4 DEF ServerReturns
  <2>6. pc'[t] = p /\ fn'[t] = f /\ cur'[t] = c
      BY <1>1, <2>1, <2>5 DEF TypeInv
  <2>7. Moves(t)
    <3>1. CASE p = "recv"
        BY <1>1, <1>2, <1>6, <2>3, <2>4, <2>6, <3>1, GoesResting
    <3>2. CASE p = "post"
      <4>1. f = "do_delconn" => n.pcb = "null" /\ blocked # c
          BY <1>4, <2>5 DEF Post, Quiet, n
      <4>2. Pre(fn[t], cur[t])'
          BY <1>3, <1>5, <2>2, <2>4, <2>5, <2>6, <3>2, <4>1 DEF Pre, Quiet
      <4> QED BY <1>1, <1>2, <1>6, <2>3, <2>4, <2>6, <3>2, <4>2, GoesAsking
    <3> QED BY <2>5, <3>1, <3>2
  <2>8. /\ p \in Places /\ p \in {"recv", "fetch", "post"} /\ pc[t] # "accept"
        /\ f \in ApiFunctions /\ f \notin {"do_newconn", "do_connect"}
        /\ UNCHANGED <<mbox, acceptmbox, tcpip, cur>>
      BY <1>1, <2>1, <2>5 DEF Places, ApiFunctions
  <2> HIDE DEF t
  <2> QED BY <1>1, <2>1, <2>2, <2>3, <2>4, <2>5, <2>7, <2>8, OwnStep DEF t
<1>8. CASE fn[t] = "do_delconn"
  <2> DEFINE k == netconn_free(n)
  <2>1. /\ conn' = [conn EXCEPT ![c] = k] /\ cur' = [cur EXCEPT ![t] = NoConn]
        /\ pc' = [pc EXCEPT ![t] = "accept"] /\ fn' = fn
      BY <1>1, <1>8 DEF ServerReturns, Goes, n
  <2>2. n.pcb = "null" /\ blocked # c
      BY <1>4, <1>8 DEF Post, Quiet, n
  <2>3. k \in Netconns /\ ConnInv(k) /\ k.used = FALSE /\ k.pcb = "null" /\ Idle(k)
      BY <1>3, <1>4, <2>2, FreeFields
  <2> HIDE DEF k
  <2>4. /\ pc'[t] = "accept" /\ cur'[t] = NoConn
        /\ \A u \in Threads \ {t} : pc'[u] = pc[u] /\ cur'[u] = cur[u]
      BY <1>1, <2>1 DEF TypeInv
  <2>5. /\ Once(mbox)' /\ InpktAccounting'
        /\ \A u \in Threads : u \in Range(mbox)' <=> u \in Range(mbox)
      BY <1>5, SameMailbox
  <2>6. TypeInv'
    <3>1. pc' \in [Threads -> Places] /\ cur' \in [Threads -> Conns \cup {NoConn}]
        BY <1>1, <2>1 DEF TypeInv, Places
    <3> QED BY <1>1, <1>5, <2>1, <2>3, <3>1 DEF TypeInv
  <2>7. NamesInv'
    <3>1. \A s \in Senders : s \in Threads \ {t}
        BY NamesAssumption DEF Threads
    <3> QED BY <1>1, <2>1, <2>4, <3>1 DEF NamesInv
  <2>8. Moves(t)
    <3>1. Resting(t)'
        BY <1>6, <2>4 DEF Resting
    <3> QED BY <1>2, <3>1 DEF Moves
  <2>9. Fits(c, k)
      BY <1>3, <2>2, <2>3, <2>4 DEF Fits, Idle
  <2>10. \A u \in Threads \ {t} : /\ UNCHANGED <<pc[u], fn[u], cur[u]>>
                                  /\ u \in Range(mbox)' <=> u \in Range(mbox)
      BY <2>1, <2>4, <2>5
  <2> QED BY <1>1, <1>3, <1>5, <2>1, <2>3, <2>5, <2>6, <2>7, <2>8, <2>9, <2>10, CallerStep
<1> QED BY <1>7, <1>8

LEMMA SenderReturnsStep ==
    ASSUME IInv, NEW s \in Senders, sys_arch_sem_wait(s)
    PROVE  DataInv' /\ Step
<1> DEFINE n == conn[s]
           ok == n.err = "ERR_OK"
<1>1. /\ TypeInv /\ NamesInv /\ s \in Threads /\ s # Server /\ pc[s] = "wait"
      /\ SenderReturns(s) /\ UNCHANGED <<mbox, acceptmbox, tcpip>>
    BY NamesAssumption DEF IInv, DataInv, Threads, sys_arch_sem_wait
<1>2. Answered(s) /\ cur[s] = s
    BY <1>1, StageAnswered DEF sys_arch_sem_wait, NamesInv
<1>3. s \in Conns /\ n \in Netconns /\ ConnInv(n)
    BY <1>1, <1>2, OwnNetconn
<1>4. n.state = "NONE" /\ n.used /\ Post(fn[s], s) /\ s \notin Range(mbox)
    BY <1>2 DEF Answered
<1>5. s \notin Range(mbox)' /\ cur' = cur /\ blocked' = blocked
    BY <1>1, <1>4 DEF tcpip, SenderReturns
<1>6. fn[s] \in {"do_newconn", "do_connect", "do_write", "do_close"}
    BY <1>1 DEF TypeInv, NamesInv, ApiFunctions
<1>7. /\ fn[s] = "do_newconn" => IF ok THEN n.pcb = "closed" ELSE n.pcb = "null" /\ blocked # s
      /\ fn[s] = "do_connect" => n.pcb = "null" \/ (n.pcb # "closed" /\ ok)
      /\ fn[s] = "do_write" => n.pcb # "closed"
      /\ fn[s] = "do_close" => n.pcb = "null"
    BY <1>4 DEF Post, Quiet
<1> DEFINE m == [n EXCEPT !.op_completed = 0]
           k == IF fn[s] = "do_newconn" /\ ~ok THEN netconn_free(m) ELSE m
<1>8. conn' = [conn EXCEPT ![s] = k]
    BY <1>1 DEF SenderReturns
<1>9. /\ m \in Netconns /\ ConnInv(m) /\ m.used = n.used /\ m.pcb = n.pcb
      /\ m.state = n.state /\ m.op_completed = 0
    BY <1>3, TakenKeepsInv DEF ConnInv
<1>10. PICK p \in {"new", "idle", "loop", "post"},
            f \in {"do_newconn", "do_connect", "do_write", "do_close"} :
         /\ pc' = [pc EXCEPT ![s] = p] /\ fn' = [fn EXCEPT ![s] = f]
         /\ p = "new" <=> fn[s] = "do_newconn" /\ ~ok
         /\ p = "idle" => (fn[s] = "do_newconn" /\ ok) \/ fn[s] = "do_close"
         /\ p = "loop" => (fn[s] = "do_connect" /\ ok) \/ fn[s] = "do_write"
         /\ p = "post" => \/ f = "do_connect" /\ fn[s] = "do_connect" /\ ~ok
                          \/ f = "do_close"
  <2>1. fn = [fn EXCEPT ![s] = fn[s]]
      BY <1>1 DEF TypeInv
  <2>2. CASE fn[s] = "do_newconn"
    <3>1. IF ok THEN Goes(s, "idle") ELSE Goes(s, "new")
        BY <1>1, <2>2 DEF SenderReturns
    <3> QED BY <2>1, <2>2, <3>1 DEF Goes
  <2>3. CASE fn[s] = "do_connect"
    <3>1. IF ok THEN Goes(s, "loop") ELSE Calls(s, "do_connect")
        BY <1>1, <2>3 DEF SenderReturns
    <3> QED BY <2>1, <2>3, <3>1 DEF Goes, Calls
  <2>4. CASE fn[s] = "do_write"
    <3>1. IF ok THEN Goes(s, "loop") ELSE Calls(s, "do_close")
        BY <1>1, <2>4 DEF SenderReturns
    <3> QED BY <2>1, <2>4, <3>1 DEF Goes, Calls
  <2>5. CASE fn[s] = "do_close"
    <3>1. IF ok THEN Goes(s, "idle") ELSE Calls(s, "do_close")
        BY <1>1, <2>5 DEF SenderReturns
    <3> QED BY <2>1, <2>5, <3>1 DEF Goes, Calls
  <2> QED BY <1>6, <2>2, <2>3, <2>4, <2>5
<1>11. /\ k \in Netconns /\ ConnInv(k) /\ Idle(k) /\ k.pcb = n.pcb
       /\ k.used <=> p # "new"
  <2>1. CASE p = "new"
    <3>1. fn[s] = "do_newconn" /\ ~ok
        BY <1>10, <2>1
    <3>2. k = netconn_free(m) /\ m.pcb = "null" /\ m.state = "NONE"
        BY <1>4, <1>7, <1>9, <3>1
    <3> HIDE DEF m, k
    <3>3. k \in Netconns /\ ConnInv(k) /\ k.used = FALSE /\ k.pcb = "null" /\ Idle(k)
        BY <1>9, <3>2, FreeFields
    <3> QED BY <1>9, <2>1, <3>2, <3>3
  <2>2. CASE p # "new"
    <3>1. k = m
        BY <1>10, <2>2
    <3> QED BY <1>4, <1>9, <2>2, <3>1 DEF Idle
  <2> QED BY <2>1, <2>2
<1> HIDE DEF k, m, n, ok
<1>12. pc'[s] = p /\ fn'[s] = f /\ cur'[s] = s /\ conn'[s] = k
    BY <1>1, <1>2, <1>3, <1>5, <1>8, <1>10 DEF TypeInv
<1>13. Moves(s)
  <2>1. CASE p = "post"
    <3>1. Pre(fn[s], cur[s])'
        BY <1>7, <1>10, <1>11, <1>12, <2>1 DEF Pre
    <3> QED BY <1>1, <1>2, <1>5, <1>11, <1>12, <2>1, <3>1, GoesAsking
  <2>2. CASE p # "post"
    <3>1. /\ p = "idle" => k.pcb \in {"null", "closed"}
          /\ p = "loop" => k.pcb # "closed"
        BY <1>7, <1>10, <1>11
    <3>2. /\ pc'[s] \notin {"post", "wait"}
          /\ conn'[cur'[s]] = k
          /\ k.used <=> pc'[s] # "new"
          /\ pc'[s] = "idle" => k.pcb \in {"null", "closed"}
          /\ pc'[s] = "loop" => k.pcb # "closed"
        BY <1>10, <1>11, <1>12, <2>2, <3>1
    <3> QED BY <1>1, <1>2, <1>5, <1>11, <3>2, GoesResting
  <2> QED BY <2>1, <2>2
<1>14. /\ p \in Places /\ f \in ApiFunctions /\ f # "do_delconn" /\ f # "do_recv"
       /\ UNCHANGED <<mbox, acceptmbox, tcpip, cur>> /\ pc[s] # "accept"
       /\ k.used \/ blocked # cur[s]
       /\ k.pcb = conn[cur[s]].pcb
       /\ conn' = [conn EXCEPT ![cur[s]] = k]
    BY <1>1, <1>2, <1>5, <1>7, <1>8, <1>10, <1>11 DEF Places, ApiFunctions, n
<1> QED BY <1>1, <1>10, <1>11, <1>13, <1>14, OwnStep

LEMMA SenderCallsStep ==
    ASSUME IInv, NEW s \in Senders, SenderCalls(s)
    PROVE  DataInv' /\ Step
<1> DEFINE n == conn[s]
<1>1. /\ TypeInv /\ NamesInv /\ s \in Threads /\ s # Server /\ pc[s] \in {"new", "idle", "loop"}
      /\ UNCHANGED <<mbox, acceptmbox, tcpip, cur>>
    BY NamesAssumption DEF IInv, DataInv, Threads, SenderCalls
<1>2. cur[s] = s /\ Resting(s)
    BY <1>1, StageResting DEF NamesInv
<1>3. /\ s \in Conns /\ n \in Netconns /\ ConnInv(n)
      /\ blocked = s => n.used
    BY <1>1, <1>2, OwnNetconn
<1>4. /\ Idle(n) /\ (n.used <=> pc[s] # "new") /\ s \notin Range(mbox)
      /\ pc[s] = "idle" => n.pcb \in {"null", "closed"}
      /\ pc[s] = "loop" => n.pcb # "closed"
    BY <1>1, <1>2 DEF Resting
<1>5. s \notin Range(mbox)' /\ cur' = cur /\ blocked' = blocked
    BY <1>1, <1>4 DEF tcpip
<1>6. PICK f \in {"do_newconn", "do_connect", "do_write"} :
        /\ pc' = [pc EXCEPT ![s] = "post"] /\ fn' = [fn EXCEPT ![s] = f]
        /\ IF f = "do_newconn" THEN pc[s] = "new" /\ conn' = [conn EXCEPT ![s] = netconn_alloc]
                               ELSE conn' = conn
        /\ f = "do_connect" => pc[s] = "idle"
        /\ f = "do_write" => pc[s] = "loop"
    BY DEF SenderCalls, Calls
<1> DEFINE k == IF f = "do_newconn" THEN netconn_alloc ELSE n
<1>7. conn' = [conn EXCEPT ![s] = k]
    BY <1>1, <1>6 DEF TypeInv
<1>8. k \in Netconns /\ ConnInv(k) /\ Idle(k) /\ k.used /\ k.pcb = n.pcb
  <2>1. CASE f = "do_newconn"
    <3>1. n.pcb = "null"
        BY <1>3, <1>4, <1>6, <2>1 DEF ConnInv, OpInv
    <3> QED BY <2>1, <3>1, AllocFields DEF Blank
  <2>2. CASE f # "do_newconn"
      BY <1>3, <1>4, <1>6, <2>2
  <2> QED BY <2>1, <2>2
<1>9. f = "do_newconn" => k = netconn_alloc /\ blocked # s
    BY <1>3, <1>4, <1>6
<1> HIDE DEF k, n
<1>10. pc'[s] = "post" /\ fn'[s] = f /\ cur'[s] = s /\ conn'[s] = k
    BY <1>1, <1>2, <1>3, <1>5, <1>6, <1>7 DEF TypeInv
<1>11. Moves(s)
  <2>1. Pre(fn[s], cur[s])'
      BY <1>4, <1>5, <1>6, <1>8, <1>9, <1>10 DEF Pre
  <2> QED BY <1>1, <1>2, <1>5, <1>8, <1>10, <2>1, GoesAsking
<1>12. /\ "post" \in Places /\ f \in ApiFunctions /\ f # "do_delconn" /\ f # "do_recv"
       /\ pc[s] # "accept" /\ k.pcb = conn[cur[s]].pcb
       /\ conn' = [conn EXCEPT ![cur[s]] = k]
    BY <1>1, <1>2, <1>6, <1>7, <1>8 DEF Places, ApiFunctions, n
<1> QED BY <1>1, <1>6, <1>8, <1>11, <1>12, OwnStep

(***************************************************************************)
(* The invariant is inductive                                              *)
(***************************************************************************)
LEMMA InitInv == Init => IInv
<1> SUFFICES ASSUME Init PROVE IInv
    OBVIOUS
<1> DEFINE k == netconn_free(netconn_alloc)
<1>1. k \in Netconns /\ ConnInv(k) /\ k.used = FALSE /\ k.pcb = "null" /\ Idle(k)
      /\ k.state = "NONE"
  <2>1. /\ netconn_alloc \in Netconns /\ netconn_alloc.pcb = "null"
        /\ netconn_alloc.state = "NONE"
      BY AllocFields DEF Blank
  <2> QED BY <2>1, FreeFields DEF Idle
<1>2. \A c \in Conns : conn[c] = k
    BY DEF Init
<1>3. conn \in [Conns -> Netconns]
    BY <1>1 DEF Init
<1> HIDE DEF k
<1>4. /\ \A s \in Senders : s \in Threads /\ s # Server /\ s \in Conns
      /\ Server \in Threads
    BY NamesAssumption DEF Threads, Conns
<1>5. TypeInv
  <2>1. /\ mbox \in Seq(Threads \cup {Packet}) /\ Len(mbox) <= QueueLength
        /\ acceptmbox \in Seq(Accepts) /\ inpkt \in Nat /\ held \in 0..1
        /\ blocked \in Conns \cup {NoConn}
      BY SizesAssumption DEF Init
  <2>2. pc \in [Threads -> Places] /\ fn \in [Threads -> ApiFunctions]
      BY DEF Init, Places, ApiFunctions
  <2>3. cur \in [Threads -> Conns \cup {NoConn}]
      BY DEF Init, Threads, Conns
  <2> QED BY <1>3, <2>1, <2>2, <2>3 DEF TypeInv
<1>6. NamesInv
    BY <1>4 DEF Init, NamesInv
<1>7. BlockedInv /\ Once(mbox)
    BY <1>1, <1>2 DEF Init, BlockedInv, Once
<1>8. Range(mbox) = {} /\ Range(acceptmbox) = {} /\ PacketsIn(mbox) = {}
    BY DEF Init, Range, PacketsIn
<1>9. AcceptInv
  <2>1. cur[Server] = NoConn /\ \A c \in Accepts : c \in Conns /\ c # NoConn
      BY <1>4, NamesAssumption DEF Init, Conns
  <2>2. acceptmbox = <<>>
      BY DEF Init
  <2> QED BY <1>1, <1>2, <1>8, <2>1, <2>2 DEF AcceptInv
<1>10. InpktAccounting
  <2>1. Cardinality(PacketsIn(mbox)) = 0
      BY <1>8, FS_EmptySet
  <2> QED BY <2>1, SizesAssumption DEF Init, InpktAccounting
<1>11. ASSUME NEW t \in Threads PROVE ThreadInv(t)
  <2>1. CASE t = Server
    <3>1. pc[t] = "accept"
        BY <2>1 DEF Init
    <3> QED BY <1>8, <3>1 DEF ThreadInv, Resting
  <2>2. CASE t # Server
    <3>1. pc[t] = "new" /\ cur[t] = t /\ t \in Conns
        BY <2>2 DEF Init, Threads, Conns
    <3> QED BY <1>1, <1>2, <1>8, <3>1 DEF ThreadInv, Resting
  <2> QED BY <2>1, <2>2
<1> QED BY <1>1, <1>2, <1>5, <1>6, <1>7, <1>9, <1>10, <1>11 DEF IInv, DataInv

LEMMA NextStep ==
    ASSUME IInv, Next
    PROVE  DataInv' /\ Step
<1>1. CASE tcpip_thread
    BY <1>1, InPktStep, ErrTcpStep, ApiMsgStep DEF tcpip_thread
<1>2. CASE tcp_tmr
    BY <1>2, TimerStep DEF tcp_tmr
<1>3. CASE tcpip_input
    BY <1>3, TcpipInputStep
<1>4. CASE tcpecho_thread
  <2>1. Server \in Threads
      BY DEF Threads
  <2> QED BY <1>4, <2>1, AcceptsStep, ReadStep, PostStep, ServerReturnsStep DEF tcpecho_thread
<1>5. ASSUME NEW s \in Senders, tcp_sendData_thread(s) \/ SenderCalls(s)
      PROVE  DataInv' /\ Step
  <2>1. s \in Threads
      BY DEF Threads
  <2> QED BY <1>5, <2>1, PostStep, SenderReturnsStep, SenderCallsStep DEF tcp_sendData_thread
<1> QED BY <1>1, <1>2, <1>3, <1>4, <1>5 DEF Next

LEMMA StepThreads ==
    ASSUME Step
    PROVE  \A t \in Threads : ThreadInv(t)'
BY DEF Step, Moves, Stays, ThreadInv

LEMMA StutterInv ==
    ASSUME IInv, UNCHANGED vars
    PROVE  IInv'
<1>1. /\ mbox' = mbox /\ acceptmbox' = acceptmbox /\ inpkt' = inpkt /\ blocked' = blocked
      /\ held' = held /\ pc' = pc /\ fn' = fn /\ cur' = cur /\ conn' = conn
    BY DEF vars
<1>2. DataInv'
  <2>1. /\ TypeInv /\ NamesInv /\ BlockedInv /\ AcceptInv
        /\ \A d \in Conns : ConnInv(conn[d])
      BY DEF IInv, DataInv
  <2>2. TypeInv' /\ NamesInv' /\ BlockedInv'
      BY <1>1, <2>1 DEF TypeInv, NamesInv, BlockedInv
  <2>3. AcceptInv'
    <3>1. Range(acceptmbox)' = Range(acceptmbox)
        BY <1>1
    <3> QED BY <1>1, <2>1, <3>1 DEF AcceptInv
  <2>4. Once(mbox)' /\ InpktAccounting'
      BY <1>1, SameMailbox
  <2> QED BY <1>1, <2>1, <2>2, <2>3, <2>4 DEF DataInv
<1>3. \A t \in Threads : t \in Range(mbox)' <=> t \in Range(mbox)
    BY <1>1
<1>4. \A t \in Threads : Stays(t)
    BY <1>1, <1>3, Untouched
<1>5. \A t \in Threads : ThreadInv(t)'
    BY <1>4 DEF Stays, ThreadInv
<1> QED BY <1>2, <1>5 DEF IInv

\* The netconn API of api_lib.c and api_msg.c keeps its inductive invariant,
\* whatever the peers, the timers and the memory pools do.
THEOREM Invariance == Spec => []IInv
<1>1. Init => IInv
    BY InitInv
<1>2. IInv /\ [Next]_vars => IInv'
  <2>1. ASSUME IInv, Next PROVE IInv'
    <3>1. DataInv' /\ Step
        BY <2>1, NextStep
    <3> QED BY <3>1, StepThreads DEF IInv
  <2>2. ASSUME IInv, UNCHANGED vars PROVE IInv'
      BY <2>2, StutterInv
  <2> QED BY <2>1, <2>2
<1> QED BY <1>1, <1>2, PTL DEF Spec

(***************************************************************************)
(* What follows from it                                                    *)
(***************************************************************************)
LEMMA TypesOK ==
    ASSUME IInv
    PROVE  TypeOK
<1>1. TypeInv /\ InpktAccounting /\ \A c \in Conns : ConnInv(conn[c])
    BY DEF IInv, DataInv
<1>2. \A c \in Conns : Len(conn[c].recvmbox) <= RecvLength
    BY <1>1 DEF ConnInv, StreamInv
<1>3. inpkt \in 0..NumInpkt
  <2>1. Cardinality(PacketsIn(mbox)) \in Nat /\ NumInpkt \in Nat
      BY <1>1, PacketsFinite, SizesAssumption DEF TypeInv
  <2> QED BY <1>1, <2>1 DEF TypeInv, InpktAccounting
<1> QED BY <1>1, <1>2, <1>3 DEF TypeOK, TypeInv

\* No mailbox of tcpip_thread or of a netconn overflows, and the pool of
\* MEMP_TCPIP_MSG_INPKT never holds more than it was made with.
THEOREM TypeCorrect == Spec => []TypeOK
<1>1. IInv => TypeOK
    BY TypesOK
<1> QED BY <1>1, Invariance, PTL

\* Wherever do_writemore may run, from sent_tcp or poll_tcp, the caller of
\* netconn_write still waits with its message on its stack; and what do_write
\* asserts, that conn->write_msg is not in use, holds.
THEOREM WriteMsgSafe == Spec => []WriteMsgValid
<1>1. ASSUME IInv PROVE WriteMsgValid
  <2> SUFFICES ASSUME NEW c \in Conns
               PROVE  /\ conn[c].state = "WRITE" =>
                           /\ conn[c].write_msg
                           /\ \E t \in Threads : cur[t] = c /\ pc[t] = "wait" /\ fn[t] = "do_write"
                      /\ conn[c].pcb # "null" /\ conn[c].state # "WRITE" => ~conn[c].write_msg
      BY DEF WriteMsgValid
  <2>1. OpInv(conn[c])
      BY <1>1 DEF IInv, DataInv, ConnInv
  <2>2. ASSUME conn[c].state = "WRITE"
        PROVE  \E t \in Threads : cur[t] = c /\ pc[t] = "wait" /\ fn[t] = "do_write"
    <3>1. PICK t \in Threads : cur[t] = c /\ pc[t] # "accept"
      <4>1. CASE c \in Senders
        <5>1. c \in Threads /\ cur[c] = c /\ pc[c] # "accept"
            BY <1>1, <4>1 DEF IInv, DataInv, NamesInv, Threads
        <5> QED BY <5>1
      <4>2. CASE c \in Accepts
        <5>1. cur[Server] = c
            BY <1>1, <2>2, <4>2 DEF IInv, DataInv, AcceptInv, Idle
        <5>2. pc[Server] # "accept" /\ Server \in Threads
            BY <1>1, <5>1, NamesAssumption DEF IInv, DataInv, NamesInv, Threads
        <5> QED BY <5>1, <5>2
      <4> QED BY <4>1, <4>2 DEF Conns
    <3>2. Running(t)
        BY <1>1, <2>2, <3>1 DEF IInv, ThreadInv, Resting, Asked, Asking, Answered, Idle
    <3> QED BY <2>2, <3>1, <3>2 DEF Running, Matches
  <2> QED BY <2>1, <2>2 DEF OpInv
<1> QED BY <1>1, Invariance, PTL

\* Once netconn_free has put a netconn back into its pool, no pcb, no mailbox
\* and no thread refers to it any more.
THEOREM NoUseAfterFree == Spec => []FreeIsForgotten
<1>1. ASSUME IInv PROVE FreeIsForgotten
  <2> SUFFICES ASSUME NEW c \in Conns, ~conn[c].used
               PROVE  /\ conn[c].pcb = "null" /\ conn[c].state = "NONE"
                      /\ c \notin Range(acceptmbox) /\ c # blocked /\ cur[Server] # c
      BY DEF FreeIsForgotten
  <2>1. conn[c].pcb = "null" /\ conn[c].state = "NONE"
      BY <1>1 DEF IInv, DataInv, ConnInv, OpInv
  <2>2. c \notin Range(acceptmbox)
      BY <1>1 DEF IInv, DataInv, AcceptInv
  <2>3. c # blocked
      BY <1>1, NamesAssumption DEF IInv, DataInv, BlockedInv
  <2>4. cur[Server] # c
      BY <1>1, NamesAssumption DEF IInv, DataInv, NamesInv, AcceptInv
  <2> QED BY <2>1, <2>2, <2>3, <2>4
<1> QED BY <1>1, Invariance, PTL

\* What TCP has accepted for a netconn reaches its reader once and in order,
\* although recv_tcp refuses what its mailbox has no room for.
THEOREM StreamSafe == Spec => []StreamIntact
<1>1. IInv => StreamIntact
    BY DEF IInv, DataInv, ConnInv, StreamInv, StreamIntact
<1> QED BY <1>1, Invariance, PTL

\* Whenever a connection is lost, err_tcp or do_close_internal ends the connect,
\* write or close that waits for it, for any number of connections.
THEOREM LossesEndOperations == Spec => []LossEndsOperation
<1>1. IInv => LossEndsOperation
  <2> SUFFICES ASSUME IInv, NEW c \in Conns, c # blocked
               PROVE  /\ conn[c].state = "CONNECT" => conn[c].pcb \in {"stalled", "syn_sent"}
                      /\ conn[c].state = "WRITE" => conn[c].pcb \in {"estab", "close_wait"}
                      /\ conn[c].state = "CLOSE" => conn[c].pcb # "null"
      BY DEF LossEndsOperation
  <2>1. conn[c] \in Netconns /\ PcbInv(conn[c])
      BY DEF IInv, DataInv, ConnInv
  <2>2. conn[c].pcb \in Pcbs
      BY <2>1 DEF Netconns
  <2>3. conn[c].state # "NONE" => conn[c].pcb # "null"
      BY DEF IInv, DataInv, BlockedInv
  <2> QED BY <2>1, <2>2, <2>3 DEF PcbInv, Pcbs
<1> QED BY <1>1, Invariance, PTL

\* tcpip_input and tcpip_thread lose no element of MEMP_TCPIP_MSG_INPKT and
\* free none twice, even while err_tcp holds tcpip_thread up.
THEOREM InpktConserved == Spec => []InpktAccounting
<1>1. IInv => InpktAccounting
    BY DEF IInv, DataInv
<1> QED BY <1>1, Invariance, PTL

(***************************************************************************)
(* A netconn call keeps the promise of ApiCall                             *)
(***************************************************************************)
\* The stage of a thread is its phase.
LEMMA PhaseOf ==
    IInv => \A t \in Threads : /\ Resting(t) => Phase(t) = "idle"
                               /\ Asked(t) => Phase(t) = "asked"
                               /\ Answered(t) => Phase(t) = "answered"
<1> SUFFICES ASSUME IInv, NEW t \in Threads
             PROVE  /\ Resting(t) => Phase(t) = "idle"
                    /\ Asked(t) => Phase(t) = "asked"
                    /\ Answered(t) => Phase(t) = "answered"
    OBVIOUS
<1>1. pc[t] # "accept" => cur[t] # NoConn
    BY OwnNetconn
<1>2. pc[t] = "accept" => cur[t] = NoConn
    BY NamesAssumption DEF IInv, DataInv, NamesInv, Threads
<1>3. ASSUME Resting(t) PROVE Phase(t) = "idle"
  <2>1. pc[t] \notin {"post", "wait"} /\ ~Pending(t) /\ ~Signalled(t)
      BY <1>1, <1>2, <1>3 DEF Resting, Pending, Signalled, Idle
  <2> QED BY <2>1 DEF Phase
<1>4. ASSUME Asked(t) PROVE Phase(t) = "asked"
  <2>1. pc[t] \in {"post", "wait"} /\ Pending(t) /\ ~Signalled(t)
      BY <1>1, <1>4 DEF Asked, Asking, Running, Pending, Signalled, Idle
  <2> QED BY <2>1 DEF Phase
<1>5. ASSUME Answered(t) PROVE Phase(t) = "answered"
  <2>1. pc[t] = "wait" /\ ~Pending(t) /\ Signalled(t)
      BY <1>1, <1>5 DEF Answered, Pending, Signalled
  <2> QED BY <2>1 DEF Phase
<1> QED BY <1>3, <1>4, <1>5

phases == [t \in Threads |-> Phase(t)]

\* Whatever happens to the stages of the threads is a step of ApiCall.
LEMMA StepImplements ==
    ASSUME IInv, IInv', Step
    PROVE  [Calling!Next]_phases
<1>1. \A t \in Threads : /\ Resting(t) => Phase(t) = "idle"
                         /\ Asked(t) => Phase(t) = "asked"
                         /\ Answered(t) => Phase(t) = "answered"
    BY PhaseOf
<1>2. \A t \in Threads : /\ Resting(t)' => Phase(t)' = "idle"
                         /\ Asked(t)' => Phase(t)' = "asked"
                         /\ Answered(t)' => Phase(t)' = "answered"
  <2>1. (IInv => \A t \in Threads : /\ Resting(t) => Phase(t) = "idle"
                                    /\ Asked(t) => Phase(t) = "asked"
                                    /\ Answered(t) => Phase(t) = "answered")'
      BY PhaseOf, PTL
  <2> QED BY <2>1
<1>3. \A t \in Threads : Stays(t) => Phase(t)' = Phase(t)
    BY <1>1, <1>2 DEF Stays
<1>4. PICK t \in Threads : Moves(t) /\ \A u \in Threads \ {t} : Stays(u)
    BY DEF Step
<1>5. phases[t] = Phase(t) /\ phases' = [phases EXCEPT ![t] = Phase(t)']
    BY <1>3, <1>4 DEF phases
<1>6. CASE Stays(t)
  <2>1. phases' = phases
      BY <1>3, <1>4, <1>6 DEF phases
  <2> QED BY <2>1
<1>7. CASE ~Stays(t)
  <2>1. \/ phases[t] = "idle" /\ Phase(t)' = "asked"
        \/ phases[t] = "asked" /\ Phase(t)' = "answered"
        \/ phases[t] = "answered" /\ Phase(t)' \in {"idle", "asked"}
      BY <1>1, <1>2, <1>4, <1>5, <1>7 DEF Moves
  <2>2. Calling!Ask(t) \/ Calling!Answer(t) \/ Calling!Return(t)
      BY <1>5, <2>1 DEF Calling!Ask, Calling!Answer, Calling!Return, phases
  <2> QED BY <2>2 DEF Calling!Next
<1> QED BY <1>6, <1>7

\* tcpip_apimsg, the do_ functions, the callbacks and err_tcp implement the
\* call that ApiCall describes: asked, answered exactly once, and only then
\* returned from, with no answer left over for the next call.
THEOREM CallsImplemented == Spec => CallSpec
<1>1. IInv /\ Init => Calling!Init
  <2> SUFFICES ASSUME IInv, Init PROVE \A t \in Threads : Phase(t) = "idle"
      BY DEF Calling!Init
  <2>1. \A t \in Threads : pc[t] \notin {"post", "wait"}
      BY DEF Init
  <2> QED BY <2>1, StageResting, PhaseOf
<1>2. IInv /\ IInv' /\ [Next]_vars => [Calling!Next]_phases
  <2>1. ASSUME IInv, IInv', Next PROVE [Calling!Next]_phases
      BY <2>1, NextStep, StepImplements
  <2>2. ASSUME IInv, IInv', UNCHANGED vars PROVE phases' = phases
    <3>1. \A t \in Threads : Phase(t)' = Phase(t)
        BY <2>2 DEF vars, Phase, Pending, Signalled
    <3> QED BY <3>1 DEF phases
  <2> QED BY <2>1, <2>2
<1>3. CallSpec <=> Calling!Init /\ [][Calling!Next]_phases
    BY DEF CallSpec, Calling!Spec, phases
<1> QED BY <1>1, <1>2, <1>3, Invariance, PTL DEF Spec
=============================================================================
